------------------------------- MODULE Detector -------------------------------
(***************************************************************************)
(* The detector: AlertEvalScheduler's interval, AlertEvaluator's two rules *)
(* over the last minute and AlertService.raise with its in-memory          *)
(* suppression window.  Nothing stops an evaluation from starting while an *)
(* earlier one still awaits the database.  Time advances one interval      *)
(* (60 s) at a time.                                                       *)
(***************************************************************************)
EXTENDS Naturals, Sequences, FiniteSets

CONSTANTS
    DedupIntervals,   \* DEDUP_WINDOW_MS over EVAL_INTERVAL_MS (5)
    MaxIntervals,     \* bound: intervals
    MaxAlertFaults    \* bound: failing statements and a restart

ASSUME DetectorAssumption ==
    DedupIntervals \in Nat \ {0} /\ MaxIntervals \in Nat /\ MaxAlertFaults \in Nat

\* The two rules, each with its category and subject key.  Which severity its
\* thresholds give an alert decides nothing here, so it is left out.
Categories == {"dead-letter-spike", "order-rejection-spike"}

VARIABLES
    interval,     \* now, in intervals; the first is 1
    evaluation,   \* running evaluations: interval |-> step and candidates
    openWindow,   \* category |-> when it was last raised; 0 for never
    alerts,       \* alert_raised rows: category and time
    announced,    \* alerts handed to notify and alert.raised (best effort)
    alertFaults

detectorVars == <<interval, evaluation, openWindow, alerts, announced, alertFaults>>

DetectorInit ==
    /\ interval = 0
    /\ evaluation = <<>>
    /\ openWindow = [c \in Categories |-> 0]
    /\ alerts = {} /\ announced = {}
    /\ alertFaults = 0

\* The interval fires and an evaluation starts.
IntervalPasses ==
    /\ interval < MaxIntervals
    /\ interval' = interval + 1
    /\ evaluation' = Append(evaluation, [pc |-> "deadLetters", found |-> <<>>, alert |-> <<>>])
    /\ UNCHANGED <<openWindow, alerts, announced, alertFaults>>

\* One rule of evaluate: whatever rows the last minute brought, the count is
\* below both thresholds (a failing count is 0), or makes a candidate.
Rule(i, pc, category, next) ==
    /\ evaluation[i].pc = pc
    /\ \/ evaluation' = [evaluation EXCEPT ![i].pc = next]
       \/ evaluation' = [evaluation EXCEPT ![i].pc = next, ![i].found = Append(@, category)]
    /\ UNCHANGED <<interval, openWindow, alerts, announced, alertFaults>>

\* Mutant: the window is one interval short.
SuppressedTooBriefly(category) ==
    openWindow[category] # 0 /\ interval - openWindow[category] < DedupIntervals - 1

\* raise, up to its first await: suppressed inside the window of its key
\* (category and subject, not the severity), else the window opens now.
Suppressed(category) ==
    openWindow[category] # 0 /\ interval - openWindow[category] < DedupIntervals

Raise(i) ==
    /\ evaluation[i].pc = "raise" /\ evaluation[i].found # <<>>
    /\ LET category == Head(evaluation[i].found)
       IN  IF Suppressed(category)
             THEN /\ evaluation' = [evaluation EXCEPT ![i].found = Tail(@)]
                  /\ UNCHANGED openWindow
             ELSE /\ openWindow' = [openWindow EXCEPT ![category] = interval]
                  /\ evaluation' = [evaluation EXCEPT
                       ![i].pc = "insert", ![i].found = Tail(@),
                       ![i].alert = <<category, interval>>]
    /\ UNCHANGED <<interval, alerts, announced, alertFaults>>

\* repo.insert, or its failure, which is only logged.
InsertAlert(i) ==
    /\ evaluation[i].pc = "insert"
    /\ evaluation' = [evaluation EXCEPT ![i].pc = "dispatch"]
    /\ \/ alerts' = alerts \cup {evaluation[i].alert} /\ UNCHANGED alertFaults
       \/ /\ alertFaults < MaxAlertFaults /\ alertFaults' = alertFaults + 1
          /\ UNCHANGED alerts
    /\ UNCHANGED <<interval, openWindow, announced>>

\* dispatchNotify and dispatchStreams, each best effort.
DispatchAlert(i) ==
    /\ evaluation[i].pc = "dispatch"
    /\ evaluation' = [evaluation EXCEPT ![i].pc = "raise"]
    /\ announced' = announced \cup {evaluation[i].alert}
    /\ UNCHANGED <<interval, openWindow, alerts, alertFaults>>

\* A restart forgets the windows and the running evaluations.
DetectorRestart ==
    /\ alertFaults < MaxAlertFaults /\ alertFaults' = alertFaults + 1
    /\ openWindow' = [c \in Categories |-> 0]
    /\ evaluation' = [i \in 1..Len(evaluation) |-> [pc |-> "raise", found |-> <<>>, alert |-> <<>>]]
    /\ UNCHANGED <<interval, alerts, announced>>

DetectorNext ==
    \/ IntervalPasses \/ DetectorRestart
    \/ \E i \in 1..Len(evaluation) :
         \/ Rule(i, "deadLetters", "dead-letter-spike", "failedOrders")
         \/ Rule(i, "failedOrders", "order-rejection-spike", "raise")
         \/ Raise(i) \/ InsertAlert(i) \/ DispatchAlert(i)

DetectorSpec == DetectorInit /\ [][DetectorNext]_detectorVars

-----------------------------------------------------------------------------
\* Types of evaluations and alerts.
DetectorTypeOK ==
    /\ interval \in 0..MaxIntervals
    /\ \A i \in 1..Len(evaluation) :
         evaluation[i].pc \in {"deadLetters", "failedOrders", "raise", "insert", "dispatch"}
    /\ openWindow \in [Categories -> 0..MaxIntervals]
    /\ alerts \cup announced \subseteq Categories \X (1..MaxIntervals)
    /\ alertFaults \in 0..MaxAlertFaults

\* Evaluations that overlap never raise the same category twice within the
\* suppression window; only a restart, which forgets the window, can.
AlertsAreSpaced ==
    alertFaults = 0 =>
        \A a, b \in announced \cup alerts :
            a[1] = b[1] /\ a # b =>
                a[2] >= b[2] + DedupIntervals \/ b[2] >= a[2] + DedupIntervals

==============================================================================
