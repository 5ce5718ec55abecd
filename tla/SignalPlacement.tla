--------------------------- MODULE SignalPlacement ---------------------------
(***************************************************************************)
(* The executor's signal path: BullMQ jobs of the queue signal.detected    *)
(* (four at a time per pod), PlaceOrderUsecase.execute, the order_attempt  *)
(* table and the broker.  The queue delivers at least once: a job whose    *)
(* run threw, died or lost its BullMQ lock is run again, the last while    *)
(* the first run may still be going.                                       *)
(***************************************************************************)
EXTENDS Naturals, FiniteSets

CONSTANTS
    Signals,           \* jobs of the queue
    MaxDeliveries,     \* bound: times the queue runs one job
    MaxSignalFaults    \* bound: lost answers, failing statements, crashes

ASSUME SignalAssumption == MaxDeliveries \in Nat /\ MaxSignalFaults \in Nat

Runs == Signals \X (1..MaxDeliveries)
ClientOrderIds == Signals \X (0..MaxDeliveries)

VARIABLES
    signal,        \* the jobs' payloads: with a clientOrderIdHint or not; good,
                   \* with a bad quantity or price, or with an unknown account
    deliveries,    \* times each job was run
    completed,     \* jobs that ended without a throw
    place,         \* where each run is
    attempt,       \* order_attempt: status by client order id, or "none"
    brokerOrders,  \* runs whose vendor call opened an order
    placedEvents,  \* runs that produced order.placed
    failedEvents,  \* runs that produced order.failed
    signalFaults

signalVars == <<signal, deliveries, completed, place, attempt, brokerOrders, placedEvents,
                failedEvents, signalFaults>>

\* clientOrderIdHint ?? ulid(): a hint is the same in every run of the job.
ClientOrderId(r) == IF signal[r[1]].hinted THEN <<r[1], 0>> ELSE r

SignalPayloads == [hinted: BOOLEAN, kind: {"good", "invalid", "unknown"}]

SignalInit ==
    /\ signal \in [Signals -> SignalPayloads]
    /\ deliveries = [s \in Signals |-> 0]
    /\ completed = {}
    /\ place = [r \in Runs |-> "none"]
    /\ attempt = [c \in ClientOrderIds |-> "none"]
    /\ brokerOrders = {} /\ placedEvents = {} /\ failedEvents = {}
    /\ signalFaults = 0

IsAt(r, pc) == place[r] = pc
MoveTo(r, pc) == place' = [place EXCEPT ![r] = pc]

\* The queue runs a job that is not completed.
Deliver(s) ==
    /\ s \notin completed /\ deliveries[s] < MaxDeliveries
    /\ deliveries' = [deliveries EXCEPT ![s] = @ + 1]
    /\ MoveTo(<<s, deliveries[s] + 1>>, "validate")
    /\ UNCHANGED <<signal, completed, attempt, brokerOrders, placedEvents, failedEvents,
                   signalFaults>>

\* Bad signals throw at once; an unresolvable account is reported and thrown.
Validate(r) ==
    /\ IsAt(r, "validate")
    /\ MoveTo(r, IF signal[r[1]].kind = "invalid" THEN "thrown"
               ELSE IF signal[r[1]].kind = "unknown" THEN "unresolved" ELSE "find")
    /\ UNCHANGED <<signal, deliveries, completed, attempt, brokerOrders, placedEvents, failedEvents,
                   signalFaults>>

\* The order.failed of an unresolved account, best effort, then the throw.
ReportUnresolved(r) ==
    /\ IsAt(r, "unresolved")
    /\ \/ failedEvents' = failedEvents \cup {r}
       \/ UNCHANGED failedEvents
    /\ MoveTo(r, "thrown")
    /\ UNCHANGED <<signal, deliveries, completed, attempt, brokerOrders, placedEvents, signalFaults>>

\* createAttempt's findOne; an existing attempt suppresses the run, which
\* returns normally.
FindAttempt(r) ==
    /\ IsAt(r, "find")
    /\ IF attempt[ClientOrderId(r)] # "none"
         THEN MoveTo(r, "returned") /\ completed' = completed \cup {r[1]}
         ELSE MoveTo(r, "save") /\ UNCHANGED completed
    /\ UNCHANGED <<signal, deliveries, attempt, brokerOrders, placedEvents, failedEvents, signalFaults>>

\* Mutant: no unique index on the client order id.
SaveAttemptAnyway(r) ==
    /\ IsAt(r, "save")
    /\ attempt' = [attempt EXCEPT ![ClientOrderId(r)] = "pending"]
    /\ MoveTo(r, "call")
    /\ UNCHANGED <<signal, deliveries, completed, brokerOrders, placedEvents, failedEvents,
                   signalFaults>>

\* createAttempt's save; the unique index throws when another run was faster.
\* Then decision.made is produced, best effort.
SaveAttempt(r) ==
    /\ IsAt(r, "save")
    /\ IF attempt[ClientOrderId(r)] # "none"
         THEN MoveTo(r, "thrown") /\ UNCHANGED attempt
         ELSE /\ attempt' = [attempt EXCEPT ![ClientOrderId(r)] = "pending"]
              /\ MoveTo(r, "call")
    /\ UNCHANGED <<signal, deliveries, completed, brokerOrders, placedEvents, failedEvents, signalFaults>>

\* placeOrderForAccount answers: accepted, or refused with a throw.
CallVendor(r) ==
    /\ IsAt(r, "call")
    /\ \/ brokerOrders' = brokerOrders \cup {r} /\ MoveTo(r, "accept")
       \/ MoveTo(r, "fail") /\ UNCHANGED brokerOrders
    /\ UNCHANGED <<signal, deliveries, completed, attempt, placedEvents, failedEvents, signalFaults>>

\* updateAttempt, for every row with the client order id.
UpdateAttempt(r, status) ==
    attempt' = [attempt EXCEPT ![ClientOrderId(r)] = IF @ = "none" THEN @ ELSE status]

MarkAccepted(r) ==
    /\ IsAt(r, "accept")
    /\ UpdateAttempt(r, "accepted")
    /\ MoveTo(r, "publish")
    /\ UNCHANGED <<signal, deliveries, completed, brokerOrders, placedEvents, failedEvents, signalFaults>>

\* produceOrderPlaced; its failure is caught and only logged.
PublishPlaced(r) ==
    /\ IsAt(r, "publish")
    /\ \/ placedEvents' = placedEvents \cup {r}
       \/ UNCHANGED placedEvents
    /\ MoveTo(r, "returned")
    /\ completed' = completed \cup {r[1]}
    /\ UNCHANGED <<signal, deliveries, attempt, brokerOrders, failedEvents, signalFaults>>

\* The catch: markFailed, then order.failed, best effort; the run returns.
MarkAttemptFailed(r) ==
    /\ IsAt(r, "fail")
    /\ UpdateAttempt(r, "failed")
    /\ \/ failedEvents' = failedEvents \cup {r}
       \/ UNCHANGED failedEvents
    /\ MoveTo(r, "returned")
    /\ completed' = completed \cup {r[1]}
    /\ UNCHANGED <<signal, deliveries, brokerOrders, placedEvents, signalFaults>>

\* A statement, the vendor call or the process fails.  Within the try (call,
\* accept) the catch takes over; a lost answer leaves an order at the broker.
SignalFails(r) ==
    /\ signalFaults < MaxSignalFaults
    /\ signalFaults' = signalFaults + 1
    /\ \/ /\ place[r] \in {"find", "save", "fail"} /\ MoveTo(r, "thrown")
          /\ UNCHANGED brokerOrders
       \/ /\ IsAt(r, "call") /\ MoveTo(r, "fail")
          /\ brokerOrders' = brokerOrders \cup {r}
       \/ /\ IsAt(r, "accept") /\ MoveTo(r, "fail")
          /\ UNCHANGED brokerOrders
       \/ /\ place[r] \notin {"none", "returned", "thrown", "died"} /\ MoveTo(r, "died")
          /\ UNCHANGED brokerOrders
    /\ UNCHANGED <<signal, deliveries, completed, attempt, placedEvents, failedEvents>>

PlaceStep(r) ==
    \/ Validate(r) \/ ReportUnresolved(r) \/ FindAttempt(r) \/ SaveAttempt(r)
    \/ CallVendor(r) \/ MarkAccepted(r) \/ PublishPlaced(r) \/ MarkAttemptFailed(r)

SignalNext ==
    \/ \E s \in Signals : Deliver(s)
    \/ \E r \in Runs : PlaceStep(r) \/ SignalFails(r)

SignalSpec == SignalInit /\ [][SignalNext]_signalVars

-----------------------------------------------------------------------------
PlacePcs == {"none", "validate", "unresolved", "find", "save", "call", "accept", "publish",
             "fail", "returned", "thrown", "died"}

\* Types of jobs, runs and attempts.
SignalTypeOK ==
    /\ signal \in [Signals -> SignalPayloads]
    /\ deliveries \in [Signals -> 0..MaxDeliveries]
    /\ completed \subseteq Signals
    /\ place \in [Runs -> PlacePcs]
    /\ attempt \in [ClientOrderIds -> {"none", "pending", "accepted", "failed"}]
    /\ brokerOrders \subseteq Runs /\ placedEvents \subseteq Runs /\ failedEvents \subseteq Runs
    /\ signalFaults \in 0..MaxSignalFaults

\* However often the queue redelivers a hinted signal, and with runs of it going
\* side by side, at most one order is opened for it.
HintedPlacedOnce ==
    \A s \in Signals : signal[s].hinted =>
        Cardinality({r \in brokerOrders : r[1] = s}) <= 1

\* An order that is open at the broker while order.failed was announced or its
\* attempt says failed is the trace of a lost answer or of a failing update:
\* never of the way runs interleave.
MisreportedOnlyByFaults ==
    Cardinality({r \in brokerOrders :
                    \/ r \in failedEvents
                    \/ attempt[ClientOrderId(r)] = "failed"}) <= signalFaults

\* Both: one order per hinted signal, and reports that are true but for faults.
PlacementsTrue == HintedPlacedOnce /\ MisreportedOnlyByFaults

==============================================================================
