-------------------------- MODULE NotificationOutbox --------------------------
(***************************************************************************)
(* The notifier's dispatch loop over notification_outbox:                  *)
(* DispatchNotificationOutboxUsecase, its repository and the scheduler     *)
(* that runs one tick at a time per pod.  claimPending locks the rows only *)
(* for its own transaction and changes nothing, so two pods can hold the   *)
(* same row; markFailed reads the row and writes it in two statements.     *)
(***************************************************************************)
EXTENDS Naturals, Sequences, FiniteSets

CONSTANTS
    Dispatchers,        \* notifier pods
    Notices,            \* outbox rows
    OutboxBatch,        \* config.outboxBatchSize
    OutboxMaxAttempts,  \* config.outboxMaxAttempts
    MaxNoticeFaults     \* bound: failing statements and crashes

ASSUME NoticeAssumption ==
    /\ OutboxBatch \in Nat \ {0}
    /\ OutboxMaxAttempts \in Nat \ {0}
    /\ MaxNoticeFaults \in Nat
    /\ IsFiniteSet(Dispatchers)

VARIABLES
    notice,      \* the rows: status, attempts, whether next_attempt_at has come
    tick,        \* each pod's running tick: the rows claimed, and where it is
    tries,       \* history: dispatches begun for a row
    delivered,   \* rows with a delivery record of status ok or skipped
    noticeFaults

noticeVars == <<notice, tick, tries, delivered, noticeFaults>>

\* A claimed row is a copy: handleRow computes with the attempts it read then.
ClaimType == [id: Notices, attempts: Nat]
TickIdle == [pc |-> "idle", claimed |-> <<>>, sent |-> FALSE, read |-> 0]

\* Rows the back end inserted, due at once.
NoticeInit ==
    /\ notice = [r \in Notices |-> [status |-> "PENDING", attempts |-> 0, due |-> TRUE]]
    /\ tick = [d \in Dispatchers |-> TickIdle]
    /\ tries = [r \in Notices |-> 0]
    /\ delivered = {}
    /\ noticeFaults = 0

Current(d) == Head(tick[d].claimed)

\* Mutant: one attempt too few.
LastAttemptEarly(attempts) == attempts + 2 >= OutboxMaxAttempts

\* nextAttemptDate returns null at the last attempt.
LastAttempt(attempts) == attempts + 1 >= OutboxMaxAttempts

\* handleRow is over: the next claimed row, or the end of the tick.
NextNotice(d) ==
    LET rest == Tail(tick[d].claimed)
    IN  tick' = [tick EXCEPT ![d] =
            IF rest = <<>> THEN TickIdle ELSE [TickIdle EXCEPT !.pc = "send", !.claimed = rest]]

\* Mutant: a row that failed once is not claimed again.
FreshRows == {r \in Notices : notice[r].status = "PENDING" /\ notice[r].attempts = 0}

\* The rows of claimPending's WHERE.
DueRows == {r \in Notices : notice[r].status = "PENDING" /\ notice[r].due}

\* claimPending: up to OutboxBatch of them, in any order of their due dates.
ClaimPending(d) ==
    /\ tick[d].pc = "idle"
    /\ \E n \in 1..OutboxBatch : \E ids \in [1..n -> DueRows] :
         /\ \A i, j \in 1..n : i # j => ids[i] # ids[j]
         /\ n < OutboxBatch => Cardinality(DueRows) = n
         /\ tick' = [tick EXCEPT ![d] = [TickIdle EXCEPT
              !.pc = "send",
              !.claimed = [i \in 1..n |-> [id |-> ids[i], attempts |-> notice[ids[i]].attempts]]]]
    /\ UNCHANGED <<notice, tries, delivered, noticeFaults>>

\* NotificationDispatchService.dispatch: the vendor's answer (an unsupported
\* channel is "skipped", which counts as sent), or a throw.
Dispatch(d) ==
    /\ tick[d].pc = "send"
    /\ tries' = [tries EXCEPT ![Current(d).id] = @ + 1]
    /\ \/ \E ok \in BOOLEAN :
            tick' = [tick EXCEPT ![d].pc = "delivery", ![d].sent = ok]
       \/ tick' = [tick EXCEPT ![d].pc = "markFailed", ![d].sent = FALSE]
    /\ UNCHANGED <<notice, delivered, noticeFaults>>

\* deliveries.insert, then markSent or markFailed by the answer's status.
InsertDelivery(d) ==
    /\ tick[d].pc = "delivery"
    /\ delivered' = IF tick[d].sent THEN delivered \cup {Current(d).id} ELSE delivered
    /\ tick' = [tick EXCEPT ![d].pc = IF tick[d].sent THEN "markSent" ELSE "markFailed"]
    /\ UNCHANGED <<notice, tries, noticeFaults>>

\* markSent: an unconditional update of status, sent_at and last_error.
MarkSent(d) ==
    /\ tick[d].pc = "markSent"
    /\ notice' = [notice EXCEPT ![Current(d).id].status = "SENT"]
    /\ NextNotice(d)
    /\ UNCHANGED <<tries, delivered, noticeFaults>>

\* markFailed, first statement: findOne.
MarkFailedRead(d) ==
    /\ tick[d].pc = "markFailed"
    /\ tick' = [tick EXCEPT ![d].pc = "update", ![d].read = notice[Current(d).id].attempts]
    /\ UNCHANGED <<notice, tries, delivered, noticeFaults>>

\* markFailed, second statement: attempts from what was read, status from the
\* attempts of the claim.
FailedRow(claim, read) ==
    [status   |-> IF LastAttempt(claim.attempts) THEN "FAILED" ELSE "PENDING",
     attempts |-> read + 1,
     due      |-> LastAttempt(claim.attempts)]

MarkFailedUpdate(d) ==
    /\ tick[d].pc = "update"
    /\ notice' = [notice EXCEPT ![Current(d).id] = FailedRow(Current(d), tick[d].read)]
    /\ NextNotice(d)
    /\ UNCHANGED <<tries, delivered, noticeFaults>>

\* next_attempt_at comes.
BackoffElapses(r) ==
    /\ ~notice[r].due
    /\ notice' = [notice EXCEPT ![r].due = TRUE]
    /\ UNCHANGED <<tick, tries, delivered, noticeFaults>>

NoticeFault ==
    /\ noticeFaults < MaxNoticeFaults
    /\ noticeFaults' = noticeFaults + 1

\* deliveries.insert or an update inside the try throws: the catch marks the
\* row failed, sent or not.
StatementFails(d) ==
    /\ tick[d].pc \in {"delivery", "markSent"}
    /\ tick' = [tick EXCEPT ![d].pc = "markFailed"]
    /\ NoticeFault
    /\ UNCHANGED <<notice, tries, delivered>>

\* markFailed throws.  From the branch of a failed answer the catch calls it
\* once more; from the catch it ends the tick with the rows left to do.
MarkFailedFails(d) ==
    /\ tick[d].pc \in {"markFailed", "update"}
    /\ \/ tick' = [tick EXCEPT ![d] = TickIdle]
       \/ tick' = [tick EXCEPT ![d].pc = "markFailed"]
    /\ NoticeFault
    /\ UNCHANGED <<notice, tries, delivered>>

DispatcherCrash(d) ==
    /\ tick[d].pc # "idle"
    /\ tick' = [tick EXCEPT ![d] = TickIdle]
    /\ NoticeFault
    /\ UNCHANGED <<notice, tries, delivered>>

TickStep(d) ==
    \/ ClaimPending(d) \/ Dispatch(d) \/ InsertDelivery(d)
    \/ MarkSent(d) \/ MarkFailedRead(d) \/ MarkFailedUpdate(d)

NoticeNext ==
    \/ \E r \in Notices : BackoffElapses(r)
    \/ \E d \in Dispatchers :
         TickStep(d) \/ StatementFails(d) \/ MarkFailedFails(d) \/ DispatcherCrash(d)

\* Each pod's interval keeps ticking, awaited calls settle, and time passes.
NoticeFairness ==
    /\ \A d \in Dispatchers : WF_noticeVars(TickStep(d))
    /\ \A r \in Notices : WF_noticeVars(BackoffElapses(r))

NoticeSpec == NoticeInit /\ [][NoticeNext]_noticeVars /\ NoticeFairness

-----------------------------------------------------------------------------
\* Types of the rows and of the running ticks.
NoticeTypeOK ==
    /\ notice \in [Notices -> [status: {"PENDING", "SENT", "FAILED"}, attempts: Nat, due: BOOLEAN]]
    /\ tick \in [Dispatchers -> [pc: {"idle", "send", "delivery", "markSent", "markFailed", "update"},
                                 claimed: Seq(ClaimType), sent: BOOLEAN, read: Nat]]
    /\ tries \in [Notices -> Nat]
    /\ delivered \subseteq Notices
    /\ noticeFaults \in 0..MaxNoticeFaults

\* A row is given up only after OutboxMaxAttempts dispatches, although its
\* attempts are counted by unguarded read-modify-writes of several pods.
GivenUpAfterMaxAttempts ==
    \A r \in Notices : notice[r].status = "FAILED" => tries[r] >= OutboxMaxAttempts

\* A SENT row has a delivery record behind it, whichever pod wrote which.
SentIsDelivered ==
    \A r \in Notices : notice[r].status = "SENT" => r \in delivered

\* Two replicas that keep claiming the same row dispatch it at most M(M+3)/2
\* times for M = OutboxMaxAttempts, plus once per fault: stale failure updates
\* put a finished row back to PENDING and take attempts back, yet it never loops.
DispatchesBounded ==
    Cardinality(Dispatchers) <= 2 =>
        \A r \in Notices :
            tries[r] <= (OutboxMaxAttempts * (OutboxMaxAttempts + 3)) \div 2 + noticeFaults

\* The three: what replicas that share rows without a lock still guarantee.
NoticesSafe == GivenUpAfterMaxAttempts /\ SentIsDelivered /\ DispatchesBounded

\* Every row is settled for good, SENT or FAILED: nothing keeps rewriting it.
EveryNoticeSettles ==
    \A r \in Notices : <>[](notice[r].status \in {"SENT", "FAILED"})

==============================================================================
