----------------------------- MODULE FillOutbox -----------------------------
(***************************************************************************)
(* How a booked fill reaches its two sinks: the account's live channel     *)
(* (pub/sub) and the order.filled stream.  The transaction that books a    *)
(* fill also inserts its order_fill row, the outbox.  A pod that booked a  *)
(* live frame publishes to both sinks at once and takes no claim           *)
(* (ExecutionService.ingestFill); a fill booked by the retry of an         *)
(* unmatched frame is published by the maintenance pass only.  A pass      *)
(* (FillMaintenanceScheduler, one at a time per pod) claims the rows that  *)
(* are due, publishes what each of them lacks and releases it              *)
(* (ExecutionService.flushFillOutbox).                                     *)
(*                                                                         *)
(* Time is abstract: a claim is fresh until its TTL has run out, and a row *)
(* that failed is not due until its backoff has.  publish_attempts only    *)
(* lengthens the backoff and feeds a counter, so it is left out.           *)
(***************************************************************************)
EXTENDS Integers, FiniteSets

CONSTANTS
    Pods,       \* The tracker pods.
    Fills,      \* The fills (external_fill_id).
    MaxFaults,  \* Bound: crashes and failing statements.
    MaxSends    \* Bound: the count of sends saturates here.

ASSUME OutboxBoundsAssumption ==
    MaxFaults \in Nat /\ MaxSends \in Nat \ {0}

VARIABLES
    outbox,     \* The order_fill rows.
    sends,      \* How often a sink received a fill (history, saturating).
    task,       \* The ingesting pod's publication of a fill to a sink.
    batch,      \* Per pod: the claimed items its pass has not started.
    hand,       \* Per pod: the item its pass is working on.
    faults,     \* How many crashes and failing statements there were.
    trouble     \* Whether something failed or a claim expired (history).

outboxVars == <<outbox, sends, task, batch, hand, faults, trouble>>

Sinks == {"live", "stream"}

\* A row: the sinks marked published, its claim, and whether it is due.
Row == [stored : BOOLEAN, marked : SUBSET Sinks,
        claim : {"none", "fresh", "expired"}, due : BOOLEAN]
NoRow == [stored |-> FALSE, marked |-> {}, claim |-> "none", due |-> TRUE]

SendCount == 0 .. MaxSends

TaskPc == {"none", "publishing", "marking", "failing"}
\* A claimed row lacks a sink; it is released when it lacks none.
Lacking == (SUBSET Sinks) \ {{}}
Item == [fill : Fills, needs : Lacking]
NoItem == [pc |-> "none"]
Hand == [pc : {"publishing", "marking", "failing"},
         fill : Fills, needs : Lacking]
            \union [pc : {"releasing"}, fill : Fills, needs : {{}}]

OutboxTypeOK ==
    /\ outbox \in [Fills -> Row]
    /\ sends \in [Fills \X Sinks -> SendCount]
    /\ task \in [Pods \X Fills \X Sinks -> TaskPc]
    /\ batch \in [Pods -> SUBSET Item]
    /\ hand \in [Pods -> Hand \union {NoItem}]
    /\ faults \in 0 .. MaxFaults
    /\ trouble \in {"no", "yes"}

OutboxInit ==
    /\ outbox = [f \in Fills |-> NoRow]
    /\ sends = [c \in Fills \X Sinks |-> 0]
    /\ task = [c \in Pods \X Fills \X Sinks |-> "none"]
    /\ batch = [p \in Pods |-> {}]
    /\ hand = [p \in Pods |-> NoItem]
    /\ faults = 0
    /\ trouble = "no"

Fault ==
    /\ faults < MaxFaults
    /\ faults' = faults + 1
    /\ trouble' = "yes"

NoFault == UNCHANGED <<faults, trouble>>

-----------------------------------------------------------------------------
(***************************************************************************)
(* The statements on order_fill                                            *)
(***************************************************************************)
Stored(f) == [outbox EXCEPT ![f] = [NoRow EXCEPT !.stored = TRUE]]

\* markOutboxPublished
Marked(f, s) == [outbox EXCEPT ![f].marked = @ \union {s}]

\* recordOutboxPublishFailure: whoever holds the claim loses it.
FailureRecorded(f) ==
    [outbox EXCEPT ![f].claim = "none", ![f].due = FALSE]

\* releaseOutboxClaim
Released(f) == [outbox EXCEPT ![f].claim = "none", ![f].due = TRUE]

\* Faulty variant: rows that lack nothing are claimed as well.
ClaimablePublished ==
    {f \in Fills : /\ outbox[f].stored
                   /\ outbox[f].due
                   /\ outbox[f].claim # "fresh"}

\* findPendingOutbox: the rows a pass may claim.
Claimable ==
    {f \in Fills : /\ outbox[f].stored
                   /\ outbox[f].marked # Sinks
                   /\ outbox[f].due
                   /\ outbox[f].claim # "fresh"}

\* Faulty variant: the claim is read and not written.
ClaimedWithoutUpdate(rows) == outbox

Claimed(rows) ==
    [f \in Fills |->
        IF f \in rows THEN [outbox[f] EXCEPT !.claim = "fresh"]
                      ELSE outbox[f]]

\* A statement that throws may have taken effect.
Throws(effect) == Fault /\ (UNCHANGED outbox \/ outbox' = effect)

-----------------------------------------------------------------------------
(***************************************************************************)
(* The sinks: BusPublisher.publish and BusStreams.produce.                 *)
(***************************************************************************)
Counted(f, s) ==
    [sends EXCEPT ![<<f, s>>] = IF @ < MaxSends THEN @ + 1 ELSE @]

Publishes(f, s) == sends' = Counted(f, s) /\ NoFault

\* The call fails; the message may be out all the same.
PublishFails(f, s) ==
    /\ UNCHANGED sends \/ sends' = Counted(f, s)
    /\ trouble' = "yes"
    /\ UNCHANGED faults

-----------------------------------------------------------------------------
(***************************************************************************)
(* ingestFill: the booking transaction commits, then both sinks are        *)
(* published to concurrently.                                              *)
(***************************************************************************)
IngestFill(p, f) ==
    /\ ~outbox[f].stored
    /\ outbox' = Stored(f)
    /\ task' = [c \in Pods \X Fills \X Sinks |->
                  IF c[1] = p /\ c[2] = f THEN "publishing" ELSE task[c]]
    /\ UNCHANGED <<sends, batch, hand, faults, trouble>>

\* retryUnmatchedFills books a fill: no one publishes it yet.
RetryUnmatched(f) ==
    /\ ~outbox[f].stored
    /\ outbox' = Stored(f)
    /\ UNCHANGED <<sends, task, batch, hand, faults, trouble>>

\* Faulty variant: the row is marked before the call.
TaskMarksFirst(p, f, s) ==
    /\ task[<<p, f, s>>] = "publishing"
    /\ task' = [task EXCEPT ![<<p, f, s>>] = "marking"]
    /\ outbox' = Marked(f, s)
    /\ UNCHANGED <<sends, batch, hand, faults, trouble>>

\* publishLiveFill and produceFillStream, as called by ingestFill.
TaskPublishes(p, f, s) ==
    /\ task[<<p, f, s>>] = "publishing"
    /\ \/ /\ Publishes(f, s)
          /\ task' = [task EXCEPT ![<<p, f, s>>] = "marking"]
       \/ /\ PublishFails(f, s)
          /\ task' = [task EXCEPT ![<<p, f, s>>] = "failing"]
    /\ UNCHANGED <<outbox, batch, hand>>

TaskMarks(p, f, s) ==
    /\ task[<<p, f, s>>] = "marking"
    /\ \/ /\ outbox' = Marked(f, s)
          /\ task' = [task EXCEPT ![<<p, f, s>>] = "none"]
          /\ NoFault
       \/ /\ Throws(Marked(f, s))
          /\ task' = [task EXCEPT ![<<p, f, s>>] = "failing"]
    /\ UNCHANGED <<sends, batch, hand>>

\* The catch block; its own exception is swallowed by Promise.allSettled.
TaskFails(p, f, s) ==
    /\ task[<<p, f, s>>] = "failing"
    /\ \/ outbox' = FailureRecorded(f) /\ NoFault
       \/ Throws(FailureRecorded(f))
    /\ task' = [task EXCEPT ![<<p, f, s>>] = "none"]
    /\ UNCHANGED <<sends, batch, hand>>

-----------------------------------------------------------------------------
(***************************************************************************)
(* flushFillOutbox                                                         *)
(***************************************************************************)

\* The items of a pass; a row another transaction has locked is skipped.  A
\* pass may find nothing.
FlushClaim(p) ==
    /\ batch[p] = {} /\ hand[p] = NoItem
    /\ \E rows \in SUBSET Claimable :
          /\ outbox' = Claimed(rows)
          /\ batch' = [batch EXCEPT ![p] =
                         {[fill |-> f, needs |-> Sinks \ outbox[f].marked] :
                             f \in rows}]
    /\ UNCHANGED <<sends, task, hand, faults, trouble>>

\* That transaction commits but its answer is lost: nobody works on the rows.
FlushClaimLost(p) ==
    /\ batch[p] = {} /\ hand[p] = NoItem
    /\ Fault
    /\ \E rows \in SUBSET Claimable : outbox' = Claimed(rows)
    /\ UNCHANGED <<sends, task, batch, hand>>

FlushStart(p) ==
    /\ hand[p] = NoItem
    /\ \E item \in batch[p] :
          /\ hand' = [hand EXCEPT ![p] = [pc |-> "publishing",
                                          fill |-> item.fill,
                                          needs |-> item.needs]]
          /\ batch' = [batch EXCEPT ![p] = @ \ {item}]
    /\ UNCHANGED <<outbox, sends, task, faults, trouble>>

\* The live channel comes first.
NextSink(needs) == IF "live" \in needs THEN "live" ELSE "stream"

\* Publishing one sink of the item in hand succeeds.
FlushPublishes(p, f, s) ==
    /\ hand[p].pc = "publishing"
    /\ hand[p].fill = f /\ NextSink(hand[p].needs) = s
    /\ Publishes(f, s)
    /\ hand' = [hand EXCEPT ![p].pc = "marking"]
    /\ UNCHANGED <<outbox, task, batch>>

FlushPublishFails(p) ==
    /\ hand[p].pc = "publishing"
    /\ PublishFails(hand[p].fill, NextSink(hand[p].needs))
    /\ hand' = [hand EXCEPT ![p].pc = "failing"]
    /\ UNCHANGED <<outbox, task, batch>>

FlushMarks(p) ==
    /\ hand[p].pc = "marking"
    /\ LET f == hand[p].fill
           s == NextSink(hand[p].needs)
           left == hand[p].needs \ {s}
       IN  \/ /\ outbox' = Marked(f, s)
              /\ hand' = [hand EXCEPT
                            ![p].pc = IF left = {} THEN "releasing"
                                                   ELSE "publishing",
                            ![p].needs = left]
              /\ NoFault
           \/ /\ Throws(Marked(f, s))
              /\ hand' = [hand EXCEPT ![p].pc = "failing"]
    /\ UNCHANGED <<sends, task, batch>>

\* The failure is recorded and the pass goes on with the next item, also
\* when recording it throws.
FlushFails(p) ==
    /\ hand[p].pc = "failing"
    /\ \/ outbox' = FailureRecorded(hand[p].fill) /\ NoFault
       \/ Throws(FailureRecorded(hand[p].fill))
    /\ hand' = [hand EXCEPT ![p] = NoItem]
    /\ UNCHANGED <<sends, task, batch>>

FlushReleases(p) ==
    /\ hand[p].pc = "releasing"
    /\ \/ outbox' = Released(hand[p].fill) /\ NoFault
       \/ Throws(Released(hand[p].fill))
    /\ hand' = [hand EXCEPT ![p] = NoItem]
    /\ UNCHANGED <<sends, task, batch>>

-----------------------------------------------------------------------------
\* A pod dies and restarts: its publications and its pass are gone, its
\* claims are not.
PodCrash(p) ==
    /\ Fault
    /\ task' = [c \in Pods \X Fills \X Sinks |->
                  IF c[1] = p THEN "none" ELSE task[c]]
    /\ batch' = [batch EXCEPT ![p] = {}]
    /\ hand' = [hand EXCEPT ![p] = NoItem]
    /\ UNCHANGED <<outbox, sends>>

\* Faulty variant: claims have no TTL.
ClaimNeverExpires(f) == FALSE /\ UNCHANGED outboxVars

\* OUTBOX_CLAIM_TTL_MS has passed, whether or not the holder still works.
ClaimExpires(f) ==
    /\ outbox[f].claim = "fresh"
    /\ outbox' = [outbox EXCEPT ![f].claim = "expired"]
    /\ trouble' = "yes"
    /\ UNCHANGED <<sends, task, batch, hand, faults>>

\* next_publish_at has come.
BackoffEnds(f) ==
    /\ ~outbox[f].due
    /\ outbox' = [outbox EXCEPT ![f].due = TRUE]
    /\ UNCHANGED <<sends, task, batch, hand, faults, trouble>>

TaskStep(p, f, s) ==
    TaskPublishes(p, f, s) \/ TaskMarks(p, f, s) \/ TaskFails(p, f, s)

FlushStep(p) ==
    \/ FlushStart(p) \/ FlushPublishFails(p) \/ FlushMarks(p)
    \/ FlushFails(p) \/ FlushReleases(p)
    \/ \E f \in Fills, s \in Sinks : FlushPublishes(p, f, s)

OutboxNext ==
    \/ \E p \in Pods, f \in Fills : IngestFill(p, f)
    \/ \E f \in Fills : RetryUnmatched(f) \/ ClaimExpires(f) \/ BackoffEnds(f)
    \/ \E p \in Pods, f \in Fills, s \in Sinks : TaskStep(p, f, s)
    \/ \E p \in Pods : \/ FlushClaim(p) \/ FlushClaimLost(p) \/ FlushStep(p)
                       \/ PodCrash(p)

OutboxSpec == OutboxInit /\ [][OutboxNext]_outboxVars

(***************************************************************************)
(* Fairness.  Maintenance passes keep running (retryUnmatchedFills, which  *)
(* runs before the flush, does not throw every time), a row is not locked  *)
(* at every pass, a statement or call that can return does, and the stream *)
(* is not down for ever.  Nothing is assumed of the live channel:          *)
(* LiveRecovers is needed for the fills to reach it, of course.            *)
(***************************************************************************)
ClaimsFill(f) ==
    \E p \in Pods : FlushClaim(p) /\ outbox'[f].claim = "fresh"
                    /\ outbox[f].claim # "fresh"

OutboxFairness ==
    /\ \A p \in Pods : WF_outboxVars(FlushStep(p))
    /\ \A p \in Pods, f \in Fills, s \in Sinks :
          WF_outboxVars(TaskStep(p, f, s))
    /\ \A f \in Fills :
          /\ SF_outboxVars(ClaimsFill(f))
          /\ SF_outboxVars(\E p \in Pods : FlushPublishes(p, f, "stream"))
          /\ WF_outboxVars(ClaimExpires(f))
          /\ WF_outboxVars(BackoffEnds(f))

LiveRecovers ==
    \A f \in Fills :
        SF_outboxVars(\E p \in Pods : FlushPublishes(p, f, "live"))

FairOutboxSpec == OutboxSpec /\ OutboxFairness
HealthyOutboxSpec == FairOutboxSpec /\ LiveRecovers

-----------------------------------------------------------------------------
(***************************************************************************)
(* Properties                                                              *)
(***************************************************************************)

\* A sink is marked published only if it received the fill, whoever marked
\* it: a mark set too early would drop the fill from the outbox.
MarkedWasSent ==
    \A f \in Fills : \A s \in outbox[f].marked : sends[<<f, s>>] > 0

Calm == trouble = "no"

\* While nothing fails and no claim expires, the passes of different pods
\* never work on the same row, and the row they work on shows their claim.
InHands(p, f) ==
    (hand[p] # NoItem /\ hand[p].fill = f)
        \/ \E i \in batch[p] : i.fill = f
HeldIsClaimed ==
    \A p \in Pods, f \in Fills :
        InHands(p, f) => outbox[f].stored /\ outbox[f].claim = "fresh"
OneHolder ==
    \A p, q \in Pods, f \in Fills : InHands(p, f) /\ InHands(q, f) => p = q
ClaimsExclusive == Calm => HeldIsClaimed /\ OneHolder

\* Every booked fill is published to both sinks in the end, through crashes,
\* failing statements, expired claims and sinks that come back.
EveryFillIsPublished ==
    \A f \in Fills : outbox[f].stored ~> outbox[f].marked = Sinks

\* "Sinks are independent - a publisher hiccup must not block the DB row or
\* the streams write" (execution.service.ts): a booked fill reaches the
\* stream whatever happens to the live channel.
StreamIsIndependent ==
    \A f \in Fills : outbox[f].stored ~> sends[<<f, "stream">>] > 0
=============================================================================
