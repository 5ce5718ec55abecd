---------------------------- MODULE OrderSystem -----------------------------
(***************************************************************************)
(* The life of an order: the back end that writes it, the executor pods    *)
(* that place and cancel it, the broker that executes it and the tracker   *)
(* pods that book its fills, interleaved over the shared orders table.     *)
(***************************************************************************)
EXTENDS Executor, Tracker

CONSTANTS
    Cancellable,      \* Bound: the orders a user or a kill switch cancels.
    MalformedFrames   \* Bound: the malformedness a frame may have.

ASSUME CancellableAssumption ==
    Cancellable \subseteq Orders /\ MalformedFrames \subseteq BOOLEAN

vars == <<storeVars, executorVars, trackerVars>>

Init == StoreInit /\ ExecutorInit /\ TrackerInit

-----------------------------------------------------------------------------
(***************************************************************************)
(* The back end and the market.                                            *)
(***************************************************************************)

\* The BE inserts the row as REQUESTED.
BeRequest(o) ==
    /\ orders[o].status = "CREATED"
    /\ orders' = [orders EXCEPT ![o].status = "REQUESTED"]
    /\ UNCHANGED <<broker, faults, executorVars, trackerVars>>

\* A user, an admin or the kill switch cancels: the BE flips a row that is
\* not terminal and not being cancelled yet.
BeCancel(o) ==
    /\ o \in Cancellable
    /\ orders[o].status \in {"REQUESTED", "SUBMITTING", "ACCEPTED",
                             "PARTIALLY_FILLED"}
    /\ orders' = [orders EXCEPT ![o].status = "CANCEL_REQUESTED"]
    /\ UNCHANGED <<broker, faults, executorVars, trackerVars>>

\* The market trades against an order the broker holds.
Trade(h, q) ==
    /\ \E malformed \in MalformedFrames : BrokerExecutes(h, q, malformed)
    /\ UNCHANGED <<orders, faults, executorVars, trackerVars>>

Next ==
    \/ \E o \in Orders : BeRequest(o) \/ BeCancel(o)
    \/ \E h \in DOMAIN broker : \E q \in 1 .. broker[h].open : Trade(h, q)
    \/ ExecutorNext /\ UNCHANGED trackerVars
    \/ TrackerNext /\ UNCHANGED executorVars

Spec == Init /\ [][Next]_vars

(***************************************************************************)
(* Fairness.  Schedulers keep ticking; a task whose next call can return   *)
(* gets its answer (REST calls are aborted after 20 s, lock and handle     *)
(* waits have deadlines); Redis expires keys; a row another transaction    *)
(* holds locked when a tick runs is not locked at every tick.  Nothing is  *)
(* assumed of order.command messages, the back end, the market or frames.  *)
(***************************************************************************)
ClaimsRow(o) ==
    /\ \E p \in Pods : TickClaimRequested(p) \/ TickClaimCancelling(p)
    /\ orders'[o] # orders[o]
    /\ UNCHANGED trackerVars

Fairness ==
    /\ \A p \in Pods :
          /\ WF_vars(TickClaimRequested(p) /\ UNCHANGED trackerVars)
          /\ WF_vars(TickClaimCancelling(p) /\ UNCHANGED trackerVars)
          /\ WF_vars(TickDone(p) /\ UNCHANGED trackerVars)
    /\ \A p \in Pods, o \in Orders :
          /\ WF_vars(PlaceStep(p, o) /\ UNCHANGED trackerVars)
          /\ WF_vars(CancelStep(p, o) /\ UNCHANGED trackerVars)
    /\ \A o \in Orders : SF_vars(ClaimsRow(o))
    /\ \A a \in Accounts : WF_vars(LockExpires(a) /\ UNCHANGED trackerVars)

FairSpec == Spec /\ Fairness

-----------------------------------------------------------------------------
(***************************************************************************)
(* Properties                                                              *)
(***************************************************************************)

\* Every variable has its type.
TypeOK == StoreTypeOK /\ ExecutorTypeOK /\ TrackerTypeOK

\* However pods, ticks and order commands interleave, and wherever a pod
\* dies, the broker is asked to open at most one order for a row: the claim
\* of claimBatch / findAndClaimRequestedById is exclusive and for good.
AtMostOnePlacement ==
    \A h, k \in DOMAIN broker : broker[h].order = broker[k].order => h = k

\* Why: a row that has been claimed never looks unclaimed again; it has at
\* most one place task, in one pod; and until that task's REST call the
\* broker has no order for the row.  With AtMostOnePlacement this is
\* inductive.
Unclaimed == {"CREATED", "REQUESTED"}
BeforeCall == {"batched", "chained", "calling"}
OneTask ==
    \A o \in Orders, p, q \in Pods :
        placePc[<<p, o>>] # "none" /\ placePc[<<q, o>>] # "none" => p = q
TaskHasClaim ==
    \A o \in Orders, p \in Pods :
        placePc[<<p, o>>] # "none" => orders[o].status \notin Unclaimed
PlacedIsClaimed ==
    \A h \in DOMAIN broker :
        /\ orders[broker[h].order].status \notin Unclaimed
        /\ \A p \in Pods : placePc[<<p, broker[h].order>>] \notin BeforeCall
ClaimIsExclusive == OneTask /\ TaskHasClaim /\ PlacedIsClaimed

\* A broker handle never reaches another row: the handle a row carries, the
\* one a place task brings back from its REST call and the one a cancel task
\* is about to send all name the order the broker holds for that very row,
\* although reads, calls and writes of different rows interleave.
HoldsFor(h, o) == h \in DOMAIN broker /\ broker[h].order = o
RowHandles ==
    \A o \in Orders :
        orders[o].handle # NoHandle => HoldsFor(orders[o].handle, o)
PlaceHandles ==
    \A p \in Pods, o \in Orders :
        /\ placeAck[<<p, o>>] # NoHandle => HoldsFor(placeAck[<<p, o>>], o)
        /\ placePc[<<p, o>>] \in {"acked", "attaching"}
              => placeAck[<<p, o>>] # NoHandle
CancelHandles ==
    \A p \in Pods, o \in Orders :
        /\ cancelHandle[<<p, o>>] # NoHandle
              => HoldsFor(cancelHandle[<<p, o>>], o)
        /\ cancelPc[<<p, o>>] \in {"chained", "calling"}
              => cancelHandle[<<p, o>>] # NoHandle
HandlesAreOwn == RowHandles /\ PlaceHandles /\ CancelHandles

\* The tasks past the head of a queue: a task that has entered the account's
\* critical section stays at the head of its pod's promise chain until it
\* leaves it.
InSection == {"calling", "acked", "attaching", "placed", "failing", "failed",
              "releasing", "erring", "refailing", "refailed", "leaving"}
PlaceOrderly ==
    \A p \in Pods, o \in Orders :
        placePc[<<p, o>>] \in InSection => AtHead(placeChain, p, o)
CancelOrderly ==
    \A p \in Pods, o \in Orders :
        cancelPc[<<p, o>>] \in InSection => AtHead(cancelChain, p, o)
ChainsAreOrderly == PlaceOrderly /\ CancelOrderly

\* A retried unmatched fill has attempts left, and so has any row in hand.
AttemptsAreBounded ==
    /\ \A f \in FillIds :
          unmatched[f].status = "PENDING"
              => unmatched[f].attempts < MaxAttempts
    /\ \A t \in Trackers : retry[t] # Idle => retry[t].attempts < MaxAttempts

\* A row the broker holds an order for knows that order's handle once its
\* place task has stored the answer, if nothing failed on the way and the
\* REST call had begun before the row's cancellation was claimed: this is
\* what waitForBrokerHandle's wait and attachBrokerOrderIdFromExpected are
\* for (no phantom order).
BrokerOrdersKnown ==
    \A h \in DOMAIN broker :
        LET o == broker[h].order
        IN  \/ faults > 0
            \/ broker[h].late
            \/ \E p \in Pods : placePc[<<p, o>>] \in {"acked", "attaching"}
            \/ orders[o].handle = h

\* A claimed row (SUBMITTING, CANCEL_SUBMITTING) has a task working on it,
\* unless a fault took the task away: no early return leaves an orphan.
ClaimsHaveTasks ==
    faults = 0 =>
        \A o \in Orders :
            /\ orders[o].status = "SUBMITTING"
                  => \E p \in Pods : placePc[<<p, o>>] # "none"
            /\ orders[o].status = "CANCEL_SUBMITTING"
                  => \E p \in Pods : cancelPc[<<p, o>>] # "none"

\* No two REST calls of an account are in flight at once, across pods and
\* across placing and cancelling, as long as no task outlives the TTL of its
\* account lock (withDistributedAccountLock).
Calling(a) ==
    {t \in {"place", "cancel"} \X Pods \X Orders :
        TaskPc(t) = "calling" /\ AccountOf[t[3]] = a}
AccountSerialised ==
    RedisEnabled /\ TtlOutlivesHolder =>
        \A a \in Accounts : Cardinality(Calling(a)) <= 1

\* The notifier and the BE are told order.failed only about rows that did
\* fail, and order.placed only about rows that carry a broker handle, although
\* the row may have been cancelled, or a failed write may have taken effect,
\* while the task was running.
EventsAreTrue ==
    \A o \in Orders :
        /\ "failed" \in events[o]
              => orders[o].status \in {"FAILED", "REJECTED"}
        /\ "placed" \in events[o] => orders[o].handle # NoHandle

\* The sum of the natural numbers v[x] over S, counted unit by unit: without
\* recursion, so that it can be reasoned about.
Units(v, S) == UNION {{x} \X (1 .. v[x]) : x \in S}
Total(v, S) == Cardinality(Units(v, S))

\* A row's filled_quantity is the sum of the fills recorded for it and never
\* exceeds what was ordered, although frames are delivered repeatedly, by
\* several pods, live and from the unmatched table.
FillsOf(o) == {f \in FillIds : Executed(f) /\ broker[f[1]].order = o}
FilledWithinOrder == \A o \in Orders : orders[o].filled <= Quantity[o]
FilledIsSumOfFills ==
    /\ FilledWithinOrder
    /\ \A o \in Orders :
          orders[o].filled = Total(fills, FillsOf(o))

\* An ingested frame is never dropped silently: its fill is recorded, or the
\* frame is kept in unmatched_order_fills.  In particular a fill that was not
\* applied yet is never taken for one that exceeds the order (fill-clamped).
DeliveredFillsKept ==
    \A f \in delivered : fills[f] > 0 \/ unmatched[f] # NotStored

\* An unmatched fill is RESOLVED only when its fill has been recorded.
ResolvedFillsRecorded ==
    \A f \in FillIds : unmatched[f].status = "RESOLVED" => fills[f] > 0

\* The position books agree with the fills: together they hold no more than
\* what was bought and no less than what was not sold again, wherever a sell
\* without a book of its own was booked; and a book that no sell can reach
\* holds exactly what its buys filled.
FilledBy(os) == Total([o \in Orders |-> orders[o].filled], os)
Sided(side) == {o \in Orders : Side[o] = side}
Held == Total([b \in Books |-> MaxOf(0, books[b])], Books)
OnlyBought(b) ==
    \A o \in Sided("sell") :
        /\ BookOf[o] # b
        /\ b \in StrategyBooks \/ BookOf[o] \in StrategyBooks
BooksMatchFills ==
    /\ Held <= FilledBy(Sided("buy"))
    /\ Held >= FilledBy(Sided("buy")) - FilledBy(Sided("sell"))
    /\ \A b \in Books : OnlyBought(b) =>
          MaxOf(0, books[b]) = FilledBy({o \in Orders : BookOf[o] = b})

\* No step of any component takes a row out of a terminal status: the late
\* writes of executor tasks and late fills all leave it alone.
TerminalIsFinal ==
    [][\A o \in Orders : orders[o].status \in Terminal
                            => orders'[o].status = orders[o].status]_vars

\* The row's life is the one OrderContract promises.
Contract == INSTANCE OrderContract WITH
    status <- [o \in Orders |-> orders[o].status],
    placed <- [o \in Orders |-> \E h \in DOMAIN broker : broker[h].order = o],
    known <- [o \in Orders |-> orders[o].handle # NoHandle],
    filled <- [o \in Orders |-> orders[o].filled]
ImplementsContract == Contract!Spec

\* A requested row is picked up and settled one way or the other, unless a
\* fault took its task away (nothing re-drives an orphaned claim).
RequestIsSettled ==
    \A o \in Orders :
        orders[o].status = "REQUESTED"
            ~> \/ faults > 0
               \/ orders[o].status \notin {"REQUESTED", "SUBMITTING"}

\* So is a cancellation; and even after a fault it leaves the queue.
CancelIsSettled ==
    \A o \in Orders :
        orders[o].status = "CANCEL_REQUESTED"
            ~> \/ orders[o].status \in Terminal
               \/ faults > 0 /\ orders[o].status = "CANCEL_SUBMITTING"

\* A pod that dies while it holds an account's lock does not block the
\* account for good.
LockIsFreed == \A a \in Accounts : []<>(lock[a] = NoOwner)

-----------------------------------------------------------------------------
(***************************************************************************)
(* What the comments say and the code does not do.                         *)
(***************************************************************************)

\* "this path must send a real vendor cancel instead of creating a phantom
\* order" (pickup-cancelling-orders.usecase.ts): a row closed without a
\* broker handle has no order at the broker.
NoPhantomOrder ==
    \A o \in Orders :
        orders[o].status = "CANCELLED" /\ orders[o].handle = NoHandle
            => \A h \in DOMAIN broker : broker[h].order # o

=============================================================================
