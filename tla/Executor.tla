------------------------------ MODULE Executor ------------------------------
(***************************************************************************)
(* The executor role: pods that claim REQUESTED rows and place them at the *)
(* broker (PickupRequestedOrdersUsecase), claim CANCEL_REQUESTED rows and  *)
(* cancel them (PickupCancellingOrdersUsecase), the scheduler that drives  *)
(* both (OrderPickupScheduler) and the order-command subscriber that       *)
(* starts a placement at once (OrderCommandSubscriber).                    *)
(*                                                                         *)
(* Every awaited call (a repository statement, a Redis command, a REST     *)
(* call) is a step of its own, so any other component may run between two  *)
(* of them.  The work a pod does for an order is a task, <<pod, order>>.   *)
(***************************************************************************)
EXTENDS OrderStore

CONSTANTS
    Pods,         \* The executor pods.
    Accounts,     \* The brokerage accounts.
    AccountOf,    \* The account of each order.
    BatchSize,    \* Rows one pickup claims at most (DEFAULT_BATCH_SIZE).
    Incomplete,   \* Rows without accountExternalId, symbol or credential.
    RedisEnabled, \* Whether a Redis client is configured.
    TtlOutlivesHolder, \* Timing: no live task outlasts its lock's TTL.
    NoOwner       \* The account lock's key does not exist.

ASSUME AccountsAssumption == AccountOf \in [Orders -> Accounts]
ASSUME BatchAssumption ==
    BatchSize \in Nat \ {0} /\ Incomplete \subseteq Orders
ASSUME TimingAssumption ==
    RedisEnabled \in BOOLEAN /\ TtlOutlivesHolder \in BOOLEAN

Tasks == Pods \X Orders
LockOwners == {"place", "cancel"} \X Pods \X Orders
ASSUME OwnerAssumption == NoOwner \notin LockOwners

VARIABLES
    tick,         \* Where each pod's scheduler tick is (`running`).
    batch,        \* The claimed rows a pod's tick has not finished.
    placePc,      \* Where each place task is.
    placeAck,     \* The vendorOrderId its REST call returned.
    placeErr,     \* Why it is failing.
    placeLate,    \* Whether its REST call began after the cancel claim.
    placeChain,   \* Per pod and account: the place tasks in FIFO order.
    cancelPc,     \* Where each cancel task is.
    cancelHandle, \* The broker handle it read with the claim or by polling.
    cancelChain,  \* Per pod and account: the cancel tasks in FIFO order.
    lock,         \* The Redis account lock: its owner.
    events        \* The order.placed and order.failed events produced.

executorVars == <<tick, batch, placePc, placeAck, placeErr, placeLate,
                  placeChain, cancelPc, cancelHandle, cancelChain, lock,
                  events>>
placeVars == <<placePc, placeAck, placeErr, placeLate, placeChain, batch>>
cancelVars == <<cancelPc, cancelHandle, cancelChain>>

PlacePc == {"none", "batched", "chained", "calling", "acked", "attaching",
            "placed", "failing", "failed", "releasing", "erring",
            "refailing", "refailed", "leaving"}
PlaceErr == {"none", "refused", "other"}
CancelPc == {"none", "picked", "waiting", "closing", "chained", "calling",
             "acked", "releasing", "erring", "failing", "retrying"}
Chains == [Pods \X Accounts -> Seq(Orders)]

ExecutorTypeOK ==
    /\ tick \in [Pods -> {"idle", "requested", "cancelling"}]
    /\ batch \in [Pods -> SUBSET Orders]
    /\ placePc \in [Tasks -> PlacePc]
    /\ placeAck \in [Tasks -> Handles \union {NoHandle}]
    /\ placeErr \in [Tasks -> PlaceErr]
    /\ placeLate \in [Tasks -> BOOLEAN]
    /\ placeChain \in Chains
    /\ cancelPc \in [Tasks -> CancelPc]
    /\ cancelHandle \in [Tasks -> Handles \union {NoHandle}]
    /\ cancelChain \in Chains
    /\ lock \in [Accounts -> LockOwners \union {NoOwner}]
    /\ events \in [Orders -> SUBSET {"placed", "failed"}]

ExecutorInit ==
    /\ tick = [p \in Pods |-> "idle"]
    /\ batch = [p \in Pods |-> {}]
    /\ placePc = [t \in Tasks |-> "none"]
    /\ placeAck = [t \in Tasks |-> NoHandle]
    /\ placeErr = [t \in Tasks |-> "none"]
    /\ placeLate = [t \in Tasks |-> FALSE]
    /\ placeChain = [c \in Pods \X Accounts |-> << >>]
    /\ cancelPc = [t \in Tasks |-> "none"]
    /\ cancelHandle = [t \in Tasks |-> NoHandle]
    /\ cancelChain = [c \in Pods \X Accounts |-> << >>]
    /\ lock = [a \in Accounts |-> NoOwner]
    /\ events = [o \in Orders |-> {}]

-----------------------------------------------------------------------------
(***************************************************************************)
(* Locks.  withAccountOrderLock is a promise chain per account inside one  *)
(* use case of one pod: a task runs when it is at the head.  Inside it,    *)
(* withDistributedAccountLock holds a Redis key SET NX PX, released by a   *)
(* script only while its value is still the owner's.                       *)
(***************************************************************************)
ChainOf(p, o) == <<p, AccountOf[o]>>

EnterChain(chain, p, o) == [chain EXCEPT ![ChainOf(p, o)] = Append(@, o)]
LeaveChain(chain, p, o) == [chain EXCEPT ![ChainOf(p, o)] = Tail(@)]
AtHead(chain, p, o) ==
    /\ chain[ChainOf(p, o)] # << >>
    /\ Head(chain[ChainOf(p, o)]) = o

\* Faulty variant: SET without NX.
LockAlwaysFree(o) == TRUE

LockFree(o) == lock[AccountOf[o]] = NoOwner
TakeLock(owner, o) ==
    IF RedisEnabled THEN [lock EXCEPT ![AccountOf[o]] = owner] ELSE lock
ReleaseLock(owner, o) ==
    IF lock[AccountOf[o]] = owner
    THEN [lock EXCEPT ![AccountOf[o]] = NoOwner]
    ELSE lock

\* The finally block; a release that fails is only logged.
Unlock(owner, o) ==
    \/ lock' = ReleaseLock(owner, o) /\ UNCHANGED faults
    \/ /\ RedisEnabled
       /\ faults < MaxFaults
       /\ faults' = faults + 1
       /\ UNCHANGED lock

TaskPc(owner) ==
    IF owner[1] = "place" THEN placePc[<<owner[2], owner[3]>>]
                          ELSE cancelPc[<<owner[2], owner[3]>>]

\* Faulty variant: SET without PX.
LockNeverExpires(a) == FALSE

\* The key's TTL runs out.  Under TtlOutlivesHolder only the key of a task
\* that died with its pod does.
LockExpires(a) ==
    /\ lock[a] # NoOwner
    /\ TtlOutlivesHolder => TaskPc(lock[a]) = "none"
    /\ lock' = [lock EXCEPT ![a] = NoOwner]
    /\ UNCHANGED <<storeVars, tick, placeVars, cancelVars, events>>

-----------------------------------------------------------------------------
(***************************************************************************)
(* Placing: PickupRequestedOrdersUsecase                                   *)
(***************************************************************************)

\* execute(): one claim for the whole batch.
TickClaimRequested(p) ==
    /\ tick[p] = "idle"
    /\ \E rows \in ClaimableBatches("REQUESTED", BatchSize) :
          /\ orders' = ClaimRows(rows, "SUBMITTING")
          /\ batch' = [batch EXCEPT ![p] = rows]
          /\ placePc' = [t \in Tasks |-> IF t[1] = p /\ t[2] \in rows
                                         THEN "batched" ELSE placePc[t]]
    /\ tick' = [tick EXCEPT ![p] = "requested"]
    /\ UNCHANGED <<broker, faults, placeAck, placeErr, placeLate, placeChain,
                   cancelVars, lock, events>>

\* The batch is processed one order at a time, in id order.
StartBatched(p, o) ==
    /\ placePc[<<p, o>>] = "batched"
    /\ \A b \in batch[p] : o <= b
    /\ placePc' = [placePc EXCEPT ![<<p, o>>] = "chained"]
    /\ placeChain' = EnterChain(placeChain, p, o)
    /\ UNCHANGED <<storeVars, tick, batch, placeAck, placeErr, placeLate,
                   cancelVars, lock, events>>

\* executeOrderId(): an order.command message reaches every pod; a pod that
\* finds the row no longer REQUESTED does nothing.
OrderCommand(p, o) ==
    /\ orders[o].status = "REQUESTED"
    /\ orders' = ClaimRows({o}, "SUBMITTING")
    /\ placePc' = [placePc EXCEPT ![<<p, o>>] = "chained"]
    /\ placeChain' = EnterChain(placeChain, p, o)
    /\ UNCHANGED <<broker, faults, tick, batch, placeAck, placeErr, placeLate,
                   cancelVars, lock, events>>

\* The row of a place task while no cancellation has been claimed.
CancelNotClaimed == {"SUBMITTING", "CANCEL_REQUESTED"}

\* The account lock is taken and the REST call begins.  The status is not
\* read again.
PlaceAcquire(p, o) ==
    /\ placePc[<<p, o>>] = "chained"
    /\ AtHead(placeChain, p, o)
    /\ RedisEnabled => LockFree(o)
    /\ lock' = TakeLock(<<"place", p, o>>, o)
    /\ placePc' = [placePc EXCEPT ![<<p, o>>] = "calling"]
    /\ placeLate' = [placeLate EXCEPT
                        ![<<p, o>>] = ~StatusIsExpected(o, CancelNotClaimed)]
    /\ UNCHANGED <<storeVars, tick, batch, placeAck, placeErr, placeChain,
                   cancelVars, events>>

\* An exception.  placeClaimedOrder's own catch block ("failing") runs with
\* the account lock held; the one around withDistributedAccountLock
\* ("refailing") after the lock has been released ("erring").
PlaceErrs(p, o, pc, err) ==
    /\ placePc' = [placePc EXCEPT ![<<p, o>>] = pc]
    /\ placeErr' = [placeErr EXCEPT ![<<p, o>>] = err]

\* EXECUTOR_ACCOUNT_LOCK_TIMEOUT, the lock stayed taken for the whole wait;
\* or the Redis command itself fails, with or without effect.
LockWaitFails(owner, o) ==
    /\ RedisEnabled
    /\ \/ ~LockFree(o) /\ UNCHANGED <<lock, faults>>
       \/ /\ LockFree(o)
          /\ faults < MaxFaults
          /\ faults' = faults + 1
          /\ lock' \in {lock, TakeLock(owner, o)}

PlaceLockTimeout(p, o) ==
    /\ placePc[<<p, o>>] = "chained"
    /\ AtHead(placeChain, p, o)
    /\ LockWaitFails(<<"place", p, o>>, o)
    /\ PlaceErrs(p, o, "refailing", "other")
    /\ UNCHANGED <<orders, broker, tick, batch, placeAck, placeLate,
                   placeChain, cancelVars, events>>

\* toPlaceInput throws before the try block, the credential check inside it.
PlaceIncomplete(p, o) ==
    /\ placePc[<<p, o>>] = "calling"
    /\ o \in Incomplete
    /\ \E pc \in {"erring", "failing"} : PlaceErrs(p, o, pc, "other")
    /\ UNCHANGED <<storeVars, tick, batch, placeAck, placeLate, placeChain,
                   cancelVars, lock, events>>

\* The broker takes the order and its answer arrives.
PlaceAccepted(p, o) ==
    /\ placePc[<<p, o>>] = "calling"
    /\ o \notin Incomplete
    /\ BrokerAccepts(o, placeLate[<<p, o>>])
    /\ placeAck' = [placeAck EXCEPT ![<<p, o>>] = Len(broker) + 1]
    /\ placePc' = [placePc EXCEPT ![<<p, o>>] = "acked"]
    /\ UNCHANGED <<orders, faults, tick, batch, placeErr, placeLate,
                   placeChain, cancelVars, lock, events>>

\* The broker takes the order, but the REST call times out or its answer
\* does not parse.
PlaceAnswerLost(p, o) ==
    /\ placePc[<<p, o>>] = "calling"
    /\ o \notin Incomplete
    /\ faults < MaxFaults
    /\ faults' = faults + 1
    /\ BrokerAccepts(o, placeLate[<<p, o>>])
    /\ PlaceErrs(p, o, "failing", "other")
    /\ UNCHANGED <<orders, tick, batch, placeAck, placeLate, placeChain,
                   cancelVars, lock, events>>

\* Faulty variant: the refusal is swallowed.
PlaceRefusedSwallowed(p, o) ==
    /\ placePc[<<p, o>>] = "calling"
    /\ placePc' = [placePc EXCEPT ![<<p, o>>] = "releasing"]
    /\ UNCHANGED <<storeVars, tick, batch, placeAck, placeErr, placeLate,
                   placeChain, cancelVars, lock, events>>

\* The broker answers with a non-zero return code.
PlaceRefused(p, o) ==
    /\ placePc[<<p, o>>] = "calling"
    /\ o \notin Incomplete
    /\ PlaceErrs(p, o, "failing", "refused")
    /\ UNCHANGED <<storeVars, tick, batch, placeAck, placeLate, placeChain,
                   cancelVars, lock, events>>

\* The ACCEPTED write, if the row is still SUBMITTING.
PlaceStore(p, o) ==
    /\ placePc[<<p, o>>] = "acked"
    /\ orders' = AcceptFromExpected(o, {"SUBMITTING"}, placeAck[<<p, o>>])
    /\ placePc' = [placePc EXCEPT
                     ![<<p, o>>] = IF StatusIsExpected(o, {"SUBMITTING"})
                               THEN "placed" ELSE "attaching"]
    /\ UNCHANGED <<broker, faults, tick, batch, placeAck, placeErr, placeLate,
                   placeChain, cancelVars, lock, events>>

\* The row moved on while the answer was on its way: only attach the handle.
Attachable == {"SUBMITTING", "CANCEL_REQUESTED", "CANCEL_SUBMITTING"}
PlaceAttach(p, o) ==
    /\ placePc[<<p, o>>] = "attaching"
    /\ orders' = AttachBrokerOrderIdFromExpected(o, Attachable,
                                                 placeAck[<<p, o>>])
    /\ placePc' = [placePc EXCEPT ![<<p, o>>] = "releasing"]
    /\ UNCHANGED <<broker, faults, tick, batch, placeAck, placeErr, placeLate,
                   placeChain, cancelVars, lock, events>>

\* Either write throws, whether it took effect or not: the catch block treats
\* it like a failed placement.
PlaceWriteFails(p, o) ==
    /\ placePc[<<p, o>>] \in {"acked", "attaching"}
    /\ faults < MaxFaults
    /\ faults' = faults + 1
    /\ \/ UNCHANGED orders
       \/ /\ placePc[<<p, o>>] = "acked"
          /\ orders' = AcceptFromExpected(o, {"SUBMITTING"},
                                          placeAck[<<p, o>>])
       \/ /\ placePc[<<p, o>>] = "attaching"
          /\ orders' = AttachBrokerOrderIdFromExpected(o,
                          Attachable, placeAck[<<p, o>>])
    /\ PlaceErrs(p, o, "failing", "other")
    /\ UNCHANGED <<broker, tick, batch, placeAck, placeLate,
                   placeChain, cancelVars, lock, events>>

\* The order.placed event; a produce that fails is only logged.
PlacePublish(p, o) ==
    /\ placePc[<<p, o>>] = "placed"
    /\ \E produced \in {{}, {"placed"}} :
          events' = [events EXCEPT ![o] = @ \union produced]
    /\ placePc' = [placePc EXCEPT ![<<p, o>>] = "releasing"]
    /\ UNCHANGED <<storeVars, tick, batch, placeAck, placeErr, placeLate,
                   placeChain, cancelVars, lock>>

\* The error code the use case sees.  Every error of the REST client is an
\* IntegrationError, a refusal by the broker included.
ErrorCode(err) ==
    IF err = "refused" THEN "INTEGRATION_ERROR" ELSE "PLACE_ORDER_FAILED"
FailureStatus(err) ==
    IF ErrorCode(err) = "VENDOR_REJECTED" THEN "REJECTED" ELSE "FAILED"

\* Where a failure handler goes: to its event, or out of its block.
FailEvent(pc) == IF pc = "failing" THEN "failed" ELSE "refailed"
FailExit(pc) ==
    IF pc \in {"failing", "failed"} THEN "releasing" ELSE "leaving"

\* Faulty variant: order.failed is produced even if the row moved on.
PlaceFailAlwaysPublishes(p, o) ==
    /\ placePc[<<p, o>>] \in {"failing", "refailing"}
    /\ orders' = UpdateStatusFromExpected(o, {"SUBMITTING"},
                                          FailureStatus(placeErr[<<p, o>>]))
    /\ placePc' = [placePc EXCEPT ![<<p, o>>] = FailEvent(@)]
    /\ UNCHANGED <<broker, faults, tick, batch, placeAck, placeErr, placeLate,
                   placeChain, cancelVars, lock, events>>

\* failClaimedOrder, if the row is still SUBMITTING.
PlaceFail(p, o) ==
    /\ placePc[<<p, o>>] \in {"failing", "refailing"}
    /\ orders' = UpdateStatusFromExpected(o, {"SUBMITTING"},
                                          FailureStatus(placeErr[<<p, o>>]))
    /\ placePc' = [placePc EXCEPT
                     ![<<p, o>>] = IF StatusIsExpected(o, {"SUBMITTING"})
                                   THEN FailEvent(@) ELSE FailExit(@)]
    /\ UNCHANGED <<broker, faults, tick, batch, placeAck, placeErr, placeLate,
                   placeChain, cancelVars, lock, events>>

\* The failure write throws too, with or without effect: the outer catch
\* block runs failClaimedOrder again, and nothing catches its exception.
PlaceFailLost(p, o) ==
    /\ placePc[<<p, o>>] \in {"failing", "refailing"}
    /\ faults < MaxFaults
    /\ faults' = faults + 1
    /\ \/ UNCHANGED orders
       \/ orders' = UpdateStatusFromExpected(o, {"SUBMITTING"},
                                             FailureStatus(placeErr[<<p, o>>]))
    /\ PlaceErrs(p, o, IF placePc[<<p, o>>] = "failing"
                       THEN "erring" ELSE "leaving", "other")
    /\ UNCHANGED <<broker, tick, batch, placeAck, placeLate, placeChain,
                   cancelVars, lock, events>>

\* The order.failed event; it too may be lost.
PlacePublishFailed(p, o) ==
    /\ placePc[<<p, o>>] \in {"failed", "refailed"}
    /\ \E produced \in {{}, {"failed"}} :
          events' = [events EXCEPT ![o] = @ \union produced]
    /\ placePc' = [placePc EXCEPT ![<<p, o>>] = FailExit(@)]
    /\ UNCHANGED <<storeVars, tick, batch, placeAck, placeErr, placeLate,
                   placeChain, cancelVars, lock>>

\* The exception leaves withDistributedAccountLock, which releases the lock.
PlaceUnlock(p, o) ==
    /\ placePc[<<p, o>>] = "erring"
    /\ Unlock(<<"place", p, o>>, o)
    /\ placePc' = [placePc EXCEPT ![<<p, o>>] = "refailing"]
    /\ UNCHANGED <<orders, broker, tick, batch, placeAck, placeErr, placeLate,
                   placeChain, cancelVars, events>>

\* The task ends: it releases the lock, if it still has it, then the chain.
PlaceRelease(p, o) ==
    /\ \/ placePc[<<p, o>>] = "releasing" /\ Unlock(<<"place", p, o>>, o)
       \/ placePc[<<p, o>>] = "leaving" /\ UNCHANGED <<lock, faults>>
    /\ placeChain' = LeaveChain(placeChain, p, o)
    /\ batch' = [batch EXCEPT ![p] = @ \ {o}]
    /\ placePc' = [placePc EXCEPT ![<<p, o>>] = "none"]
    /\ placeAck' = [placeAck EXCEPT ![<<p, o>>] = NoHandle]
    /\ placeErr' = [placeErr EXCEPT ![<<p, o>>] = "none"]
    /\ placeLate' = [placeLate EXCEPT ![<<p, o>>] = FALSE]
    /\ UNCHANGED <<orders, broker, tick, cancelVars, events>>

-----------------------------------------------------------------------------
(***************************************************************************)
(* Cancelling: PickupCancellingOrdersUsecase                               *)
(***************************************************************************)

\* execute(): the tick claims cancellations once its placements are done.
TickClaimCancelling(p) ==
    /\ tick[p] = "requested"
    /\ batch[p] = {}
    /\ \E rows \in ClaimableBatches("CANCEL_REQUESTED", BatchSize) :
          /\ orders' = ClaimRows(rows, "CANCEL_SUBMITTING")
          /\ cancelPc' = [t \in Tasks |-> IF t[1] = p /\ t[2] \in rows
                                          THEN "picked" ELSE cancelPc[t]]
          /\ cancelHandle' = [t \in Tasks |-> IF t[1] = p /\ t[2] \in rows
                                              THEN orders[t[2]].handle
                                              ELSE cancelHandle[t]]
    /\ tick' = [tick EXCEPT ![p] = "cancelling"]
    /\ UNCHANGED <<broker, faults, placeVars, cancelChain, lock, events>>

\* All rows start in parallel, in id order: a row with a handle queues for
\* the account, a row without one waits for the placement to attach it.
CancelStart(p, o) ==
    /\ cancelPc[<<p, o>>] = "picked"
    /\ \A x \in Orders : cancelPc[<<p, x>>] = "picked" => o <= x
    /\ IF cancelHandle[<<p, o>>] # NoHandle
       THEN /\ cancelPc' = [cancelPc EXCEPT ![<<p, o>>] = "chained"]
            /\ cancelChain' = EnterChain(cancelChain, p, o)
       ELSE /\ cancelPc' = [cancelPc EXCEPT ![<<p, o>>] = "waiting"]
            /\ UNCHANGED cancelChain
    /\ UNCHANGED <<storeVars, tick, placeVars, cancelHandle, lock, events>>

\* waitForBrokerHandle: a poll that finds a handle, or a row that has moved.
CancelPoll(p, o) ==
    /\ cancelPc[<<p, o>>] = "waiting"
    /\ \/ /\ orders[o].handle # NoHandle
          /\ cancelHandle' = [cancelHandle EXCEPT
                                 ![<<p, o>>] = orders[o].handle]
          /\ cancelPc' = [cancelPc EXCEPT ![<<p, o>>] = "chained"]
          /\ cancelChain' = EnterChain(cancelChain, p, o)
       \/ /\ orders[o].handle = NoHandle
          /\ orders[o].status # "CANCEL_SUBMITTING"
          /\ cancelPc' = [cancelPc EXCEPT ![<<p, o>>] = "closing"]
          /\ UNCHANGED <<cancelHandle, cancelChain>>
    /\ UNCHANGED <<storeVars, tick, placeVars, lock, events>>

\* The wait ends without a handle.  MISSING_BROKER_HANDLE_WAIT_MS (22 s) is
\* longer than the REST timeout (20 s), so a REST call that had begun when
\* the wait began has been answered and stored by then.
CancelWaitExpires(p, o) ==
    /\ cancelPc[<<p, o>>] = "waiting"
    /\ orders[o].handle = NoHandle
    /\ \A q \in Pods : placePc[<<q, o>>] \in {"calling", "acked", "attaching"}
                          => placeLate[<<q, o>>]
    /\ cancelPc' = [cancelPc EXCEPT ![<<p, o>>] = "closing"]
    /\ UNCHANGED <<storeVars, tick, placeVars, cancelHandle, cancelChain,
                   lock, events>>

CancelDone(p, o) ==
    /\ cancelPc' = [cancelPc EXCEPT ![<<p, o>>] = "none"]
    /\ cancelHandle' = [cancelHandle EXCEPT ![<<p, o>>] = NoHandle]

\* No handle: the row is closed without a call to the broker.
CancelClose(p, o) ==
    /\ cancelPc[<<p, o>>] = "closing"
    /\ orders' = UpdateStatusFromExpected(o, {"CANCEL_SUBMITTING"},
                                          "CANCELLED")
    /\ CancelDone(p, o)
    /\ UNCHANGED <<broker, faults, tick, placeVars, cancelChain, lock, events>>

CancelAcquire(p, o) ==
    /\ cancelPc[<<p, o>>] = "chained"
    /\ AtHead(cancelChain, p, o)
    /\ RedisEnabled => LockFree(o)
    /\ lock' = TakeLock(<<"cancel", p, o>>, o)
    /\ cancelPc' = [cancelPc EXCEPT ![<<p, o>>] = "calling"]
    /\ UNCHANGED <<storeVars, tick, placeVars, cancelHandle, cancelChain,
                   events>>

CancelLockTimeout(p, o) ==
    /\ cancelPc[<<p, o>>] = "chained"
    /\ AtHead(cancelChain, p, o)
    /\ LockWaitFails(<<"cancel", p, o>>, o)
    /\ cancelPc' = [cancelPc EXCEPT ![<<p, o>>] = "failing"]
    /\ UNCHANGED <<orders, broker, tick, placeVars, cancelHandle, cancelChain,
                   events>>

\* The broker cancels what is still open.
CancelAccepted(p, o) ==
    /\ cancelPc[<<p, o>>] = "calling"
    /\ o \notin Incomplete
    /\ broker[cancelHandle[<<p, o>>]].open > 0
    /\ BrokerCancels(cancelHandle[<<p, o>>])
    /\ cancelPc' = [cancelPc EXCEPT ![<<p, o>>] = "acked"]
    /\ UNCHANGED <<orders, faults, tick, placeVars, cancelHandle, cancelChain,
                   lock, events>>

\* It cancels, but the answer is lost.
CancelAnswerLost(p, o) ==
    /\ cancelPc[<<p, o>>] = "calling"
    /\ o \notin Incomplete
    /\ faults < MaxFaults
    /\ faults' = faults + 1
    /\ BrokerCancels(cancelHandle[<<p, o>>])
    /\ cancelPc' = [cancelPc EXCEPT ![<<p, o>>] = "erring"]
    /\ UNCHANGED <<orders, tick, placeVars, cancelHandle, cancelChain, lock,
                   events>>

\* It refuses (nothing is left to cancel, or any other reason).
CancelRefused(p, o) ==
    /\ cancelPc[<<p, o>>] = "calling"
    /\ cancelPc' = [cancelPc EXCEPT ![<<p, o>>] = "erring"]
    /\ UNCHANGED <<storeVars, tick, placeVars, cancelHandle, cancelChain,
                   lock, events>>

\* The CANCELLED write, if the row is still CANCEL_SUBMITTING.
CancelStore(p, o) ==
    /\ cancelPc[<<p, o>>] = "acked"
    /\ orders' = UpdateStatusFromExpected(o, {"CANCEL_SUBMITTING"},
                                          "CANCELLED")
    /\ cancelPc' = [cancelPc EXCEPT ![<<p, o>>] = "releasing"]
    /\ UNCHANGED <<broker, faults, tick, placeVars, cancelHandle, cancelChain,
                   lock, events>>

\* That write throws, with or without effect.
CancelStoreFails(p, o) ==
    /\ cancelPc[<<p, o>>] = "acked"
    /\ faults < MaxFaults
    /\ faults' = faults + 1
    /\ \/ UNCHANGED orders
       \/ orders' = UpdateStatusFromExpected(o, {"CANCEL_SUBMITTING"},
                                             "CANCELLED")
    /\ cancelPc' = [cancelPc EXCEPT ![<<p, o>>] = "erring"]
    /\ UNCHANGED <<broker, tick, placeVars, cancelHandle, cancelChain,
                   lock, events>>

\* The exception leaves withDistributedAccountLock, which releases the lock.
CancelUnlock(p, o) ==
    /\ cancelPc[<<p, o>>] = "erring"
    /\ Unlock(<<"cancel", p, o>>, o)
    /\ cancelPc' = [cancelPc EXCEPT ![<<p, o>>] = "failing"]
    /\ UNCHANGED <<orders, broker, tick, placeVars, cancelHandle, cancelChain,
                   events>>

LeaveIfChained(p, o) ==
    IF cancelPc[<<p, o>>] = "failing"
    THEN LeaveChain(cancelChain, p, o) ELSE cancelChain

\* Faulty variant: the failure is only logged.
CancelFailOnlyLogs(p, o) ==
    /\ cancelPc[<<p, o>>] \in {"failing", "retrying"}
    /\ CancelDone(p, o)
    /\ cancelChain' = LeaveIfChained(p, o)
    /\ UNCHANGED <<storeVars, tick, placeVars, lock, events>>

\* failCancelClaim, in the chain; or once more outside it, after the first
\* one threw.
CancelFail(p, o) ==
    /\ cancelPc[<<p, o>>] \in {"failing", "retrying"}
    /\ orders' = UpdateStatusFromExpected(o, {"CANCEL_SUBMITTING"}, "FAILED")
    /\ CancelDone(p, o)
    /\ cancelChain' = LeaveIfChained(p, o)
    /\ UNCHANGED <<broker, faults, tick, placeVars, lock, events>>

\* failCancelClaim throws, with or without effect: the first time it is
\* called again, the second time the task ends.
CancelFailLost(p, o) ==
    /\ faults < MaxFaults
    /\ faults' = faults + 1
    /\ \/ UNCHANGED orders
       \/ orders' = UpdateStatusFromExpected(o, {"CANCEL_SUBMITTING"},
                                             "FAILED")
    /\ \/ /\ cancelPc[<<p, o>>] = "failing"
          /\ cancelPc' = [cancelPc EXCEPT ![<<p, o>>] = "retrying"]
          /\ UNCHANGED cancelHandle
       \/ /\ cancelPc[<<p, o>>] = "retrying"
          /\ CancelDone(p, o)
    /\ cancelChain' = LeaveIfChained(p, o)
    /\ UNCHANGED <<broker, tick, placeVars, lock, events>>

\* A statement outside every catch block throws (the polling read, or the
\* write that closes a row without a handle): the task ends.
CancelThrows(p, o) ==
    /\ cancelPc[<<p, o>>] \in {"waiting", "closing"}
    /\ faults < MaxFaults
    /\ faults' = faults + 1
    /\ \/ UNCHANGED orders
       \/ /\ cancelPc[<<p, o>>] = "closing"
          /\ orders' = UpdateStatusFromExpected(o, {"CANCEL_SUBMITTING"},
                                                "CANCELLED")
    /\ CancelDone(p, o)
    /\ UNCHANGED <<broker, tick, placeVars, cancelChain, lock, events>>

CancelRelease(p, o) ==
    /\ cancelPc[<<p, o>>] = "releasing"
    /\ Unlock(<<"cancel", p, o>>, o)
    /\ cancelChain' = LeaveChain(cancelChain, p, o)
    /\ CancelDone(p, o)
    /\ UNCHANGED <<orders, broker, tick, placeVars, events>>

\* Faulty variant: `running` is not reset.
TickNeverDone(p) ==
    /\ tick[p] = "cancelling"
    /\ \A o \in Orders : cancelPc[<<p, o>>] = "none"
    /\ UNCHANGED <<storeVars, executorVars>>

\* Promise.allSettled: the tick ends when every cancellation has.
TickDone(p) ==
    /\ tick[p] = "cancelling"
    /\ \A o \in Orders : cancelPc[<<p, o>>] = "none"
    /\ tick' = [tick EXCEPT ![p] = "idle"]
    /\ UNCHANGED <<storeVars, placeVars, cancelVars, lock, events>>

-----------------------------------------------------------------------------
\* A pod dies and restarts: its tasks and chains are gone, its claims and
\* its Redis keys are not.
PodCrash(p) ==
    /\ faults < MaxFaults
    /\ faults' = faults + 1
    /\ tick' = [tick EXCEPT ![p] = "idle"]
    /\ batch' = [batch EXCEPT ![p] = {}]
    /\ placePc' = [t \in Tasks |-> IF t[1] = p THEN "none" ELSE placePc[t]]
    /\ placeAck' = [t \in Tasks |-> IF t[1] = p THEN NoHandle ELSE placeAck[t]]
    /\ placeErr' = [t \in Tasks |-> IF t[1] = p THEN "none" ELSE placeErr[t]]
    /\ placeLate' = [t \in Tasks |-> IF t[1] = p THEN FALSE ELSE placeLate[t]]
    /\ placeChain' = [c \in Pods \X Accounts |->
                        IF c[1] = p THEN << >> ELSE placeChain[c]]
    /\ cancelPc' = [t \in Tasks |-> IF t[1] = p THEN "none" ELSE cancelPc[t]]
    /\ cancelHandle' = [t \in Tasks |->
                          IF t[1] = p THEN NoHandle ELSE cancelHandle[t]]
    /\ cancelChain' = [c \in Pods \X Accounts |->
                         IF c[1] = p THEN << >> ELSE cancelChain[c]]
    /\ UNCHANGED <<orders, broker, lock, events>>

\* A claiming statement throws although its transaction committed: the rows
\* are claimed and nobody works on them.
ClaimLost(p) ==
    /\ faults < MaxFaults
    /\ faults' = faults + 1
    /\ \/ /\ \E rows \in ClaimableBatches("REQUESTED", BatchSize) :
                orders' = ClaimRows(rows, "SUBMITTING")
          /\ UNCHANGED tick
       \/ /\ tick[p] = "requested"
          /\ batch[p] = {}
          /\ \E rows \in ClaimableBatches("CANCEL_REQUESTED", BatchSize) :
                orders' = ClaimRows(rows, "CANCEL_SUBMITTING")
          /\ tick' = [tick EXCEPT ![p] = "idle"]
    /\ UNCHANGED <<broker, placeVars, cancelVars, lock, events>>

PlaceStep(p, o) ==
    \/ StartBatched(p, o) \/ PlaceAcquire(p, o)
    \/ PlaceLockTimeout(p, o) \/ PlaceIncomplete(p, o)
    \/ PlaceAccepted(p, o) \/ PlaceAnswerLost(p, o) \/ PlaceRefused(p, o)
    \/ PlaceStore(p, o) \/ PlaceAttach(p, o) \/ PlaceWriteFails(p, o)
    \/ PlacePublish(p, o) \/ PlaceFail(p, o) \/ PlaceFailLost(p, o)
    \/ PlacePublishFailed(p, o) \/ PlaceUnlock(p, o) \/ PlaceRelease(p, o)

CancelStep(p, o) ==
    \/ CancelStart(p, o) \/ CancelPoll(p, o) \/ CancelWaitExpires(p, o)
    \/ CancelClose(p, o) \/ CancelAcquire(p, o) \/ CancelLockTimeout(p, o)
    \/ CancelAccepted(p, o) \/ CancelAnswerLost(p, o) \/ CancelRefused(p, o)
    \/ CancelStore(p, o) \/ CancelStoreFails(p, o) \/ CancelUnlock(p, o)
    \/ CancelFail(p, o) \/ CancelFailLost(p, o) \/ CancelThrows(p, o)
    \/ CancelRelease(p, o)

ExecutorNext ==
    \/ \E p \in Pods : \/ TickClaimRequested(p) \/ TickClaimCancelling(p)
                       \/ TickDone(p) \/ ClaimLost(p) \/ PodCrash(p)
    \/ \E p \in Pods, o \in Orders :
          OrderCommand(p, o) \/ PlaceStep(p, o) \/ CancelStep(p, o)
    \/ \E a \in Accounts : LockExpires(a)
=============================================================================
