------------------------- MODULE OrderSystemProofs --------------------------
(***************************************************************************)
(* Proofs about OrderSystem, for any number of orders, pods, trackers and  *)
(* accounts and every bound.                                               *)
(***************************************************************************)
EXTENDS OrderSystem, TLAPS

\* The assumptions on the constants, in one place.
Assumptions ==
    /\ Orders \subseteq Nat
    /\ Quantity \in [Orders -> Nat \ {0}]
    /\ MaxHandles \in Nat /\ MaxFills \in Nat /\ MaxFaults \in Nat
    /\ AccountOf \in [Orders -> Accounts]
    /\ MaxAttempts \in Nat \ {0}
    /\ BookOf \in [Orders -> Books]
    /\ MalformedFrames \subseteq BOOLEAN

LEMMA AssumptionsHold == Assumptions
BY OrdersAssumption, QuantityAssumption, BoundsAssumption,
   AccountsAssumption, MaxAttemptsAssumption, BooksAssumption,
   CancellableAssumption DEF Assumptions

-----------------------------------------------------------------------------
(***************************************************************************)
(* The table updates keep the table's type.                                *)
(***************************************************************************)

\* A claim writes a status and nothing else.
LEMMA ClaimType ==
    ASSUME orders \in [Orders -> Row], NEW rows, NEW s \in OrderStatus
    PROVE  ClaimRows(rows, s) \in [Orders -> Row]
BY DEF ClaimRows, Row

\* updateStatusFromExpected writes a status, if it writes.
LEMMA UpdateType ==
    ASSUME orders \in [Orders -> Row], NEW o \in Orders, NEW e,
           NEW s \in OrderStatus
    PROVE  UpdateStatusFromExpected(o, e, s) \in [Orders -> Row]
BY DEF UpdateStatusFromExpected, Row

\* So does the ACCEPTED write, with the broker handle.
LEMMA AcceptType ==
    ASSUME orders \in [Orders -> Row], NEW o \in Orders, NEW e,
           NEW h \in Handles \union {NoHandle}
    PROVE  AcceptFromExpected(o, e, h) \in [Orders -> Row]
BY DEF AcceptFromExpected, Row, OrderStatus

\* attachBrokerOrderIdFromExpected writes the handle, if it writes.
LEMMA AttachType ==
    ASSUME orders \in [Orders -> Row], NEW o \in Orders, NEW e,
           NEW h \in Handles \union {NoHandle}
    PROVE  AttachBrokerOrderIdFromExpected(o, e, h) \in [Orders -> Row]
BY DEF AttachBrokerOrderIdFromExpected, Row

-----------------------------------------------------------------------------
(***************************************************************************)
(* Type correctness of the executor's actions.                             *)
(***************************************************************************)

\* Joining and leaving a chain keeps the chains sequences of orders; a task
\* leaves only from the head.
LEMMA ChainType ==
    ASSUME Assumptions, NEW chain \in Chains, NEW p \in Pods, NEW o \in Orders
    PROVE  /\ EnterChain(chain, p, o) \in Chains
           /\ AtHead(chain, p, o) => LeaveChain(chain, p, o) \in Chains
<1>1. ChainOf(p, o) \in Pods \X Accounts
  BY DEF ChainOf, Assumptions
<1>2. chain[ChainOf(p, o)] \in Seq(Orders)
  BY <1>1 DEF Chains
<1>3. Append(chain[ChainOf(p, o)], o) \in Seq(Orders)
  BY <1>2
<1>4. EnterChain(chain, p, o) \in Chains
  BY <1>1, <1>3 DEF EnterChain, Chains
<1>5. ASSUME AtHead(chain, p, o) PROVE LeaveChain(chain, p, o) \in Chains
  <2>1. Tail(chain[ChainOf(p, o)]) \in Seq(Orders)
    BY <1>2, <1>5 DEF AtHead
  <2> QED BY <1>1, <2>1 DEF LeaveChain, Chains
<1> QED BY <1>4, <1>5

\* Taking, releasing and failing to take or release the Redis lock.
LEMMA LockType ==
    ASSUME Assumptions, lock \in [Accounts -> LockOwners \union {NoOwner}],
           faults \in 0 .. MaxFaults, NEW owner \in LockOwners,
           NEW o \in Orders
    PROVE  /\ TakeLock(owner, o) \in [Accounts -> LockOwners \union {NoOwner}]
           /\ Unlock(owner, o) \/ LockWaitFails(owner, o)
                 => /\ lock' \in [Accounts -> LockOwners \union {NoOwner}]
                    /\ faults' \in 0 .. MaxFaults
<1>1. AccountOf[o] \in Accounts
  BY DEF Assumptions
<1>2. /\ TakeLock(owner, o) \in [Accounts -> LockOwners \union {NoOwner}]
      /\ ReleaseLock(owner, o) \in [Accounts -> LockOwners \union {NoOwner}]
  BY <1>1 DEF TakeLock, ReleaseLock
<1> QED BY <1>2 DEF Unlock, LockWaitFails, Assumptions

\* A new broker order, and an execution of one, keep the broker's type.
LEMMA BrokerType ==
    ASSUME Assumptions, broker \in Seq(BrokerOrder), NEW o \in Orders,
           NEW late \in BOOLEAN, BrokerAccepts(o, late),
           Len(broker) <= MaxHandles
    PROVE  /\ broker' \in Seq(BrokerOrder)
           /\ Len(broker') = Len(broker) + 1
           /\ Len(broker') <= MaxHandles
<1> DEFINE b == [order |-> o, open |-> Quantity[o], fills |-> << >>,
                 late |-> late]
<1>1. Quantity[o] \in Nat
  BY DEF Assumptions
<1>2. << >> \in Seq(Execution)
  OBVIOUS
<1>3. b \in BrokerOrder
  BY <1>1, <1>2 DEF BrokerOrder
<1>4. broker' = Append(broker, b) /\ Len(broker) < MaxHandles
  BY DEF BrokerAccepts
<1> HIDE DEF b
<1> QED BY <1>3, <1>4 DEF Assumptions

\* So does a cancellation.
LEMMA CancelBrokerType ==
    ASSUME Assumptions, broker \in Seq(BrokerOrder), NEW h \in Int,
           BrokerCancels(h)
    PROVE  broker' \in Seq(BrokerOrder) /\ Len(broker') = Len(broker)
<1>1. CASE h \in DOMAIN broker
  <2>1. broker[h] \in BrokerOrder
    BY <1>1
  <2>2. [broker[h] EXCEPT !.open = 0] \in BrokerOrder
    BY <2>1 DEF BrokerOrder
  <2>3. broker' = [broker EXCEPT ![h] = [broker[h] EXCEPT !.open = 0]]
    BY DEF BrokerCancels
  <2> QED BY <1>1, <2>2, <2>3
<1>2. CASE h \notin DOMAIN broker
  <2>1. broker' = [i \in DOMAIN broker |-> broker[i]]
    BY <1>2 DEF BrokerCancels
  <2>2. broker = [i \in DOMAIN broker |-> broker[i]]
    <3>1. broker \in [1 .. Len(broker) -> BrokerOrder]
      OBVIOUS
    <3> QED BY <3>1, Zenon
  <2> QED BY <2>1, <2>2
<1> QED BY <1>1, <1>2

\* The steps of a place task.
LEMMA PlaceStepTypes ==
    ASSUME Assumptions, StoreTypeOK, ExecutorTypeOK, ChainsAreOrderly,
           NEW p \in Pods, NEW o \in Orders,
           OrderCommand(p, o) \/ PlaceStep(p, o)
    PROVE  StoreTypeOK' /\ ExecutorTypeOK'
<1> USE DEF StoreTypeOK, ExecutorTypeOK, storeVars, cancelVars
<1>t. <<p, o>> \in Tasks /\ <<"place", p, o>> \in LockOwners
  BY DEF Tasks, LockOwners
<1>1. CASE StartBatched(p, o)
  BY <1>1, <1>t, ChainType DEF StartBatched, PlacePc
<1>2. CASE OrderCommand(p, o)
  <2>1. orders' \in [Orders -> Row]
    BY <1>2, ClaimType DEF OrderCommand, OrderStatus
  <2> QED BY <1>2, <2>1, <1>t, ChainType DEF OrderCommand, PlacePc
<1>3. CASE PlaceAcquire(p, o)
  BY <1>3, <1>t, LockType DEF PlaceAcquire, PlacePc, StatusIsExpected
<1>4. CASE PlaceLockTimeout(p, o)
  BY <1>4, <1>t, LockType DEF PlaceLockTimeout, PlaceErrs, PlacePc, PlaceErr
<1>5. CASE PlaceIncomplete(p, o)
  BY <1>5, <1>t DEF PlaceIncomplete, PlaceErrs, PlacePc, PlaceErr
<1>6. CASE PlaceAccepted(p, o)
  <2>1. placeLate[<<p, o>>] \in BOOLEAN
    BY <1>t
  <2>2. /\ broker' \in Seq(BrokerOrder) /\ Len(broker') <= MaxHandles
        /\ Len(broker') = Len(broker) + 1
    BY <1>6, <2>1, BrokerType DEF PlaceAccepted
  <2>3. Len(broker) + 1 \in Handles
    BY <2>2 DEF Handles, Assumptions
  <2> QED BY <1>6, <2>2, <2>3, <1>t DEF PlaceAccepted, PlacePc
<1>7. CASE PlaceAnswerLost(p, o)
  <2>1. placeLate[<<p, o>>] \in BOOLEAN
    BY <1>t
  <2>2. broker' \in Seq(BrokerOrder) /\ Len(broker') <= MaxHandles
    BY <1>7, <2>1, BrokerType DEF PlaceAnswerLost
  <2> QED BY <1>7, <2>2, <1>t DEF PlaceAnswerLost, PlaceErrs, PlacePc,
             PlaceErr, Assumptions
<1>8. CASE PlaceRefused(p, o)
  BY <1>8, <1>t DEF PlaceRefused, PlaceErrs, PlacePc, PlaceErr
<1>9. CASE PlaceStore(p, o)
  <2>1. orders' \in [Orders -> Row]
    BY <1>9, <1>t, AcceptType DEF PlaceStore
  <2> QED BY <1>9, <2>1, <1>t DEF PlaceStore, PlacePc
<1>10. CASE PlaceAttach(p, o)
  <2>1. orders' \in [Orders -> Row]
    BY <1>10, <1>t, AttachType DEF PlaceAttach
  <2> QED BY <1>10, <2>1, <1>t DEF PlaceAttach, PlacePc
<1>11. CASE PlaceWriteFails(p, o)
  <2>1. orders' \in [Orders -> Row]
    BY <1>11, <1>t, AcceptType, AttachType DEF PlaceWriteFails
  <2> QED BY <1>11, <2>1, <1>t DEF PlaceWriteFails, PlaceErrs, PlacePc,
             PlaceErr, Assumptions
<1>12. CASE PlacePublish(p, o)
  BY <1>12, <1>t DEF PlacePublish, PlacePc
<1>13. CASE PlaceFail(p, o)
  <2>1. orders' \in [Orders -> Row]
    BY <1>13, UpdateType DEF PlaceFail, FailureStatus, ErrorCode, OrderStatus
  <2> QED BY <1>13, <2>1, <1>t DEF PlaceFail, PlacePc, FailEvent, FailExit
<1>14. CASE PlaceFailLost(p, o)
  <2>1. orders' \in [Orders -> Row]
    BY <1>14, UpdateType
       DEF PlaceFailLost, FailureStatus, ErrorCode, OrderStatus
  <2> QED BY <1>14, <2>1, <1>t DEF PlaceFailLost, PlaceErrs, PlacePc, PlaceErr,
             Assumptions
<1>15. CASE PlacePublishFailed(p, o)
  BY <1>15, <1>t DEF PlacePublishFailed, PlacePc, FailExit
<1>16. CASE PlaceUnlock(p, o)
  BY <1>16, <1>t, LockType DEF PlaceUnlock, PlacePc
<1>17. CASE PlaceRelease(p, o)
  <2>1. AtHead(placeChain, p, o)
    BY <1>17 DEF PlaceRelease, ChainsAreOrderly, PlaceOrderly, InSection
  <2>2. placeChain' \in Chains
    BY <1>17, <2>1, ChainType DEF PlaceRelease
  <2>3. /\ lock' \in [Accounts -> LockOwners \union {NoOwner}]
        /\ faults' \in 0 .. MaxFaults
    BY <1>17, <1>t, LockType DEF PlaceRelease
  <2> QED BY <1>17, <2>2, <2>3, <1>t DEF PlaceRelease, PlacePc, PlaceErr
<1> QED BY <1>1, <1>2, <1>3, <1>4, <1>5, <1>6, <1>7, <1>8, <1>9, <1>10,
           <1>11, <1>12, <1>13, <1>14, <1>15, <1>16, <1>17 DEF PlaceStep

\* The steps of a cancel task.
LEMMA CancelStepTypes ==
    ASSUME Assumptions, StoreTypeOK, ExecutorTypeOK, ChainsAreOrderly,
           NEW p \in Pods, NEW o \in Orders, CancelStep(p, o)
    PROVE  StoreTypeOK' /\ ExecutorTypeOK'
<1> USE DEF StoreTypeOK, ExecutorTypeOK, storeVars, placeVars
<1>t. <<p, o>> \in Tasks /\ <<"cancel", p, o>> \in LockOwners
  BY DEF Tasks, LockOwners
<1>h. orders[o].handle \in Handles \union {NoHandle}
  BY DEF Row
<1>c. EnterChain(cancelChain, p, o) \in Chains
  BY ChainType
<1>1. CASE CancelStart(p, o)
  <2>1. cancelPc' \in [Tasks -> CancelPc] /\ cancelChain' \in Chains
    BY <1>1, <1>t, <1>c DEF CancelStart, CancelPc
  <2> QED BY <1>1, <2>1 DEF CancelStart
<1>2. CASE CancelPoll(p, o)
  <2>1. cancelPc' \in [Tasks -> CancelPc] /\ cancelChain' \in Chains
    BY <1>2, <1>t, <1>c DEF CancelPoll, CancelPc
  <2>2. cancelHandle' \in [Tasks -> Handles \union {NoHandle}]
    BY <1>2, <1>t, <1>h DEF CancelPoll
  <2> QED BY <1>2, <2>1, <2>2 DEF CancelPoll
<1>3. CASE CancelWaitExpires(p, o)
  BY <1>3, <1>t DEF CancelWaitExpires, CancelPc
<1>4. CASE CancelClose(p, o)
  <2>1. orders' \in [Orders -> Row]
    BY <1>4, UpdateType DEF CancelClose, OrderStatus
  <2> QED BY <1>4, <2>1, <1>t DEF CancelClose, CancelDone, CancelPc
<1>5. CASE CancelAcquire(p, o)
  BY <1>5, <1>t, LockType DEF CancelAcquire, CancelPc
<1>6. CASE CancelLockTimeout(p, o)
  BY <1>6, <1>t, LockType DEF CancelLockTimeout, CancelPc
<1>7. CASE CancelAccepted(p, o)
  <2>1. cancelHandle[<<p, o>>] \in Int
    BY <1>t DEF Handles, NoHandle
  <2>2. broker' \in Seq(BrokerOrder) /\ Len(broker') = Len(broker)
    BY <1>7, <2>1, CancelBrokerType DEF CancelAccepted
  <2> QED BY <1>7, <2>2, <1>t DEF CancelAccepted, CancelPc
<1>8. CASE CancelAnswerLost(p, o)
  <2>1. cancelHandle[<<p, o>>] \in Int
    BY <1>t DEF Handles, NoHandle
  <2>2. broker' \in Seq(BrokerOrder) /\ Len(broker') = Len(broker)
    BY <1>8, <2>1, CancelBrokerType DEF CancelAnswerLost
  <2> QED BY <1>8, <2>2, <1>t DEF CancelAnswerLost, CancelPc, Assumptions
<1>9. CASE CancelRefused(p, o)
  BY <1>9, <1>t DEF CancelRefused, CancelPc
<1>10. CASE CancelStore(p, o)
  <2>1. orders' \in [Orders -> Row]
    BY <1>10, UpdateType DEF CancelStore, OrderStatus
  <2> QED BY <1>10, <2>1, <1>t DEF CancelStore, CancelPc
<1>11. CASE CancelStoreFails(p, o)
  <2>1. orders' \in [Orders -> Row]
    BY <1>11, UpdateType DEF CancelStoreFails, OrderStatus
  <2> QED BY <1>11, <2>1, <1>t DEF CancelStoreFails, CancelPc, Assumptions
<1>d. ASSUME CancelDone(p, o)
      PROVE  /\ cancelPc' \in [Tasks -> CancelPc]
             /\ cancelHandle' \in [Tasks -> Handles \union {NoHandle}]
  BY <1>t, <1>d DEF CancelDone, CancelPc
<1>l. ASSUME cancelPc[<<p, o>>] \in {"failing", "retrying"}
      PROVE  LeaveIfChained(p, o) \in Chains
  <2>1. CASE cancelPc[<<p, o>>] = "failing"
    <3>1. AtHead(cancelChain, p, o)
      BY <2>1 DEF ChainsAreOrderly, CancelOrderly, InSection
    <3> QED BY <2>1, <3>1, ChainType DEF LeaveIfChained
  <2>2. CASE cancelPc[<<p, o>>] # "failing"
    BY <2>2 DEF LeaveIfChained
  <2> QED BY <2>1, <2>2
<1>12. CASE CancelFail(p, o)
  <2>1. orders' \in [Orders -> Row]
    BY <1>12, UpdateType DEF CancelFail, OrderStatus
  <2> QED BY <1>12, <2>1, <1>d, <1>l DEF CancelFail
<1>13. CASE CancelFailLost(p, o)
  <2>1. orders' \in [Orders -> Row]
    BY <1>13, UpdateType DEF CancelFailLost, OrderStatus
  <2>2. /\ cancelPc' \in [Tasks -> CancelPc]
        /\ cancelHandle' \in [Tasks -> Handles \union {NoHandle}]
    BY <1>13, <1>d, <1>t DEF CancelFailLost, CancelPc
  <2>3. cancelChain' \in Chains
    BY <1>13, <1>l DEF CancelFailLost
  <2> QED BY <1>13, <2>1, <2>2, <2>3 DEF CancelFailLost, Assumptions
<1>14. CASE CancelThrows(p, o)
  <2>1. orders' \in [Orders -> Row]
    BY <1>14, UpdateType DEF CancelThrows, OrderStatus
  <2> QED BY <1>14, <2>1, <1>d DEF CancelThrows, Assumptions
<1>15. CASE CancelRelease(p, o)
  <2>1. AtHead(cancelChain, p, o)
    BY <1>15 DEF CancelRelease, ChainsAreOrderly, CancelOrderly, InSection
  <2>2. cancelChain' \in Chains
    BY <1>15, <2>1, ChainType DEF CancelRelease
  <2>3. /\ lock' \in [Accounts -> LockOwners \union {NoOwner}]
        /\ faults' \in 0 .. MaxFaults
    BY <1>15, <1>t, LockType DEF CancelRelease
  <2> QED BY <1>15, <2>2, <2>3, <1>d DEF CancelRelease
<1>16. CASE CancelUnlock(p, o)
  BY <1>16, <1>t, LockType DEF CancelUnlock, CancelPc
<1> QED BY <1>1, <1>2, <1>3, <1>4, <1>5, <1>6, <1>7, <1>8, <1>9, <1>10,
           <1>11, <1>12, <1>13, <1>14, <1>15, <1>16 DEF CancelStep

\* The scheduler, a crash and the lock's TTL.
LEMMA PodTypes ==
    ASSUME Assumptions, StoreTypeOK, ExecutorTypeOK,
           \/ \E p \in Pods :
                 \/ TickClaimRequested(p) \/ TickClaimCancelling(p)
                 \/ TickDone(p) \/ ClaimLost(p) \/ PodCrash(p)
           \/ \E a \in Accounts : LockExpires(a)
    PROVE  StoreTypeOK' /\ ExecutorTypeOK'
<1> USE DEF StoreTypeOK, ExecutorTypeOK, storeVars, placeVars, cancelVars
<1>1. ASSUME NEW p \in Pods, TickClaimRequested(p)
      PROVE  StoreTypeOK' /\ ExecutorTypeOK'
  <2>1. PICK rows \in ClaimableBatches("REQUESTED", BatchSize) :
           /\ orders' = ClaimRows(rows, "SUBMITTING")
           /\ batch' = [batch EXCEPT ![p] = rows]
           /\ placePc' = [t \in Tasks |-> IF t[1] = p /\ t[2] \in rows
                                          THEN "batched" ELSE placePc[t]]
    BY <1>1 DEF TickClaimRequested
  <2>2. rows \in SUBSET Orders
    BY DEF ClaimableBatches, InStatus
  <2>3. orders' \in [Orders -> Row]
    BY <2>1, ClaimType DEF OrderStatus
  <2>4. placePc' \in [Tasks -> PlacePc]
    BY <2>1 DEF PlacePc
  <2> QED BY <1>1, <2>1, <2>2, <2>3, <2>4 DEF TickClaimRequested
<1>2. ASSUME NEW p \in Pods, TickClaimCancelling(p)
      PROVE  StoreTypeOK' /\ ExecutorTypeOK'
  <2>1. PICK rows \in ClaimableBatches("CANCEL_REQUESTED", BatchSize) :
           /\ orders' = ClaimRows(rows, "CANCEL_SUBMITTING")
           /\ cancelPc' = [t \in Tasks |-> IF t[1] = p /\ t[2] \in rows
                                           THEN "picked" ELSE cancelPc[t]]
           /\ cancelHandle' = [t \in Tasks |->
                                  IF t[1] = p /\ t[2] \in rows
                                  THEN orders[t[2]].handle
                                  ELSE cancelHandle[t]]
    BY <1>2 DEF TickClaimCancelling
  <2>2. orders' \in [Orders -> Row]
    BY <2>1, ClaimType DEF OrderStatus
  <2>3. cancelPc' \in [Tasks -> CancelPc]
    BY <2>1 DEF CancelPc
  <2>4. \A t \in Tasks : orders[t[2]].handle \in Handles \union {NoHandle}
    BY DEF Tasks, Row
  <2>5. cancelHandle' \in [Tasks -> Handles \union {NoHandle}]
    BY <2>1, <2>4
  <2> QED BY <1>2, <2>2, <2>3, <2>5 DEF TickClaimCancelling
<1>3. ASSUME NEW p \in Pods, TickDone(p)
      PROVE  StoreTypeOK' /\ ExecutorTypeOK'
  BY <1>3 DEF TickDone
<1>4. ASSUME NEW p \in Pods, PodCrash(p)
      PROVE  StoreTypeOK' /\ ExecutorTypeOK'
  <2>1. placePc' \in [Tasks -> PlacePc] /\ placeErr' \in [Tasks -> PlaceErr]
    BY <1>4 DEF PodCrash, PlacePc, PlaceErr
  <2>2. /\ placeAck' \in [Tasks -> Handles \union {NoHandle}]
        /\ placeLate' \in [Tasks -> BOOLEAN]
    BY <1>4 DEF PodCrash
  <2>3. placeChain' \in Chains /\ cancelChain' \in Chains
    BY <1>4 DEF PodCrash, Chains
  <2>4. /\ cancelPc' \in [Tasks -> CancelPc]
        /\ cancelHandle' \in [Tasks -> Handles \union {NoHandle}]
    BY <1>4 DEF PodCrash, CancelPc
  <2>5. /\ faults' \in 0 .. MaxFaults
        /\ tick' \in [Pods -> {"idle", "requested", "cancelling"}]
        /\ batch' \in [Pods -> SUBSET Orders]
    BY <1>4 DEF PodCrash, Assumptions
  <2>6. UNCHANGED <<orders, broker, lock, events>>
    BY <1>4 DEF PodCrash
  <2> QED BY <2>1, <2>2, <2>3, <2>4, <2>5, <2>6
<1>5. ASSUME NEW a \in Accounts, LockExpires(a)
      PROVE  StoreTypeOK' /\ ExecutorTypeOK'
  BY <1>5 DEF LockExpires
<1>6. ASSUME NEW p \in Pods, ClaimLost(p)
      PROVE  StoreTypeOK' /\ ExecutorTypeOK'
  <2>1. orders' \in [Orders -> Row]
    BY <1>6, ClaimType DEF ClaimLost, OrderStatus
  <2> QED BY <1>6, <2>1 DEF ClaimLost, Assumptions
<1> QED BY <1>1, <1>2, <1>3, <1>4, <1>5, <1>6

-----------------------------------------------------------------------------
(***************************************************************************)
(* Type correctness of the tracker, the back end and the market.           *)
(***************************************************************************)

\* A reported execution has a quantity; it moves a row within its order; and
\* at most one row carries its handle, so findLockedOrderForFill has nothing
\* to choose from.
LEMMA FillFacts ==
    ASSUME Assumptions, StoreTypeOK, HandlesAreOwn, NEW f \in FillIds,
           Executed(f)
    PROVE  /\ Fill(f).qty \in Nat \ {0}
           /\ \A o \in Orders :
                 /\ NextFilled(o, f) \in Nat
                 /\ AppliedQty(o, f) \in Nat
                 /\ NextFilled(o, f) <= Quantity[o]
           /\ OrdersForFill(f) # {} => OrderForFill(f) \in OrdersForFill(f)
<1>1. /\ f[1] \in Handles /\ f[2] \in Nat
      /\ broker \in Seq(BrokerOrder)
      /\ f[1] \in DOMAIN broker /\ f[2] \in DOMAIN broker[f[1]].fills
  BY DEF FillIds, Executed, StoreTypeOK
<1>2. broker[f[1]] \in BrokerOrder
  BY <1>1
<1>3. broker[f[1]].fills \in Seq(Execution)
  BY <1>2 DEF BrokerOrder
<1>4. Fill(f) \in Execution
  BY <1>1, <1>3 DEF Fill
<1>5. Fill(f).qty \in Nat \ {0}
  BY <1>4 DEF Execution
<1>6. ASSUME NEW o \in Orders
      PROVE  /\ NextFilled(o, f) \in Nat /\ AppliedQty(o, f) \in Nat
             /\ NextFilled(o, f) <= Quantity[o]
  <2>1. orders[o].filled \in Nat /\ Quantity[o] \in Nat
    BY DEF StoreTypeOK, Row, Assumptions
  <2> QED BY <1>5, <2>1 DEF NextFilled, AppliedQty, MinOf, MaxOf
<1>7. ASSUME OrdersForFill(f) # {}
      PROVE  OrderForFill(f) \in OrdersForFill(f)
  <2>1. \A o \in OrdersForFill(f) : o \in Nat /\ o = broker[f[1]].order
    <3>1. RowHandles /\ f[1] # NoHandle
      BY <1>1 DEF HandlesAreOwn, Handles, NoHandle
    <3> QED BY <3>1 DEF OrdersForFill, RowHandles, HoldsFor, Assumptions
  <2>2. \E o \in OrdersForFill(f) : \A x \in OrdersForFill(f) : x <= o
    BY <1>7, <2>1
  <2> QED BY <2>2 DEF OrderForFill
<1> QED BY <1>5, <1>6, <1>7

\* A fill moves the row to a status, and its filled quantity within the order.
LEMMA FillRowType ==
    ASSUME Assumptions, StoreTypeOK, HandlesAreOwn, NEW f \in FillIds,
           Executed(f), NEW o \in Orders
    PROVE  FillRow(o, f) \in [Orders -> Row]
<1>1. NextFilled(o, f) \in Nat
  BY FillFacts
<1>2. Quantity[o] \in Nat /\ orders[o] \in Row
  BY DEF Assumptions, StoreTypeOK
<1>3. \A r \in Int : ResolveFillStatus(orders[o].status, r) \in OrderStatus
  BY <1>2 DEF ResolveFillStatus, ClosedStatus, OrderStatus, Row
<1>4. ResolveFillStatus(orders[o].status, Quantity[o] - NextFilled(o, f))
         \in OrderStatus
  BY <1>1, <1>2, <1>3
<1> HIDE DEF ResolveFillStatus, NextFilled
<1> QED BY <1>1, <1>2, <1>4 DEF FillRow, Row, StoreTypeOK

\* Parking a fill.
LEMMA SaveType ==
    ASSUME Assumptions, TrackerTypeOK, NEW f \in FillIds,
           NEW s \in {"PENDING", "DEAD_LETTER"}
    PROVE  SaveUnmatched(f, s) \in [FillIds -> UnmatchedRow]
<1>1. [status |-> s, attempts |-> 0] \in UnmatchedRow
  BY DEF UnmatchedRow, Assumptions
<1> QED BY <1>1 DEF SaveUnmatched, TrackerTypeOK

\* A position book holds a quantity.
LEMMA BookType ==
    ASSUME Assumptions, TrackerTypeOK, NEW o \in Orders, NEW q \in Nat,
           ApplyPositionBookFill(o, q)
    PROVE  books' \in [Books -> Nat \union {NoBook}]
<1>1. \A b \in Books : BookAfter(o, b, q) \in Nat
  BY DEF BookAfter, MaxOf, TrackerTypeOK, NoBook
<1>2. BookOf[o] \in Books
  BY DEF Assumptions
<1>3. BooksForFill(o) \subseteq Books
  BY <1>2 DEF BooksForFill, OwnBook, ManualBooks
<1> QED BY <1>1, <1>2, <1>3 DEF ApplyPositionBookFill, TrackerTypeOK

\* What the ingest transaction writes.
LEMMA IngestType ==
    ASSUME Assumptions, StoreTypeOK, TrackerTypeOK, HandlesAreOwn,
           NEW f \in FillIds, NEW store, IngestExecutionFill(f, store)
    PROVE  /\ StoreTypeOK'
           /\ fills' \in [FillIds -> Nat]
           /\ unmatched' \in [FillIds -> UnmatchedRow]
           /\ books' \in [Books -> Nat \union {NoBook}]
           /\ delivered' \in SUBSET FillIds
<1> DEFINE o == OrderForFill(f)
<1>1. Executed(f) /\ delivered' \in SUBSET FillIds /\ UNCHANGED <<broker, faults>>
  BY DEF IngestExecutionFill, TrackerTypeOK
<1>2. CASE FillOutcome(f) = "inserted"
  <2>1. OrdersForFill(f) # {}
    BY <1>2 DEF FillOutcome
  <2>2. o \in Orders
    BY <1>1, <2>1, FillFacts DEF OrdersForFill
  <2>3. AppliedQty(o, f) \in Nat
    BY <1>1, <2>2, FillFacts
  <2>4. /\ fills' = [fills EXCEPT ![f] = AppliedQty(o, f)]
        /\ orders' = FillRow(o, f)
        /\ ApplyPositionBookFill(o, AppliedQty(o, f))
        /\ \/ unmatched' = SaveUnmatched(f, "DEAD_LETTER")
           \/ unmatched' = unmatched
    BY <1>2 DEF IngestExecutionFill
  <2> HIDE DEF o
  <2>5. fills' \in [FillIds -> Nat]
    BY <2>3, <2>4 DEF TrackerTypeOK
  <2>6. orders' \in [Orders -> Row]
    BY <1>1, <2>2, <2>4, FillRowType
  <2>7. books' \in [Books -> Nat \union {NoBook}]
    BY <2>2, <2>3, <2>4, BookType
  <2>8. unmatched' \in [FillIds -> UnmatchedRow]
    BY <2>4, SaveType DEF TrackerTypeOK
  <2> QED BY <1>1, <2>5, <2>6, <2>7, <2>8 DEF StoreTypeOK
<1>3. CASE FillOutcome(f) # "inserted"
  <2>1. /\ UNCHANGED <<fills, orders, books>>
        /\ \/ unmatched' = SaveUnmatched(f, "DEAD_LETTER")
           \/ unmatched' = SaveUnmatched(f, "PENDING")
           \/ unmatched' = unmatched
    BY <1>3 DEF IngestExecutionFill
  <2>2. unmatched' \in [FillIds -> UnmatchedRow]
    BY <2>1, SaveType DEF TrackerTypeOK
  <2> QED BY <1>1, <2>1, <2>2 DEF StoreTypeOK, TrackerTypeOK
<1> QED BY <1>2, <1>3

\* The tracker's steps.
LEMMA TrackerTypes ==
    ASSUME Assumptions, StoreTypeOK, TrackerTypeOK, HandlesAreOwn,
           AttemptsAreBounded, TrackerNext
    PROVE  StoreTypeOK' /\ TrackerTypeOK'
<1>1. ASSUME NEW f \in FillIds, IngestFill(f)
      PROVE  StoreTypeOK' /\ TrackerTypeOK'
  BY <1>1, IngestType DEF IngestFill, TrackerTypeOK
<1>2. ASSUME NEW t \in Trackers, NEW f \in FillIds, RetryRead(t, f)
      PROVE  StoreTypeOK' /\ TrackerTypeOK'
  <2>1. unmatched[f].attempts \in 0 .. MaxAttempts
    BY DEF TrackerTypeOK, UnmatchedRow
  <2>2. [pc |-> "read", fill |-> f, attempts |-> unmatched[f].attempts]
           \in Retry
    BY <2>1 DEF Retry
  <2> QED BY <1>2, <2>2 DEF RetryRead, TrackerTypeOK, StoreTypeOK, storeVars
<1>3. ASSUME NEW t \in Trackers, RetryIngest(t)
      PROVE  StoreTypeOK' /\ TrackerTypeOK'
  <2>1. retry[t] \in Retry /\ retry[t].pc = "read"
    BY <1>3 DEF RetryIngest, TrackerTypeOK
  <2>2. retry[t].fill \in FillIds /\ retry[t].attempts \in 0 .. MaxAttempts
    BY <2>1 DEF Retry, Idle
  <2>3. FillOutcome(retry[t].fill) \in Outcome
    BY DEF FillOutcome, Outcome
  <2>4. [pc |-> "ingested", fill |-> retry[t].fill,
         attempts |-> retry[t].attempts,
         outcome |-> FillOutcome(retry[t].fill)] \in Retry
    BY <2>2, <2>3 DEF Retry
  <2>5. retry' \in [Trackers -> Retry]
    BY <1>3, <2>4 DEF RetryIngest, TrackerTypeOK
  <2> QED BY <1>3, <2>2, <2>5, IngestType DEF RetryIngest, TrackerTypeOK
<1>4. ASSUME NEW t \in Trackers, RetryMark(t)
      PROVE  StoreTypeOK' /\ TrackerTypeOK'
  <2>1. retry[t] \in Retry /\ retry[t].pc = "ingested"
    BY <1>4 DEF RetryMark, TrackerTypeOK
  <2>2. /\ retry[t].fill \in FillIds /\ retry[t].attempts \in 0 .. MaxAttempts
        /\ retry[t].attempts < MaxAttempts
    BY <2>1 DEF Retry, Idle, AttemptsAreBounded
  <2>3. unmatched[retry[t].fill] \in UnmatchedRow
    BY <2>2 DEF TrackerTypeOK
  <2>4. retry[t].attempts + 1 \in 0 .. MaxAttempts
    BY <2>2 DEF Assumptions
  <2>5. MarkUnmatched(unmatched[retry[t].fill], retry[t].outcome,
                      retry[t].attempts + 1) \in UnmatchedRow
    BY <2>3, <2>4 DEF MarkUnmatched, UnmatchedRow
  <2>6. unmatched' \in [FillIds -> UnmatchedRow]
    BY <1>4, <2>2, <2>5 DEF RetryMark, TrackerTypeOK
  <2>7. retry' \in [Trackers -> Retry]
    BY <1>4 DEF RetryMark, TrackerTypeOK, Retry
  <2> QED BY <1>4, <2>6, <2>7 DEF RetryMark, TrackerTypeOK, StoreTypeOK,
             storeVars
<1>5. ASSUME NEW t \in Trackers, RetryAborts(t)
      PROVE  StoreTypeOK' /\ TrackerTypeOK'
  BY <1>5 DEF RetryAborts, TrackerTypeOK, StoreTypeOK, Retry, Assumptions
<1> QED BY <1>1, <1>2, <1>3, <1>4, <1>5 DEF TrackerNext

\* An execution keeps the broker's type.
LEMMA ExecuteBrokerType ==
    ASSUME Assumptions, broker \in Seq(BrokerOrder), NEW h \in DOMAIN broker,
           NEW q \in 1 .. broker[h].open, NEW m \in BOOLEAN,
           BrokerExecutes(h, q, m)
    PROVE  /\ broker' \in Seq(BrokerOrder) /\ Len(broker') = Len(broker)
           /\ \A k \in DOMAIN broker : broker'[k].order = broker[k].order
<1> DEFINE b == [broker[h] EXCEPT
                    !.open = broker[h].open - q,
                    !.fills = Append(broker[h].fills,
                                     [qty |-> q, malformed |-> m])]
<1>1. broker[h] \in BrokerOrder
  OBVIOUS
<1>2. q \in Nat \ {0} /\ broker[h].open - q \in Nat
  BY <1>1 DEF BrokerOrder, BrokerExecutes
<1>3. Append(broker[h].fills, [qty |-> q, malformed |-> m]) \in Seq(Execution)
  BY <1>1, <1>2 DEF BrokerOrder, Execution
<1>4. b \in BrokerOrder /\ b.order = broker[h].order
  BY <1>1, <1>2, <1>3 DEF BrokerOrder
<1>5. broker' = [broker EXCEPT ![h] = b]
  BY DEF BrokerExecutes
<1> HIDE DEF b
<1> QED BY <1>4, <1>5

\* The back end's and the market's steps.
LEMMA EnvironmentTypes ==
    ASSUME Assumptions, TypeOK,
           \/ \E o \in Orders : BeRequest(o) \/ BeCancel(o)
           \/ \E h \in DOMAIN broker :
                 \E q \in 1 .. broker[h].open : Trade(h, q)
    PROVE  TypeOK'
<1> USE DEF TypeOK
<1>e. ASSUME UNCHANGED executorVars PROVE ExecutorTypeOK'
  BY <1>e DEF ExecutorTypeOK, executorVars
<1>t. ASSUME UNCHANGED trackerVars PROVE TrackerTypeOK'
  BY <1>t DEF TrackerTypeOK, trackerVars
<1>1. ASSUME NEW o \in Orders, BeRequest(o) \/ BeCancel(o)
      PROVE  TypeOK'
  <2>1. StoreTypeOK'
    BY <1>1 DEF BeRequest, BeCancel, StoreTypeOK, Row, OrderStatus
  <2> QED BY <1>1, <1>e, <1>t, <2>1 DEF BeRequest, BeCancel
<1>2. ASSUME NEW h \in DOMAIN broker, NEW q \in 1 .. broker[h].open,
             Trade(h, q)
      PROVE  TypeOK'
  <2>1. StoreTypeOK'
    BY <1>2, ExecuteBrokerType DEF Trade, StoreTypeOK, Assumptions
  <2> QED BY <1>2, <1>e, <1>t, <2>1 DEF Trade
<1> QED BY <1>1, <1>2

\* Every step keeps the types, given the three invariants it rests on.
LEMMA NextType ==
    ASSUME Assumptions, TypeOK, ChainsAreOrderly, HandlesAreOwn,
           AttemptsAreBounded, [Next]_vars
    PROVE  TypeOK'
<1> USE DEF TypeOK
<1>1. CASE ExecutorNext /\ UNCHANGED trackerVars
  <2>1. StoreTypeOK' /\ ExecutorTypeOK'
    BY <1>1, PlaceStepTypes, CancelStepTypes, PodTypes DEF ExecutorNext
  <2>2. TrackerTypeOK'
    BY <1>1 DEF TrackerTypeOK, trackerVars
  <2> QED BY <2>1, <2>2
<1>2. CASE TrackerNext /\ UNCHANGED executorVars
  <2>1. StoreTypeOK' /\ TrackerTypeOK'
    BY <1>2, TrackerTypes
  <2>2. ExecutorTypeOK'
    BY <1>2 DEF ExecutorTypeOK, executorVars
  <2> QED BY <2>1, <2>2
<1>3. CASE UNCHANGED vars
  BY <1>3 DEF vars, storeVars, executorVars, trackerVars, StoreTypeOK,
     ExecutorTypeOK, TrackerTypeOK
<1> QED BY <1>1, <1>2, <1>3, EnvironmentTypes DEF Next

-----------------------------------------------------------------------------
(***************************************************************************)
(* ChainsAreOrderly: only the head of a chain leaves it, and joining it    *)
(* does not change its head.                                               *)
(***************************************************************************)

\* Joining keeps every head; the task that joins an empty chain is its head.
LEMMA JoinKeepsHead ==
    ASSUME Assumptions, NEW chain \in Chains, NEW p \in Pods, NEW o \in Orders,
           NEW q \in Pods, NEW x \in Orders, AtHead(chain, q, x)
    PROVE  AtHead(EnterChain(chain, p, o), q, x)
<1>1. ChainOf(p, o) \in Pods \X Accounts /\ ChainOf(q, x) \in Pods \X Accounts
  BY DEF ChainOf, Assumptions
<1>2. chain[ChainOf(q, x)] \in Seq(Orders) /\ chain[ChainOf(q, x)] # << >>
  BY <1>1 DEF Chains, AtHead
<1>3. /\ Append(chain[ChainOf(q, x)], o) # << >>
      /\ Head(Append(chain[ChainOf(q, x)], o)) = Head(chain[ChainOf(q, x)])
  BY <1>2
<1> QED BY <1>1, <1>3 DEF EnterChain, AtHead, Chains

\* A task that leaves changes only its own account's chain, and a chain has
\* one head.
LEMMA LeaveKeepsHead ==
    ASSUME Assumptions, NEW chain \in Chains, NEW p \in Pods, NEW o \in Orders,
           AtHead(chain, p, o), NEW q \in Pods, NEW x \in Orders,
           AtHead(chain, q, x), <<q, x>> # <<p, o>>
    PROVE  AtHead(LeaveChain(chain, p, o), q, x)
<1>1. ChainOf(p, o) \in Pods \X Accounts /\ ChainOf(q, x) \in Pods \X Accounts
  BY DEF ChainOf, Assumptions
<1>2. ChainOf(q, x) # ChainOf(p, o)
  BY DEF AtHead, ChainOf
<1> QED BY <1>1, <1>2 DEF LeaveChain, AtHead, Chains

\* The steps of a place task.
LEMMA PlaceChains ==
    ASSUME Assumptions, ExecutorTypeOK, PlaceOrderly,
           NEW p \in Pods, NEW o \in Orders,
           OrderCommand(p, o) \/ PlaceStep(p, o)
    PROVE  PlaceOrderly'
<1> SUFFICES ASSUME NEW q \in Pods, NEW x \in Orders,
                    placePc'[<<q, x>>] \in InSection
             PROVE  AtHead(placeChain', q, x)
  BY DEF PlaceOrderly, AtHead
<1>t. /\ <<p, o>> \in Tasks /\ <<q, x>> \in Tasks
      /\ placePc \in [Tasks -> PlacePc] /\ placeChain \in Chains
  BY DEF Tasks, ExecutorTypeOK
<1>1. CASE StartBatched(p, o) \/ OrderCommand(p, o)
  <2>1. /\ placeChain' = EnterChain(placeChain, p, o)
        /\ placePc' = [placePc EXCEPT ![<<p, o>>] = "chained"]
    BY <1>1 DEF StartBatched, OrderCommand
  <2>2. placePc[<<q, x>>] \in InSection
    BY <2>1, <1>t DEF InSection
  <2>3. AtHead(placeChain, q, x)
    BY <2>2 DEF PlaceOrderly
  <2> QED BY <2>1, <2>3, <1>t, JoinKeepsHead
<1>2. CASE PlaceRelease(p, o)
  <2>1. /\ placeChain' = LeaveChain(placeChain, p, o)
        /\ placePc' = [placePc EXCEPT ![<<p, o>>] = "none"]
        /\ placePc[<<p, o>>] \in InSection
    BY <1>2 DEF PlaceRelease, InSection
  <2>2. placePc[<<q, x>>] \in InSection /\ <<q, x>> # <<p, o>>
    BY <2>1, <1>t DEF InSection
  <2>3. AtHead(placeChain, q, x) /\ AtHead(placeChain, p, o)
    BY <2>1, <2>2 DEF PlaceOrderly
  <2> QED BY <2>1, <2>2, <2>3, <1>t, LeaveKeepsHead
<1>3. CASE ~(StartBatched(p, o) \/ OrderCommand(p, o) \/ PlaceRelease(p, o))
  <2>1. /\ placeChain' = placeChain
        /\ placePc[<<p, o>>] \in InSection \/ AtHead(placeChain, p, o)
        /\ \E pc : placePc' = [placePc EXCEPT ![<<p, o>>] = pc]
    BY <1>3 DEF PlaceStep, PlaceAcquire, PlaceLockTimeout, PlaceIncomplete,
       PlaceAccepted, PlaceAnswerLost, PlaceRefused, PlaceStore, PlaceAttach,
       PlaceWriteFails, PlacePublish, PlaceFail, PlaceFailLost,
       PlacePublishFailed, PlaceUnlock, PlaceErrs, InSection
  <2>2. AtHead(placeChain, p, o)
    BY <2>1 DEF PlaceOrderly
  <2>3. CASE <<q, x>> = <<p, o>>
    BY <2>1, <2>2, <2>3
  <2>4. CASE <<q, x>> # <<p, o>>
    BY <2>1, <2>4, <1>t DEF PlaceOrderly
  <2> QED BY <2>3, <2>4
<1> QED BY <1>1, <1>2, <1>3

\* The steps of a cancel task.
LEMMA CancelChains ==
    ASSUME Assumptions, ExecutorTypeOK, CancelOrderly,
           NEW p \in Pods, NEW o \in Orders, CancelStep(p, o)
    PROVE  CancelOrderly'
<1> SUFFICES ASSUME NEW q \in Pods, NEW x \in Orders,
                    cancelPc'[<<q, x>>] \in InSection
             PROVE  AtHead(cancelChain', q, x)
  BY DEF CancelOrderly, AtHead
<1>t. /\ <<p, o>> \in Tasks /\ <<q, x>> \in Tasks
      /\ cancelPc \in [Tasks -> CancelPc] /\ cancelChain \in Chains
  BY DEF Tasks, ExecutorTypeOK
<1>p. \E pc : cancelPc' = [cancelPc EXCEPT ![<<p, o>>] = pc]
  BY DEF CancelStep, CancelStart, CancelPoll, CancelWaitExpires, CancelClose,
     CancelAcquire, CancelLockTimeout, CancelAccepted, CancelAnswerLost,
     CancelRefused, CancelStore, CancelStoreFails, CancelUnlock, CancelFail,
     CancelFailLost, CancelThrows, CancelRelease, CancelDone
<1>1. CASE cancelChain' = EnterChain(cancelChain, p, o)
           /\ cancelPc'[<<p, o>>] \notin InSection
  <2>1. cancelPc[<<q, x>>] \in InSection
    BY <1>1, <1>p, <1>t
  <2>2. AtHead(cancelChain, q, x)
    BY <2>1 DEF CancelOrderly
  <2> QED BY <1>1, <2>2, <1>t, JoinKeepsHead
<1>2. CASE /\ cancelChain' = LeaveChain(cancelChain, p, o)
           /\ cancelPc[<<p, o>>] \in InSection
           /\ cancelPc'[<<p, o>>] \notin InSection
  <2>1. cancelPc[<<q, x>>] \in InSection /\ <<q, x>> # <<p, o>>
    BY <1>2, <1>p, <1>t
  <2>2. AtHead(cancelChain, q, x) /\ AtHead(cancelChain, p, o)
    BY <1>2, <2>1 DEF CancelOrderly
  <2> QED BY <1>2, <2>1, <2>2, <1>t, LeaveKeepsHead
<1>3. CASE /\ cancelChain' = cancelChain
           /\ \/ cancelPc'[<<p, o>>] \notin InSection
              \/ cancelPc[<<p, o>>] \in InSection
              \/ AtHead(cancelChain, p, o)
  <2>1. CASE <<q, x>> = <<p, o>>
    BY <1>3, <2>1 DEF CancelOrderly
  <2>2. CASE <<q, x>> # <<p, o>>
    BY <1>3, <1>p, <2>2, <1>t DEF CancelOrderly
  <2> QED BY <2>1, <2>2
<1>4. CASE CancelStart(p, o) \/ CancelPoll(p, o)
  BY <1>4, <1>1, <1>3, <1>t DEF CancelStart, CancelPoll, InSection
<1>5. CASE CancelFail(p, o) \/ CancelFailLost(p, o) \/ CancelRelease(p, o)
  BY <1>5, <1>2, <1>3, <1>t DEF CancelFail, CancelFailLost, CancelRelease,
     CancelDone, LeaveIfChained, InSection
<1>6. CASE ~(\/ CancelStart(p, o) \/ CancelPoll(p, o) \/ CancelFail(p, o)
             \/ CancelFailLost(p, o) \/ CancelRelease(p, o))
  <2>1. /\ cancelChain' = cancelChain
        /\ \/ cancelPc[<<p, o>>] \in InSection
           \/ AtHead(cancelChain, p, o)
           \/ cancelPc' = [cancelPc EXCEPT ![<<p, o>>] = "none"]
           \/ cancelPc' = [cancelPc EXCEPT ![<<p, o>>] = "closing"]
    BY <1>6 DEF CancelStep, CancelWaitExpires, CancelClose,
     CancelAcquire, CancelLockTimeout, CancelAccepted, CancelAnswerLost,
     CancelRefused, CancelStore, CancelStoreFails, CancelUnlock,
     CancelThrows, CancelDone, InSection
  <2> QED BY <1>3, <2>1, <1>t DEF InSection
<1> QED BY <1>4, <1>5, <1>6

\* Every step.
LEMMA NextChains ==
    ASSUME Assumptions, ExecutorTypeOK, ChainsAreOrderly, [Next]_vars
    PROVE  ChainsAreOrderly'
<1> DEFINE chainVars == <<placePc, placeChain, cancelPc, cancelChain>>
<1>0. PlaceOrderly /\ CancelOrderly
  BY DEF ChainsAreOrderly
<1>u. ASSUME UNCHANGED chainVars PROVE ChainsAreOrderly'
  BY <1>u DEF ChainsAreOrderly, PlaceOrderly, CancelOrderly, AtHead
<1>j. ASSUME PlaceOrderly', CancelOrderly' PROVE ChainsAreOrderly'
  BY <1>j DEF ChainsAreOrderly
<1>c. ASSUME UNCHANGED <<cancelPc, cancelChain>> PROVE CancelOrderly'
  BY <1>0, <1>c DEF CancelOrderly, AtHead
<1>p. ASSUME UNCHANGED <<placePc, placeChain>> PROVE PlaceOrderly'
  BY <1>0, <1>p DEF PlaceOrderly, AtHead
<1>1. ASSUME NEW p \in Pods, NEW o \in Orders,
             OrderCommand(p, o) \/ PlaceStep(p, o)
      PROVE  ChainsAreOrderly'
  <2>1. UNCHANGED <<cancelPc, cancelChain>>
    BY <1>1 DEF OrderCommand, PlaceStep, StartBatched, PlaceAcquire,
       PlaceLockTimeout, PlaceIncomplete, PlaceAccepted, PlaceAnswerLost,
       PlaceRefused, PlaceStore, PlaceAttach, PlaceWriteFails, PlacePublish,
       PlaceFail, PlaceFailLost, PlacePublishFailed, PlaceUnlock,
       PlaceRelease, cancelVars
  <2> QED BY <1>0, <1>1, <1>c, <1>j, <2>1, PlaceChains
<1>2. ASSUME NEW p \in Pods, NEW o \in Orders, CancelStep(p, o)
      PROVE  ChainsAreOrderly'
  <2>1. UNCHANGED <<placePc, placeChain>>
    BY <1>2 DEF CancelStep, CancelStart, CancelPoll, CancelWaitExpires,
       CancelClose, CancelAcquire, CancelLockTimeout, CancelAccepted,
       CancelAnswerLost, CancelRefused, CancelStore, CancelStoreFails,
       CancelUnlock, CancelFail, CancelFailLost, CancelThrows, CancelRelease,
       placeVars
  <2> QED BY <1>0, <1>2, <1>p, <1>j, <2>1, CancelChains
<1>3. ASSUME NEW p \in Pods, TickClaimRequested(p)
      PROVE  ChainsAreOrderly'
  <2>1. /\ UNCHANGED <<cancelPc, cancelChain, placeChain>>
        /\ \A t \in Tasks : placePc'[t] \in {"batched", placePc[t]}
    BY <1>3 DEF TickClaimRequested, cancelVars
  <2>2. PlaceOrderly'
    BY <1>0, <2>1 DEF PlaceOrderly, Tasks, InSection, AtHead
  <2> QED BY <1>c, <1>j, <2>1, <2>2
<1>4. ASSUME NEW p \in Pods, TickClaimCancelling(p)
      PROVE  ChainsAreOrderly'
  <2>1. /\ UNCHANGED <<placePc, cancelChain, placeChain>>
        /\ \A t \in Tasks : cancelPc'[t] \in {"picked", cancelPc[t]}
    BY <1>4 DEF TickClaimCancelling, placeVars
  <2>2. CancelOrderly'
    BY <1>0, <2>1 DEF CancelOrderly, Tasks, InSection, AtHead
  <2> QED BY <1>p, <1>j, <2>1, <2>2
<1>5. ASSUME NEW p \in Pods, PodCrash(p)
      PROVE  ChainsAreOrderly'
  <2>1. \A t \in Tasks :
           /\ placePc'[t] = IF t[1] = p THEN "none" ELSE placePc[t]
           /\ cancelPc'[t] = IF t[1] = p THEN "none" ELSE cancelPc[t]
    BY <1>5 DEF PodCrash
  <2>2. \A c \in Pods \X Accounts : c[1] # p
           => placeChain'[c] = placeChain[c] /\ cancelChain'[c] = cancelChain[c]
    BY <1>5 DEF PodCrash
  <2>3. \A q \in Pods, o \in Orders : ChainOf(q, o) \in Pods \X Accounts
                                     /\ ChainOf(q, o)[1] = q
    BY DEF ChainOf, Assumptions
  <2>4. ASSUME NEW q \in Pods, NEW o \in Orders, q # p
        PROVE  /\ AtHead(placeChain', q, o) <=> AtHead(placeChain, q, o)
               /\ AtHead(cancelChain', q, o) <=> AtHead(cancelChain, q, o)
    BY <2>2, <2>3, <2>4 DEF AtHead
  <2>5. PlaceOrderly' /\ CancelOrderly'
    BY <1>0, <2>1, <2>4 DEF PlaceOrderly, CancelOrderly, Tasks, InSection
  <2> QED BY <2>5, <1>j
<1>6. ASSUME \/ \E p \in Pods : TickDone(p) \/ ClaimLost(p)
             \/ \E a \in Accounts : LockExpires(a)
      PROVE  ChainsAreOrderly'
  BY <1>6, <1>u DEF TickDone, ClaimLost, LockExpires, placeVars, cancelVars
<1>7. CASE ExecutorNext
  BY <1>7, <1>1, <1>2, <1>3, <1>4, <1>5, <1>6 DEF ExecutorNext
<1>8. CASE UNCHANGED executorVars
  BY <1>8, <1>u DEF executorVars
<1> QED BY <1>7, <1>8 DEF Next, vars, BeRequest, BeCancel, Trade

-----------------------------------------------------------------------------
(***************************************************************************)
(* HandlesAreOwn: the broker only adds orders, a place task's handle is    *)
(* the order it has just added for its row, and rows and cancel tasks copy *)
(* handles from there.                                                     *)
(***************************************************************************)

\* A new order is the last one; nothing else changes.
LEMMA AcceptAppends ==
    ASSUME Assumptions, broker \in Seq(BrokerOrder), NEW o, NEW late,
           BrokerAccepts(o, late)
    PROVE  /\ DOMAIN broker' = DOMAIN broker \union {Len(broker) + 1}
           /\ Len(broker) + 1 \notin DOMAIN broker
           /\ broker'[Len(broker) + 1].order = o
           /\ \A h \in DOMAIN broker : broker'[h] = broker[h]
<1> DEFINE b == [order |-> o, open |-> Quantity[o], fills |-> << >>,
                 late |-> late]
<1>1. broker' = Append(broker, b) /\ b.order = o
  BY DEF BrokerAccepts
<1> HIDE DEF b
<1> QED BY <1>1

\* A cancellation keeps every order's row.
LEMMA CancelKeepsRows ==
    ASSUME broker \in Seq(BrokerOrder), NEW h \in DOMAIN broker,
           BrokerCancels(h)
    PROVE  /\ DOMAIN broker' = DOMAIN broker
           /\ \A k \in DOMAIN broker : broker'[k].order = broker[k].order
<1>1. broker[h] \in BrokerOrder
  OBVIOUS
<1>2. [broker[h] EXCEPT !.open = 0].order = broker[h].order
  BY <1>1 DEF BrokerOrder
<1>3. broker' = [broker EXCEPT ![h] = [broker[h] EXCEPT !.open = 0]]
  BY DEF BrokerCancels
<1> QED BY <1>2, <1>3

\* No statement that writes a status touches a row's handle.
LEMMA StatusWritesKeepHandles ==
    ASSUME orders \in [Orders -> Row], NEW x \in Orders
    PROVE  /\ \A rows, s : ClaimRows(rows, s)[x].handle = orders[x].handle
           /\ \A o \in Orders : \A e, s :
                 UpdateStatusFromExpected(o, e, s)[x].handle = orders[x].handle
           /\ \A o \in Orders : \A f :
                 FillRow(o, f)[x].handle = orders[x].handle
<1>1. \A rows, s : ClaimRows(rows, s)[x].handle = orders[x].handle
  BY DEF ClaimRows, Row
<1>2. \A o \in Orders : \A e, s :
         UpdateStatusFromExpected(o, e, s)[x].handle = orders[x].handle
  BY DEF UpdateStatusFromExpected, Row
<1>3. \A o \in Orders : \A f : FillRow(o, f)[x].handle = orders[x].handle
  BY DEF FillRow, Row
<1> QED BY <1>1, <1>2, <1>3

\* The two statements that write a handle write it to their own row.
LEMMA HandleWrites ==
    ASSUME orders \in [Orders -> Row], NEW x \in Orders, NEW o \in Orders,
           NEW e, NEW h
    PROVE  /\ AcceptFromExpected(o, e, h)[x].handle
                 \in {orders[x].handle} \union (IF x = o THEN {h} ELSE {})
           /\ AttachBrokerOrderIdFromExpected(o, e, h)[x].handle
                 \in {orders[x].handle} \union (IF x = o THEN {h} ELSE {})
<1>1. AcceptFromExpected(o, e, h)[x].handle
         \in {orders[x].handle} \union (IF x = o THEN {h} ELSE {})
  BY DEF AcceptFromExpected, Row
<1>2. AttachBrokerOrderIdFromExpected(o, e, h)[x].handle
         \in {orders[x].handle} \union (IF x = o THEN {h} ELSE {})
  BY DEF AttachBrokerOrderIdFromExpected, Row
<1> QED BY <1>1, <1>2

\* The broker's orders stay, each with its row.
BrokerKept ==
    /\ DOMAIN broker \subseteq DOMAIN broker'
    /\ \A h \in DOMAIN broker : broker'[h].order = broker[h].order

\* What a step that keeps them must still show.
LEMMA KeptHandles ==
    ASSUME BrokerKept
    PROVE  /\ RowHandles /\ (\A x \in Orders :
                                orders'[x].handle = orders[x].handle)
                 => RowHandles'
           /\ PlaceHandles /\ UNCHANGED placeAck
              /\ (\A p \in Pods, x \in Orders :
                     placePc'[<<p, x>>] \in {"acked", "attaching"}
                        => placePc[<<p, x>>] \in {"acked", "attaching"})
                 => PlaceHandles'
           /\ CancelHandles /\ UNCHANGED cancelHandle
              /\ (\A p \in Pods, x \in Orders :
                     cancelPc'[<<p, x>>] \in {"chained", "calling"}
                        => \/ cancelPc[<<p, x>>] \in {"chained", "calling"}
                           \/ cancelHandle[<<p, x>>] # NoHandle)
                 => CancelHandles'
<1> USE DEF BrokerKept, HoldsFor
<1>1. ASSUME RowHandles,
             \A x \in Orders : orders'[x].handle = orders[x].handle
      PROVE  RowHandles'
  BY <1>1 DEF RowHandles
<1>2. ASSUME PlaceHandles, UNCHANGED placeAck,
             \A p \in Pods, x \in Orders :
                placePc'[<<p, x>>] \in {"acked", "attaching"}
                   => placePc[<<p, x>>] \in {"acked", "attaching"}
      PROVE  PlaceHandles'
  BY <1>2 DEF PlaceHandles
<1>3. ASSUME CancelHandles, UNCHANGED cancelHandle,
             \A p \in Pods, x \in Orders :
                cancelPc'[<<p, x>>] \in {"chained", "calling"}
                   => \/ cancelPc[<<p, x>>] \in {"chained", "calling"}
                      \/ cancelHandle[<<p, x>>] # NoHandle
      PROVE  CancelHandles'
  BY <1>3 DEF CancelHandles
<1> QED BY <1>1, <1>2, <1>3

\* The steps of a place task.
LEMMA PlaceHandleSteps ==
    ASSUME Assumptions, StoreTypeOK, ExecutorTypeOK, HandlesAreOwn,
           NEW p \in Pods, NEW o \in Orders,
           OrderCommand(p, o) \/ PlaceStep(p, o)
    PROVE  HandlesAreOwn' /\ BrokerKept
<1>0. RowHandles /\ PlaceHandles /\ CancelHandles
  BY DEF HandlesAreOwn
<1>t. /\ \A q \in Pods, x \in Orders : <<q, x>> \in Tasks
      /\ placePc \in [Tasks -> PlacePc]
      /\ placeAck \in [Tasks -> Handles \union {NoHandle}]
      /\ orders \in [Orders -> Row] /\ broker \in Seq(BrokerOrder)
  BY DEF Tasks, ExecutorTypeOK, StoreTypeOK
<1>c. UNCHANGED cancelVars
  BY DEF OrderCommand, PlaceStep, StartBatched, PlaceAcquire,
     PlaceLockTimeout, PlaceIncomplete, PlaceAccepted, PlaceAnswerLost,
     PlaceRefused, PlaceStore, PlaceAttach, PlaceWriteFails, PlacePublish,
     PlaceFail, PlaceFailLost, PlacePublishFailed, PlaceUnlock, PlaceRelease
<1>k. ASSUME BrokerKept PROVE CancelHandles'
  BY <1>0, <1>c, <1>k, KeptHandles DEF cancelVars
<1>u. ASSUME UNCHANGED broker PROVE BrokerKept
  BY <1>u DEF BrokerKept
<1>b. ASSUME NEW late, BrokerAccepts(o, late) PROVE BrokerKept
  BY <1>b, <1>t, AcceptAppends DEF BrokerKept
<1>1. CASE PlaceAccepted(p, o)
  <2>1. BrokerAccepts(o, placeLate[<<p, o>>]) /\ BrokerKept
    BY <1>1, <1>b DEF PlaceAccepted
  <2>2. Len(broker) + 1 \in DOMAIN broker' /\ broker'[Len(broker) + 1].order = o
    BY <2>1, <1>t, AcceptAppends
  <2>3. /\ placeAck' = [placeAck EXCEPT ![<<p, o>>] = Len(broker) + 1]
        /\ placePc' = [placePc EXCEPT ![<<p, o>>] = "acked"]
        /\ UNCHANGED orders
    BY <1>1 DEF PlaceAccepted
  <2>4. Len(broker) + 1 # NoHandle
    BY <1>t DEF NoHandle
  <2>5. PlaceHandles'
    BY <1>0, <1>t, <2>1, <2>2, <2>3, <2>4 DEF PlaceHandles, HoldsFor, BrokerKept
  <2>6. RowHandles'
    BY <1>0, <2>1, <2>3, KeptHandles
  <2> QED BY <1>k, <2>1, <2>5, <2>6 DEF HandlesAreOwn
<1>2. CASE PlaceStore(p, o) \/ PlaceAttach(p, o) \/ PlaceWriteFails(p, o)
  <2>1. BrokerKept /\ UNCHANGED <<broker, placeAck>>
    BY <1>2, <1>u DEF PlaceStore, PlaceAttach, PlaceWriteFails
  <2>2. \A x \in Orders : orders'[x].handle \in {orders[x].handle}
           \union (IF x = o THEN {placeAck[<<p, o>>]} ELSE {})
    BY <1>2, <1>t, HandleWrites DEF PlaceStore, PlaceAttach, PlaceWriteFails
  <2>3. RowHandles'
    BY <1>0, <2>1, <2>2 DEF RowHandles, PlaceHandles, HoldsFor
  <2>4. \A q \in Pods, x \in Orders :
           placePc'[<<q, x>>] \in {"acked", "attaching"}
              => placePc[<<q, x>>] \in {"acked", "attaching"}
    BY <1>2, <1>t DEF PlaceStore, PlaceAttach, PlaceWriteFails, PlaceErrs
  <2>5. PlaceHandles'
    BY <1>0, <2>1, <2>4, KeptHandles
  <2> QED BY <1>k, <2>1, <2>3, <2>5 DEF HandlesAreOwn
<1>3. CASE PlaceRelease(p, o)
  <2>1. BrokerKept /\ UNCHANGED <<broker, orders>>
    BY <1>3, <1>u DEF PlaceRelease
  <2>2. /\ placeAck' = [placeAck EXCEPT ![<<p, o>>] = NoHandle]
        /\ placePc' = [placePc EXCEPT ![<<p, o>>] = "none"]
    BY <1>3 DEF PlaceRelease
  <2>3. PlaceHandles'
    BY <1>0, <1>t, <2>1, <2>2 DEF PlaceHandles, HoldsFor
  <2>4. RowHandles'
    BY <1>0, <2>1, KeptHandles
  <2> QED BY <1>k, <2>1, <2>3, <2>4 DEF HandlesAreOwn
<1>4. CASE ~(\/ PlaceAccepted(p, o) \/ PlaceStore(p, o) \/ PlaceAttach(p, o)
             \/ PlaceWriteFails(p, o) \/ PlaceRelease(p, o))
  <2>1. BrokerKept
    BY <1>4, <1>u, <1>b DEF OrderCommand, PlaceStep, StartBatched, PlaceAcquire,
       PlaceLockTimeout, PlaceIncomplete, PlaceAnswerLost, PlaceRefused,
       PlacePublish, PlaceFail, PlaceFailLost, PlacePublishFailed,
       PlaceUnlock, storeVars
  <2>2. \A x \in Orders : orders'[x].handle = orders[x].handle
    BY <1>4, <1>t, StatusWritesKeepHandles DEF OrderCommand, PlaceStep,
       StartBatched, PlaceAcquire, PlaceLockTimeout, PlaceIncomplete,
       PlaceAnswerLost, PlaceRefused, PlacePublish, PlaceFail, PlaceFailLost,
       PlacePublishFailed, PlaceUnlock, storeVars
  <2>3. /\ UNCHANGED placeAck
        /\ \E pc : /\ placePc' = [placePc EXCEPT ![<<p, o>>] = pc]
                   /\ pc \notin {"acked", "attaching"}
    BY <1>4 DEF OrderCommand, PlaceStep, StartBatched, PlaceAcquire,
       PlaceLockTimeout, PlaceIncomplete, PlaceAnswerLost, PlaceRefused,
       PlacePublish, PlaceFail, PlaceFailLost, PlacePublishFailed,
       PlaceUnlock, PlaceErrs, FailEvent, FailExit
  <2>4. \A q \in Pods, x \in Orders :
           placePc'[<<q, x>>] \in {"acked", "attaching"}
              => placePc[<<q, x>>] \in {"acked", "attaching"}
    BY <2>3, <1>t
  <2>5. RowHandles' /\ PlaceHandles'
    BY <1>0, <2>1, <2>2, <2>3, <2>4, KeptHandles
  <2> QED BY <1>k, <2>1, <2>5 DEF HandlesAreOwn
<1> QED BY <1>1, <1>2, <1>3, <1>4

\* The steps of a cancel task.
LEMMA CancelHandleSteps ==
    ASSUME Assumptions, StoreTypeOK, ExecutorTypeOK, HandlesAreOwn,
           NEW p \in Pods, NEW o \in Orders, CancelStep(p, o)
    PROVE  HandlesAreOwn' /\ BrokerKept
<1>0. RowHandles /\ PlaceHandles /\ CancelHandles
  BY DEF HandlesAreOwn
<1>t. /\ \A q \in Pods, x \in Orders : <<q, x>> \in Tasks
      /\ cancelPc \in [Tasks -> CancelPc]
      /\ cancelHandle \in [Tasks -> Handles \union {NoHandle}]
      /\ orders \in [Orders -> Row] /\ broker \in Seq(BrokerOrder)
  BY DEF Tasks, ExecutorTypeOK, StoreTypeOK
<1>b. BrokerKept
  <2>1. CASE CancelAccepted(p, o) \/ CancelAnswerLost(p, o)
    <3>1. cancelPc[<<p, o>>] = "calling" /\ BrokerCancels(cancelHandle[<<p, o>>])
      BY <2>1 DEF CancelAccepted, CancelAnswerLost
    <3>2. cancelHandle[<<p, o>>] \in DOMAIN broker
      BY <1>0, <3>1 DEF CancelHandles, HoldsFor
    <3> QED BY <1>t, <3>1, <3>2, CancelKeepsRows DEF BrokerKept
  <2>2. CASE ~(CancelAccepted(p, o) \/ CancelAnswerLost(p, o))
    <3>1. UNCHANGED broker
      BY <2>2 DEF CancelStep, CancelStart, CancelPoll, CancelWaitExpires,
         CancelClose, CancelAcquire, CancelLockTimeout, CancelRefused,
         CancelStore, CancelStoreFails, CancelUnlock, CancelFail,
         CancelFailLost, CancelThrows, CancelRelease, storeVars
    <3> QED BY <3>1 DEF BrokerKept
  <2> QED BY <2>1, <2>2
<1>r. RowHandles' /\ PlaceHandles'
  <2>1. \A x \in Orders : orders'[x].handle = orders[x].handle
    BY <1>t, StatusWritesKeepHandles DEF CancelStep, CancelStart, CancelPoll,
       CancelWaitExpires, CancelClose, CancelAcquire, CancelLockTimeout,
       CancelAccepted, CancelAnswerLost, CancelRefused, CancelStore,
       CancelStoreFails, CancelUnlock, CancelFail, CancelFailLost,
       CancelThrows, CancelRelease, storeVars
  <2>2. UNCHANGED placeVars
    BY DEF CancelStep, CancelStart, CancelPoll,
       CancelWaitExpires, CancelClose, CancelAcquire, CancelLockTimeout,
       CancelAccepted, CancelAnswerLost, CancelRefused, CancelStore,
       CancelStoreFails, CancelUnlock, CancelFail, CancelFailLost,
       CancelThrows, CancelRelease
  <2> QED BY <1>0, <1>b, <2>1, <2>2, KeptHandles DEF placeVars
<1> SUFFICES CancelHandles'
  BY <1>b, <1>r DEF HandlesAreOwn
<1>1. CASE CancelPoll(p, o) /\ orders[o].handle = NoHandle
  <2>1. /\ cancelPc' = [cancelPc EXCEPT ![<<p, o>>] = "closing"]
        /\ UNCHANGED cancelHandle
    BY <1>1 DEF CancelPoll
  <2> QED BY <1>0, <2>1, <1>b, <1>t DEF CancelHandles, HoldsFor, BrokerKept
<1>2. CASE CancelPoll(p, o) /\ orders[o].handle # NoHandle
  <2>1. /\ cancelHandle' = [cancelHandle EXCEPT ![<<p, o>>] = orders[o].handle]
        /\ orders[o].handle # NoHandle
        /\ cancelPc' = [cancelPc EXCEPT ![<<p, o>>] = "chained"]
    BY <1>2 DEF CancelPoll
  <2> QED BY <1>0, <2>1, <1>b, <1>t DEF CancelHandles, RowHandles, HoldsFor,
             BrokerKept
<1>3. CASE CancelDone(p, o)
  BY <1>0, <1>3, <1>b, <1>t DEF CancelDone, CancelHandles, HoldsFor, BrokerKept
<1>4. CASE ~CancelPoll(p, o) /\ ~CancelDone(p, o)
  <2>1. /\ UNCHANGED cancelHandle
        /\ \E pc : /\ cancelPc' = [cancelPc EXCEPT ![<<p, o>>] = pc]
                   /\ pc \in {"chained", "calling"}
                         => \/ cancelPc[<<p, o>>] \in {"chained", "calling"}
                            \/ cancelHandle[<<p, o>>] # NoHandle
    BY <1>4 DEF CancelStep, CancelStart, CancelPoll,
       CancelWaitExpires, CancelClose, CancelAcquire, CancelLockTimeout,
       CancelAccepted, CancelAnswerLost, CancelRefused, CancelStore,
       CancelStoreFails, CancelUnlock, CancelFail, CancelFailLost,
       CancelThrows, CancelRelease
  <2>2. \A q \in Pods, x \in Orders :
           cancelPc'[<<q, x>>] \in {"chained", "calling"}
              => \/ cancelPc[<<q, x>>] \in {"chained", "calling"}
                 \/ cancelHandle[<<q, x>>] # NoHandle
    BY <2>1, <1>t
  <2> QED BY <1>0, <1>b, <2>1, <2>2, KeptHandles
<1> QED BY <1>1, <1>2, <1>3, <1>4

\* Every step keeps the handles with their rows, and the broker's orders.
LEMMA NextHandles ==
    ASSUME Assumptions, TypeOK, HandlesAreOwn, [Next]_vars
    PROVE  HandlesAreOwn' /\ BrokerKept
<1> USE DEF TypeOK
<1>0. RowHandles /\ PlaceHandles /\ CancelHandles
  BY DEF HandlesAreOwn
<1>t. /\ \A q \in Pods, x \in Orders : <<q, x>> \in Tasks
      /\ orders \in [Orders -> Row] /\ broker \in Seq(BrokerOrder)
  BY DEF Tasks, StoreTypeOK
<1>k. ASSUME BrokerKept, UNCHANGED <<placePc, placeAck, cancelPc, cancelHandle>>,
             \A x \in Orders : orders'[x].handle = orders[x].handle
      PROVE  HandlesAreOwn' /\ BrokerKept
  BY <1>0, <1>k, KeptHandles DEF HandlesAreOwn
<1>u. ASSUME UNCHANGED broker PROVE BrokerKept
  BY <1>u DEF BrokerKept
<1>1. ASSUME NEW p \in Pods, TickClaimRequested(p)
      PROVE  HandlesAreOwn' /\ BrokerKept
  <2>1. /\ BrokerKept /\ UNCHANGED <<placeAck, cancelPc, cancelHandle>>
        /\ \A t \in Tasks : placePc'[t] \in {"batched", placePc[t]}
    BY <1>1, <1>u DEF TickClaimRequested, cancelVars
  <2>2. \A x \in Orders : orders'[x].handle = orders[x].handle
    BY <1>1, <1>t, StatusWritesKeepHandles DEF TickClaimRequested
  <2>3. \A q \in Pods, x \in Orders :
           placePc'[<<q, x>>] \in {"acked", "attaching"}
              => placePc[<<q, x>>] \in {"acked", "attaching"}
    BY <2>1, <1>t
  <2> QED BY <1>0, <2>1, <2>2, <2>3, KeptHandles DEF HandlesAreOwn
<1>2. ASSUME NEW p \in Pods, TickClaimCancelling(p)
      PROVE  HandlesAreOwn' /\ BrokerKept
  <2>1. /\ BrokerKept /\ UNCHANGED <<broker, placePc, placeAck>>
        /\ \A t \in Tasks :
              \/ cancelPc'[t] = "picked" /\ cancelHandle'[t] = orders[t[2]].handle
              \/ cancelPc'[t] = cancelPc[t] /\ cancelHandle'[t] = cancelHandle[t]
    BY <1>2, <1>u DEF TickClaimCancelling, placeVars
  <2>2. \A x \in Orders : orders'[x].handle = orders[x].handle
    BY <1>2, <1>t, StatusWritesKeepHandles DEF TickClaimCancelling
  <2>3. \A q \in Pods, x \in Orders :
           \/ /\ cancelPc'[<<q, x>>] = "picked"
              /\ cancelHandle'[<<q, x>>] = orders[x].handle
           \/ /\ cancelPc'[<<q, x>>] = cancelPc[<<q, x>>]
              /\ cancelHandle'[<<q, x>>] = cancelHandle[<<q, x>>]
    BY <2>1, <1>t
  <2>4. CancelHandles'
    <3> SUFFICES ASSUME NEW q \in Pods, NEW x \in Orders
                 PROVE  /\ cancelHandle'[<<q, x>>] # NoHandle
                              => HoldsFor(cancelHandle[<<q, x>>], x)'
                        /\ cancelPc'[<<q, x>>] \in {"chained", "calling"}
                              => cancelHandle'[<<q, x>>] # NoHandle
      BY DEF CancelHandles
    <3>1. CASE /\ cancelPc'[<<q, x>>] = "picked"
               /\ cancelHandle'[<<q, x>>] = orders[x].handle
      BY <1>0, <2>1, <3>1 DEF RowHandles, HoldsFor
    <3>2. CASE /\ cancelPc'[<<q, x>>] = cancelPc[<<q, x>>]
               /\ cancelHandle'[<<q, x>>] = cancelHandle[<<q, x>>]
      BY <1>0, <2>1, <3>2 DEF CancelHandles, HoldsFor
    <3> QED BY <2>3, <3>1, <3>2
  <2>5. RowHandles' /\ PlaceHandles'
    BY <1>0, <2>1, <2>2, KeptHandles
  <2> QED BY <2>1, <2>4, <2>5 DEF HandlesAreOwn
<1>3. ASSUME NEW p \in Pods, PodCrash(p)
      PROVE  HandlesAreOwn' /\ BrokerKept
  <2>1. /\ BrokerKept /\ UNCHANGED <<broker, orders>>
        /\ \A t \in Tasks :
              /\ \/ placePc'[t] = "none" /\ placeAck'[t] = NoHandle
                 \/ placePc'[t] = placePc[t] /\ placeAck'[t] = placeAck[t]
              /\ \/ cancelPc'[t] = "none" /\ cancelHandle'[t] = NoHandle
                 \/ cancelPc'[t] = cancelPc[t] /\ cancelHandle'[t] = cancelHandle[t]
    BY <1>3, <1>u DEF PodCrash
  <2> QED BY <1>0, <1>t, <2>1 DEF HandlesAreOwn, RowHandles, PlaceHandles,
             CancelHandles, HoldsFor
<1>4. ASSUME \/ \E p \in Pods : TickDone(p) \/ ClaimLost(p)
             \/ \E a \in Accounts : LockExpires(a)
      PROVE  HandlesAreOwn' /\ BrokerKept
  <2>1. UNCHANGED <<broker, placePc, placeAck, cancelPc, cancelHandle>>
    BY <1>4 DEF TickDone, ClaimLost, LockExpires, storeVars, placeVars,
       cancelVars
  <2>2. \A x \in Orders : orders'[x].handle = orders[x].handle
    BY <1>4, <1>t, StatusWritesKeepHandles DEF TickDone, ClaimLost,
       LockExpires, storeVars
  <2> QED BY <1>k, <1>u, <2>1, <2>2
<1>5. CASE ExecutorNext
  BY <1>5, <1>1, <1>2, <1>3, <1>4, PlaceHandleSteps, CancelHandleSteps
     DEF ExecutorNext
<1>e. ASSUME UNCHANGED executorVars
      PROVE  UNCHANGED <<placePc, placeAck, cancelPc, cancelHandle>>
  BY <1>e DEF executorVars
<1>i. ASSUME NEW f \in FillIds, NEW s, IngestExecutionFill(f, s)
      PROVE  /\ UNCHANGED broker
             /\ \A x \in Orders : orders'[x].handle = orders[x].handle
  <2>1. UNCHANGED broker /\ Executed(f)
    BY <1>i DEF IngestExecutionFill
  <2>2. CASE FillOutcome(f) = "inserted"
    <3>1. OrdersForFill(f) # {}
      BY <2>2 DEF FillOutcome
    <3>2. OrderForFill(f) \in Orders
      BY <2>1, <3>1, FillFacts DEF OrdersForFill
    <3>3. orders' = FillRow(OrderForFill(f), f)
      BY <1>i, <2>2 DEF IngestExecutionFill
    <3> QED BY <1>t, <2>1, <3>2, <3>3, StatusWritesKeepHandles
  <2>3. CASE FillOutcome(f) # "inserted"
    BY <1>i, <2>1, <2>3 DEF IngestExecutionFill
  <2> QED BY <2>2, <2>3
<1>6. CASE TrackerNext /\ UNCHANGED executorVars
  <2>1. ASSUME NEW t \in Trackers, RetryIngest(t)
        PROVE  retry[t].fill \in FillIds
    BY <2>1 DEF RetryIngest, TrackerTypeOK, Retry, Idle
  <2>2. /\ UNCHANGED broker
        /\ \A x \in Orders : orders'[x].handle = orders[x].handle
    BY <1>6, <1>i, <2>1 DEF TrackerNext, IngestFill, RetryRead, RetryIngest,
       RetryMark, RetryAborts, storeVars
  <2> QED BY <1>6, <1>e, <1>k, <1>u, <2>2
<1>7. ASSUME NEW o \in Orders, BeRequest(o) \/ BeCancel(o)
      PROVE  HandlesAreOwn' /\ BrokerKept
  <2>1. /\ UNCHANGED broker
        /\ \A x \in Orders : orders'[x].handle = orders[x].handle
    BY <1>7, <1>t DEF BeRequest, BeCancel, Row
  <2> QED BY <1>7, <1>e, <1>k, <1>u, <2>1 DEF BeRequest, BeCancel
<1>8. ASSUME NEW h \in DOMAIN broker, NEW q \in 1 .. broker[h].open,
             Trade(h, q)
      PROVE  HandlesAreOwn' /\ BrokerKept
  <2>1. BrokerKept
    BY <1>8, <1>t, ExecuteBrokerType DEF Trade, BrokerKept, Assumptions
  <2> QED BY <1>8, <1>e, <1>k, <2>1 DEF Trade
<1>9. CASE UNCHANGED vars
  BY <1>9, <1>e, <1>k, <1>u DEF vars, storeVars
<1> QED BY <1>5, <1>6, <1>7, <1>8, <1>9 DEF Next

-----------------------------------------------------------------------------
(***************************************************************************)
(* AttemptsAreBounded, and the first theorem.                              *)
(***************************************************************************)

\* Every step.  A retry that used up its last attempt leaves the queue.
LEMMA NextAttempts ==
    ASSUME Assumptions, TypeOK, AttemptsAreBounded, [Next]_vars
    PROVE  AttemptsAreBounded'
<1> USE DEF TypeOK
<1>0. /\ unmatched \in [FillIds -> UnmatchedRow]
      /\ retry \in [Trackers -> Retry]
      /\ MaxAttempts \in Nat \ {0}
  BY DEF TrackerTypeOK, Assumptions
<1>u. ASSUME UNCHANGED <<unmatched, retry>> PROVE AttemptsAreBounded'
  BY <1>u DEF AttemptsAreBounded
<1>s. ASSUME NEW f \in FillIds, NEW s, IngestExecutionFill(f, s)
      PROVE  \A g \in FillIds :
                unmatched'[g] = unmatched[g] \/ unmatched'[g].attempts = 0
  BY <1>s, <1>0 DEF IngestExecutionFill, SaveUnmatched
<1>1. ASSUME NEW f \in FillIds, IngestFill(f)
      PROVE  AttemptsAreBounded'
  <2>1. \A g \in FillIds :
           unmatched'[g] = unmatched[g] \/ unmatched'[g].attempts = 0
    BY <1>1, <1>s DEF IngestFill
  <2> QED BY <1>0, <1>1, <2>1 DEF IngestFill, AttemptsAreBounded
<1>2. ASSUME NEW t \in Trackers, NEW f \in FillIds, RetryRead(t, f)
      PROVE  AttemptsAreBounded'
  BY <1>0, <1>2 DEF RetryRead, AttemptsAreBounded
<1>3. ASSUME NEW t \in Trackers, RetryIngest(t)
      PROVE  AttemptsAreBounded'
  <2>1. retry[t].fill \in FillIds /\ retry[t] # Idle
    BY <1>0, <1>3 DEF RetryIngest, Retry, Idle
  <2>2. \A g \in FillIds :
           unmatched'[g] = unmatched[g] \/ unmatched'[g].attempts = 0
    BY <1>3, <1>s, <2>1 DEF RetryIngest
  <2>3. \A u \in Trackers : retry'[u] # Idle
           => retry[u] # Idle /\ retry'[u].attempts = retry[u].attempts
    BY <1>0, <1>3, <2>1 DEF RetryIngest
  <2> QED BY <1>0, <2>2, <2>3 DEF AttemptsAreBounded
<1>4. ASSUME NEW t \in Trackers, RetryMark(t)
      PROVE  AttemptsAreBounded'
  <2>1. /\ retry[t].fill \in FillIds /\ retry[t] # Idle
        /\ retry[t].attempts \in Nat
    BY <1>0, <1>4 DEF RetryMark, Retry, Idle
  <2>2. unmatched[retry[t].fill] \in UnmatchedRow
    BY <1>0, <2>1
  <2> DEFINE r == MarkUnmatched(unmatched[retry[t].fill], retry[t].outcome,
                                retry[t].attempts + 1)
  <2>3. r.status = "PENDING" => r.attempts < MaxAttempts
    BY <1>0, <2>1, <2>2 DEF MarkUnmatched, RetryDeadLetters, UnmatchedRow
  <2>4. unmatched' = [unmatched EXCEPT ![retry[t].fill] = r]
    BY <1>4 DEF RetryMark
  <2> HIDE DEF r
  <2>5. \A u \in Trackers : retry'[u] # Idle => retry'[u] = retry[u]
    BY <1>0, <1>4 DEF RetryMark
  <2> QED BY <1>0, <2>1, <2>3, <2>4, <2>5 DEF AttemptsAreBounded
<1>5. ASSUME NEW t \in Trackers, RetryAborts(t)
      PROVE  AttemptsAreBounded'
  BY <1>0, <1>5 DEF RetryAborts, AttemptsAreBounded
<1>6. CASE TrackerNext
  BY <1>1, <1>2, <1>3, <1>4, <1>5, <1>6 DEF TrackerNext
<1>7. CASE UNCHANGED trackerVars
  BY <1>7, <1>u DEF trackerVars
<1> QED BY <1>6, <1>7 DEF Next, vars, BeRequest, BeCancel, Trade

\* The invariant that makes type correctness inductive: the chain operators
\* are only defined for a task at the head, findLockedOrderForFill and the
\* vendor cancel only for a handle the broker knows, and the attempts counter
\* only below its limit.
TypeInv == TypeOK /\ ChainsAreOrderly /\ HandlesAreOwn /\ AttemptsAreBounded

LEMMA TypeInvInit == ASSUME Init PROVE TypeInv
<1> USE AssumptionsHold DEF Init, Assumptions
<1>1. StoreTypeOK
  <2>1. << >> \in Seq(BrokerOrder) /\ Len(<< >>) = 0
    OBVIOUS
  <2> QED BY <2>1 DEF StoreInit, StoreTypeOK, Row, OrderStatus, NoHandle
<1>2. ExecutorTypeOK
  <2>1. << >> \in Seq(Orders)
    OBVIOUS
  <2> QED BY <2>1 DEF ExecutorInit, ExecutorTypeOK, PlacePc, PlaceErr,
             CancelPc, Chains
<1>3. TrackerTypeOK
  BY DEF TrackerInit, TrackerTypeOK, NotStored, UnmatchedRow, Retry
<1>4. ChainsAreOrderly
  BY DEF ExecutorInit, ChainsAreOrderly, PlaceOrderly, CancelOrderly, Tasks,
     InSection
<1>5. HandlesAreOwn
  BY DEF ExecutorInit, StoreInit, HandlesAreOwn, RowHandles, PlaceHandles,
     CancelHandles, Tasks
<1>6. AttemptsAreBounded
  BY DEF TrackerInit, AttemptsAreBounded, NotStored
<1> QED BY <1>1, <1>2, <1>3, <1>4, <1>5, <1>6 DEF TypeInv, TypeOK

\* It holds in every state of every behaviour.
THEOREM TypeInvariance == Spec => []TypeInv
<1>1. Init => TypeInv
  BY TypeInvInit
<1>2. TypeInv /\ [Next]_vars => TypeInv'
  BY AssumptionsHold, NextType, NextChains, NextHandles, NextAttempts
     DEF TypeInv, TypeOK
<1> QED BY <1>1, <1>2, PTL DEF Spec

\* Type correctness: no interleaving, fault or retry takes any variable out
\* of its type; in particular the attempts of an unmatched fill stay within
\* UNMATCHED_MAX_ATTEMPTS.
THEOREM TypeCorrect == Spec => []TypeOK
BY TypeInvariance, PTL DEF TypeInv

\* A broker handle never reaches another row.
THEOREM HandlesOwn == Spec => []HandlesAreOwn
BY TypeInvariance, PTL DEF TypeInv

\* A task in its account's critical section is at the head of its chain.
THEOREM ChainsOrderly == Spec => []ChainsAreOrderly
BY TypeInvariance, PTL DEF TypeInv

-----------------------------------------------------------------------------
(***************************************************************************)
(* AtMostOnePlacement: a claim is for good, so a row gets one place task   *)
(* in its life, and a place task makes one REST call.                      *)
(***************************************************************************)

\* A step that keeps every claimed row claimed.
ClaimKept ==
    \A x \in Orders : orders[x].status \notin Unclaimed
                         => orders'[x].status \notin Unclaimed

\* No statement writes CREATED or REQUESTED over another status.
LEMMA WritesKeepClaims ==
    ASSUME orders \in [Orders -> Row], NEW x \in Orders,
           orders[x].status \notin Unclaimed
    PROVE  /\ \A rows, s : s \notin Unclaimed
                 => ClaimRows(rows, s)[x].status \notin Unclaimed
           /\ \A o \in Orders : \A e, s : s \notin Unclaimed
                 => UpdateStatusFromExpected(o, e, s)[x].status \notin Unclaimed
           /\ \A o \in Orders : \A e, h :
                 /\ AcceptFromExpected(o, e, h)[x].status \notin Unclaimed
                 /\ AttachBrokerOrderIdFromExpected(o, e, h)[x].status
                       \notin Unclaimed
           /\ \A o \in Orders : \A f :
                 FillRow(o, f)[x].status \notin Unclaimed
<1>1. \A rows, s : s \notin Unclaimed
         => ClaimRows(rows, s)[x].status \notin Unclaimed
  BY DEF ClaimRows, Row
<1>2. \A o \in Orders : \A e, s : s \notin Unclaimed
         => UpdateStatusFromExpected(o, e, s)[x].status \notin Unclaimed
  BY DEF UpdateStatusFromExpected, Row
<1>3. \A o \in Orders : \A e, h :
         AcceptFromExpected(o, e, h)[x].status \notin Unclaimed
  BY DEF AcceptFromExpected, Row, Unclaimed
<1>4. \A o \in Orders : \A e, h :
         AttachBrokerOrderIdFromExpected(o, e, h)[x].status \notin Unclaimed
  BY DEF AttachBrokerOrderIdFromExpected, Row
<1>5. \A o \in Orders : \A f : FillRow(o, f)[x].status \notin Unclaimed
  <2>1. \A r : ResolveFillStatus(orders[x].status, r) \notin Unclaimed
    BY DEF ResolveFillStatus, Unclaimed
  <2> QED BY <2>1 DEF FillRow, Row
<1> QED BY <1>1, <1>2, <1>3, <1>4, <1>5

\* Every step keeps claimed rows claimed.
LEMMA NextClaimKept ==
    ASSUME Assumptions, TypeOK, HandlesAreOwn, [Next]_vars
    PROVE  ClaimKept
<1> USE DEF TypeOK
<1>t. orders \in [Orders -> Row]
  BY DEF StoreTypeOK
<1>u. ASSUME UNCHANGED orders PROVE ClaimKept
  BY <1>u DEF ClaimKept
<1>s. /\ {"SUBMITTING", "CANCEL_SUBMITTING", "CANCELLED", "FAILED"}
            \intersect Unclaimed = {}
      /\ \A e : FailureStatus(e) \notin Unclaimed
  BY DEF Unclaimed, FailureStatus, ErrorCode
<1>1. ASSUME NEW p \in Pods, NEW o \in Orders,
             OrderCommand(p, o) \/ PlaceStep(p, o)
      PROVE  ClaimKept
  <2>1. \/ UNCHANGED orders
        \/ orders' = ClaimRows({o}, "SUBMITTING")
        \/ \E e, h : \/ orders' = AcceptFromExpected(o, e, h)
                     \/ orders' = AttachBrokerOrderIdFromExpected(o, e, h)
        \/ \E e, r : orders' = UpdateStatusFromExpected(o, e, FailureStatus(r))
    BY <1>1 DEF OrderCommand, PlaceStep, StartBatched, PlaceAcquire,
       PlaceLockTimeout, PlaceIncomplete, PlaceAccepted, PlaceAnswerLost,
       PlaceRefused, PlaceStore, PlaceAttach, PlaceWriteFails, PlacePublish,
       PlaceFail, PlaceFailLost, PlacePublishFailed, PlaceUnlock,
       PlaceRelease, storeVars
  <2> QED BY <1>s, <1>t, <1>u, <2>1, WritesKeepClaims DEF ClaimKept
<1>2. ASSUME NEW p \in Pods, NEW o \in Orders, CancelStep(p, o)
      PROVE  ClaimKept
  <2>1. \/ UNCHANGED orders
        \/ \E e : \/ orders' = UpdateStatusFromExpected(o, e, "CANCELLED")
                  \/ orders' = UpdateStatusFromExpected(o, e, "FAILED")
    BY <1>2 DEF CancelStep, CancelStart, CancelPoll, CancelWaitExpires,
       CancelClose, CancelAcquire, CancelLockTimeout, CancelAccepted,
       CancelAnswerLost, CancelRefused, CancelStore, CancelStoreFails,
       CancelUnlock, CancelFail, CancelFailLost, CancelThrows, CancelRelease,
       storeVars
  <2> QED BY <1>s, <1>t, <1>u, <2>1, WritesKeepClaims DEF ClaimKept
<1>3. ASSUME \/ \E p \in Pods : \/ TickClaimRequested(p)
                                \/ TickClaimCancelling(p)
                                \/ TickDone(p) \/ ClaimLost(p) \/ PodCrash(p)
             \/ \E a \in Accounts : LockExpires(a)
      PROVE  ClaimKept
  <2>1. \/ UNCHANGED orders
        \/ \E rows : \/ orders' = ClaimRows(rows, "SUBMITTING")
                     \/ orders' = ClaimRows(rows, "CANCEL_SUBMITTING")
    BY <1>3 DEF TickClaimRequested, TickClaimCancelling, TickDone, ClaimLost,
       PodCrash, LockExpires, storeVars
  <2> QED BY <1>s, <1>t, <1>u, <2>1, WritesKeepClaims DEF ClaimKept
<1>4. CASE ExecutorNext
  BY <1>1, <1>2, <1>3, <1>4 DEF ExecutorNext
<1>i. ASSUME NEW f \in FillIds, NEW s, IngestExecutionFill(f, s)
      PROVE  ClaimKept
  <2>1. CASE FillOutcome(f) = "inserted"
    <3>1. OrdersForFill(f) # {} /\ Executed(f)
      BY <1>i, <2>1 DEF FillOutcome, IngestExecutionFill
    <3>2. OrderForFill(f) \in Orders
      BY <3>1, FillFacts DEF OrdersForFill
    <3>3. orders' = FillRow(OrderForFill(f), f)
      BY <1>i, <2>1 DEF IngestExecutionFill
    <3> QED BY <1>t, <3>2, <3>3, WritesKeepClaims DEF ClaimKept
  <2>2. CASE FillOutcome(f) # "inserted"
    BY <1>i, <1>u, <2>2 DEF IngestExecutionFill
  <2> QED BY <2>1, <2>2
<1>5. CASE TrackerNext
  <2>1. ASSUME NEW t \in Trackers, RetryIngest(t)
        PROVE  retry[t].fill \in FillIds
    BY <2>1 DEF RetryIngest, TrackerTypeOK, Retry, Idle
  <2> QED BY <1>5, <1>i, <1>u, <2>1 DEF TrackerNext, IngestFill, RetryRead,
             RetryIngest, RetryMark, RetryAborts, storeVars
<1>6. ASSUME NEW o \in Orders, BeRequest(o) \/ BeCancel(o)
      PROVE  ClaimKept
  BY <1>6, <1>t DEF BeRequest, BeCancel, ClaimKept, Row, Unclaimed
<1> QED BY <1>4, <1>5, <1>6, <1>u DEF Next, Trade, vars, storeVars

\* Every order the broker holds was placed for a row.
LEMMA BrokerRows ==
    ASSUME broker \in Seq(BrokerOrder)
    PROVE  \A h \in DOMAIN broker : broker[h].order \in Orders
<1>1. TAKE h \in DOMAIN broker
<1>2. broker[h] \in BrokerOrder
  OBVIOUS
<1> QED BY <1>2 DEF BrokerOrder

\* What remains to show of a step that creates no task and no broker order.
LEMMA ExclusiveKept ==
    ASSUME broker \in Seq(BrokerOrder), ClaimKept, BrokerKept,
           ClaimIsExclusive, AtMostOnePlacement,
           DOMAIN broker' = DOMAIN broker,
           \A p \in Pods, x \in Orders :
              /\ placePc'[<<p, x>>] # "none" => placePc[<<p, x>>] # "none"
              /\ placePc'[<<p, x>>] \in BeforeCall
                    => placePc[<<p, x>>] \in BeforeCall
    PROVE  ClaimIsExclusive' /\ AtMostOnePlacement'
<1>1. \A h \in DOMAIN broker : broker[h].order \in Orders
  BY BrokerRows
<1>2. OneTask'
  BY DEF ClaimIsExclusive, OneTask
<1>3. TaskHasClaim'
  BY DEF ClaimIsExclusive, TaskHasClaim, ClaimKept
<1>4. PlacedIsClaimed'
  BY <1>1 DEF ClaimIsExclusive, PlacedIsClaimed, ClaimKept, BrokerKept
<1>5. AtMostOnePlacement'
  BY DEF AtMostOnePlacement, BrokerKept
<1> QED BY <1>2, <1>3, <1>4, <1>5 DEF ClaimIsExclusive

\* A claim of unclaimed rows creates the rows' first tasks.
LEMMA ClaimStep ==
    ASSUME TypeOK, ClaimKept, ClaimIsExclusive, AtMostOnePlacement,
           UNCHANGED broker, NEW p \in Pods, NEW rows \in SUBSET Orders,
           \A x \in rows : orders[x].status = "REQUESTED",
           \A x \in rows : orders'[x].status = "SUBMITTING",
           \A q \in Pods, x \in Orders :
              \/ placePc'[<<q, x>>] = placePc[<<q, x>>]
              \/ q = p /\ x \in rows
    PROVE  ClaimIsExclusive' /\ AtMostOnePlacement'
<1>0. OneTask /\ TaskHasClaim /\ PlacedIsClaimed
  BY DEF ClaimIsExclusive
<1>1. \A h \in DOMAIN broker : broker[h].order \in Orders \ rows
  BY <1>0, BrokerRows DEF PlacedIsClaimed, Unclaimed, TypeOK, StoreTypeOK
<1>2. \A q \in Pods, x \in rows : placePc[<<q, x>>] = "none"
  BY <1>0 DEF TaskHasClaim, Unclaimed
<1>3. OneTask'
  BY <1>0, <1>2 DEF OneTask
<1>4. TaskHasClaim'
  BY <1>0, <1>2 DEF TaskHasClaim, ClaimKept, Unclaimed
<1>5. PlacedIsClaimed'
  BY <1>0, <1>1 DEF PlacedIsClaimed, ClaimKept
<1>6. AtMostOnePlacement'
  BY DEF AtMostOnePlacement
<1> QED BY <1>3, <1>4, <1>5, <1>6 DEF ClaimIsExclusive

\* A REST call that reaches the broker is the row's first.
LEMMA CallStep ==
    ASSUME Assumptions, TypeOK, ClaimKept, ClaimIsExclusive,
           AtMostOnePlacement, NEW p \in Pods, NEW o \in Orders, NEW late,
           placePc[<<p, o>>] = "calling", BrokerAccepts(o, late),
           UNCHANGED orders, NEW pc \in {"acked", "failing"},
           placePc' = [placePc EXCEPT ![<<p, o>>] = pc]
    PROVE  ClaimIsExclusive' /\ AtMostOnePlacement'
<1>0. OneTask /\ TaskHasClaim /\ PlacedIsClaimed
  BY DEF ClaimIsExclusive
<1>t. /\ \A q \in Pods, x \in Orders : <<q, x>> \in Tasks
      /\ placePc \in [Tasks -> PlacePc]
      /\ broker \in Seq(BrokerOrder)
  BY DEF Tasks, TypeOK, ExecutorTypeOK, StoreTypeOK
<1> DEFINE n == Len(broker) + 1
<1>1. /\ DOMAIN broker' = DOMAIN broker \union {n} /\ n \notin DOMAIN broker
      /\ broker'[n].order = o
      /\ \A h \in DOMAIN broker : broker'[h] = broker[h]
  BY <1>t, AcceptAppends
<1> HIDE DEF n
<1>2. \A h \in DOMAIN broker : broker[h].order # o
  BY <1>0 DEF PlacedIsClaimed, BeforeCall
<1>3. \A q \in Pods, x \in Orders :
         /\ placePc'[<<q, x>>] # "none" <=> placePc[<<q, x>>] # "none"
         /\ placePc'[<<q, x>>] \in BeforeCall
               => placePc[<<q, x>>] \in BeforeCall /\ <<q, x>> # <<p, o>>
  BY <1>t DEF BeforeCall
<1>4. OneTask' /\ TaskHasClaim'
  BY <1>0, <1>3 DEF OneTask, TaskHasClaim
<1>5. \A h \in DOMAIN broker : broker[h].order \in Orders
  BY <1>t, BrokerRows
<1>6. \A q \in Pods : placePc'[<<q, o>>] \notin BeforeCall
  BY <1>0, <1>3 DEF OneTask, BeforeCall
<1>7. orders[o].status \notin Unclaimed
  BY <1>0 DEF TaskHasClaim
<1>8. PlacedIsClaimed'
  BY <1>0, <1>1, <1>3, <1>5, <1>6, <1>7 DEF PlacedIsClaimed
<1>9. AtMostOnePlacement'
  BY <1>1, <1>2 DEF AtMostOnePlacement
<1> QED BY <1>4, <1>8, <1>9 DEF ClaimIsExclusive

\* Every step.
LEMMA NextExclusive ==
    ASSUME Assumptions, TypeOK, HandlesAreOwn, ClaimIsExclusive,
           AtMostOnePlacement, [Next]_vars
    PROVE  ClaimIsExclusive' /\ AtMostOnePlacement'
<1>c. ClaimKept /\ BrokerKept
  BY NextClaimKept, NextHandles
<1>t. /\ \A q \in Pods, x \in Orders : <<q, x>> \in Tasks
      /\ placePc \in [Tasks -> PlacePc]
      /\ broker \in Seq(BrokerOrder) /\ orders \in [Orders -> Row]
  BY DEF Tasks, TypeOK, ExecutorTypeOK, StoreTypeOK
<1>k. ASSUME DOMAIN broker' = DOMAIN broker,
             \A t \in Tasks :
                /\ placePc'[t] # "none" => placePc[t] # "none"
                /\ placePc'[t] \in BeforeCall => placePc[t] \in BeforeCall
      PROVE  ClaimIsExclusive' /\ AtMostOnePlacement'
  BY <1>c, <1>t, <1>k, ExclusiveKept
<1>u. ASSUME UNCHANGED placePc, DOMAIN broker' = DOMAIN broker
      PROVE  ClaimIsExclusive' /\ AtMostOnePlacement'
  BY <1>k, <1>u
<1>1. ASSUME NEW p \in Pods, NEW o \in Orders, OrderCommand(p, o)
      PROVE  ClaimIsExclusive' /\ AtMostOnePlacement'
  <2>1. /\ UNCHANGED broker /\ orders[o].status = "REQUESTED"
        /\ orders' = ClaimRows({o}, "SUBMITTING")
        /\ placePc' = [placePc EXCEPT ![<<p, o>>] = "chained"]
    BY <1>1 DEF OrderCommand
  <2>2. orders'[o].status = "SUBMITTING"
    BY <2>1, <1>t DEF ClaimRows, Row
  <2>3. \A q \in Pods, x \in Orders :
           placePc'[<<q, x>>] = placePc[<<q, x>>] \/ (q = p /\ x \in {o})
    <3>1. TAKE q \in Pods, x \in Orders
    <3>2. CASE <<q, x>> = <<p, o>>
      BY <3>2
    <3>3. CASE <<q, x>> # <<p, o>>
      BY <2>1, <1>t, <3>3
    <3> QED BY <3>2, <3>3
  <2>4. {o} \in SUBSET Orders
    OBVIOUS
  <2> QED BY <1>c, <2>1, <2>2, <2>3, <2>4, ClaimStep
<1>2. ASSUME NEW p \in Pods, TickClaimRequested(p)
      PROVE  ClaimIsExclusive' /\ AtMostOnePlacement'
  <2>1. PICK rows \in ClaimableBatches("REQUESTED", BatchSize) :
           /\ orders' = ClaimRows(rows, "SUBMITTING")
           /\ placePc' = [t \in Tasks |-> IF t[1] = p /\ t[2] \in rows
                                          THEN "batched" ELSE placePc[t]]
    BY <1>2 DEF TickClaimRequested
  <2>2. /\ rows \in SUBSET Orders
        /\ \A x \in rows : orders[x].status = "REQUESTED"
    BY DEF ClaimableBatches, InStatus
  <2>3. \A x \in rows : orders'[x].status = "SUBMITTING"
    BY <2>1, <2>2, <1>t DEF ClaimRows, Row
  <2>4. \A q \in Pods, x \in Orders :
           placePc'[<<q, x>>] = placePc[<<q, x>>] \/ (q = p /\ x \in rows)
    <3>1. TAKE q \in Pods, x \in Orders
    <3>2. <<q, x>> \in Tasks /\ <<q, x>>[1] = q /\ <<q, x>>[2] = x
      BY <1>t
    <3> QED BY <2>1, <3>2
  <2>5. UNCHANGED broker
    BY <1>2 DEF TickClaimRequested
  <2> QED BY <1>c, <2>2, <2>3, <2>4, <2>5, ClaimStep
<1>3. ASSUME NEW p \in Pods, NEW o \in Orders,
             PlaceAccepted(p, o) \/ PlaceAnswerLost(p, o)
      PROVE  ClaimIsExclusive' /\ AtMostOnePlacement'
  <2>1. /\ placePc[<<p, o>>] = "calling" /\ UNCHANGED orders
        /\ BrokerAccepts(o, placeLate[<<p, o>>])
        /\ \E pc \in {"acked", "failing"} :
              placePc' = [placePc EXCEPT ![<<p, o>>] = pc]
    BY <1>3 DEF PlaceAccepted, PlaceAnswerLost, PlaceErrs
  <2> QED BY <1>c, <2>1, CallStep
<1>4. ASSUME NEW p \in Pods, NEW o \in Orders, PlaceStep(p, o),
             ~PlaceAccepted(p, o), ~PlaceAnswerLost(p, o)
      PROVE  ClaimIsExclusive' /\ AtMostOnePlacement'
  <2>1. /\ UNCHANGED broker /\ placePc[<<p, o>>] # "none"
        /\ \E pc : /\ placePc' = [placePc EXCEPT ![<<p, o>>] = pc]
                   /\ pc \in BeforeCall => placePc[<<p, o>>] \in BeforeCall
    BY <1>4 DEF PlaceStep, StartBatched, PlaceAcquire,
       PlaceLockTimeout, PlaceIncomplete, PlaceRefused, PlaceStore,
       PlaceAttach, PlaceWriteFails, PlacePublish, PlaceFail, PlaceFailLost,
       PlacePublishFailed, PlaceUnlock, PlaceRelease, PlaceErrs, FailEvent,
       FailExit, BeforeCall, storeVars
  <2>2. \A t \in Tasks :
           /\ placePc'[t] # "none" => placePc[t] # "none"
           /\ placePc'[t] \in BeforeCall => placePc[t] \in BeforeCall
    BY <2>1, <1>t
  <2> QED BY <1>k, <2>1, <2>2
<1>5. ASSUME NEW p \in Pods, NEW o \in Orders, CancelStep(p, o)
      PROVE  ClaimIsExclusive' /\ AtMostOnePlacement'
  <2>1. UNCHANGED placePc
    BY <1>5 DEF CancelStep, CancelStart, CancelPoll, CancelWaitExpires,
       CancelClose, CancelAcquire, CancelLockTimeout, CancelAccepted,
       CancelAnswerLost, CancelRefused, CancelStore, CancelStoreFails,
       CancelUnlock, CancelFail, CancelFailLost, CancelThrows, CancelRelease,
       placeVars
  <2>2. DOMAIN broker' = DOMAIN broker
    BY <1>5 DEF CancelStep, CancelStart, CancelPoll, CancelWaitExpires,
       CancelClose, CancelAcquire, CancelLockTimeout, CancelAccepted,
       CancelAnswerLost, CancelRefused, CancelStore, CancelStoreFails,
       CancelUnlock, CancelFail, CancelFailLost, CancelThrows, CancelRelease,
       storeVars, BrokerCancels
  <2> QED BY <1>u, <2>1, <2>2
<1>6. ASSUME \/ \E p \in Pods : TickClaimCancelling(p) \/ TickDone(p)
                                \/ ClaimLost(p)
             \/ \E a \in Accounts : LockExpires(a)
      PROVE  ClaimIsExclusive' /\ AtMostOnePlacement'
  BY <1>6, <1>u DEF TickClaimCancelling, TickDone, ClaimLost, LockExpires,
     placeVars, storeVars
<1>7. ASSUME NEW p \in Pods, PodCrash(p)
      PROVE  ClaimIsExclusive' /\ AtMostOnePlacement'
  <2>1. UNCHANGED broker /\ \A t \in Tasks : placePc'[t] \in {"none", placePc[t]}
    BY <1>7 DEF PodCrash
  <2> QED BY <1>k, <2>1 DEF BeforeCall
<1>8. CASE ExecutorNext
  BY <1>1, <1>2, <1>3, <1>4, <1>5, <1>6, <1>7, <1>8 DEF ExecutorNext
<1>9. CASE UNCHANGED placePc /\ DOMAIN broker' = DOMAIN broker
  BY <1>9, <1>u
<1>10. CASE TrackerNext /\ UNCHANGED executorVars
  <2>1. UNCHANGED broker
    BY <1>10 DEF TrackerNext, IngestFill, IngestExecutionFill, RetryRead,
       RetryIngest, RetryMark, RetryAborts, storeVars
  <2> QED BY <1>9, <1>10, <2>1 DEF executorVars
<1> QED BY <1>8, <1>9, <1>10 DEF Next, vars, storeVars, executorVars,
           BeRequest, BeCancel, Trade, BrokerExecutes

\* At most one order is ever placed at the broker for a row, for any number
\* of pods, accounts and orders, any interleaving of ticks and order commands,
\* and any number of crashes, lost answers and failed writes.
THEOREM PlacedAtMostOnce == Spec => []AtMostOnePlacement
<1>1. Init => ClaimIsExclusive /\ AtMostOnePlacement
  BY DEF Init, StoreInit, ExecutorInit, ClaimIsExclusive, OneTask,
     TaskHasClaim, PlacedIsClaimed, AtMostOnePlacement, Tasks
<1>2. TypeInv /\ ClaimIsExclusive /\ AtMostOnePlacement /\ [Next]_vars
         => ClaimIsExclusive' /\ AtMostOnePlacement'
  BY AssumptionsHold, NextExclusive DEF TypeInv
<1> QED BY <1>1, <1>2, TypeInvariance, PTL DEF Spec
=============================================================================
