------------------------ MODULE OrderContractProofs -------------------------
(***************************************************************************)
(* Proofs about OrderSystem, continued: it implements OrderContract, and   *)
(* what follows from that for the events it publishes, the claims it       *)
(* takes, the broker orders it knows, the account locks and the fills.     *)
(***************************************************************************)
EXTENDS OrderSystemProofs, FiniteSetTheorems

-----------------------------------------------------------------------------
(***************************************************************************)
(* The refinement mapping, one name per abstract variable.                 *)
(***************************************************************************)
rowStatus == [o \in Orders |-> orders[o].status]
rowPlaced == [o \in Orders |-> \E h \in DOMAIN broker : broker[h].order = o]
rowKnown == [o \in Orders |-> orders[o].handle # NoHandle]
rowFilled == [o \in Orders |-> orders[o].filled]

\* The row's placement has not been answered yet.
Early == Unclaimed \union {"SUBMITTING"}

\* The strengthening the refinement needs: a row has no handle before its
\* placement is answered and has one once it is accepted; FILLED is written
\* when the quantity is, and no more is ever booked.
RowRegular(o) ==
    /\ orders[o].status \in Early => orders[o].handle = NoHandle
    /\ orders[o].status \in {"ACCEPTED", "PARTIALLY_FILLED", "FILLED"}
          => orders[o].handle # NoHandle
    /\ orders[o].status = "FILLED" => orders[o].filled >= Quantity[o]
    /\ orders[o].filled <= Quantity[o]
\* ... and a task attaches its handle only where it found the row past SUBMITTING.
RowsAreRegular ==
    /\ \A o \in Orders : RowRegular(o)
    /\ \A p \in Pods, o \in Orders :
          placePc[<<p, o>>] = "attaching" => orders[o].status \notin Early

\* A statement that writes one row's status.
LEMMA StatusMoves ==
    ASSUME orders \in [Orders -> Row], NEW o \in Orders, NEW s,
           orders' = [orders EXCEPT ![o].status = s]
    PROVE  /\ rowStatus' = [rowStatus EXCEPT ![o] = s]
           /\ rowKnown' = rowKnown /\ rowFilled' = rowFilled
<1>1. \A x \in Orders :
         /\ orders'[x].status = IF x = o THEN s ELSE orders[x].status
         /\ orders'[x].handle = orders[x].handle
         /\ orders'[x].filled = orders[x].filled
  BY DEF Row
<1> QED BY <1>1 DEF rowStatus, rowKnown, rowFilled

\* A statement that claims rows.
LEMMA ClaimMoves ==
    ASSUME orders \in [Orders -> Row], NEW rows, NEW s,
           orders' = ClaimRows(rows, s)
    PROVE  /\ rowStatus' = [o \in Orders |-> IF o \in rows THEN s
                                             ELSE rowStatus[o]]
           /\ rowKnown' = rowKnown /\ rowFilled' = rowFilled
<1>1. \A x \in Orders :
         /\ orders'[x].status = IF x \in rows THEN s ELSE orders[x].status
         /\ orders'[x].handle = orders[x].handle
         /\ orders'[x].filled = orders[x].filled
  BY DEF Row, ClaimRows
<1> QED BY <1>1 DEF rowStatus, rowKnown, rowFilled

\* A statement that writes one row's handle.
LEMMA HandleMoves ==
    ASSUME orders \in [Orders -> Row], NEW o \in Orders, NEW h \in Handles,
           \/ orders' = [orders EXCEPT ![o].handle = h]
           \/ orders' = [orders EXCEPT ![o].status = "ACCEPTED",
                                       ![o].handle = h]
    PROVE  /\ rowKnown' = [rowKnown EXCEPT ![o] = TRUE]
           /\ rowFilled' = rowFilled
           /\ \/ rowStatus' = rowStatus
              \/ rowStatus' = [rowStatus EXCEPT ![o] = "ACCEPTED"]
<1>0. h # NoHandle
  BY DEF Handles, NoHandle
<1>1. \A x \in Orders :
         /\ orders'[x].handle = IF x = o THEN h ELSE orders[x].handle
         /\ orders'[x].filled = orders[x].filled
  BY DEF Row
<1>2. \/ \A x \in Orders : orders'[x].status = orders[x].status
      \/ \A x \in Orders : orders'[x].status = IF x = o THEN "ACCEPTED"
                                               ELSE orders[x].status
  BY DEF Row
<1>3. rowKnown' = [rowKnown EXCEPT ![o] = TRUE]
  BY <1>0, <1>1 DEF rowKnown
<1> QED BY <1>1, <1>2, <1>3 DEF rowStatus, rowFilled

\* The broker's orders keep their rows.
LEMMA PlacedKept ==
    ASSUME BrokerKept, DOMAIN broker' = DOMAIN broker
    PROVE  rowPlaced' = rowPlaced
BY DEF BrokerKept, rowPlaced

\* The broker takes an order for a row.
LEMMA PlacedOnce ==
    ASSUME Assumptions, broker \in Seq(BrokerOrder), NEW o \in Orders,
           NEW late, BrokerAccepts(o, late)
    PROVE  rowPlaced' = [rowPlaced EXCEPT ![o] = TRUE]
<1>1. \A x \in Orders : (\E h \in DOMAIN broker' : broker'[h].order = x)
         <=> (x = o \/ \E h \in DOMAIN broker : broker[h].order = x)
  BY AcceptAppends
<1> QED BY <1>1 DEF rowPlaced

-----------------------------------------------------------------------------
(***************************************************************************)
(* Every step of the system is a step of the contract, or none.            *)
(***************************************************************************)
ContractStep == [Contract!Next]_(Contract!contractVars)

\* A step that leaves the four columns alone.
LEMMA ContractStutter ==
    ASSUME UNCHANGED <<rowStatus, rowPlaced, rowKnown, rowFilled>>
    PROVE  ContractStep
BY DEF ContractStep, Contract!contractVars, rowStatus, rowPlaced, rowKnown,
   rowFilled

\* A status write that the contract knows: a request, a cancellation, or the
\* end of a placement or a cancellation.
LEMMA ContractStatus ==
    ASSUME NEW o \in Orders, NEW s,
           UNCHANGED <<rowPlaced, rowKnown, rowFilled>>,
           rowStatus' = [rowStatus EXCEPT ![o] = s],
           \/ rowStatus[o] = "CREATED" /\ s = "REQUESTED"
           \/ /\ rowStatus[o] \in {"REQUESTED", "SUBMITTING", "ACCEPTED",
                                    "PARTIALLY_FILLED"}
              /\ s = "CANCEL_REQUESTED"
           \/ /\ rowStatus[o] \in {"SUBMITTING", "CANCEL_SUBMITTING"}
              /\ s = "FAILED"
           \/ rowStatus[o] = "CANCEL_SUBMITTING" /\ s = "CANCELLED"
    PROVE  ContractStep
<1>1. Contract!Request(o) \/ Contract!Cancel(o) \/ Contract!Settle(o)
  BY DEF Contract!Request, Contract!Cancel, Contract!Settle, Contract!Move,
     rowStatus, rowPlaced, rowKnown, rowFilled
<1> QED BY <1>1 DEF ContractStep, Contract!Next

\* A claim.
LEMMA ContractClaim ==
    ASSUME NEW rows \in SUBSET Orders, NEW from, NEW to,
           \/ from = "REQUESTED" /\ to = "SUBMITTING"
           \/ from = "CANCEL_REQUESTED" /\ to = "CANCEL_SUBMITTING",
           UNCHANGED <<rowPlaced, rowKnown, rowFilled>>,
           \A o \in rows : rowStatus[o] = from,
           rowStatus' = [o \in Orders |-> IF o \in rows THEN to
                                          ELSE rowStatus[o]]
    PROVE  ContractStep
<1>1. Contract!Claim(rows, from, to)
  BY DEF Contract!Claim, rowStatus, rowPlaced, rowKnown, rowFilled
<1> QED BY <1>1 DEF ContractStep, Contract!Next

\* A placement at the broker.
LEMMA ContractPlace ==
    ASSUME NEW o \in Orders, UNCHANGED <<rowStatus, rowKnown, rowFilled>>,
           rowStatus[o] \notin Unclaimed, ~rowPlaced[o],
           rowPlaced' = [rowPlaced EXCEPT ![o] = TRUE]
    PROVE  ContractStep
<1>1. Contract!Place(o)
  BY DEF Contract!Place, Contract!Unclaimed, Unclaimed, rowStatus, rowPlaced,
     rowKnown, rowFilled
<1> QED BY <1>1 DEF ContractStep, Contract!Next

\* The row learns its handle.
LEMMA ContractLearn ==
    ASSUME NEW o \in Orders, UNCHANGED <<rowPlaced, rowFilled>>,
           rowPlaced[o], ~rowKnown[o],
           rowKnown' = [rowKnown EXCEPT ![o] = TRUE],
           \/ /\ rowStatus[o] = "SUBMITTING"
              /\ rowStatus' = [rowStatus EXCEPT ![o] = "ACCEPTED"]
           \/ /\ rowStatus[o] \in {"CANCEL_REQUESTED", "CANCEL_SUBMITTING"}
              /\ UNCHANGED rowStatus
    PROVE  ContractStep
<1>1. Contract!Learn(o)
  BY DEF Contract!Learn, Contract!Move, Contract!Cancelling, rowStatus,
     rowPlaced, rowKnown, rowFilled
<1> QED BY <1>1 DEF ContractStep, Contract!Next

\* What an inserted fill does to its row: it was not FILLED, it knows its
\* broker order, and it gains the applied quantity.
LEMMA InsertedFill ==
    ASSUME Assumptions, StoreTypeOK, HandlesAreOwn, NEW f \in FillIds,
           Executed(f), FillOutcome(f) = "inserted"
    PROVE  /\ OrderForFill(f) \in Orders
           /\ orders[OrderForFill(f)].handle = f[1] /\ f[1] # NoHandle
           /\ HoldsFor(f[1], OrderForFill(f))
           /\ AppliedQty(OrderForFill(f), f) \in
                 1 .. Quantity[OrderForFill(f)]
           /\ NextFilled(OrderForFill(f), f) =
                 orders[OrderForFill(f)].filled + AppliedQty(OrderForFill(f), f)
           /\ NextFilled(OrderForFill(f), f) <= Quantity[OrderForFill(f)]
<1> DEFINE o == OrderForFill(f)
<1>1. OrdersForFill(f) # {} /\ ~(AppliedQty(o, f) <= 0)
  BY DEF FillOutcome
<1>2. o \in Orders /\ orders[o].handle = f[1]
  BY <1>1, FillFacts DEF OrdersForFill
<1>3. f[1] # NoHandle
  BY DEF FillIds, Handles, NoHandle
<1>4. HoldsFor(f[1], o)
  BY <1>2, <1>3 DEF HandlesAreOwn, RowHandles
<1>5. /\ NextFilled(o, f) \in Nat /\ AppliedQty(o, f) \in Nat
      /\ NextFilled(o, f) <= Quantity[o]
  BY <1>2, FillFacts
<1>6. orders[o].filled \in Nat /\ Quantity[o] \in Nat
  BY <1>2 DEF StoreTypeOK, Row, Assumptions
<1>7. NextFilled(o, f) = orders[o].filled + AppliedQty(o, f)
  <2> HIDE DEF o
  <2> QED BY <1>1, <1>5, <1>6 DEF AppliedQty, MaxOf
<1> HIDE DEF o
<1>8. AppliedQty(o, f) \in 1 .. Quantity[o]
  BY <1>1, <1>5, <1>6, <1>7
<1> QED BY <1>2, <1>3, <1>4, <1>5, <1>7, <1>8 DEF o

\* The columns after it.
LEMMA FillMoves ==
    ASSUME Assumptions, orders \in [Orders -> Row], NEW o \in Orders, NEW f,
           NextFilled(o, f) \in Nat, orders' = FillRow(o, f)
    PROVE  /\ rowStatus' = [rowStatus EXCEPT ![o] =
                 ResolveFillStatus(@, Quantity[o] - NextFilled(o, f))]
           /\ rowFilled' = [rowFilled EXCEPT ![o] = NextFilled(o, f)]
           /\ rowKnown' = rowKnown
<1> DEFINE s == ResolveFillStatus(orders[o].status,
                                  Quantity[o] - NextFilled(o, f))
           n == NextFilled(o, f)
<1>1. orders' = [orders EXCEPT ![o].status = s, ![o].filled = n]
  BY DEF FillRow
<1> HIDE DEF s, n
<1>2. \A x \in Orders :
         /\ orders'[x].status = IF x = o THEN s ELSE orders[x].status
         /\ orders'[x].filled = IF x = o THEN n ELSE orders[x].filled
         /\ orders'[x].handle = orders[x].handle
  BY <1>1 DEF Row
<1>3. rowStatus' = [rowStatus EXCEPT ![o] = s]
  BY <1>2 DEF rowStatus
<1>4. rowFilled' = [rowFilled EXCEPT ![o] = n] /\ rowKnown' = rowKnown
  BY <1>2 DEF rowFilled, rowKnown
<1>5. rowStatus[o] = orders[o].status
  BY DEF rowStatus
<1> QED BY <1>3, <1>4, <1>5 DEF s, n

\* A fill.
LEMMA ContractBook ==
    ASSUME Assumptions, StoreTypeOK, HandlesAreOwn, RowsAreRegular,
           UNCHANGED broker, NEW f \in FillIds, Executed(f),
           FillOutcome(f) = "inserted", orders' = FillRow(OrderForFill(f), f)
    PROVE  ContractStep
<1>0. PICK o \in Orders, q \in Nat :
         o = OrderForFill(f) /\ q = AppliedQty(o, f)
  BY InsertedFill, FillFacts
<1> DEFINE n == NextFilled(o, f)
<1>1. /\ o \in Orders /\ orders[o].handle # NoHandle /\ HoldsFor(f[1], o)
      /\ q \in 1 .. Quantity[o] /\ n = orders[o].filled + q
      /\ n <= Quantity[o]
  BY <1>0, InsertedFill
<1>2. /\ orders \in [Orders -> Row] /\ orders[o].filled \in Nat
      /\ Quantity[o] \in Nat
  BY <1>1 DEF StoreTypeOK, Row, Assumptions
<1> HIDE DEF n
<1>3. orders' = FillRow(o, f) /\ n = NextFilled(o, f) /\ n \in Nat
  BY <1>0, <1>1, <1>2 DEF n
<1>4. /\ rowStatus' = [rowStatus EXCEPT ![o] =
            ResolveFillStatus(@, Quantity[o] - n)]
      /\ rowFilled' = [rowFilled EXCEPT ![o] = n]
      /\ rowKnown' = rowKnown
  BY <1>1, <1>2, <1>3, FillMoves
<1>5. rowPlaced' = rowPlaced
  BY PlacedKept DEF BrokerKept
<1>6. rowPlaced[o] /\ rowKnown[o]
  BY <1>1 DEF rowPlaced, rowKnown, HoldsFor
<1>7. /\ rowStatus[o] = orders[o].status /\ rowFilled[o] = orders[o].filled
      /\ rowStatus \in [Orders -> OrderStatus]
  BY <1>1, <1>2 DEF rowStatus, rowFilled, Row
<1>8. rowStatus[o] # "FILLED"
  BY <1>1, <1>2, <1>7 DEF RowsAreRegular, RowRegular
<1>9. rowStatus' =
         IF rowStatus[o] \in ClosedStatus THEN rowStatus
         ELSE IF rowFilled[o] + q = Quantity[o]
              THEN [rowStatus EXCEPT ![o] = "FILLED"]
         ELSE IF rowStatus[o] \in {"CANCEL_REQUESTED", "CANCEL_SUBMITTING"}
              THEN rowStatus
         ELSE [rowStatus EXCEPT ![o] = "PARTIALLY_FILLED"]
  <2>1. [rowStatus EXCEPT ![o] = rowStatus[o]] = rowStatus
    BY <1>1, <1>7
  <2>2. ResolveFillStatus(rowStatus[o], Quantity[o] - n) =
           IF rowStatus[o] \in ClosedStatus THEN rowStatus[o]
           ELSE IF rowFilled[o] + q = Quantity[o] THEN "FILLED"
           ELSE IF rowStatus[o] \in {"CANCEL_REQUESTED", "CANCEL_SUBMITTING"}
                THEN rowStatus[o]
           ELSE "PARTIALLY_FILLED"
    BY <1>1, <1>2, <1>7 DEF ResolveFillStatus, ClosedStatus
  <2> QED BY <1>4, <2>1, <2>2
<1>10. rowFilled' = [rowFilled EXCEPT ![o] = @ + q]
  BY <1>1, <1>4, <1>7
<1>11. rowFilled[o] + q <= Quantity[o]
  BY <1>1, <1>7
<1>12. Contract!Book(o, q)
  BY <1>5, <1>4, <1>6, <1>8, <1>9, <1>10, <1>11
     DEF Contract!Book, Contract!Closed, Contract!Cancelling, ClosedStatus,
         rowStatus, rowPlaced, rowKnown, rowFilled
<1> QED BY <1>1, <1>12 DEF ContractStep, Contract!Next

\* A step that leaves the table alone and adds no broker order.
LEMMA ContractQuiet ==
    ASSUME UNCHANGED orders, BrokerKept, DOMAIN broker' = DOMAIN broker
    PROVE  ContractStep
BY PlacedKept, ContractStutter DEF rowStatus, rowKnown, rowFilled

\* updateStatusFromExpected, as the executor calls it.
LEMMA ContractUpdate ==
    ASSUME orders \in [Orders -> Row], UNCHANGED broker, NEW o \in Orders,
           NEW e, NEW s, orders' = UpdateStatusFromExpected(o, e, s),
           \/ e = {"SUBMITTING"} /\ s = "FAILED"
           \/ e = {"CANCEL_SUBMITTING"} /\ s \in {"FAILED", "CANCELLED"}
    PROVE  ContractStep
<1>1. rowPlaced' = rowPlaced /\ BrokerKept /\ DOMAIN broker' = DOMAIN broker
  BY PlacedKept DEF BrokerKept
<1>2. CASE StatusIsExpected(o, e)
  <2>1. orders' = [orders EXCEPT ![o].status = s]
    BY <1>2 DEF UpdateStatusFromExpected
  <2>2. rowStatus[o] \in e
    BY <1>2 DEF StatusIsExpected, rowStatus
  <2>3. /\ rowStatus' = [rowStatus EXCEPT ![o] = s]
        /\ rowKnown' = rowKnown /\ rowFilled' = rowFilled
    BY <2>1, StatusMoves
  <2>4. \/ rowStatus[o] = "SUBMITTING" /\ s = "FAILED"
        \/ rowStatus[o] = "CANCEL_SUBMITTING" /\ s \in {"FAILED", "CANCELLED"}
    BY <2>2
  <2> QED BY <1>1, <2>3, <2>4, ContractStatus
<1>3. CASE ~StatusIsExpected(o, e)
  BY <1>1, <1>3, ContractQuiet DEF UpdateStatusFromExpected
<1> QED BY <1>2, <1>3

\* A claim, as the executor makes it.
LEMMA ContractClaims ==
    ASSUME orders \in [Orders -> Row], UNCHANGED broker, NEW from, NEW to,
           NEW rows \in SUBSET InStatus(from), orders' = ClaimRows(rows, to),
           \/ from = "REQUESTED" /\ to = "SUBMITTING"
           \/ from = "CANCEL_REQUESTED" /\ to = "CANCEL_SUBMITTING"
    PROVE  ContractStep
<1>1. rowPlaced' = rowPlaced
  BY PlacedKept DEF BrokerKept
<1>2. rows \in SUBSET Orders /\ \A o \in rows : rowStatus[o] = from
  BY DEF InStatus, rowStatus
<1> QED BY <1>1, <1>2, ClaimMoves, ContractClaim

\* The two writes of a broker handle.
LEMMA ContractHandle ==
    ASSUME TypeOK, HandlesAreOwn, RowsAreRegular, UNCHANGED broker,
           NEW p \in Pods, NEW o \in Orders,
           \/ /\ placePc[<<p, o>>] = "acked"
              /\ orders' = AcceptFromExpected(o, {"SUBMITTING"},
                                              placeAck[<<p, o>>])
           \/ /\ placePc[<<p, o>>] = "attaching"
              /\ orders' = AttachBrokerOrderIdFromExpected(o, Attachable,
                                                           placeAck[<<p, o>>])
    PROVE  ContractStep
<1>1. PICK h : h = placeAck[<<p, o>>]
  OBVIOUS
<1>2. orders \in [Orders -> Row] /\ h \in Handles /\ HoldsFor(h, o)
  <2>1. placeAck[<<p, o>>] \in Handles \union {NoHandle}
    BY DEF TypeOK, ExecutorTypeOK, Tasks
  <2> QED BY <1>1, <2>1 DEF HandlesAreOwn, PlaceHandles, TypeOK, StoreTypeOK
<1>3. rowPlaced' = rowPlaced /\ BrokerKept /\ DOMAIN broker' = DOMAIN broker
  BY PlacedKept DEF BrokerKept
<1>4. rowPlaced[o] /\ rowStatus[o] = orders[o].status
  BY <1>2 DEF rowPlaced, HoldsFor, rowStatus
<1>5. CASE UNCHANGED orders
  BY <1>3, <1>5, ContractQuiet
<1>6. CASE /\ orders[o].status = "SUBMITTING"
           /\ orders' = [orders EXCEPT ![o].status = "ACCEPTED",
                                       ![o].handle = h]
  <2>1. ~rowKnown[o]
    BY <1>6 DEF RowsAreRegular, RowRegular, Early, rowKnown
  <2>2. rowStatus' = [rowStatus EXCEPT ![o] = "ACCEPTED"]
    <3>1. \A x \in Orders : orders'[x].status = IF x = o THEN "ACCEPTED"
                                                ELSE orders[x].status
      BY <1>2, <1>6 DEF Row
    <3> QED BY <3>1 DEF rowStatus
  <2> QED BY <1>2, <1>3, <1>4, <1>6, <2>1, <2>2, HandleMoves, ContractLearn
<1>7. CASE /\ orders[o].status \in {"CANCEL_REQUESTED", "CANCEL_SUBMITTING"}
           /\ orders[o].handle = NoHandle
           /\ orders' = [orders EXCEPT ![o].handle = h]
  <2>1. ~rowKnown[o]
    BY <1>7 DEF rowKnown
  <2>2. rowStatus' = rowStatus
    <3>1. \A x \in Orders : orders'[x].status = orders[x].status
      BY <1>2, <1>7 DEF Row
    <3> QED BY <3>1 DEF rowStatus
  <2> QED BY <1>2, <1>3, <1>4, <1>7, <2>1, <2>2, HandleMoves, ContractLearn
<1>8. placePc[<<p, o>>] = "attaching" => orders[o].status # "SUBMITTING"
  BY DEF RowsAreRegular, Early
<1> QED BY <1>1, <1>5, <1>6, <1>7, <1>8 DEF AcceptFromExpected,
           AttachBrokerOrderIdFromExpected, StatusIsExpected, Attachable

\* Every step.
LEMMA NextContract ==
    ASSUME Assumptions, TypeOK, HandlesAreOwn, ClaimIsExclusive,
           RowsAreRegular, [Next]_vars
    PROVE  ContractStep
<1>t. orders \in [Orders -> Row] /\ broker \in Seq(BrokerOrder)
  BY DEF TypeOK, StoreTypeOK
<1>b. BrokerKept
  BY NextHandles
<1>q. ASSUME UNCHANGED orders, DOMAIN broker' = DOMAIN broker
      PROVE  ContractStep
  BY <1>b, <1>q, ContractQuiet
<1>1. ASSUME NEW p \in Pods, NEW o \in Orders,
             PlaceAccepted(p, o) \/ PlaceAnswerLost(p, o)
      PROVE  ContractStep
  <2>1. /\ placePc[<<p, o>>] = "calling" /\ UNCHANGED orders
        /\ BrokerAccepts(o, placeLate[<<p, o>>])
    BY <1>1 DEF PlaceAccepted, PlaceAnswerLost
  <2>2. rowPlaced' = [rowPlaced EXCEPT ![o] = TRUE]
    BY <1>t, <2>1, PlacedOnce
  <2>3. rowStatus[o] \notin Unclaimed /\ ~rowPlaced[o]
    <3>1. orders[o].status \notin Unclaimed
      BY <2>1 DEF ClaimIsExclusive, TaskHasClaim
    <3>2. \A h \in DOMAIN broker : broker[h].order # o
      BY <2>1 DEF ClaimIsExclusive, PlacedIsClaimed, BeforeCall
    <3> QED BY <3>1, <3>2 DEF rowStatus, rowPlaced
  <2>4. UNCHANGED <<rowStatus, rowKnown, rowFilled>>
    BY <2>1 DEF rowStatus, rowKnown, rowFilled
  <2> QED BY <2>2, <2>3, <2>4, ContractPlace
<1>2. ASSUME NEW p \in Pods, NEW o \in Orders,
             PlaceStore(p, o) \/ PlaceAttach(p, o) \/ PlaceWriteFails(p, o)
      PROVE  ContractStep
  <2>1. /\ UNCHANGED broker
        /\ \/ UNCHANGED orders
           \/ /\ placePc[<<p, o>>] = "acked"
              /\ orders' = AcceptFromExpected(o, {"SUBMITTING"},
                                              placeAck[<<p, o>>])
           \/ /\ placePc[<<p, o>>] = "attaching"
              /\ orders' = AttachBrokerOrderIdFromExpected(o, Attachable,
                                                           placeAck[<<p, o>>])
    BY <1>2 DEF PlaceStore, PlaceAttach, PlaceWriteFails
  <2> QED BY <1>q, <2>1, ContractHandle
<1>3. ASSUME NEW p \in Pods, NEW o \in Orders,
             PlaceFail(p, o) \/ PlaceFailLost(p, o)
      PROVE  ContractStep
  <2>1. /\ UNCHANGED broker
        /\ \/ UNCHANGED orders
           \/ orders' = UpdateStatusFromExpected(o, {"SUBMITTING"}, "FAILED")
    BY <1>3 DEF PlaceFail, PlaceFailLost, FailureStatus, ErrorCode
  <2> QED BY <1>q, <1>t, <2>1, ContractUpdate
<1>4. ASSUME NEW p \in Pods, NEW o \in Orders, CancelStep(p, o)
      PROVE  ContractStep
  <2>1. /\ DOMAIN broker' = DOMAIN broker
        /\ \/ UNCHANGED orders
           \/ /\ UNCHANGED broker
              /\ \E s \in {"FAILED", "CANCELLED"} :
                    orders' = UpdateStatusFromExpected(
                                 o, {"CANCEL_SUBMITTING"}, s)
    BY <1>4 DEF CancelStep, CancelStart, CancelPoll, CancelWaitExpires,
       CancelClose, CancelAcquire, CancelLockTimeout, CancelAccepted,
       CancelAnswerLost, CancelRefused, CancelStore, CancelStoreFails,
       CancelUnlock, CancelFail, CancelFailLost, CancelThrows, CancelRelease,
       storeVars, BrokerCancels
  <2> QED BY <1>q, <1>t, <2>1, ContractUpdate
<1>5. ASSUME NEW p \in Pods, NEW o \in Orders, OrderCommand(p, o)
      PROVE  ContractStep
  <2>1. /\ UNCHANGED broker /\ orders' = ClaimRows({o}, "SUBMITTING")
        /\ {o} \in SUBSET InStatus("REQUESTED")
    BY <1>5 DEF OrderCommand, InStatus
  <2> QED BY <1>t, <2>1, ContractClaims
<1>6. ASSUME NEW p \in Pods,
             \/ TickClaimRequested(p) \/ TickClaimCancelling(p)
             \/ ClaimLost(p)
      PROVE  ContractStep
  <2>1. /\ UNCHANGED broker
        /\ \/ \E rows \in SUBSET InStatus("REQUESTED") :
                 orders' = ClaimRows(rows, "SUBMITTING")
           \/ \E rows \in SUBSET InStatus("CANCEL_REQUESTED") :
                 orders' = ClaimRows(rows, "CANCEL_SUBMITTING")
    BY <1>6 DEF TickClaimRequested, TickClaimCancelling, ClaimLost,
       ClaimableBatches
  <2> QED BY <1>t, <2>1, ContractClaims
<1>7. CASE ExecutorNext
  <2>1. ASSUME NEW p \in Pods, NEW o \in Orders, PlaceStep(p, o)
        PROVE  ContractStep
    BY <2>1, <1>1, <1>2, <1>3, <1>q DEF PlaceStep, StartBatched, PlaceAcquire,
       PlaceLockTimeout, PlaceIncomplete, PlaceRefused, PlacePublish,
       PlacePublishFailed, PlaceUnlock, PlaceRelease, storeVars
  <2>2. ASSUME \/ \E p \in Pods : TickDone(p) \/ PodCrash(p)
               \/ \E a \in Accounts : LockExpires(a)
        PROVE  ContractStep
    BY <2>2, <1>q DEF TickDone, PodCrash, LockExpires, storeVars
  <2> QED BY <1>4, <1>5, <1>6, <1>7, <2>1, <2>2 DEF ExecutorNext
<1>i. ASSUME NEW f \in FillIds, NEW s, IngestExecutionFill(f, s)
      PROVE  ContractStep
  <2>1. UNCHANGED broker /\ Executed(f)
    BY <1>i DEF IngestExecutionFill
  <2>2. CASE FillOutcome(f) = "inserted"
    <3>1. orders' = FillRow(OrderForFill(f), f)
      BY <1>i, <2>2 DEF IngestExecutionFill
    <3> QED BY <2>1, <2>2, <3>1, ContractBook DEF TypeOK
  <2>3. CASE FillOutcome(f) # "inserted"
    BY <1>i, <1>q, <2>1, <2>3 DEF IngestExecutionFill
  <2> QED BY <2>2, <2>3
<1>8. CASE TrackerNext
  <2>1. ASSUME NEW t \in Trackers, RetryIngest(t)
        PROVE  retry[t].fill \in FillIds
    BY <2>1 DEF RetryIngest, TypeOK, TrackerTypeOK, Retry, Idle
  <2> QED BY <1>8, <1>i, <1>q, <2>1 DEF TrackerNext, IngestFill, RetryRead,
             RetryIngest, RetryMark, RetryAborts, storeVars
<1>9. ASSUME NEW o \in Orders, BeRequest(o) \/ BeCancel(o)
       PROVE  ContractStep
  <2>1. /\ UNCHANGED broker /\ rowStatus[o] = orders[o].status
        /\ rowPlaced' = rowPlaced
    BY <1>9, <1>b, PlacedKept DEF BeRequest, BeCancel, rowStatus
  <2> QED BY <1>9, <1>t, <2>1, StatusMoves, ContractStatus
          DEF BeRequest, BeCancel
<1>10. ASSUME NEW h \in DOMAIN broker, NEW q, Trade(h, q)
       PROVE  ContractStep
  BY <1>10, <1>q DEF Trade, BrokerExecutes
<1> QED BY <1>7, <1>8, <1>9, <1>10, <1>q DEF Next, vars, storeVars

\* What the contract says of one row: a terminal status stays, a known handle
\* stays known, the booked quantity only grows, a row whose placement was
\* answered never looks unanswered again, and a cancellation that has been
\* claimed ends.
RowAdvances(x) ==
    /\ orders[x].status \in Terminal => orders'[x].status = orders[x].status
    /\ orders[x].handle # NoHandle => orders'[x].handle # NoHandle
    /\ orders[x].filled <= orders'[x].filled
    /\ orders[x].status \notin Early => orders'[x].status \notin Early
    /\ orders[x].status = "CANCEL_SUBMITTING"
          => orders'[x].status \in Terminal \union {"CANCEL_SUBMITTING"}

LEMMA ContractAdvances ==
    ASSUME Assumptions, orders \in [Orders -> Row],
           orders' \in [Orders -> Row], ContractStep, NEW x \in Orders,
           RowRegular(x)
    PROVE  RowAdvances(x) /\ RowRegular(x)'
<1> USE DEF RowRegular, RowAdvances, Early, Unclaimed, Terminal, ClosedStatus
<1>t. /\ orders[x].filled \in Nat /\ orders'[x].filled \in Nat
      /\ Quantity[x] \in Nat
  BY DEF Row, Assumptions
<1>1. ASSUME NEW o \in Orders,
             \/ Contract!Request(o) \/ Contract!Cancel(o)
             \/ Contract!Settle(o)
      PROVE  /\ orders'[x].filled = orders[x].filled
             /\ (orders'[x].handle # NoHandle) = (orders[x].handle # NoHandle)
             /\ \/ orders'[x].status = orders[x].status
                \/ /\ x = o
                   /\ \/ /\ orders[x].status = "CREATED"
                         /\ orders'[x].status = "REQUESTED"
                      \/ /\ orders[x].status \notin Terminal
                         /\ orders'[x].status \in {"CANCELLED", "FAILED"}
                      \/ /\ orders[x].status \notin Terminal
                         /\ orders[x].status # "CANCEL_SUBMITTING"
                         /\ orders'[x].status = "CANCEL_REQUESTED"
  BY <1>1 DEF Contract!Request, Contract!Cancel, Contract!Settle,
     Contract!Move
<1>2. ASSUME NEW rows \in SUBSET Orders,
             \/ Contract!Claim(rows, "REQUESTED", "SUBMITTING")
             \/ Contract!Claim(rows, "CANCEL_REQUESTED", "CANCEL_SUBMITTING")
      PROVE  /\ orders'[x].filled = orders[x].filled
             /\ (orders'[x].handle # NoHandle) = (orders[x].handle # NoHandle)
             /\ \/ orders'[x].status = orders[x].status
                \/ /\ orders[x].status = "REQUESTED"
                   /\ orders'[x].status = "SUBMITTING"
                \/ /\ orders[x].status = "CANCEL_REQUESTED"
                   /\ orders'[x].status = "CANCEL_SUBMITTING"
  BY <1>2 DEF Contract!Claim
<1>3. ASSUME NEW o \in Orders, Contract!Place(o)
      PROVE  /\ orders'[x].filled = orders[x].filled
             /\ (orders'[x].handle # NoHandle) = (orders[x].handle # NoHandle)
             /\ orders'[x].status = orders[x].status
  BY <1>3 DEF Contract!Place
<1>4. ASSUME NEW o \in Orders, Contract!Learn(o)
      PROVE  /\ orders'[x].filled = orders[x].filled
             /\ (orders[x].handle # NoHandle) => (orders'[x].handle # NoHandle)
             /\ \/ /\ orders'[x].status = orders[x].status
                   /\ (orders'[x].handle # NoHandle)
                         = (orders[x].handle # NoHandle)
                \/ /\ orders'[x].handle # NoHandle
                   /\ \/ /\ orders[x].status = "SUBMITTING"
                         /\ orders'[x].status = "ACCEPTED"
                      \/ /\ orders[x].status
                               \in {"CANCEL_REQUESTED", "CANCEL_SUBMITTING"}
                         /\ orders'[x].status = orders[x].status
  <2>1. /\ rowFilled' = rowFilled
        /\ rowKnown' = [rowKnown EXCEPT ![o] = TRUE]
        /\ \/ /\ rowStatus[o] = "SUBMITTING"
              /\ rowStatus' = [rowStatus EXCEPT ![o] = "ACCEPTED"]
           \/ /\ rowStatus[o] \in {"CANCEL_REQUESTED", "CANCEL_SUBMITTING"}
              /\ rowStatus' = rowStatus
    BY <1>4 DEF Contract!Learn, Contract!Move, Contract!Cancelling, rowStatus,
       rowKnown, rowFilled
  <2>2. orders'[x].filled = orders[x].filled
    BY <2>1 DEF rowFilled
  <2>3. (orders'[x].handle # NoHandle)
           = IF x = o THEN TRUE ELSE orders[x].handle # NoHandle
    BY <2>1 DEF rowKnown
  <2>4. \/ orders[o].status = "SUBMITTING"
           /\ orders'[x].status = IF x = o THEN "ACCEPTED"
                                  ELSE orders[x].status
        \/ /\ orders[o].status \in {"CANCEL_REQUESTED", "CANCEL_SUBMITTING"}
           /\ orders'[x].status = orders[x].status
    BY <2>1 DEF rowStatus
  <2> QED BY <2>2, <2>3, <2>4
<1>5. ASSUME NEW o \in Orders, NEW q \in 1 .. Quantity[o],
             Contract!Book(o, q)
      PROVE  /\ orders[x].filled <= orders'[x].filled
             /\ orders'[x].filled <= Quantity[x]
             /\ (orders'[x].handle # NoHandle) = (orders[x].handle # NoHandle)
             /\ \/ orders'[x].status = orders[x].status
                \/ /\ orders[x].handle # NoHandle
                   /\ orders[x].status \notin Terminal
                   /\ \/ /\ orders[x].status # "CANCEL_SUBMITTING"
                         /\ orders'[x].status = "PARTIALLY_FILLED"
                      \/ /\ orders'[x].status = "FILLED"
                         /\ orders'[x].filled = Quantity[x]
  <2>1. /\ rowKnown' = rowKnown /\ rowKnown[o] /\ rowStatus[o] # "FILLED"
        /\ rowFilled' = [rowFilled EXCEPT ![o] = @ + q]
        /\ rowFilled[o] + q <= Quantity[o]
        /\ \/ rowStatus' = rowStatus
           \/ /\ rowStatus[o] \notin ClosedStatus
              /\ \/ /\ rowStatus' = [rowStatus EXCEPT ![o] =
                                                "PARTIALLY_FILLED"]
                    /\ rowStatus[o] # "CANCEL_SUBMITTING"
                 \/ /\ rowStatus' = [rowStatus EXCEPT ![o] = "FILLED"]
                    /\ rowFilled[o] + q = Quantity[o]
    BY <1>5 DEF Contract!Book, Contract!Closed, Contract!Cancelling, rowStatus,
       rowKnown, rowFilled
  <2>2. /\ orders'[x].filled = IF x = o THEN orders[x].filled + q
                               ELSE orders[x].filled
        /\ orders[o].filled + q <= Quantity[o]
    BY <2>1 DEF rowFilled
  <2>3. /\ (orders'[x].handle # NoHandle) = (orders[x].handle # NoHandle)
        /\ orders[o].handle # NoHandle
    BY <2>1 DEF rowKnown
  <2>4. /\ orders[o].status # "FILLED"
        /\ \/ orders'[x].status = orders[x].status
           \/ /\ x = o /\ orders[x].status \notin ClosedStatus
              /\ \/ /\ orders'[x].status = "PARTIALLY_FILLED"
                    /\ orders[x].status # "CANCEL_SUBMITTING"
                 \/ /\ orders'[x].status = "FILLED"
                    /\ orders[x].filled + q = Quantity[x]
    BY <2>1 DEF rowStatus, rowFilled
  <2>5. q \in Nat
    BY DEF Assumptions
  <2> QED BY <2>2, <2>3, <2>4, <2>5, <1>t
<1>6. ASSUME UNCHANGED Contract!contractVars
      PROVE  /\ orders'[x].filled = orders[x].filled
             /\ (orders'[x].handle # NoHandle) = (orders[x].handle # NoHandle)
             /\ orders'[x].status = orders[x].status
  BY <1>6 DEF Contract!contractVars
<1>7. Contract!Next \/ UNCHANGED Contract!contractVars
  BY DEF ContractStep
<1> QED BY <1>1, <1>2, <1>3, <1>4, <1>5, <1>6, <1>7, <1>t DEF Contract!Next

-----------------------------------------------------------------------------
(***************************************************************************)
(* Who moves a task.                                                       *)
(***************************************************************************)

\* A place task is moved by its own steps only, apart from the claim that
\* creates it and the crash of its pod.
LEMMA PlaceTaskMoves ==
    ASSUME TypeOK, [Next]_vars, NEW p \in Pods, NEW o \in Orders
    PROVE  \/ /\ placePc'[<<p, o>>] = placePc[<<p, o>>]
              /\ placeAck'[<<p, o>>] = placeAck[<<p, o>>]
              /\ placeLate'[<<p, o>>] = placeLate[<<p, o>>]
           \/ placePc'[<<p, o>>] = "none" /\ faults' = faults + 1
           \/ /\ placePc'[<<p, o>>] \in {"batched", "chained"}
              /\ orders[o].status = "REQUESTED"
           \/ PlaceStep(p, o)
<1> DEFINE Same(t) == /\ placePc'[t] = placePc[t]
                      /\ placeAck'[t] = placeAck[t]
                      /\ placeLate'[t] = placeLate[t]
<1>t. /\ <<p, o>> \in Tasks /\ <<p, o>>[1] = p /\ <<p, o>>[2] = o
      /\ placePc \in [Tasks -> PlacePc]
      /\ placeAck \in [Tasks -> Handles \union {NoHandle}]
      /\ placeLate \in [Tasks -> BOOLEAN]
  BY DEF TypeOK, ExecutorTypeOK, Tasks
<1>u. ASSUME UNCHANGED <<placePc, placeAck, placeLate>> PROVE Same(<<p, o>>)
  BY <1>u
<1>1. ASSUME NEW q \in Pods, NEW x \in Orders, PlaceStep(q, x),
             <<q, x>> # <<p, o>>
      PROVE  Same(<<p, o>>)
  <2> HIDE DEF Same
  <2>1. /\ \/ UNCHANGED placePc
           \/ \E v : placePc' = [placePc EXCEPT ![<<q, x>>] = v]
        /\ \/ UNCHANGED placeAck
           \/ \E v : placeAck' = [placeAck EXCEPT ![<<q, x>>] = v]
        /\ \/ UNCHANGED placeLate
           \/ \E v : placeLate' = [placeLate EXCEPT ![<<q, x>>] = v]
    BY <1>1 DEF PlaceStep, StartBatched, PlaceAcquire, PlaceLockTimeout,
       PlaceIncomplete, PlaceAccepted, PlaceAnswerLost, PlaceRefused,
       PlaceStore, PlaceAttach, PlaceWriteFails, PlacePublish, PlaceFail,
       PlaceFailLost, PlacePublishFailed, PlaceUnlock, PlaceRelease, PlaceErrs
  <2> QED BY <1>1, <1>t, <2>1 DEF Same
<1>2. ASSUME NEW q \in Pods, NEW x \in Orders, OrderCommand(q, x)
      PROVE  \/ Same(<<p, o>>)
             \/ /\ placePc'[<<p, o>>] = "chained"
                /\ orders[o].status = "REQUESTED"
  <2>1. CASE <<q, x>> = <<p, o>>
    BY <1>2, <1>t, <2>1 DEF OrderCommand
  <2>2. CASE <<q, x>> # <<p, o>>
    BY <1>2, <1>t, <2>2 DEF OrderCommand
  <2> QED BY <2>1, <2>2
<1>3. ASSUME NEW q \in Pods, TickClaimRequested(q)
      PROVE  \/ Same(<<p, o>>)
             \/ /\ placePc'[<<p, o>>] = "batched"
                /\ orders[o].status = "REQUESTED"
  BY <1>3, <1>t DEF TickClaimRequested, ClaimableBatches, InStatus
<1>4. ASSUME NEW q \in Pods, PodCrash(q)
      PROVE  \/ Same(<<p, o>>)
             \/ placePc'[<<p, o>>] = "none" /\ faults' = faults + 1
  BY <1>4, <1>t DEF PodCrash
<1>5. ASSUME \/ \E q \in Pods : \/ TickClaimCancelling(q) \/ TickDone(q)
                                \/ ClaimLost(q)
             \/ \E q \in Pods, x \in Orders : CancelStep(q, x)
             \/ \E a \in Accounts : LockExpires(a)
      PROVE  Same(<<p, o>>)
  <2>1. ASSUME NEW q \in Pods, NEW x \in Orders, CancelStep(q, x)
        PROVE  UNCHANGED placeVars
    BY <2>1 DEF CancelStep, CancelStart, CancelPoll, CancelWaitExpires,
       CancelClose, CancelAcquire, CancelLockTimeout, CancelAccepted,
       CancelAnswerLost, CancelRefused, CancelStore, CancelStoreFails,
       CancelUnlock, CancelFail, CancelFailLost, CancelThrows, CancelRelease
  <2>2. UNCHANGED placeVars
    BY <1>5, <2>1 DEF TickClaimCancelling, TickDone, ClaimLost, LockExpires
  <2> QED BY <1>u, <2>2 DEF placeVars
<1> HIDE DEF Same
<1>6. \/ Same(<<p, o>>)
      \/ placePc'[<<p, o>>] = "none" /\ faults' = faults + 1
      \/ /\ placePc'[<<p, o>>] \in {"batched", "chained"}
         /\ orders[o].status = "REQUESTED"
      \/ PlaceStep(p, o)
  BY <1>1, <1>2, <1>3, <1>4, <1>5, <1>u DEF Next, ExecutorNext, vars,
     executorVars, BeRequest, BeCancel, Trade
<1> QED BY <1>6 DEF Same

\* So is a cancel task.
LEMMA CancelTaskMoves ==
    ASSUME TypeOK, [Next]_vars, NEW p \in Pods, NEW o \in Orders
    PROVE  \/ /\ cancelPc'[<<p, o>>] = cancelPc[<<p, o>>]
              /\ cancelHandle'[<<p, o>>] = cancelHandle[<<p, o>>]
           \/ /\ cancelPc'[<<p, o>>] = "none" /\ faults' = faults + 1
              /\ cancelHandle'[<<p, o>>] = NoHandle
           \/ /\ cancelPc'[<<p, o>>] = "picked"
              /\ orders[o].status = "CANCEL_REQUESTED"
              /\ orders'[o].status = "CANCEL_SUBMITTING"
              /\ cancelHandle'[<<p, o>>] = orders[o].handle
           \/ CancelStep(p, o)
<1> DEFINE Same(t) == /\ cancelPc'[t] = cancelPc[t]
                      /\ cancelHandle'[t] = cancelHandle[t]
           Crashed(t) == /\ cancelPc'[t] = "none" /\ faults' = faults + 1
                         /\ cancelHandle'[t] = NoHandle
           Picked(t) == /\ cancelPc'[t] = "picked"
                        /\ orders[o].status = "CANCEL_REQUESTED"
                        /\ orders'[o].status = "CANCEL_SUBMITTING"
                        /\ cancelHandle'[t] = orders[o].handle
<1>t. /\ <<p, o>> \in Tasks /\ <<p, o>>[1] = p /\ <<p, o>>[2] = o
      /\ cancelPc \in [Tasks -> CancelPc]
      /\ cancelHandle \in [Tasks -> Handles \union {NoHandle}]
      /\ orders \in [Orders -> Row]
  BY DEF TypeOK, ExecutorTypeOK, StoreTypeOK, Tasks
<1>u. ASSUME UNCHANGED <<cancelPc, cancelHandle>> PROVE Same(<<p, o>>)
  BY <1>u
<1>1. ASSUME NEW q \in Pods, NEW x \in Orders, CancelStep(q, x),
             <<q, x>> # <<p, o>>
      PROVE  Same(<<p, o>>)
  <2> HIDE DEF Same
  <2>1. /\ \/ UNCHANGED cancelPc
           \/ \E v : cancelPc' = [cancelPc EXCEPT ![<<q, x>>] = v]
        /\ \/ UNCHANGED cancelHandle
           \/ \E v : cancelHandle' = [cancelHandle EXCEPT ![<<q, x>>] = v]
    BY <1>1 DEF CancelStep, CancelStart, CancelPoll, CancelWaitExpires,
       CancelClose, CancelAcquire, CancelLockTimeout, CancelAccepted,
       CancelAnswerLost, CancelRefused, CancelStore, CancelStoreFails,
       CancelUnlock, CancelFail, CancelFailLost, CancelThrows, CancelRelease,
       CancelDone
  <2> QED BY <1>1, <1>t, <2>1 DEF Same
<1>2. ASSUME NEW q \in Pods, TickClaimCancelling(q)
      PROVE  Same(<<p, o>>) \/ Picked(<<p, o>>)
  <2>1. PICK rows \in ClaimableBatches("CANCEL_REQUESTED", BatchSize) :
           /\ orders' = ClaimRows(rows, "CANCEL_SUBMITTING")
           /\ cancelPc' = [t \in Tasks |-> IF t[1] = q /\ t[2] \in rows
                                           THEN "picked" ELSE cancelPc[t]]
           /\ cancelHandle' = [t \in Tasks |-> IF t[1] = q /\ t[2] \in rows
                                               THEN orders[t[2]].handle
                                               ELSE cancelHandle[t]]
    BY <1>2 DEF TickClaimCancelling
  <2>2. CASE q = p /\ o \in rows
    <3>1. orders[o].status = "CANCEL_REQUESTED"
      BY <2>2 DEF ClaimableBatches, InStatus
    <3>2. orders'[o].status = "CANCEL_SUBMITTING"
      BY <1>t, <2>1, <2>2 DEF ClaimRows, Row
    <3> QED BY <1>t, <2>1, <2>2, <3>1, <3>2
  <2>3. CASE ~(q = p /\ o \in rows)
    BY <1>t, <2>1, <2>3
  <2> QED BY <2>2, <2>3
<1>3. ASSUME NEW q \in Pods, PodCrash(q)
      PROVE  Same(<<p, o>>) \/ Crashed(<<p, o>>)
  BY <1>3, <1>t DEF PodCrash
<1>4. ASSUME \/ \E q \in Pods : \/ TickClaimRequested(q) \/ TickDone(q)
                                \/ ClaimLost(q)
             \/ \E q \in Pods, x \in Orders :
                   OrderCommand(q, x) \/ PlaceStep(q, x)
             \/ \E a \in Accounts : LockExpires(a)
      PROVE  Same(<<p, o>>)
  <2>1. ASSUME NEW q \in Pods, NEW x \in Orders, PlaceStep(q, x)
        PROVE  UNCHANGED cancelVars
    BY <2>1 DEF PlaceStep, StartBatched, PlaceAcquire, PlaceLockTimeout,
       PlaceIncomplete, PlaceAccepted, PlaceAnswerLost, PlaceRefused,
       PlaceStore, PlaceAttach, PlaceWriteFails, PlacePublish, PlaceFail,
       PlaceFailLost, PlacePublishFailed, PlaceUnlock, PlaceRelease
  <2>2. UNCHANGED cancelVars
    BY <1>4, <2>1 DEF TickClaimRequested, TickDone, ClaimLost, LockExpires,
       OrderCommand
  <2> QED BY <1>u, <2>2 DEF cancelVars
<1> HIDE DEF Same, Crashed, Picked
<1>5. \/ Same(<<p, o>>) \/ Crashed(<<p, o>>) \/ Picked(<<p, o>>)
      \/ CancelStep(p, o)
  BY <1>1, <1>2, <1>3, <1>4, <1>u DEF Next, ExecutorNext, vars,
     executorVars, BeRequest, BeCancel, Trade
<1> QED BY <1>5 DEF Same, Crashed, Picked

-----------------------------------------------------------------------------
(***************************************************************************)
(* The refinement.                                                         *)
(***************************************************************************)

\* What the proofs below start from.
OrderInv ==
    TypeInv /\ ClaimIsExclusive /\ AtMostOnePlacement /\ RowsAreRegular

LEMMA OrderInvInit == ASSUME Init PROVE OrderInv
<1>1. TypeInv
  BY TypeInvInit
<1>2. ClaimIsExclusive /\ AtMostOnePlacement
  BY DEF Init, StoreInit, ExecutorInit, ClaimIsExclusive, OneTask,
     TaskHasClaim, PlacedIsClaimed, AtMostOnePlacement, Tasks
<1>3. RowsAreRegular
  BY AssumptionsHold DEF Assumptions, Init, StoreInit, ExecutorInit,
     RowsAreRegular, RowRegular, Early, Unclaimed, Tasks
<1> QED BY <1>1, <1>2, <1>3 DEF OrderInv

\* Every step keeps it, advances every row and is a step of the contract.
LEMMA OrderInvNext ==
    ASSUME OrderInv, [Next]_vars
    PROVE  /\ OrderInv' /\ ContractStep /\ BrokerKept
           /\ \A x \in Orders : RowAdvances(x)
<1>0. /\ Assumptions /\ TypeOK /\ HandlesAreOwn /\ ChainsAreOrderly
      /\ AttemptsAreBounded
  BY AssumptionsHold DEF OrderInv, TypeInv
<1>1. TypeInv'
  BY <1>0, NextType, NextChains, NextHandles, NextAttempts
     DEF TypeInv, TypeOK
<1>2. ClaimIsExclusive' /\ AtMostOnePlacement'
  BY <1>0, NextExclusive DEF OrderInv
<1>3. ContractStep /\ BrokerKept
  BY <1>0, NextContract, NextHandles DEF OrderInv
<1>4. \A x \in Orders : RowAdvances(x) /\ RowRegular(x)'
  <2>1. orders \in [Orders -> Row] /\ orders' \in [Orders -> Row]
    BY <1>0, <1>1 DEF TypeOK, TypeInv, StoreTypeOK
  <2> QED BY <1>0, <1>3, <2>1, ContractAdvances DEF OrderInv, RowsAreRegular
<1>5. ASSUME NEW p \in Pods, NEW o \in Orders,
             placePc'[<<p, o>>] = "attaching"
      PROVE  orders'[o].status \notin Early
  <2>1. CASE placePc[<<p, o>>] = "attaching"
    BY <1>4, <2>1 DEF OrderInv, RowsAreRegular, RowAdvances
  <2>2. CASE PlaceStep(p, o) /\ placePc[<<p, o>>] # "attaching"
    <3>1. PlaceStore(p, o) /\ ~StatusIsExpected(o, {"SUBMITTING"})
      <4>1. placePc \in [Tasks -> PlacePc] /\ <<p, o>> \in Tasks
        BY <1>0 DEF TypeOK, ExecutorTypeOK, Tasks
      <4> QED BY <1>5, <2>2, <4>1 DEF PlaceStep, StartBatched, PlaceAcquire,
                 PlaceLockTimeout, PlaceIncomplete, PlaceAccepted,
                 PlaceAnswerLost, PlaceRefused, PlaceStore, PlaceAttach,
                 PlaceWriteFails, PlacePublish, PlaceFail, PlaceFailLost,
                 PlacePublishFailed, PlaceUnlock, PlaceRelease, PlaceErrs,
                 FailEvent, FailExit
    <3>2. placePc[<<p, o>>] # "none"
      BY <3>1 DEF PlaceStore
    <3>3. orders[o].status \notin Early
      BY <3>1, <3>2 DEF StatusIsExpected, OrderInv, ClaimIsExclusive,
         TaskHasClaim, Early
    <3> QED BY <1>4, <3>3 DEF RowAdvances
  <2> QED BY <1>0, <1>5, <2>1, <2>2, PlaceTaskMoves
<1>6. RowsAreRegular'
  BY <1>4, <1>5 DEF RowsAreRegular
<1> QED BY <1>1, <1>2, <1>3, <1>4, <1>6 DEF OrderInv

THEOREM OrderInvariance == Spec => []OrderInv
<1>1. Init => OrderInv
  BY OrderInvInit
<1>2. OrderInv /\ [Next]_vars => OrderInv'
  BY OrderInvNext
<1> QED BY <1>1, <1>2, PTL DEF Spec

\* Whatever pods, locks, retries, crashes and lost answers do to it, a row of
\* the orders table lives as OrderContract says: claimed once, placed at most
\* once, told its handle at most once, filled up to its quantity, settled.
THEOREM ContractImplemented == Spec => ImplementsContract
<1>1. ASSUME Init PROVE Contract!Init
  <2>1. /\ rowStatus = [o \in Orders |-> "CREATED"]
        /\ rowFilled = [o \in Orders |-> 0]
    BY <1>1 DEF Init, StoreInit, rowStatus, rowFilled
  <2>2. rowPlaced = [o \in Orders |-> FALSE]
    BY <1>1 DEF Init, StoreInit, rowPlaced
  <2>3. rowKnown = [o \in Orders |-> FALSE]
    BY <1>1 DEF Init, StoreInit, rowKnown
  <2> QED BY <2>1, <2>2, <2>3
          DEF Contract!Init, rowStatus, rowPlaced, rowKnown, rowFilled
<1>2. OrderInv /\ [Next]_vars => [Contract!Next]_(Contract!contractVars)
  BY OrderInvNext DEF ContractStep
<1> QED BY <1>1, <1>2, OrderInvariance, PTL
        DEF Spec, ImplementsContract, Contract!Spec

\* A row never books more than was ordered.
THEOREM FilledWithin == Spec => []FilledWithinOrder
<1>1. OrderInv => FilledWithinOrder
  BY DEF OrderInv, RowsAreRegular, RowRegular, FilledWithinOrder
<1> QED BY <1>1, OrderInvariance, PTL

\* No step of any component takes a row out of a terminal status.
THEOREM TerminalStays == Spec => TerminalIsFinal
<1>1. OrderInv /\ [Next]_vars
         => [\A o \in Orders : orders[o].status \in Terminal
                => orders'[o].status = orders[o].status]_vars
  BY OrderInvNext DEF RowAdvances
<1> QED BY <1>1, OrderInvariance, PTL DEF Spec, TerminalIsFinal

-----------------------------------------------------------------------------
(***************************************************************************)
(* EventsAreTrue: the task that is about to publish a failure has itself   *)
(* written it, the task that is about to publish a placement has stored    *)
(* the handle, and neither can be taken back.                              *)
(***************************************************************************)
PublishersKnow ==
    \A p \in Pods, o \in Orders :
        /\ placePc[<<p, o>>] \in {"failed", "refailed"}
              => orders[o].status = "FAILED"
        /\ placePc[<<p, o>>] = "placed" => orders[o].handle # NoHandle

\* How a task gets to its publication.
LEMMA PublisherSteps ==
    ASSUME TypeOK, HandlesAreOwn, NEW p \in Pods, NEW o \in Orders,
           PlaceStep(p, o)
    PROVE  /\ placePc'[<<p, o>>] \in {"failed", "refailed"}
                 => orders'[o].status = "FAILED"
           /\ placePc'[<<p, o>>] = "placed" => orders'[o].handle # NoHandle
<1>t. /\ placePc \in [Tasks -> PlacePc] /\ <<p, o>> \in Tasks
      /\ orders \in [Orders -> Row]
  BY DEF TypeOK, ExecutorTypeOK, StoreTypeOK, Tasks
<1>1. CASE PlaceStore(p, o)
  <2>1. placeAck[<<p, o>>] # NoHandle
    BY <1>1 DEF PlaceStore, HandlesAreOwn, PlaceHandles
  <2>2. StatusIsExpected(o, {"SUBMITTING"})
           => orders'[o].handle = placeAck[<<p, o>>]
    BY <1>1, <1>t DEF PlaceStore, AcceptFromExpected, Row
  <2> QED BY <1>1, <1>t, <2>1, <2>2 DEF PlaceStore
<1>2. CASE PlaceFail(p, o)
  <2>1. StatusIsExpected(o, {"SUBMITTING"}) => orders'[o].status = "FAILED"
    BY <1>2, <1>t DEF PlaceFail, UpdateStatusFromExpected, FailureStatus,
       ErrorCode, Row
  <2> QED BY <1>2, <1>t, <2>1 DEF PlaceFail, FailEvent, FailExit
<1>3. CASE ~PlaceStore(p, o) /\ ~PlaceFail(p, o)
  <2>1. placePc'[<<p, o>>] \notin {"failed", "refailed", "placed"}
    BY <1>3, <1>t DEF PlaceStep, StartBatched, PlaceAcquire,
       PlaceLockTimeout, PlaceIncomplete, PlaceAccepted, PlaceAnswerLost,
       PlaceRefused, PlaceAttach, PlaceWriteFails, PlacePublish,
       PlaceFailLost, PlacePublishFailed, PlaceUnlock, PlaceRelease,
       PlaceErrs, FailExit
  <2> QED BY <2>1
<1> QED BY <1>1, <1>2, <1>3

\* Only those tasks publish.
LEMMA EventSteps ==
    ASSUME TypeOK, [Next]_vars, NEW o \in Orders
    PROVE  /\ "failed" \in events'[o] =>
                 \/ "failed" \in events[o]
                 \/ \E p \in Pods : placePc[<<p, o>>] \in {"failed", "refailed"}
           /\ "placed" \in events'[o] =>
                 \/ "placed" \in events[o]
                 \/ \E p \in Pods : placePc[<<p, o>>] = "placed"
<1>t. events \in [Orders -> SUBSET {"placed", "failed"}]
  BY DEF TypeOK, ExecutorTypeOK
<1>1. ASSUME NEW p \in Pods, NEW x \in Orders,
             PlacePublish(p, x) \/ PlacePublishFailed(p, x)
      PROVE  /\ "failed" \in events'[o] =>
                   \/ "failed" \in events[o]
                   \/ placePc[<<p, o>>] \in {"failed", "refailed"}
             /\ "placed" \in events'[o] =>
                   "placed" \in events[o] \/ placePc[<<p, o>>] = "placed"
  BY <1>1, <1>t DEF PlacePublish, PlacePublishFailed
<1>2. ASSUME NEW p \in Pods, NEW x \in Orders, PlaceStep(p, x),
             ~PlacePublish(p, x), ~PlacePublishFailed(p, x)
      PROVE  UNCHANGED events
  BY <1>2 DEF PlaceStep, StartBatched, PlaceAcquire, PlaceLockTimeout,
     PlaceIncomplete, PlaceAccepted, PlaceAnswerLost, PlaceRefused,
     PlaceStore, PlaceAttach, PlaceWriteFails, PlaceFail, PlaceFailLost,
     PlaceUnlock, PlaceRelease
<1>3. ASSUME NEW p \in Pods, NEW x \in Orders, CancelStep(p, x)
      PROVE  UNCHANGED events
  BY <1>3 DEF CancelStep, CancelStart, CancelPoll, CancelWaitExpires,
     CancelClose, CancelAcquire, CancelLockTimeout, CancelAccepted,
     CancelAnswerLost, CancelRefused, CancelStore, CancelStoreFails,
     CancelUnlock, CancelFail, CancelFailLost, CancelThrows, CancelRelease
<1>4. ASSUME \/ \E p \in Pods : \/ TickClaimRequested(p)
                                \/ TickClaimCancelling(p) \/ TickDone(p)
                                \/ ClaimLost(p) \/ PodCrash(p)
             \/ \E p \in Pods, x \in Orders : OrderCommand(p, x)
             \/ \E a \in Accounts : LockExpires(a)
      PROVE  UNCHANGED events
  BY <1>4 DEF TickClaimRequested, TickClaimCancelling, TickDone, ClaimLost,
     PodCrash, OrderCommand, LockExpires
<1> QED BY <1>1, <1>2, <1>3, <1>4 DEF Next, ExecutorNext, vars,
           executorVars, BeRequest, BeCancel, Trade

\* The notifier and the back end are told order.failed only about rows that
\* failed and order.placed only about rows that carry a broker handle.
THEOREM EventsTrue == Spec => []EventsAreTrue
<1>1. Init => PublishersKnow /\ EventsAreTrue
  BY DEF Init, ExecutorInit, PublishersKnow, EventsAreTrue, Tasks
<1>2. ASSUME OrderInv, PublishersKnow, EventsAreTrue, [Next]_vars
      PROVE  PublishersKnow' /\ EventsAreTrue'
  <2>0. TypeOK /\ HandlesAreOwn /\ \A x \in Orders : RowAdvances(x)
    BY <1>2, OrderInvNext DEF OrderInv, TypeInv
  <2>a. \A x \in Orders :
           /\ orders[x].status = "FAILED" => orders'[x].status = "FAILED"
           /\ orders[x].handle # NoHandle => orders'[x].handle # NoHandle
    BY <2>0 DEF RowAdvances, Terminal, ClosedStatus
  <2>1. PublishersKnow'
    <3> SUFFICES ASSUME NEW p \in Pods, NEW o \in Orders
                 PROVE  /\ placePc'[<<p, o>>] \in {"failed", "refailed"}
                              => orders'[o].status = "FAILED"
                        /\ placePc'[<<p, o>>] = "placed"
                              => orders'[o].handle # NoHandle
      BY DEF PublishersKnow
    <3>1. CASE PlaceStep(p, o)
      BY <2>0, <3>1, PublisherSteps
    <3>2. CASE placePc'[<<p, o>>] = placePc[<<p, o>>]
      BY <1>2, <2>a, <3>2 DEF PublishersKnow
    <3> QED BY <1>2, <2>0, <3>1, <3>2, PlaceTaskMoves
  <2>2. ASSUME NEW o \in Orders
        PROVE  /\ "failed" \in events'[o]
                     => orders'[o].status \in {"FAILED", "REJECTED"}
               /\ "placed" \in events'[o] => orders'[o].handle # NoHandle
    <3>1. orders[o].status = "REJECTED" => orders'[o].status = "REJECTED"
      BY <2>0 DEF RowAdvances, Terminal, ClosedStatus
    <3>2. /\ "failed" \in events'[o]
                => orders[o].status \in {"FAILED", "REJECTED"}
          /\ "placed" \in events'[o] => orders[o].handle # NoHandle
      BY <1>2, <2>0, EventSteps DEF EventsAreTrue, PublishersKnow
    <3> QED BY <2>a, <3>1, <3>2
  <2> QED BY <2>1, <2>2 DEF EventsAreTrue
<1> QED BY <1>1, <1>2, OrderInvariance, PTL DEF Spec

-----------------------------------------------------------------------------
(***************************************************************************)
(* ClaimsHaveTasks: a claim and its task appear in one step, and as long   *)
(* as nothing fails the task ends only after it has moved its row on.      *)
(***************************************************************************)
TasksSettle ==
    /\ \A p \in Pods, o \in Orders :
          cancelPc[<<p, o>>] # "none"
             => orders[o].status \in Terminal \union {"CANCEL_SUBMITTING"}
    /\ faults = 0 => \A p \in Pods, o \in Orders :
          /\ placePc[<<p, o>>] \in {"placed", "attaching", "failed",
                                    "refailed", "releasing", "leaving"}
                => orders[o].status \notin Early
          /\ cancelPc[<<p, o>>] = "releasing" => orders[o].status \in Terminal

\* The history variable counts.
LEMMA NextFaults ==
    ASSUME TypeOK, [Next]_vars
    PROVE  faults' \in {faults, faults + 1}
<1>1. ASSUME NEW p \in Pods, NEW o \in Orders, PlaceStep(p, o)
      PROVE  faults' \in {faults, faults + 1}
  BY <1>1 DEF PlaceStep, StartBatched, PlaceAcquire, PlaceLockTimeout,
     PlaceIncomplete, PlaceAccepted, PlaceAnswerLost, PlaceRefused,
     PlaceStore, PlaceAttach, PlaceWriteFails, PlacePublish, PlaceFail,
     PlaceFailLost, PlacePublishFailed, PlaceUnlock, PlaceRelease,
     LockWaitFails, Unlock, storeVars
<1>2. ASSUME NEW p \in Pods, NEW o \in Orders, CancelStep(p, o)
      PROVE  faults' \in {faults, faults + 1}
  BY <1>2 DEF CancelStep, CancelStart, CancelPoll, CancelWaitExpires,
     CancelClose, CancelAcquire, CancelLockTimeout, CancelAccepted,
     CancelAnswerLost, CancelRefused, CancelStore, CancelStoreFails,
     CancelUnlock, CancelFail, CancelFailLost, CancelThrows, CancelRelease,
     LockWaitFails, Unlock, storeVars
<1>3. ASSUME \/ \E p \in Pods : \/ TickClaimRequested(p)
                                \/ TickClaimCancelling(p) \/ TickDone(p)
                                \/ ClaimLost(p) \/ PodCrash(p)
             \/ \E p \in Pods, o \in Orders : OrderCommand(p, o)
             \/ \E a \in Accounts : LockExpires(a)
      PROVE  faults' \in {faults, faults + 1}
  BY <1>3 DEF TickClaimRequested, TickClaimCancelling, TickDone, ClaimLost,
     PodCrash, OrderCommand, LockExpires, storeVars
<1>4. CASE TrackerNext
  BY <1>4 DEF TrackerNext, IngestFill, IngestExecutionFill, RetryRead,
     RetryIngest, RetryMark, RetryAborts, storeVars
<1> QED BY <1>1, <1>2, <1>3, <1>4 DEF Next, ExecutorNext, vars, storeVars,
           BeRequest, BeCancel, Trade

\* No statement but a claim writes a claiming status.
LEMMA WritesClaimNothing ==
    ASSUME orders \in [Orders -> Row], NEW x \in Orders,
           NEW c \in {"SUBMITTING", "CANCEL_SUBMITTING"},
           orders[x].status # c
    PROVE  /\ \A o \in Orders : \A e : \A s \in {"FAILED", "CANCELLED"} :
                 UpdateStatusFromExpected(o, e, s)[x].status # c
           /\ \A o \in Orders : \A e, h :
                 /\ AcceptFromExpected(o, e, h)[x].status # c
                 /\ AttachBrokerOrderIdFromExpected(o, e, h)[x].status # c
           /\ \A o \in Orders : \A f : FillRow(o, f)[x].status # c
<1>1. \A o \in Orders : \A e : \A s \in {"FAILED", "CANCELLED"} :
         UpdateStatusFromExpected(o, e, s)[x].status # c
  BY DEF UpdateStatusFromExpected, Row
<1>2. \A o \in Orders : \A e, h : AcceptFromExpected(o, e, h)[x].status # c
  BY DEF AcceptFromExpected, Row
<1>3. \A o \in Orders : \A e, h :
         AttachBrokerOrderIdFromExpected(o, e, h)[x].status # c
  BY DEF AttachBrokerOrderIdFromExpected, Row
<1>4. \A o \in Orders : \A f : FillRow(o, f)[x].status # c
  <2>1. \A r : ResolveFillStatus(orders[x].status, r) # c
    BY DEF ResolveFillStatus
  <2> QED BY <2>1 DEF FillRow, Row
<1> QED BY <1>1, <1>2, <1>3, <1>4

\* A claim comes with its task, or with a fault.
ClaimStaffed(o) ==
    /\ orders'[o].status = "SUBMITTING" =>
          \/ orders[o].status = "SUBMITTING"
          \/ faults' = faults + 1
          \/ \E p \in Pods : placePc'[<<p, o>>] # "none"
    /\ orders'[o].status = "CANCEL_SUBMITTING" =>
          \/ orders[o].status = "CANCEL_SUBMITTING"
          \/ faults' = faults + 1
          \/ \E p \in Pods : cancelPc'[<<p, o>>] # "none"

LEMMA NewClaims ==
    ASSUME Assumptions, TypeOK, HandlesAreOwn, [Next]_vars, NEW o \in Orders
    PROVE  ClaimStaffed(o)
<1>t. /\ orders \in [Orders -> Row] /\ placePc \in [Tasks -> PlacePc]
      /\ \A q \in Pods, x \in Orders : /\ <<q, x>> \in Tasks
                                       /\ <<q, x>>[1] = q /\ <<q, x>>[2] = x
  BY DEF TypeOK, StoreTypeOK, ExecutorTypeOK, Tasks
<1>n. ASSUME \A c \in {"SUBMITTING", "CANCEL_SUBMITTING"} :
                orders[o].status # c => orders'[o].status # c
      PROVE  ClaimStaffed(o)
  BY <1>n DEF ClaimStaffed
<1>u. ASSUME UNCHANGED orders PROVE ClaimStaffed(o)
  BY <1>u DEF ClaimStaffed
<1>1. ASSUME NEW p \in Pods, NEW x \in Orders, PlaceStep(p, x)
      PROVE  ClaimStaffed(o)
  <2>1. \/ UNCHANGED orders
        \/ \E e, h : \/ orders' = AcceptFromExpected(x, e, h)
                     \/ orders' = AttachBrokerOrderIdFromExpected(x, e, h)
        \/ \E e : orders' = UpdateStatusFromExpected(x, e, "FAILED")
    BY <1>1 DEF PlaceStep, StartBatched, PlaceAcquire,
       PlaceLockTimeout, PlaceIncomplete, PlaceAccepted, PlaceAnswerLost,
       PlaceRefused, PlaceStore, PlaceAttach, PlaceWriteFails, PlacePublish,
       PlaceFail, PlaceFailLost, PlacePublishFailed, PlaceUnlock,
       PlaceRelease, storeVars, FailureStatus, ErrorCode
  <2> QED BY <1>n, <1>t, <1>u, <2>1, WritesClaimNothing
<1>2. ASSUME NEW p \in Pods, NEW x \in Orders, CancelStep(p, x)
      PROVE  ClaimStaffed(o)
  <2>1. \/ UNCHANGED orders
        \/ \E e : \/ orders' = UpdateStatusFromExpected(x, e, "CANCELLED")
                  \/ orders' = UpdateStatusFromExpected(x, e, "FAILED")
    BY <1>2 DEF CancelStep, CancelStart, CancelPoll, CancelWaitExpires,
       CancelClose, CancelAcquire, CancelLockTimeout, CancelAccepted,
       CancelAnswerLost, CancelRefused, CancelStore, CancelStoreFails,
       CancelUnlock, CancelFail, CancelFailLost, CancelThrows, CancelRelease,
       storeVars
  <2> QED BY <1>n, <1>t, <1>u, <2>1, WritesClaimNothing
<1>3. ASSUME NEW p \in Pods, NEW x \in Orders, OrderCommand(p, x)
      PROVE  ClaimStaffed(o)
  <2>1. x = o => placePc'[<<p, o>>] = "chained"
    BY <1>3, <1>t DEF OrderCommand
  <2>2. x # o => orders'[o] = orders[o]
    BY <1>3 DEF OrderCommand, ClaimRows
  <2>3. x = o => orders'[o].status = "SUBMITTING"
    BY <1>3, <1>t DEF OrderCommand, ClaimRows, Row
  <2> QED BY <2>1, <2>2, <2>3 DEF ClaimStaffed
<1>4. ASSUME NEW p \in Pods, TickClaimRequested(p)
      PROVE  ClaimStaffed(o)
  <2>1. PICK rows : /\ orders' = ClaimRows(rows, "SUBMITTING")
                    /\ placePc' = [t \in Tasks |->
                          IF t[1] = p /\ t[2] \in rows
                          THEN "batched" ELSE placePc[t]]
    BY <1>4 DEF TickClaimRequested
  <2>2. o \in rows => /\ placePc'[<<p, o>>] = "batched"
                      /\ orders'[o].status = "SUBMITTING"
    BY <1>t, <2>1 DEF ClaimRows, Row
  <2>3. o \notin rows => orders'[o] = orders[o]
    BY <2>1 DEF ClaimRows
  <2> QED BY <2>2, <2>3 DEF ClaimStaffed
<1>5. ASSUME NEW p \in Pods, TickClaimCancelling(p)
      PROVE  ClaimStaffed(o)
  <2>1. PICK rows : /\ orders' = ClaimRows(rows, "CANCEL_SUBMITTING")
                    /\ cancelPc' = [t \in Tasks |->
                          IF t[1] = p /\ t[2] \in rows
                          THEN "picked" ELSE cancelPc[t]]
    BY <1>5 DEF TickClaimCancelling
  <2>2. o \in rows => /\ cancelPc'[<<p, o>>] = "picked"
                      /\ orders'[o].status = "CANCEL_SUBMITTING"
    BY <1>t, <2>1 DEF ClaimRows, Row
  <2>3. o \notin rows => orders'[o] = orders[o]
    BY <2>1 DEF ClaimRows
  <2> QED BY <2>2, <2>3 DEF ClaimStaffed
<1>6. ASSUME \/ \E p \in Pods : TickDone(p) \/ ClaimLost(p) \/ PodCrash(p)
             \/ \E a \in Accounts : LockExpires(a)
      PROVE  ClaimStaffed(o)
  BY <1>6, <1>u DEF TickDone, ClaimLost, PodCrash, LockExpires, storeVars,
     ClaimStaffed
<1>i. ASSUME NEW f \in FillIds, NEW s, IngestExecutionFill(f, s)
      PROVE  ClaimStaffed(o)
  <2>1. CASE FillOutcome(f) = "inserted"
    <3>1. Executed(f) /\ orders' = FillRow(OrderForFill(f), f)
      BY <1>i, <2>1 DEF IngestExecutionFill
    <3>2. OrderForFill(f) \in Orders
      BY <2>1, <3>1, InsertedFill DEF TypeOK
    <3> QED BY <1>n, <1>t, <3>1, <3>2, WritesClaimNothing
  <2>2. CASE FillOutcome(f) # "inserted"
    BY <1>i, <1>u, <2>2 DEF IngestExecutionFill
  <2> QED BY <2>1, <2>2
<1>7. CASE TrackerNext
  <2>1. ASSUME NEW t \in Trackers, RetryIngest(t)
        PROVE  retry[t].fill \in FillIds
    BY <2>1 DEF RetryIngest, TypeOK, TrackerTypeOK, Retry, Idle
  <2> QED BY <1>7, <1>i, <1>u, <2>1 DEF TrackerNext, IngestFill, RetryRead,
             RetryIngest, RetryMark, RetryAborts, storeVars
<1>8. ASSUME NEW x \in Orders, BeRequest(x) \/ BeCancel(x)
      PROVE  ClaimStaffed(o)
  <2>1. \A c \in {"SUBMITTING", "CANCEL_SUBMITTING"} :
           orders[o].status # c => orders'[o].status # c
    BY <1>8, <1>t DEF BeRequest, BeCancel, Row
  <2> QED BY <1>n, <2>1
<1> QED
  BY <1>1, <1>2, <1>3, <1>4, <1>5, <1>6, <1>7, <1>8, <1>u
     DEF Next, ExecutorNext, vars, storeVars, Trade

\* Where a place task's own step leaves its row: past Early whenever the task
\* is past its writes, and it ends only from there.
LEMMA PlaceSettles ==
    ASSUME OrderInv, [Next]_vars, TasksSettle, faults = 0, faults' = 0,
           NEW p \in Pods, NEW o \in Orders, PlaceStep(p, o)
    PROVE  /\ placePc'[<<p, o>>] \in {"placed", "attaching", "failed",
                                      "refailed", "releasing", "leaving"}
                 => orders'[o].status \notin Early
           /\ placePc'[<<p, o>>] = "none" => orders[o].status \notin Early
<1> DEFINE Past == {"placed", "attaching", "failed", "refailed",
                    "releasing", "leaving"}
<1>t. /\ placePc \in [Tasks -> PlacePc] /\ <<p, o>> \in Tasks
      /\ orders \in [Orders -> Row]
  BY DEF OrderInv, TypeInv, TypeOK, ExecutorTypeOK, StoreTypeOK, Tasks
<1>a. orders[o].status \notin Early => orders'[o].status \notin Early
  BY OrderInvNext DEF RowAdvances
<1>p. placePc[<<p, o>>] \in Past => orders[o].status \notin Early
  BY DEF TasksSettle
<1>c. placePc[<<p, o>>] # "none" => orders[o].status \notin Unclaimed
  BY DEF OrderInv, ClaimIsExclusive, TaskHasClaim
<1>1. CASE PlaceStore(p, o)
  <2>1. CASE orders[o].status = "SUBMITTING"
    <3>1. orders'[o].status = "ACCEPTED"
      BY <1>1, <1>t, <2>1 DEF PlaceStore, AcceptFromExpected,
         StatusIsExpected, Row
    <3>2. placePc'[<<p, o>>] # "none"
      BY <1>1, <1>t DEF PlaceStore
    <3> QED BY <3>1, <3>2 DEF Early, Unclaimed
  <2>2. CASE orders[o].status # "SUBMITTING"
    BY <1>1, <1>a, <1>c, <2>2 DEF PlaceStore, Early
  <2> QED BY <2>1, <2>2
<1>2. CASE PlaceFail(p, o)
  <2>1. CASE orders[o].status = "SUBMITTING"
    <3>1. orders'[o].status = "FAILED"
      BY <1>2, <1>t, <2>1 DEF PlaceFail, UpdateStatusFromExpected,
         StatusIsExpected, FailureStatus, ErrorCode, Row
    <3>2. placePc'[<<p, o>>] # "none"
      BY <1>2, <1>t DEF PlaceFail, FailEvent, FailExit
    <3> QED BY <3>1, <3>2 DEF Early, Unclaimed
  <2>2. CASE orders[o].status # "SUBMITTING"
    BY <1>2, <1>a, <1>c, <2>2 DEF PlaceFail, Early
  <2> QED BY <2>1, <2>2
<1>3. CASE \/ PlaceAttach(p, o) \/ PlacePublish(p, o)
           \/ PlacePublishFailed(p, o) \/ PlaceRelease(p, o)
  <2>1. placePc[<<p, o>>] \in Past
    BY <1>3 DEF PlaceAttach, PlacePublish, PlacePublishFailed, PlaceRelease
  <2> QED BY <1>a, <1>p, <2>1
<1>4. CASE \/ PlaceWriteFails(p, o) \/ PlaceFailLost(p, o)
           \/ PlaceAnswerLost(p, o)
  BY <1>4 DEF PlaceWriteFails, PlaceFailLost, PlaceAnswerLost
<1>5. CASE \/ StartBatched(p, o) \/ PlaceAcquire(p, o)
           \/ PlaceLockTimeout(p, o) \/ PlaceIncomplete(p, o)
           \/ PlaceAccepted(p, o) \/ PlaceRefused(p, o) \/ PlaceUnlock(p, o)
  <2>1. placePc'[<<p, o>>] \notin Past \union {"none"}
    BY <1>5, <1>t DEF StartBatched, PlaceAcquire, PlaceLockTimeout,
       PlaceIncomplete, PlaceAccepted, PlaceRefused, PlaceUnlock, PlaceErrs
  <2> QED BY <2>1
<1> QED BY <1>1, <1>2, <1>3, <1>4, <1>5 DEF PlaceStep

\* The same for a cancel task.
LEMMA CancelSettles ==
    ASSUME OrderInv, [Next]_vars, TasksSettle, faults = 0, faults' = 0,
           NEW p \in Pods, NEW o \in Orders, CancelStep(p, o)
    PROVE  /\ cancelPc'[<<p, o>>] = "releasing"
                 => orders'[o].status \in Terminal
           /\ cancelPc'[<<p, o>>] = "none" => orders'[o].status \in Terminal
<1>t. /\ cancelPc \in [Tasks -> CancelPc] /\ <<p, o>> \in Tasks
      /\ orders \in [Orders -> Row]
  BY DEF OrderInv, TypeInv, TypeOK, ExecutorTypeOK, StoreTypeOK, Tasks
<1>a. orders[o].status \in Terminal => orders'[o].status \in Terminal
  BY OrderInvNext DEF RowAdvances
<1>c. cancelPc[<<p, o>>] # "none"
         => orders[o].status \in Terminal \union {"CANCEL_SUBMITTING"}
  BY DEF TasksSettle
<1>1. CASE CancelClose(p, o) \/ CancelStore(p, o) \/ CancelFail(p, o)
  <2>1. /\ cancelPc[<<p, o>>] # "none"
        /\ \E s \in {"CANCELLED", "FAILED"} :
              orders' = UpdateStatusFromExpected(o, {"CANCEL_SUBMITTING"}, s)
    BY <1>1 DEF CancelClose, CancelStore, CancelFail
  <2>2. CASE orders[o].status = "CANCEL_SUBMITTING"
    BY <1>t, <2>1, <2>2 DEF UpdateStatusFromExpected, StatusIsExpected, Row,
       Terminal, ClosedStatus
  <2>3. CASE orders[o].status \in Terminal
    BY <1>a, <2>3
  <2> QED BY <1>c, <2>1, <2>2, <2>3
<1>2. CASE CancelRelease(p, o)
  <2>1. orders[o].status \in Terminal
    BY <1>2 DEF CancelRelease, TasksSettle
  <2> QED BY <1>a, <2>1
<1>3. CASE \/ CancelAnswerLost(p, o) \/ CancelStoreFails(p, o)
           \/ CancelFailLost(p, o) \/ CancelThrows(p, o)
  BY <1>3 DEF CancelAnswerLost, CancelStoreFails, CancelFailLost, CancelThrows
<1>4. CASE \/ CancelStart(p, o) \/ CancelPoll(p, o)
           \/ CancelWaitExpires(p, o) \/ CancelAcquire(p, o)
           \/ CancelLockTimeout(p, o) \/ CancelAccepted(p, o)
           \/ CancelRefused(p, o) \/ CancelUnlock(p, o)
  <2>1. cancelPc'[<<p, o>>] \notin {"releasing", "none"}
    BY <1>4, <1>t DEF CancelStart, CancelPoll, CancelWaitExpires,
       CancelAcquire, CancelLockTimeout, CancelAccepted, CancelRefused,
       CancelUnlock
  <2> QED BY <2>1
<1> QED BY <1>1, <1>2, <1>3, <1>4 DEF CancelStep

LEMMA SettleNext ==
    ASSUME OrderInv, TasksSettle, ClaimsHaveTasks, [Next]_vars
    PROVE  TasksSettle' /\ ClaimsHaveTasks'
<1>0. Assumptions /\ TypeOK /\ HandlesAreOwn
  BY AssumptionsHold DEF OrderInv, TypeInv
<1>a. \A x \in Orders : RowAdvances(x)
  BY OrderInvNext
<1>f. faults' = 0 => faults = 0
  BY <1>0, NextFaults DEF TypeOK, StoreTypeOK, Assumptions
<1>g. faults = 0 => faults + 1 # 0
  OBVIOUS
<1>1. ASSUME NEW p \in Pods, NEW o \in Orders, cancelPc'[<<p, o>>] # "none"
      PROVE  orders'[o].status \in Terminal \union {"CANCEL_SUBMITTING"}
  <2>1. CASE cancelPc[<<p, o>>] # "none"
    <3>1. orders[o].status \in Terminal \union {"CANCEL_SUBMITTING"}
      BY <2>1 DEF TasksSettle
    <3> QED BY <1>a, <3>1 DEF RowAdvances
  <2>2. CASE cancelPc[<<p, o>>] = "none"
    <3>1. ~CancelStep(p, o)
      BY <2>2 DEF CancelStep, CancelStart, CancelPoll, CancelWaitExpires,
         CancelClose, CancelAcquire, CancelLockTimeout, CancelAccepted,
         CancelAnswerLost, CancelRefused, CancelStore, CancelStoreFails,
         CancelUnlock, CancelFail, CancelFailLost, CancelThrows, CancelRelease
    <3> QED BY <1>0, <1>1, <2>2, <3>1, CancelTaskMoves
  <2> QED BY <2>1, <2>2
<1>2. ASSUME faults' = 0, NEW p \in Pods, NEW o \in Orders,
             placePc'[<<p, o>>] \in {"placed", "attaching", "failed",
                                     "refailed", "releasing", "leaving"}
      PROVE  orders'[o].status \notin Early
  <2>1. CASE PlaceStep(p, o)
    BY <1>2, <1>f, <2>1, PlaceSettles
  <2>2. CASE placePc'[<<p, o>>] = placePc[<<p, o>>]
    BY <1>2, <1>a, <1>f, <2>2 DEF TasksSettle, RowAdvances
  <2> QED BY <1>0, <1>2, <2>1, <2>2, PlaceTaskMoves
<1>3. ASSUME faults' = 0, NEW p \in Pods, NEW o \in Orders,
             cancelPc'[<<p, o>>] = "releasing"
      PROVE  orders'[o].status \in Terminal
  <2>1. CASE CancelStep(p, o)
    BY <1>3, <1>f, <2>1, CancelSettles
  <2>2. CASE cancelPc'[<<p, o>>] = cancelPc[<<p, o>>]
    BY <1>3, <1>a, <1>f, <2>2 DEF TasksSettle, RowAdvances
  <2> QED BY <1>0, <1>3, <2>1, <2>2, CancelTaskMoves
<1>4. TasksSettle'
  BY <1>1, <1>2, <1>3 DEF TasksSettle
<1>5. ASSUME faults' = 0, NEW o \in Orders,
             orders'[o].status = "SUBMITTING"
      PROVE  \E p \in Pods : placePc'[<<p, o>>] # "none"
  <2>1. CASE orders[o].status = "SUBMITTING"
    <3>1. PICK p \in Pods : placePc[<<p, o>>] # "none"
      BY <1>5, <1>f, <2>1 DEF ClaimsHaveTasks
    <3>2. CASE PlaceStep(p, o)
      BY <1>5, <1>f, <2>1, <3>2, PlaceSettles DEF Early
    <3> QED BY <1>0, <1>5, <1>f, <1>g, <3>1, <3>2, PlaceTaskMoves
  <2>2. CASE orders[o].status # "SUBMITTING"
    BY <1>0, <1>5, <1>f, <1>g, <2>2, NewClaims DEF ClaimStaffed
  <2> QED BY <2>1, <2>2
<1>6. ASSUME faults' = 0, NEW o \in Orders,
             orders'[o].status = "CANCEL_SUBMITTING"
      PROVE  \E p \in Pods : cancelPc'[<<p, o>>] # "none"
  <2>1. CASE orders[o].status = "CANCEL_SUBMITTING"
    <3>1. PICK p \in Pods : cancelPc[<<p, o>>] # "none"
      BY <1>6, <1>f, <2>1 DEF ClaimsHaveTasks
    <3>2. CASE CancelStep(p, o)
      BY <1>6, <1>f, <3>2, CancelSettles DEF Terminal, ClosedStatus
    <3> QED BY <1>0, <1>6, <1>f, <1>g, <3>1, <3>2, CancelTaskMoves
  <2>2. CASE orders[o].status # "CANCEL_SUBMITTING"
    BY <1>0, <1>6, <1>f, <1>g, <2>2, NewClaims DEF ClaimStaffed
  <2> QED BY <2>1, <2>2
<1> QED BY <1>4, <1>5, <1>6 DEF ClaimsHaveTasks

\* A claimed row has a task working on it, unless a fault took the task away:
\* no early return of either use case leaves an orphan.
THEOREM ClaimsStaffed == Spec => []ClaimsHaveTasks
<1>1. Init => TasksSettle /\ ClaimsHaveTasks
  BY DEF Init, StoreInit, ExecutorInit, TasksSettle, ClaimsHaveTasks, Tasks
<1>2. OrderInv /\ TasksSettle /\ ClaimsHaveTasks /\ [Next]_vars
         => TasksSettle' /\ ClaimsHaveTasks'
  BY SettleNext
<1> QED BY <1>1, <1>2, OrderInvariance, PTL DEF Spec

-----------------------------------------------------------------------------
(***************************************************************************)
(* BrokerOrdersKnown: a cancellation closes a row without a handle only    *)
(* when the row's REST call is a late one, so a place task that cannot     *)
(* attach its handle any more brought a late order back.                   *)
(***************************************************************************)
InFlight == {"calling", "acked", "attaching"}
HasHandle == {"chained", "calling", "acked", "releasing", "erring", "failing",
              "retrying"}

\* A cancel task past its wait has a handle, and so has its row.
CancellersKnow ==
    \A p \in Pods, o \in Orders :
        /\ cancelPc[<<p, o>>] \in HasHandle
              => cancelHandle[<<p, o>>] # NoHandle
        /\ cancelHandle[<<p, o>>] # NoHandle => orders[o].handle # NoHandle

\* The broker's order is late if its call was.
AnswersAreLate ==
    \A p \in Pods, o \in Orders :
        placePc[<<p, o>>] \in {"acked", "attaching"}
            => broker[placeAck[<<p, o>>]].late = placeLate[<<p, o>>]

\* A row that is closed, or about to be, while its placement is in flight and
\* its handle unknown, was cancelled before the call began.
ClosersAreEarly ==
    faults = 0 => \A p \in Pods, o \in Orders :
        placePc[<<p, o>>] \in InFlight /\ orders[o].handle = NoHandle =>
            /\ orders[o].status \in Terminal => placeLate[<<p, o>>]
            /\ \A q \in Pods : cancelPc[<<q, o>>] = "closing"
                                  => placeLate[<<p, o>>]

\* An order stays as late as it was, and a new one is a task's.
LEMMA BrokerMoves ==
    ASSUME Assumptions, TypeOK, HandlesAreOwn, [Next]_vars
    PROVE  /\ \A k \in DOMAIN broker : broker'[k].late = broker[k].late
           /\ \/ DOMAIN broker' = DOMAIN broker
              \/ faults' = faults + 1
              \/ \E p \in Pods, o \in Orders : PlaceAccepted(p, o)
<1> DEFINE LateKept ==
             \A k \in DOMAIN broker : broker'[k].late = broker[k].late
<1>t. broker \in Seq(BrokerOrder)
  BY DEF TypeOK, StoreTypeOK
<1>u. ASSUME UNCHANGED broker
      PROVE  LateKept /\ DOMAIN broker' = DOMAIN broker
  BY <1>u
<1>x. ASSUME NEW h \in DOMAIN broker, NEW b,
             broker' = [broker EXCEPT ![h] = b], b.late = broker[h].late
      PROVE  LateKept /\ DOMAIN broker' = DOMAIN broker
  BY <1>x, <1>t
<1>1. ASSUME NEW p \in Pods, NEW o \in Orders,
             PlaceAccepted(p, o) \/ PlaceAnswerLost(p, o)
      PROVE  LateKept
  <2>1. BrokerAccepts(o, placeLate[<<p, o>>])
    BY <1>1 DEF PlaceAccepted, PlaceAnswerLost
  <2> QED BY <1>t, <2>1, AcceptAppends
<1>2. ASSUME NEW p \in Pods, NEW o \in Orders, PlaceStep(p, o)
      PROVE  /\ LateKept
             /\ \/ DOMAIN broker' = DOMAIN broker
                \/ faults' = faults + 1
                \/ PlaceAccepted(p, o)
  <2>1. \/ UNCHANGED broker \/ PlaceAccepted(p, o)
        \/ PlaceAnswerLost(p, o) /\ faults' = faults + 1
    BY <1>2 DEF PlaceStep, StartBatched, PlaceAcquire, PlaceLockTimeout,
       PlaceIncomplete, PlaceAnswerLost, PlaceRefused, PlaceStore,
       PlaceAttach, PlaceWriteFails, PlacePublish, PlaceFail, PlaceFailLost,
       PlacePublishFailed, PlaceUnlock, PlaceRelease, storeVars
  <2> QED BY <1>1, <1>u, <2>1
<1>3. ASSUME NEW p \in Pods, NEW o \in Orders, CancelStep(p, o)
      PROVE  LateKept /\ DOMAIN broker' = DOMAIN broker
  <2>1. \/ UNCHANGED broker
        \/ /\ cancelPc[<<p, o>>] = "calling"
           /\ BrokerCancels(cancelHandle[<<p, o>>])
    BY <1>3 DEF CancelStep, CancelStart, CancelPoll, CancelWaitExpires,
       CancelClose, CancelAcquire, CancelLockTimeout, CancelAccepted,
       CancelAnswerLost, CancelRefused, CancelStore, CancelStoreFails,
       CancelUnlock, CancelFail, CancelFailLost, CancelThrows, CancelRelease,
       storeVars
  <2>2. ASSUME cancelPc[<<p, o>>] = "calling",
               BrokerCancels(cancelHandle[<<p, o>>])
        PROVE  LateKept /\ DOMAIN broker' = DOMAIN broker
    <3>1. PICK h : h = cancelHandle[<<p, o>>]
      OBVIOUS
    <3>2. h \in DOMAIN broker
      BY <2>2, <3>1 DEF HandlesAreOwn, CancelHandles, HoldsFor
    <3>3. broker[h] \in BrokerOrder
      BY <1>t, <3>2
    <3>4. [broker[h] EXCEPT !.open = 0].late = broker[h].late
      BY <3>3 DEF BrokerOrder
    <3>5. broker' = [broker EXCEPT ![h] = [broker[h] EXCEPT !.open = 0]]
      BY <2>2, <3>1 DEF BrokerCancels
    <3> QED BY <1>x, <3>2, <3>4, <3>5
  <2> QED BY <1>u, <2>1, <2>2
<1>4. ASSUME NEW h \in DOMAIN broker, NEW q, Trade(h, q)
      PROVE  LateKept /\ DOMAIN broker' = DOMAIN broker
  <2>1. PICK m : BrokerExecutes(h, q, m)
    BY <1>4 DEF Trade
  <2> DEFINE b == [broker[h] EXCEPT
                      !.open = broker[h].open - q,
                      !.fills = Append(broker[h].fills,
                                       [qty |-> q, malformed |-> m])]
  <2>2. broker[h] \in BrokerOrder
    BY <1>t
  <2>3. b.late = broker[h].late
    BY <2>2 DEF BrokerOrder
  <2>4. broker' = [broker EXCEPT ![h] = b]
    BY <2>1 DEF BrokerExecutes
  <2> HIDE DEF b
  <2> QED BY <1>x, <2>3, <2>4
<1>5. ASSUME \/ \E p \in Pods : \/ TickClaimRequested(p)
                                \/ TickClaimCancelling(p) \/ TickDone(p)
                                \/ ClaimLost(p) \/ PodCrash(p)
             \/ \E p \in Pods, o \in Orders : OrderCommand(p, o)
             \/ \E a \in Accounts : LockExpires(a)
             \/ TrackerNext
             \/ \E o \in Orders : BeRequest(o) \/ BeCancel(o)
      PROVE  UNCHANGED broker
  BY <1>5 DEF TickClaimRequested, TickClaimCancelling, TickDone, ClaimLost,
     PodCrash, OrderCommand, LockExpires, storeVars, TrackerNext, IngestFill,
     IngestExecutionFill, RetryRead, RetryIngest, RetryMark, RetryAborts,
     BeRequest, BeCancel
<1> HIDE DEF LateKept
<1>6. LateKept /\ \/ DOMAIN broker' = DOMAIN broker
                  \/ faults' = faults + 1
                  \/ \E p \in Pods, o \in Orders : PlaceAccepted(p, o)
  BY <1>2, <1>3, <1>4, <1>5, <1>u DEF Next, ExecutorNext, vars, storeVars
<1> QED BY <1>6 DEF LateKept

\* A row is closed by its place task's failure, by a cancel task that has a
\* handle, by one that closes it without, or by a fill of a known order.
LEMMA NewlyTerminal ==
    ASSUME OrderInv, [Next]_vars, NEW o \in Orders,
           orders[o].status \notin Terminal, orders'[o].status \in Terminal
    PROVE  \/ orders[o].handle # NoHandle
           \/ \E p \in Pods : \/ placePc[<<p, o>>] \in {"failing", "refailing"}
                              \/ cancelPc[<<p, o>>] \in HasHandle
                              \/ cancelPc[<<p, o>>] = "closing"
<1>0. /\ Assumptions /\ TypeOK /\ HandlesAreOwn
      /\ orders \in [Orders -> Row]
  BY AssumptionsHold DEF OrderInv, TypeInv, TypeOK, StoreTypeOK
<1>s. orders'[o].status # orders[o].status
  OBVIOUS
<1>1. ASSUME NEW p \in Pods, NEW x \in Orders, PlaceStep(p, x)
      PROVE  placePc[<<p, o>>] \in {"failing", "refailing"}
  <2>1. \/ UNCHANGED orders
        \/ \E h : orders' = AcceptFromExpected(x, {"SUBMITTING"}, h)
        \/ \E h : orders' = AttachBrokerOrderIdFromExpected(x, Attachable, h)
        \/ /\ placePc[<<p, x>>] \in {"failing", "refailing"}
           /\ orders' = UpdateStatusFromExpected(x, {"SUBMITTING"}, "FAILED")
    BY <1>1 DEF PlaceStep, StartBatched, PlaceAcquire, PlaceLockTimeout,
       PlaceIncomplete, PlaceAccepted, PlaceAnswerLost, PlaceRefused,
       PlaceStore, PlaceAttach, PlaceWriteFails, PlacePublish, PlaceFail,
       PlaceFailLost, PlacePublishFailed, PlaceUnlock, PlaceRelease,
       storeVars, FailureStatus, ErrorCode
  <2>2. \A h : AcceptFromExpected(x, {"SUBMITTING"}, h)[o].status
                  \in {orders[o].status, "ACCEPTED"}
    BY <1>0 DEF AcceptFromExpected, Row
  <2>3. \A h : AttachBrokerOrderIdFromExpected(x, Attachable, h)[o].status
                  = orders[o].status
    BY <1>0 DEF AttachBrokerOrderIdFromExpected, Row
  <2>4. x # o => UpdateStatusFromExpected(x, {"SUBMITTING"}, "FAILED")[o]
                    = orders[o]
    BY <1>0 DEF UpdateStatusFromExpected
  <2> QED BY <1>s, <2>1, <2>2, <2>3, <2>4 DEF Terminal, ClosedStatus
<1>2. ASSUME NEW p \in Pods, NEW x \in Orders, CancelStep(p, x)
      PROVE  cancelPc[<<p, o>>] \in HasHandle \union {"closing"}
  <2>1. \/ UNCHANGED orders
        \/ /\ cancelPc[<<p, x>>] \in HasHandle \union {"closing"}
           /\ \E s : orders' = UpdateStatusFromExpected(
                                  x, {"CANCEL_SUBMITTING"}, s)
    BY <1>2 DEF CancelStep, CancelStart, CancelPoll, CancelWaitExpires,
       CancelClose, CancelAcquire, CancelLockTimeout, CancelAccepted,
       CancelAnswerLost, CancelRefused, CancelStore, CancelStoreFails,
       CancelUnlock, CancelFail, CancelFailLost, CancelThrows, CancelRelease,
       storeVars, HasHandle
  <2>2. x # o => \A s : UpdateStatusFromExpected(
                           x, {"CANCEL_SUBMITTING"}, s)[o] = orders[o]
    BY <1>0 DEF UpdateStatusFromExpected
  <2> QED BY <1>s, <2>1, <2>2
<1>3. ASSUME \/ \E p \in Pods : \/ TickClaimRequested(p)
                                \/ TickClaimCancelling(p) \/ TickDone(p)
                                \/ ClaimLost(p) \/ PodCrash(p)
             \/ \E p \in Pods, x \in Orders : OrderCommand(p, x)
             \/ \E a \in Accounts : LockExpires(a)
      PROVE  FALSE
  <2>1. \/ UNCHANGED orders
        \/ \E rows : \/ orders' = ClaimRows(rows, "SUBMITTING")
                     \/ orders' = ClaimRows(rows, "CANCEL_SUBMITTING")
    BY <1>3 DEF TickClaimRequested, TickClaimCancelling, TickDone, ClaimLost,
       PodCrash, OrderCommand, LockExpires, storeVars
  <2> QED BY <1>0, <1>s, <2>1 DEF ClaimRows, Row, Terminal, ClosedStatus
<1>i. ASSUME NEW f \in FillIds, NEW s, IngestExecutionFill(f, s)
      PROVE  orders[o].handle # NoHandle
  <2>1. Executed(f) /\ FillOutcome(f) = "inserted"
    BY <1>i, <1>s DEF IngestExecutionFill
  <2>2. orders' = FillRow(OrderForFill(f), f)
    BY <1>i, <2>1 DEF IngestExecutionFill
  <2>3. /\ OrderForFill(f) \in Orders
        /\ orders[OrderForFill(f)].handle # NoHandle
    BY <1>0, <2>1, InsertedFill DEF TypeOK
  <2>4. OrderForFill(f) # o => orders'[o] = orders[o]
    BY <1>0, <2>2, <2>3 DEF FillRow
  <2> QED BY <1>s, <2>3, <2>4
<1>4. CASE TrackerNext
  <2>1. ASSUME NEW t \in Trackers, RetryIngest(t)
        PROVE  retry[t].fill \in FillIds
    BY <1>0, <2>1 DEF RetryIngest, TypeOK, TrackerTypeOK, Retry, Idle
  <2> QED BY <1>4, <1>i, <1>s, <2>1 DEF TrackerNext, IngestFill, RetryRead,
             RetryIngest, RetryMark, RetryAborts, storeVars
<1>5. ASSUME NEW x \in Orders, BeRequest(x) \/ BeCancel(x)
      PROVE  FALSE
  BY <1>0, <1>5, <1>s DEF BeRequest, BeCancel, Row, Terminal, ClosedStatus
<1> QED BY <1>1, <1>2, <1>3, <1>4, <1>5, <1>s
        DEF Next, ExecutorNext, vars, storeVars, Trade

\* CancellersKnow is inductive.
LEMMA CancellersNext ==
    ASSUME OrderInv, CancellersKnow, [Next]_vars
    PROVE  CancellersKnow'
<1>0. TypeOK /\ \A x \in Orders : RowAdvances(x)
  BY OrderInvNext DEF OrderInv, TypeInv
<1> SUFFICES ASSUME NEW p \in Pods, NEW o \in Orders
             PROVE  /\ cancelPc'[<<p, o>>] \in HasHandle
                          => cancelHandle'[<<p, o>>] # NoHandle
                    /\ cancelHandle'[<<p, o>>] # NoHandle
                          => orders'[o].handle # NoHandle
  BY DEF CancellersKnow
<1>a. orders[o].handle # NoHandle => orders'[o].handle # NoHandle
  BY <1>0 DEF RowAdvances
<1>t. /\ <<p, o>> \in Tasks /\ cancelPc \in [Tasks -> CancelPc]
      /\ cancelHandle \in [Tasks -> Handles \union {NoHandle}]
  BY <1>0 DEF TypeOK, ExecutorTypeOK, Tasks
<1>k. /\ cancelPc[<<p, o>>] \in HasHandle => cancelHandle[<<p, o>>] # NoHandle
      /\ cancelHandle[<<p, o>>] # NoHandle => orders[o].handle # NoHandle
  BY DEF CancellersKnow
<1>1. CASE CancelStart(p, o)
  BY <1>1, <1>a, <1>k, <1>t DEF CancelStart, HasHandle
<1>2. CASE CancelPoll(p, o)
  BY <1>2, <1>a, <1>k, <1>t DEF CancelPoll, HasHandle
<1>3. CASE CancelWaitExpires(p, o)
  BY <1>3, <1>a, <1>k, <1>t DEF CancelWaitExpires, HasHandle
<1>4. CASE \/ CancelClose(p, o) \/ CancelFail(p, o) \/ CancelThrows(p, o)
           \/ CancelRelease(p, o)
  <2>1. cancelPc'[<<p, o>>] = "none" /\ cancelHandle'[<<p, o>>] = NoHandle
    BY <1>4, <1>t DEF CancelClose, CancelFail, CancelThrows, CancelRelease,
       CancelDone
  <2> QED BY <2>1 DEF HasHandle
<1>5. CASE CancelFailLost(p, o)
  <2>1. \/ cancelPc'[<<p, o>>] = "none" /\ cancelHandle'[<<p, o>>] = NoHandle
        \/ cancelPc[<<p, o>>] \in HasHandle /\ UNCHANGED cancelHandle
    BY <1>5, <1>t DEF CancelFailLost, CancelDone, HasHandle
  <2> QED BY <1>a, <1>k, <2>1 DEF HasHandle
<1>6. CASE \/ CancelAcquire(p, o) \/ CancelLockTimeout(p, o)
           \/ CancelAccepted(p, o) \/ CancelAnswerLost(p, o)
           \/ CancelRefused(p, o) \/ CancelStore(p, o)
           \/ CancelStoreFails(p, o) \/ CancelUnlock(p, o)
  <2>1. cancelPc[<<p, o>>] \in HasHandle /\ UNCHANGED cancelHandle
    BY <1>6 DEF CancelAcquire, CancelLockTimeout, CancelAccepted,
       CancelAnswerLost, CancelRefused, CancelStore, CancelStoreFails,
       CancelUnlock, HasHandle
  <2> QED BY <1>a, <1>k, <2>1
<1>7. CASE CancelStep(p, o)
  BY <1>1, <1>2, <1>3, <1>4, <1>5, <1>6, <1>7 DEF CancelStep
<1> QED BY <1>0, <1>7, <1>a, <1>k, CancelTaskMoves DEF HasHandle

\* So is AnswersAreLate.
LEMMA AnswersNext ==
    ASSUME OrderInv, AnswersAreLate, [Next]_vars
    PROVE  AnswersAreLate'
<1>0. Assumptions /\ TypeOK /\ HandlesAreOwn
  BY AssumptionsHold DEF OrderInv, TypeInv
<1> SUFFICES ASSUME NEW p \in Pods, NEW o \in Orders,
                    placePc'[<<p, o>>] \in {"acked", "attaching"}
             PROVE  broker'[placeAck'[<<p, o>>]].late = placeLate'[<<p, o>>]
  BY DEF AnswersAreLate
<1>t. /\ <<p, o>> \in Tasks /\ placePc \in [Tasks -> PlacePc]
      /\ placeAck \in [Tasks -> Handles \union {NoHandle}]
      /\ broker \in Seq(BrokerOrder)
  BY <1>0 DEF TypeOK, ExecutorTypeOK, StoreTypeOK, Tasks
<1>1. CASE /\ placePc[<<p, o>>] \in {"acked", "attaching"}
           /\ placeAck'[<<p, o>>] = placeAck[<<p, o>>]
           /\ placeLate'[<<p, o>>] = placeLate[<<p, o>>]
  <2>1. placeAck[<<p, o>>] \in DOMAIN broker
    BY <1>0, <1>1 DEF HandlesAreOwn, PlaceHandles, HoldsFor
  <2> QED BY <1>0, <1>1, <2>1, BrokerMoves DEF AnswersAreLate
<1>2. CASE PlaceAccepted(p, o)
  <2>1. broker' = Append(broker, [order |-> o, open |-> Quantity[o],
                                  fills |-> << >>,
                                  late |-> placeLate[<<p, o>>]])
    BY <1>2 DEF PlaceAccepted, BrokerAccepts
  <2>2. broker'[Len(broker) + 1].late = placeLate[<<p, o>>]
    BY <1>t, <2>1
  <2> QED BY <1>2, <1>t, <2>2 DEF PlaceAccepted
<1>3. CASE PlaceStep(p, o) /\ ~PlaceAccepted(p, o)
  <2>1. PlaceStore(p, o)
    BY <1>3, <1>t DEF PlaceStep, StartBatched, PlaceAcquire,
       PlaceLockTimeout, PlaceIncomplete, PlaceAnswerLost, PlaceRefused,
       PlaceAttach, PlaceWriteFails, PlacePublish, PlaceFail, PlaceFailLost,
       PlacePublishFailed, PlaceUnlock, PlaceRelease, PlaceErrs, FailEvent,
       FailExit
  <2> QED BY <1>1, <2>1 DEF PlaceStore
<1> QED BY <1>0, <1>1, <1>2, <1>3, PlaceTaskMoves

\* Entering the call, the call's answer and the first write that finds the
\* row moved leave the table and the cancel tasks alone.
LEMMA InFlightSteps ==
    ASSUME TypeOK, NEW p \in Pods, NEW o \in Orders, PlaceStep(p, o),
           placePc'[<<p, o>>] \in InFlight, orders'[o].handle = NoHandle,
           HandlesAreOwn
    PROVE  /\ UNCHANGED <<orders, cancelPc>>
           /\ \/ placeLate'[<<p, o>>] = ~StatusIsExpected(o, CancelNotClaimed)
              \/ /\ placePc[<<p, o>>] \in InFlight
                 /\ placeLate'[<<p, o>>] = placeLate[<<p, o>>]
<1>t. /\ <<p, o>> \in Tasks /\ placePc \in [Tasks -> PlacePc]
      /\ placeLate \in [Tasks -> BOOLEAN] /\ orders \in [Orders -> Row]
  BY DEF TypeOK, ExecutorTypeOK, StoreTypeOK, Tasks
<1>1. PlaceAcquire(p, o) \/ PlaceAccepted(p, o) \/ PlaceStore(p, o)
  BY <1>t DEF PlaceStep, StartBatched, PlaceLockTimeout, PlaceIncomplete,
     PlaceAnswerLost, PlaceRefused, PlaceAttach, PlaceWriteFails,
     PlacePublish, PlaceFail, PlaceFailLost, PlacePublishFailed, PlaceUnlock,
     PlaceRelease, PlaceErrs, FailEvent, FailExit, InFlight
<1>2. CASE PlaceAcquire(p, o)
  BY <1>2, <1>t DEF PlaceAcquire, storeVars, cancelVars
<1>3. CASE PlaceAccepted(p, o)
  BY <1>3 DEF PlaceAccepted, cancelVars, InFlight
<1>4. CASE PlaceStore(p, o)
  <2>1. ~StatusIsExpected(o, {"SUBMITTING"})
    BY <1>4, <1>t DEF PlaceStore, InFlight
  <2> QED BY <1>4, <2>1 DEF PlaceStore, AcceptFromExpected, cancelVars,
             InFlight
<1> QED BY <1>1, <1>2, <1>3, <1>4

\* And so is ClosersAreEarly.
LEMMA ClosersNext ==
    ASSUME OrderInv, TasksSettle, CancellersKnow, ClosersAreEarly,
           [Next]_vars
    PROVE  ClosersAreEarly'
<1>0. Assumptions /\ TypeOK /\ HandlesAreOwn
  BY AssumptionsHold DEF OrderInv, TypeInv
<1> SUFFICES ASSUME faults' = 0, NEW p \in Pods, NEW o \in Orders,
                    placePc'[<<p, o>>] \in InFlight,
                    orders'[o].handle = NoHandle
             PROVE  /\ orders'[o].status \in Terminal => placeLate'[<<p, o>>]
                    /\ \A q \in Pods : cancelPc'[<<q, o>>] = "closing"
                                          => placeLate'[<<p, o>>]
  BY DEF ClosersAreEarly
<1>f. faults = 0
  BY <1>0, NextFaults DEF TypeOK, StoreTypeOK, Assumptions
<1>h. orders[o].handle = NoHandle
  BY OrderInvNext DEF RowAdvances
<1>c. \A q \in Pods : cancelPc[<<q, o>>] # "none"
         => orders[o].status \in Terminal \union {"CANCEL_SUBMITTING"}
  BY DEF TasksSettle
<1>1. CASE PlaceStep(p, o)
  <2>1. /\ UNCHANGED <<orders, cancelPc>>
        /\ \/ placeLate'[<<p, o>>] = ~StatusIsExpected(o, CancelNotClaimed)
           \/ /\ placePc[<<p, o>>] \in InFlight
              /\ placeLate'[<<p, o>>] = placeLate[<<p, o>>]
    BY <1>0, <1>1, InFlightSteps
  <2>2. CASE placeLate'[<<p, o>>] = ~StatusIsExpected(o, CancelNotClaimed)
    BY <1>c, <2>1, <2>2 DEF StatusIsExpected, CancelNotClaimed, Terminal,
       ClosedStatus
  <2>3. CASE /\ placePc[<<p, o>>] \in InFlight
             /\ placeLate'[<<p, o>>] = placeLate[<<p, o>>]
    BY <1>f, <1>h, <2>1, <2>3 DEF ClosersAreEarly
  <2> QED BY <2>1, <2>2, <2>3
<1>2. CASE /\ placePc'[<<p, o>>] = placePc[<<p, o>>]
           /\ placeLate'[<<p, o>>] = placeLate[<<p, o>>]
  <2>k. /\ orders[o].status \in Terminal => placeLate[<<p, o>>]
        /\ \A q \in Pods : cancelPc[<<q, o>>] = "closing"
                              => placeLate[<<p, o>>]
    BY <1>2, <1>f, <1>h DEF ClosersAreEarly
  <2>1. ASSUME orders'[o].status \in Terminal,
               orders[o].status \notin Terminal
        PROVE  placeLate[<<p, o>>]
    <3>1. \A q \in Pods : /\ placePc[<<q, o>>] \notin {"failing", "refailing"}
                          /\ cancelPc[<<q, o>>] \notin HasHandle
      <4>1. \A q \in Pods : placePc[<<q, o>>] # "none" => p = q
        BY <1>2 DEF OrderInv, ClaimIsExclusive, OneTask, InFlight
      <4> QED BY <1>2, <1>h, <4>1 DEF CancellersKnow, InFlight
    <3> QED BY <1>h, <2>1, <2>k, <3>1, NewlyTerminal
  <2>2. ASSUME NEW q \in Pods, cancelPc'[<<q, o>>] = "closing",
               cancelPc[<<q, o>>] # "closing"
        PROVE  placeLate[<<p, o>>]
    <3>t. /\ <<q, o>> \in Tasks /\ cancelPc \in [Tasks -> CancelPc]
      BY <1>0 DEF TypeOK, ExecutorTypeOK, Tasks
    <3>1. CancelStep(q, o)
      BY <1>0, <2>2, CancelTaskMoves
    <3>2. CancelPoll(q, o) \/ CancelWaitExpires(q, o)
      BY <2>2, <3>1, <3>t DEF CancelStep, CancelStart, CancelClose,
         CancelAcquire, CancelLockTimeout, CancelAccepted, CancelAnswerLost,
         CancelRefused, CancelStore, CancelStoreFails, CancelUnlock,
         CancelFail, CancelFailLost, CancelThrows, CancelRelease, CancelDone
    <3>3. CASE CancelPoll(q, o)
      <4>1. /\ cancelPc[<<q, o>>] # "none"
            /\ orders[o].status # "CANCEL_SUBMITTING"
        BY <1>h, <3>3 DEF CancelPoll
      <4> QED BY <1>c, <2>k, <4>1
    <3>4. CASE CancelWaitExpires(q, o)
      BY <1>2, <3>4 DEF CancelWaitExpires, InFlight
    <3> QED BY <3>2, <3>3, <3>4
  <2> QED BY <1>2, <2>1, <2>2, <2>k
<1> QED BY <1>0, <1>1, <1>2, PlaceTaskMoves DEF InFlight

\* Every step keeps the broker's orders known.
LEMMA KnownNext ==
    ASSUME OrderInv, AnswersAreLate, ClosersAreEarly, BrokerOrdersKnown,
           [Next]_vars
    PROVE  BrokerOrdersKnown'
<1>0. /\ Assumptions /\ TypeOK /\ HandlesAreOwn /\ OrderInv' /\ BrokerKept
      /\ \A x \in Orders : RowAdvances(x)
  BY AssumptionsHold, OrderInvNext DEF OrderInv, TypeInv
<1>t. /\ broker \in Seq(BrokerOrder) /\ orders \in [Orders -> Row]
      /\ placePc \in [Tasks -> PlacePc]
      /\ \A p \in Pods, o \in Orders : <<p, o>> \in Tasks
  BY <1>0 DEF TypeOK, StoreTypeOK, ExecutorTypeOK, Tasks
<1> SUFFICES ASSUME faults' = 0, NEW h \in DOMAIN broker', ~broker'[h].late
             PROVE  \/ \E p \in Pods : placePc'[<<p, broker'[h].order>>]
                                          \in {"acked", "attaching"}
                    \/ orders'[broker'[h].order].handle = h
  <2>1. faults' \in Nat
    BY <1>0 DEF OrderInv, TypeInv, TypeOK, StoreTypeOK
  <2> QED BY <2>1 DEF BrokerOrdersKnown
<1>f. faults = 0 /\ faults' # faults + 1
  BY <1>0, NextFaults DEF TypeOK, StoreTypeOK, Assumptions
<1>1. CASE h \notin DOMAIN broker
  <2>1. PICK p \in Pods, o \in Orders : PlaceAccepted(p, o)
    BY <1>0, <1>1, <1>f, BrokerMoves
  <2>2. BrokerAccepts(o, placeLate[<<p, o>>])
    BY <2>1 DEF PlaceAccepted
  <2>3. broker'[h].order = o
    BY <1>0, <1>1, <1>t, <2>2, AcceptAppends
  <2>4. placePc'[<<p, o>>] = "acked"
    BY <1>t, <2>1 DEF PlaceAccepted
  <2> QED BY <2>3, <2>4
<1>2. CASE h \in DOMAIN broker
  <2>1. PICK o \in Orders : broker[h].order = o /\ broker'[h].order = o
    BY <1>0, <1>2, <1>t, BrokerRows DEF BrokerKept
  <2>2. ~broker[h].late
    BY <1>0, <1>2, BrokerMoves
  <2>u. \A k \in DOMAIN broker : broker[k].order = o => k = h
    BY <1>2, <2>1 DEF OrderInv, AtMostOnePlacement
  <2>3. ASSUME orders'[o].handle # NoHandle PROVE orders'[o].handle = h
    <3>1. HoldsFor(orders[o].handle, o)'
      BY <1>0, <2>3 DEF OrderInv, TypeInv, HandlesAreOwn, RowHandles
    <3> QED BY <1>0, <2>1, <3>1 DEF HoldsFor, OrderInv, AtMostOnePlacement
  <2>4. CASE orders[o].handle = h
    <3>1. h # NoHandle
      BY <1>2, <1>t DEF NoHandle
    <3> QED BY <1>0, <2>1, <2>3, <2>4, <3>1 DEF RowAdvances
  <2>5. ASSUME NEW p \in Pods, placePc[<<p, o>>] \in {"acked", "attaching"}
        PROVE  \/ placePc'[<<p, o>>] \in {"acked", "attaching"}
               \/ orders'[o].handle = h
    <3>0. /\ placeAck[<<p, o>>] = h /\ h # NoHandle
          /\ ~placeLate[<<p, o>>]
      BY <1>0, <2>2, <2>5, <2>u DEF HandlesAreOwn, PlaceHandles, HoldsFor,
         AnswersAreLate
    <3>c. orders[o].status # "REQUESTED"
      BY <2>5 DEF OrderInv, ClaimIsExclusive, TaskHasClaim, Unclaimed
    <3>1. CASE PlaceStore(p, o)
      <4>1. CASE StatusIsExpected(o, {"SUBMITTING"})
        <5>1. orders'[o].handle = h
          BY <1>t, <3>0, <3>1, <4>1 DEF PlaceStore, AcceptFromExpected, Row
        <5> QED BY <5>1
      <4>2. CASE ~StatusIsExpected(o, {"SUBMITTING"})
        BY <1>t, <3>1, <4>2 DEF PlaceStore
      <4> QED BY <4>1, <4>2
    <3>2. CASE PlaceAttach(p, o)
      <4>1. placePc[<<p, o>>] = "attaching"
        BY <3>2 DEF PlaceAttach
      <4>2. CASE orders[o].handle # NoHandle
        BY <1>0, <2>3, <4>2 DEF RowAdvances
      <4>3. CASE orders[o].handle = NoHandle
        <5>1. orders[o].status \notin Terminal
          BY <1>f, <3>0, <4>1, <4>3 DEF ClosersAreEarly, InFlight
        <5>2. orders[o].status \notin Early \union {"ACCEPTED", "FILLED",
                                                    "PARTIALLY_FILLED"}
          BY <4>1, <4>3 DEF OrderInv, RowsAreRegular, RowRegular
        <5>3. orders[o].status \in Attachable
          <6>1. orders[o].status \in OrderStatus
            BY <1>t DEF Row
          <6> QED BY <5>1, <5>2, <6>1 DEF OrderStatus, Early, Unclaimed,
                     Terminal, ClosedStatus, Attachable
        <5>4. orders'[o].handle = h
          BY <1>t, <3>0, <3>2, <4>3, <5>3 DEF PlaceAttach,
             AttachBrokerOrderIdFromExpected, StatusIsExpected, Row
        <5> QED BY <5>4
      <4> QED BY <4>2, <4>3
    <3>3. ASSUME PlaceStep(p, o)
          PROVE  PlaceStore(p, o) \/ PlaceAttach(p, o)
      BY <1>f, <2>5, <3>3 DEF PlaceStep, StartBatched, PlaceAcquire,
         PlaceLockTimeout, PlaceIncomplete, PlaceAccepted, PlaceAnswerLost,
         PlaceRefused, PlaceWriteFails, PlacePublish, PlaceFail,
         PlaceFailLost, PlacePublishFailed, PlaceUnlock, PlaceRelease
    <3> QED BY <1>0, <1>f, <2>5, <3>1, <3>2, <3>3, <3>c, PlaceTaskMoves
  <2>6. \/ orders[o].handle = h
        \/ \E p \in Pods : placePc[<<p, o>>] \in {"acked", "attaching"}
    BY <1>2, <1>f, <2>1, <2>2 DEF BrokerOrdersKnown
  <2> QED BY <2>1, <2>4, <2>5, <2>6
<1> QED BY <1>1, <1>2

\* Unless something failed, or the cancellation was claimed before the REST
\* call began, a row learns the handle of every order the broker holds for it.
THEOREM BrokerKnown == Spec => []BrokerOrdersKnown
<1> DEFINE Parts == /\ TasksSettle /\ ClaimsHaveTasks /\ CancellersKnow
                    /\ AnswersAreLate /\ ClosersAreEarly
<1>1. ASSUME Init PROVE Parts /\ BrokerOrdersKnown
  <2>1. \A p \in Pods, o \in Orders :
           /\ placePc[<<p, o>>] = "none" /\ cancelPc[<<p, o>>] = "none"
           /\ cancelHandle[<<p, o>>] = NoHandle
           /\ orders[o].status = "CREATED"
    BY <1>1 DEF Init, StoreInit, ExecutorInit, Tasks
  <2>2. TasksSettle /\ ClosersAreEarly
    BY <2>1 DEF TasksSettle, ClosersAreEarly, InFlight
  <2>3. ClaimsHaveTasks
    BY <1>1 DEF Init, StoreInit, ClaimsHaveTasks
  <2>4. CancellersKnow /\ AnswersAreLate
    BY <2>1 DEF CancellersKnow, AnswersAreLate, HasHandle
  <2>5. BrokerOrdersKnown
    BY <1>1 DEF Init, StoreInit, BrokerOrdersKnown
  <2> QED BY <2>2, <2>3, <2>4, <2>5
<1>2. OrderInv /\ Parts /\ BrokerOrdersKnown /\ [Next]_vars
         => Parts' /\ BrokerOrdersKnown'
  BY SettleNext, CancellersNext, AnswersNext, ClosersNext, KnownNext
<1> QED BY <1>1, <1>2, OrderInvariance, PTL DEF Spec

-----------------------------------------------------------------------------
(***************************************************************************)
(* ResolvedFillsRecorded: a recorded fill stays recorded, and a retry that *)
(* is about to resolve its row has seen the fill recorded.                 *)
(***************************************************************************)
RetriesAreTrue ==
    \A t \in Trackers :
        retry[t].pc = "ingested" /\ RetryResolves(retry[t].outcome)
            => fills[retry[t].fill] > 0

\* What one ingestion does to the two tables.
LEMMA IngestRecords ==
    ASSUME Assumptions, TypeOK, HandlesAreOwn, NEW f \in FillIds, NEW s,
           IngestExecutionFill(f, s)
    PROVE  /\ \A g \in FillIds : fills[g] > 0 => fills'[g] > 0
           /\ RetryResolves(FillOutcome(f)) => fills'[f] > 0
           /\ \A g \in FillIds : unmatched'[g].status = "RESOLVED"
                                    => unmatched[g].status = "RESOLVED"
<1>t. /\ fills \in [FillIds -> Nat] /\ unmatched \in [FillIds -> UnmatchedRow]
  BY DEF TypeOK, TrackerTypeOK
<1>1. \A g \in FillIds : unmatched'[g].status = "RESOLVED"
                            => unmatched[g].status = "RESOLVED"
  <2>1. \/ unmatched' = unmatched
        \/ unmatched' = SaveUnmatched(f, "DEAD_LETTER")
        \/ unmatched' = SaveUnmatched(f, "PENDING")
    BY DEF IngestExecutionFill
  <2>2. \A g \in FillIds, st \in {"PENDING", "DEAD_LETTER"} :
           SaveUnmatched(f, st)[g].status
              \in {unmatched[g].status, "PENDING", "DEAD_LETTER"}
    BY <1>t DEF SaveUnmatched
  <2> QED BY <2>1, <2>2
<1>2. CASE FillOutcome(f) = "inserted"
  <2>1. /\ fills' = [fills EXCEPT ![f] = AppliedQty(OrderForFill(f), f)]
        /\ Executed(f)
    BY <1>2 DEF IngestExecutionFill
  <2>2. AppliedQty(OrderForFill(f), f) > 0
    <3>1. /\ OrderForFill(f) \in Orders
          /\ AppliedQty(OrderForFill(f), f)
                \in 1 .. Quantity[OrderForFill(f)]
      BY <1>2, <2>1, InsertedFill DEF TypeOK
    <3> QED BY <3>1 DEF Assumptions
  <2> QED BY <1>1, <1>t, <2>1, <2>2
<1>3. CASE FillOutcome(f) # "inserted"
  <2>1. UNCHANGED fills
    BY <1>3 DEF IngestExecutionFill
  <2>2. FillOutcome(f) = "duplicate" => fills[f] > 0
    BY DEF FillOutcome
  <2> QED BY <1>1, <1>3, <2>1, <2>2 DEF RetryResolves
<1> QED BY <1>2, <1>3

\* An unmatched fill is RESOLVED only when its fill has been recorded, however
\* the retries of several trackers and the live stream interleave.
THEOREM ResolvedRecorded == Spec => []ResolvedFillsRecorded
<1>1. Init => RetriesAreTrue /\ ResolvedFillsRecorded
  BY DEF Init, TrackerInit, RetriesAreTrue, ResolvedFillsRecorded, Idle,
     NotStored
<1>2. ASSUME OrderInv, RetriesAreTrue, ResolvedFillsRecorded, [Next]_vars
      PROVE  RetriesAreTrue' /\ ResolvedFillsRecorded'
  <2>0. /\ Assumptions /\ TypeOK /\ HandlesAreOwn
        /\ retry \in [Trackers -> Retry] /\ fills \in [FillIds -> Nat]
        /\ unmatched \in [FillIds -> UnmatchedRow]
    BY <1>2, AssumptionsHold DEF OrderInv, TypeInv, TypeOK, TrackerTypeOK
  <2>r. \A t \in Trackers : retry[t].pc \in {"read", "ingested"}
           => retry[t].fill \in FillIds
    BY <2>0 DEF Retry, Idle
  <2>1. CASE UNCHANGED trackerVars
    BY <1>2, <2>1 DEF trackerVars, RetriesAreTrue, ResolvedFillsRecorded
  <2>2. ASSUME NEW f \in FillIds, IngestFill(f)
        PROVE  RetriesAreTrue' /\ ResolvedFillsRecorded'
    <3>1. UNCHANGED retry /\ IngestExecutionFill(f, TRUE)
      BY <2>2 DEF IngestFill
    <3> QED BY <1>2, <2>0, <2>r, <3>1, IngestRecords
            DEF RetriesAreTrue, ResolvedFillsRecorded
  <2>3. ASSUME NEW t \in Trackers, NEW f \in FillIds, RetryRead(t, f)
        PROVE  RetriesAreTrue' /\ ResolvedFillsRecorded'
    BY <1>2, <2>0, <2>3 DEF RetryRead, RetriesAreTrue, ResolvedFillsRecorded
  <2>4. ASSUME NEW t \in Trackers, RetryIngest(t)
        PROVE  RetriesAreTrue' /\ ResolvedFillsRecorded'
    <3>1. PICK f \in FillIds : f = retry[t].fill
      BY <2>4, <2>r DEF RetryIngest
    <3>2. /\ IngestExecutionFill(f, FALSE)
          /\ retry' = [retry EXCEPT ![t] =
                [pc |-> "ingested", fill |-> f,
                 attempts |-> retry[t].attempts, outcome |-> FillOutcome(f)]]
      BY <2>4, <3>1 DEF RetryIngest
    <3>3. /\ \A g \in FillIds : fills[g] > 0 => fills'[g] > 0
          /\ RetryResolves(FillOutcome(f)) => fills'[f] > 0
          /\ \A g \in FillIds : unmatched'[g].status = "RESOLVED"
                                   => unmatched[g].status = "RESOLVED"
      BY <2>0, <3>2, IngestRecords
    <3>4. RetriesAreTrue'
      BY <1>2, <2>0, <2>r, <3>2, <3>3 DEF RetriesAreTrue
    <3> QED BY <1>2, <3>3, <3>4 DEF ResolvedFillsRecorded
  <2>5. ASSUME NEW t \in Trackers, RetryMark(t)
        PROVE  RetriesAreTrue' /\ ResolvedFillsRecorded'
    <3>1. PICK f \in FillIds : f = retry[t].fill
      BY <2>5, <2>r DEF RetryMark
    <3>2. /\ UNCHANGED fills /\ retry' = [retry EXCEPT ![t] = Idle]
          /\ unmatched' = [unmatched EXCEPT ![f] =
                MarkUnmatched(@, retry[t].outcome, retry[t].attempts + 1)]
          /\ RetryResolves(retry[t].outcome) => fills[f] > 0
      BY <1>2, <2>5, <3>1 DEF RetryMark, RetriesAreTrue
    <3>3. unmatched'[f].status = "RESOLVED" =>
             \/ RetryResolves(retry[t].outcome)
             \/ unmatched[f].status = "RESOLVED"
      BY <2>0, <3>2 DEF MarkUnmatched, UnmatchedRow
    <3>4. RetriesAreTrue'
      BY <1>2, <2>0, <3>2 DEF RetriesAreTrue, Idle
    <3> QED BY <1>2, <2>0, <3>2, <3>3, <3>4 DEF ResolvedFillsRecorded
  <2>6. ASSUME NEW t \in Trackers, RetryAborts(t)
        PROVE  RetriesAreTrue' /\ ResolvedFillsRecorded'
    BY <1>2, <2>0, <2>6 DEF RetryAborts, RetriesAreTrue,
       ResolvedFillsRecorded, Idle
  <2> QED BY <1>2, <2>1, <2>2, <2>3, <2>4, <2>5, <2>6 DEF Next, TrackerNext,
             vars, BeRequest, BeCancel, Trade
<1> QED BY <1>1, <1>2, OrderInvariance, PTL DEF Spec

-----------------------------------------------------------------------------
(***************************************************************************)
(* AccountSerialised: whoever is in a REST call holds its account's lock,  *)
(* and only its holder, or the end of the holder's life, frees a lock.     *)
(***************************************************************************)
HoldersHold ==
    RedisEnabled /\ TtlOutlivesHolder =>
        \A t \in LockOwners :
            TaskPc(t) = "calling" => lock[AccountOf[t[3]]] = t

\* A lock does not leave a task that is in its REST call.
LEMMA HeldLockStays ==
    ASSUME Assumptions, TypeOK, [Next]_vars, RedisEnabled, TtlOutlivesHolder,
           NEW a \in Accounts, lock[a] # NoOwner, TaskPc(lock[a]) = "calling"
    PROVE  lock'[a] = lock[a]
<1>t. lock \in [Accounts -> LockOwners \union {NoOwner}]
  BY DEF TypeOK, ExecutorTypeOK
<1>x. \A x \in Orders : AccountOf[x] \in Accounts
  BY DEF Assumptions
<1>1. ASSUME NEW owner, NEW x \in Orders, LockFree(x),
             lock' \in {lock, TakeLock(owner, x)}
      PROVE  lock'[a] = lock[a]
  BY <1>1, <1>t, <1>x DEF LockFree, TakeLock
<1>2. ASSUME NEW owner, NEW x \in Orders, Unlock(owner, x),
             TaskPc(owner) # "calling"
      PROVE  lock'[a] = lock[a]
  BY <1>2, <1>t, <1>x DEF Unlock, ReleaseLock
<1>3. ASSUME NEW p \in Pods, NEW x \in Orders, PlaceStep(p, x)
      PROVE  lock'[a] = lock[a]
  <2>1. TaskPc(<<"place", p, x>>) = placePc[<<p, x>>]
    BY DEF TaskPc
  <2>2. \/ UNCHANGED lock
        \/ LockFree(x) /\ lock' \in {lock, TakeLock(<<"place", p, x>>, x)}
        \/ Unlock(<<"place", p, x>>, x) /\ placePc[<<p, x>>] # "calling"
    BY <1>3 DEF PlaceStep, StartBatched, PlaceAcquire, PlaceLockTimeout,
       PlaceIncomplete, PlaceAccepted, PlaceAnswerLost, PlaceRefused,
       PlaceStore, PlaceAttach, PlaceWriteFails, PlacePublish, PlaceFail,
       PlaceFailLost, PlacePublishFailed, PlaceUnlock, PlaceRelease,
       LockWaitFails
  <2> QED BY <1>1, <1>2, <2>1, <2>2
<1>4. ASSUME NEW p \in Pods, NEW x \in Orders, CancelStep(p, x)
      PROVE  lock'[a] = lock[a]
  <2>1. TaskPc(<<"cancel", p, x>>) = cancelPc[<<p, x>>]
    BY DEF TaskPc
  <2>2. \/ UNCHANGED lock
        \/ LockFree(x) /\ lock' \in {lock, TakeLock(<<"cancel", p, x>>, x)}
        \/ Unlock(<<"cancel", p, x>>, x) /\ cancelPc[<<p, x>>] # "calling"
    BY <1>4 DEF CancelStep, CancelStart, CancelPoll, CancelWaitExpires,
       CancelClose, CancelAcquire, CancelLockTimeout, CancelAccepted,
       CancelAnswerLost, CancelRefused, CancelStore, CancelStoreFails,
       CancelUnlock, CancelFail, CancelFailLost, CancelThrows, CancelRelease,
       LockWaitFails
  <2> QED BY <1>1, <1>2, <2>1, <2>2
<1>5. ASSUME NEW b \in Accounts, LockExpires(b)
      PROVE  lock'[a] = lock[a]
  BY <1>5, <1>t DEF LockExpires
<1>6. ASSUME \/ \E p \in Pods : \/ TickClaimRequested(p)
                                \/ TickClaimCancelling(p) \/ TickDone(p)
                                \/ ClaimLost(p) \/ PodCrash(p)
             \/ \E p \in Pods, x \in Orders : OrderCommand(p, x)
      PROVE  UNCHANGED lock
  BY <1>6 DEF TickClaimRequested, TickClaimCancelling, TickDone, ClaimLost,
     PodCrash, OrderCommand
<1> QED BY <1>3, <1>4, <1>5, <1>6 DEF Next, ExecutorNext, vars,
           executorVars, BeRequest, BeCancel, Trade

\* A task that begins its REST call has just taken the lock.
LEMMA CallersTakeLock ==
    ASSUME Assumptions, TypeOK, [Next]_vars, RedisEnabled,
           NEW t \in LockOwners, TaskPc(t)' = "calling"
    PROVE  \/ TaskPc(t) = "calling"
           \/ lock' = [lock EXCEPT ![AccountOf[t[3]]] = t]
<1>t. /\ placePc \in [Tasks -> PlacePc] /\ cancelPc \in [Tasks -> CancelPc]
  BY DEF TypeOK, ExecutorTypeOK
<1>1. ASSUME NEW p \in Pods, NEW o \in Orders, t = <<"place", p, o>>
      PROVE  \/ TaskPc(t) = "calling"
             \/ lock' = [lock EXCEPT ![AccountOf[t[3]]] = t]
  <2>1. /\ TaskPc(t) = placePc[<<p, o>>] /\ placePc'[<<p, o>>] = "calling"
        /\ <<p, o>> \in Tasks /\ t[3] = o
    BY <1>1 DEF TaskPc, Tasks
  <2>2. CASE PlaceStep(p, o)
    <3>1. PlaceAcquire(p, o)
      BY <1>t, <2>1, <2>2 DEF PlaceStep, StartBatched, PlaceLockTimeout,
         PlaceIncomplete, PlaceAccepted, PlaceAnswerLost, PlaceRefused,
         PlaceStore, PlaceAttach, PlaceWriteFails, PlacePublish, PlaceFail,
         PlaceFailLost, PlacePublishFailed, PlaceUnlock, PlaceRelease,
         PlaceErrs, FailEvent, FailExit
    <3> QED BY <1>1, <2>1, <3>1 DEF PlaceAcquire, TakeLock
  <2> QED BY <2>1, <2>2, PlaceTaskMoves
<1>2. ASSUME NEW p \in Pods, NEW o \in Orders, t = <<"cancel", p, o>>
      PROVE  \/ TaskPc(t) = "calling"
             \/ lock' = [lock EXCEPT ![AccountOf[t[3]]] = t]
  <2>1. /\ TaskPc(t) = cancelPc[<<p, o>>] /\ cancelPc'[<<p, o>>] = "calling"
        /\ <<p, o>> \in Tasks /\ t[3] = o
    BY <1>2 DEF TaskPc, Tasks
  <2>2. CASE CancelStep(p, o)
    <3>1. CancelAcquire(p, o)
      BY <1>t, <2>1, <2>2 DEF CancelStep, CancelStart, CancelPoll,
         CancelWaitExpires, CancelClose, CancelLockTimeout, CancelAccepted,
         CancelAnswerLost, CancelRefused, CancelStore, CancelStoreFails,
         CancelUnlock, CancelFail, CancelFailLost, CancelThrows,
         CancelRelease, CancelDone
    <3> QED BY <1>2, <2>1, <3>1 DEF CancelAcquire, TakeLock
  <2> QED BY <2>1, <2>2, CancelTaskMoves
<1>3. \E k \in {"place", "cancel"}, p \in Pods, o \in Orders :
         t = <<k, p, o>>
  BY DEF LockOwners
<1> QED BY <1>1, <1>2, <1>3

\* No two REST calls of an account are in flight at once, across pods and
\* across placing and cancelling, as long as no task outlives the TTL of its
\* account lock.
THEOREM AccountsSerialised == Spec => []AccountSerialised
<1>1. Init => HoldersHold
  <2>1. ASSUME Init, NEW t \in LockOwners PROVE TaskPc(t) # "calling"
    <3>1. PICK k \in {"place", "cancel"}, p \in Pods, o \in Orders :
             t = <<k, p, o>>
      BY DEF LockOwners
    <3>2. TaskPc(t) \in {placePc[<<p, o>>], cancelPc[<<p, o>>]}
      BY <3>1 DEF TaskPc
    <3> QED BY <2>1, <3>2 DEF Init, ExecutorInit, Tasks
  <2> QED BY <2>1 DEF HoldersHold
<1>2. ASSUME TypeInv, HoldersHold, [Next]_vars PROVE HoldersHold'
  <2> SUFFICES ASSUME RedisEnabled, TtlOutlivesHolder, NEW t \in LockOwners,
                      TaskPc(t)' = "calling"
               PROVE  lock'[AccountOf[t[3]]] = t
    BY DEF HoldersHold
  <2>0. Assumptions /\ TypeOK
    BY <1>2, AssumptionsHold DEF TypeInv
  <2>1. AccountOf[t[3]] \in Accounts /\ t # NoOwner
    BY <2>0, OwnerAssumption DEF LockOwners, Assumptions
  <2>2. CASE TaskPc(t) = "calling"
    BY <1>2, <2>0, <2>1, <2>2, HeldLockStays DEF HoldersHold
  <2>3. CASE lock' = [lock EXCEPT ![AccountOf[t[3]]] = t]
    BY <2>0, <2>1, <2>3 DEF TypeOK, ExecutorTypeOK
  <2> QED BY <1>2, <2>0, <2>2, <2>3, CallersTakeLock
<1>3. ASSUME HoldersHold PROVE AccountSerialised
  <2> SUFFICES ASSUME RedisEnabled, TtlOutlivesHolder, NEW a \in Accounts
               PROVE  Cardinality(Calling(a)) <= 1
    BY DEF AccountSerialised
  <2>1. \A t \in Calling(a) : t = lock[a]
    BY <1>3 DEF Calling, HoldersHold, LockOwners
  <2>2. Calling(a) = {} \/ Calling(a) = {lock[a]}
    BY <2>1
  <2>3. CASE Calling(a) = {}
    BY <2>3, FS_EmptySet
  <2>4. CASE Calling(a) = {lock[a]}
    <3>1. Cardinality({lock[a]}) = 1
      BY FS_Singleton, Zenon
    <3> QED BY <2>4, <3>1
  <2> QED BY <2>2, <2>3, <2>4
<1> QED BY <1>1, <1>2, <1>3, TypeInvariance, PTL DEF Spec

-----------------------------------------------------------------------------
(***************************************************************************)
(* Sums, counted unit by unit: Total is the cardinality of a union of      *)
(* disjoint blocks, so what adding to one block does follows from facts on *)
(* finite sets, and no induction over the arguments is needed.             *)
(***************************************************************************)
\* A unit of x.
LEMMA UnitOf ==
    \A v, S, u : u \in Units(v, S) <=> \E x \in S : \E i \in 1 .. v[x] : u = <<x, i>>
BY DEF Units

\* The sum does not see zeros, nor how the numbers are stored.
SameNumbers(v, S, w, T) ==
    /\ \A x \in S : x \notin T => v[x] = 0
    /\ \A x \in T : x \notin S => w[x] = 0
    /\ \A x \in S : x \in T => v[x] = w[x]

\* Then the sums are the same.
LEMMA UnitsSame ==
    ASSUME NEW v, NEW w, NEW S, NEW T, SameNumbers(v, S, w, T)
    PROVE  Units(v, S) = Units(w, T)
<1> USE DEF SameNumbers
<1>1. ASSUME NEW u PROVE u \in Units(v, S) <=> u \in Units(w, T)
  <2>1. ASSUME NEW x \in S, NEW i \in 1 .. v[x] PROVE x \in T /\ i \in 1 .. w[x]
    BY <2>1
  <2>2. ASSUME NEW x \in T, NEW i \in 1 .. w[x] PROVE x \in S /\ i \in 1 .. v[x]
    BY <2>2
  <2> QED BY <2>1, <2>2, UnitOf
<1> QED BY <1>1

\* Where the number of one argument grows by q, so does the sum.
OneGrows(v, S, w, T, x, q) ==
    /\ x \in T /\ q \in Nat
    /\ \/ (x \in S /\ v[x] \in Nat /\ w[x] = v[x] + q)
       \/ (x \notin S /\ w[x] = q)
    /\ \A y : y # x => (y \in S <=> y \in T)
    /\ \A y \in S : y # x => w[y] = v[y]

\* The sum after.
LEMMA TotalGrows ==
    ASSUME NEW v, NEW w, NEW S, NEW T, NEW x, NEW q,
           OneGrows(v, S, w, T, x, q), IsFiniteSet(Units(v, S))
    PROVE  /\ IsFiniteSet(Units(w, T)) /\ Total(v, S) \in Nat
           /\ Total(w, T) = Total(v, S) + q
<1>0. PICK a \in Nat : (x \in S => a = v[x]) /\ (x \notin S => a = 0) /\ w[x] = a + q
  BY DEF OneGrows
<1>a. /\ x \in T /\ q \in Nat
      /\ \A y : y # x => (y \in S <=> y \in T)
      /\ \A y \in S : y # x => w[y] = v[y]
  BY DEF OneGrows
<1> DEFINE D == {x} \X ((a + 1) .. (a + q))
<1>1. IsFiniteSet(D) /\ Cardinality(D) = q
  <2>1. PICK l \in Int, h \in Int : l = a + 1 /\ h = a + q
    BY <1>a
  <2>2. /\ IsFiniteSet(l .. h)
        /\ Cardinality(l .. h) = IF l > h THEN 0 ELSE h - l + 1
    BY FS_Interval
  <2>3. Cardinality(l .. h) = q
    BY <1>a, <2>1, <2>2
  <2>4. IsFiniteSet({x}) /\ Cardinality({x}) = 1
    BY FS_Singleton
  <2>5. /\ IsFiniteSet({x} \X (l .. h))
        /\ Cardinality({x} \X (l .. h)) = Cardinality({x}) * Cardinality(l .. h)
    BY <2>2, <2>4, FS_Product
  <2> QED BY <1>a, <2>1, <2>3, <2>4, <2>5
<1>2. Units(w, T) = Units(v, S) \cup D
  <2>1. ASSUME NEW u PROVE u \in Units(w, T) <=> u \in Units(v, S) \cup D
    <3>1. u \in D <=> \E i \in (a + 1) .. (a + q) : u = <<x, i>>
      OBVIOUS
    <3>2. ASSUME NEW y \in T, NEW i \in 1 .. w[y], u = <<y, i>>
          PROVE  u \in Units(v, S) \cup D
      <4>1. CASE y # x
        BY <1>a, <3>2, <4>1, UnitOf
      <4>2. CASE y = x /\ i <= a
        <5>1. x \in S /\ i \in 1 .. v[x]
          BY <1>0, <3>2, <4>2
        <5> QED BY <3>2, <4>2, <5>1, UnitOf
      <4>3. CASE y = x /\ i > a
        <5>1. i \in (a + 1) .. (a + q)
          BY <1>0, <1>a, <3>2, <4>3
        <5> QED BY <3>1, <3>2, <4>3, <5>1
      <4> QED BY <3>2, <4>1, <4>2, <4>3
    <3>3. ASSUME NEW y \in S, NEW i \in 1 .. v[y], u = <<y, i>> PROVE u \in Units(w, T)
      <4>1. y \in T /\ i \in 1 .. w[y]
        BY <1>0, <1>a, <3>3
      <4> QED BY <3>3, <4>1, UnitOf
    <3>4. ASSUME NEW i \in (a + 1) .. (a + q), u = <<x, i>> PROVE u \in Units(w, T)
      <4>1. i \in 1 .. w[x]
        BY <1>0, <1>a, <3>4
      <4> QED BY <1>a, <3>4, <4>1, UnitOf
    <3> QED BY <3>1, <3>2, <3>3, <3>4, UnitOf
  <2> QED BY <2>1
<1>3. Units(v, S) \cap D = {}
  <2> SUFFICES ASSUME NEW u \in Units(v, S), u \in D PROVE FALSE
    OBVIOUS
  <2>1. PICK i \in (a + 1) .. (a + q) : u = <<x, i>>
    OBVIOUS
  <2>2. PICK y \in S : \E j \in 1 .. v[y] : u = <<y, j>>
    BY UnitOf
  <2>4. PICK j \in 1 .. v[y] : u = <<y, j>>
    BY <2>2
  <2>3. y = x /\ j = i
    BY <2>1, <2>4
  <2> QED BY <1>0, <1>a, <2>1, <2>3, <2>4
<1> HIDE DEF D
<1>4. Cardinality(Units(v, S)) \in Nat
  BY FS_CardinalityType
<1>5. IsFiniteSet(Units(v, S) \cup D) /\ Cardinality(Units(v, S) \cup D) = Cardinality(Units(v, S)) + q
  <2>1. Cardinality(Units(v, S) \cap D) = 0
    BY <1>3, FS_EmptySet
  <2>2. /\ IsFiniteSet(Units(v, S) \cup D)
        /\ Cardinality(Units(v, S) \cup D) = Cardinality(Units(v, S)) + Cardinality(D)
                                                - Cardinality(Units(v, S) \cap D)
    BY <1>1, FS_Union
  <2> QED BY <1>1, <1>4, <1>a, <2>1, <2>2
<1> QED BY <1>2, <1>4, <1>5 DEF Total

\* Smaller numbers, or fewer, have no larger sum.
LEMMA TotalMonotone ==
    ASSUME NEW v, NEW w, NEW S, NEW T, IsFiniteSet(Units(w, T)),
           \A x \in S : x \in T \/ v[x] = 0,
           \A x \in S : x \in T => v[x] \in Nat /\ w[x] \in Nat /\ v[x] <= w[x]
    PROVE  /\ IsFiniteSet(Units(v, S)) /\ Total(v, S) \in Nat /\ Total(w, T) \in Nat
           /\ Total(v, S) <= Total(w, T)
<1>1. Units(v, S) \subseteq Units(w, T)
  <2> SUFFICES ASSUME NEW u \in Units(v, S) PROVE u \in Units(w, T)
    OBVIOUS
  <2>1. PICK x \in S : \E i \in 1 .. v[x] : u = <<x, i>>
    BY UnitOf
  <2>2. PICK i \in 1 .. v[x] : u = <<x, i>>
    BY <2>1
  <2>3. x \in T /\ i \in 1 .. w[x]
    BY <2>2
  <2> QED BY <2>2, <2>3, UnitOf
<1>2. IsFiniteSet(Units(v, S)) /\ Cardinality(Units(v, S)) <= Cardinality(Units(w, T))
  BY <1>1, FS_Subset
<1> QED BY <1>2, FS_CardinalityType DEF Total

\* Zeros have no sum.
LEMMA TotalEmpty ==
    ASSUME NEW v, NEW S, \A x \in S : v[x] = 0
    PROVE  IsFiniteSet(Units(v, S)) /\ Total(v, S) = 0
<1>1. Units(v, S) = {}
  <2>1. ASSUME NEW x \in S, NEW i \in 1 .. v[x] PROVE FALSE
    BY <2>1
  <2> QED BY <2>1, UnitOf
<1> QED BY <1>1, FS_EmptySet DEF Total

-----------------------------------------------------------------------------
(***************************************************************************)
(* FilledIsSumOfFills: filled_quantity is the sum of the recorded fills, no *)
(* fill is recorded with more than was executed, and what the broker has   *)
(* executed and what it still holds open fit into the order together.      *)
(***************************************************************************)
\* The shares of each execution of the broker.
ExecutedQty == [f \in FillIds |-> IF Executed(f) THEN Fill(f).qty ELSE 0]

\* What the fills, the rows and the broker's orders have to do with each other.
FillsCounted ==
    /\ \A f \in FillIds : fills[f] <= ExecutedQty[f]
    /\ \A o \in Orders : /\ IsFiniteSet(Units(ExecutedQty, FillsOf(o)))
                         /\ orders[o].filled = Total(fills, FillsOf(o))
    /\ \A o \in Orders : \A h \in DOMAIN broker :
          broker[h].order = o => broker[h].open + Total(ExecutedQty, FillsOf(o)) <= Quantity[o]

\* Only an ingestion books: every other write leaves filled_quantity alone.
FilledKept == \A x \in Orders : orders'[x].filled = orders[x].filled

\* The writes of the other components.
LEMMA WritesKeepFilled ==
    ASSUME orders \in [Orders -> Row],
           \/ UNCHANGED orders
           \/ \E rows, s : orders' = ClaimRows(rows, s)
           \/ \E o \in Orders : \E e, s :
                 \/ orders' = UpdateStatusFromExpected(o, e, s)
                 \/ orders' = AcceptFromExpected(o, e, s)
                 \/ orders' = AttachBrokerOrderIdFromExpected(o, e, s)
                 \/ orders' = [orders EXCEPT ![o].status = s]
    PROVE  FilledKept
<1> SUFFICES ASSUME NEW x \in Orders PROVE orders'[x].filled = orders[x].filled
  BY DEF FilledKept
<1>1. CASE UNCHANGED orders
  BY <1>1
<1>2. ASSUME NEW rows, NEW s, orders' = ClaimRows(rows, s)
      PROVE  orders'[x].filled = orders[x].filled
  BY <1>2 DEF ClaimRows, Row
<1>3. ASSUME NEW o \in Orders, NEW e, NEW s, orders' = UpdateStatusFromExpected(o, e, s)
      PROVE  orders'[x].filled = orders[x].filled
  BY <1>3 DEF UpdateStatusFromExpected, Row
<1>4. ASSUME NEW o \in Orders, NEW e, NEW s, orders' = AcceptFromExpected(o, e, s)
      PROVE  orders'[x].filled = orders[x].filled
  BY <1>4 DEF AcceptFromExpected, Row
<1>5. ASSUME NEW o \in Orders, NEW e, NEW s, orders' = AttachBrokerOrderIdFromExpected(o, e, s)
      PROVE  orders'[x].filled = orders[x].filled
  BY <1>5 DEF AttachBrokerOrderIdFromExpected, Row
<1>6. ASSUME NEW o \in Orders, NEW s, orders' = [orders EXCEPT ![o].status = s]
      PROVE  orders'[x].filled = orders[x].filled
  BY <1>6 DEF Row
<1> QED BY <1>1, <1>2, <1>3, <1>4, <1>5, <1>6

\* What a step is to the fills: an ingestion, or a step that leaves what is
\* booked alone and does at most one thing at the broker.
BrokerStep ==
    \/ UNCHANGED broker
    \/ \E o \in Orders : \E late : BrokerAccepts(o, late)
    \/ \E h \in DOMAIN broker : BrokerCancels(h)
    \/ \E h \in DOMAIN broker : \E q \in 1 .. broker[h].open : \E m \in BOOLEAN :
          BrokerExecutes(h, q, m)
Ingests == \E f \in FillIds : \E s \in BOOLEAN : IngestExecutionFill(f, s)

\* Every step is one or the other.
LEMMA FillSteps ==
    ASSUME OrderInv, [Next]_vars
    PROVE  \/ Ingests
           \/ (UNCHANGED <<fills, books>> /\ FilledKept /\ BrokerStep)
<1>t. /\ Assumptions /\ TypeOK /\ HandlesAreOwn /\ orders \in [Orders -> Row]
      /\ retry \in [Trackers -> Retry]
  BY AssumptionsHold DEF OrderInv, TypeInv, TypeOK, StoreTypeOK, TrackerTypeOK
<1>1. ASSUME NEW p \in Pods, NEW o \in Orders, PlaceStep(p, o) PROVE FilledKept /\ BrokerStep
  <2>1. \/ UNCHANGED orders
        \/ \E e, s : \/ orders' = UpdateStatusFromExpected(o, e, s)
                     \/ orders' = AcceptFromExpected(o, e, s)
                     \/ orders' = AttachBrokerOrderIdFromExpected(o, e, s)
    BY <1>1 DEF PlaceStep, StartBatched, PlaceAcquire, PlaceLockTimeout,
       PlaceIncomplete, PlaceAccepted, PlaceAnswerLost, PlaceRefused, PlaceStore,
       PlaceAttach, PlaceWriteFails, PlacePublish, PlaceFail, PlaceFailLost,
       PlacePublishFailed, PlaceUnlock, PlaceRelease, storeVars
  <2>2. UNCHANGED broker \/ \E late : BrokerAccepts(o, late)
    BY <1>1 DEF PlaceStep, StartBatched, PlaceAcquire, PlaceLockTimeout,
       PlaceIncomplete, PlaceAccepted, PlaceAnswerLost, PlaceRefused, PlaceStore,
       PlaceAttach, PlaceWriteFails, PlacePublish, PlaceFail, PlaceFailLost,
       PlacePublishFailed, PlaceUnlock, PlaceRelease, storeVars
  <2> QED BY <1>t, <2>1, <2>2, WritesKeepFilled DEF BrokerStep
<1>2. ASSUME NEW p \in Pods, NEW o \in Orders, CancelStep(p, o) PROVE FilledKept /\ BrokerStep
  <2>1. UNCHANGED orders \/ \E e, s : orders' = UpdateStatusFromExpected(o, e, s)
    BY <1>2 DEF CancelStep, CancelStart, CancelPoll, CancelWaitExpires,
       CancelClose, CancelAcquire, CancelLockTimeout, CancelAccepted,
       CancelAnswerLost, CancelRefused, CancelStore, CancelStoreFails,
       CancelUnlock, CancelFail, CancelFailLost, CancelThrows, CancelRelease,
       storeVars
  <2>2. \/ UNCHANGED broker
        \/ /\ cancelPc[<<p, o>>] = "calling"
           /\ BrokerCancels(cancelHandle[<<p, o>>])
    BY <1>2 DEF CancelStep, CancelStart, CancelPoll, CancelWaitExpires,
       CancelClose, CancelAcquire, CancelLockTimeout, CancelAccepted,
       CancelAnswerLost, CancelRefused, CancelStore, CancelStoreFails,
       CancelUnlock, CancelFail, CancelFailLost, CancelThrows, CancelRelease,
       storeVars
  <2>3. cancelPc[<<p, o>>] = "calling" => cancelHandle[<<p, o>>] \in DOMAIN broker
    BY <1>t DEF HandlesAreOwn, CancelHandles, HoldsFor
  <2> QED BY <1>t, <2>1, <2>2, <2>3, WritesKeepFilled DEF BrokerStep
<1>3. ASSUME \/ \E p \in Pods : \/ TickClaimRequested(p)
                                \/ TickClaimCancelling(p) \/ TickDone(p)
                                \/ ClaimLost(p) \/ PodCrash(p)
             \/ \E p \in Pods, o \in Orders : OrderCommand(p, o)
             \/ \E a \in Accounts : LockExpires(a)
      PROVE  FilledKept /\ BrokerStep
  <2>1. \/ UNCHANGED orders \/ \E rows, s : orders' = ClaimRows(rows, s)
    BY <1>3 DEF TickClaimRequested, TickClaimCancelling, TickDone, ClaimLost,
       PodCrash, OrderCommand, LockExpires, storeVars
  <2>2. UNCHANGED broker
    BY <1>3 DEF TickClaimRequested, TickClaimCancelling, TickDone, ClaimLost,
       PodCrash, OrderCommand, LockExpires, storeVars
  <2> QED BY <1>t, <2>1, <2>2, WritesKeepFilled DEF BrokerStep
<1>4. ASSUME NEW o \in Orders, BeRequest(o) \/ BeCancel(o)
      PROVE  FilledKept /\ BrokerStep /\ UNCHANGED <<fills, books>>
  BY <1>t, <1>4, WritesKeepFilled DEF BeRequest, BeCancel, BrokerStep, trackerVars
<1>5. ASSUME NEW h \in DOMAIN broker, NEW q \in 1 .. broker[h].open, Trade(h, q)
      PROVE  FilledKept /\ BrokerStep /\ UNCHANGED <<fills, books>>
  <2>1. \E m \in BOOLEAN : BrokerExecutes(h, q, m)
    BY <1>5, <1>t DEF Trade, Assumptions
  <2>2. FilledKept /\ UNCHANGED <<fills, books>>
    BY <1>5, <1>t, WritesKeepFilled DEF Trade, trackerVars
  <2> QED BY <2>1, <2>2 DEF BrokerStep
<1>6. ASSUME TrackerNext
      PROVE  Ingests \/ (UNCHANGED <<fills, books>> /\ FilledKept /\ BrokerStep)
  <2>1. ASSUME NEW t \in Trackers, NEW f, RetryRead(t, f) \/ RetryMark(t) \/ RetryAborts(t)
        PROVE  UNCHANGED <<fills, books>> /\ FilledKept /\ BrokerStep
    <3>1. UNCHANGED <<orders, broker, fills, books>>
      BY <2>1 DEF RetryRead, RetryMark, RetryAborts, storeVars
    <3> QED BY <1>t, <3>1, WritesKeepFilled DEF BrokerStep
  <2>2. ASSUME NEW t \in Trackers, RetryIngest(t) PROVE Ingests
    <3>1. retry[t].fill \in FillIds
      BY <1>t, <2>2 DEF RetryIngest, Retry, Idle
    <3> QED BY <2>2, <3>1 DEF RetryIngest, Ingests
  <2>3. ASSUME NEW f \in FillIds, IngestFill(f) PROVE Ingests
    BY <2>3 DEF IngestFill, Ingests
  <2> QED BY <1>6, <2>1, <2>2, <2>3 DEF TrackerNext
<1>7. CASE UNCHANGED vars
  BY <1>t, <1>7, WritesKeepFilled DEF vars, storeVars, trackerVars, BrokerStep
<1>8. ASSUME ExecutorNext, UNCHANGED trackerVars
      PROVE  UNCHANGED <<fills, books>> /\ FilledKept /\ BrokerStep
  BY <1>1, <1>2, <1>3, <1>8 DEF ExecutorNext, trackerVars
<1> QED BY <1>4, <1>5, <1>6, <1>7, <1>8 DEF Next

\* What the broker's steps do to its executions.
LEMMA FillsKept ==
    ASSUME Assumptions, StoreTypeOK,
           \/ UNCHANGED broker
           \/ \E o : \E late : BrokerAccepts(o, late)
           \/ \E h \in DOMAIN broker : BrokerCancels(h)
    PROVE  ExecutedQty' = ExecutedQty /\ \A x \in Orders : FillsOf(x)' = FillsOf(x)
<1>t. broker \in Seq(BrokerOrder)
  BY DEF StoreTypeOK
<1>1. ASSUME DOMAIN broker \subseteq DOMAIN broker',
             \A k \in DOMAIN broker : /\ broker'[k].fills = broker[k].fills
                                     /\ broker'[k].order = broker[k].order,
             \A k \in DOMAIN broker' : k \notin DOMAIN broker => DOMAIN broker'[k].fills = {}
      PROVE  ExecutedQty' = ExecutedQty /\ \A x \in Orders : FillsOf(x)' = FillsOf(x)
  <2>1. \A f \in FillIds : Executed(f)' <=> Executed(f)
    BY <1>1 DEF Executed
  <2>2. \A f \in FillIds : Executed(f) => Fill(f)' = Fill(f) /\ broker'[f[1]].order = broker[f[1]].order
    BY <1>1 DEF Executed, Fill
  <2>3. ExecutedQty' = ExecutedQty
    BY <2>1, <2>2 DEF ExecutedQty
  <2>4. \A x \in Orders : FillsOf(x)' = FillsOf(x)
    BY <2>1, <2>2 DEF FillsOf
  <2> QED BY <2>3, <2>4
<1>2. CASE UNCHANGED broker
  BY <1>1, <1>2
<1>3. ASSUME NEW o, NEW late, BrokerAccepts(o, late)
      PROVE  ExecutedQty' = ExecutedQty /\ \A x \in Orders : FillsOf(x)' = FillsOf(x)
  <2>1. PICK b : /\ b = [order |-> o, open |-> Quantity[o], fills |-> << >>, late |-> late]
                 /\ broker' = Append(broker, b)
    BY <1>3 DEF BrokerAccepts
  <2>2. b.fills = << >>
    BY <2>1
  <2>3. /\ DOMAIN broker' = DOMAIN broker \cup {Len(broker) + 1}
        /\ broker'[Len(broker) + 1] = b /\ \A k \in DOMAIN broker : broker'[k] = broker[k]
    BY <1>t, <2>1
  <2> QED BY <1>1, <2>2, <2>3
<1>4. ASSUME NEW h \in DOMAIN broker, BrokerCancels(h)
      PROVE  ExecutedQty' = ExecutedQty /\ \A x \in Orders : FillsOf(x)' = FillsOf(x)
  <2>1. PICK b : b = [broker[h] EXCEPT !.open = 0] /\ broker' = [broker EXCEPT ![h] = b]
    BY <1>4 DEF BrokerCancels
  <2>2. broker[h] \in BrokerOrder
    BY <1>t
  <2>3. b.fills = broker[h].fills /\ b.order = broker[h].order
    BY <2>1, <2>2 DEF BrokerOrder
  <2>4. DOMAIN broker' = DOMAIN broker /\ \A k \in DOMAIN broker : k # h => broker'[k] = broker[k]
    BY <2>1
  <2>5. broker'[h] = b
    BY <2>1
  <2> QED BY <1>1, <2>3, <2>4, <2>5
<1> QED BY <1>2, <1>3, <1>4

\* An execution of q shares is one more fill of its order.
LEMMA FillAdded ==
    ASSUME Assumptions, StoreTypeOK, NEW h \in DOMAIN broker, NEW q, NEW m,
           NEW o, o = broker[h].order, BrokerExecutes(h, q, m)
    PROVE  \E g \in FillIds :
             /\ ~Executed(g) /\ ExecutedQty'[g] = q
             /\ \A f \in FillIds : f # g => ExecutedQty'[f] = ExecutedQty[f]
             /\ FillsOf(o)' = FillsOf(o) \cup {g}
             /\ \A x \in Orders : x # o => FillsOf(x)' = FillsOf(x)
             /\ DOMAIN broker' = DOMAIN broker
             /\ \A k \in DOMAIN broker : /\ broker'[k].order = broker[k].order
                                         /\ k # h => broker'[k].open = broker[k].open
             /\ broker'[h].open = broker[h].open - q
<1>t. broker \in Seq(BrokerOrder) /\ broker[h] \in BrokerOrder /\ Len(broker) <= MaxHandles
  BY DEF StoreTypeOK
<1>1. PICK fs, n : fs = broker[h].fills /\ n = Len(fs) + 1
  OBVIOUS
<1>2. fs \in Seq(Execution) /\ n \in Nat \ {0} /\ DOMAIN fs = 1 .. (n - 1)
  BY <1>1, <1>t DEF BrokerOrder
<1>3. PICK e : e = [qty |-> q, malformed |-> m]
  OBVIOUS
<1>4. PICK b : /\ b = [broker[h] EXCEPT !.open = @ - q, !.fills = Append(fs, e)]
               /\ broker' = [broker EXCEPT ![h] = b] /\ n <= MaxFills
  <2>1. broker' = [broker EXCEPT ![h].open = @ - q, ![h].fills = Append(@, e)]
    BY <1>3 DEF BrokerExecutes
  <2>2. n <= MaxFills
    BY <1>1, <1>2 DEF BrokerExecutes, Assumptions
  <2> QED BY <1>1, <2>1, <2>2
<1>5. /\ b.fills = Append(fs, e) /\ b.order = broker[h].order
      /\ b.open = broker[h].open - q
  BY <1>4, <1>t DEF BrokerOrder
<1>6. /\ DOMAIN b.fills = 1 .. n /\ b.fills[n] = e /\ n \notin DOMAIN fs
      /\ \A i \in DOMAIN fs : b.fills[i] = fs[i]
  BY <1>1, <1>2, <1>5
<1>7. /\ DOMAIN broker' = DOMAIN broker /\ broker'[h] = b
      /\ \A k \in DOMAIN broker : k # h => broker'[k] = broker[k]
  BY <1>4
<1>8. h \in Handles /\ n \in 1 .. MaxFills
  BY <1>2, <1>4, <1>t DEF Handles, Assumptions
<1>9. PICK g : g = <<h, n>>
  OBVIOUS
<1>18. g \in FillIds /\ g[1] = h /\ g[2] = n
  BY <1>8, <1>9 DEF FillIds
<1>10. \A f \in FillIds : f # g => f[1] # h \/ f[2] # n
  BY <1>9, <1>18 DEF FillIds
<1>11. ~Executed(g) /\ Executed(g)' /\ Fill(g)'.qty = q
  BY <1>1, <1>2, <1>3, <1>6, <1>7, <1>18 DEF Executed, Fill
<1>12. ASSUME NEW f \in FillIds, f # g
       PROVE  /\ Executed(f)' <=> Executed(f)
              /\ Executed(f) => Fill(f)' = Fill(f)
              /\ f[1] \in DOMAIN broker => broker'[f[1]].order = broker[f[1]].order
  <2>1. CASE f[1] # h
    BY <1>7, <2>1 DEF Executed, Fill
  <2>2. CASE f[1] = h
    <3>1. f[2] # n /\ (f[2] \in 1 .. n <=> f[2] \in 1 .. (n - 1))
      BY <1>2, <1>10, <1>12, <2>2 DEF FillIds
    <3> QED BY <1>1, <1>2, <1>5, <1>6, <1>7, <2>2, <3>1 DEF Executed, Fill
  <2> QED BY <2>1, <2>2
<1>13. ExecutedQty'[g] = q /\ \A f \in FillIds : f # g => ExecutedQty'[f] = ExecutedQty[f]
  BY <1>11, <1>12, <1>18 DEF ExecutedQty
<1>14. broker'[g[1]].order = o
  BY <1>5, <1>7, <1>18
<1>15. FillsOf(o)' = FillsOf(o) \cup {g}
  <2>1. \A f \in FillIds : f # g =>
          (f \in FillsOf(o)' <=> f \in FillsOf(o))
    BY <1>12, <1>7 DEF FillsOf, Executed
  <2> QED BY <1>11, <1>14, <1>18, <2>1 DEF FillsOf
<1>16. \A x \in Orders : x # o => FillsOf(x)' = FillsOf(x)
  BY <1>7, <1>11, <1>12, <1>14 DEF FillsOf, Executed
<1>17. \A k \in DOMAIN broker : /\ broker'[k].order = broker[k].order
                               /\ k # h => broker'[k].open = broker[k].open
  BY <1>5, <1>7
<1> QED BY <1>5, <1>7, <1>11, <1>13, <1>15, <1>16, <1>17, <1>18

\* The sums are numbers.
LEMMA CountedFacts ==
    ASSUME OrderInv, FillsCounted
    PROVE  /\ Assumptions /\ StoreTypeOK /\ HandlesAreOwn
           /\ fills \in [FillIds -> Nat] /\ ExecutedQty \in [FillIds -> Nat]
           /\ \A f \in FillIds : fills[f] <= ExecutedQty[f]
           /\ \A o \in Orders :
                /\ FillsOf(o) \subseteq FillIds
                /\ IsFiniteSet(Units(ExecutedQty, FillsOf(o))) /\ IsFiniteSet(Units(fills, FillsOf(o)))
                /\ Total(ExecutedQty, FillsOf(o)) \in Nat /\ Total(fills, FillsOf(o)) \in Nat
                /\ orders[o].filled = Total(fills, FillsOf(o))
                /\ orders[o].filled \in Nat /\ Quantity[o] \in Nat
           /\ \A h \in DOMAIN broker : broker[h].order \in Orders /\ broker[h].open \in Nat
<1>1. /\ Assumptions /\ StoreTypeOK /\ HandlesAreOwn /\ fills \in [FillIds -> Nat]
  BY AssumptionsHold DEF OrderInv, TypeInv, TypeOK, TrackerTypeOK
<1>2. ASSUME NEW h \in DOMAIN broker
      PROVE  broker[h].order \in Orders /\ broker[h].open \in Nat
  <2>1. broker \in Seq(BrokerOrder)
    BY <1>1 DEF StoreTypeOK
  <2>2. broker[h] \in BrokerOrder
    BY <2>1
  <2> QED BY <2>2 DEF BrokerOrder
<1>3. ExecutedQty \in [FillIds -> Nat]
  <2>1. \A f \in FillIds : Executed(f) => Fill(f).qty \in Nat
    BY <1>1, FillFacts
  <2> QED BY <2>1 DEF ExecutedQty
<1>4. ASSUME NEW o \in Orders
      PROVE  /\ FillsOf(o) \subseteq FillIds
             /\ IsFiniteSet(Units(ExecutedQty, FillsOf(o))) /\ IsFiniteSet(Units(fills, FillsOf(o)))
             /\ Total(ExecutedQty, FillsOf(o)) \in Nat /\ Total(fills, FillsOf(o)) \in Nat
  <2>1. FillsOf(o) \subseteq FillIds
    BY DEF FillsOf
  <2>2. IsFiniteSet(Units(ExecutedQty, FillsOf(o)))
    BY DEF FillsCounted
  <2>3. \A f \in FillsOf(o) : fills[f] \in Nat /\ ExecutedQty[f] \in Nat /\ fills[f] <= ExecutedQty[f]
    BY <1>1, <1>3, <2>1 DEF FillsCounted
  <2> HIDE DEF FillsCounted
  <2> QED BY <2>1, <2>2, <2>3, TotalMonotone
<1>5. \A o \in Orders : orders[o].filled \in Nat /\ Quantity[o] \in Nat
  BY <1>1 DEF StoreTypeOK, Row, Assumptions
<1> QED BY <1>1, <1>2, <1>3, <1>4, <1>5 DEF FillsCounted

\* A step that adds no execution and books nothing.
LEMMA CountedQuiet ==
    ASSUME OrderInv, OrderInv', FillsCounted, UNCHANGED fills, FilledKept,
           \/ UNCHANGED broker
           \/ \E o \in Orders : \E late : BrokerAccepts(o, late)
           \/ \E h \in DOMAIN broker : BrokerCancels(h)
    PROVE  FillsCounted'
<1>1. ExecutedQty' = ExecutedQty /\ \A x \in Orders : FillsOf(x)' = FillsOf(x)
  BY CountedFacts, FillsKept
<1>2. \A o \in Orders : /\ IsFiniteSet(Units(ExecutedQty', FillsOf(o)'))
                       /\ orders'[o].filled = Total(fills', FillsOf(o)')
  BY <1>1 DEF FillsCounted, FilledKept
<1>t. broker \in Seq(BrokerOrder)
  BY CountedFacts DEF StoreTypeOK
<1>k. ASSUME NEW k \in DOMAIN broker', NEW o \in Orders, o = broker'[k].order,
             \/ /\ k \in DOMAIN broker /\ broker[k].order = o
                /\ (broker'[k].open = broker[k].open \/ broker'[k].open = 0)
             \/ (broker'[k].open = Quantity[o] /\ \A l \in DOMAIN broker : broker[l].order # o)
      PROVE  broker'[k].open + Total(ExecutedQty', FillsOf(o)') <= Quantity[o]
  <2>1. CASE k \in DOMAIN broker /\ broker[k].order = o
             /\ (broker'[k].open = broker[k].open \/ broker'[k].open = 0)
    <3>1. broker[k].open + Total(ExecutedQty, FillsOf(o)) <= Quantity[o]
      BY <2>1 DEF FillsCounted
    <3>2. broker[k].open \in Nat /\ Total(ExecutedQty, FillsOf(o)) \in Nat /\ Quantity[o] \in Nat
      BY <2>1, CountedFacts
    <3>3. broker'[k].open + Total(ExecutedQty, FillsOf(o)) <= Quantity[o]
      BY <2>1, <3>1, <3>2
    <3> QED BY <1>1, <3>3
  <2>2. CASE broker'[k].open = Quantity[o] /\ \A l \in DOMAIN broker : broker[l].order # o
    <3>1. FillsOf(o) = {}
      BY <2>2 DEF FillsOf, Executed
    <3>2. Total(ExecutedQty, FillsOf(o)) = 0
      BY <3>1, TotalEmpty
    <3>3. Quantity[o] \in Nat
      BY CountedFacts
    <3> QED BY <1>1, <2>2, <3>2, <3>3
  <2> QED BY <1>k, <2>1, <2>2
<1>3. ASSUME NEW k \in DOMAIN broker', NEW o \in Orders, broker'[k].order = o
      PROVE  broker'[k].open + Total(ExecutedQty', FillsOf(o)') <= Quantity[o]
  <2>1. o = broker'[k].order
    BY <1>3
  <2>2. CASE UNCHANGED broker
    <3>1. k \in DOMAIN broker /\ broker[k].order = o /\ broker'[k].open = broker[k].open
      BY <2>1, <2>2
    <3> QED BY <1>k, <2>1, <3>1
  <2>3. ASSUME NEW x \in Orders, NEW late, BrokerAccepts(x, late)
        PROVE  broker'[k].open + Total(ExecutedQty', FillsOf(o)') <= Quantity[o]
    <3>1. PICK b : /\ b = [order |-> x, open |-> Quantity[x], fills |-> << >>, late |-> late]
                   /\ broker' = Append(broker, b)
      BY <2>3 DEF BrokerAccepts
    <3>2. PICK n : n = Len(broker) + 1
      OBVIOUS
    <3>3. /\ DOMAIN broker' = DOMAIN broker \cup {n} /\ n \notin DOMAIN broker
          /\ broker'[n] = b /\ \A l \in DOMAIN broker : broker'[l] = broker[l]
      BY <1>t, <3>1, <3>2
    <3>4. b.order = x /\ b.open = Quantity[x]
      BY <3>1
    <3>5. CASE k = n
      <4>1. \A l \in DOMAIN broker : broker[l].order # o
        BY <2>1, <3>3, <3>5 DEF OrderInv, AtMostOnePlacement
      <4> QED BY <1>k, <2>1, <3>3, <3>4, <3>5, <4>1
    <3>6. CASE k # n
      BY <1>k, <2>1, <3>3, <3>6
    <3> QED BY <3>5, <3>6
  <2>4. ASSUME NEW h \in DOMAIN broker, BrokerCancels(h)
        PROVE  broker'[k].open + Total(ExecutedQty', FillsOf(o)') <= Quantity[o]
    <3>1. PICK b : b = [broker[h] EXCEPT !.open = 0] /\ broker' = [broker EXCEPT ![h] = b]
      BY <2>4 DEF BrokerCancels
    <3>2. broker[h] \in BrokerOrder
      BY <1>t
    <3>3. b.open = 0 /\ b.order = broker[h].order
      BY <3>1, <3>2 DEF BrokerOrder
    <3>4. /\ DOMAIN broker' = DOMAIN broker /\ broker'[h] = b
          /\ \A l \in DOMAIN broker : l # h => broker'[l] = broker[l]
      BY <3>1
    <3> QED BY <1>k, <2>1, <3>3, <3>4
  <2> QED BY <2>1, <2>2, <2>3, <2>4
<1>4. \A f \in FillIds : fills'[f] <= ExecutedQty'[f]
  BY <1>1, CountedFacts
<1> QED BY <1>2, <1>3, <1>4 DEF FillsCounted

\* An execution.
LEMMA CountedTrade ==
    ASSUME OrderInv, OrderInv', FillsCounted, UNCHANGED fills, FilledKept,
           NEW h \in DOMAIN broker, NEW q \in 1 .. broker[h].open, NEW m,
           BrokerExecutes(h, q, m)
    PROVE  FillsCounted'
<1>0. PICK o \in Orders : o = broker[h].order
  BY CountedFacts
<1>1. PICK g \in FillIds :
        /\ ~Executed(g) /\ ExecutedQty'[g] = q
        /\ \A f \in FillIds : f # g => ExecutedQty'[f] = ExecutedQty[f]
        /\ FillsOf(o)' = FillsOf(o) \cup {g}
        /\ \A x \in Orders : x # o => FillsOf(x)' = FillsOf(x)
        /\ DOMAIN broker' = DOMAIN broker
        /\ \A k \in DOMAIN broker : /\ broker'[k].order = broker[k].order
                                    /\ k # h => broker'[k].open = broker[k].open
        /\ broker'[h].open = broker[h].open - q
  <2>1. Assumptions /\ StoreTypeOK
    BY CountedFacts
  <2> HIDE DEF BrokerExecutes
  <2> QED BY <1>0, <2>1, FillAdded
<1>2. /\ ExecutedQty[g] = 0 /\ fills[g] = 0 /\ \A x \in Orders : g \notin FillsOf(x)
  <2>1. ExecutedQty[g] = 0 /\ \A x \in Orders : g \notin FillsOf(x)
    BY <1>1 DEF ExecutedQty, FillsOf
  <2> QED BY <2>1, CountedFacts
<1>q. q \in Nat /\ q <= broker[h].open /\ broker[h].open \in Nat
  BY CountedFacts
<1>3. ASSUME NEW x \in Orders, x # o
      PROVE  /\ Units(ExecutedQty', FillsOf(x)') = Units(ExecutedQty, FillsOf(x))
             /\ Units(fills', FillsOf(x)') = Units(fills, FillsOf(x))
  <2>1. \A f \in FillsOf(x) : ExecutedQty'[f] = ExecutedQty[f]
    BY <1>1, <1>2, CountedFacts
  <2>2. FillsOf(x)' = FillsOf(x)
    BY <1>1, <1>3
  <2> QED BY <2>1, <2>2, UnitsSame DEF SameNumbers
<1>4. /\ IsFiniteSet(Units(ExecutedQty', FillsOf(o)'))
      /\ Total(ExecutedQty', FillsOf(o)') = Total(ExecutedQty, FillsOf(o)) + q
  <2>1. \A f \in FillsOf(o) : f # g => ExecutedQty'[f] = ExecutedQty[f]
    BY <1>1, CountedFacts
  <2>2. ExecutedQty'[g] = 0 + q /\ g \notin FillsOf(o) /\ g \in FillsOf(o)'
    BY <1>1, <1>2, <1>q
  <2>3. \A y : y # g => (y \in FillsOf(o) <=> y \in FillsOf(o)')
    BY <1>1
  <2>4. IsFiniteSet(Units(ExecutedQty, FillsOf(o)))
    BY CountedFacts
  <2>5. OneGrows(ExecutedQty, FillsOf(o), ExecutedQty', FillsOf(o)', g, q)
    BY <1>q, <2>1, <2>2, <2>3 DEF OneGrows
  <2> QED BY <2>4, <2>5, TotalGrows
<1>5. Units(fills', FillsOf(o)') = Units(fills, FillsOf(o))
  BY <1>1, <1>2, UnitsSame DEF SameNumbers
<1>6. \A x \in Orders : /\ IsFiniteSet(Units(ExecutedQty', FillsOf(x)'))
                       /\ orders'[x].filled = Total(fills', FillsOf(x)')
  BY <1>3, <1>4, <1>5 DEF FillsCounted, FilledKept, Total
<1>7. \A f \in FillIds : fills'[f] <= ExecutedQty'[f]
  <2>1. fills'[g] <= ExecutedQty'[g]
    BY <1>1, <1>2, <1>q
  <2> QED BY <1>1, <2>1, CountedFacts
<1>8. ASSUME NEW k \in DOMAIN broker', NEW x \in Orders, broker'[k].order = x
      PROVE  broker'[k].open + Total(ExecutedQty', FillsOf(x)') <= Quantity[x]
  <2>1. x = broker'[k].order /\ x = broker[k].order /\ k \in DOMAIN broker
    BY <1>1, <1>8
  <2>2. broker[k].open + Total(ExecutedQty, FillsOf(x)) <= Quantity[x]
    BY <2>1 DEF FillsCounted
  <2>3. CASE k # h
    <3>1. x # o
      BY <1>0, <1>1, <2>1, <2>3 DEF OrderInv, AtMostOnePlacement
    <3>2. Total(ExecutedQty', FillsOf(x)') = Total(ExecutedQty, FillsOf(x))
      BY <1>3, <3>1 DEF Total
    <3> QED BY <1>1, <2>1, <2>2, <2>3, <3>2
  <2>4. CASE k = h
    <3>1. x = o
      BY <1>0, <2>1, <2>4
    <3>2. broker'[k].open = broker[k].open - q
      BY <1>1, <2>4
    <3>3. Total(ExecutedQty, FillsOf(x)) \in Nat /\ Quantity[x] \in Nat
      BY CountedFacts
    <3>4. Total(ExecutedQty', FillsOf(x)') = Total(ExecutedQty, FillsOf(x)) + q
      BY <1>4, <3>1
    <3> QED BY <1>q, <2>1, <2>2, <2>4, <3>2, <3>3, <3>4
  <2> QED BY <2>3, <2>4
<1> QED BY <1>6, <1>7, <1>8 DEF FillsCounted

\* An ingestion books a fill of its order that was not recorded.
LEMMA CountedIngest ==
    ASSUME OrderInv, FillsCounted, NEW f \in FillIds, NEW s,
           IngestExecutionFill(f, s)
    PROVE  FillsCounted'
<1>t. /\ Assumptions /\ StoreTypeOK /\ HandlesAreOwn /\ fills \in [FillIds -> Nat]
      /\ orders \in [Orders -> Row] /\ ExecutedQty \in [FillIds -> Nat]
      /\ \A g \in FillIds : fills[g] <= ExecutedQty[g]
  BY CountedFacts DEF StoreTypeOK
<1>b. UNCHANGED broker /\ Executed(f)
  BY DEF IngestExecutionFill
<1>1. ExecutedQty' = ExecutedQty /\ \A x \in Orders : FillsOf(x)' = FillsOf(x)
  BY <1>b, <1>t, FillsKept
<1>2. ASSUME \A x \in Orders : orders'[x].filled = Total(fills', FillsOf(x)),
             \A g \in FillIds : fills'[g] <= ExecutedQty[g]
      PROVE  FillsCounted'
  <2>1. \A x \in Orders : \A h \in DOMAIN broker' : broker'[h].order = x
           => broker'[h].open + Total(ExecutedQty', FillsOf(x)') <= Quantity[x]
    BY <1>1, <1>b DEF FillsCounted
  <2>2. \A x \in Orders : /\ IsFiniteSet(Units(ExecutedQty', FillsOf(x)'))
                          /\ orders'[x].filled = Total(fills', FillsOf(x)')
    BY <1>1, <1>2 DEF FillsCounted
  <2>3. \A g \in FillIds : fills'[g] <= ExecutedQty'[g]
    BY <1>1, <1>2
  <2> QED BY <2>1, <2>2, <2>3 DEF FillsCounted
<1>3. CASE FillOutcome(f) # "inserted"
  <2>1. UNCHANGED <<fills, orders>>
    BY <1>3 DEF IngestExecutionFill
  <2>2. \A x \in Orders : orders'[x].filled = Total(fills', FillsOf(x))
    BY <2>1, CountedFacts
  <2> QED BY <1>2, <1>t, <2>1, <2>2
<1>4. CASE FillOutcome(f) = "inserted"
  <2>1. PICK o, q, n : o = OrderForFill(f) /\ q = AppliedQty(o, f) /\ n = NextFilled(o, f)
    OBVIOUS
  <2>2. /\ o \in Orders /\ HoldsFor(f[1], o) /\ q \in 1 .. Quantity[o]
        /\ n = orders[o].filled + q
    BY <1>4, <1>b, <1>t, <2>1, InsertedFill
  <2>3. fills' = [fills EXCEPT ![f] = q] /\ orders' = FillRow(o, f)
    BY <1>4, <2>1 DEF IngestExecutionFill
  <2>4. /\ orders[o].filled \in Nat /\ Quantity[o] \in Nat /\ q \in Nat /\ n \in Nat
    BY <1>t, <2>2, CountedFacts
  <2>5. \A x \in Orders : orders'[x].filled = IF x = o THEN n ELSE orders[x].filled
    BY <1>t, <2>1, <2>2, <2>3, <2>4 DEF FillRow, Row
  <2>6. fills[f] = 0
    <3>1. ~(fills[f] > 0)
      BY <1>4, <2>1, <2>2, <2>4 DEF FillOutcome
    <3> QED BY <1>t, <3>1
  <2>7. q <= Fill(f).qty /\ ExecutedQty[f] = Fill(f).qty
    <3>1. Fill(f).qty \in Nat
      BY <1>b, <1>t, FillFacts
    <3>2. n <= orders[o].filled + Fill(f).qty
      BY <2>1, <2>4, <3>1 DEF NextFilled, MinOf
    <3>3. q <= Fill(f).qty
      BY <2>2, <2>4, <3>1, <3>2
    <3> QED BY <1>b, <3>3 DEF ExecutedQty
  <2>8. f \in FillsOf(o) /\ \A x \in Orders : x # o => f \notin FillsOf(x)
    BY <1>b, <2>2 DEF FillsOf, HoldsFor
  <2>9. \A g \in FillIds : fills'[g] <= ExecutedQty[g]
    BY <1>t, <2>3, <2>7
  <2>10. ASSUME NEW x \in Orders PROVE orders'[x].filled = Total(fills', FillsOf(x))
    <3>1. FillsOf(x) \subseteq FillIds /\ orders[x].filled = Total(fills, FillsOf(x))
      BY CountedFacts
    <3>2. CASE x # o
      <4>1. SameNumbers(fills', FillsOf(x), fills, FillsOf(x))
        BY <1>t, <2>3, <2>8, <3>1, <3>2 DEF SameNumbers
      <4> QED BY <2>5, <3>1, <3>2, <4>1, UnitsSame DEF Total
    <3>3. CASE x = o
      <4>1. IsFiniteSet(Units(fills, FillsOf(x)))
        BY CountedFacts
      <4>2. OneGrows(fills, FillsOf(x), fills', FillsOf(x), f, q)
        BY <1>t, <2>3, <2>4, <2>6, <2>8, <3>1, <3>3 DEF OneGrows
      <4> QED BY <2>2, <2>5, <3>1, <3>3, <4>1, <4>2, TotalGrows
    <3> QED BY <3>2, <3>3
  <2> QED BY <1>2, <2>9, <2>10
<1> QED BY <1>3, <1>4

\* The fills, the rows and the broker's orders agree on what was executed.
THEOREM FillsAreCounted == Spec => []FillsCounted
<1>1. Init => FillsCounted
  <2> SUFFICES ASSUME Init PROVE FillsCounted
    OBVIOUS
  <2>1. /\ broker = << >> /\ fills = [f \in FillIds |-> 0]
        /\ \A o \in Orders : orders[o].filled = 0
    BY DEF Init, StoreInit, TrackerInit
  <2>2. \A f \in FillIds : ~Executed(f)
    BY <2>1 DEF Executed
  <2>3. ASSUME NEW o \in Orders
        PROVE  /\ IsFiniteSet(Units(ExecutedQty, FillsOf(o)))
               /\ Total(fills, FillsOf(o)) = 0
    <3>1. FillsOf(o) = {}
      BY <2>2 DEF FillsOf
    <3> QED BY <3>1, TotalEmpty
  <2>4. \A f \in FillIds : fills[f] <= ExecutedQty[f]
    BY <2>1, <2>2 DEF ExecutedQty
  <2> QED BY <2>1, <2>3, <2>4 DEF FillsCounted
<1>2. ASSUME OrderInv, OrderInv', FillsCounted, [Next]_vars PROVE FillsCounted'
  <2>1. CASE Ingests
    BY <1>2, <2>1, CountedIngest DEF Ingests
  <2>2. ASSUME UNCHANGED <<fills, books>>, FilledKept, BrokerStep PROVE FillsCounted'
    BY <1>2, <2>2, CountedQuiet, CountedTrade DEF BrokerStep
  <2> QED BY <1>2, <2>1, <2>2, FillSteps
<1> QED BY <1>1, <1>2, OrderInvariance, PTL DEF Spec

\* A row's filled_quantity is the sum of the fills recorded for it, within the
\* order, however often and by whomever a frame is delivered.
THEOREM FilledIsSum == Spec => []FilledIsSumOfFills
<1>1. FilledWithinOrder /\ FillsCounted => FilledIsSumOfFills
  BY DEF FillsCounted, FilledIsSumOfFills
<1> QED BY <1>1, FillsAreCounted, FilledWithin, PTL

-----------------------------------------------------------------------------
(***************************************************************************)
(* DeliveredFillsKept: what the broker executed fits into the order, so a  *)
(* fill that is clamped has been booked before, and a retry works on a row *)
(* that is stored.                                                         *)
(***************************************************************************)
\* A fill is only clamped when it has been booked before: what the broker
\* executed, recorded or not, fits into the order.
LEMMA ClampedIsRecorded ==
    ASSUME OrderInv, FillsCounted, NEW f \in FillIds, Executed(f),
           FillOutcome(f) = "fill-clamped"
    PROVE  fills[f] > 0
<1>t. /\ Assumptions /\ StoreTypeOK /\ HandlesAreOwn /\ fills \in [FillIds -> Nat]
      /\ ExecutedQty \in [FillIds -> Nat] /\ \A g \in FillIds : fills[g] <= ExecutedQty[g]
  BY CountedFacts
<1> SUFFICES ASSUME fills[f] = 0 PROVE FALSE
  BY <1>t
<1>1. PICK o, q : o = OrderForFill(f) /\ q = Fill(f).qty
  OBVIOUS
<1>2. OrdersForFill(f) # {} /\ AppliedQty(o, f) <= 0
  BY <1>1 DEF FillOutcome
<1>3. o \in Orders /\ orders[o].handle = f[1] /\ q \in Nat \ {0}
  BY <1>1, <1>2, <1>t, FillFacts DEF OrdersForFill
<1>4. HoldsFor(f[1], o)
  BY <1>3, <1>t DEF HandlesAreOwn, RowHandles, FillIds, Handles, NoHandle
<1>5. f \in FillsOf(o) /\ ExecutedQty[f] = q
  BY <1>1, <1>4 DEF FillsOf, HoldsFor, ExecutedQty
<1>6. PICK w : w = [fills EXCEPT ![f] = q]
  OBVIOUS
<1>7. FillsOf(o) \subseteq FillIds
  BY DEF FillsOf
<1>8. OneGrows(fills, FillsOf(o), w, FillsOf(o), f, q)
  BY <1>3, <1>5, <1>6, <1>7, <1>t DEF OneGrows
<1>9. /\ IsFiniteSet(Units(w, FillsOf(o)))
      /\ Total(w, FillsOf(o)) = orders[o].filled + q
  BY <1>3, <1>8, CountedFacts, TotalGrows
<1>10. \A g \in FillsOf(o) : w[g] \in Nat /\ ExecutedQty[g] \in Nat /\ w[g] <= ExecutedQty[g]
  BY <1>3, <1>5, <1>6, <1>7, <1>t
<1>11. Total(w, FillsOf(o)) <= Total(ExecutedQty, FillsOf(o))
  BY <1>3, <1>10, CountedFacts, TotalMonotone
<1>12. PICK n : n = broker[f[1]].open
  OBVIOUS
<1>13. n \in Nat /\ n + Total(ExecutedQty, FillsOf(o)) <= Quantity[o]
  BY <1>3, <1>4, <1>12, CountedFacts DEF HoldsFor, FillsCounted
<1>14. /\ Total(ExecutedQty, FillsOf(o)) \in Nat /\ orders[o].filled \in Nat
       /\ Quantity[o] \in Nat
  BY <1>3, CountedFacts
<1>15. orders[o].filled + q <= Quantity[o]
  BY <1>3, <1>9, <1>11, <1>13, <1>14
<1>16. AppliedQty(o, f) = q
  BY <1>1, <1>3, <1>14, <1>15 DEF AppliedQty, NextFilled, MinOf, MaxOf
<1> QED BY <1>2, <1>3, <1>16

\* A retry works on a stored row, and a stored row stays.
RetriesAreStored ==
    \A t \in Trackers : retry[t].pc \in {"read", "ingested"}
        => unmatched[retry[t].fill] # NotStored

\* What an ingestion keeps.
LEMMA IngestStores ==
    ASSUME OrderInv, FillsCounted, NEW f \in FillIds, NEW s,
           IngestExecutionFill(f, s)
    PROVE  /\ \A g \in FillIds : unmatched[g] # NotStored => unmatched'[g] # NotStored
           /\ delivered' = delivered \union {f}
           /\ \/ fills'[f] > 0 \/ unmatched'[f] # NotStored
              \/ s = FALSE
<1>t. /\ Assumptions /\ TypeOK /\ HandlesAreOwn /\ fills \in [FillIds -> Nat]
      /\ unmatched \in [FillIds -> UnmatchedRow]
  BY AssumptionsHold DEF OrderInv, TypeInv, TypeOK, TrackerTypeOK
<1>1. \A st \in {"PENDING", "DEAD_LETTER"} :
         /\ SaveUnmatched(f, st)[f] # NotStored
         /\ \A g \in FillIds : unmatched[g] # NotStored => SaveUnmatched(f, st)[g] # NotStored
  BY <1>t DEF SaveUnmatched, NotStored
<1>2. \/ unmatched' = unmatched
      \/ unmatched' = SaveUnmatched(f, "DEAD_LETTER")
      \/ unmatched' = SaveUnmatched(f, "PENDING")
  BY DEF IngestExecutionFill
<1>3. Executed(f) /\ delivered' = delivered \union {f}
  BY DEF IngestExecutionFill
<1>4. \/ RetryResolves(FillOutcome(f))
      \/ (FillOutcome(f) = "fill-clamped" /\ UNCHANGED fills)
      \/ s = FALSE
      \/ \E st \in {"PENDING", "DEAD_LETTER"} : unmatched' = SaveUnmatched(f, st)
  BY DEF IngestExecutionFill, RetryResolves
<1>5. RetryResolves(FillOutcome(f)) => fills'[f] > 0
  BY <1>t, IngestRecords
<1>6. FillOutcome(f) = "fill-clamped" => fills[f] > 0
  BY <1>3, ClampedIsRecorded
<1> QED BY <1>1, <1>2, <1>3, <1>4, <1>5, <1>6

\* An ingested frame is never dropped silently: its fill is recorded or the
\* frame is kept in unmatched_order_fills.
THEOREM DeliveredKept == Spec => []DeliveredFillsKept
<1>1. Init => RetriesAreStored /\ DeliveredFillsKept
  BY DEF Init, TrackerInit, RetriesAreStored, DeliveredFillsKept, Idle
<1>2. ASSUME OrderInv, FillsCounted, RetriesAreStored, DeliveredFillsKept, [Next]_vars
      PROVE  RetriesAreStored' /\ DeliveredFillsKept'
  <2>0. /\ Assumptions /\ TypeOK /\ HandlesAreOwn
        /\ retry \in [Trackers -> Retry] /\ fills \in [FillIds -> Nat]
        /\ unmatched \in [FillIds -> UnmatchedRow] /\ delivered \in SUBSET FillIds
    BY <1>2, AssumptionsHold DEF OrderInv, TypeInv, TypeOK, TrackerTypeOK
  <2>r. \A t \in Trackers : retry[t].pc \in {"read", "ingested"}
           => retry[t].fill \in FillIds
    BY <2>0 DEF Retry, Idle
  <2>1. CASE UNCHANGED trackerVars
    BY <1>2, <2>1 DEF trackerVars, RetriesAreStored, DeliveredFillsKept
  <2>i. ASSUME NEW f \in FillIds, NEW s, IngestExecutionFill(f, s),
               s = FALSE => unmatched[f] # NotStored
        PROVE  /\ DeliveredFillsKept'
               /\ \A g \in FillIds : unmatched[g] # NotStored => unmatched'[g] # NotStored
    <3>1. \A g \in FillIds : fills[g] > 0 => fills'[g] > 0
      BY <2>0, <2>i, IngestRecords
    <3>2. /\ \A g \in FillIds : unmatched[g] # NotStored => unmatched'[g] # NotStored
          /\ delivered' = delivered \union {f}
          /\ (fills'[f] > 0 \/ unmatched'[f] # NotStored \/ s = FALSE)
      BY <1>2, <2>i, IngestStores
    <3>3. fills'[f] > 0 \/ unmatched'[f] # NotStored
      BY <2>i, <3>2
    <3> QED BY <1>2, <2>0, <3>1, <3>2, <3>3 DEF DeliveredFillsKept
  <2>2. ASSUME NEW f \in FillIds, IngestFill(f)
        PROVE  RetriesAreStored' /\ DeliveredFillsKept'
    <3>1. UNCHANGED retry /\ IngestExecutionFill(f, TRUE)
      BY <2>2 DEF IngestFill
    <3> QED BY <1>2, <2>i, <2>r, <3>1 DEF RetriesAreStored
  <2>3. ASSUME NEW t \in Trackers, NEW f \in FillIds, RetryRead(t, f)
        PROVE  RetriesAreStored' /\ DeliveredFillsKept'
    <3>1. unmatched[f] # NotStored
      BY <2>3 DEF RetryRead, NotStored
    <3>2. /\ UNCHANGED <<fills, unmatched, delivered>>
          /\ \A u \in Trackers : u # t => retry'[u] = retry[u]
          /\ retry'[t].fill = f
      BY <2>0, <2>3 DEF RetryRead
    <3> QED BY <1>2, <3>1, <3>2 DEF RetriesAreStored, DeliveredFillsKept
  <2>4. ASSUME NEW t \in Trackers, RetryIngest(t)
        PROVE  RetriesAreStored' /\ DeliveredFillsKept'
    <3>1. PICK f \in FillIds : f = retry[t].fill
      BY <2>4, <2>r DEF RetryIngest
    <3>2. /\ IngestExecutionFill(f, FALSE)
          /\ retry' = [retry EXCEPT ![t] =
                [pc |-> "ingested", fill |-> f,
                 attempts |-> retry[t].attempts, outcome |-> FillOutcome(f)]]
      BY <2>4, <3>1 DEF RetryIngest
    <3>3. unmatched[f] # NotStored
      BY <1>2, <2>4, <3>1 DEF RetriesAreStored, RetryIngest
    <3>4. /\ \A u \in Trackers : u # t => retry'[u] = retry[u]
          /\ retry'[t].fill = f
      BY <2>0, <3>2
    <3> QED BY <1>2, <2>i, <2>r, <3>2, <3>3, <3>4 DEF RetriesAreStored
  <2>5. ASSUME NEW t \in Trackers, RetryMark(t)
        PROVE  RetriesAreStored' /\ DeliveredFillsKept'
    <3>1. PICK f \in FillIds : f = retry[t].fill
      BY <2>5, <2>r DEF RetryMark
    <3>2. PICK a, x : a = retry[t].attempts + 1 /\ x = retry[t].outcome
      OBVIOUS
    <3>3. a \in Nat \ {0}
      BY <2>0, <2>5, <3>2 DEF RetryMark, Retry, Idle, Assumptions
    <3>4. /\ UNCHANGED <<fills, delivered>> /\ retry' = [retry EXCEPT ![t] = Idle]
          /\ unmatched' = [unmatched EXCEPT ![f] = MarkUnmatched(@, x, a)]
      BY <2>5, <3>1, <3>2 DEF RetryMark
    <3>5. MarkUnmatched(unmatched[f], x, a) # NotStored
      BY <2>0, <3>3 DEF MarkUnmatched, UnmatchedRow, NotStored
    <3>6. \A g \in FillIds : unmatched[g] # NotStored => unmatched'[g] # NotStored
      BY <2>0, <3>4, <3>5
    <3>7. \A u \in Trackers : u # t => retry'[u] = retry[u]
      BY <2>0, <3>4
    <3>8. retry'[t].pc = "idle"
      BY <2>0, <3>4 DEF Idle
    <3>9. RetriesAreStored'
      BY <1>2, <2>r, <3>6, <3>7, <3>8 DEF RetriesAreStored
    <3> QED BY <1>2, <2>0, <3>4, <3>6, <3>9 DEF DeliveredFillsKept
  <2>6. ASSUME NEW t \in Trackers, RetryAborts(t)
        PROVE  RetriesAreStored' /\ DeliveredFillsKept'
    BY <1>2, <2>0, <2>6 DEF RetryAborts, RetriesAreStored,
       DeliveredFillsKept, Idle
  <2> QED BY <1>2, <2>1, <2>2, <2>3, <2>4, <2>5, <2>6 DEF Next, TrackerNext,
             vars, BeRequest, BeCancel, Trade
<1> QED BY <1>1, <1>2, OrderInvariance, FillsAreCounted, PTL DEF Spec

-----------------------------------------------------------------------------
(***************************************************************************)
(* BooksMatchFills is inductive once its sums are known to be finite: a buy *)
(* adds its fill to its own book, a sell takes at most its fill out of one. *)
(***************************************************************************)
\* What the books hold.
Quantities == [b \in Books |-> MaxOf(0, books[b])]

\* The sums over the books and over the rows are finite.
BooksCounted ==
    /\ IsFiniteSet(Units(Quantities, Books))
    /\ \A os \in SUBSET Orders : IsFiniteSet(Units(rowFilled, os))
    /\ BooksMatchFills

\* A fill of a buy goes to its own book; a sell takes at most what it filled
\* out of one book, never out of one that no sell can reach.
LEMMA BookMoves ==
    ASSUME Assumptions, TrackerTypeOK, NEW o \in Orders, NEW q \in Nat,
           ApplyPositionBookFill(o, q)
    PROVE  \/ Side[o] = "buy" /\ OneGrows(Quantities, Books, Quantities', Books, BookOf[o], q)
           \/ Side[o] = "sell" /\ UNCHANGED Quantities
           \/ /\ Side[o] = "sell"
              /\ \E b \in Books : \E d \in 0 .. q :
                    /\ OneGrows(Quantities', Books, Quantities, Books, b, d)
                    /\ ~OnlyBought(b)
<1>t. /\ books \in [Books -> Nat \union {NoBook}] /\ BookOf[o] \in Books
      /\ Side[o] \in {"buy", "sell"} /\ NoBook = -1
  <2>1. BookOf[o] \in Books /\ Side[o] \in {"buy", "sell"}
    BY SideAssumption DEF Assumptions
  <2>2. books \in [Books -> Nat \union {NoBook}]
    BY DEF TrackerTypeOK
  <2> QED BY <2>1, <2>2 DEF NoBook
<1>1. BooksForFill(o) \subseteq {b \in Books : books[b] # NoBook}
  BY <1>t DEF BooksForFill, OwnBook, ManualBooks
<1>2. CASE Side[o] = "buy"
  <2>1. books' = [books EXCEPT ![BookOf[o]] = MaxOf(0, @) + q]
    BY <1>2 DEF ApplyPositionBookFill, BooksForFill, OwnBook, BookAfter
  <2>2. /\ \A b \in Books : Quantities[b] \in Nat
        /\ Quantities'[BookOf[o]] = Quantities[BookOf[o]] + q
        /\ \A b \in Books : b # BookOf[o] => Quantities'[b] = Quantities[b]
    BY <1>t, <2>1 DEF Quantities, MaxOf
  <2> QED BY <1>2, <1>t, <2>2 DEF OneGrows
<1>3. CASE Side[o] = "sell" /\ UNCHANGED books
  BY <1>3 DEF Quantities
<1>4. ASSUME Side[o] = "sell", NEW b \in BooksForFill(o),
             books' = [books EXCEPT ![b] = BookAfter(o, b, q)]
      PROVE  \E d \in 0 .. q : /\ OneGrows(Quantities', Books, Quantities, Books, b, d)
                               /\ ~OnlyBought(b)
  <2>1. b \in Books /\ books[b] \in Nat
    BY <1>1, <1>t, <1>4
  <2>2. books'[b] = MaxOf(0, books[b] - q)
    BY <1>4, <1>t, <2>1 DEF BookAfter
  <2>3. PICK d : d = books[b] - books'[b]
    OBVIOUS
  <2>4. d \in 0 .. q /\ books'[b] \in Nat /\ books[b] = books'[b] + d
    BY <2>1, <2>2, <2>3 DEF MaxOf
  <2>5. Quantities'[b] = books'[b] /\ Quantities[b] = books[b]
    BY <2>1, <2>4 DEF Quantities, MaxOf
  <2>6. \A c \in Books : c # b => Quantities'[c] = Quantities[c]
    BY <1>4, <1>t DEF Quantities
  <2>7. OneGrows(Quantities', Books, Quantities, Books, b, d)
    BY <2>1, <2>4, <2>5, <2>6 DEF OneGrows
  <2>8. ~OnlyBought(b)
    BY <1>4 DEF OnlyBought, Sided, BooksForFill, OwnBook, ManualBooks
  <2> QED BY <2>4, <2>7, <2>8
<1> QED BY <1>1, <1>2, <1>3, <1>4, <1>t DEF ApplyPositionBookFill

\* What a booked fill does to a sum over rows.
LEMMA RowsGrow ==
    ASSUME NEW o \in Orders, NEW q \in Nat, NEW os \in SUBSET Orders,
           \A x \in Orders : rowFilled[x] \in Nat,
           \A x \in Orders : rowFilled'[x] = IF x = o THEN rowFilled[x] + q ELSE rowFilled[x],
           IsFiniteSet(Units(rowFilled, os))
    PROVE  /\ IsFiniteSet(Units(rowFilled', os)) /\ Total(rowFilled, os) \in Nat
           /\ Total(rowFilled', os) = Total(rowFilled, os) + (IF o \in os THEN q ELSE 0)
<1>1. CASE o \in os
  <2>1. OneGrows(rowFilled, os, rowFilled', os, o, q)
    BY <1>1 DEF OneGrows
  <2> QED BY <1>1, <2>1, TotalGrows
<1>2. CASE o \notin os
  <2>1. SameNumbers(rowFilled', os, rowFilled, os)
    BY <1>2 DEF SameNumbers
  <2>2. Units(rowFilled', os) = Units(rowFilled, os)
    BY <2>1, UnitsSame
  <2> QED BY <1>2, <2>2, FS_CardinalityType DEF Total
<1> QED BY <1>1, <1>2

\* The sums after a booked fill.
LEMMA BooksIngest ==
    ASSUME OrderInv, BooksCounted, NEW f \in FillIds, NEW s,
           IngestExecutionFill(f, s), FillOutcome(f) = "inserted"
    PROVE  BooksCounted'
<1>t. /\ Assumptions /\ StoreTypeOK /\ TrackerTypeOK /\ HandlesAreOwn
      /\ orders \in [Orders -> Row]
  BY AssumptionsHold DEF OrderInv, TypeInv, TypeOK, StoreTypeOK
<1>1. PICK o, q : o = OrderForFill(f) /\ q = AppliedQty(o, f)
  OBVIOUS
<1>2. /\ o \in Orders /\ q \in 1 .. Quantity[o] /\ Quantity[o] \in Nat
      /\ NextFilled(o, f) = orders[o].filled + q
  BY <1>1, <1>t, InsertedFill DEF IngestExecutionFill, Assumptions
<1>3. orders' = FillRow(o, f) /\ ApplyPositionBookFill(o, q)
  BY <1>1 DEF IngestExecutionFill
<1>4. q \in Nat /\ orders[o].filled \in Nat /\ NextFilled(o, f) \in Nat
  BY <1>2, <1>t DEF Row
<1>5. rowFilled' = [rowFilled EXCEPT ![o] = NextFilled(o, f)]
  BY <1>2, <1>3, <1>4, <1>t, FillMoves
<1>6. /\ \A x \in Orders : rowFilled[x] \in Nat
      /\ \A x \in Orders : rowFilled'[x] = IF x = o THEN rowFilled[x] + q ELSE rowFilled[x]
  BY <1>2, <1>5, <1>t DEF rowFilled, Row
<1>7. ASSUME NEW os \in SUBSET Orders
      PROVE  /\ IsFiniteSet(Units(rowFilled', os)) /\ Total(rowFilled, os) \in Nat
             /\ Total(rowFilled', os) = Total(rowFilled, os) + (IF o \in os THEN q ELSE 0)
  <2>1. IsFiniteSet(Units(rowFilled, os))
    BY DEF BooksCounted
  <2> QED BY <1>2, <1>4, <1>6, <2>1, RowsGrow
<1>8. PICK buys, sells, bought, sold, held :
        /\ buys = Sided("buy") /\ sells = Sided("sell")
        /\ bought = Total(rowFilled, buys) /\ sold = Total(rowFilled, sells)
        /\ held = Total(Quantities, Books)
  OBVIOUS
<1>9. /\ buys \in SUBSET Orders /\ sells \in SUBSET Orders
      /\ o \in buys <=> Side[o] = "buy"
      /\ o \in sells <=> Side[o] = "sell"
  BY <1>2, <1>8 DEF Sided
<1>10. /\ bought \in Nat /\ sold \in Nat /\ held \in Nat
       /\ held <= bought /\ held >= bought - sold
       /\ \A b \in Books : OnlyBought(b) =>
             Quantities[b] = Total(rowFilled, {x \in Orders : BookOf[x] = b})
  <2>1. held \in Nat
    BY <1>8, FS_CardinalityType DEF BooksCounted, Total
  <2>2. held = Held /\ bought = FilledBy(buys) /\ sold = FilledBy(sells)
    BY <1>8 DEF Held, FilledBy, Quantities, rowFilled
  <2>3. \A b \in Books : OnlyBought(b) =>
             Quantities[b] = Total(rowFilled, {x \in Orders : BookOf[x] = b})
    BY DEF BooksCounted, BooksMatchFills, FilledBy, Quantities, rowFilled
  <2> QED BY <1>7, <1>8, <1>9, <2>1, <2>2, <2>3 DEF BooksCounted, BooksMatchFills
<1>11. PICK held1, bought1, sold1 :
         /\ held1 = Total(Quantities', Books)
         /\ bought1 = Total(rowFilled', buys) /\ sold1 = Total(rowFilled', sells)
  OBVIOUS
<1>12. ASSUME held1 <= bought1, held1 >= bought1 - sold1,
              IsFiniteSet(Units(Quantities', Books)),
              \A b \in Books : OnlyBought(b) =>
                 Quantities'[b] = Total(rowFilled', {x \in Orders : BookOf[x] = b})
       PROVE  BooksCounted'
  <2>1. held1 = Held' /\ bought1 = FilledBy(Sided("buy"))' /\ sold1 = FilledBy(Sided("sell"))'
    BY <1>8, <1>11 DEF Held, FilledBy, Quantities, rowFilled, Sided
  <2>2. \A b \in Books : OnlyBought(b) =>
           MaxOf(0, books'[b]) = FilledBy({x \in Orders : BookOf[x] = b})'
    BY <1>12 DEF FilledBy, Quantities, rowFilled
  <2>3. BooksMatchFills'
    BY <1>12, <2>1, <2>2 DEF BooksMatchFills, OnlyBought, Sided
  <2> QED BY <1>7, <1>12, <2>3 DEF BooksCounted
<1>13. /\ bought1 = bought + (IF o \in buys THEN q ELSE 0)
       /\ sold1 = sold + (IF o \in sells THEN q ELSE 0)
  BY <1>7, <1>8, <1>9, <1>11
<1>14. CASE /\ Side[o] = "buy"
            /\ OneGrows(Quantities, Books, Quantities', Books, BookOf[o], q)
  <2>1. IsFiniteSet(Units(Quantities', Books)) /\ held1 = held + q
    BY <1>8, <1>11, <1>14, TotalGrows DEF BooksCounted
  <2>2. ASSUME NEW b \in Books, OnlyBought(b)
        PROVE  Quantities'[b] = Total(rowFilled', {x \in Orders : BookOf[x] = b})
    <3>1. PICK os : os = {x \in Orders : BookOf[x] = b}
      OBVIOUS
    <3>2. /\ Total(rowFilled', os) = Total(rowFilled, os) + (IF o \in os THEN q ELSE 0)
          /\ Total(rowFilled, os) \in Nat /\ Quantities[b] = Total(rowFilled, os)
      BY <1>7, <1>10, <2>2, <3>1
    <3>3. Quantities'[b] = Quantities[b] + (IF b = BookOf[o] THEN q ELSE 0)
      BY <1>14, <3>2 DEF OneGrows
    <3> QED BY <1>2, <3>1, <3>2, <3>3
  <2> QED BY <1>4, <1>9, <1>10, <1>12, <1>13, <1>14, <2>1, <2>2
<1>15. ASSUME Side[o] = "sell", NEW d \in 0 .. q, held = held1 + d, held1 \in Nat,
              IsFiniteSet(Units(Quantities', Books)),
              \A b \in Books : OnlyBought(b) => Quantities'[b] = Quantities[b]
       PROVE  BooksCounted'
  <2>1. ASSUME NEW b \in Books, OnlyBought(b)
        PROVE  Quantities'[b] = Total(rowFilled', {x \in Orders : BookOf[x] = b})
    <3>1. PICK os : os = {x \in Orders : BookOf[x] = b}
      OBVIOUS
    <3>2. /\ Total(rowFilled', os) = Total(rowFilled, os) + (IF o \in os THEN q ELSE 0)
          /\ Total(rowFilled, os) \in Nat /\ Quantities[b] = Total(rowFilled, os)
      BY <1>7, <1>10, <2>1, <3>1
    <3>3. o \notin os
      BY <1>2, <1>15, <2>1, <3>1 DEF OnlyBought, Sided
    <3> QED BY <1>15, <2>1, <3>1, <3>2, <3>3
  <2>2. held1 <= bought1 /\ held1 >= bought1 - sold1
    BY <1>4, <1>9, <1>10, <1>13, <1>15
  <2> QED BY <1>12, <1>15, <2>1, <2>2
<1>16. CASE Side[o] = "sell" /\ UNCHANGED Quantities
  <2>1. IsFiniteSet(Units(Quantities', Books)) /\ held = held1 + 0 /\ 0 \in 0 .. q /\ held1 \in Nat
    BY <1>4, <1>8, <1>10, <1>11, <1>16 DEF BooksCounted
  <2> QED BY <1>15, <1>16, <2>1
<1>17. ASSUME Side[o] = "sell", NEW b \in Books, NEW d \in 0 .. q,
              OneGrows(Quantities', Books, Quantities, Books, b, d), ~OnlyBought(b)
       PROVE  BooksCounted'
  <2>1. \A c \in Books : c # b => Quantities'[c] = Quantities[c]
    BY <1>17 DEF OneGrows
  <2>2. Quantities'[b] \in Nat /\ Quantities[b] = Quantities'[b] + d /\ d \in Nat
    BY <1>4, <1>17 DEF OneGrows
  <2>3. \A c \in Books : /\ Quantities'[c] \in Nat /\ Quantities[c] \in Nat
                         /\ Quantities'[c] <= Quantities[c]
    <3>1. \A c \in Books : Quantities[c] \in Nat
      BY <1>t DEF Quantities, MaxOf, TrackerTypeOK, NoBook
    <3> QED BY <2>1, <2>2, <3>1
  <2>4. IsFiniteSet(Units(Quantities, Books))
    BY DEF BooksCounted
  <2>5. IsFiniteSet(Units(Quantities', Books)) /\ Total(Quantities', Books) \in Nat
    BY <2>3, <2>4, TotalMonotone
  <2>6. held = held1 + d
    BY <1>8, <1>11, <1>17, <2>5, TotalGrows
  <2> QED BY <1>11, <1>15, <1>17, <2>1, <2>5, <2>6
<1>18. \/ Side[o] = "buy" /\ OneGrows(Quantities, Books, Quantities', Books, BookOf[o], q)
       \/ Side[o] = "sell" /\ UNCHANGED Quantities
       \/ /\ Side[o] = "sell"
          /\ \E b \in Books : \E d \in 0 .. q :
                /\ OneGrows(Quantities', Books, Quantities, Books, b, d)
                /\ ~OnlyBought(b)
  BY <1>2, <1>3, <1>4, <1>t, BookMoves
<1> QED BY <1>14, <1>16, <1>17, <1>18

\* The position books agree with the fills: they hold no more than was bought
\* and no less than was not sold again.
THEOREM BooksMatch == Spec => []BooksMatchFills
<1>1. Init => BooksCounted
  <2> SUFFICES ASSUME Init PROVE BooksCounted
    OBVIOUS
  <2>1. /\ \A b \in Books : Quantities[b] = 0
        /\ \A o \in Orders : rowFilled[o] = 0
    BY DEF Init, StoreInit, TrackerInit, Quantities, rowFilled, MaxOf, NoBook
  <2>2. IsFiniteSet(Units(Quantities, Books)) /\ Total(Quantities, Books) = 0
    BY <2>1, TotalEmpty
  <2>3. \A os \in SUBSET Orders : IsFiniteSet(Units(rowFilled, os)) /\ Total(rowFilled, os) = 0
    BY <2>1, TotalEmpty
  <2>4. Held = 0 /\ \A os \in SUBSET Orders : FilledBy(os) = 0
    BY <2>2, <2>3 DEF Held, FilledBy, Quantities, rowFilled
  <2>5. \A b \in Books : MaxOf(0, books[b]) = 0
    BY <2>1 DEF Quantities
  <2>6. FilledBy(Sided("buy")) = 0 /\ FilledBy(Sided("sell")) = 0
    BY <2>4 DEF Sided
  <2>7. BooksMatchFills
    BY <2>4, <2>5, <2>6 DEF BooksMatchFills
  <2> QED BY <2>2, <2>3, <2>7 DEF BooksCounted
<1>2. ASSUME BooksCounted, UNCHANGED books, FilledKept PROVE BooksCounted'
  <2>1. Quantities' = Quantities /\ rowFilled' = rowFilled
    BY <1>2 DEF Quantities, rowFilled, FilledKept
  <2>2. Held' = Held /\ \A os \in SUBSET Orders : FilledBy(os)' = FilledBy(os)
    BY <2>1 DEF Held, FilledBy, Quantities, rowFilled
  <2>3. /\ FilledBy(Sided("buy"))' = FilledBy(Sided("buy"))
        /\ FilledBy(Sided("sell"))' = FilledBy(Sided("sell"))
    BY <2>2 DEF Sided
  <2>4. BooksMatchFills'
    BY <1>2, <2>2, <2>3 DEF BooksCounted, BooksMatchFills, OnlyBought, Sided
  <2> QED BY <1>2, <2>1, <2>4 DEF BooksCounted
<1>3. ASSUME OrderInv, BooksCounted, [Next]_vars PROVE BooksCounted'
  <2>1. ASSUME NEW f \in FillIds, NEW s, IngestExecutionFill(f, s) PROVE BooksCounted'
    <3>1. CASE FillOutcome(f) = "inserted"
      BY <1>3, <2>1, <3>1, BooksIngest
    <3>2. CASE FillOutcome(f) # "inserted"
      <4>1. UNCHANGED <<books, orders>>
        BY <2>1, <3>2 DEF IngestExecutionFill
      <4> QED BY <1>2, <1>3, <4>1 DEF FilledKept
    <3> QED BY <3>1, <3>2
  <2> QED BY <1>2, <1>3, <2>1, FillSteps DEF Ingests
<1>4. BooksCounted => BooksMatchFills
  BY DEF BooksCounted
<1> QED BY <1>1, <1>3, <1>4, OrderInvariance, PTL DEF Spec
=============================================================================
