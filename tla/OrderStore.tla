----------------------------- MODULE OrderStore -----------------------------
(***************************************************************************)
(* The state the executor, the tracker, the back end (BE) and the broker   *)
(* share: the `orders` table and the orders the broker holds.  The         *)
(* conditional updates of OrderRepositoryImpl, each one SQL statement, are *)
(* operators from a table to a table, so that the components built on top  *)
(* of them read like the code that calls them.                             *)
(*                                                                         *)
(* A row keeps the columns the properties tell apart: its status, the      *)
(* broker handle (broker_order_id and external_order_id are always written *)
(* together, so they are one field) and filled_quantity.                   *)
(***************************************************************************)
EXTENDS Integers, Sequences, FiniteSets

CONSTANTS
    Orders,     \* The ids of the order rows.
    Quantity,   \* The quantity of each row.
    MaxHandles, \* Bound: the orders the broker may ever hold.
    MaxFills,   \* Bound: the executions the broker reports for one order.
    MaxFaults   \* Bound: crashes, lost responses and failed writes.

ASSUME OrdersAssumption == Orders \subseteq Nat /\ IsFiniteSet(Orders)
ASSUME QuantityAssumption == Quantity \in [Orders -> Nat \ {0}]
ASSUME BoundsAssumption ==
    MaxHandles \in Nat /\ MaxFills \in Nat /\ MaxFaults \in Nat

VARIABLES
    orders,     \* The orders table.
    broker,     \* The broker's orders; an order's handle is its position.
    faults      \* How many faults have happened (a history variable).

storeVars == <<orders, broker, faults>>

OrderStatus ==
    {"CREATED", "SUBMITTING", "REQUESTED", "ACCEPTED", "PARTIALLY_FILLED",
     "FILLED", "CANCEL_REQUESTED", "CANCEL_SUBMITTING", "CANCELLED",
     "REJECTED", "FAILED", "EXPIRED"}

\* The statuses resolveFillStatus never leaves, and FILLED.
ClosedStatus == {"CANCELLED", "REJECTED", "FAILED", "EXPIRED"}
Terminal == ClosedStatus \union {"FILLED"}

\* A NULL broker handle.
NoHandle == 0
Handles == 1 .. MaxHandles

Row == [status : OrderStatus, handle : Handles \union {NoHandle},
        filled : Nat]

\* A broker order: the row it was placed for, the quantity still open, the
\* executions it reported, and whether its REST call began only after the
\* row's cancellation had been claimed (a history field).
Execution == [qty : Nat \ {0}, malformed : BOOLEAN]
BrokerOrder == [order : Orders, open : Nat, fills : Seq(Execution),
                late : BOOLEAN]

StoreTypeOK ==
    /\ orders \in [Orders -> Row]
    /\ broker \in Seq(BrokerOrder)
    /\ Len(broker) <= MaxHandles
    /\ faults \in 0 .. MaxFaults

StoreInit ==
    /\ orders = [o \in Orders |->
                    [status |-> "CREATED", handle |-> NoHandle, filled |-> 0]]
    /\ broker = << >>
    /\ faults = 0

InStatus(s) == {o \in Orders : orders[o].status = s}

(***************************************************************************)
(* OrderRepositoryImpl                                                     *)
(***************************************************************************)

\* Faulty variant: the rows are selected but their status is not flipped.
ClaimRowsWithoutFlip(rows, claimStatus) == orders

\* claimBatch and findAndClaimRequestedById: SELECT ... FOR UPDATE SKIP
\* LOCKED and the status flip are one transaction.
ClaimRows(rows, claimStatus) ==
    [o \in Orders |->
        IF o \in rows THEN [orders[o] EXCEPT !.status = claimStatus]
                      ELSE orders[o]]

\* The rows one claimBatch may return: rows in fromStatus, without those a
\* concurrent transaction has locked, up to the batch size.
ClaimableBatches(fromStatus, batchSize) ==
    {rows \in SUBSET InStatus(fromStatus) : Cardinality(rows) <= batchSize}

\* UPDATE ... WHERE id = o AND status IN expected.
StatusIsExpected(o, expected) == orders[o].status \in expected

\* Faulty variant: UPDATE ... WHERE id = o.
UpdateAnyStatus(o, expected, status) == [orders EXCEPT ![o].status = status]

UpdateStatusFromExpected(o, expected, status) ==
    IF StatusIsExpected(o, expected)
    THEN [orders EXCEPT ![o].status = status]
    ELSE orders

\* Faulty variant: the ACCEPTED write overwrites a cancellation.
AcceptAnyStatus(o, expected, handle) ==
    [orders EXCEPT ![o].status = "ACCEPTED", ![o].handle = handle]

\* The same update when it also sets the broker handle (the ACCEPTED write).
AcceptFromExpected(o, expected, handle) ==
    IF StatusIsExpected(o, expected)
    THEN [orders EXCEPT ![o].status = "ACCEPTED", ![o].handle = handle]
    ELSE orders

\* Faulty variant: rows being cancelled are left out.
AttachWhileSubmitting(o, expected, handle) ==
    IF StatusIsExpected(o, {"SUBMITTING"}) /\ orders[o].handle = NoHandle
    THEN [orders EXCEPT ![o].handle = handle]
    ELSE orders

\* Faulty variant: UPDATE ... without WHERE id = o.
AttachToEveryRow(o, expected, handle) ==
    [x \in Orders |->
        IF StatusIsExpected(x, expected) /\ orders[x].handle = NoHandle
        THEN [orders[x] EXCEPT !.handle = handle] ELSE orders[x]]

\* UPDATE ... WHERE id = o AND status IN expected AND both handle columns
\* are NULL.
AttachBrokerOrderIdFromExpected(o, expected, handle) ==
    IF StatusIsExpected(o, expected) /\ orders[o].handle = NoHandle
    THEN [orders EXCEPT ![o].handle = handle]
    ELSE orders

(***************************************************************************)
(* The broker, as the vendor's REST and execution-stream clients see it.   *)
(* External: modelled from how the code uses it.                           *)
(***************************************************************************)
BrokerAccepts(o, late) ==
    /\ Len(broker) < MaxHandles
    /\ broker' = Append(broker, [order |-> o, open |-> Quantity[o],
                                 fills |-> << >>, late |-> late])

BrokerCancels(h) == broker' = [broker EXCEPT ![h].open = 0]

\* An execution of q shares.  Its frame may reach the tracker malformed: a
\* side that does not match the row, or a quantity that does not parse.
BrokerExecutes(h, q, malformed) ==
    /\ h \in DOMAIN broker
    /\ Len(broker[h].fills) < MaxFills
    /\ q <= broker[h].open
    /\ broker' = [broker EXCEPT
                    ![h].open = @ - q,
                    ![h].fills = Append(@, [qty |-> q,
                                            malformed |-> malformed])]

\* Ids of executions (external_fill_id): the n-th execution of a handle.
FillIds == Handles \X (1 .. MaxFills)
Executed(f) == f[1] \in DOMAIN broker /\ f[2] \in DOMAIN broker[f[1]].fills
Fill(f) == broker[f[1]].fills[f[2]]
=============================================================================
