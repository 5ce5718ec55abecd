------------------------------- MODULE Tracker ------------------------------
(***************************************************************************)
(* The tracker role's fill pipeline (ExecutionPersistenceService): every   *)
(* execution frame is ingested in one transaction that locks the order     *)
(* row, records the fill once, moves the row and its position book, or     *)
(* parks the frame in unmatched_order_fills, from where a maintenance loop *)
(* (FillMaintenanceScheduler, one per tracker pod) retries it.             *)
(*                                                                         *)
(* Frames reach a tracker over a WebSocket: they may be late, reordered,   *)
(* delivered twice (two pods hold the same account while a lease changes   *)
(* hands) or never (the socket was down).                                  *)
(***************************************************************************)
EXTENDS OrderStore

CONSTANTS
    Trackers,      \* The tracker pods.
    MaxAttempts,   \* UNMATCHED_MAX_ATTEMPTS.
    Side,          \* "buy" or "sell", of each order.
    Books,         \* The position books of the account and stock.
    BookOf,        \* The book an order's fills belong to.
    StrategyBooks, \* The books of a strategy; the others are MANUAL.
    NullBook       \* The MANUAL book whose requested_by_user_id is NULL.

ASSUME MaxAttemptsAssumption == MaxAttempts \in Nat \ {0}
ASSUME SideAssumption == Side \in [Orders -> {"buy", "sell"}]
ASSUME BooksAssumption ==
    /\ BookOf \in [Orders -> Books]
    /\ StrategyBooks \subseteq Books
    /\ NullBook \in Books \ StrategyBooks

VARIABLES
    fills,         \* The fills table: quantity applied, 0 if not recorded.
    unmatched,     \* unmatched_order_fills: status and attempts of a fill.
    books,         \* position_books: quantity, NoBook if there is no row.
    delivered,     \* The fills whose ingestion committed (history).
    retry          \* Each tracker's unmatched row in hand.

trackerVars == <<fills, unmatched, books, delivered, retry>>

NoBook == -1
NotStored == [status |-> "NONE", attempts |-> 0]
UnmatchedRow == [status : {"NONE", "PENDING", "RESOLVED", "DEAD_LETTER"},
                 attempts : 0 .. MaxAttempts]

Outcome == {"order-not-found", "mismatch", "fill-clamped", "duplicate",
            "inserted"}
Idle == [pc |-> "idle"]
Retry == {Idle}
         \union [pc : {"read"}, fill : FillIds, attempts : 0 .. MaxAttempts]
         \union [pc : {"ingested"}, fill : FillIds,
                 attempts : 0 .. MaxAttempts, outcome : Outcome]

TrackerTypeOK ==
    /\ fills \in [FillIds -> Nat]
    /\ unmatched \in [FillIds -> UnmatchedRow]
    /\ books \in [Books -> Nat \union {NoBook}]
    /\ delivered \in SUBSET FillIds
    /\ retry \in [Trackers -> Retry]

TrackerInit ==
    /\ fills = [f \in FillIds |-> 0]
    /\ unmatched = [f \in FillIds |-> NotStored]
    /\ books = [b \in Books |-> NoBook]
    /\ delivered = {}
    /\ retry = [t \in Trackers |-> Idle]

-----------------------------------------------------------------------------
(***************************************************************************)
(* ingestExecutionFill                                                     *)
(***************************************************************************)
MinOf(a, b) == IF a <= b THEN a ELSE b
MaxOf(a, b) == IF a >= b THEN a ELSE b

\* findLockedOrderForFill: the rows that carry the frame's vendor order id.
OrdersForFill(f) == {o \in Orders : orders[o].handle = f[1]}
OrderForFill(f) ==
    CHOOSE o \in OrdersForFill(f) : \A x \in OrdersForFill(f) : x <= o

\* buildFillAggregate
NextFilled(o, f) == MinOf(Quantity[o], orders[o].filled + Fill(f).qty)
AppliedQty(o, f) == MaxOf(0, NextFilled(o, f) - orders[o].filled)

\* Faulty variant: a fill reopens a closed row.
ResolveOpenStatus(current, remaining) ==
    IF remaining <= 0 THEN "FILLED" ELSE "PARTIALLY_FILLED"

ResolveFillStatus(current, remaining) ==
    CASE current \in ClosedStatus -> current
      [] current \notin ClosedStatus /\ remaining <= 0 -> "FILLED"
      [] current \in {"CANCEL_REQUESTED", "CANCEL_SUBMITTING"}
         /\ remaining > 0 -> current
      [] OTHER -> "PARTIALLY_FILLED"

FillRow(o, f) ==
    [orders EXCEPT
        ![o].status = ResolveFillStatus(@, Quantity[o] - NextFilled(o, f)),
        ![o].filled = NextFilled(o, f)]

\* Faulty variant: the fills table is not asked whether a fill is known.
FillOutcomeWithoutDedup(f) ==
    LET o == OrderForFill(f)
    IN  CASE OrdersForFill(f) = {} -> "order-not-found"
          [] OrdersForFill(f) # {} /\ Fill(f).malformed -> "mismatch"
          [] OrdersForFill(f) # {} /\ ~Fill(f).malformed
             /\ AppliedQty(o, f) <= 0 -> "fill-clamped"
          [] OTHER -> "inserted"

\* What the transaction does with a frame, in the order of its checks.  A
\* clamped fill returns before the fills table is asked whether it is known.
FillOutcome(f) ==
    LET o == OrderForFill(f)
    IN  CASE OrdersForFill(f) = {} -> "order-not-found"
          [] OrdersForFill(f) # {} /\ Fill(f).malformed -> "mismatch"
          [] OrdersForFill(f) # {} /\ ~Fill(f).malformed
             /\ AppliedQty(o, f) <= 0 -> "fill-clamped"
          [] OrdersForFill(f) # {} /\ ~Fill(f).malformed
             /\ AppliedQty(o, f) > 0 /\ fills[f] > 0 -> "duplicate"
          [] OTHER -> "inserted"

\* applyPositionBookFill's lookup.  A sell without a book of its own falls
\* back on "the" MANUAL book with a NULL user; TypeORM ignores a null in a
\* where clause, so that is any MANUAL book of the account and stock.
OwnBook(o) == {BookOf[o]} \ {NullBook}
ManualBooks == Books \ StrategyBooks
BooksForFill(o) ==
    LET own == {b \in OwnBook(o) : books[b] # NoBook}
        fallback == {b \in ManualBooks : books[b] # NoBook}
    IN  IF own # {} THEN own
        ELSE IF Side[o] = "sell" /\ BookOf[o] \notin StrategyBooks
             THEN fallback ELSE {}

\* A buy without a book inserts one; if the row exists after all, the unique
\* index aborts the transaction.
InsertsExistingBook(o) ==
    Side[o] = "buy" /\ BooksForFill(o) = {} /\ books[BookOf[o]] # NoBook

IngestAborts(f) ==
    FillOutcome(f) = "inserted" /\ InsertsExistingBook(OrderForFill(f))

\* Faulty variant: the fill replaces the book's quantity.
BookOverwritten(o, b, qty) == qty

\* Faulty variant: a sell is booked like a buy.
BookIgnoresSide(o, b, qty) == MaxOf(0, books[b]) + qty

BookAfter(o, b, qty) ==
    IF Side[o] = "buy" THEN MaxOf(0, books[b]) + qty
                       ELSE MaxOf(0, books[b] - qty)

ApplyPositionBookFill(o, qty) ==
    \/ \E b \in BooksForFill(o) :
          books' = [books EXCEPT ![b] = BookAfter(o, b, qty)]
    \/ /\ BooksForFill(o) = {}
       /\ Side[o] = "buy"
       /\ books' = [books EXCEPT ![BookOf[o]] = BookAfter(o, BookOf[o], qty)]
    \/ /\ BooksForFill(o) = {}
       /\ Side[o] = "sell"   \* position-book-missing-sell
       /\ UNCHANGED books

\* Faulty variant: the frame is dropped.
SaveNothing(f, status) == unmatched

\* saveUnmatchedFill: INSERT ... ON CONFLICT DO NOTHING.
SaveUnmatched(f, status) ==
    IF unmatched[f] = NotStored
    THEN [unmatched EXCEPT ![f] = [status |-> status, attempts |-> 0]]
    ELSE unmatched

\* The transaction.  It is not enabled when the unique index aborts it.
IngestExecutionFill(f, storeUnmatched) ==
    LET o == OrderForFill(f)
        outcome == FillOutcome(f)
    IN  /\ Executed(f)
        /\ \/ /\ outcome = "inserted"
              /\ ~IngestAborts(f)
              /\ fills' = [fills EXCEPT ![f] = AppliedQty(o, f)]
              /\ orders' = FillRow(o, f)
              /\ ApplyPositionBookFill(o, AppliedQty(o, f))
              /\ unmatched' = IF Side[o] = "sell" /\ BooksForFill(o) = {}
                              THEN SaveUnmatched(f, "DEAD_LETTER")
                              ELSE unmatched
           \/ /\ outcome \in {"order-not-found", "mismatch"}
              /\ unmatched' = IF storeUnmatched
                              THEN SaveUnmatched(f,
                                      IF outcome = "order-not-found"
                                      THEN "PENDING" ELSE "DEAD_LETTER")
                              ELSE unmatched
              /\ UNCHANGED <<fills, orders, books>>
           \/ /\ outcome \in {"fill-clamped", "duplicate"}
              /\ UNCHANGED <<fills, orders, books, unmatched>>
        /\ delivered' = delivered \union {f}
        /\ UNCHANGED <<broker, faults>>

\* A frame arrives from the execution stream (ExecutionService.ingestFill).
IngestFill(f) ==
    /\ IngestExecutionFill(f, TRUE)
    /\ UNCHANGED retry

-----------------------------------------------------------------------------
(***************************************************************************)
(* retryUnmatchedFills, one row per pass.  Rows are read without a claim,  *)
(* so two pods may hold the same one, and the attempts written back are    *)
(* the ones read.                                                          *)
(***************************************************************************)
RetryRead(t, f) ==
    /\ retry[t] = Idle
    /\ unmatched[f].status = "PENDING"
    /\ retry' = [retry EXCEPT ![t] = [pc |-> "read", fill |-> f,
                                      attempts |-> unmatched[f].attempts]]
    /\ UNCHANGED <<storeVars, fills, unmatched, books, delivered>>

RetryIngest(t) ==
    /\ retry[t].pc = "read"
    /\ IngestExecutionFill(retry[t].fill, FALSE)
    /\ retry' = [retry EXCEPT ![t] =
                    [pc |-> "ingested", fill |-> retry[t].fill,
                     attempts |-> retry[t].attempts,
                     outcome |-> FillOutcome(retry[t].fill)]]

\* Faulty variant: an anomaly counts as done.
RetryAlwaysResolves(outcome) == outcome # "mismatch"

\* outcome.inserted || outcome.anomaly === null
RetryResolves(outcome) == outcome \in {"inserted", "duplicate"}

\* Faulty variant: one attempt too many.
RetryOnceMore(outcome, attempts) ==
    attempts > MaxAttempts \/ outcome = "mismatch"

RetryDeadLetters(outcome, attempts) ==
    attempts >= MaxAttempts \/ outcome = "mismatch"

MarkUnmatched(row, outcome, attempts) ==
    IF RetryResolves(outcome) THEN [row EXCEPT !.status = "RESOLVED"]
    ELSE IF RetryDeadLetters(outcome, attempts)
    THEN [status |-> "DEAD_LETTER", attempts |-> attempts]
    ELSE [row EXCEPT !.attempts = attempts]

RetryMark(t) ==
    /\ retry[t].pc = "ingested"
    /\ LET f == retry[t].fill
       IN  unmatched' = [unmatched EXCEPT ![f] =
                            MarkUnmatched(@, retry[t].outcome,
                                          retry[t].attempts + 1)]
    /\ retry' = [retry EXCEPT ![t] = Idle]
    /\ UNCHANGED <<storeVars, fills, books, delivered>>

\* The pass ends early: the unique index aborts the transaction, the pod
\* dies, or a statement of the pass throws.
RetryAborts(t) ==
    /\ retry[t] # Idle
    /\ \/ /\ retry[t].pc = "read"
          /\ IngestAborts(retry[t].fill)
          /\ UNCHANGED faults
       \/ /\ faults < MaxFaults
          /\ faults' = faults + 1
    /\ retry' = [retry EXCEPT ![t] = Idle]
    /\ UNCHANGED <<orders, broker, fills, unmatched, books, delivered>>

TrackerNext ==
    \/ \E f \in FillIds : IngestFill(f)
    \/ \E t \in Trackers, f \in FillIds : RetryRead(t, f)
    \/ \E t \in Trackers : RetryIngest(t) \/ RetryMark(t) \/ RetryAborts(t)
=============================================================================
