--------------------------- MODULE OrderContract ----------------------------
(***************************************************************************)
(* What the worker promises about a row of the orders table to the back    *)
(* end that writes and reads it, with no pods, locks, REST calls or        *)
(* retries: a row is claimed once, placed at the broker at most once,      *)
(* learns its broker handle at most once, books fills only up to its       *)
(* quantity, and settles.                                                  *)
(***************************************************************************)
EXTENDS Integers

CONSTANTS Orders, Quantity

VARIABLES
    status,   \* The row's status.
    placed,   \* Whether the broker was given an order for the row.
    known,    \* Whether the row carries that order's handle.
    filled    \* The quantity booked.

contractVars == <<status, placed, known, filled>>

Unclaimed == {"CREATED", "REQUESTED"}
Cancelling == {"CANCEL_REQUESTED", "CANCEL_SUBMITTING"}
Closed == {"CANCELLED", "REJECTED", "FAILED", "EXPIRED"}

Init ==
    /\ status = [o \in Orders |-> "CREATED"]
    /\ placed = [o \in Orders |-> FALSE]
    /\ known = [o \in Orders |-> FALSE]
    /\ filled = [o \in Orders |-> 0]

Move(o, from, to) ==
    /\ status[o] \in from
    /\ status' = [status EXCEPT ![o] = to]

\* The back end requests and cancels.
Request(o) ==
    /\ Move(o, {"CREATED"}, "REQUESTED")
    /\ UNCHANGED <<placed, known, filled>>
Cancel(o) ==
    /\ Move(o, {"REQUESTED", "SUBMITTING", "ACCEPTED", "PARTIALLY_FILLED"},
            "CANCEL_REQUESTED")
    /\ UNCHANGED <<placed, known, filled>>

\* A pickup claims any number of rows in one transaction.
Claim(rows, from, to) ==
    /\ \A o \in rows : status[o] = from
    /\ status' = [o \in Orders |-> IF o \in rows THEN to ELSE status[o]]
    /\ UNCHANGED <<placed, known, filled>>

\* A claimed row reaches the broker, once.
Place(o) ==
    /\ status[o] \notin Unclaimed
    /\ ~placed[o]
    /\ placed' = [placed EXCEPT ![o] = TRUE]
    /\ UNCHANGED <<status, known, filled>>

\* The row learns the handle: with its acceptance, or while it is cancelled.
Learn(o) ==
    /\ placed[o] /\ ~known[o]
    /\ known' = [known EXCEPT ![o] = TRUE]
    /\ \/ Move(o, {"SUBMITTING"}, "ACCEPTED")
       \/ status[o] \in Cancelling /\ UNCHANGED status
    /\ UNCHANGED <<placed, filled>>

\* A placement fails; a cancellation succeeds or fails.
Settle(o) ==
    /\ \/ Move(o, {"SUBMITTING", "CANCEL_SUBMITTING"}, "FAILED")
       \/ Move(o, {"CANCEL_SUBMITTING"}, "CANCELLED")
    /\ UNCHANGED <<placed, known, filled>>

\* A fill is booked on a row that knows its broker order.  It moves the row
\* unless the row is closed, or being cancelled with some quantity left.
Book(o, q) ==
    /\ placed[o] /\ known[o]
    /\ status[o] # "FILLED"
    /\ filled[o] + q <= Quantity[o]
    /\ filled' = [filled EXCEPT ![o] = @ + q]
    /\ status' =
         IF status[o] \in Closed THEN status
         ELSE IF filled[o] + q = Quantity[o]
              THEN [status EXCEPT ![o] = "FILLED"]
         ELSE IF status[o] \in Cancelling THEN status
         ELSE [status EXCEPT ![o] = "PARTIALLY_FILLED"]
    /\ UNCHANGED <<placed, known>>

Next ==
    \/ \E o \in Orders : \/ Request(o) \/ Cancel(o) \/ Place(o) \/ Learn(o)
                         \/ Settle(o)
    \/ \E rows \in SUBSET Orders :
          \/ Claim(rows, "REQUESTED", "SUBMITTING")
          \/ Claim(rows, "CANCEL_REQUESTED", "CANCEL_SUBMITTING")
    \/ \E o \in Orders : \E q \in 1 .. Quantity[o] : Book(o, q)

Spec == Init /\ [][Next]_contractVars
=============================================================================
