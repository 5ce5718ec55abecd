--------------------------- MODULE MCOrderSystem ----------------------------
(***************************************************************************)
(* Model values and small definitions for checking OrderSystem with TLC.   *)
(***************************************************************************)
EXTENDS OrderSystem

LOCAL INSTANCE FiniteSetsExt

CONSTANTS p1, p2, t1, t2, a1, strategy, user, nobody

TwoPods == {p1, p2}
OnePod == {p1}
TwoTrackers == {t1, t2}
OneTracker == {t1}
OneAccount == {a1}
AllBooks == {strategy, user, nobody}

SameAccount == [o \in Orders |-> a1]
QtyOne == [o \in Orders |-> 1]
QtyTwo == [o \in Orders |-> 2]
QtyTwoOne == [o \in Orders |-> IF o = 1 THEN 2 ELSE 1]
AllBuy == [o \in Orders |-> "buy"]
BuyThenSell == [o \in Orders |-> IF o = 1 THEN "buy" ELSE "sell"]
ByStrategy == [o \in Orders |-> strategy]
NobodyThenUser == [o \in Orders |-> IF o = 1 THEN nobody ELSE user]

\* Total is the sum, on every function of four arguments up to three.
ASSUME TotalIsSum ==
    \A v \in [1 .. 4 -> 0 .. 3] : \A S \in SUBSET (1 .. 4) :
        Total(v, S) = MapThenSumSet(LAMBDA x : v[x], S)
=============================================================================
