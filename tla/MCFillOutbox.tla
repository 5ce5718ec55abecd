---------------------------- MODULE MCFillOutbox ----------------------------
(***************************************************************************)
(* Model values for checking FillOutbox with TLC.                          *)
(***************************************************************************)
EXTENDS FillOutbox

CONSTANTS p1, p2, f1

TwoPods == {p1, p2}
OnePod == {p1}
OneFill == {f1}
=============================================================================
