----------------------------- MODULE MCAciQueue ------------------------------
(* Two packets tell order, loss and duplication apart; the index range is  *)
(* the real one.                                                           *)
EXTENDS AciQueue

CONSTANTS p1, p2
MCMsg == {p1, p2}
==============================================================================
