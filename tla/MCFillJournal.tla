--------------------------- MODULE MCFillJournal ---------------------------
(* The fill journal with two manual fills and two orders. *)
EXTENDS FillJournal

CONSTANTS m1, m2, o1, o2

MCManual == {m1, m2}
MCOrders == {o1, o2}
=============================================================================
