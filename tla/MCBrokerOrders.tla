--------------------------- MODULE MCBrokerOrders ---------------------------
(* Order contexts on small instances: orders of both bridges and a cancel. *)
EXTENDS BrokerOrders

CONSTANTS h1, t1, c1

OneHx == {h1}
OneTickFlow == {t1}
OneCancel == {c1}
=============================================================================
