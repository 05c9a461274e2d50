--------------------------- MODULE MCLedgerRebuild ---------------------------
(* Rebuilding on small instances. *)
EXTENDS LedgerRebuild, SampleFills
=============================================================================
