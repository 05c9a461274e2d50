---------------------------- MODULE MCOrderLimit ----------------------------
(* Two threads, two tokens a second, a bucket for three of them. *)
EXTENDS OrderLimit
=============================================================================
