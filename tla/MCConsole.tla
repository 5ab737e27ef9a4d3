----------------------------- MODULE MCConsole -----------------------------
(***************************************************************************)
(* A small instance of Console for TLC.  One event source: a second one    *)
(* would need a first one that nobody closed, which ViewIsHistory forbids. *)
(***************************************************************************)
EXTENDS Console

CONSTANT c1
=============================================================================
