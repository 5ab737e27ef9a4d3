---------------------------- MODULE MCSourceScan ----------------------------
(***************************************************************************)
(* A small instance of SourceScan for TLC.                                 *)
(***************************************************************************)
EXTENDS SourceScan, TLC

CONSTANTS c1, c2
=============================================================================
