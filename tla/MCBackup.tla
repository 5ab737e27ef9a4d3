----------------------------- MODULE MCBackup -----------------------------
(***************************************************************************)
(* Small instances of Backup for TLC.                                      *)
(***************************************************************************)
EXTENDS Backup, TLC

CONSTANTS w1, w2, text, film, c1, c2, c3, c4, c5, c6, s1
=============================================================================
