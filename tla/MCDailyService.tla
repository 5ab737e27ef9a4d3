-------------------------- MODULE MCDailyService --------------------------
(***************************************************************************)
(* Small instances of DailyService for TLC.                                *)
(***************************************************************************)
EXTENDS DailyService

\* SELECT ... ORDER BY kind.
ByName == <<"backup", "publish">>

\* Where one schedule is enough.
OneKind == <<"backup">>
=============================================================================
