---------------------- MODULE MCFilesystemAssetTarget ----------------------
(***************************************************************************)
(* Small instances of FilesystemAssetTarget for TLC.                       *)
(***************************************************************************)
EXTENDS FilesystemAssetTarget, TLC

CONSTANTS p1, p2, a1

\* Two chunks, so that an attempt can end between them.
TwoChunks == a1 :> 2
=============================================================================
