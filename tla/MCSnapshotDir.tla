--------------------------- MODULE MCSnapshotDir ---------------------------
(***************************************************************************)
(* Instance of SnapshotDir: one restore of every machine, by every host,   *)
(* at any time; the restores of a directory change nothing for each other. *)
(***************************************************************************)
EXTENDS SnapshotDir

CONSTANT r1
=============================================================================
