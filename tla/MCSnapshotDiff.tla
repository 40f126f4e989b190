--------------------------- MODULE MCSnapshotDiff ---------------------------
(* All pairs of snapshots over a few paths and contents.                   *)
EXTENDS SnapshotDiff, TLC

CONSTANTS a, b, long

\* Two contents, and a file too long to be hashed.
MCHashOf == a :> "a" @@ b :> "b" @@ long :> NoHash
=============================================================================
