-------------------------- MODULE MCOpenCodeExport --------------------------
(* Small instances of OpenCodeExport.                                      *)
EXTENDS OpenCodeExport, TLC

\* Messages with an id but none for the part, and without any.
AnyLabels == {<<TRUE, FALSE>>, <<FALSE, FALSE>>}
AllLabelled == {<<TRUE, TRUE>>}
Unlabelled == {<<FALSE, FALSE>>}

Symmetry == Permutations(Processes)
=============================================================================
