--------------------------- MODULE MCSettingsFiles ---------------------------
(* A small instance of SettingsFiles.                                      *)
EXTENDS SettingsFiles, TLC

CONSTANTS budget, redaction, v1

With(b, r) == [k \in Keys |-> IF k = budget THEN b ELSE r]

\* The environment sets the budget or nothing.
MCEnvironments == {With(b, Unset) : b \in {Unset, v1}}

\* No file, a safe one, safe ones with a value out of range and of another
\* type, and one that needs trust.
MCProjectFiles ==
  {With(b, Unset) : b \in {Unset, v1, Bad, Mistyped}} \cup {With(Unset, v1)}

Symmetry == Permutations(Processes)
=============================================================================
