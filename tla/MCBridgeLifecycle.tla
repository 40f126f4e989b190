-------------------------- MODULE MCBridgeLifecycle --------------------------
(* Small instances of BridgeLifecycle.                                     *)
EXTENDS BridgeLifecycle

CONSTANTS claude, opencode, p1, p2, s1, s2, x1, x2

\* Claude sessions carry the id of the bridge session; OpenCode ones are
\* looked up after the exit.
MCAgentOf == x1 :> claude @@ x2 :> opencode

\* The lookup may find any recently updated session of the agent.
AnyReports == [s \in Sessions |-> Externals]

\* A session is imported, then continued by both processes.
ImportAndContinue == p1 :> {"import", "continue"} @@ p2 :> {"continue"}
RunAndOthers == p1 :> {"run"} @@ p2 :> {"continue", "checkpoint", "import"}
RunAndImport == p1 :> {"run"} @@ p2 :> {"import"}

EitherTarget == p1 :> {claude, opencode} @@ p2 :> {opencode}
DistinctTargets == p1 :> {claude} @@ p2 :> {opencode}
SameTargets == p1 :> {opencode} @@ p2 :> {opencode}
=============================================================================
