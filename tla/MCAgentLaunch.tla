---------------------------- MODULE MCAgentLaunch ----------------------------
(* Small instances of AgentLaunch.                                         *)
EXTENDS AgentLaunch

\* An agent ends with success or by SIGTERM.
MCCodes == {0}
MCFatal == {15}
=============================================================================
