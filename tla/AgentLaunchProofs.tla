-------------------------- MODULE AgentLaunchProofs --------------------------
(***************************************************************************)
(* Proofs about ChildProcess and AgentLaunch for every set of signals, exit *)
(* codes, kinds and sessions.                                              *)
(*                                                                         *)
(* The inductive invariant of the child says which of cb's positions go    *)
(* with which state of the agent, and that the handlers are installed from *)
(* before the agent exists.  Every step of the command around it is a step *)
(* of the child or leaves it alone, so the command inherits that invariant *)
(* and adds where it is itself.                                            *)
(***************************************************************************)
EXTENDS AgentLaunch, TLAPS

\* Which position of cb goes with which state of the agent.
ChildPositions ==
  /\ cb \in {"idle", "spawn", "failed"} => child = "none"
  /\ cb \in {"wait", "kill", "pkill"} => child \in {"running", "zombie"}
  /\ cb = "returned" => child = "reaped"
  /\ cb = "killed" => child = "none"
  /\ cb \in {"spawn", "wait", "kill", "pkill", "returned"} => installed
  /\ cb \in {"kill", "pkill"} => forwarding \in Signals

ChildInv == ChildTypeOK /\ ChildPositions

\* What run_attached starts from is in the invariant.
LEMMA ChildInitially == ChildInit => ChildInv
<1>1. ChildInit => ChildTypeOK
  <2>1. ChildInit => /\ pending \subseteq Signals /\ lost \subseteq Signals
                     /\ heard \subseteq Signals \cup Unhandled
    BY DEF ChildInit
  <2>2. ChildInit => arrivals \in 0 .. MaxArrivals
    BY ArrivalsBounded DEF ChildInit
  <2>3. ChildInit => exit \in ExitCodes \cup {0} /\ forwarding \in Signals \cup {NoSignal}
    BY DEF ChildInit
  <2>4. ChildInit => /\ cb \in {"idle", "spawn", "wait", "kill", "pkill", "returned", "failed",
                               "killed", "hungup"}
                     /\ installed \in BOOLEAN
                     /\ child \in {"none", "running", "zombie", "reaped"}
    BY DEF ChildInit
  <2>. QED  BY <2>1, <2>2, <2>3, <2>4 DEF ChildTypeOK
<1>2. ChildInit => ChildPositions
  BY DEF ChildInit, ChildPositions
<1>. QED  BY <1>1, <1>2 DEF ChildInv

\* No step of run_attached or of what surrounds it leaves the invariant.
LEMMA ChildInductive == ChildInv /\ [ChildNext]_childVars => ChildInv'
<1> SUFFICES ASSUME ChildInv, [ChildNext]_childVars
             PROVE  ChildInv'
  OBVIOUS
<1>. USE DEF ChildInv, ChildTypeOK, ChildPositions, ExitCodes
<1>1. CASE Start
  BY <1>1 DEF Start
<1>2. CASE Spawn
  BY <1>2 DEF Spawn
<1>3. CASE Reap
  BY <1>3 DEF Reap
<1>4. ASSUME NEW s \in Signals, Receive(s)
      PROVE  ChildInv'
  BY <1>4 DEF Receive
<1>5. CASE Kill
  BY <1>5 DEF Kill
<1>6. CASE Pkill
  BY <1>6 DEF Pkill
<1>7. CASE ChildExits
  BY <1>7 DEF ChildExits
<1>8. ASSUME NEW s \in Signals \cup Unhandled, NEW group \in BOOLEAN, Arrive(s, group)
      PROVE  ChildInv'
  BY <1>8, ArrivalsBounded, SignalsApart DEF Arrive, Ended
<1>9. CASE UNCHANGED childVars
  BY <1>9 DEF childVars
<1>. QED
  BY <1>1, <1>2, <1>3, <1>4, <1>5, <1>6, <1>7, <1>8, <1>9 DEF ChildNext, Loop, Surroundings

-----------------------------------------------------------------------------
\* The steps of the command that leave the attached child alone.
Aside ==
  \/ Probe \/ NotInstalled \/ ManualHandoff \/ ChooseCall \/ Refuse
  \/ Launch \/ LaunchOpenCode \/ StartOpenCode \/ Resume
  \/ Exited \/ AttachFails \/ List
  \/ \E x \in Rows : AgentWrites(x) \/ OthersWrite(x)

\* What the adapters do around the child leaves it alone.
LEMMA AsideOfChild == Aside => UNCHANGED childVars
  BY DEF Aside, Probe, NotInstalled, ManualHandoff, ChooseCall, Refuse, Launch, LaunchOpenCode,
         StartOpenCode, Resume, Exited, AttachFails, List, AgentWrites, OthersWrite,
         Answer, Attach

\* Every step of the command is one of these.
LEMMA StepsOfCommand ==
  [Next]_vars => Aside \/ RunAttached \/ InChild \/ AroundChild \/ UNCHANGED vars
  BY DEF Next, Call, Steps, Aside

\* Every step of a command is a step of the process layer or none.
LEMMA ChildStep == [Next]_vars => [ChildNext]_childVars
<1>1. Aside => UNCHANGED childVars
  BY AsideOfChild
<1>2. RunAttached \/ InChild \/ AroundChild => ChildNext
  BY DEF RunAttached, InChild, AroundChild, ChildNext
<1>3. UNCHANGED vars => UNCHANGED childVars
  BY DEF vars
<1>. QED  BY <1>1, <1>2, <1>3, StepsOfCommand

\* A command of the adapters, from its first probe to its reply, runs its
\* agent as run_attached does: it implements ChildProcess.
THEOREM ImplementsChild == Spec => ChildSpec
<1>1. Init => ChildInit
  BY DEF Init
<1>2. [Next]_vars => [ChildNext]_childVars
  BY ChildStep
<1>. QED  BY <1>1, <1>2, PTL DEF Spec, ChildSpec

\* The process layer keeps its invariant inside a command.
LEMMA ChildInvariance == Spec => []ChildInv
<1>1. ChildInit => ChildInv
  BY ChildInitially
<1>2. ChildInv /\ [ChildNext]_childVars => ChildInv'
  BY ChildInductive
<1>. QED  BY <1>1, <1>2, ImplementsChild, PTL DEF ChildSpec

\* No signal that cb forwards, from before the start of the agent to its exit,
\* ends cb and leaves the agent behind; only one without a handler does.
THEOREM NobodyIsAbandoned == Spec => []AgentIsNotAbandoned
<1>1. ChildInv => AgentIsNotAbandoned
  BY DEF ChildInv, ChildTypeOK, ChildPositions, AgentIsNotAbandoned
<1>. QED  BY <1>1, ChildInvariance, PTL

\* cb signals no process id it has reaped.
THEOREM NobodyElseIsSignalled == Spec => []ReapedIsLeftAlone
<1>1. ChildInv => ReapedIsLeftAlone
  BY DEF ChildInv, ChildTypeOK, ChildPositions, ReapedIsLeftAlone
<1>. QED  BY <1>1, ChildInvariance, PTL

-----------------------------------------------------------------------------
CallTypes ==
  /\ TypeOK
  /\ supported \in BOOLEAN /\ continues \in BOOLEAN /\ given.handoff \in BOOLEAN
  /\ link \in Rows \cup {OwnId, NoSession}
  /\ now \in Nat

\* Where run_attached is, given where the command is.
Positions ==
  /\ pc \notin {"attached", "lookup", "list", "done"} =>
       cb \in {"idle", "killed", "hungup"} /\ child = "none"
  /\ pc = "attached" => cb # "idle"
  /\ pc \in {"lookup", "list"} => cb \in {"returned", "hungup"} /\ child = "reaped"
  /\ pc = "done" => cb \in {"idle", "failed", "returned", "killed", "hungup"}
                    /\ child \in {"none", "reaped"}

\* The agent is only started with the handoff; a fresh OpenCode agent is told
\* no session.
GivenInv ==
  /\ continues /\ (pc \in {"attach", "attached", "lookup", "list"} \/ child # "none")
       => given.handoff
  /\ launchedAt > 0 => /\ given.session = NoSession
                       /\ pc \in {"attach", "attached", "lookup", "list", "done"}
  /\ pc \in {"lookup", "list"} => launchedAt > 0

\* Of the sessions counted as the project's, only those the agent or another terminal
\* wrote to were updated since the launch.
UpdatedInv ==
  /\ \A x \in Rows : updated[x] <= now
  /\ used # NoSession => used \in Rows \ Elsewhere /\ child # "none"
  /\ launchedAt > 0 /\ foreign = {} =>
       \A x \in Counted : updated[x] >= launchedAt <=> x = used

\* A reply of an exit is only given, and always given, for an agent that was
\* reaped.
ReplyInv ==
  /\ reply.result = "exited" => pc = "done" /\ child = "reaped" /\ LinkIsOwnWhenAlone
  /\ pc = "done" /\ child # "none" => reply.result = "exited" /\ reply.code = exit

CallInv == CallTypes /\ Positions /\ GivenInv /\ UpdatedInv /\ ReplyInv

\* A command that starts satisfies the invariant of the call.
LEMMA CallInitially == Init => CallInv
<1> SUFFICES ASSUME Init
             PROVE  CallInv
  OBVIOUS
<1>. USE RowsApart, TimeBounded DEF Init
<1>1. ChildTypeOK /\ cb = "idle" /\ child = "none"
  BY ChildInitially DEF ChildInv, ChildInit
<1>2. CallTypes
  <2>1. updated \in [Rows -> 0 .. MaxTime + 1]
    BY DEF Init
  <2>2. pc \in {"capabilities", "launch"} /\ {"capabilities", "launch"} \subseteq DOMAIN Probed
    BY DEF Probed
  <2>3. link \in Rows \cup {OwnId, NoSession}
    BY DEF Init
  <2>4. given.session = NoSession /\ given.handoff = FALSE /\ reply.session = NoSession
    BY DEF Nothing, NoReply
  <2>5. attempt = 0 /\ verified = FALSE /\ now = 1
    BY DEF Init
  <2>9. attempt \in 0 .. 2 /\ now \in Nat
    BY <2>5
  <2>8. launchedAt \in 0 .. now
    <3>1. launchedAt = 0 /\ now = 1
      BY DEF Init
    <3>. QED  BY <3>1
  <2>6. used \in Rows \cup {NoSession} /\ foreign \subseteq Counted
    BY DEF Init
  <2>7. supported \in BOOLEAN /\ continues \in BOOLEAN
    BY DEF Init
  <2>. QED  BY <1>1, <2>1, <2>2, <2>3, <2>4, <2>5, <2>6, <2>7, <2>8, <2>9
         DEF CallTypes, TypeOK
<1>3. Positions /\ GivenInv
  BY <1>1 DEF Positions, GivenInv
<1>4. UpdatedInv
  BY DEF UpdatedInv
<1>5. ReplyInv
  BY <1>1 DEF ReplyInv, NoReply
<1>. QED  BY <1>2, <1>3, <1>4, <1>5 DEF CallInv

\* No step of the command, of the agent or of another terminal leaves the
\* invariant.
LEMMA CallInductive == ChildInv /\ ChildInv' /\ CallInv /\ [Next]_vars => CallInv'
<1> SUFFICES ASSUME ChildInv, ChildInv', CallInv, [Next]_vars
             PROVE  CallInv'
  OBVIOUS
<1>. USE RowsApart, TimeBounded
     DEF CallInv, CallTypes, TypeOK, Positions, GivenInv, UpdatedInv, ReplyInv,
         LinkIsOwnWhenAlone, Probed, ChildInv, Counted
<1>1. CASE Probe
  <2>1. /\ pc \in {"capabilities", "launch", "resume", "opencode", "lookup"}
        /\ \/ pc' = pc
           \/ pc # "lookup" /\ pc' \in {"decide", "check", "checkResume", "start"}
           \/ pc = "lookup" /\ pc' = "list"
        /\ attempt' \in 0 .. 2 /\ verified' \in BOOLEAN
    <3>1. /\ Probed["capabilities"] = "decide" /\ Probed["launch"] = "check"
          /\ Probed["resume"] = "checkResume" /\ Probed["opencode"] = "start"
          /\ Probed["lookup"] = "list"
          /\ DOMAIN Probed = {"capabilities", "launch", "resume", "opencode", "lookup"}
      OBVIOUS
    <3>2. pc \in DOMAIN Probed /\ (pc' = pc \/ pc' = Probed[pc])
      BY <1>1 DEF Probe
    <3>3. attempt' \in 0 .. 2
      <4>1. attempt' = 0 \/ (attempt < 2 /\ attempt' = attempt + 1)
        BY <1>1 DEF Probe
      <4>2. attempt \in 0 .. 2
        OBVIOUS
      <4>. QED  BY <4>1, <4>2
    <3>4. verified' \in BOOLEAN
      <4>1. verified' = supported \/ verified' = verified \/ verified' = FALSE
        BY <1>1 DEF Probe
      <4>. QED  BY <4>1
    <3>. QED  BY <3>1, <3>2, <3>3, <3>4
  <2>. QED  BY <1>1, <2>1 DEF Probe, childVars, worldVars
<1>2. CASE NotInstalled
  BY <1>2 DEF NotInstalled, Answer, Goto, NoReply, childVars, worldVars
<1>3. CASE ManualHandoff
  BY <1>3 DEF ManualHandoff, Answer, Goto, NoReply, childVars, worldVars
<1>4. CASE ChooseCall
  BY <1>4 DEF ChooseCall, Goto, childVars, worldVars
<1>5. CASE Refuse
  BY <1>5 DEF Refuse, Answer, Goto, NoReply, childVars, worldVars
<1>6. CASE Launch
  BY <1>6 DEF Launch, Attach, Goto, childVars, worldVars
<1>7. CASE LaunchOpenCode
  BY <1>7 DEF LaunchOpenCode, Goto, childVars, worldVars
<1>8. CASE StartOpenCode
  BY <1>8 DEF StartOpenCode, Goto, childVars, worldVars, ChildPositions
<1>9. CASE Resume
  BY <1>9 DEF Resume, Attach, Goto, childVars, worldVars
<1>10. CASE Exited
  <2>1. child = "reaped"
    BY <1>10 DEF Exited, ChildPositions
  <2>. QED  BY <1>10, <2>1, ZenonT(30) DEF Exited, Goto, NoReply, childVars, worldVars
<1>11. CASE AttachFails
  <2>1. child = "none"
    BY <1>11 DEF AttachFails, ChildPositions
  <2>. QED  BY <1>11, <2>1 DEF AttachFails, Answer, Goto, NoReply, childVars, worldVars
<1>12. CASE List
  BY <1>12 DEF List, Latest, Candidates, Goto, childVars, worldVars
<1>13. ASSUME NEW x \in Rows, AgentWrites(x)
       PROVE  CallInv'
  BY <1>13 DEF AgentWrites, Touch, childVars, callVars, ChildPositions
<1>14. ASSUME NEW x \in Rows, OthersWrite(x)
       PROVE  CallInv'
  BY <1>14 DEF OthersWrite, Touch, childVars, callVars
<1>15. CASE RunAttached
  BY <1>15 DEF RunAttached, Start, Goto, worldVars
<1>16. CASE InChild
  BY <1>16 DEF InChild, Loop, Spawn, Reap, Receive, Kill, Pkill, callVars, worldVars, ChildPositions
<1>17. CASE AroundChild
  BY <1>17 DEF AroundChild, Surroundings, ChildExits, Arrive, callVars, worldVars, ChildPositions
<1>18. CASE UNCHANGED vars
  BY <1>18 DEF vars, childVars, callVars, worldVars
<1>. QED
  BY <1>1, <1>2, <1>3, <1>4, <1>5, <1>6, <1>7, <1>8, <1>9, <1>10, <1>11, <1>12, <1>13, <1>14,
     <1>15, <1>16, <1>17, <1>18, StepsOfCommand DEF Aside

\* Both invariants hold in every command.
LEMMA CallInvariance == Spec => [](ChildInv /\ CallInv)
<1>1. Init => CallInv
  BY CallInitially
<1>2. ChildInv /\ ChildInv' /\ CallInv /\ [Next]_vars => CallInv'
  BY CallInductive
<1>. QED  BY <1>1, <1>2, ChildInvariance, PTL DEF Spec

\* Type correctness of the command and of the child within it.
THEOREM TypeCorrect == Spec => []TypeOK
<1>1. CallInv => TypeOK
  BY DEF CallInv, CallTypes
<1>. QED  BY <1>1, CallInvariance, PTL

\* An agent started for a continuation was given the handoff, whatever the
\* probes between the capability check and the start found.
THEOREM HandoffIsDelivered == Spec => []HandoffDeliveredOrRefused
<1>1. ChildInv /\ CallInv => HandoffDeliveredOrRefused
  BY DEF ChildInv, ChildTypeOK, ChildPositions, CallInv, CallTypes, TypeOK, Positions, GivenInv,
         HandoffDeliveredOrRefused
<1>. QED  BY <1>1, CallInvariance, PTL

\* When no other terminal worked in a session that counts as the project's,
\* those without a directory included, the session a fresh OpenCode
\* agent is linked to is the one it used.
THEOREM LinkIsOwn == Spec => []LinkIsOwnWhenAlone
<1>1. CallInv => LinkIsOwnWhenAlone
  BY DEF CallInv, ReplyInv, LinkIsOwnWhenAlone
<1>. QED  BY <1>1, CallInvariance, PTL

\* The exit status of an agent that was started reaches the caller unchanged.
THEOREM ExitIsReported == Spec => []ExitSurvives
<1>1. ChildInv /\ CallInv => ExitSurvives
  BY DEF ChildInv, ChildTypeOK, ChildPositions, CallInv, CallTypes, TypeOK, Positions, ReplyInv,
         ExitSurvives
<1>. QED  BY <1>1, CallInvariance, PTL
=============================================================================
