----------------------------- MODULE AgentLaunch -----------------------------
(***************************************************************************)
(* The production adapters (crates/cb-adapters/src/documented.rs) from the *)
(* capability check of a command to the reply of launch or resume, around  *)
(* the attached child of ChildProcess.                                     *)
(*                                                                         *)
(* The profile of an agent is what its version probes make of it, and it   *)
(* is probed again by every call: a probe that times out changes what cb   *)
(* takes the agent for between two steps of one command.  OpenCode says    *)
(* nothing of the session it worked in; it is looked up after the exit     *)
(* among the sessions of the project, which other terminals use as well.   *)
(***************************************************************************)
EXTENDS ChildProcess

CONSTANTS
  Kinds,      \* kinds of agents
  Rows,       \* sessions OpenCode may list
  Elsewhere,  \* those that belong to another project
  Unplaced,   \* those that are listed without a directory
  OwnId,      \* the id of the bridge session, which Claude is told to use
  NoSession,
  MaxTime     \* bound of the instance

ASSUME TimeBounded == MaxTime \in Nat
ASSUME KindsKnown == Kinds \subseteq {"claude", "codex", "opencode"}
ASSUME RowsApart == Elsewhere \subseteq Rows /\ Unplaced \subseteq Rows /\ OwnId \notin Rows
                    /\ NoSession \notin Rows /\ OwnId # NoSession

VARIABLES
  pc,         \* where the command is
  kind,       \* the agent
  supported,  \* whether the installed version is one of the verified ones
  continues,  \* a continuation, with a handoff; otherwise a run
  link,       \* the session the continuation would resume
  attempt,    \* failed probes of the current call of installation()
  verified,   \* the profile the last such call found
  given,      \* what the agent was started with
  used,       \* the session an OpenCode agent wrote to
  updated,    \* when each session was last updated
  now,        \* clock
  launchedAt, \* when the agent was started
  foreign,    \* sessions counted as the project's that another terminal wrote to since
  reply       \* what the command gets back

callVars == <<pc, kind, supported, continues, link, attempt, verified>>
worldVars == <<used, updated, now, launchedAt, foreign>>
vars == <<childVars, callVars, worldVars, given, reply>>

Nothing == [handoff |-> FALSE, session |-> NoSession]
NoReply == [result |-> "none", code |-> 0, session |-> NoSession, listed |-> FALSE]

Init ==
  /\ ChildInit
  /\ kind \in Kinds /\ supported \in BOOLEAN /\ continues \in BOOLEAN
  /\ link \in IF ~ continues THEN {NoSession}
              ELSE IF kind = "opencode" THEN {NoSession} \cup (Rows \ Elsewhere)
              ELSE {NoSession, OwnId}
  /\ pc = IF continues THEN "capabilities" ELSE "launch"
  /\ attempt = 0 /\ verified = FALSE
  /\ given = Nothing /\ used = NoSession
  /\ updated \in [Rows -> IF kind = "opencode" THEN {0, 1} ELSE {0}]
  /\ now = 1 /\ launchedAt = 0 /\ foreign = {}
  /\ reply = NoReply

-----------------------------------------------------------------------------
(* installation().                                                         *)

\* Where a call of installation() is made, and where it goes on.
Probed == [capabilities |-> "decide", launch |-> "check", resume |-> "checkResume",
           opencode |-> "start", lookup |-> "list"]

\* Fault: the probe is tried again for as long as it fails.
ProbeUnlimited ==
  /\ pc \in DOMAIN Probed
  /\ \/ /\ verified' = supported /\ attempt' = 0 /\ pc' = Probed[pc]
     \/ attempt' = (attempt + 1) % 3 /\ UNCHANGED <<verified, pc>>
  /\ UNCHANGED <<childVars, worldVars, kind, supported, continues, link, given, reply>>

\* The version answers, or the probe times out or fails.  The third failure
\* leaves the agent unverified.
Probe ==
  /\ pc \in DOMAIN Probed
  /\ \/ /\ verified' = supported /\ attempt' = 0 /\ pc' = Probed[pc]
     \/ /\ attempt < 2
        /\ attempt' = attempt + 1 /\ UNCHANGED <<verified, pc>>
     \/ /\ attempt = 2
        /\ verified' = FALSE /\ attempt' = 0 /\ pc' = Probed[pc]
  /\ UNCHANGED <<childVars, worldVars, kind, supported, continues, link, given, reply>>

Goto(next) ==
  pc' = next /\ UNCHANGED <<kind, supported, continues, link, attempt, verified>>

Answer(result) ==
  /\ Goto("done")
  /\ reply' = [NoReply EXCEPT !.result = result]
  /\ UNCHANGED <<childVars, worldVars, given>>

\* The executable is not found.
NotInstalled == pc \in DOMAIN Probed \ {"lookup"} /\ attempt = 0 /\ Answer("error")

-----------------------------------------------------------------------------
(* Before the agent.                                                       *)

\* continue: without a verified way to inject the context it writes a file.
ManualHandoff == pc = "decide" /\ ~ verified /\ Answer("manual")

ChooseCall ==
  /\ pc = "decide" /\ verified
  /\ Goto(IF link # NoSession THEN "resume" ELSE "launch")
  /\ UNCHANGED <<childVars, worldVars, given, reply>>

\* A prompt or a resume that the profile just found cannot take is refused.
Refuse ==
  /\ \/ pc = "check" /\ continues /\ ~ verified
     \/ pc = "checkResume" /\ ~ verified
  /\ Answer("error")

Attach(handoff, session) ==
  /\ given' = [handoff |-> handoff, session |-> session]
  /\ Goto("attach")
  /\ UNCHANGED <<childVars, worldVars, reply>>

\* Fault: a prompt the profile cannot take is dropped.
LaunchDroppingPrompt ==
  /\ pc = "check" /\ (verified => kind # "opencode")
  /\ Attach(continues /\ verified, IF verified /\ kind = "claude" THEN OwnId ELSE NoSession)

\* Claude is told the id of the bridge session; Codex is told none; an
\* unverified agent is started without any argument.
Launch ==
  /\ pc = "check" /\ (verified => kind # "opencode") /\ (continues => verified)
  /\ Attach(continues, IF verified /\ kind = "claude" THEN OwnId ELSE NoSession)

LaunchOpenCode ==
  /\ pc = "check" /\ verified /\ kind = "opencode"
  /\ Goto("opencode")
  /\ UNCHANGED <<childVars, worldVars, given, reply>>

\* Fault: the time to compare with is rounded up.
StartOpenCodeRoundingUp ==
  /\ pc = "start"
  /\ given' = [handoff |-> continues, session |-> NoSession]
  /\ launchedAt' = now + 1
  /\ Goto("attach")
  /\ UNCHANGED <<childVars, used, updated, now, foreign, reply>>

\* launch_opencode probes once more, for the executable alone.
StartOpenCode ==
  /\ pc = "start"
  /\ given' = [handoff |-> continues, session |-> NoSession]
  /\ now' = now + 1 /\ launchedAt' = now'
  /\ Goto("attach")
  /\ UNCHANGED <<childVars, used, updated, foreign, reply>>

Resume == pc = "checkResume" /\ verified /\ Attach(TRUE, link)

-----------------------------------------------------------------------------
(* The agent, and other terminals.                                         *)

RunAttached ==
  /\ pc = "attach" /\ Start
  /\ Goto("attached")
  /\ UNCHANGED <<worldVars, given, reply>>

InChild ==
  /\ pc # "attach" /\ Loop
  /\ UNCHANGED <<callVars, worldVars, given, reply>>

AroundChild ==
  /\ Surroundings
  /\ UNCHANGED <<callVars, worldVars, given, reply>>

Touch(x) == /\ now < MaxTime
            /\ now' = now + 1
            /\ updated' = [updated EXCEPT ![x] = now']

\* OpenCode works in the session it was given or in one of the project its
\* user picked, and keeps to it.
AgentWrites(x) ==
  /\ kind = "opencode" /\ child = "running"
  /\ x \in Rows \ Elsewhere
  /\ x = IF given.session # NoSession THEN given.session
         ELSE IF used # NoSession THEN used ELSE x
  /\ Touch(x)
  /\ used' = x
  /\ UNCHANGED <<childVars, callVars, launchedAt, foreign, given, reply>>

\* The sessions that count as the project's: those in its directory, and those
\* that are listed without any, which may belong to another one.
Counted == (Rows \ Elsewhere) \cup Unplaced

\* Sessions of other projects are listed too.
OthersWrite(x) ==
  /\ kind = "opencode" /\ pc # "done"
  /\ Touch(x)
  /\ foreign' = IF x \in Counted /\ launchedAt > 0 THEN foreign \cup {x} ELSE foreign
  /\ UNCHANGED <<childVars, callVars, used, launchedAt, given, reply>>

-----------------------------------------------------------------------------
(* After the agent.                                                        *)

\* Fault: the time to compare with is taken after the exit.
ExitedStampingLate ==
  /\ pc = "attached" /\ cb = "returned"
  /\ IF launchedAt > 0
     THEN /\ Goto("lookup") /\ now' = now + 1 /\ launchedAt' = now'
          /\ UNCHANGED <<reply, used, updated, foreign>>
     ELSE /\ Goto("done")
          /\ reply' = [NoReply EXCEPT !.result = "exited", !.code = exit, !.session = given.session]
          /\ UNCHANGED worldVars
  /\ UNCHANGED <<childVars, given>>

\* Only a fresh OpenCode launch has something to look up.
Exited ==
  /\ pc = "attached" /\ cb = "returned"
  /\ IF launchedAt > 0 THEN Goto("lookup") /\ UNCHANGED reply
     ELSE /\ Goto("done")
          /\ reply' = [NoReply EXCEPT !.result = "exited", !.code = exit, !.session = given.session]
  /\ UNCHANGED <<childVars, worldVars, given>>

\* The handlers could not be installed, or the agent not be started.
AttachFails == pc = "attached" /\ cb = "failed" /\ Answer("error")

\* The most recently updated one of them since the launch.
Candidates == {x \in Counted : updated[x] >= launchedAt}
Latest == IF Candidates = {} THEN {NoSession}
          ELSE {x \in Candidates : \A y \in Candidates : updated[y] <= updated[x]}

\* Fault: an error of the listing is returned instead of the exit.
ListOrFail ==
  /\ pc = "list"
  /\ \/ /\ verified
        /\ \E x \in Latest :
             reply' = [result |-> "exited", code |-> exit, session |-> x, listed |-> TRUE]
     \/ reply' = [NoReply EXCEPT !.result = "error"]
  /\ Goto("done")
  /\ UNCHANGED <<childVars, worldVars, given>>

\* Any failure of the listing only leaves the session unlinked.
List ==
  /\ pc = "list"
  /\ \/ /\ verified
        /\ \E x \in Latest :
             reply' = [result |-> "exited", code |-> exit, session |-> x, listed |-> TRUE]
     \/ reply' = [result |-> "exited", code |-> exit, session |-> NoSession, listed |-> FALSE]
  /\ Goto("done")
  /\ UNCHANGED <<childVars, worldVars, given>>

-----------------------------------------------------------------------------
Steps ==
  \/ Probe \/ NotInstalled \/ ManualHandoff \/ ChooseCall \/ Refuse
  \/ Launch \/ LaunchOpenCode \/ StartOpenCode \/ Resume
  \/ RunAttached \/ InChild \/ Exited \/ AttachFails

Call == Steps \/ List

\* The agent's user or cb's caller only acts while cb lives.
Next ==
  \/ ~ Ended /\ Call
  \/ AroundChild
  \/ \E x \in Rows : AgentWrites(x) \/ OthersWrite(x)

Spec == Init /\ [][Next]_vars

\* cb runs until it returns, with a time limit on every probe.  The agent need
\* not exit, and nothing limits how long `opencode session list` takes.
FairSpec == Spec /\ WF_vars(~ Ended /\ Steps)

-----------------------------------------------------------------------------
TypeOK ==
  /\ ChildTypeOK
  /\ pc \in DOMAIN Probed \cup {"decide", "check", "checkResume", "start", "attach",
                                "attached", "list", "done"}
  /\ attempt \in 0 .. 2 /\ verified \in BOOLEAN
  /\ given.session \in Rows \cup {OwnId, NoSession}
  /\ used \in Rows \cup {NoSession} /\ foreign \subseteq Counted
  /\ updated \in [Rows -> 0 .. MaxTime + 1] /\ launchedAt \in 0 .. now
  /\ reply.session \in Rows \cup {OwnId, NoSession}

\* An agent started for a continuation was given the handoff, however its
\* profile changed between the capability check and the later probes of the
\* same command; otherwise it is not started at all.
HandoffDeliveredOrRefused == continues /\ child # "none" => given.handoff

\* A session is reported only for an agent that was told its id, or for a
\* fresh OpenCode one, and then, unless another terminal worked since the
\* launch in a session that counts as the project's, it is the one the agent
\* used and none when it used none.
LinkIsOwnWhenAlone ==
  reply.result = "exited" =>
    IF reply.listed THEN foreign = {} => reply.session = used
                    ELSE reply.session = given.session

\* A session that is looked up after the exit is the one the agent used or
\* none, whoever else works in the project.
ListedSessionIsProven ==
  reply.result = "exited" /\ reply.listed => reply.session \in {used, NoSession}

\* Once the agent was started and has exited, the caller gets its exit status,
\* whatever fails afterwards; a status that is not zero never becomes zero.
ExitSurvives ==
  pc = "done" /\ child # "none" => reply.result = "exited" /\ reply.code = exit /\ child = "reaped"

\* Every call returns, however often the probes time out and whatever signals
\* arrive, once the user has closed the agent, unless the listing of OpenCode's
\* sessions hangs or a signal ends cb: one without a handler, or any while no
\* agent is there to be told.
CallReturns ==
  \/ <>[](child = "running") \/ <>[](pc = "list")
  \/ <>(pc = "done" \/ cb = "hungup" \/ (cb = "killed" /\ child = "none"))

\* An agent that has exited has its exit reported, so that the caller can go
\* on to finalize the session, unless a signal without a handler ends cb.
ExitIsAnswered == (child = "reaped") ~> (pc = "done" \/ cb = "hungup")
=============================================================================
