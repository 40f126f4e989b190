--------------------------- MODULE BridgeLifecycle ---------------------------
(***************************************************************************)
(* The cb commands that write: run, continue, checkpoint and import        *)
(* (crates/cb-cli/src/commands), executed by concurrent cb processes over  *)
(* one project, one store and the coding agents they launch.               *)
(*                                                                         *)
(* A step is one call into the store, one snapshot of the project or one   *)
(* call of an adapter; EventStore shows that the store's calls are atomic. *)
(* Everything a command reads is kept in its job until it is used, so that *)
(* other processes, the user and the agents act in between.                *)
(*                                                                         *)
(* The project is a version number, the transcript of an external session  *)
(* the number of its records.  Event payloads, redaction and the budget    *)
(* are left out: a handoff package is identified by what it is built from. *)
(* A command may pick any session of the project, as --session allows.     *)
(***************************************************************************)
EXTENDS Integers, Sequences, SequencesExt

CONSTANTS
  Processes,   \* concurrent invocations of cb
  Sessions,    \* bridge session ids
  Agents,      \* coding agents
  Externals,   \* the agents' own sessions
  AgentOf,     \* the agent an external session belongs to
  Reports,     \* external sessions an agent launched for a session may report
  Importable,  \* external sessions the user may import
  Exporting,   \* agents whose transcripts can be exported
  Capturing,   \* agents whose adapter captures events during the run
  Resumable,   \* agents with native resume
  Locking,     \* agents that refuse a session which is open elsewhere
  Commands,    \* the commands each process may execute
  Targets,     \* agents each process may run or continue to
  Faults,      \* whether store calls may fail and processes die
  Ties,        \* whether two readings of the clock may be equal
  NoSession, NoAgent, NoExternal,
  MaxCommands, MaxVersion, MaxRecords  \* bounds of the instance

ASSUME AgentOfEach == AgentOf \in [Externals -> Agents]
ASSUME ReportsEach == Reports \in [Sessions -> SUBSET Externals]
ASSUME CommandsEach ==
  Commands \in [Processes -> SUBSET {"run", "continue", "checkpoint", "import"}]
ASSUME TargetsEach == Targets \in [Processes -> SUBSET Agents]
ASSUME Subsets == Importable \subseteq Externals /\ Exporting \subseteq Agents
                  /\ Capturing \subseteq Agents /\ Resumable \subseteq Agents
                  /\ Locking \subseteq Agents /\ {Faults, Ties} \subseteq BOOLEAN
ASSUME NoValues == NoSession \notin Sessions /\ NoAgent \notin Agents
                   /\ NoExternal \notin Externals
ASSUME BoundsAreNumbers == {MaxCommands, MaxVersion, MaxRecords} \subseteq Nat

VARIABLES
  status,       \* bridge_sessions.status, "none" before the row exists
  agent,        \* bridge_sessions.active_agent
  log,          \* context_events of each session in sequence order
  links,        \* external_session_links in the order of imported_at
  checkpoints,  \* rows of the checkpoints table
  handoffs,     \* rows of the handoff_packages table
  project,      \* version of the project's working tree
  records,      \* length of each external session's transcript
  job,          \* what each process is doing
  started,      \* commands started so far
  clock         \* different readings of the clock so far

tables == <<status, agent, log, links, checkpoints, handoffs>>
world == <<project, records>>
vars == <<tables, world, job, started, clock>>

-----------------------------------------------------------------------------
(* Import keys.  The prefix a command gives its keys is its mark.          *)

Package == [session : Sessions, source : Agents, target : Agents,
            seen : Nat, version : Nat]
NoPackage == [session |-> NoSession, source |-> NoAgent, target |-> NoAgent,
              seen |-> 0, version |-> 0]

Mark(name, stamp, package) == [name |-> name, stamp |-> stamp, package |-> package]
NoMark == Mark("none", 0, NoPackage)

\* A key is a tag under a mark, or a record of an external session in one of
\* two forms: the parser of a full export has a version of its own, and the
\* version is part of the key.
Key(tag, mark) ==
  [tag |-> tag, mark |-> mark, external |-> NoExternal, n |-> 0, full |-> FALSE]
RecordKey(x, i, full) ==
  [tag |-> "record", mark |-> NoMark, external |-> x, n |-> i, full |-> full]

Event(key, version) == [key |-> key, version |-> version]

HasKey(events, key) == \E i \in DOMAIN events : events[i].key = key
Stored(s, key) == HasKey(log[s], key)

\* append_events: one INSERT OR IGNORE after the other.
Appended(old, events) ==
  LET after[n \in 0 .. Len(events)] ==
        IF n = 0 THEN old
        ELSE IF HasKey(after[n - 1], events[n].key) THEN after[n - 1]
        ELSE Append(after[n - 1], events[n])
  IN  after[Len(events)]

AppendTo(s, events) == log' = [log EXCEPT ![s] = Appended(@, events)]

\* append_reconciliation: the files that differ, then the Git state.
Reconciliation(mark, before, after) ==
  (IF before = after THEN <<>>
   ELSE <<Event([Key("files", mark) EXCEPT !.n = after], after)>>)
  \o <<Event(Key("git", mark), after)>>

\* Fault: an export that lists its newest record first.
TranscriptNewestFirst(x, n, full) ==
  [i \in 1 .. n |-> Event(RecordKey(x, n + 1 - i, full), 0)]

Transcript(x, n, full) == [i \in 1 .. n |-> Event(RecordKey(x, i, full), 0)]

-----------------------------------------------------------------------------
(* Jobs.                                                                   *)

Idle == [pc |-> "idle", command |-> "none", session |-> NoSession,
         source |-> NoAgent, target |-> NoAgent, stamp |-> 0,
         before |-> 0, after |-> 0, package |-> NoPackage,
         external |-> NoExternal, count |-> 0, sequence |-> 0,
         full |-> FALSE, failures |-> FALSE]

\* Fault: keys of a continuation that name its target but not its package.
MarkWithoutPackage(j) ==
  CASE j.command = "run"      -> Mark("run", 0, NoPackage)
    [] j.command = "continue" -> Mark("continue", 0, [NoPackage EXCEPT !.target = j.target])
    [] OTHER                  -> Mark(j.command, j.stamp, NoPackage)

\* The mark of what a job records after the agent, or at a checkpoint.
MarkOf(j) == CASE j.command = "run"      -> Mark("run", 0, NoPackage)
               [] j.command = "continue" -> Mark("continue", 0, j.package)
               [] OTHER                  -> Mark(j.command, j.stamp, NoPackage)

Goto(p, pc) == job' = [job EXCEPT ![p].pc = pc]
Finish(p) == job' = [job EXCEPT ![p] = Idle]

\* A command that returns an error half way; the session it left is remembered
\* until the next command starts.
Abandon(p) == job' = [job EXCEPT ![p] = [Idle EXCEPT !.session = job[p].session]]

\* Fault: a session that is not active forgets its agent.
SetStatusForgetting(s, value, a) ==
  /\ status' = [status EXCEPT ![s] = value]
  /\ agent' = [agent EXCEPT ![s] = IF value = "active" THEN a ELSE NoAgent]

SetStatus(s, value, a) == /\ status' = [status EXCEPT ![s] = value]
                          /\ agent' = [agent EXCEPT ![s] = a]

\* external_links(s).rev().find(agent = a)
LastLink(s, a) ==
  LET own == {i \in DOMAIN links : links[i].session = s /\ AgentOf[links[i].external] = a}
  IN  IF own = {} THEN NoExternal ELSE links[Max(own)].external

OwnersOf(x) == {links[i].session : i \in {k \in DOMAIN links : links[k].external = x}}

\* The parser version of a link says whether a full export was asked for.
IsFull(s, x) ==
  \E i \in DOMAIN links : links[i].session = s /\ links[i].external = x /\ links[i].full

\* The upsert keeps imported_at, and so the place, of a link that exists, and
\* overwrites its parser version.
Linked(s, x, full) ==
  LET link == [session |-> s, external |-> x, full |-> full] IN
  IF s \in OwnersOf(x)
  THEN [i \in DOMAIN links |-> IF links[i].session = s /\ links[i].external = x
                               THEN link ELSE links[i]]
  ELSE Append(links, link)

Init ==
  /\ status = [s \in Sessions |-> "none"]
  /\ agent = [s \in Sessions |-> NoAgent]
  /\ log = [s \in Sessions |-> <<>>]
  /\ links = <<>>
  /\ checkpoints = {}
  /\ handoffs = {}
  /\ project = 0
  /\ records = [x \in Externals |-> 0]
  /\ job = [p \in Processes |-> Idle]
  /\ started = 0
  /\ clock = 0

-----------------------------------------------------------------------------
(* The user and the agents change the project and the transcripts at any   *)
(* time.  Only a snapshot sees the one and an export the other, so a       *)
(* change is modelled where it is first seen.                              *)

Snapshot(v) == /\ v \in project .. MaxVersion
               /\ project' = v
               /\ UNCHANGED records

Export(x, n) == /\ n \in records[x] .. MaxRecords
                /\ records' = [records EXCEPT ![x] = n]
                /\ UNCHANGED project

-----------------------------------------------------------------------------
(* How commands start.                                                     *)

Start(p, j) ==
  /\ job[p].pc = "idle" /\ started < MaxCommands /\ j.command \in Commands[p]
  /\ started' = started + 1
  /\ job' = [job EXCEPT ![p] = j]
  /\ UNCHANGED <<log, links, checkpoints, handoffs, world, clock>>

Existing == {s \in Sessions : status[s] # "none"}

\* An id no other process has minted.
Unused(s) == status[s] = "none" /\ \A p \in Processes : job[p].session # s

\* launch_new creates the session row first.
StartRun(p) ==
  \E s \in Sessions, a \in Targets[p] :
    /\ Unused(s)
    /\ Start(p, [Idle EXCEPT !.pc = "before", !.command = "run", !.session = s,
                             !.source = a, !.target = a])
    /\ SetStatus(s, "active", a)

\* Agents a session knows.  --from accepts others next to --session, but
\* they have nothing to refresh.
Sources(s) == {agent[s]} \cup {a \in Agents : LastLink(s, a) # NoExternal}

\* resolve_session and resolve_source_agent.
StartContinue(p) ==
  \E s \in Existing : \E a \in Targets[p], from \in Sources(s) :
    /\ Start(p, [Idle EXCEPT !.pc = "refresh", !.command = "continue", !.session = s,
                             !.source = from, !.target = a])
    /\ UNCHANGED <<status, agent>>

StartCheckpoint(p) ==
  \E s \in Existing :
    /\ Start(p, [Idle EXCEPT !.pc = "before", !.command = "checkpoint", !.session = s])
    /\ UNCHANGED <<status, agent>>

\* import looks the external session up and mints an id when it has no owner.
\* Only an export can be had in full.
StartImport(p) ==
  \E x \in Importable, s \in Sessions, full \in BOOLEAN :
    /\ IF OwnersOf(x) = {} THEN Unused(s) ELSE s \in OwnersOf(x)
    /\ full => AgentOf[x] \in Exporting
    /\ Start(p, [Idle EXCEPT !.pc = "export", !.command = "import", !.session = s,
                             !.external = x, !.target = AgentOf[x], !.full = full])
    /\ UNCHANGED <<status, agent>>

-----------------------------------------------------------------------------
(* import.                                                                 *)

\* import_session reads the export; one without a message is an error.
ReadExport(p) ==
  /\ job[p].pc = "export"
  /\ \E n \in 0 .. MaxRecords :
       /\ Export(job[p].external, n)
       /\ IF n = 0 THEN Finish(p)
          ELSE job' = [job EXCEPT ![p].pc = "bundle", ![p].count = n]
  /\ UNCHANGED <<tables, started, clock>>

\* import_session_bundle; a session that got another owner since is refused.
StoreBundle(p) ==
  LET j == job[p] s == j.session x == j.external IN
  /\ j.pc = "bundle" /\ OwnersOf(x) \subseteq {s}
  /\ IF status[s] = "none" THEN SetStatus(s, "paused", j.target)
                           ELSE UNCHANGED <<status, agent>>
  /\ AppendTo(s, Transcript(x, j.count, j.full))
  /\ links' = Linked(s, x, j.full)
  /\ Finish(p)
  /\ UNCHANGED <<checkpoints, handoffs, world, started, clock>>

RefuseBundle(p) ==
  /\ job[p].pc = "bundle" /\ ~ OwnersOf(job[p].external) \subseteq {job[p].session}
  /\ Finish(p)
  /\ UNCHANGED <<tables, world, started, clock>>

-----------------------------------------------------------------------------
(* continue up to the launch.                                              *)

\* refresh_source reads the export of the source's last link, in the form the
\* link asks for.
SourceLink(j) == LastLink(j.session, j.source)
CanRefresh(j) == SourceLink(j) # NoExternal /\ j.source \in Exporting

\* There is no link, or the agent has no export; or its version probes time out,
\* so that its version counts as unsupported and the refresh as unavailable.
SkipRefresh(p) ==
  /\ job[p].pc = "refresh"
  /\ Goto(p, "before")
  /\ UNCHANGED <<tables, world, started, clock>>

ReadRefresh(p) ==
  LET j == job[p] x == SourceLink(j) IN
  /\ j.pc = "refresh" /\ CanRefresh(j)
  /\ \E n \in 0 .. MaxRecords :
       /\ Export(x, n)
       /\ IF n = 0 THEN Finish(p)
          ELSE job' = [job EXCEPT ![p].pc = "refreshed", ![p].external = x, ![p].count = n,
                                  ![p].full = IsFull(j.session, x)]
  /\ UNCHANGED <<tables, started, clock>>

AppendRefreshed(p) ==
  LET j == job[p] IN
  /\ j.pc = "refreshed"
  /\ AppendTo(j.session, Transcript(j.external, j.count, j.full))
  /\ job' = [job EXCEPT ![p].pc = "before", ![p].external = NoExternal, ![p].count = 0,
                        ![p].full = FALSE]
  /\ UNCHANGED <<status, agent, links, checkpoints, handoffs, world, started, clock>>

\* Utc::now().  It is not monotonic, and only whether readings are equal
\* matters: they are numbered in the order in which they first occur.
Now(t) == \/ t = clock + 1 /\ clock' = t
          \/ Ties /\ t \in 1 .. clock /\ UNCHANGED clock

\* The first snapshot of a command, and the time a continuation or a
\* checkpoint puts into the keys of what it records of it.
SnapshotBefore(p) ==
  LET j == job[p] IN
  /\ j.pc = "before"
  /\ \E v \in 0 .. MaxVersion, t \in 0 .. clock + 1 :
       /\ Snapshot(v)
       /\ IF j.command = "run" THEN t = 0 /\ UNCHANGED clock ELSE Now(t)
       /\ job' = [job EXCEPT ![p].pc = "record", ![p].before = v, ![p].after = v,
                             ![p].stamp = t]
  /\ UNCHANGED <<tables, started>>

\* Fault: the pre-handoff keys carry no time.
FirstMarkUntimed(j) ==
  CASE j.command = "run"      -> Mark("initial", 0, NoPackage)
    [] j.command = "continue" -> Mark("pre-handoff", 0, NoPackage)
    [] OTHER                  -> MarkOf(j)

\* What a command records of the first snapshot, and under which mark.
FirstMark(j) ==
  CASE j.command = "run"      -> Mark("initial", 0, NoPackage)
    [] j.command = "continue" -> Mark("pre-handoff", j.stamp, NoPackage)
    [] OTHER                  -> MarkOf(j)

AfterRecord == [run |-> "launch", continue |-> "save", checkpoint |-> "checkpoint"]

RecordBefore(p) ==
  LET j == job[p] IN
  /\ j.pc = "record"
  /\ AppendTo(j.session, Reconciliation(FirstMark(j), j.before, j.before))
  /\ Goto(p, AfterRecord[j.command])
  /\ UNCHANGED <<status, agent, links, checkpoints, handoffs, world, started, clock>>

\* The package save_summary builds from the events it reads.  Nobody but its
\* own process sees a package before it is stored, so reading and storing are
\* one step.
PackageOf(j, source, version) ==
  [session |-> j.session, source |-> source, target |-> j.target,
   seen |-> Len(log[j.session]), version |-> version]

\* Fault: the package is only kept in memory until the closing summary.
KeepHandoff(p) ==
  LET j == job[p] IN
  /\ j.pc = "save"
  /\ job' = [job EXCEPT ![p].pc = "handoff", ![p].package = PackageOf(j, j.source, j.before)]
  /\ UNCHANGED <<tables, world, started, clock>>

SaveHandoff(p) ==
  LET j == job[p]
      package == PackageOf(j, j.source, j.before)
  IN
  /\ j.pc = "save"
  /\ handoffs' = handoffs \cup {package}
  /\ job' = [job EXCEPT ![p].pc = "handoff", ![p].package = package]
  /\ UNCHANGED <<status, agent, log, links, checkpoints, world, started, clock>>

\* --preview prints the package and stops.
Preview(p) ==
  /\ job[p].pc = "handoff"
  /\ Finish(p)
  /\ UNCHANGED <<tables, world, started, clock>>

AppendHandoff(p) ==
  LET j == job[p] IN
  /\ j.pc = "handoff"
  /\ AppendTo(j.session, <<Event(Key("handoff", MarkOf(j)), 0)>>)
  /\ Goto(p, "target")
  /\ UNCHANGED <<status, agent, links, checkpoints, handoffs, world, started, clock>>

\* The target's last link, to be resumed when its profile can.
ReadTarget(p) ==
  LET j == job[p] IN
  /\ j.pc = "target"
  /\ job' = [job EXCEPT ![p].pc = "activate", ![p].count = 0, ![p].external =
               IF j.target \in Resumable THEN LastLink(j.session, j.target) ELSE NoExternal]
  /\ UNCHANGED <<tables, world, started, clock>>

\* A target without a verified way to inject context gets a file instead.
ManualHandoff(p) ==
  /\ job[p].pc = "target"
  /\ Finish(p)
  /\ UNCHANGED <<tables, world, started, clock>>

Activate(p) ==
  /\ job[p].pc = "activate"
  /\ SetStatus(job[p].session, "active", job[p].target)
  /\ Goto(p, "launch")
  /\ UNCHANGED <<log, links, checkpoints, handoffs, world, started, clock>>

-----------------------------------------------------------------------------
(* The agent.                                                              *)

\* Fault: the error of the adapter is returned at once.
LaunchFailsSilently(p) ==
  /\ job[p].pc = "launch"
  /\ Finish(p)
  /\ UNCHANGED <<tables, world, started, clock>>

\* The adapter returns an error instead of an exit status.  A continuation
\* refused because the target's session is already in use pauses the session
\* again, under its source.
LaunchFails(p) ==
  LET j == job[p] IN
  /\ j.pc = "launch"
  /\ \/ SetStatus(j.session, "failed", j.target)
     \/ /\ j.command = "continue" /\ j.target \in Locking
        /\ SetStatus(j.session, "paused", j.source)
  /\ Finish(p)
  /\ UNCHANGED <<log, links, checkpoints, handoffs, world, started, clock>>

\* What a fresh launch may report as its external session.
Reported(j) ==
  {NoExternal} \cup {x \in Reports[j.session] : AgentOf[x] = j.target}

\* Capture failures are recorded by a batch of their own; an empty batch
\* changes nothing and gets no step.
AfterEvents(failures) == IF failures THEN "failures" ELSE "after"

\* The agent exits.  Its exit status is not looked at before Finalize.
AgentExits(p) ==
  LET j == job[p] IN
  /\ j.pc = "launch"
  /\ \E x \in IF j.external = NoExternal THEN Reported(j) ELSE {j.external},
        failures \in IF j.target \in Capturing THEN BOOLEAN ELSE {FALSE} :
       job' = [job EXCEPT ![p].external = x, ![p].failures = failures,
             ![p].pc = IF x # NoExternal /\ j.target \in Capturing THEN "capture"
                       ELSE AfterEvents(failures)]
  /\ UNCHANGED <<tables, world, started, clock>>

\* Structured capture reads what the agent wrote to its event sink.
ReadCapture(p) ==
  /\ job[p].pc = "capture"
  /\ \E n \in 0 .. MaxRecords :
       /\ Export(job[p].external, n)
       /\ job' = [job EXCEPT ![p].pc = "events", ![p].count = n]
  /\ UNCHANGED <<tables, started, clock>>

AppendCaptured(p) ==
  LET j == job[p] IN
  /\ j.pc = "events"
  /\ AppendTo(j.session, Transcript(j.external, j.count, FALSE))
  /\ Goto(p, AfterEvents(j.failures))
  /\ UNCHANGED <<status, agent, links, checkpoints, handoffs, world, started, clock>>

AppendCaptureFailures(p) ==
  LET j == job[p] IN
  /\ j.pc = "failures"
  /\ AppendTo(j.session, <<Event(Key("error", MarkOf(j)), 0)>>)
  /\ Goto(p, "after")
  /\ UNCHANGED <<status, agent, links, checkpoints, handoffs, world, started, clock>>

SnapshotAfter(p) ==
  /\ job[p].pc = "after"
  /\ \E v \in 0 .. MaxVersion :
       /\ Snapshot(v)
       /\ job' = [job EXCEPT ![p].pc = "reconcile", ![p].after = v]
  /\ UNCHANGED <<tables, started, clock>>

AppendReconciliation(p) ==
  LET j == job[p] IN
  /\ j.pc = "reconcile"
  /\ AppendTo(j.session, Reconciliation(MarkOf(j), j.before, j.after))
  /\ Goto(p, IF j.external = NoExternal THEN "checkpoint" ELSE "link")
  /\ UNCHANGED <<status, agent, links, checkpoints, handoffs, world, started, clock>>

\* The parser version of a run is the profile of its agent.
LinkExternal(p) ==
  LET j == job[p] IN
  /\ j.pc = "link" /\ OwnersOf(j.external) \subseteq {j.session}
  /\ links' = Linked(j.session, j.external, FALSE)
  /\ Goto(p, "checkpoint")
  /\ UNCHANGED <<status, agent, log, checkpoints, handoffs, world, started, clock>>

\* UNIQUE(agent, external_session_id) fails and the command returns the error.
LinkConflict(p) ==
  /\ job[p].pc = "link" /\ ~ OwnersOf(job[p].external) \subseteq {job[p].session}
  /\ Abandon(p)
  /\ UNCHANGED <<tables, world, started, clock>>

-----------------------------------------------------------------------------
(* Checkpoint, status, summary.                                            *)

\* Only an inserted event gets a row, and only run and checkpoint write rows;
\* the checkpoint command fails when its event was deduplicated.
AppendCheckpoint(p) ==
  LET j == job[p]
      key == Key("checkpoint", MarkOf(j))
  IN
  /\ j.pc = "checkpoint"
  /\ AppendTo(j.session, <<Event(key, 0)>>)
  /\ IF j.command # "continue" /\ ~ Stored(j.session, key)
     THEN job' = [job EXCEPT ![p].pc = "row", ![p].sequence = Len(log[j.session]) + 1]
     ELSE IF j.command = "checkpoint" THEN Finish(p) ELSE Goto(p, "finalize")
  /\ UNCHANGED <<status, agent, links, checkpoints, handoffs, world, started, clock>>

\* Fault: the row is given the last sequence number of the session.
CreateCheckpointAtEnd(p) ==
  LET j == job[p] IN
  /\ j.pc = "row"
  /\ checkpoints' = checkpoints \cup
       {[session |-> j.session, sequence |-> Len(log[j.session]), mark |-> MarkOf(j)]}
  /\ IF j.command = "checkpoint" THEN Finish(p) ELSE Goto(p, "finalize")
  /\ UNCHANGED <<status, agent, log, links, handoffs, world, started, clock>>

CreateCheckpoint(p) ==
  LET j == job[p] IN
  /\ j.pc = "row"
  /\ checkpoints' = checkpoints \cup
       {[session |-> j.session, sequence |-> j.sequence, mark |-> MarkOf(j)]}
  /\ IF j.command = "checkpoint" THEN Finish(p) ELSE Goto(p, "finalize")
  /\ UNCHANGED <<status, agent, log, links, handoffs, world, started, clock>>

\* Paused when the exit status was zero and nothing failed to be captured.
Finalize(p) ==
  LET j == job[p] IN
  /\ j.pc = "finalize"
  /\ \E zero \in BOOLEAN :
       SetStatus(j.session, IF zero /\ ~ j.failures THEN "paused" ELSE "failed", j.target)
  /\ Goto(p, "summary")
  /\ UNCHANGED <<log, links, checkpoints, handoffs, world, started, clock>>

\* The closing save_summary, from the target to itself.
SaveSummary(p) ==
  LET j == job[p] IN
  /\ j.pc = "summary"
  /\ handoffs' = handoffs \cup {PackageOf(j, j.target, j.after)}
  /\ Finish(p)
  /\ UNCHANGED <<status, agent, log, links, checkpoints, world, started, clock>>

-----------------------------------------------------------------------------
\* A store call, a snapshot or the compactor fails and the command returns
\* the error, or the process dies.  What it wrote so far stays.
CutShort(p) ==
  /\ Faults /\ job[p].pc # "idle"
  /\ Abandon(p)
  /\ UNCHANGED <<tables, world, started, clock>>

Step(p) ==
  \/ ReadExport(p) \/ StoreBundle(p) \/ RefuseBundle(p)
  \/ SkipRefresh(p) \/ ReadRefresh(p) \/ AppendRefreshed(p) \/ SnapshotBefore(p) \/ RecordBefore(p)
  \/ SaveHandoff(p) \/ Preview(p) \/ AppendHandoff(p)
  \/ ReadTarget(p) \/ ManualHandoff(p) \/ Activate(p)
  \/ LaunchFails(p) \/ AgentExits(p)
  \/ ReadCapture(p) \/ AppendCaptured(p) \/ AppendCaptureFailures(p)
  \/ SnapshotAfter(p) \/ AppendReconciliation(p)
  \/ LinkExternal(p) \/ LinkConflict(p)
  \/ AppendCheckpoint(p) \/ CreateCheckpoint(p) \/ Finalize(p)
  \/ SaveSummary(p)

Next ==
  \E p \in Processes :
    \/ StartRun(p) \/ StartContinue(p) \/ StartCheckpoint(p) \/ StartImport(p)
    \/ Step(p) \/ CutShort(p)

Spec == Init /\ [][Next]_vars

\* A command keeps running until it returns.  It may wait for ever for an agent
\* that nobody closes, and for the agent's own program to list or export its
\* sessions, on which there is no time limit.
Waiting == {"export", "refresh", "launch"}
FairSpec == Spec /\ \A p \in Processes : WF_vars(job[p].pc \notin Waiting /\ Step(p))

-----------------------------------------------------------------------------
Keys == [tag : {"git", "files", "error", "handoff", "checkpoint", "record"},
         mark : [name : {"none", "initial", "pre-handoff", "run", "continue",
                         "checkpoint", "import"},
                 stamp : Nat, package : Package \cup {NoPackage}],
         external : Externals \cup {NoExternal}, n : Nat, full : BOOLEAN]

TypeOK ==
  /\ status \in [Sessions -> {"none", "active", "paused", "failed"}]
  /\ agent \in [Sessions -> Agents \cup {NoAgent}]
  /\ \A s \in Sessions : status[s] = "none" <=> agent[s] = NoAgent
  /\ \A s \in Sessions : \A i \in DOMAIN log[s] :
       log[s][i].key \in Keys /\ log[s][i].version \in Nat
  /\ \A i \in DOMAIN links : links[i].session \in Sessions /\ links[i].external \in Externals
                               /\ links[i].full \in BOOLEAN
  /\ handoffs \subseteq Package
  /\ \A p \in Processes :
       /\ job[p].session \in Sessions \cup {NoSession}
       /\ {job[p].source, job[p].target} \subseteq Agents \cup {NoAgent}
       /\ job[p].external \in Externals \cup {NoExternal}
       /\ job[p].package \in Package \cup {NoPackage}

At(s, i, key) == i \in DOMAIN log[s] /\ log[s][i].key = key

\* Steps of run and continue between making the session active and the
\* update of its status.
Finalizing == {"launch", "capture", "events", "failures", "after", "reconcile",
               "link", "checkpoint", "row", "finalize"}

\* As long as no fault cuts a command short, a session is active only while a
\* command is at work on it that will set its status: however the launch,
\* the agent, the capture or the bookkeeping after the exit turn out, and
\* whoever else works on the session.
ActiveHasOwner ==
  \A s \in Sessions : status[s] = "active" =>
    \E p \in Processes :
      /\ job[p].session = s
      /\ \/ job[p].command = "run" /\ job[p].pc \in {"before", "record"} \cup Finalizing
         \/ job[p].command = "continue" /\ job[p].pc \in Finalizing

\* When a command comes to set the final status, the log of its session tells
\* the whole exit, in order: what failed to be captured, the project as the
\* command saw it after the exit, and a checkpoint.
ExitIsRecorded ==
  \A p \in Processes :
    LET j == job[p] s == j.session m == MarkOf(j) IN
    j.pc = "finalize" =>
      \E g, c \in DOMAIN log[s] :
        /\ g < c
        /\ At(s, g, Key("git", m)) /\ log[s][g].version = j.after
        /\ At(s, c, Key("checkpoint", m))
        /\ j.failures => \E e \in 1 .. g : At(s, e, Key("error", m))

\* The agent that continues a session is handed a package that covers the
\* project state this very command found and recorded, and with it everything
\* recorded before that, the transcript of the source included when it was
\* refreshed.  Two commands that read the same time break it.
HandoffIsCurrent ==
  \A p \in Processes :
    LET j == job[p] s == j.session IN
    j.command = "continue" /\ j.pc = "launch" =>
      \E g \in 1 .. j.package.seen :
        /\ At(s, g, Key("git", FirstMark(j)))
        /\ log[s][g].version = j.package.version

\* Refreshes, imports and captures of one external session, from any number of
\* processes that read the transcript at different times, leave its records
\* in the log in the order of the transcript, and once each for each form it
\* was exported in: neither the form nor what another process stored in the
\* other one makes a gap.
RecordsInOrder ==
  \A s \in Sessions : \A i \in DOMAIN log[s] :
    LET k == log[s][i].key IN
    k.tag = "record" =>
      /\ \A h \in DOMAIN log[s] : log[s][h].key = k => h = i
      /\ \A n \in 1 .. k.n - 1 : \E h \in 1 .. i - 1 : At(s, h, RecordKey(k.external, n, k.full))

\* docs/canonical-context-format.md has a unique index that prevents two events
\* of a session with one external event id of one agent.  The second migration
\* drops it: a record imported in both forms is there twice.
ExternalIdsUnique ==
  \A s \in Sessions : \A i, h \in DOMAIN log[s] :
    LET k == log[s][i].key m == log[s][h].key IN
    k.tag = "record" /\ m.tag = "record" /\ k.external = m.external /\ k.n = m.n => i = h

\* Every row of the checkpoints table names the position of the checkpoint
\* event its own command appended, after a project state that was recorded
\* under its mark.
CheckpointsNameTheirEvent ==
  \A c \in checkpoints :
    /\ At(c.session, c.sequence, Key("checkpoint", c.mark))
    /\ \E g \in 1 .. c.sequence - 1 : At(c.session, g, Key("git", c.mark))

\* Every handoff event in a log refers to a stored package of that session,
\* built from events that precede it, wherever its command was cut short.
HandoffEventsResolve ==
  \A s \in Sessions : \A i \in DOMAIN log[s] :
    LET k == log[s][i].key IN
    k.tag = "handoff" =>
      k.mark.package \in handoffs /\ k.mark.package.session = s
        /\ k.mark.package.seen < i

Abandoned(s) == \E p \in Processes : job[p].pc = "idle" /\ job[p].session = s

\* A command on the session waits for its agent.
AgentAtWork(s) == \E p \in Processes : job[p].pc = "launch" /\ job[p].session = s

\* Every session that becomes active settles as paused or failed, unless an
\* agent stays at work on it, or a command on it is cut short or refused its
\* link: no order of the steps of other commands, failed launches or captures
\* keeps it active.
SessionsSettle ==
  \A s \in Sessions :
    <> Abandoned(s) \/ <>[] AgentAtWork(s) \/ []<>(status[s] # "active")
=============================================================================
