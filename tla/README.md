# Context Bridge: models, checks and proofs

Context Bridge (`cb`) keeps one history of a coding task while the user moves
between Claude Code, Codex and OpenCode. `cb run` launches an agent and records
what it did, `cb import` takes over a session an agent already has, `cb continue`
hands a session from one agent to another, `cb checkpoint` records the state of
the project in between. All of them are short-lived processes over one SQLite
database. This directory holds TLA+ models of that behaviour, the TLC
configurations that check them, and proofs checked by TLAPS. `PROJECT.json` maps
every definition to the lines it stands for.

## Inventory

| Component | State it keeps | Operations | What makes it correct |
|---|---|---|---|
| Event store (`cb-storage`) | tables `bridge_sessions`, `context_events`, `external_session_links`, `checkpoints`, `handoff_packages`; SQLite's writer reservation | `append_events`, `import_session_bundle`, `create_session`, `link_external_session`, `update_session`, `create_checkpoint`, `save_handoff`; queries | numbers 1..n without gaps; reported success is stored; imports are all or nothing; history only grows; the reservation is released |
| Commands `run`, `continue`, `checkpoint`, `import` (`cb-cli`) | what one invocation has read and not yet used | sequences of store calls, snapshots and adapter calls | an active session has somebody who will settle it; every exit is recorded; a handoff is current; the tables agree with the log |
| Snapshot diff (`cb-project/src/diff.rs`) | two snapshots, the lists of created and deleted paths | `diff_snapshots` | every path is told exactly once |
| Agent adapters (`cb-adapters`) | none between calls; the agents' own sessions are external | version probes, launch, resume, refresh, import, discover | a handoff is delivered or refused; links only what they can prove (violated, counterexample 4); nothing after the exit hides it (violated, counterexample 5) |
| Event normalizer (`cb-context/src/normalizer.rs`) | none | keys and shapes of imported events | one key for one record, whenever it is exported |
| Handoff builder and compactor (`cb-context`) | none, a function of events and budget | `build`, `compact_to_budget` | deterministic; hides what is secret; stays in the budget; ends |
| Project capture (`cb-project`) | none | walk, hash, `git` | I/O |
| Child processes (`cb-process`) | the attached child, signal handlers | spawn, wait, forward signals | no forwarded signal leaves the agent behind; it reaches the agent and nobody else; the exit status is kept |
| Redaction, path policy, permissions (`cb-security`) | patterns | classify, redact | nothing secret leaves |
| Hook integration (`integrate.rs`), configuration (`config.rs`) | settings files, temporary files, backups | read, back up, write, rename; layering and validation | files are never torn; what is not named does not change (but see counterexamples 7 and 8); no command locks itself out |
| Data directory (`sqlite.rs`, `permissions.rs`) | files and modes | create, restrict | I/O |
| Read-only commands, renderers, output, migrations | none | queries and printing | |

Components interact through the database (processes never talk to each other),
through the project's working tree (which agents, the user and other processes
change at any time), through settings files, and through the agents'
transcripts, which grow while `cb` reads them. The hard behaviour is therefore: two processes interleaving between
any two store calls; a value read from the database, the working tree or a
transcript used long after it was read; a command that dies or returns an error
half way; and what the deduplication by import key drops. `PROJECT.json` lists
each such hazard at its line under `hazards`, with the property that covers it or
the reason none does yet.

## Modules

| Module | Models | How |
|---|---|---|
| `ContextLog` | what the store promises | a log of distinct keys per session, links with one owner, atomic calls |
| `EventStore` | the two multi-statement transactions and the single-statement writes | one step per SQL statement |
| `MCEventStore` | instances of `EventStore` | |
| `EventStoreProofs` | theorems about `EventStore` | TLAPS |
| `EventStoreRefinement` | the theorem that `EventStore` implements `ContextLog` | TLAPS |
| `BridgeLifecycle` | the four commands that write | one step per store call, snapshot or adapter call |
| `MCBridgeLifecycle` | instances of `BridgeLifecycle` | |
| `BridgeLifecycleProofs` | theorems about `BridgeLifecycle` | TLAPS |
| `ChildProcess` | `run_attached` and its signals | one step per await, system call and signal |
| `AgentLaunch` | the production adapters from the capability check to the reply, extending `ChildProcess` | one step per probe and per decision |
| `MCAgentLaunch` | an instance of `AgentLaunch` | |
| `AgentLaunchProofs` | theorems about `ChildProcess` and `AgentLaunch` | TLAPS |
| `OpenCodeExport` | the export parser, the import keys and the log they end in | one step per growth of the transcript, per export read and per batch stored |
| `MCOpenCodeExport` | instances of `OpenCodeExport` | |
| `OpenCodeExportProofs` | theorems about `OpenCodeExport` | TLAPS |
| `SettingsFiles` | `config set` and `integrate claude` | one step per file system call |
| `MCSettingsFiles` | an instance of `SettingsFiles` | |
| `SettingsFilesProofs` | theorems about `SettingsFiles` | TLAPS |
| `SnapshotDiff` | `diff_snapshots` | one step per move that is applied |
| `MCSnapshotDiff` | instances of `SnapshotDiff` | |
| `SnapshotDiffProofs` | theorems about `SnapshotDiff` | TLAPS |
| `HandoffBuilder` | `HandoffBuilder::build` and `compact_to_budget` | one step per phase of `build` and per item the compactor discards |
| `MCHandoffBuilder` | instances of `HandoffBuilder` | |
| `HandoffBuilderProofs` | theorems about `HandoffBuilder` | TLAPS |

`BridgeLifecycle` treats a store call as one atomic step. That is what
`EventStore` establishes: it implements `ContextLog`, in which every call is one
step (run `event_store`, theorem `StoreImplementsContextLog`). A launch or resume is one step of `BridgeLifecycle`
followed by `AgentExits`; `AgentLaunch` is what happens inside, and every
session it may report is among the `Reports` of the lifecycle. Likewise
`OpenCodeExport` is what is inside `Export(x, n)`. Definitions under a comment
that begins with `Fault:` are no part of the specifications: each is a mutated form
of the definition after it that a run must refute (`mutants` in `PROJECT.json`).

### EventStore

A writer is one call in progress: a task on the pool of one process or another
process on the same file. `db` is what is committed, `view[w]` what `w`'s own
transaction sees, `lock` SQLite's writer reservation. `Begin` is `BEGIN
IMMEDIATE`; `ReadMaxSequence`, `InsertEvent` (once per event), `UpsertLink` and
`Commit` are the statements that follow; the local variables `sequence`,
`inserted` have the names they have in the code. `append_events` and
`import_session_bundle` share the actions: an append has no session to create
and no link to store. `Accepts` is `INSERT OR IGNORE` under both UNIQUE
constraints, `LinkAllowed` is `UNIQUE(agent, external_session_id)`. A call fails
by `BusyTimeout` while it waits, by `Rollback` at any statement, or with its
process by `Crash`. A call for an existing external session goes to the owner
that was looked up earlier; the look-up (`CallImport`) and the transaction are
separate steps.

Left out: columns no property tells apart, and the `UPDATE ... updated_at` that
precedes the commit. Ids are random UUIDs and so never repeat (`Fresh`).

### BridgeLifecycle

`job[p]` is what process `p` holds in local variables. The actions follow the
code from top to bottom: `StartRun` ... `SnapshotBefore`, `RecordBefore`, the
launch, `AgentExits`, `AppendCaptured`, `AppendCaptureFailures`, `SnapshotAfter`,
`AppendReconciliation`, `LinkExternal`, `AppendCheckpoint`, `CreateCheckpoint`,
`Finalize`, `SaveSummary`; `continue` adds the refresh of the source, the
handoff (`SaveHandoff`, `Preview`, `AppendHandoff`), `ReadTarget`,
`ManualHandoff` and `Activate`. `LaunchFails` has the two outcomes of the code:
failed, or, for a continuation refused because the agent's session is in use
elsewhere (`Locking`), paused again under the source. `CutShort` is any error a
store call, a snapshot, the builder or the file system returns through `?`, and
any crash or panic; it is enabled by `Faults`.

Abstractions, and why they are sound:

* The project is a version number and a transcript the number of its records.
  They change where they are next observed (`Snapshot(v)`, `Export(x, n)`),
  which loses nothing because nothing else reads them. Both only grow.
* A handoff id is a hash of the package. A package is the tuple of what it is
  built from: session, source, target, the prefix of the log that was read and
  the Git state. Different tuples differ in the watermark or the content of the
  events, so they hash differently as long as the hash does not collide and
  every event has a timestamp of its own.
* Import keys are records: the tag of the event under the prefix of its command
  (`Mark`). `pre-handoff` and `manual-checkpoint` prefixes carry a clock, read after the
  first snapshot (`Now`) and kept as `stamp`. With `Ties` two readings may be equal, as
  two in one millisecond are; only equality matters, so readings are numbered by their
  first occurrence. Manual checkpoints use nanoseconds, but the clock may tick coarsely
  or be set back, so they tie as well.
* The key of a record of a transcript has the form of its export (`RecordKey`): the
  parser version is part of it, and a sanitized and a full export have different ones.
  `IsFull` is the marker in the parser version of the link, which `Linked` overwrites
  as the upsert does: an import chooses the form, a link renewed after an exit clears it.
* `SkipRefresh` is the refresh that is unavailable, because there is no link, because
  the agent has no export, or because its version probes timed out.
* A command may pick any session of the project, as `--session` does; which one
  is most recent is not modelled. `--from` is restricted to agents the session
  knows: another agent has no link and nothing to refresh.
* Finalize chooses whether the exit status is zero; nothing before looks at it.
* Events with an empty batch change nothing but `updated_at` and have no step.
* Transcripts are append-only here: a message that OpenCode reverts or rewrites is
  not modelled. `OpenCodeExport` models messages that are still being written.
* Structured capture during a run exists only in the fake adapter (`Capturing`).
  The production adapters report no events and no capture failures.

### ChildProcess and AgentLaunch

`cb` is where `run_attached` is: `Start` installs both handlers before `Spawn`;
the `select!` of the loop is the choice between `Reap` and `Receive`; a signal it took
is forwarded by `Kill` and then `Pkill`, and neither awaits the child. `pending` is
tokio's memory, one flag per signal. `Arrive` sends a signal to `cb` alone or,
as a terminal does with Ctrl-C, to the agent too. Before the handlers are there it kills `cb`.
Handlers exist for SIGINT and SIGTERM alone (`Signals`); any other signal (`Unhandled`:
SIGHUP when the terminal closes, SIGQUIT) ends `cb` wherever it is, with `cb =
"hungup"`, and an agent that survives it goes on without anybody to record its exit. `Kill`
may fail, which the code ignores; `lost` remembers it.
The process id of a reaped child may belong to somebody else. A failure of
`wait` itself, which takes a process without that child, is left out, and so is the
branch for systems other than Unix. `pkill` reaches children of the agent that
no property distinguishes.

`AgentLaunch` wraps this in the adapter. `Probe` is one `--version` call of
`installation()`, which is repeated three times and is made again by the capability
check, by the launch or resume, by `launch_opencode` and by the lookup after the exit. Each
of these may find another profile than the one before. `given` is what the agent is
started with. OpenCode says nothing of the session it used: `List` picks the
most recently updated session of the project since `launchedAt`, while `OthersWrite`
are other terminals, in this project and elsewhere. `Counted` are the sessions that
count as the project's: those in its directory and those that are listed without one
(`Unplaced`), wherever they belong. Timestamps are a counter that
every write advances; a session listed without a timestamp counts as last updated in
1970 and is never picked, like one that is not listed. The listing may fail or, having no
time limit, never return.

### OpenCodeExport

`transcript` is what OpenCode has written of one session. Messages are added,
grow, call tools and are closed in any order OpenCode allows; a user may send the next
message before the last is answered (`queued`). `Export` is what
`parse_opencode_export` followed by `normalize_raw_event` makes of it: the keys of
messages (`MessageName`), of tool parts (`PartName`) and of results. A part may have an input alone
(`CallTool`), both (`FinishTool`) or an output alone (`AnswerTool`). The two
forms, sanitized and full, have keys of their own because the parser version differs. Two
processes read exports (`Import`, `Refresh`) and store them later (`Store`) in
any order. `marker` is the parser version of the link, which `Relink`, the
link renewed after an exit, resets. Reasoning parts, unknown roles and empty texts have
no event. A failing export is an error that changes nothing.

### SettingsFiles

`job[p]` is a `config set` or an `integrate` between two file system calls: `Read`,
`Backup`, `Open` (create and truncate the temporary file), `Fill`, `Publish` (the
rename). `fd` says where the open file has gone when another process renames
the shared `config.toml.tmp` under it. `Stop` is a failing call or the end of the
process at any point; a process id and so the name of its temporary file can be
used again. `Loads` is `load_config`: the project file over the global one, under the
environment, an untrusted project file restricted to safe keys. `EditProject` is a
checkout, `EditSettings` Claude Code or its user; both replace whole files. A
configuration maps keys to values, settings are the `SessionEnd` groups. A value may be
of the wrong type (`Mistyped`), which fails while the files are read, or out of range
(`Bad`), which is only looked at after the environment has replaced it; `config set` accepts
neither. A group is the set of its hooks; somebody else's may be empty.

Left out: a third file named by `--config`, command-line flags other than trust, and the data
directory; loading the layers is one step. Refusals (symbolic links, settings that
are no object) are the errors of `Stop`.

### SnapshotDiff

Paths are numbered in sort order, a file is a value of `Metadata` with a content
hash or `NoHash` (longer than `HASH_LIMIT`). `PairMoves` is the loop that
remembers indices, `ApplyMove` one iteration of the loop that removes them,
`Collect` the rest. `Vec::remove` out of bounds sets `phase` to `"panicked"`. The
deleted paths are a set, because the code only removes them by value; the created
ones are a sequence in path order, because it removes them by index.

### HandoffBuilder

An event is its kind, the verdicts that decide whether it may be shown (the
sensitivity, the path policy, the form of OpenCode export it came from) and the
tokens its item adds. `Reduce` applies the two filters of `build` and
`reduce_event`, `Window` is the conversation window and the note on an otherwise
empty state, `DiscardOldest` one iteration of the loop behind `discard_oldest!`,
`NextList` its end, `TruncateDiff` the phase between `pending_tasks` and `errors`.
A list is the set of the log positions of its items, 0 being the note on an empty
state; the position orders them as the code's vectors do, and an estimate is a sum
(`SumTo`) over positions. The reserve of 64 tokens and the sixteenth of the budget are the code's numbers.

The estimate of a package is the sum over its parts. The code estimates the
serialized text, a quarter of its characters rounded up once for the package and
once per message in the window, so the two differ by rounding and by separators,
which the reserve of the window absorbs in practice; no property depends on which side
of a boundary one token falls. An event adds one item to each list of its kind,
while a checkpoint may add several or none. The recommended next action, one
more required part, is left out, and so are texts, redaction and the sanitizing
of the Git context.

## Runs

| Run | Instance | Shows |
|---|---|---|
| `event_store` | 2 writers, 1 run session, 2 import sessions, 1 external session, 2 keys, a batch with a repeated key and one that shares its other key, fair; 52,136 states | `TypeOK`, `GapFree`, `SuccessIsDurable`, `ImportIsAtomic`, `AppendOnly`, `ImplementsContextLog`, `ReservationIsReleased` |
| `continues` | a session is imported in either form, then continued by two processes to different agents, no two readings of the clock equal; 3 commands, 2 project versions, transcripts of 2 records; 2,068,300 states | `ActiveHasOwner`, `ExitIsRecorded`, `HandoffIsCurrent`, `RecordsInOrder` |
| `lifecycle_faults` | a run and one other command over 2 sessions, a failure or crash at every step, any reported external session, readings of the clock that may be equal, fair; 535,342 states | `TypeOK`, `CheckpointsNameTheirEvent`, `HandoffEventsResolve`, `SessionsSettle` |
| `snapshot_diff` | every pair of snapshots of 4 paths with 2 contents and unhashed files; 202,036 states | `DeletionsAccounted`, `ExactForOrderedRenames` |
| `handoff_builder` | every log of up to 3 of 18 events (one of each kind, records in both forms, hidden and excluded ones), 4 budgets around their size, with and without diffs; 702,734 states | `TypeOK`, `FitsOrCannot`, `NewestConversation`, `ShownOnce`, `LeastLoss` |
| `agent_launch` | every agent, version and link, 3 OpenCode sessions of which two belong elsewhere and one of these is listed without a directory, 2 arrivals of 2 forwarded signals and one other, kills that may fail, 4 ticks, fair; 1,027,026 states | `TypeOK`, `AgentIsNotAbandoned`, `ReapedIsLeftAlone`, `HandoffDeliveredOrRefused`, `LinkIsOwnWhenAlone`, `ExitSurvives`, `SignalsReachAgent`, `CallReturns` |
| `opencode_export` | 2 messages with and without ids, 2 processes, 2 exports in either form, tool parts with a call, a result or both; 2,236,575 states | `TypeOK`, `ResultFollowsCall`, `MessagesInOrder`, `EveryRecordStored` |
| `settings_files` | 2 processes, 2 commands of any kind, 1 edit, a safe and an unsafe key, values of a wrong type and out of range, empty groups of others, project files and environments with and without bad values; 460,345 states | `TypeOK`, `FilesWhole`, `ReplacedIsBackedUp`, `ChangesOnlyItsOwn`, `SetNeverLocksOut`, `UnsafeOnlySetByName` |
| `link_conflict` | finding | `ActiveHasOwner` violated |
| `same_package` | finding | `ExitIsRecorded` violated |
| `lost_creation` | finding | `CreationsAccounted` violated |
| `late_text` | finding | `ExportIsStored` violated |

Several properties of the passing runs leave out a case; where a text of the repository
decides that case, a property without the exception is stated too, and a
configuration shows that the code violates it (Further counterexamples, below):
`HandoffIsCurrent` holds without `Ties` and fails with them, `LinkIsOwnWhenAlone` excepts
what `ListedSessionIsProven` does not, `CallReturns` what `ExitIsAnswered` does not,
`EveryRecordStored` what `NoRecordShadowed` does not, `ReplacedIsBackedUp` what
`ExactFileIsBackedUp` does not, and `ChangesOnlyItsOwn` what `EmptyGroupsStay` does not.
`LeastLoss` is about the compactor alone, `NewestConversation` about the window, and
`LesserGivenUpFirst` about both. Cases left out that no text decides are signals without a
handler, a kill that fails, and config sets that overlap.

Why the bounds are enough to be interesting. A clash in the store needs two
writers, a repeated key and a key two batches share; a lost import race needs two
import sessions for one external session. In the lifecycle two commands on one
session and a third that created it are the shortest history in which one
process' events lie between another's; two project versions tell a stale
snapshot from a current one, two records an order from its reverse. For the diff
two crossing renames need four paths. Three events put items into several lists
against a budget that holds only some of them, and let a record in both forms
stand next to another event. In a launch two arrivals let one signal come while the other
is forwarded, or end `cb` while an agent runs; three sessions, two of them elsewhere, and four ticks let the agent's
session be the latest, be overtaken, or be old. Two messages and two exports
suffice to read a transcript before and after any of its changes and to store the
two in either order; `Words` is 1 there and 2 in `late_text`, where a text must grow
between two exports. Two settings commands and one edit let each overlap any
other, and let a command find what a crashed one left behind. `MaxCommands`,
`MaxVersion`, `MaxRecords`, `MaxPath`, `MaxEvents`, `MaxArrivals`, `MaxMessages`, `MaxExports`, `Words`,
`MaxStarts`, `MaxEdits`, `MaxGroups` and `MaxTime` are the bounds. `Ties` and `Faults` switch
on equal readings of the clock, and failures and crashes.
`opencode_export` and `settings_files` take processes as symmetric: none is named in a
property or chosen by a fixed order.

Deadlock is not checked where the system may stop: commands end (`MaxCommands`),
and so do a diff, the building of a package, a launch and, once the bounds are
reached, exports and settings commands. `EventStore` always has another call to
make, and its run checks deadlock.

Fairness. `EventStore!FairSpec`: a call in progress is polled until it returns,
and the busy handler gives up after `busy_timeout`, so `Statement(w)` is weakly
fair; calls, failures and crashes are not. `BridgeLifecycle!FairSpec`: a command
that was started runs on until it returns, except where it waits for a program without a
time limit (`Waiting`: the agent itself, an export, a listing), which may take for ever; commands
need not start. `SessionsSettle` is checked with faults:
it excuses only sessions with an agent that stays at work, and those of commands that were cut
short or refused their link. `AgentLaunch!FairSpec`: `cb` is scheduled and every probe has a
time limit, so the steps of a call other than `List` are weakly fair as a whole; the `kill` and
`pkill` a signal is forwarded with are taken to return. `List` is not fair, because
`opencode session list` is awaited without a time limit. The agent need not exit either, and
`CallReturns` excepts both; forwarding a signal to a busy agent does not depend on it.

## Findings

1. `diff_snapshots` applies remembered indices after the vector has shifted
   (`crates/cb-project/src/diff.rs:41`). Two deleted files with the content of one
   created file panic; crossing renames drop a created file.
2. A link conflict after the agent exit returns before the session is finalized
   (`run.rs:157-170`, `continue_cmd.rs:209-222`).
3. Two continuations of a session to the same agent can build the same package
   and then share their import keys; the second loses its Git state and
   checkpoint (`continue_cmd.rs:206`, `:241`).
4. The key of an exported message is made of its id or position alone
   (`documented.rs:563`), so a message that OpenCode is still writing when it is first
   exported stays in the log as far as it was written, while `docs/import.md:80` says
   that an import preserves the complete source export.

### Further counterexamples

The properties of these configurations state what a text of the repository says, and each
is violated by what the code does. They complement the passing runs, whose properties except exactly
these cases; they are not among the runs of `PROJECT.json`, and each takes seconds:
`tlc -config MCSameMillisecond.cfg MCBridgeLifecycle`, and so on.

| | Configuration | Module | Violated |
|---|---|---|---|
| 1 | `MCSameMillisecond.cfg` | `MCBridgeLifecycle` | `HandoffIsCurrent` |
| 2 | `MCBothForms.cfg` | `MCBridgeLifecycle` | `ExternalIdsUnique` |
| 3 | `MCWindowFirst.cfg` | `MCHandoffBuilder` | `LesserGivenUpFirst` |
| 4 | `MCUnprovenLink.cfg` | `MCAgentLaunch` | `ListedSessionIsProven` |
| 5 | `MCHungListing.cfg` | `MCAgentLaunch` | `ExitIsAnswered` (fair) |
| 6 | `MCSharedKey.cfg` | `MCOpenCodeExport` | `NoRecordShadowed` |
| 7 | `MCEmptyGroup.cfg` | `MCSettingsFiles` | `EmptyGroupsStay` |
| 8 | `MCLostEdit.cfg` | `MCSettingsFiles` | `ExactFileIsBackedUp` |

1. The keys of what a continuation records of the project it found end in a millisecond
   (`continue_cmd.rs:48`). Of two continuations in the same one the second loses its Git
   state, and its agent is handed a log that tells an older one, while
   `docs/architecture.md:86` has `continue` capture the current state.
2. A session imported in both forms has each record twice under one external event id.
   `docs/canonical-context-format.md:69-71` describes a partial unique index
   that `migrations/0002_scope_external_event_ids.sql:4` drops.
3. The conversation window is filled before lists are ranked (`handoff_builder.rs:133`): a
   long list of commands, read files or failed approaches, all of lower priority,
   leaves no room for messages and is kept whole, while
   `docs/canonical-context-format.md:93` says that lower-priority material goes first.
4. The session an OpenCode run is linked to is the one updated last since the launch
   (`documented.rs:206`), also when it is another terminal's, while
   `docs/architecture.md:67` links an id only when the adapter can prove it.
5. `opencode session list` is awaited without a time limit after the exit
   (`documented.rs:111`): when it hangs, the exit is not reported and nothing is finalized,
   against `docs/architecture.md:100`.
6. Tool parts without an id in messages without an id share one key (`documented.rs:621`) and
   only the first is stored, against `docs/import.md:80`.
7. `integrate claude --remove` also drops groups of others that hold no hook
   (`integrate.rs:191`), while `docs/compatibility.md:28-29` scopes a removal to our own handler.
8. Settings that change between the read of an integration and its rename are replaced and in
   no backup (`integrate.rs:112`), while `docs/adapter-development.md:74` backs up the exact
   file. The same happens when another integration takes the name of the backup
   in the same millisecond (`integrate.rs:211`).

### Observations

A smaller one without a run: the branch for "already in
use" (`continue_cmd.rs:162`) looks at the text of an adapter error, but the
production adapter returns the agent's refusal as an exit status.

Observations that contradict no text of the repository, or only loosely:

* Two `config set` that overlap share `config.toml.tmp` and may publish a
  truncated or mixed file; an empty one parses as no settings at all.
* `config set` with `--config` naming the project file may store a key that makes
  every command without `--trust-project-config` refuse the project:
  `SetNeverLocksOut` is about the flags the command itself has.
* SIGHUP and SIGQUIT end `cb` while an agent runs; the session then stays active.
* A `kill` that cannot be started or fails is ignored, and the signal is lost.
* A terminal's Ctrl-C reaches the agent twice, from the terminal and from `cb`.
* Claude is launched with the id of the bridge session; after a launch that died
  before its link was stored, the next one uses the id again.

## Proofs

All constants are arbitrary; what is assumed of them are the named assumptions of
each module (disjoint identifiers, sequences over the right sets, numbers as bounds).

**`EventStoreProofs`**: `TypeCorrect`, `SequencesAreGapFree`, `SuccessMeansStored`,
`ImportsAreAtomic` and `HistoryIsAppendOnly`. None of them is inductive alone.
`Inv` adds what ties a transaction to the
tables: only the holder of the reservation is inside a transaction; its view
extends the committed tables, by rows of its own session only; its `sequence` is
the largest number of its session in that view; the rows it counts as inserted
are in the view; every event of the batch before `at` is in the view; and both
the committed tables and the view are well formed (`WellFormed`: numbers 1..n,
keys distinct). `AddRow` shows that a row numbered one above the largest keeps
tables well formed, and `RefusedForItsKey` that such a row is refused only for
its key: this is why `INSERT OR IGNORE` cannot drop an event for its number.
`InvStep` has one lemma per action.

**`BridgeLifecycleProofs`**: `TypeCorrect`, `HandoffsAreCurrent`, `HandoffsResolve`,
`CheckpointsNameEvents` and `TranscriptsStayInOrder`, with and without faults, and
`ActiveSessionsHaveOwner`. `Inv` says that every log is sound (`LogInv`: keys
distinct, the records of a transcript in its order, a handoff event after what
its package covers), that checkpoint rows name their events, that every job
has in the log what its place in the command promises (`JobInv`), and that a
continuation finds nothing there under the mark it is about to use
(`Unrecorded`), because no two continuations about to record carry one stamp (`Stamps`). The last
two, and with them `HandoffsAreCurrent`, assume `~ Ties`: with equal readings of the clock
they are false (counterexample 1). `TranscriptsStayInOrder` is about each form of a
transcript by itself. The argument that carries all of it is
that logs only grow at their ends: `JobStays`, `LogStays` and `CheckpointsStay` say
that what one command relies on survives what others append, so each action has to be
looked at for its own job only. What `append_events` makes of a batch is a
recursive function; `Appending` is shown by induction on the prefix of the batch,
stated over sets of numbers (`Induction`, from the well-foundedness of `<`).
`ActiveSessionsHaveOwner` holds of the behaviours in which no command is cut short or
refused its link (`[][Uncut]_vars`): the second half of that is exactly finding 2, and
a command that dies has no owner by definition.

`ExitIsRecorded` fails as in finding 3, and `ExitsAreRecorded` says that it fails in no
other way: it holds of every behaviour with `[]NoTwins`, that is, in which no continuation
builds its package while another of the session to the same agent has stored its own and
not yet recorded it. `ExitsAreRecordedByTarget` replaces that by a condition on the
processes alone (`DifferentTargets`, which is how run `continues` is set up): each
process continues to agents of its own. `ExitInv` is the invariant: nothing is in
the log under the mark of an exit that the command has not put there itself, and two
commands that have built a package carry different ones (`Apart`), because what a
continuation writes comes after what its package covers (`MarksFollow`), so that the
later one has seen more of the log.

**`AgentLaunchProofs`**: `ImplementsChild` shows that a launch implements
`ChildProcess`, `NobodyIsAbandoned` and `NobodyElseIsSignalled` are the safety properties of that
layer (the first of signals that `cb` forwards), and `TypeCorrect`, `HandoffIsDelivered`,
`LinkIsOwn` and `ExitIsReported` are those of the command around it; `LinkIsOwn` is
of launches during which no other terminal worked in a session that counts as the project's. The invariant of the child says which position of `cb` goes with
which state of the agent, and that the handlers are there before the agent is;
the invariant of the launch adds where the command is for each of these, what
was decided on the way (`GivenInv`), and that only sessions the agent or another
terminal wrote to were updated since the launch (`UpdatedInv`).

**`EventStoreRefinement`**: `StoreImplementsContextLog`. A commit is the one abstract
call, every other step of a transaction a stutter. This needs more than the invariant
of `EventStoreProofs`, which says that a view is well formed but not that it is the right
one. `MeaningInv` (`ViewsMeanTheirCalls`) adds that a view has the committed sessions
and links and what its call has added to them so far, and that each new row holds a key
the batch names before `at`, such that the rows follow the order of the batch
(`NewRowsInv`). At the commit the new rows are therefore the missing keys of the batch,
each once, in the order of their first mention.

**`SettingsFilesProofs`**: `TypeCorrect`, `FilesStayWhole`, `ReplacedSettingsAreKept`,
`CommandsChangeOnlyTheirOwn`, `SetsNeverLockOut` and `UnsafeKeysSetByName`. A rename
publishes whatever the temporary file holds. `Inv` adds to `FilesWhole` that a process
which can be sure of its temporary file (an integration, or a config set that is alone
on its file, `AloneInv`) finds it truncated before it writes and whole before it renames
(`TempInv`). `FullInv` adds what a command has read, computed and backed up at each
position (`CommandsInvariant`); the action properties follow from it at the one step
that publishes. `ReplacedSettingsAreKept` and `CommandsChangeOnlyTheirOwn` are of settings that did
not change since they were read, the former also of backups whose name nobody else took, and
of the groups of others without a hook a removal keeps none.

**`SnapshotDiffProofs`**: `DeletionsAreAccounted` and `OrderedRenamesAreExact`.
`DeltaInv` (`DeltaInvariant`) says that the moves which wait join files of one content
and are ordered by origin, that each origin still counts as deleted, and that the changes told
are the moves of exactly the vanished files that no longer do; and, for ordered
renames, that the remembered indices grow with their origins, so that removing from the
end shifts no index that is still needed. That this last part fails for crossing
renames is finding 1.

**`HandoffBuilderProofs`**: `TypeCorrect`, `PackageFitsOrCannot`,
`ConversationIsNewest`, `RecordsShownOnce` and `CompactionLosesLeast`, the last of what
the window has left. `PackageInv`
ties each list to the events reduced to it (`ReducedInv`), says that the phases which
are over have left nothing while the package is too large (`EmptiedInv`), that items
go oldest first and only once the lists of earlier phases are empty (`LostInv`), and
that the last one would not have fitted (`LastInv`). The estimates are sums over a set
of positions; a first group of lemmas says that a term which changes changes the sum
by as much.

**`OpenCodeExportProofs`**: `TypeCorrect`, `ResultsFollowCalls`, `MessagesStayInOrder`
and `RecordsAreStored` (for records whose name is their own, `NameShared`). An export is a snapshot stored later, so `ExportInv`
(`ExportInvariant`) says the same of the log and of every batch in somebody's hands
(`Faithful`): each event has the key of a record its message shows, results follow their
calls, and of every message before one that it tells of all is told (`Settled`), unless the next
message was sent while that one was being answered. That exception is what makes the
invariant inductive: a record that comes late belongs to a message that was open, and
what was sent meanwhile is queued. What an export contains and what an append keeps are
inductions on prefixes, over sets of numbers as above.

With these every invariant and action property of the passing runs is a theorem,
`ActiveHasOwner`, `ExitIsRecorded` and `HandoffIsCurrent` under the hypotheses named above.

Only model-checked: the liveness properties `ReservationIsReleased`, `SessionsSettle`,
`SignalsReachAgent` and `CallReturns`, because TLAPS does not handle `ENABLED`; and
the findings and further counterexamples.

## Not modelled, and the plan

Not modelled for good: project capture, renderers, output, read-only commands,
`discover` and `doctor`, and the text of redaction patterns, which are I/O or
formatting without state; running the migrations.

Abstracted, and worth a model of their own when it matters: which session is the
most recent one, permissions of the data directory, transcripts that are reverted.

Theorems to add: no safety property of a run is left. What the proofs take from the
models is a good place to look next: the lemma that `BridgeLifecycle!AppendTo` is what
`ContextLog` does to one session, and that the sessions a launch of `AgentLaunch` may report are
among the `Reports` of the lifecycle, which this document only states.
