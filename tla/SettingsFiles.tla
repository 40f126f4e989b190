---------------------------- MODULE SettingsFiles ----------------------------
(***************************************************************************)
(* The settings files cb writes (crates/cb-cli/src/commands): `cb config   *)
(* set` on the global configuration or on that of the project, and `cb     *)
(* integrate claude` on settings Claude Code and its user edit as well.    *)
(* Each reads the file, writes a temporary one and renames it into place,  *)
(* without a lock; processes die and calls fail between any two steps.     *)
(*                                                                         *)
(* A configuration maps keys to values.  Settings are the SessionEnd       *)
(* groups, each a set of hooks.  A process id stands for the cb processes  *)
(* that run under it, one at a time.                                       *)
(***************************************************************************)
EXTENDS Integers, Sequences, FiniteSets

CONSTANTS
  Processes,
  Keys, Safe,             \* configuration keys, those a project may set
  Values, Default,        \* values, the built-in one
  Mistyped, Bad,          \* one that is not of its key's type, one out of range
  Unset,
  Ours, Foreign,          \* our hook, and those of others
  NoProcess,
  Environments, ProjectFiles,    \* environments and project files tried
  MaxStarts, MaxEdits, MaxGroups, MaxTime  \* bounds of the instance

ASSUME KeysSafe == Safe \subseteq Keys
ASSUME ValuesApart ==
  {Mistyped, Bad, Default} \subseteq Values /\ Default \notin {Mistyped, Bad} /\ Unset \notin Values
ASSUME HooksApart == Ours \notin Foreign

VARIABLES
  file,     \* content of each settings file
  temp,     \* content of each temporary file
  backups,  \* backups of the settings, by the millisecond in their name
  env,      \* CB_ variables of the environment
  job,      \* the command each process runs
  raced,    \* files on which two config sets ran at the same time
  now, starts, edits

vars == <<file, temp, backups, env, job, raced, now, starts, edits>>

Configs == {"global", "project"}
Files == Configs \cup {"settings"}
Configuration == [Keys -> Values \cup {Unset}]
NoKeys == [k \in Keys |-> Unset]

ASSUME KeysTyped == Environments \cup ProjectFiles \subseteq Configuration

Hooks == Foreign \cup {Ours}

Blank(f) == IF f = "settings" THEN <<>> ELSE NoKeys
Absent(f) == [form |-> "absent", doc |-> Blank(f)]
Truncated(f) == [form |-> "empty", doc |-> Blank(f)]
Mixed(f) == [form |-> "mixed", doc |-> Blank(f)]
Whole(doc) == [form |-> "whole", doc |-> doc]

\* An empty file is a configuration without keys, and no valid JSON.
Readable(f) ==
  file[f].form \in {"absent", "whole"} \cup (IF f \in Configs THEN {"empty"} ELSE {})

-----------------------------------------------------------------------------
(* load_config.                                                            *)

\* The project file is merged over the global one.
Merged(k) ==
  IF file["project"].doc[k] # Unset THEN file["project"].doc[k]
  ELSE IF file["global"].doc[k] # Unset THEN file["global"].doc[k] ELSE Default

Effective(k) == IF env[k] # Unset THEN env[k] ELSE Merged(k)

\* Fault: every project file is merged as if it were trusted.
ProjectTrusted(target, trust) == target = "project" => file["project"].form # "absent"

\* A file named by --config must exist; an untrusted one must not set more
\* than safe keys.
ProjectAccepted(target, trust) ==
  IF target = "project" THEN file["project"].form # "absent"
  ELSE trust \/ \A k \in Keys \ Safe : file["project"].doc[k] = Unset

\* Whether a command starts at all.  Types are checked in the merged files,
\* ranges once the environment has been applied.
Loads(target, trust) ==
  /\ \A f \in Configs : Readable(f)
  /\ ProjectAccepted(target, trust)
  /\ \A k \in Keys : Merged(k) # Mistyped /\ Effective(k) # Bad

-----------------------------------------------------------------------------
(* The hook.                                                               *)

HasOurs(groups) == \E i \in DOMAIN groups : Ours \in groups[i]
NonEmpty(groups) ==
  LET kept[n \in 0 .. Len(groups)] ==
        IF n = 0 THEN <<>>
        ELSE IF groups[n] = {} THEN kept[n - 1] ELSE Append(kept[n - 1], groups[n])
  IN  kept[Len(groups)]

InstallOurs(groups) == IF HasOurs(groups) THEN groups ELSE Append(groups, {Ours})

\* Fault: the whole group of our hook is removed.
RemoveGroup(groups) == SelectSeq(groups, LAMBDA g : Ours \notin g /\ g # {})

\* remove_our_hook also drops the groups left, or found, without a hook.
RemoveOurs(groups) == NonEmpty([i \in DOMAIN groups |-> groups[i] \ {Ours}])

-----------------------------------------------------------------------------
Idle == [at |-> "idle", file |-> "settings", key |-> Unset, value |-> Unset, trust |-> FALSE,
         remove |-> FALSE, read |-> Absent("settings"), new |-> <<>>, fd |-> "none", stamp |-> -1,
         overlapped |-> FALSE, overwritten |-> FALSE]

\* config.toml.tmp has one name for all processes.
TempNames == Configs \X {NoProcess} \cup {"settings"} \X Processes
TempOf(p) == <<job[p].file, IF job[p].file = "settings" THEN p ELSE NoProcess>>

Init ==
  /\ \E project \in ProjectFiles :
       file = [f \in Files |-> IF f = "project" /\ project # NoKeys THEN Whole(project) ELSE Absent(f)]
  /\ temp = [t \in TempNames |-> Absent(t[1])]
  /\ backups = [t \in {} |-> <<>>] /\ env \in Environments
  /\ job = [p \in Processes |-> Idle] /\ raced = {}
  /\ now = 0 /\ starts = 0 /\ edits = 0

Running(f) == {p \in Processes : job[p].at # "idle" /\ job[p].file = f}

Begin(p, j) ==
  /\ job[p].at = "idle" /\ starts < MaxStarts
  /\ starts' = starts + 1
  /\ job' = [q \in Processes |->
               IF q = p THEN [j EXCEPT !.at = "read", !.overlapped = Running(j.file) # {}]
               ELSE IF q \in Running(j.file) THEN [job[q] EXCEPT !.overlapped = TRUE]
               ELSE job[q]]
  /\ raced' = IF j.file \in Configs /\ Running(j.file) # {} THEN raced \cup {j.file} ELSE raced
  /\ UNCHANGED <<file, temp, backups, env, now, edits>>

\* Fault: the value is stored as it is given.
BeginSetUnchecked(p) ==
  \E f \in Configs, k \in Keys, v \in Values, trust \in BOOLEAN :
    /\ Loads(f, trust)
    /\ Begin(p, [Idle EXCEPT !.file = f, !.key = k, !.value = v, !.trust = trust])

\* config set: the configuration must load, and set_value accept the value.
BeginSet(p) ==
  \E f \in Configs, k \in Keys, v \in Values \ {Mistyped, Bad}, trust \in BOOLEAN :
    /\ Loads(f, trust)
    /\ Begin(p, [Idle EXCEPT !.file = f, !.key = k, !.value = v, !.trust = trust])

\* integrate claude, with or without --remove.
BeginIntegrate(p) ==
  \E remove \in BOOLEAN :
    /\ Loads("global", FALSE)
    /\ Begin(p, [Idle EXCEPT !.remove = remove])

New(j, doc) == IF j.file # "settings" THEN [doc EXCEPT ![j.key] = j.value]
               ELSE IF j.remove THEN RemoveOurs(doc) ELSE InstallOurs(doc)

\* Settings that stay as they are are not written.
Read(p) ==
  /\ job[p].at = "read" /\ Readable(job[p].file)
  /\ LET f == job[p].file
         doc == file[f].doc
         new == New(job[p], doc)
     IN  job' = [job EXCEPT ![p] =
           IF f = "settings" /\ new = doc THEN Idle
           ELSE [@ EXCEPT !.at = IF f = "settings" /\ file[f].form = "whole" THEN "backup"
                                 ELSE "open",
                          !.read = file[f], !.new = new]]
  /\ UNCHANGED <<file, temp, backups, env, raced, now, starts, edits>>

\* Fault: what is kept is what is about to be written.
BackupNew(p) ==
  /\ job[p].at = "backup"
  /\ backups' = [t \in DOMAIN backups \cup {now} |->
                   IF t = now THEN job[p].new ELSE backups[t]]
  /\ job' = [job EXCEPT ![p].at = "open", ![p].stamp = now]
  /\ UNCHANGED <<file, temp, env, raced, now, starts, edits>>

\* A backup of the same millisecond has the same name.
Backup(p) ==
  /\ job[p].at = "backup"
  /\ backups' = [t \in DOMAIN backups \cup {now} |->
                   IF t = now THEN job[p].read.doc ELSE backups[t]]
  /\ job' = [q \in Processes |->
               IF q = p THEN [job[p] EXCEPT !.at = "open", !.stamp = now]
               ELSE IF job[q].stamp = now THEN [job[q] EXCEPT !.overwritten = TRUE] ELSE job[q]]
  /\ UNCHANGED <<file, temp, env, raced, now, starts, edits>>

\* Fault: the file itself is truncated and written.
OpenInPlace(p) ==
  /\ job[p].at = "open"
  /\ file' = [file EXCEPT ![job[p].file] = Truncated(job[p].file)]
  /\ temp' = [temp EXCEPT ![TempOf(p)] = Whole(job[p].new)]
  /\ job' = [job EXCEPT ![p].at = "fill", ![p].fd = "file"]
  /\ UNCHANGED <<backups, env, raced, now, starts, edits>>

\* The temporary file is created or truncated.
Open(p) ==
  /\ job[p].at = "open"
  /\ temp' = [temp EXCEPT ![TempOf(p)] = Truncated(job[p].file)]
  /\ job' = [job EXCEPT ![p].at = "fill", ![p].fd = "temp"]
  /\ UNCHANGED <<file, backups, env, raced, now, starts, edits>>

\* What a file holds after new content is written from its start.
Overwritten(content, f, doc) ==
  {Whole(doc)} \cup IF content.form = "empty" THEN {} ELSE {Mixed(f)}

\* The content goes to the file that was opened, which may have been renamed
\* into place, or replaced there, since.
FillThen(p, fd) ==
  /\ job[p].at = "fill"
  /\ LET f == job[p].file IN
     \/ /\ job[p].fd = "temp"
        /\ \E c \in Overwritten(temp[TempOf(p)], f, job[p].new) : temp' = [temp EXCEPT ![TempOf(p)] = c]
        /\ UNCHANGED file
     \/ /\ job[p].fd = "file"
        /\ \E c \in Overwritten(file[f], f, job[p].new) : file' = [file EXCEPT ![f] = c]
        /\ UNCHANGED temp
     \/ job[p].fd = "gone" /\ UNCHANGED <<file, temp>>
  /\ job' = [job EXCEPT ![p].at = "publish", ![p].fd = fd]
  /\ UNCHANGED <<backups, env, raced, now, starts, edits>>

\* Fault: the file is still open when it is renamed.
FillKeepingOpen(p) == FillThen(p, job[p].fd)

Fill(p) == FillThen(p, "none")

\* Where the open files of f are after something was renamed over f.
Replaced(j, f, t) ==
  IF j.file # f \/ j.fd = "none" THEN j
  ELSE IF j.fd = "file" THEN [j EXCEPT !.fd = "gone"]
  ELSE IF t THEN [j EXCEPT !.fd = "file"] ELSE j

\* The rename; without a temporary file it fails.
Publish(p) ==
  /\ job[p].at = "publish" /\ temp[TempOf(p)].form # "absent"
  /\ LET f == job[p].file IN
     /\ file' = [file EXCEPT ![f] = temp[TempOf(p)]]
     /\ temp' = [temp EXCEPT ![TempOf(p)] = Absent(f)]
     /\ job' = [q \in Processes |->
                  IF q = p THEN Idle ELSE Replaced(job[q], f, TempOf(q) = TempOf(p))]
  /\ UNCHANGED <<backups, env, raced, now, starts, edits>>

\* A call fails, the process is killed, or what it read is refused.
Stop(p) ==
  /\ job[p].at # "idle"
  /\ job' = [job EXCEPT ![p] = Idle]
  /\ UNCHANGED <<file, temp, backups, env, raced, now, starts, edits>>

-----------------------------------------------------------------------------
(* The user and Claude Code, which replace a file as a whole.              *)

Edit(f, content) ==
  /\ edits < MaxEdits
  /\ edits' = edits + 1
  /\ file' = [file EXCEPT ![f] = content]
  /\ job' = [q \in Processes |->
               IF q \in Running(f) THEN [Replaced(job[q], f, FALSE) EXCEPT !.overlapped = TRUE]
               ELSE job[q]]
  /\ UNCHANGED <<temp, backups, env, raced, now, starts>>

\* A checkout brings another project file, or none.
EditProject == \E project \in ProjectFiles :
  Edit("project", IF project = NoKeys THEN Absent("project") ELSE Whole(project))

\* A group of other hooks is added, a hook joins a group or leaves it.
EditSettings ==
  LET groups == file["settings"].doc IN
  \/ \E g \in SUBSET Foreign :
       Len(groups) < MaxGroups /\ Edit("settings", Whole(Append(groups, g)))
  \/ \E i \in DOMAIN groups, h \in Hooks :
       /\ h \in Foreign \/ h \in groups[i]
       /\ Edit("settings", Whole([groups EXCEPT ![i] = IF h \in @ THEN @ \ {h} ELSE @ \cup {h}]))

Tick == now < MaxTime /\ now' = now + 1
        /\ UNCHANGED <<file, temp, backups, env, job, raced, starts, edits>>

Next ==
  \/ \E p \in Processes :
       \/ BeginSet(p) \/ BeginIntegrate(p) \/ Read(p) \/ Backup(p)
       \/ Open(p) \/ Fill(p) \/ Publish(p) \/ Stop(p)
  \/ EditProject \/ EditSettings \/ Tick

Spec == Init /\ [][Next]_vars

-----------------------------------------------------------------------------
TypeOK ==
  /\ \A f \in Files : file[f].form \in {"absent", "empty", "whole", "mixed"}
  /\ \A f \in Configs : file[f].doc \in Configuration /\ temp[<<f, NoProcess>>].doc \in Configuration
  /\ file["settings"].doc \in Seq(SUBSET Hooks)
  /\ \A t \in DOMAIN backups : t \in 0 .. now /\ backups[t] \in Seq(SUBSET Hooks)
  /\ \A p \in Processes :
       /\ job[p].at \in {"idle", "read", "backup", "open", "fill", "publish"}
       /\ job[p].fd \in {"none", "temp", "file", "gone"}
       /\ job[p].fd # "none" => job[p].at = "fill"
  /\ raced \subseteq Configs

\* No crash and no failing call, at any step, leaves a settings file truncated
\* or mixed; a configuration is whole unless two config sets on it ever ran at
\* the same time.
FilesWhole ==
  \A f \in Files \ raced : file[f].form \in {"absent", "whole"}

\* What an integration replaces is in a backup if it is still what was read,
\* and no other integration took the name within the same millisecond: no
\* failure, and no other command, comes between the backup and the rename.
ReplacedIsBackedUp ==
  [][\A p \in Processes :
       /\ Publish(p) /\ job[p].file = "settings" /\ file["settings"].form = "whole"
       /\ file["settings"] = job[p].read /\ ~ job[p].overwritten
       => \E t \in DOMAIN backups : backups[t] = file["settings"].doc]_vars

\* What the adapter contract says: before the settings are written, the exact
\* file is backed up.
ExactFileIsBackedUp ==
  [][\A p \in Processes :
       Publish(p) /\ job[p].file = "settings" /\ file["settings"].form = "whole"
       => \E t \in DOMAIN backups : backups[t] = file["settings"].doc]_vars

\* The groups other than those in ours, in their order and without our hook,
\* each in a set of its own: a group of others may be empty.
OthersBut(groups, ours) ==
  NonEmpty([i \in DOMAIN groups |-> IF groups[i] \in ours THEN {} ELSE {groups[i] \ {Ours}}])

\* A group that holds our hook alone is ours.
Others(groups) == OthersBut(groups, {{Ours}})
OthersWithHooks(groups) == OthersBut(groups, {{Ours}, {}})

Copies(groups) == Cardinality({i \in DOMAIN groups : Ours \in groups[i]})

\* A config set that overlapped nothing changes its key alone, whatever
\* crashes left behind.  Unless the settings changed since an integration has
\* read them, it adds our hook once and keeps every group of others as it was;
\* or it removes every copy of our hook, and of the groups of others only those
\* that had no hook (see EmptyGroupsStay).
ChangesOnlyItsOwn ==
  [][\A p \in Processes : Publish(p) =>
       LET j == job[p]
           old == file["settings"].doc
           new == file["settings"].doc'
       IN
       IF j.file = "settings"
       THEN old = j.read.doc =>
              /\ Others(new) = IF j.remove THEN OthersWithHooks(old) ELSE Others(old)
              /\ Copies(new) = IF j.remove THEN 0 ELSE 1
       ELSE ~ j.overlapped =>
              \A f \in Configs : f = j.file =>
                file'[f].doc = [file[f].doc EXCEPT ![j.key] = j.value]]_vars

\* What the documentation says of a removal: it is scoped to our own handler,
\* so that every group of others stays, one without a hook too.
EmptyGroupsStay ==
  [][\A p \in Processes :
       Publish(p) /\ job[p].file = "settings" /\ file["settings"].doc = job[p].read.doc
       => Others(file["settings"].doc') = Others(file["settings"].doc)]_vars

\* A config set that overlapped nothing never makes a configuration that its
\* own flags could load one that they cannot.
SetNeverLocksOut ==
  [][\A p \in Processes, f \in Configs, trust \in BOOLEAN :
       (/\ Publish(p) /\ ~ job[p].overlapped
        /\ job[p].file = f /\ job[p].trust = trust /\ Loads(f, trust))
       => Loads(f, trust)']_vars

\* What plain commands use for an unsafe key is only changed by a config set
\* of that key on the global file, or by config sets that overlapped: no
\* project file, edited at any moment, and no other command changes it.
UnsafeOnlySetByName ==
  [][\A k \in Keys \ Safe :
       (/\ Loads("global", FALSE) /\ Loads("global", FALSE)' /\ "global" \notin raced
        /\ Effective(k)' # Effective(k))
       => \E p \in Processes : Publish(p) /\ job[p].file = "global" /\ job[p].key = k]_vars
=============================================================================
