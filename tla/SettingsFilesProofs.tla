------------------------- MODULE SettingsFilesProofs -------------------------
(***************************************************************************)
(* Proofs about SettingsFiles for every set of processes, keys, values and *)
(* hooks, and every bound.                                                 *)
(*                                                                         *)
(* A rename publishes whatever the temporary file holds, so that a file is *)
(* whole only if its temporary file is between the write and the rename.   *)
(* The inductive invariant says so of every process that can be sure of    *)
(* its temporary file: an integration, whose temporary file bears its      *)
(* process id, and a config set that is the only one running on its file.  *)
(*                                                                         *)
(* The second part follows the contents.  A command that is sure of its    *)
(* temporary file publishes what it made of what it has read; what it has  *)
(* read still stands if no other command and no edit overlapped it, and is *)
(* in a backup (FullInv).  The action properties follow from it.           *)
(***************************************************************************)
EXTENDS SettingsFiles, WellFoundedInduction, SequenceTheorems, FiniteSetTheorems, TLAPS

Shape ==
  /\ DOMAIN file = Files /\ DOMAIN temp = TempNames /\ DOMAIN job = Processes
  /\ raced \subseteq Configs
  /\ \A p \in Processes :
       /\ DOMAIN job[p] = DOMAIN Idle
       /\ job[p].file \in Files
       /\ job[p].at \in {"idle", "read", "backup", "open", "fill", "publish"}
       /\ job[p].at # "fill" => job[p].fd = "none"

\* Only one config set runs on a file on which none raced.
AloneInv ==
  \A p, q \in Processes :
    /\ job[p].at # "idle" /\ job[q].at # "idle"
    /\ job[p].file = job[q].file /\ job[p].file \in Configs \ raced
    => p = q

\* What the temporary file of such a process holds.
TempInv ==
  \A p \in Processes : job[p].file \notin raced =>
    /\ job[p].at = "fill" => job[p].fd = "temp" /\ temp[TempOf(p)].form = "empty"
    /\ job[p].at = "publish" => temp[TempOf(p)].form = "whole"

Inv == Shape /\ AloneInv /\ TempInv /\ FilesWhole

\* Every command has a temporary file of its own kind.
LEMMA TempNamed == Shape => \A p \in Processes : TempOf(p) \in TempNames
  BY DEF Shape, TempOf, TempNames, Files

\* Two processes share a temporary file only if both are config sets on the
\* same file.
LEMMA TempShared ==
  Shape => \A p, q \in Processes :
             TempOf(p) = TempOf(q) /\ p # q => job[p].file = job[q].file /\ job[p].file \in Configs
  BY DEF Shape, TempOf, Files

\* Files, temporary files and processes start in order.
LEMMA Initially == Init => Inv
<1> SUFFICES ASSUME Init
             PROVE  Inv
  OBVIOUS
<1>1. Shape
  BY DEF Init, Shape, Idle, Files
<1>2. AloneInv /\ TempInv
  BY DEF Init, AloneInv, TempInv, Idle
<1>3. FilesWhole
  BY DEF Init, FilesWhole, Files, Absent, Whole
<1>. QED  BY <1>1, <1>2, <1>3 DEF Inv

\* A command begins.
LEMMA BeginKeeps ==
  ASSUME Inv, NEW p \in Processes, NEW j, Begin(p, j),
         DOMAIN j = DOMAIN Idle, j.file \in Files, j.fd = "none"
  PROVE  Inv'
<1>. USE DEF Inv, Begin, Idle
<1>1. Shape'
  BY DEF Shape, Running
<1>0. \A q \in Processes :
        job'[q] = IF q = p THEN [j EXCEPT !.at = "read", !.overlapped = Running(j.file) # {}]
                  ELSE IF q \in Running(j.file) THEN [job[q] EXCEPT !.overlapped = TRUE]
                  ELSE job[q]
  OBVIOUS
<1>2. \A q \in Processes : q # p =>
        /\ job'[q].at = job[q].at /\ job'[q].file = job[q].file /\ job'[q].fd = job[q].fd
  BY <1>0 DEF Shape
<1>3. job'[p].at = "read" /\ job'[p].file = j.file /\ job'[p].fd = "none"
  BY <1>0
<1>7. raced \subseteq raced'
  OBVIOUS
<1>8. ASSUME NEW q \in Processes, q # p, job[q].at # "idle", job[q].file = j.file,
             j.file \in Configs
      PROVE  j.file \in raced'
  BY <1>8 DEF Running
<1>4. AloneInv'
  <2> SUFFICES ASSUME NEW q \in Processes, NEW r \in Processes, q # r,
                      job'[q].at # "idle", job'[r].at # "idle", job'[q].file = job'[r].file,
                      job'[q].file \in Configs \ raced'
               PROVE  FALSE
    BY DEF AloneInv
  <2>1. CASE q = p
    BY <1>2, <1>3, <1>8, <2>1
  <2>2. CASE r = p
    BY <1>2, <1>3, <1>8, <2>2, ZenonT(30)
  <2>3. CASE q # p /\ r # p
    <3>1. /\ job[q].at # "idle" /\ job[r].at # "idle" /\ job[q].file = job[r].file
          /\ job[q].file \in Configs
      BY <1>2, <2>3
    <3>2. job[q].file \notin raced
      BY <1>2, <1>7, <2>3
    <3>. QED  BY <3>1, <3>2 DEF AloneInv
  <2>. QED  BY <2>1, <2>2, <2>3
<1>5. TempInv'
  <2> SUFFICES ASSUME NEW q \in Processes, job'[q].file \notin raced'
               PROVE  (/\ job[q].at = "fill" => job[q].fd = "temp" /\ temp[TempOf(q)].form = "empty"
                       /\ job[q].at = "publish" => temp[TempOf(q)].form = "whole")'
    BY DEF TempInv
  <2>1. CASE q = p
    BY <1>3, <2>1
  <2>2. CASE q # p
    <3>1. job'[q].at = job[q].at /\ job'[q].file = job[q].file /\ job'[q].fd = job[q].fd
      BY <1>2, <2>2
    <3>2. TempOf(q)' = TempOf(q) /\ temp' = temp /\ job[q].file \notin raced
      BY <1>7, <3>1 DEF TempOf
    <3>. QED  BY <3>1, <3>2, ZenonT(30) DEF TempInv
  <2>. QED  BY <2>1, <2>2
<1>6. FilesWhole'
  BY DEF FilesWhole
<1>. QED  BY <1>1, <1>4, <1>5, <1>6

\* Every other step ends commands or moves them on, and is safe when it keeps
\* or fills the temporary files the invariant speaks of.
LEMMA StepKeeps ==
  ASSUME Inv, raced' = raced, Shape', FilesWhole',
         \A q \in Processes : job'[q].at # "idle" =>
           job[q].at # "idle" /\ job'[q].file = job[q].file,
         \A q \in Processes :
           job[q].file \notin raced /\ job'[q].at \in {"fill", "publish"} =>
             \/ /\ job'[q].at = job[q].at /\ job'[q].fd = job[q].fd
                /\ temp'[TempOf(q)].form = temp[TempOf(q)].form
             \/ job'[q].at = "fill" /\ job'[q].fd = "temp" /\ temp'[TempOf(q)].form = "empty"
             \/ job'[q].at = "publish" /\ temp'[TempOf(q)].form = "whole"
  PROVE  Inv'
<1>1. AloneInv'
  BY DEF Inv, AloneInv
<1>2. TempInv'
  <2> SUFFICES ASSUME NEW q \in Processes, job'[q].file \notin raced',
                      job'[q].at \in {"fill", "publish"}
               PROVE  (/\ job[q].at = "fill" => job[q].fd = "temp" /\ temp[TempOf(q)].form = "empty"
                       /\ job[q].at = "publish" => temp[TempOf(q)].form = "whole")'
    BY DEF TempInv
  <2>1. TempOf(q)' = TempOf(q) /\ job[q].file \notin raced
    BY DEF TempOf
  <2>. QED  BY <2>1 DEF Inv, TempInv
<1>. QED  BY <1>1, <1>2 DEF Inv

\* Processes on different files, or on the settings, have different temporary files.
LEMMA TempApart ==
  ASSUME Inv, NEW p \in Processes, NEW q \in Processes, q # p,
         job[p].at # "idle", job[q].at # "idle", job[q].file \notin raced
  PROVE  TempOf(q) # TempOf(p)
  BY TempShared DEF Inv, AloneInv

\* Reading: what is written will be whole.
LEMMA ReadKeeps == ASSUME Inv, NEW p \in Processes, Read(p) PROVE Inv'
<1>1. /\ UNCHANGED <<file, temp, raced>>
      /\ job[p].at = "read"
  BY DEF Read
<1>2. \A q \in Processes : q # p => job'[q] = job[q]
  BY DEF Read, Inv, Shape
<1>3. /\ DOMAIN job' = Processes /\ DOMAIN job'[p] = DOMAIN Idle /\ job'[p].file \in Files
      /\ job'[p].at \in {"idle", "backup", "open"} /\ job'[p].fd = "none"
      /\ job'[p].at # "idle" => job'[p].file = job[p].file
  BY DEF Read, Inv, Shape, Idle, Files
<1>4. Shape'
  BY <1>1, <1>2, <1>3 DEF Inv, Shape
<1>5. FilesWhole'
  BY <1>1 DEF Inv, FilesWhole
<1>. QED  BY <1>1, <1>2, <1>3, <1>4, <1>5, StepKeeps

\* A backup touches neither file nor temporary file.
LEMMA BackupKeeps == ASSUME Inv, NEW p \in Processes, Backup(p) PROVE Inv'
<1>1. /\ UNCHANGED <<file, temp, raced>>
      /\ job[p].at = "backup"
  BY DEF Backup
<1>2. \A q \in Processes : q # p =>
        /\ job'[q].at = job[q].at /\ job'[q].file = job[q].file /\ job'[q].fd = job[q].fd
        /\ DOMAIN job'[q] = DOMAIN job[q]
  BY DEF Backup, Inv, Shape, Idle
<1>3. /\ DOMAIN job' = Processes /\ DOMAIN job'[p] = DOMAIN Idle
      /\ job'[p].at = "open" /\ job'[p].fd = "none" /\ job'[p].file = job[p].file
  BY DEF Backup, Inv, Shape, Idle
<1>4. Shape'
  BY <1>1, <1>2, <1>3 DEF Inv, Shape
<1>5. FilesWhole'
  BY <1>1 DEF Inv, FilesWhole
<1>. QED  BY <1>1, <1>2, <1>3, <1>4, <1>5, StepKeeps

\* Opening truncates a temporary file only.
LEMMA OpenKeeps == ASSUME Inv, NEW p \in Processes, Open(p) PROVE Inv'
<1>0. Shape
  BY DEF Inv
<1>1. /\ UNCHANGED <<file, raced>>
      /\ temp' = [temp EXCEPT ![TempOf(p)] = Truncated(job[p].file)]
  BY DEF Open
<1>2. job[p].at = "open" /\ job'[p].at = "fill" /\ job'[p].fd = "temp" /\ job'[p].file = job[p].file
  BY <1>0 DEF Open, Shape, Idle
<1>3. \A q \in Processes : q # p => job'[q] = job[q]
  BY <1>0 DEF Open, Shape
<1>4. Shape'
  <2>1. DOMAIN job' = Processes /\ DOMAIN job'[p] = DOMAIN Idle
    BY <1>0 DEF Open, Shape
  <2>2. DOMAIN temp' = TempNames
    BY <1>0, <1>1 DEF Shape
  <2>. QED  BY <1>0, <1>1, <1>2, <1>3, <2>1, <2>2 DEF Shape
<1>5. temp'[TempOf(p)].form = "empty"
  BY <1>0, <1>1, TempNamed DEF Shape, Truncated
<1>6. ASSUME NEW q \in Processes, q # p, job[q].file \notin raced, job[q].at # "idle"
      PROVE  temp'[TempOf(q)] = temp[TempOf(q)]
  BY <1>0, <1>1, <1>2, <1>6, TempApart, TempNamed DEF Shape
<1>7. FilesWhole'
  BY <1>1 DEF Inv, FilesWhole
<1>. QED  BY <1>1, <1>2, <1>3, <1>4, <1>5, <1>6, <1>7, StepKeeps

\* Filling: alone on its file, a process fills what it has opened.
LEMMA FillKeeps == ASSUME Inv, NEW p \in Processes, Fill(p) PROVE Inv'
<1>0. Shape /\ raced' = raced
  BY DEF Inv, Fill, FillThen
<1>1. job[p].at = "fill" /\ job'[p].at = "publish" /\ job'[p].fd = "none" /\ job'[p].file = job[p].file
  BY <1>0 DEF Fill, FillThen, Shape, Idle
<1>2. \A q \in Processes : q # p => job'[q] = job[q]
  BY <1>0 DEF Fill, FillThen, Shape
<1>3. \/ file' = file /\ \E c : temp' = [temp EXCEPT ![TempOf(p)] = c]
      \/ temp' = temp /\ job[p].fd = "file" /\ \E c : file' = [file EXCEPT ![job[p].file] = c]
      \/ file' = file /\ temp' = temp
  BY DEF Fill, FillThen
<1>4. Shape'
  <2>1. DOMAIN job' = Processes /\ DOMAIN job'[p] = DOMAIN Idle
    BY <1>0 DEF Fill, FillThen, Shape
  <2>2. DOMAIN temp' = TempNames /\ DOMAIN file' = Files
    BY <1>0, <1>3 DEF Shape
  <2>. QED  BY <1>0, <1>1, <1>2, <2>1, <2>2 DEF Shape
<1>5. ASSUME job[p].file \notin raced
      PROVE  file' = file /\ temp'[TempOf(p)].form = "whole"
  <2>1. job[p].fd = "temp" /\ temp[TempOf(p)].form = "empty"
    BY <1>1, <1>5 DEF Inv, TempInv
  <2>2. /\ \E c \in Overwritten(temp[TempOf(p)], job[p].file, job[p].new) :
             temp' = [temp EXCEPT ![TempOf(p)] = c]
        /\ file' = file
    BY <2>1 DEF Fill, FillThen
  <2>3. temp' = [temp EXCEPT ![TempOf(p)] = Whole(job[p].new)]
    BY <2>1, <2>2 DEF Overwritten
  <2>. QED  BY <1>0, <2>2, <2>3, TempNamed DEF Shape, Whole
<1>6. ASSUME NEW q \in Processes, q # p, job[q].file \notin raced, job[q].at # "idle"
      PROVE  temp'[TempOf(q)] = temp[TempOf(q)]
  <2>1. TempOf(q) # TempOf(p)
    BY <1>1, <1>6, TempApart
  <2>. QED  BY <1>0, <1>3, <2>1, TempNamed DEF Shape
<1>7. FilesWhole'
  <2>1. CASE job[p].file \in raced
    BY <1>0, <1>3, <2>1 DEF Inv, FilesWhole, Shape
  <2>2. CASE job[p].file \notin raced
    BY <1>0, <1>5, <2>2 DEF Inv, FilesWhole
  <2>. QED  BY <2>1, <2>2
<1>. QED  BY <1>0, <1>1, <1>2, <1>4, <1>5, <1>6, <1>7, StepKeeps

\* The rename brings a whole file, unless two config sets overlapped.
LEMMA PublishKeeps == ASSUME Inv, NEW p \in Processes, Publish(p) PROVE Inv'
<1>0. Shape /\ raced' = raced /\ job[p].at = "publish"
  BY DEF Inv, Publish
<1>1. /\ file' = [file EXCEPT ![job[p].file] = temp[TempOf(p)]]
      /\ temp' = [temp EXCEPT ![TempOf(p)] = Absent(job[p].file)]
  BY DEF Publish
<1>2. job'[p] = Idle
  BY DEF Publish
<1>3. \A q \in Processes : q # p =>
        /\ job'[q] = Replaced(job[q], job[p].file, TempOf(q) = TempOf(p))
        /\ job'[q].at = job[q].at /\ job'[q].file = job[q].file
        /\ DOMAIN job'[q] = DOMAIN Idle
        /\ job[q].fd = "none" => job'[q].fd = "none"
  BY <1>0 DEF Publish, Replaced, Shape, Idle
<1>4. Shape'
  <2>1. DOMAIN job' = Processes
    BY DEF Publish
  <2>2. DOMAIN temp' = TempNames /\ DOMAIN file' = Files
    BY <1>0, <1>1 DEF Shape
  <2>3. \A q \in Processes :
          /\ DOMAIN job'[q] = DOMAIN Idle /\ job'[q].file \in Files
          /\ job'[q].at \in {"idle", "read", "backup", "open", "fill", "publish"}
          /\ job'[q].at # "fill" => job'[q].fd = "none"
    BY <1>0, <1>2, <1>3 DEF Shape, Idle, Files
  <2>4. raced' \subseteq Configs
    BY <1>0 DEF Shape
  <2>. QED  BY <2>1, <2>2, <2>3, <2>4 DEF Shape
<1>5. ASSUME NEW q \in Processes, q # p, job[q].file \notin raced, job[q].at # "idle"
      PROVE  temp'[TempOf(q)] = temp[TempOf(q)] /\ job'[q].fd = job[q].fd
  <2>1. TempOf(q) # TempOf(p)
    BY <1>0, <1>5, TempApart
  <2>2. job[q].fd \in {"none", "temp"}
    BY <1>0, <1>5 DEF Inv, TempInv, Shape
  <2>3. job'[q] = job[q]
    BY <1>3, <1>5, <2>1, <2>2 DEF Replaced
  <2>. QED  BY <1>0, <1>1, <2>1, <2>3, TempNamed DEF Shape
<1>6. FilesWhole'
  <2>1. job[p].file \notin raced => temp[TempOf(p)].form = "whole"
    BY <1>0 DEF Inv, TempInv
  <2>. QED  BY <1>0, <1>1, <2>1 DEF Inv, FilesWhole, Shape
<1>. QED  BY <1>0, <1>2, <1>3, <1>4, <1>5, <1>6, StepKeeps DEF Idle

\* A crash leaves every file as it is.
LEMMA StopKeeps == ASSUME Inv, NEW p \in Processes, Stop(p) PROVE Inv'
<1>1. UNCHANGED <<file, temp, raced>>
  BY DEF Stop
<1>2. DOMAIN job' = Processes /\ job'[p] = Idle /\ \A q \in Processes : q # p => job'[q] = job[q]
  BY DEF Stop, Inv, Shape
<1>3. Shape'
  BY <1>1, <1>2 DEF Inv, Shape, Idle, Files
<1>4. FilesWhole'
  BY <1>1 DEF Inv, FilesWhole
<1>. QED  BY <1>1, <1>2, <1>3, <1>4, StepKeeps DEF Idle

\* The user and Claude Code replace a file as a whole.
LEMMA EditKeeps ==
  ASSUME Inv, NEW f \in Files, NEW c, Edit(f, c), c.form \in {"absent", "whole"}
  PROVE  Inv'
<1>1. UNCHANGED <<temp, raced>> /\ file' = [file EXCEPT ![f] = c]
  BY DEF Edit
<1>2. \A q \in Processes :
        job'[q] = IF q \in Running(f) THEN [Replaced(job[q], f, FALSE) EXCEPT !.overlapped = TRUE]
                  ELSE job[q]
  BY DEF Edit
<1>3. \A q \in Processes :
        /\ job'[q].at = job[q].at /\ job'[q].file = job[q].file /\ DOMAIN job'[q] = DOMAIN Idle
        /\ job[q].fd \in {"none", "temp"} => job'[q].fd = job[q].fd
  <2> SUFFICES ASSUME NEW q \in Processes
               PROVE  /\ job'[q].at = job[q].at /\ job'[q].file = job[q].file
                      /\ DOMAIN job'[q] = DOMAIN Idle
                      /\ job[q].fd \in {"none", "temp"} => job'[q].fd = job[q].fd
    OBVIOUS
  <2>1. DOMAIN job[q] = DOMAIN Idle
    BY DEF Inv, Shape
  <2>. DEFINE r == Replaced(job[q], f, FALSE)
  <2>2. /\ r.at = job[q].at /\ r.file = job[q].file /\ DOMAIN r = DOMAIN Idle
        /\ job[q].fd \in {"none", "temp"} => r.fd = job[q].fd
    BY <2>1 DEF Replaced, Idle
  <2>. HIDE DEF r
  <2>3. job'[q] = [r EXCEPT !.overlapped = TRUE] \/ job'[q] = job[q]
    BY <1>2 DEF r
  <2>. QED  BY <2>1, <2>2, <2>3 DEF Idle
<1>4. Shape'
  <2>1. DOMAIN job' = Processes /\ DOMAIN file' = Files
    BY <1>1 DEF Edit, Inv, Shape
  <2>. QED  BY <1>1, <1>3, <2>1 DEF Inv, Shape
<1>5. FilesWhole'
  BY <1>1 DEF Inv, Shape, FilesWhole
<1>6. \A q \in Processes : job[q].file \notin raced => job'[q].fd = job[q].fd
  BY <1>3 DEF Inv, Shape, TempInv
<1>. QED  BY <1>1, <1>3, <1>4, <1>5, <1>6, StepKeeps

\* Every step keeps the invariant.
LEMMA Inductive == Inv /\ [Next]_vars => Inv'
<1> SUFFICES ASSUME Inv, [Next]_vars
             PROVE  Inv'
  OBVIOUS
<1>1. ASSUME NEW p \in Processes, BeginSet(p)
      PROVE  Inv'
  <2>1. PICK f \in Configs, k \in Keys, v \in Values \ {Mistyped, Bad}, trust \in BOOLEAN :
          Begin(p, [Idle EXCEPT !.file = f, !.key = k, !.value = v, !.trust = trust])
    BY <1>1 DEF BeginSet
  <2>. DEFINE j == [Idle EXCEPT !.file = f, !.key = k, !.value = v, !.trust = trust]
  <2>2. DOMAIN j = DOMAIN Idle /\ j.file \in Files /\ j.fd = "none"
    BY DEF Idle, Files
  <2>. QED  BY <2>1, <2>2, BeginKeeps
<1>2. ASSUME NEW p \in Processes, BeginIntegrate(p)
      PROVE  Inv'
  <2>1. PICK remove \in BOOLEAN : Begin(p, [Idle EXCEPT !.remove = remove])
    BY <1>2 DEF BeginIntegrate
  <2>. DEFINE j == [Idle EXCEPT !.remove = remove]
  <2>2. DOMAIN j = DOMAIN Idle /\ j.file \in Files /\ j.fd = "none"
    BY DEF Idle, Files
  <2>. QED  BY <2>1, <2>2, BeginKeeps
<1>3. CASE EditProject
  <2>1. PICK project \in ProjectFiles :
          Edit("project", IF project = NoKeys THEN Absent("project") ELSE Whole(project))
    BY <1>3 DEF EditProject
  <2>2. Absent("project").form = "absent" /\ Whole(project).form = "whole" /\ "project" \in Files
    BY DEF Absent, Whole, Files, Configs
  <2>. QED  BY <2>1, <2>2, EditKeeps
<1>4. CASE EditSettings
  <2>1. \E doc : Edit("settings", Whole(doc))
    BY <1>4 DEF EditSettings
  <2>2. \A doc : Whole(doc).form = "whole"
    BY DEF Whole
  <2>3. "settings" \in Files
    BY DEF Files
  <2>. QED  BY <2>1, <2>2, <2>3, EditKeeps
<1>5. CASE Tick \/ UNCHANGED vars
  BY <1>5 DEF Tick, vars, Inv, Shape, AloneInv, TempInv, TempOf, FilesWhole
<1>. QED
  BY <1>1, <1>2, <1>3, <1>4, <1>5, ReadKeeps, BackupKeeps, OpenKeeps, FillKeeps, PublishKeeps,
     StopKeeps DEF Next

\* Whatever overlaps, fails or dies at any step: the settings are always whole
\* or absent, and so is a configuration on which no two config sets ever ran
\* at the same time.
THEOREM FilesStayWhole == Spec => []FilesWhole
<1>1. Init => Inv
  BY Initially
<1>2. Inv /\ [Next]_vars => Inv'
  BY Inductive
<1>3. Inv => FilesWhole
  BY DEF Inv
<1>. QED  BY <1>1, <1>2, <1>3, PTL DEF Spec

-----------------------------------------------------------------------------
(* What the commands do: the contents of files and of commands at work.    *)

Groups == Seq(SUBSET Hooks)
Document(f) == IF f = "settings" THEN Groups ELSE Configuration

-----------------------------------------------------------------------------
(* The groups without a hook.                                              *)

\* Every set of numbers has a least one.
LEMMA LeastNumber ==
  ASSUME NEW T \in SUBSET Nat, T # {}
  PROVE  \E m \in T : \A n \in T : m <= n
<1>1. PICK m \in T : \A n \in T : <<n, m>> \notin OpToRel(<, Nat)
  BY NatLessThanWellFounded, WFMin, Zenon
<1>2. ASSUME NEW n \in T, n < m PROVE FALSE
  <2>1. <<n, m>> \in OpToRel(<, Nat)
    BY <1>2, Zenon DEF OpToRel
  <2>. QED  BY <1>1, <2>1, Zenon
<1>. QED  BY <1>2

\* Induction on sets of numbers.
LEMMA Induction ==
  ASSUME NEW S, 0 \in S, \A n \in Nat : n \in S => n + 1 \in S
  PROVE  \A n \in Nat : n \in S
<1>1. SUFFICES ASSUME Nat \ S # {} PROVE FALSE
  OBVIOUS
<1>2. PICK m \in Nat \ S : \A n \in Nat \ S : m <= n
  BY <1>1, LeastNumber
<1>3. m - 1 \in Nat /\ m - 1 \in S
  BY <1>2
<1>. QED  BY <1>2, <1>3

\* The lists remove_our_hook goes through.
Kept(list, group) == IF group = {} THEN list ELSE Append(list, group)

Loop(groups, n, f) ==
  f = [k \in 0 .. n |-> IF k = 0 THEN <<>> ELSE Kept(f[k - 1], groups[k])]

\* One step of the loop.
LEMMA LoopStep ==
  ASSUME NEW groups, NEW n \in Nat, NEW f, Loop(groups, n, f), NEW k \in Nat, k < n
  PROVE  /\ f[0] = <<>>
         /\ f[k + 1] = Kept(f[k], groups[k + 1])
<1>1. k + 1 \in 0 .. n /\ k + 1 # 0 /\ (k + 1) - 1 = k /\ 0 \in 0 .. n
  OBVIOUS
<1>. QED  BY <1>1 DEF Loop

\* There are such lists for every prefix.
LEMMA LoopDefined ==
  ASSUME NEW groups
  PROVE  \A n \in Nat : \E f : Loop(groups, n, f)
<1>. DEFINE S == {n \in Nat : \E f : Loop(groups, n, f)}
<1>1. 0 \in S
  <2>. DEFINE f == [k \in 0 .. 0 |-> <<>>]
  <2>1. Loop(groups, 0, f)
    BY DEF Loop
  <2>. QED  BY <2>1
<1>2. ASSUME NEW n \in Nat, n \in S PROVE n + 1 \in S
  <2>1. PICK f : Loop(groups, n, f)
    BY <1>2
  <2>. DEFINE g == [k \in 0 .. n + 1 |-> IF k = n + 1
                      THEN Kept(f[n], groups[n + 1]) ELSE f[k]]
  <2>2. \A k \in 0 .. n : g[k] = f[k]
    OBVIOUS
  <2>3. \A k \in 0 .. n + 1 : g[k] = IF k = 0 THEN <<>> ELSE Kept(g[k - 1], groups[k])
    <3>1. \A k \in 0 .. n : f[k] = IF k = 0 THEN <<>> ELSE Kept(f[k - 1], groups[k])
      BY <2>1 DEF Loop
    <3>2. \A k \in 1 .. n : k - 1 \in 0 .. n
      OBVIOUS
    <3>. QED  BY <3>1, <3>2, <2>2
  <2>4. Loop(groups, n + 1, g)
    BY <2>3 DEF Loop
  <2>. QED  BY <2>4
<1>3. \A n \in Nat : n \in S
  <2>. HIDE DEF S
  <2>. QED  BY <1>1, <1>2, Induction
<1>. QED  BY <1>3

\* remove_our_hook goes through them.
LEMMA NonEmptyIsLoop ==
  ASSUME NEW groups, Len(groups) \in Nat
  PROVE  \E f : Loop(groups, Len(groups), f) /\ NonEmpty(groups) = f[Len(groups)]
<1>. DEFINE kept == CHOOSE f : Loop(groups, Len(groups), f)
<1>1. Loop(groups, Len(groups), kept)
  BY LoopDefined
<1>2. NonEmpty(groups) = kept[Len(groups)]
  BY DEF NonEmpty, Loop, Kept
<1>. QED  BY <1>1, <1>2

\* The lists of a longer sequence start as those of its prefix.
LEMMA LoopPrefix ==
  ASSUME NEW G, NEW s \in Seq(G), NEW t \in Seq(G), NEW f, NEW g,
         Loop(s, Len(s), f), Loop(t, Len(t), g),
         Len(s) <= Len(t), \A i \in 1 .. Len(s) : t[i] = s[i]
  PROVE  g[Len(s)] = f[Len(s)]
<1>. DEFINE S == {n \in Nat : n <= Len(s) => g[n] = f[n]}
<1>0. Len(s) \in Nat /\ Len(t) \in Nat
  OBVIOUS
<1>1. 0 \in S
  BY <1>0 DEF Loop
<1>2. ASSUME NEW n \in Nat, n \in S, n < Len(s) PROVE g[n + 1] = f[n + 1]
  <2>1. g[n] = f[n] /\ t[n + 1] = s[n + 1] /\ n < Len(t)
    BY <1>0, <1>2
  <2>. QED  BY <1>0, <1>2, <2>1, LoopStep
<1>3. \A n \in Nat : n \in S => n + 1 \in S
  BY <1>0, <1>2
<1>4. \A n \in Nat : n \in S
  <2>. HIDE DEF S
  <2>. QED  BY <1>1, <1>3, Induction
<1>. QED  BY <1>0, <1>4

\* A group without a hook at the end is dropped.
LEMMA NonEmptyAppendEmpty ==
  ASSUME NEW G, NEW s \in Seq(G), {} \in G
  PROVE  NonEmpty(Append(s, {})) = NonEmpty(s)
<1>. DEFINE t == Append(s, {})
            n == Len(s)
<1>1. /\ t \in Seq(G) /\ n \in Nat /\ Len(t) = n + 1 /\ t[n + 1] = {}
      /\ \A i \in 1 .. n : t[i] = s[i]
  OBVIOUS
<1>. HIDE DEF t
<1>2. PICK f : Loop(s, n, f) /\ NonEmpty(s) = f[n]
  BY <1>1, NonEmptyIsLoop
<1>3. PICK g : Loop(t, n + 1, g) /\ NonEmpty(t) = g[n + 1]
  BY <1>1, NonEmptyIsLoop
<1>4. g[n] = f[n]
  BY <1>1, <1>2, <1>3, LoopPrefix
<1>5. g[n + 1] = g[n]
  BY <1>1, <1>3, LoopStep DEF Kept
<1>. QED  BY <1>2, <1>3, <1>4, <1>5 DEF t

\* What is left are groups of the list that have a hook.
LEMMA NonEmptyLeaves ==
  ASSUME NEW s \in Groups
  PROVE  /\ NonEmpty(s) \in Groups
         /\ \A i \in 1 .. Len(NonEmpty(s)) :
              NonEmpty(s)[i] # {} /\ \E j \in 1 .. Len(s) : NonEmpty(s)[i] = s[j]
<1>. DEFINE Drawn(l) == /\ l \in Groups
                        /\ \A i \in 1 .. Len(l) : l[i] # {} /\ \E j \in 1 .. Len(s) : l[i] = s[j]
<1>0. Len(s) \in Nat
  BY DEF Groups
<1>1. PICK f : Loop(s, Len(s), f) /\ NonEmpty(s) = f[Len(s)]
  BY <1>0, NonEmptyIsLoop
<1>. DEFINE S == {n \in Nat : n <= Len(s) => Drawn(f[n])}
<1>2. 0 \in S
  <2>1. f[0] = <<>>
    BY <1>0, <1>1 DEF Loop
  <2>2. <<>> \in Groups /\ Len(<<>>) = 0
    BY DEF Groups
  <2>3. 1 .. 0 = {}
    OBVIOUS
  <2>. QED  BY <2>1, <2>2, <2>3
<1>3. ASSUME NEW n \in Nat, n \in S, n < Len(s) PROVE Drawn(f[n + 1])
  <2>1. Drawn(f[n]) /\ n + 1 \in 1 .. Len(s) /\ s[n + 1] \in SUBSET Hooks
    BY <1>0, <1>3 DEF Groups
  <2>2. CASE s[n + 1] = {}
    <3>1. f[n + 1] = f[n]
      BY <1>0, <1>1, <1>3, <2>2, LoopStep DEF Kept
    <3>. HIDE DEF Drawn
    <3>. QED  BY <2>1, <3>1
  <2>3. CASE s[n + 1] # {}
    <3>1. f[n + 1] = Append(f[n], s[n + 1])
      BY <1>0, <1>1, <1>3, <2>3, LoopStep DEF Kept
    <3>2. \A l \in Groups, g \in SUBSET Hooks :
            /\ Append(l, g) \in Groups /\ Len(l) \in Nat /\ Len(Append(l, g)) = Len(l) + 1
            /\ Append(l, g)[Len(l) + 1] = g /\ \A i \in 1 .. Len(l) : Append(l, g)[i] = l[i]
      BY DEF Groups
    <3>. QED  BY <2>1, <2>3, <3>1, <3>2
  <2>. QED  BY <2>2, <2>3
<1>4. \A n \in Nat : n \in S => n + 1 \in S
  <2>. HIDE DEF Drawn
  <2>. QED  BY <1>0, <1>3
<1>5. \A n \in Nat : n \in S
  <2>. HIDE DEF S
  <2>. QED  BY <1>2, <1>4, Induction
<1>6. Drawn(NonEmpty(s))
  <2>. HIDE DEF Drawn
  <2>. QED  BY <1>0, <1>1, <1>5
<1>. QED  BY <1>6

\* Nothing is dropped of groups that all have a hook.
LEMMA NonEmptyKeeps ==
  ASSUME NEW s \in Groups, \A i \in 1 .. Len(s) : s[i] # {}
  PROVE  NonEmpty(s) = s
<1>. DEFINE Prefix(l, n) == l \in Groups /\ Len(l) = n /\ \A i \in 1 .. n : l[i] = s[i]
<1>0. Len(s) \in Nat
  BY DEF Groups
<1>1. PICK f : Loop(s, Len(s), f) /\ NonEmpty(s) = f[Len(s)]
  BY <1>0, NonEmptyIsLoop
<1>. DEFINE S == {n \in Nat : n <= Len(s) => Prefix(f[n], n)}
<1>2. 0 \in S
  <2>1. f[0] = <<>>
    BY <1>0, <1>1 DEF Loop
  <2>2. <<>> \in Groups /\ Len(<<>>) = 0
    BY DEF Groups
  <2>3. 1 .. 0 = {}
    OBVIOUS
  <2>. QED  BY <2>1, <2>2, <2>3
<1>3. ASSUME NEW n \in Nat, n \in S, n < Len(s) PROVE Prefix(f[n + 1], n + 1)
  <2>1. Prefix(f[n], n) /\ n + 1 \in 1 .. Len(s) /\ s[n + 1] \in SUBSET Hooks
    BY <1>0, <1>3 DEF Groups
  <2>2. f[n + 1] = Append(f[n], s[n + 1])
    BY <1>0, <1>1, <1>3, <2>1, LoopStep DEF Kept
  <2>. QED  BY <2>1, <2>2 DEF Groups
<1>4. \A n \in Nat : n \in S => n + 1 \in S
  <2>. HIDE DEF Prefix
  <2>. QED  BY <1>0, <1>3
<1>5. \A n \in Nat : n \in S
  <2>. HIDE DEF S
  <2>. QED  BY <1>2, <1>4, Induction
<1>6. Prefix(NonEmpty(s), Len(s))
  <2>. HIDE DEF Prefix
  <2>. QED  BY <1>0, <1>1, <1>5
<1>. QED  BY <1>6, SeqEqual DEF Groups

\* The groups of s without our hook.
Without(s) == [i \in DOMAIN s |-> s[i] \ {Ours}]

\* It has as many groups, some perhaps without a hook.
LEMMA WithoutGroups ==
  ASSUME NEW s \in Groups
  PROVE  /\ Without(s) \in Groups /\ Len(Without(s)) = Len(s)
         /\ \A i \in 1 .. Len(s) : Without(s)[i] = s[i] \ {Ours}
BY DEF Without, Groups

\* The groups of others, each in a set of its own, and nothing for the rest.
Apart(s, ours) == [i \in DOMAIN s |-> IF s[i] \in ours THEN {} ELSE {s[i] \ {Ours}}]

\* It has as many elements as there are groups.
LEMMA ApartGroups ==
  ASSUME NEW s \in Groups, NEW ours
  PROVE  /\ Apart(s, ours) \in Seq(SUBSET SUBSET Hooks) /\ Len(Apart(s, ours)) = Len(s)
         /\ \A i \in 1 .. Len(s) :
              /\ s[i] \in ours => Apart(s, ours)[i] = {}
              /\ s[i] \notin ours => Apart(s, ours)[i] = {s[i] \ {Ours}}
<1>0. Len(s) \in Nat /\ DOMAIN s = 1 .. Len(s) /\ \A i \in 1 .. Len(s) : s[i] \in SUBSET Hooks
  BY DEF Groups
<1>. DEFINE a == [i \in 1 .. Len(s) |-> IF s[i] \in ours THEN {} ELSE {s[i] \ {Ours}}]
<1>1. ASSUME NEW i \in 1 .. Len(s) PROVE a[i] \in SUBSET SUBSET Hooks
  <2>1. s[i] \ {Ours} \in SUBSET Hooks
    BY <1>0
  <2>. HIDE DEF Hooks
  <2>. QED  BY <2>1
<1>2. Apart(s, ours) = a
  BY <1>0, Zenon DEF Apart
<1>3. a \in [1 .. Len(s) -> SUBSET SUBSET Hooks]
  BY <1>1
<1>. HIDE DEF Hooks
<1>. QED  BY <1>0, <1>2, <1>3

\* The groups with a hook, each in a set of its own.
Each(s) == [i \in DOMAIN s |-> IF s[i] = {} THEN {} ELSE {s[i]}]

\* It has as many elements as there are groups.
LEMMA EachGroups ==
  ASSUME NEW s \in Groups
  PROVE  /\ Each(s) \in Seq(SUBSET SUBSET Hooks) /\ Len(Each(s)) = Len(s)
         /\ \A i \in 1 .. Len(s) : Each(s)[i] = IF s[i] = {} THEN {} ELSE {s[i]}
<1>0. Len(s) \in Nat /\ DOMAIN s = 1 .. Len(s) /\ \A i \in 1 .. Len(s) : s[i] \in SUBSET Hooks
  BY DEF Groups
<1>. HIDE DEF Hooks
<1>. DEFINE a == [i \in 1 .. Len(s) |-> IF s[i] = {} THEN {} ELSE {s[i]}]
<1>1. \A i \in 1 .. Len(s) : a[i] \in SUBSET SUBSET Hooks
  BY <1>0
<1>2. Each(s) = a
  BY <1>0, Zenon DEF Each
<1>3. a \in [1 .. Len(s) -> SUBSET SUBSET Hooks]
  BY <1>1
<1>. QED  BY <1>0, <1>2, <1>3

\* It makes no difference whether groups without a hook are dropped before.
LEMMA NonEmptyEach ==
  ASSUME NEW s \in Groups
  PROVE  NonEmpty(Each(s)) = Each(NonEmpty(s))
<1>. DEFINE t == Each(s)
<1>0. /\ Len(s) \in Nat /\ Len(t) = Len(s)
      /\ \A i \in 1 .. Len(s) : t[i] = IF s[i] = {} THEN {} ELSE {s[i]}
  <2>1. Len(s) \in Nat
    BY DEF Groups
  <2>2. Len(t) = Len(s) /\ \A i \in 1 .. Len(s) : t[i] = IF s[i] = {} THEN {} ELSE {s[i]}
    BY EachGroups, Zenon
  <2>. QED  BY <2>1, <2>2, Zenon
<1>. HIDE DEF t
<1>1. PICK f : Loop(s, Len(s), f) /\ NonEmpty(s) = f[Len(s)]
  BY <1>0, NonEmptyIsLoop
<1>2. PICK g : Loop(t, Len(s), g) /\ NonEmpty(t) = g[Len(s)]
  BY <1>0, NonEmptyIsLoop
<1>. DEFINE S == {n \in Nat : n <= Len(s) => f[n] \in Groups /\ g[n] = Each(f[n])}
<1>3. 0 \in S
  <2>1. f[0] = <<>> /\ g[0] = <<>>
    BY <1>0, <1>1, <1>2 DEF Loop
  <2>2. <<>> \in Groups /\ Each(<<>>) = <<>>
    BY DEF Groups, Each
  <2>. QED  BY <2>1, <2>2
<1>4. ASSUME NEW n \in Nat, n \in S, n < Len(s) PROVE f[n + 1] \in Groups /\ g[n + 1] = Each(f[n + 1])
  <2>1. f[n] \in Groups /\ g[n] = Each(f[n]) /\ n + 1 \in 1 .. Len(s) /\ s[n + 1] \in SUBSET Hooks
    BY <1>0, <1>4 DEF Groups
  <2>2. f[n + 1] = Kept(f[n], s[n + 1]) /\ g[n + 1] = Kept(g[n], t[n + 1])
    BY <1>0, <1>1, <1>2, <1>4, LoopStep
  <2>3. CASE s[n + 1] = {}
    BY <1>0, <2>1, <2>2, <2>3 DEF Kept
  <2>4. CASE s[n + 1] # {}
    <3>. DEFINE l == f[n]  e == s[n + 1]  m == Append(l, e)
    <3>1. f[n + 1] = m /\ g[n + 1] = Append(Each(l), {e})
      BY <1>0, <2>1, <2>2, <2>4 DEF Kept
    <3>. HIDE DEF l, e
    <3>2. l \in Groups /\ e \in SUBSET Hooks /\ e # {}
      BY <2>1, <2>4 DEF l, e
    <3>3. /\ m \in Groups /\ Len(m) = Len(l) + 1 /\ Len(l) \in Nat /\ m[Len(l) + 1] = e
          /\ \A i \in 1 .. Len(l) : m[i] = l[i]
      BY <3>2 DEF Groups
    <3>. HIDE DEF m
    <3>4. /\ Each(m) \in Seq(SUBSET SUBSET Hooks) /\ Len(Each(m)) = Len(l) + 1
          /\ \A i \in 1 .. Len(l) + 1 : Each(m)[i] = IF m[i] = {} THEN {} ELSE {m[i]}
      BY <3>3, EachGroups
    <3>5. /\ Each(l) \in Seq(SUBSET SUBSET Hooks) /\ Len(Each(l)) = Len(l)
          /\ \A i \in 1 .. Len(l) : Each(l)[i] = IF l[i] = {} THEN {} ELSE {l[i]}
      BY <3>2, EachGroups
    <3>6. {e} \in SUBSET SUBSET Hooks
      BY <3>2
    <3>. DEFINE u == Append(Each(l), {e})
    <3>7. /\ u \in Seq(SUBSET SUBSET Hooks) /\ Len(u) = Len(l) + 1 /\ u[Len(l) + 1] = {e}
          /\ \A i \in 1 .. Len(l) : u[i] = Each(l)[i]
      BY <3>5, <3>6
    <3>. HIDE DEF u
    <3>8. \A i \in 1 .. Len(u) : u[i] = Each(m)[i]
      <4>1. \A i \in 1 .. Len(u) : i \in 1 .. Len(l) \/ i = Len(l) + 1
        BY <3>3, <3>7
      <4>2. u[Len(l) + 1] = Each(m)[Len(l) + 1]
        <5>1. Len(l) + 1 \in 1 .. Len(l) + 1
          BY <3>3
        <5>. QED  BY <3>2, <3>3, <3>4, <3>7, <5>1
      <4>3. ASSUME NEW i \in 1 .. Len(l) PROVE u[i] = Each(m)[i]
        <5>1. i \in 1 .. Len(l) + 1
          <6>1. Len(l) \in Nat
            BY <3>3
          <6>. QED  BY <6>1
        <5>2. u[i] = Each(l)[i] /\ m[i] = l[i]
          BY <3>3, <3>7, Zenon
        <5>3. Each(l)[i] = IF l[i] = {} THEN {} ELSE {l[i]}
          BY <3>5, Zenon
        <5>4. Each(m)[i] = IF m[i] = {} THEN {} ELSE {m[i]}
          BY <3>4, <5>1, Zenon
        <5>. QED  BY <5>2, <5>3, <5>4, Zenon
      <4>. QED  BY <4>1, <4>2, <4>3
    <3>9. u = Each(m)
      BY <3>4, <3>7, <3>8, SeqEqual
    <3>. QED  BY <3>1, <3>3, <3>9 DEF u
  <2>. QED  BY <2>3, <2>4
<1>5. \A n \in Nat : n \in S => n + 1 \in S
  BY <1>0, <1>4
<1>6. \A n \in Nat : n \in S
  <2>. HIDE DEF S
  <2>. QED  BY <1>3, <1>5, Induction
<1>. QED  BY <1>0, <1>1, <1>2, <1>6 DEF t

\* An installation keeps every group of others and adds our hook once.
LEMMA InstallForeign ==
  ASSUME NEW s \in Groups, ~ HasOurs(s)
  PROVE  /\ InstallOurs(s) \in Groups
         /\ Others(InstallOurs(s)) = Others(s) /\ Copies(InstallOurs(s)) = 1
<1>. DEFINE t == Append(s, {Ours})
            n == Len(s)
            ours == {{Ours}}
<1>0. InstallOurs(s) = t
  BY DEF InstallOurs
<1>1. /\ t \in Groups /\ n \in Nat /\ Len(t) = n + 1 /\ t[n + 1] = {Ours}
      /\ \A i \in 1 .. n : t[i] = s[i] /\ Ours \notin s[i]
  BY DEF Groups, Hooks, HasOurs
<1>2. {Ours} \in ours
  OBVIOUS
<1>. HIDE DEF t, ours
<1>3. Apart(t, ours) = Append(Apart(s, ours), {})
  <2>. DEFINE u == Append(Apart(s, ours), {})
  <2>1. /\ u \in Seq(SUBSET SUBSET Hooks) /\ Len(u) = n + 1 /\ u[n + 1] = {}
        /\ \A i \in 1 .. n : u[i] = Apart(s, ours)[i]
    BY <1>1, ApartGroups
  <2>. HIDE DEF u
  <2>2. \A i \in 1 .. n + 1 : Apart(t, ours)[i] = u[i]
    <3>1. \A i \in 1 .. n : Apart(t, ours)[i] = u[i]
      <4>. TAKE i \in 1 .. n
      <4>1. i \in 1 .. Len(t) /\ i \in 1 .. Len(s) /\ t[i] = s[i]
        BY <1>1
      <4>2. /\ t[i] \in ours => Apart(t, ours)[i] = {}
            /\ t[i] \notin ours => Apart(t, ours)[i] = {t[i] \ {Ours}}
        BY <1>1, <4>1, ApartGroups
      <4>3. /\ s[i] \in ours => Apart(s, ours)[i] = {}
            /\ s[i] \notin ours => Apart(s, ours)[i] = {s[i] \ {Ours}}
        BY <4>1, ApartGroups
      <4>4. u[i] = Apart(s, ours)[i]
        BY <2>1
      <4>. QED  BY <4>1, <4>2, <4>3, <4>4
    <3>2. Apart(t, ours)[n + 1] = {}
      <4>1. n + 1 \in 1 .. Len(t)
        BY <1>1
      <4>2. t[n + 1] \in ours => Apart(t, ours)[n + 1] = {}
        BY <1>1, <4>1, ApartGroups
      <4>. QED  BY <1>1, <1>2, <4>2
    <3>3. \A i \in 1 .. n + 1 : i \in 1 .. n \/ i = n + 1
      BY <1>1
    <3>. QED  BY <2>1, <3>1, <3>2, <3>3
  <2>3. Apart(t, ours) \in Seq(SUBSET SUBSET Hooks) /\ Len(Apart(t, ours)) = n + 1
    BY <1>1, ApartGroups
  <2>. QED  BY <2>1, <2>2, <2>3, SeqEqual DEF u
<1>4. Others(t) = Others(s)
  <2>1. Others(t) = NonEmpty(Apart(t, ours)) /\ Others(s) = NonEmpty(Apart(s, ours))
    BY DEF Others, OthersBut, Apart, ours
  <2>2. Apart(s, ours) \in Seq(SUBSET SUBSET Hooks) /\ {} \in SUBSET SUBSET Hooks
    BY ApartGroups
  <2>3. NonEmpty(Append(Apart(s, ours), {})) = NonEmpty(Apart(s, ours))
    BY <2>2, NonEmptyAppendEmpty
  <2>. QED  BY <1>3, <2>1, <2>3
<1>5. Copies(t) = 1
  <2>1. DOMAIN t = 1 .. n + 1
    BY <1>1 DEF Groups
  <2>2. {i \in DOMAIN t : Ours \in t[i]} = {n + 1}
    BY <1>1, <2>1
  <2>. QED  BY <2>2, FS_Singleton DEF Copies
<1>. QED  BY <1>0, <1>1, <1>4, <1>5

\* A removal keeps the groups of others that have a hook, in their order, and
\* leaves no copy of ours.
LEMMA RemoveForeign ==
  ASSUME NEW s \in Groups
  PROVE  /\ RemoveOurs(s) \in Groups
         /\ Others(RemoveOurs(s)) = OthersWithHooks(s) /\ Copies(RemoveOurs(s)) = 0
<1>. DEFINE w == Without(s)
            t == NonEmpty(w)
<1>0. RemoveOurs(s) = t
  BY DEF RemoveOurs, Without
<1>1. /\ t \in Groups /\ w \in Groups
      /\ \A i \in 1 .. Len(t) : t[i] # {} /\ \E j \in 1 .. Len(s) : t[i] = Without(s)[j]
  BY WithoutGroups, NonEmptyLeaves
<1>2. \A i \in 1 .. Len(t) : Ours \notin t[i]
  BY <1>1, WithoutGroups
<1>3. OthersWithHooks(s) = Each(t)
  <2>1. /\ Len(w) = Len(s) /\ Len(s) \in Nat /\ DOMAIN w = 1 .. Len(s) /\ DOMAIN s = 1 .. Len(s)
        /\ \A i \in 1 .. Len(s) : w[i] = s[i] \ {Ours}
    BY WithoutGroups DEF Groups
  <2>. HIDE DEF w
  <2>2. \A i \in 1 .. Len(s) : s[i] \in {{Ours}, {}} <=> w[i] = {}
    BY <2>1
  <2>3. Apart(s, {{Ours}, {}}) = Each(w)
    BY <2>1, <2>2 DEF Apart, Each
  <2>4. OthersWithHooks(s) = NonEmpty(Each(w))
    BY <2>3 DEF OthersWithHooks, OthersBut, Apart
  <2>. QED  BY <1>1, <2>4, NonEmptyEach
<1>. HIDE DEF t
<1>4. Others(t) = Each(t)
  <2>1. DOMAIN t = 1 .. Len(t)
    BY <1>1 DEF Groups
  <2>2. \A i \in 1 .. Len(t) : t[i] # {Ours} /\ t[i] # {} /\ t[i] \ {Ours} = t[i]
    BY <1>1, <1>2
  <2>3. Apart(t, {{Ours}}) = Each(t)
    BY <2>1, <2>2 DEF Apart, Each
  <2>4. Others(t) = NonEmpty(Each(t))
    BY <2>3 DEF Others, OthersBut, Apart
  <2>5. NonEmpty(t) = t
    BY <1>1, NonEmptyKeeps
  <2>. QED  BY <1>1, <2>4, <2>5, NonEmptyEach
<1>5. Copies(t) = 0
  <2>1. DOMAIN t = 1 .. Len(t)
    BY <1>1 DEF Groups
  <2>2. {i \in DOMAIN t : Ours \in t[i]} = {}
    BY <1>2, <2>1
  <2>. QED  BY <2>2, FS_EmptySet DEF Copies
<1>. QED  BY <1>0, <1>1, <1>3, <1>4, <1>5

ContentInv ==
  /\ \A f \in Files : file[f].form \in {"absent", "empty", "whole", "mixed"}
                        /\ file[f].doc \in Document(f)
  /\ \A t \in TempNames : temp[t].form \in {"absent", "empty", "whole", "mixed"}
                            /\ temp[t].doc \in Document(t[1])
  /\ now \in Nat
  /\ \A t \in DOMAIN backups : t \in 0 .. now /\ backups[t] \in Groups
  /\ env \in Configuration

\* Two config sets on one file know of each other, and the file remembers.
OverlapInv ==
  \A p, q \in Processes :
    /\ p # q /\ job[p].at # "idle" /\ job[q].at # "idle"
    /\ job[p].file = job[q].file /\ job[p].file \in Configs
    => job[p].overlapped /\ job[p].file \in raced

\* The temporary file of p is its own, and the configuration is as p read it.
Sure(p) == job[p].overlapped => job[p].file \notin raced
Stands(p) == /\ job[p].file \in Configs
             /\ job[p].overlapped => job[p].file = "global" /\ "global" \notin raced

HasRead(p) == job[p].at \in {"backup", "open", "fill", "publish"}
Writing(p) == job[p].at \in {"open", "fill", "publish"}

CommandInv(p) ==
  /\ job[p].at # "idle" /\ job[p].file \in Configs =>
       job[p].key \in Keys /\ job[p].value \in Values \ {Mistyped, Bad}
  /\ job[p].at = "backup" => job[p].file = "settings"
  /\ HasRead(p) =>
       /\ job[p].read.doc \in Document(job[p].file)
       /\ job[p].new = New(job[p], job[p].read.doc)
       /\ job[p].file = "settings" => job[p].new # job[p].read.doc

\* Where the content written by p is.
WriteInv(p) ==
  /\ job[p].at = "fill" => job[p].fd \in {"temp", "file", "gone"}
  /\ Sure(p) /\ job[p].at = "fill" => job[p].fd = "temp" /\ temp[TempOf(p)].form = "empty"
  /\ Sure(p) /\ job[p].at = "publish" => temp[TempOf(p)] = Whole(job[p].new)
  /\ Stands(p) /\ Writing(p) => file[job[p].file].doc = job[p].read.doc

\* The backup of what p has read.
BackupInv(p) ==
  job[p].file = "settings" /\ Writing(p) /\ job[p].read.form = "whole" =>
    /\ job[p].stamp \in DOMAIN backups
    /\ ~ job[p].overwritten => backups[job[p].stamp] = job[p].read.doc

FullInv ==
  /\ Inv /\ ContentInv /\ OverlapInv
  /\ \A p \in Processes : CommandInv(p) /\ WriteInv(p) /\ BackupInv(p)

\* Absent, empty and mixed files have the blank document of their kind.
LEMMA BlankTyped == \A f \in Files : Blank(f) \in Document(f)
<1>1. NoKeys \in Configuration
  BY DEF NoKeys, Configuration
<1>2. <<>> \in Groups
  BY DEF Groups
<1>. QED  BY <1>1, <1>2 DEF Blank, Document

\* The temporary file of p is of the kind of its file.
LEMMA TempKind == \A p \in Processes : TempOf(p)[1] = job[p].file
  BY DEF TempOf

\* What a command writes is a document of its file.
LEMMA NewTyped ==
  ASSUME NEW j, NEW doc \in Document(j.file), j.file \in Files,
         j.file \in Configs => j.key \in Keys /\ j.value \in Values
  PROVE  New(j, doc) \in Document(j.file)
<1>1. CASE j.file = "settings"
  <2>1. doc \in Groups
    BY <1>1 DEF Document
  <2>2. InstallOurs(doc) \in Groups
    BY <2>1, InstallForeign DEF InstallOurs
  <2>3. RemoveOurs(doc) \in Groups
    BY <2>1, RemoveForeign
  <2>. QED  BY <1>1, <2>2, <2>3 DEF New, Document
<1>2. CASE j.file # "settings"
  BY <1>2 DEF New, Document, Configuration, Files
<1>. QED  BY <1>1, <1>2

\* Files and commands start in order.
LEMMA FullInitially == Init => FullInv
<1> SUFFICES ASSUME Init
             PROVE  FullInv
  OBVIOUS
<1>1. ContentInv
  <2>1. \A f \in Files : file[f].form \in {"absent", "empty", "whole", "mixed"}
                           /\ file[f].doc \in Document(f)
    <3>1. PICK project \in ProjectFiles :
            file = [f \in Files |-> IF f = "project" /\ project # NoKeys THEN Whole(project)
                                    ELSE Absent(f)]
      BY DEF Init
    <3>2. project \in Document("project")
      BY KeysTyped DEF Document
    <3>. QED  BY <3>1, <3>2, BlankTyped DEF Whole, Absent
  <2>2. \A t \in TempNames : t[1] \in Files
    BY DEF TempNames, Files
  <2>3. \A t \in TempNames : temp[t].form = "absent" /\ temp[t].doc = Blank(t[1])
    BY DEF Init, Absent
  <2>4. now \in Nat /\ DOMAIN backups = {} /\ env \in Configuration
    BY KeysTyped DEF Init
  <2>. QED  BY <2>1, <2>2, <2>3, <2>4, BlankTyped DEF ContentInv
<1>2. \A p \in Processes : job[p].at = "idle"
  BY DEF Init, Idle
<1>3. OverlapInv
  BY <1>2 DEF OverlapInv
<1>4. \A p \in Processes : CommandInv(p) /\ WriteInv(p) /\ BackupInv(p)
  BY <1>2 DEF CommandInv, WriteInv, BackupInv, HasRead, Writing
<1>. QED  BY <1>1, <1>3, <1>4, Initially DEF FullInv

\* A step of others that leaves the command of q and what it relies on alone.
SameCommand(q) ==
  /\ job'[q].at = job[q].at /\ job'[q].file = job[q].file
  /\ job'[q].key = job[q].key /\ job'[q].value = job[q].value
  /\ job'[q].remove = job[q].remove /\ job'[q].read = job[q].read
  /\ job'[q].new = job[q].new /\ job'[q].stamp = job[q].stamp
  /\ job[q].overlapped => job'[q].overlapped

SameFiles(q) ==
  /\ job[q].at = "fill" => job'[q].fd \in {"temp", "file", "gone"}
  /\ Sure(q)' => job'[q].fd = job[q].fd /\ temp'[TempOf(q)] = temp[TempOf(q)]
  /\ Stands(q)' => file'[job[q].file].doc = file[job[q].file].doc

SameBackup(q) ==
  job[q].stamp \in DOMAIN backups =>
    /\ job[q].stamp \in DOMAIN backups'
    /\ ~ job'[q].overwritten =>
         ~ job[q].overwritten /\ backups'[job[q].stamp] = backups[job[q].stamp]

\* Such a step keeps what the invariant says of q.
LEMMA Framed ==
  ASSUME NEW q \in Processes, CommandInv(q), WriteInv(q), BackupInv(q), raced \subseteq raced',
         SameCommand(q), job[q].at # "idle" => SameFiles(q) /\ SameBackup(q)
  PROVE  CommandInv(q)' /\ WriteInv(q)' /\ BackupInv(q)'
<1>1. CommandInv(q)'
  <2>1. New(job[q], job[q].read.doc)' = New(job[q], job[q].read.doc)
    BY DEF SameCommand, New
  <2>. QED  BY <2>1 DEF CommandInv, SameCommand, HasRead
<1>2. WriteInv(q)'
  <2>1. (Sure(q)' => Sure(q)) /\ (Stands(q)' => Stands(q)) /\ TempOf(q)' = TempOf(q)
    BY DEF Sure, Stands, SameCommand, TempOf
  <2>2. CASE job[q].at = "idle"
    BY <2>2 DEF WriteInv, SameCommand, Writing
  <2>3. CASE job[q].at # "idle"
    BY <2>1, <2>3 DEF WriteInv, SameCommand, SameFiles, Writing
  <2>. QED  BY <2>2, <2>3
<1>3. BackupInv(q)'
  BY DEF BackupInv, SameCommand, SameBackup, Writing
<1>. QED  BY <1>1, <1>2, <1>3

\* Commands that go on or end keep what they know of each other.
LEMMA OverlapKept ==
  ASSUME OverlapInv, raced \subseteq raced',
         \A q \in Processes : job'[q].at # "idle" =>
           /\ job[q].at # "idle" /\ job'[q].file = job[q].file
           /\ job[q].overlapped => job'[q].overlapped
  PROVE  OverlapInv'
BY DEF OverlapInv

\* A command that runs with p on its file is not sure of anything.
LEMMA NotSure ==
  ASSUME FullInv, NEW p \in Processes, NEW q \in Processes, p # q,
         job[p].at # "idle", job[q].at # "idle", job[p].file = job[q].file, job[p].file \in Configs
  PROVE  ~ Sure(q) /\ ~ Stands(q)
BY DEF FullInv, OverlapInv, Sure, Stands

\* A process that is sure of its temporary file has it for itself.
LEMMA SureAlone ==
  ASSUME FullInv, NEW p \in Processes, NEW q \in Processes, p # q,
         job[p].at # "idle", job[q].at # "idle", Sure(q)
  PROVE  TempOf(q) # TempOf(p)
BY NotSure, TempShared DEF FullInv, Inv

\* A command begins.
LEMMA BeginFull ==
  ASSUME FullInv, Inv', NEW p \in Processes, NEW j, Begin(p, j),
         DOMAIN j = DOMAIN Idle, j.file \in Files,
         j.file \in Configs => j.key \in Keys /\ j.value \in Values \ {Mistyped, Bad}
  PROVE  FullInv'
<1>1. /\ UNCHANGED <<file, temp, backups, env, now>> /\ raced \subseteq raced'
      /\ job[p].at = "idle"
      /\ j.file \in Configs /\ Running(j.file) # {} => j.file \in raced'
  BY DEF Begin
<1>2. \A q \in Processes :
        job'[q] = IF q = p THEN [j EXCEPT !.at = "read", !.overlapped = Running(j.file) # {}]
                  ELSE IF q \in Running(j.file) THEN [job[q] EXCEPT !.overlapped = TRUE]
                  ELSE job[q]
  BY DEF Begin
<1>3. /\ job'[p].at = "read" /\ job'[p].file = j.file /\ job'[p].key = j.key
      /\ job'[p].value = j.value /\ job'[p].overlapped = (Running(j.file) # {})
  BY <1>2 DEF Idle
<1>4. \A q \in Processes : q # p => SameCommand(q) /\ job'[q].fd = job[q].fd
                                      /\ job'[q].overwritten = job[q].overwritten
  <2> SUFFICES ASSUME NEW q \in Processes, q # p
               PROVE  SameCommand(q) /\ job'[q].fd = job[q].fd
                        /\ job'[q].overwritten = job[q].overwritten
    OBVIOUS
  <2>1. DOMAIN job[q] = DOMAIN Idle
    BY DEF FullInv, Inv, Shape
  <2>2. job'[q] = [job[q] EXCEPT !.overlapped = TRUE] \/ job'[q] = job[q]
    BY <1>2
  <2>. QED  BY <2>1, <2>2 DEF SameCommand, Idle
<1>5. ASSUME NEW q \in Processes, q # p, job[q].at # "idle", job[q].file = j.file
      PROVE  q \in Running(j.file) /\ job'[q].overlapped
  <2>1. q \in Running(j.file)
    BY <1>5 DEF Running
  <2>2. job'[q] = [job[q] EXCEPT !.overlapped = TRUE] /\ DOMAIN job[q] = DOMAIN Idle
    BY <1>2, <1>5, <2>1 DEF FullInv, Inv, Shape
  <2>. QED  BY <2>1, <2>2 DEF Idle
<1>6. OverlapInv'
  <2> SUFFICES ASSUME NEW q \in Processes, NEW r \in Processes, q # r,
                      job'[q].at # "idle", job'[r].at # "idle", job'[q].file = job'[r].file,
                      job'[q].file \in Configs
               PROVE  job'[q].overlapped /\ job'[q].file \in raced'
    BY DEF OverlapInv
  <2>1. CASE q = p
    <3>1. r \in Running(j.file)
      BY <1>3, <1>4, <1>5, <2>1 DEF SameCommand
    <3>. QED  BY <1>1, <1>3, <2>1, <3>1
  <2>2. CASE r = p
    <3>1. q \in Running(j.file) /\ job'[q].overlapped
      BY <1>3, <1>4, <1>5, <2>2 DEF SameCommand
    <3>. QED  BY <1>1, <1>3, <2>2, <3>1
  <2>3. CASE q # p /\ r # p
    BY <1>1, <1>4, <2>3 DEF FullInv, OverlapInv, SameCommand
  <2>. QED  BY <2>1, <2>2, <2>3
<1>7. ContentInv'
  BY <1>1 DEF FullInv, ContentInv
<1>8. CommandInv(p)' /\ WriteInv(p)' /\ BackupInv(p)'
  BY <1>3 DEF CommandInv, WriteInv, BackupInv, HasRead, Writing
<1>9. ASSUME NEW q \in Processes, q # p
      PROVE  CommandInv(q)' /\ WriteInv(q)' /\ BackupInv(q)'
  <2>1. CommandInv(q) /\ WriteInv(q) /\ BackupInv(q)
    BY DEF FullInv
  <2>2. SameFiles(q) /\ SameBackup(q)
    BY <1>1, <1>4, <1>9, <2>1 DEF SameFiles, SameBackup, WriteInv
  <2>. QED  BY <1>1, <1>4, <1>9, <2>1, <2>2, Framed
<1>. QED  BY <1>6, <1>7, <1>8, <1>9 DEF FullInv

\* A step of p that gives the other commands nothing new.
LEMMA StepFull ==
  ASSUME FullInv, Inv', ContentInv', NEW p \in Processes, raced' = raced,
         job[p].at # "idle",
         job'[p].at # "idle" =>
           job'[p].file = job[p].file /\ job'[p].overlapped = job[p].overlapped,
         CommandInv(p)' /\ WriteInv(p)' /\ BackupInv(p)',
         \A q \in Processes \ {p} :
           SameCommand(q) /\ (job[q].at # "idle" => SameFiles(q) /\ SameBackup(q))
  PROVE  FullInv'
<1>1. OverlapInv'
  BY OverlapKept DEF FullInv, SameCommand
<1>2. ASSUME NEW q \in Processes, q # p
      PROVE  CommandInv(q)' /\ WriteInv(q)' /\ BackupInv(q)'
  BY <1>2, Framed DEF FullInv
<1>. QED  BY <1>1, <1>2 DEF FullInv

\* Nothing that belongs to q changes.
LEMMA Unmoved ==
  ASSUME FullInv, NEW q \in Processes, job'[q] = job[q],
         Sure(q)' => temp'[TempOf(q)] = temp[TempOf(q)],
         Stands(q)' => file'[job[q].file] = file[job[q].file],
         backups' = backups
  PROVE  SameCommand(q) /\ SameFiles(q) /\ SameBackup(q)
BY DEF SameCommand, SameFiles, SameBackup, FullInv, WriteInv

\* Reading: what will be written is the document with the change.
LEMMA ReadFull == ASSUME FullInv, Inv', NEW p \in Processes, Read(p) PROVE FullInv'
<1> DEFINE f == job[p].file
           doc == file[f].doc
           new == New(job[p], doc)
<1>1. /\ UNCHANGED <<file, temp, backups, env, raced, now>> /\ job[p].at = "read"
      /\ f \in Files /\ DOMAIN job[p] = DOMAIN Idle /\ doc \in Document(f)
      /\ DOMAIN job = Processes
  BY DEF Read, FullInv, Inv, Shape, ContentInv
<1>2. \A q \in Processes : q # p => job'[q] = job[q]
  BY <1>1 DEF Read
<1>3. job'[p] = IF f = "settings" /\ new = doc THEN Idle
                ELSE [job[p] EXCEPT !.at = IF f = "settings" /\ file[f].form = "whole"
                                           THEN "backup" ELSE "open",
                                    !.read = file[f], !.new = new]
  BY <1>1 DEF Read
<1>4. ContentInv'
  BY <1>1 DEF FullInv, ContentInv
<1>5. CASE f = "settings" /\ new = doc
  <2>1. job'[p].at = "idle"
    BY <1>3, <1>5 DEF Idle
  <2>2. CommandInv(p)' /\ WriteInv(p)' /\ BackupInv(p)'
    BY <2>1 DEF CommandInv, WriteInv, BackupInv, HasRead, Writing
  <2>. QED  BY <1>1, <1>2, <1>4, <2>1, <2>2, StepFull, Unmoved
<1>6. CASE ~ (f = "settings" /\ new = doc)
  <2>1. /\ job'[p].at = IF f = "settings" /\ file[f].form = "whole" THEN "backup" ELSE "open"
        /\ job'[p].file = f /\ job'[p].key = job[p].key /\ job'[p].value = job[p].value
        /\ job'[p].remove = job[p].remove /\ job'[p].read = file[f] /\ job'[p].new = new
        /\ job'[p].overlapped = job[p].overlapped
    <3>. DEFINE place == IF f = "settings" /\ file[f].form = "whole" THEN "backup" ELSE "open"
                content == file[f]
    <3>1. job'[p] = [job[p] EXCEPT !.at = place, !.read = content, !.new = new]
      BY <1>3, <1>6
    <3>. HIDE DEF place, content, new
    <3>2. /\ job'[p].at = place /\ job'[p].read = content /\ job'[p].new = new
          /\ job'[p].file = job[p].file /\ job'[p].key = job[p].key
          /\ job'[p].value = job[p].value /\ job'[p].remove = job[p].remove
          /\ job'[p].overlapped = job[p].overlapped
      BY <1>1, <3>1 DEF Idle
    <3>. QED  BY <3>2 DEF place, content
  <2>2. CommandInv(p)'
    <3>1. New(job'[p], doc) = new
      BY <2>1 DEF New
    <3>2. f \in Configs => job[p].key \in Keys /\ job[p].value \in Values \ {Mistyped, Bad}
      BY <1>1 DEF FullInv, CommandInv
    <3>. QED  BY <1>1, <1>6, <2>1, <3>1, <3>2 DEF CommandInv
  <2>3. WriteInv(p)'
    BY <1>1, <2>1 DEF WriteInv, Writing
  <2>4. BackupInv(p)'
    BY <1>1, <2>1 DEF BackupInv, Writing
  <2>. QED  BY <1>1, <1>2, <1>4, <2>1, <2>2, <2>3, <2>4, StepFull, Unmoved
<1>. QED  BY <1>5, <1>6

\* A backup holds what was read; one of the same name is gone.
LEMMA BackupFull == ASSUME FullInv, Inv', NEW p \in Processes, Backup(p) PROVE FullInv'
<1>1. /\ UNCHANGED <<file, temp, env, raced, now>> /\ job[p].at = "backup"
      /\ DOMAIN backups' = DOMAIN backups \cup {now}
      /\ \A t \in DOMAIN backups' :
           backups'[t] = IF t = now THEN job[p].read.doc ELSE backups[t]
  BY DEF Backup
<1>2. \A q \in Processes :
        job'[q] = IF q = p THEN [job[p] EXCEPT !.at = "open", !.stamp = now]
                  ELSE IF job[q].stamp = now THEN [job[q] EXCEPT !.overwritten = TRUE]
                  ELSE job[q]
  BY DEF Backup
<1>3. /\ job'[p].at = "open" /\ job'[p].stamp = now /\ job'[p].file = job[p].file
      /\ job'[p].key = job[p].key /\ job'[p].value = job[p].value
      /\ job'[p].remove = job[p].remove /\ job'[p].read = job[p].read
      /\ job'[p].new = job[p].new /\ job'[p].overlapped = job[p].overlapped
  <2>1. DOMAIN job[p] = DOMAIN Idle /\ job'[p] = [job[p] EXCEPT !.at = "open", !.stamp = now]
    BY <1>2 DEF FullInv, Inv, Shape
  <2>. QED  BY <2>1 DEF Idle
<1>4. CommandInv(p) /\ job[p].file \in Files
  BY DEF FullInv, Inv, Shape
<1>5. job[p].file = "settings" => job[p].read.doc \in Groups
  BY <1>1, <1>4 DEF CommandInv, HasRead, Document
<1>6. job[p].file = "settings"
  BY <1>1, <1>4 DEF CommandInv
<1>7. ContentInv'
  BY <1>1, <1>5, <1>6 DEF FullInv, ContentInv
<1>8. CommandInv(p)'
  <2>1. New(job'[p], job'[p].read.doc) = New(job[p], job[p].read.doc)
    BY <1>3 DEF New
  <2>. QED  BY <1>1, <1>3, <1>4, <2>1 DEF CommandInv, HasRead
<1>9. WriteInv(p)'
  BY <1>3, <1>6 DEF WriteInv, Stands, Configs
<1>10. BackupInv(p)'
  BY <1>1, <1>3 DEF BackupInv
<1>11. ASSUME NEW q \in Processes, q # p
       PROVE  SameCommand(q) /\ SameFiles(q) /\ SameBackup(q)
  <2>1. DOMAIN job[q] = DOMAIN Idle /\ WriteInv(q)
    BY DEF FullInv, Inv, Shape
  <2>2. CASE job[q].stamp = now
    <3>1. job'[q] = [job[q] EXCEPT !.overwritten = TRUE]
      BY <1>2, <1>11, <2>2
    <3>2. SameCommand(q) /\ job'[q].fd = job[q].fd /\ job'[q].overwritten
      BY <2>1, <3>1 DEF SameCommand, Idle
    <3>. QED  BY <1>1, <2>1, <2>2, <3>2 DEF SameFiles, SameBackup, WriteInv
  <2>3. CASE job[q].stamp # now
    <3>1. job'[q] = job[q]
      BY <1>2, <1>11, <2>3
    <3>. QED  BY <1>1, <2>1, <2>3, <3>1 DEF SameCommand, SameFiles, SameBackup, WriteInv
  <2>. QED  BY <2>2, <2>3
<1>. QED  BY <1>1, <1>3, <1>7, <1>8, <1>9, <1>10, <1>11, StepFull

\* Opening truncates the temporary file.
LEMMA OpenFull == ASSUME FullInv, Inv', NEW p \in Processes, Open(p) PROVE FullInv'
<1>1. /\ UNCHANGED <<file, backups, env, raced, now>> /\ job[p].at = "open"
      /\ temp' = [temp EXCEPT ![TempOf(p)] = Truncated(job[p].file)]
      /\ DOMAIN job[p] = DOMAIN Idle /\ DOMAIN temp = TempNames /\ DOMAIN job = Processes
      /\ job[p].file \in Files /\ TempOf(p) \in TempNames
  BY TempNamed DEF Open, FullInv, Inv, Shape
<1>2. \A q \in Processes : q # p => job'[q] = job[q]
  BY <1>1 DEF Open
<1>3. /\ job'[p].at = "fill" /\ job'[p].fd = "temp" /\ job'[p].file = job[p].file
      /\ job'[p].key = job[p].key /\ job'[p].value = job[p].value
      /\ job'[p].remove = job[p].remove /\ job'[p].read = job[p].read
      /\ job'[p].new = job[p].new /\ job'[p].overlapped = job[p].overlapped
      /\ job'[p].stamp = job[p].stamp /\ job'[p].overwritten = job[p].overwritten
  BY <1>1 DEF Open, Idle
<1>4. CommandInv(p) /\ WriteInv(p) /\ BackupInv(p)
  BY DEF FullInv
<1>5. ContentInv'
  <2>1. \A t \in TempNames : temp'[t].form \in {"absent", "empty", "whole", "mixed"}
                               /\ temp'[t].doc \in Document(t[1])
    BY <1>1, TempKind, BlankTyped DEF FullInv, ContentInv, Truncated
  <2>. QED  BY <1>1, <2>1 DEF FullInv, ContentInv
<1>6. CommandInv(p)'
  <2>1. New(job'[p], job'[p].read.doc) = New(job[p], job[p].read.doc)
    BY <1>3 DEF New
  <2>. QED  BY <1>1, <1>3, <1>4, <2>1 DEF CommandInv, HasRead
<1>7. WriteInv(p)'
  <2>1. TempOf(p)' = TempOf(p) /\ temp'[TempOf(p)].form = "empty"
    BY <1>1, <1>3 DEF TempOf, Truncated
  <2>. QED  BY <1>1, <1>3, <1>4, <2>1 DEF WriteInv, Stands, Writing
<1>8. BackupInv(p)'
  BY <1>1, <1>3, <1>4 DEF BackupInv, Writing
<1>9. ASSUME NEW q \in Processes, q # p, job[q].at # "idle"
      PROVE  SameCommand(q) /\ SameFiles(q) /\ SameBackup(q)
  <2>1. Sure(q)' => Sure(q)
    BY <1>1, <1>2, <1>9 DEF Sure
  <2>2. Sure(q) => temp'[TempOf(q)] = temp[TempOf(q)]
    BY <1>1, <1>9, SureAlone, TempNamed DEF FullInv, Inv
  <2>. QED  BY <1>1, <1>2, <1>9, <2>1, <2>2, Unmoved
<1>10. \A q \in Processes : q # p => SameCommand(q)
  BY <1>2 DEF SameCommand
<1>. QED  BY <1>1, <1>3, <1>5, <1>6, <1>7, <1>8, <1>9, <1>10, StepFull

\* Writing: who is sure of its file fills what it has opened.
LEMMA FillFull == ASSUME FullInv, Inv', NEW p \in Processes, Fill(p) PROVE FullInv'
<1> DEFINE f == job[p].file
           new == job[p].new
<1>1. /\ UNCHANGED <<backups, env, raced, now>> /\ job[p].at = "fill"
      /\ DOMAIN job[p] = DOMAIN Idle /\ DOMAIN temp = TempNames /\ DOMAIN job = Processes
      /\ DOMAIN file = Files /\ f \in Files /\ TempOf(p) \in TempNames
  BY TempNamed DEF Fill, FillThen, FullInv, Inv, Shape
<1>2. \A q \in Processes : q # p => job'[q] = job[q]
  BY <1>1 DEF Fill, FillThen
<1>3. /\ job'[p].at = "publish" /\ job'[p].fd = "none" /\ job'[p].file = job[p].file
      /\ job'[p].key = job[p].key /\ job'[p].value = job[p].value
      /\ job'[p].remove = job[p].remove /\ job'[p].read = job[p].read
      /\ job'[p].new = job[p].new /\ job'[p].overlapped = job[p].overlapped
      /\ job'[p].stamp = job[p].stamp /\ job'[p].overwritten = job[p].overwritten
  BY <1>1 DEF Fill, FillThen, Idle
<1>4. CommandInv(p) /\ WriteInv(p) /\ BackupInv(p)
  BY DEF FullInv
<1>5. new \in Document(f)
  BY <1>1, <1>4, NewTyped DEF CommandInv, HasRead
<1>6. \/ /\ job[p].fd = "temp" /\ file' = file
         /\ \E c \in Overwritten(temp[TempOf(p)], f, new) : temp' = [temp EXCEPT ![TempOf(p)] = c]
      \/ /\ job[p].fd = "file" /\ temp' = temp
         /\ \E c \in Overwritten(file[f], f, new) : file' = [file EXCEPT ![f] = c]
      \/ UNCHANGED <<file, temp>>
  BY DEF Fill, FillThen
<1>7. ASSUME NEW content, NEW c \in Overwritten(content, f, new)
      PROVE  c.form \in {"absent", "empty", "whole", "mixed"} /\ c.doc \in Document(f)
  BY <1>1, <1>5, <1>7, BlankTyped DEF Overwritten, Whole, Mixed
<1>8. ContentInv'
  <2>. HIDE DEF f, new
  <2>1. \A g \in Files : file'[g].form \in {"absent", "empty", "whole", "mixed"}
                           /\ file'[g].doc \in Document(g)
    BY <1>1, <1>6, <1>7 DEF FullInv, ContentInv
  <2>2. TempOf(p)[1] = f
    BY TempKind DEF f
  <2>3. \A t \in TempNames : temp'[t].form \in {"absent", "empty", "whole", "mixed"}
                               /\ temp'[t].doc \in Document(t[1])
    BY <1>1, <1>6, <1>7, <2>2 DEF FullInv, ContentInv
  <2>. QED  BY <1>1, <2>1, <2>3 DEF FullInv, ContentInv
<1>9. CommandInv(p)'
  <2>1. New(job'[p], job'[p].read.doc) = New(job[p], job[p].read.doc)
    BY <1>3 DEF New
  <2>. QED  BY <1>1, <1>3, <1>4, <2>1 DEF CommandInv, HasRead
<1>10. ASSUME Sure(p)
       PROVE  file' = file /\ temp'[TempOf(p)] = Whole(new)
  <2>1. job[p].fd = "temp" /\ temp[TempOf(p)].form = "empty"
    BY <1>1, <1>4, <1>10 DEF WriteInv
  <2>2. temp' = [temp EXCEPT ![TempOf(p)] = Whole(new)] /\ file' = file
    BY <2>1 DEF Fill, FillThen, Overwritten
  <2>. QED  BY <1>1, <2>2
<1>11. WriteInv(p)'
  <2>1. TempOf(p)' = TempOf(p) /\ (Sure(p)' => Sure(p)) /\ (Stands(p)' => Stands(p) /\ Sure(p))
    BY <1>1, <1>3 DEF TempOf, Sure, Stands
  <2>2. Stands(p) => file[f].doc = job[p].read.doc
    BY <1>1, <1>4 DEF WriteInv, Writing
  <2>. QED  BY <1>3, <1>10, <2>1, <2>2 DEF WriteInv
<1>12. BackupInv(p)'
  BY <1>1, <1>3, <1>4 DEF BackupInv, Writing
<1>13. ASSUME NEW q \in Processes, q # p, job[q].at # "idle"
       PROVE  SameCommand(q) /\ SameFiles(q) /\ SameBackup(q)
  <2>1. (Sure(q)' => Sure(q)) /\ (Stands(q)' => Stands(q))
    BY <1>1, <1>2, <1>13 DEF Sure, Stands
  <2>2. Sure(q) => temp'[TempOf(q)] = temp[TempOf(q)]
    <3>1. ASSUME Sure(q) PROVE TempOf(q) # TempOf(p) /\ TempOf(q) \in TempNames
      BY <1>1, <1>13, <3>1, SureAlone, TempNamed DEF FullInv, Inv
    <3>. QED  BY <1>1, <1>6, <3>1
  <2>3. Stands(q) => file'[job[q].file] = file[job[q].file]
    <3>1. ASSUME Stands(q) PROVE job[q].file # f
      BY <1>1, <1>13, <3>1, NotSure DEF Stands
    <3>2. job[q].file \in Files
      BY DEF FullInv, Inv, Shape
    <3>. HIDE DEF f
    <3>. QED  BY <1>1, <1>6, <3>1, <3>2
  <2>. QED  BY <1>1, <1>2, <1>13, <2>1, <2>2, <2>3, Unmoved
<1>14. \A q \in Processes : q # p => SameCommand(q)
  BY <1>2 DEF SameCommand
<1>. QED  BY <1>1, <1>3, <1>8, <1>9, <1>11, <1>12, <1>13, <1>14, StepFull

\* Renaming: only commands on the same file lose what they opened.
LEMMA PublishFull == ASSUME FullInv, Inv', NEW p \in Processes, Publish(p) PROVE FullInv'
<1> DEFINE f == job[p].file
<1>1. /\ UNCHANGED <<backups, env, raced, now>> /\ job[p].at = "publish"
      /\ file' = [file EXCEPT ![f] = temp[TempOf(p)]]
      /\ temp' = [temp EXCEPT ![TempOf(p)] = Absent(f)]
      /\ DOMAIN file = Files /\ DOMAIN temp = TempNames /\ f \in Files
      /\ TempOf(p) \in TempNames /\ TempOf(p)[1] = f
  BY TempNamed, TempKind DEF Publish, FullInv, Inv, Shape
<1>2. /\ job'[p] = Idle
      /\ \A q \in Processes : q # p =>
           job'[q] = Replaced(job[q], f, TempOf(q) = TempOf(p))
  BY DEF Publish
<1>3. ContentInv'
  <2>1. \A g \in Files : file'[g].form \in {"absent", "empty", "whole", "mixed"}
                           /\ file'[g].doc \in Document(g)
    BY <1>1 DEF FullInv, ContentInv
  <2>2. \A t \in TempNames : temp'[t].form \in {"absent", "empty", "whole", "mixed"}
                               /\ temp'[t].doc \in Document(t[1])
    BY <1>1, BlankTyped DEF FullInv, ContentInv, Absent
  <2>. QED  BY <1>1, <2>1, <2>2 DEF FullInv, ContentInv
<1>4. job'[p].at = "idle"
  BY <1>2 DEF Idle
<1>5. CommandInv(p)' /\ WriteInv(p)' /\ BackupInv(p)'
  BY <1>4 DEF CommandInv, WriteInv, BackupInv, HasRead, Writing
<1>6. ASSUME NEW q \in Processes, q # p
      PROVE  SameCommand(q) /\ (job[q].at # "idle" => SameFiles(q) /\ SameBackup(q))
  <2>1. DOMAIN job[q] = DOMAIN Idle /\ job[q].file \in Files /\ WriteInv(q)
    BY DEF FullInv, Inv, Shape
  <2>2. \/ job'[q] = job[q]
        \/ job'[q] = [job[q] EXCEPT !.fd = "gone"]
        \/ job'[q] = [job[q] EXCEPT !.fd = "file"]
    BY <1>2, <1>6 DEF Replaced
  <2>3. SameCommand(q) /\ job'[q].overwritten = job[q].overwritten
        /\ job'[q].overlapped = job[q].overlapped
        /\ job'[q].fd \in {job[q].fd, "gone", "file"}
    BY <2>1, <2>2 DEF SameCommand, Idle
  <2>4. (Sure(q)' => Sure(q)) /\ (Stands(q)' => Stands(q))
    BY <1>1, <2>3 DEF Sure, Stands, SameCommand
  <2>5. ASSUME job[q].at # "idle", Sure(q)
        PROVE  job'[q].fd = job[q].fd /\ temp'[TempOf(q)] = temp[TempOf(q)]
    <3>1. TempOf(q) # TempOf(p) /\ TempOf(q) \in TempNames
      BY <1>1, <1>6, <2>5, SureAlone, TempNamed DEF FullInv, Inv
    <3>2. job[q].fd \in {"none", "temp"}
      BY <2>1, <2>5 DEF FullInv, Inv, Shape, WriteInv
    <3>3. job'[q] = job[q]
      BY <1>2, <1>6, <3>1, <3>2 DEF Replaced
    <3>. QED  BY <1>1, <3>1, <3>3
  <2>6. ASSUME job[q].at # "idle", Stands(q)
        PROVE  file'[job[q].file] = file[job[q].file]
    <3>1. job[q].file # f
      BY <1>1, <1>6, <2>6, NotSure DEF Stands
    <3>. QED  BY <1>1, <2>1, <3>1
  <2>7. ASSUME job[q].at # "idle"
        PROVE  SameFiles(q) /\ SameBackup(q)
    BY <1>1, <2>1, <2>3, <2>4, <2>5, <2>6, <2>7
       DEF SameFiles, SameBackup, SameCommand, WriteInv
  <2>. QED  BY <2>3, <2>7
<1>. QED  BY <1>1, <1>3, <1>4, <1>5, <1>6, StepFull

\* A command that stops leaves everything as it is.
LEMMA StopFull == ASSUME FullInv, Inv', NEW p \in Processes, Stop(p) PROVE FullInv'
<1>1. /\ UNCHANGED <<file, temp, backups, env, raced, now>> /\ job[p].at # "idle"
      /\ job'[p].at = "idle" /\ \A q \in Processes : q # p => job'[q] = job[q]
  BY DEF Stop, FullInv, Inv, Shape, Idle
<1>2. ContentInv'
  BY <1>1 DEF FullInv, ContentInv
<1>3. CommandInv(p)' /\ WriteInv(p)' /\ BackupInv(p)'
  BY <1>1 DEF CommandInv, WriteInv, BackupInv, HasRead, Writing
<1>. QED  BY <1>1, <1>2, <1>3, StepFull, Unmoved

\* An edit of a file that plain commands do not rely on.
LEMMA EditFull ==
  ASSUME FullInv, Inv', NEW f \in Files \ {"global"}, NEW c, Edit(f, c),
         c.form \in {"absent", "empty", "whole", "mixed"}, c.doc \in Document(f)
  PROVE  FullInv'
<1>1. /\ UNCHANGED <<temp, backups, env, raced, now>> /\ file' = [file EXCEPT ![f] = c]
      /\ DOMAIN file = Files
      /\ \A q \in Processes :
           job'[q] = IF q \in Running(f)
                     THEN [Replaced(job[q], f, FALSE) EXCEPT !.overlapped = TRUE] ELSE job[q]
  BY DEF Edit, FullInv, Inv, Shape
<1>2. ContentInv'
  BY <1>1 DEF FullInv, ContentInv
<1>3. ASSUME NEW q \in Processes
      PROVE  SameCommand(q) /\ (job[q].at # "idle" => SameFiles(q) /\ SameBackup(q))
  <2>1. DOMAIN job[q] = DOMAIN Idle /\ job[q].file \in Files /\ WriteInv(q)
    BY DEF FullInv, Inv, Shape
  <2>2. CASE q \in Running(f)
    <3>. DEFINE r == Replaced(job[q], f, FALSE)
    <3>1. r = job[q] \/ (r = [job[q] EXCEPT !.fd = "gone"] /\ job[q].fd = "file")
      <4>1. CASE job[q].file = f /\ job[q].fd = "file"
        BY <4>1, Zenon DEF Replaced
      <4>2. CASE ~ (job[q].file = f /\ job[q].fd = "file")
        BY <4>2, Zenon DEF Replaced
      <4>. QED  BY <4>1, <4>2
    <3>2. /\ r.at = job[q].at /\ r.file = job[q].file /\ r.key = job[q].key
          /\ r.value = job[q].value /\ r.remove = job[q].remove /\ r.read = job[q].read
          /\ r.new = job[q].new /\ r.stamp = job[q].stamp
          /\ r.overwritten = job[q].overwritten /\ DOMAIN r = DOMAIN Idle
          /\ r.fd = job[q].fd \/ (r.fd = "gone" /\ job[q].fd = "file")
      BY <2>1, <3>1 DEF Idle
    <3>. HIDE DEF r
    <3>3. job'[q] = [r EXCEPT !.overlapped = TRUE]
      BY <1>1, <2>2 DEF r
    <3>4. /\ SameCommand(q) /\ job'[q].overlapped
          /\ job'[q].overwritten = job[q].overwritten /\ job'[q].fd = r.fd
      BY <3>2, <3>3 DEF SameCommand, Idle
    <3>5. job[q].file = f /\ job[q].at # "idle" /\ job[q].file # "global"
      BY <2>2 DEF Running
    <3>6. ~ Stands(q)'
      BY <3>4, <3>5 DEF Stands, SameCommand
    <3>7. Sure(q)' => job[q].fd \in {"none", "temp"} \/ job[q].at # "fill"
      BY <1>1, <2>1, <3>4 DEF Sure, WriteInv, SameCommand
    <3>8. job[q].at # "fill" => job[q].fd = "none"
      BY DEF FullInv, Inv, Shape
    <3>9. SameFiles(q)
      BY <1>1, <2>1, <3>2, <3>4, <3>6, <3>7, <3>8 DEF SameFiles, WriteInv
    <3>. QED  BY <1>1, <3>4, <3>9 DEF SameBackup
  <2>3. CASE q \notin Running(f)
    <3>1. job'[q] = job[q] /\ (job[q].at # "idle" => job[q].file # f)
      BY <1>1, <2>3 DEF Running
    <3>2. job[q].at # "idle" => file'[job[q].file] = file[job[q].file]
      BY <1>1, <2>1, <3>1
    <3>. QED  BY <1>1, <2>1, <3>1, <3>2 DEF SameCommand, SameFiles, SameBackup, WriteInv
  <2>. QED  BY <2>2, <2>3
<1>4. OverlapInv'
  BY <1>1, <1>3, OverlapKept DEF FullInv, SameCommand
<1>5. \A q \in Processes : CommandInv(q)' /\ WriteInv(q)' /\ BackupInv(q)'
  BY <1>1, <1>3, Framed DEF FullInv
<1>. QED  BY <1>2, <1>4, <1>5 DEF FullInv

\* Every step keeps it.
LEMMA FullInductive ==
  ASSUME FullInv, [Next]_vars
  PROVE  FullInv'
<1>0. Inv'
  BY Inductive DEF FullInv
<1>1. ASSUME NEW p \in Processes, BeginSet(p)
      PROVE  FullInv'
  <2>1. PICK f \in Configs, k \in Keys, v \in Values \ {Mistyped, Bad}, trust \in BOOLEAN :
          Begin(p, [Idle EXCEPT !.file = f, !.key = k, !.value = v, !.trust = trust])
    BY <1>1 DEF BeginSet
  <2>. DEFINE j == [Idle EXCEPT !.file = f, !.key = k, !.value = v, !.trust = trust]
  <2>2. DOMAIN j = DOMAIN Idle /\ j.file \in Files /\ j.key = k /\ j.value = v
    BY DEF Idle, Files
  <2>. HIDE DEF j
  <2>. QED  BY <1>0, <2>1, <2>2, BeginFull DEF j
<1>2. ASSUME NEW p \in Processes, BeginIntegrate(p)
      PROVE  FullInv'
  <2>1. PICK remove \in BOOLEAN : Begin(p, [Idle EXCEPT !.remove = remove])
    BY <1>2 DEF BeginIntegrate
  <2>. DEFINE j == [Idle EXCEPT !.remove = remove]
  <2>2. DOMAIN j = DOMAIN Idle /\ j.file \in Files /\ j.file \notin Configs
    BY DEF Idle, Files, Configs
  <2>. HIDE DEF j
  <2>. QED  BY <1>0, <2>1, <2>2, BeginFull DEF j
<1>3. CASE EditProject
  <2>1. PICK project \in ProjectFiles :
          Edit("project", IF project = NoKeys THEN Absent("project") ELSE Whole(project))
    BY <1>3 DEF EditProject
  <2>. DEFINE c == IF project = NoKeys THEN Absent("project") ELSE Whole(project)
  <2>2. "project" \in Files \ {"global"}
    BY DEF Files, Configs
  <2>3. project \in Document("project") /\ Blank("project") \in Document("project")
    BY <2>2, KeysTyped, BlankTyped DEF Document
  <2>4. c.form \in {"absent", "empty", "whole", "mixed"} /\ c.doc \in Document("project")
    BY <2>3 DEF Absent, Whole
  <2>. HIDE DEF c
  <2>. QED  BY <1>0, <2>1, <2>2, <2>4, EditFull DEF c
<1>4. CASE EditSettings
  <2>1. file["settings"].doc \in Groups
    BY DEF FullInv, ContentInv, Files, Document
  <2>2. PICK doc \in Groups : Edit("settings", Whole(doc))
    <3>. DEFINE groups == file["settings"].doc
    <3>1. \A g \in SUBSET Foreign : Append(groups, g) \in Groups
      BY <2>1 DEF Groups, Hooks
    <3>2. \A i \in DOMAIN groups, h \in Hooks :
            [groups EXCEPT ![i] = IF h \in @ THEN @ \ {h} ELSE @ \cup {h}] \in Groups
      BY <2>1, ExceptSeq DEF Groups
    <3>. HIDE DEF groups
    <3>3. \/ \E g \in SUBSET Foreign : Edit("settings", Whole(Append(groups, g)))
          \/ \E i \in DOMAIN groups, h \in Hooks :
               Edit("settings", Whole([groups EXCEPT ![i] =
                                         IF h \in @ THEN @ \ {h} ELSE @ \cup {h}]))
      BY <1>4 DEF EditSettings, groups
    <3>. QED  BY <3>1, <3>2, <3>3
  <2>3. "settings" \in Files \ {"global"}
    BY DEF Files, Configs
  <2>4. Whole(doc).form = "whole" /\ Whole(doc).doc = doc /\ doc \in Document("settings")
    BY DEF Whole, Document
  <2>. QED  BY <1>0, <2>2, <2>3, <2>4, EditFull
<1>5. CASE Tick
  <2>1. UNCHANGED <<file, temp, backups, env, job, raced>> /\ now' = now + 1
    BY <1>5 DEF Tick
  <2>2. ContentInv'
    BY <2>1 DEF FullInv, ContentInv
  <2>3. \A q \in Processes : SameCommand(q) /\ (job[q].at # "idle" => SameFiles(q) /\ SameBackup(q))
    BY <2>1 DEF FullInv, WriteInv, SameCommand, SameFiles, SameBackup
  <2>4. OverlapInv'
    BY <2>1 DEF FullInv, OverlapInv
  <2>. QED  BY <1>0, <2>1, <2>2, <2>3, <2>4, Framed DEF FullInv
<1>6. CASE UNCHANGED vars
  <2>1. UNCHANGED <<file, temp, backups, env, job, raced, now>>
    BY <1>6 DEF vars
  <2>2. ContentInv' /\ OverlapInv'
    BY <2>1 DEF FullInv, ContentInv, OverlapInv
  <2>3. \A q \in Processes : SameCommand(q) /\ (job[q].at # "idle" => SameFiles(q) /\ SameBackup(q))
    BY <2>1 DEF FullInv, WriteInv, SameCommand, SameFiles, SameBackup
  <2>. QED  BY <1>0, <2>1, <2>2, <2>3, Framed DEF FullInv
<1>. QED
  BY <1>0, <1>1, <1>2, <1>3, <1>4, <1>5, <1>6, ReadFull, BackupFull, OpenFull, FillFull,
     PublishFull, StopFull DEF Next

-----------------------------------------------------------------------------
(* Theorems about the commands.                                            *)

\* The full invariant holds in every reachable state.
THEOREM CommandsInvariant == Spec => []FullInv
<1>1. Init => FullInv
  BY FullInitially
<1>2. FullInv /\ [Next]_vars => FullInv'
  BY FullInductive
<1>. QED  BY <1>1, <1>2, PTL DEF Spec

\* Files, temporary files and backups keep the documents of their kind, and a
\* process has an open file only while it writes.
THEOREM TypeCorrect == Spec => []TypeOK
<1>1. FullInv => TypeOK
  <2> SUFFICES ASSUME FullInv
               PROVE  TypeOK
    OBVIOUS
  <2>1. \A f \in Configs : /\ f \in Files /\ <<f, NoProcess>> \in TempNames
                           /\ <<f, NoProcess>>[1] = f /\ Document(f) = Configuration
    BY DEF Files, Configs, TempNames, Document
  <2>2. "settings" \in Files /\ Document("settings") = Seq(SUBSET Hooks)
    BY DEF Files, Document, Groups
  <2>3. \A p \in Processes :
          /\ job[p].at \in {"idle", "read", "backup", "open", "fill", "publish"}
          /\ job[p].fd \in {"none", "temp", "file", "gone"}
          /\ job[p].fd # "none" => job[p].at = "fill"
    BY DEF FullInv, Inv, Shape, WriteInv
  <2>4. \A f \in Configs : file[f].doc \in Configuration /\ temp[<<f, NoProcess>>].doc \in Configuration
    BY <2>1 DEF FullInv, ContentInv
  <2>. QED  BY <2>2, <2>3, <2>4 DEF FullInv, Inv, Shape, ContentInv, TypeOK, Groups
<1>. QED  BY <1>1, CommandsInvariant, PTL

\* What is renamed over the file is what the command made of what it read, if
\* the command is sure of its temporary file.
LEMMA Published ==
  ASSUME FullInv, NEW p \in Processes, Publish(p), Sure(p)
  PROVE  /\ file' = [file EXCEPT ![job[p].file] = Whole(job[p].new)]
         /\ file'[job[p].file] = Whole(job[p].new)
         /\ job[p].new = New(job[p], job[p].read.doc)
         /\ job[p].read.doc \in Document(job[p].file) /\ job[p].file \in Files
         /\ env' = env /\ job[p].at = "publish"
<1>1. CommandInv(p) /\ WriteInv(p) /\ DOMAIN file = Files /\ job[p].file \in Files
  BY DEF FullInv, Inv, Shape
<1>2. /\ job[p].at = "publish" /\ env' = env
      /\ file' = [file EXCEPT ![job[p].file] = temp[TempOf(p)]]
  BY DEF Publish
<1>. QED  BY <1>1, <1>2 DEF WriteInv, CommandInv, HasRead

\* The settings that an integration replaces are in the backup it wrote before
\* it wrote anything else, if they are still as it has read them and no other
\* integration took the name of the backup in its millisecond.
THEOREM ReplacedSettingsAreKept == Spec => ReplacedIsBackedUp
<1>1. ASSUME FullInv, NEW p \in Processes, Publish(p), job[p].file = "settings",
             file["settings"].form = "whole", file["settings"] = job[p].read,
             ~ job[p].overwritten
      PROVE  \E t \in DOMAIN backups : backups[t] = file["settings"].doc
  <2>1. job[p].at = "publish" /\ BackupInv(p)
    BY <1>1 DEF Publish, FullInv
  <2>. QED  BY <1>1, <2>1 DEF BackupInv, Writing
<1>2. FullInv /\ [Next]_vars =>
        [\A p \in Processes :
           /\ Publish(p) /\ job[p].file = "settings" /\ file["settings"].form = "whole"
           /\ file["settings"] = job[p].read /\ ~ job[p].overwritten
           => \E t \in DOMAIN backups : backups[t] = file["settings"].doc]_vars
  BY <1>1
<1>. QED  BY <1>2, CommandsInvariant, PTL DEF Spec, ReplacedIsBackedUp

\* A config set that overlapped nothing writes the file it has read with its
\* own key changed.
LEMMA SetChangesItsKey ==
  ASSUME FullInv, NEW p \in Processes, Publish(p), ~ job[p].overlapped,
         NEW f \in Configs, f = job[p].file
  PROVE  /\ file'[f].doc = [file[f].doc EXCEPT ![job[p].key] = job[p].value]
         /\ job[p].key \in Keys /\ job[p].value \in Values \ {Mistyped, Bad}
<1>1. /\ file'[f] = Whole(New(job[p], job[p].read.doc)) /\ job[p].at = "publish"
      /\ WriteInv(p) /\ CommandInv(p) /\ Stands(p)
  BY Published DEF Sure, Stands, FullInv
<1>2. file[f].doc = job[p].read.doc
  BY <1>1 DEF WriteInv, Writing
<1>3. f # "settings"
  BY DEF Configs
<1>. QED  BY <1>1, <1>2, <1>3 DEF Whole, New, CommandInv

\* A config set changes its key alone.  An integration adds our hook once and
\* keeps every group of others, or removes it and loses of the groups of
\* others those without a hook alone.
THEOREM CommandsChangeOnlyTheirOwn == Spec => ChangesOnlyItsOwn
<1>1. ASSUME FullInv, NEW p \in Processes, Publish(p), job[p].file = "settings",
             file["settings"].doc = job[p].read.doc
      PROVE  /\ Others(file["settings"].doc') = IF job[p].remove
                                                THEN OthersWithHooks(file["settings"].doc)
                                                ELSE Others(file["settings"].doc)
             /\ Copies(file["settings"].doc') = IF job[p].remove THEN 0 ELSE 1
  <2>. DEFINE doc == job[p].read.doc
  <2>1. raced \subseteq Configs /\ "settings" \notin Configs
    BY <1>1 DEF FullInv, Inv, Shape, Configs
  <2>2. /\ file'["settings"].doc = New(job[p], doc) /\ doc \in Groups
        /\ job[p].at = "publish" /\ CommandInv(p)
    <3>1. Sure(p) /\ CommandInv(p)
      BY <1>1, <2>1 DEF Sure, FullInv
    <3>2. /\ file'["settings"] = Whole(New(job[p], doc)) /\ job[p].at = "publish"
          /\ doc \in Document("settings")
      BY <1>1, <3>1, Published
    <3>. QED  BY <3>1, <3>2 DEF Whole, Document
  <2>3. New(job[p], doc) # doc
    BY <1>1, <2>2 DEF CommandInv, HasRead
  <2>4. CASE job[p].remove
    BY <1>1, <2>2, <2>4, RemoveForeign DEF New
  <2>5. CASE ~ job[p].remove
    <3>1. New(job[p], doc) = InstallOurs(doc) /\ ~ HasOurs(doc)
      BY <1>1, <2>3, <2>5 DEF New, InstallOurs
    <3>. QED  BY <1>1, <2>2, <2>5, <3>1, InstallForeign
  <2>. QED  BY <2>4, <2>5
<1>2. FullInv /\ [Next]_vars =>
        [\A p \in Processes : Publish(p) =>
           LET j == job[p]
               old == file["settings"].doc
               new == file["settings"].doc'
           IN
           IF j.file = "settings"
           THEN old = j.read.doc =>
                  /\ Others(new) = IF j.remove THEN OthersWithHooks(old) ELSE Others(old)
                  /\ Copies(new) = IF j.remove THEN 0 ELSE 1
           ELSE ~ j.overlapped =>
                  \A f \in Configs : f = j.file =>
                    file'[f].doc = [file[f].doc EXCEPT ![j.key] = j.value]]_vars
  BY <1>1, SetChangesItsKey
<1>. QED  BY <1>2, CommandsInvariant, PTL DEF Spec, ChangesOnlyItsOwn

\* A config set that overlapped nothing leaves a configuration that still
\* loads for who could load it: the value it stores is one its key accepts.
THEOREM SetsNeverLockOut == Spec => SetNeverLocksOut
<1>1. ASSUME FullInv, NEW p \in Processes, NEW f \in Configs, NEW trust \in BOOLEAN,
             Publish(p), ~ job[p].overlapped, job[p].file = f, Loads(f, trust)
      PROVE  Loads(f, trust)'
  <2>. DEFINE key == job[p].key
              value == job[p].value
  <2>1. /\ file' = [file EXCEPT ![f] = Whole(job[p].new)] /\ env' = env
        /\ file'[f] = Whole(job[p].new) /\ DOMAIN file = Files /\ f \in Files
    BY <1>1, Published DEF Sure, FullInv, Inv, Shape
  <2>2. /\ file'[f].doc = [file[f].doc EXCEPT ![key] = value]
        /\ key \in Keys /\ value \in Values \ {Mistyped, Bad}
    BY <1>1, SetChangesItsKey
  <2>3. \A g \in Configs : g # f => file'[g] = file[g]
    BY <2>1
  <2>4. \A g \in Configs : file[g].doc \in Configuration
    BY <1>1 DEF FullInv, ContentInv, Document, Files, Configs
  <2>. HIDE DEF key, value
  <2>5. \A g \in Configs : Readable(g)'
    BY <1>1, <2>1, <2>3 DEF Loads, Readable, Whole
  <2>6. ProjectAccepted(f, trust)'
    BY <1>1, <2>1, <2>3 DEF Loads, ProjectAccepted, Whole, Configs
  <2>7. ASSUME NEW k \in Keys
        PROVE  Merged(k)' # Mistyped /\ Effective(k)' # Bad
    <3>1. \A g \in Configs : file'[g].doc[k] \in {file[g].doc[k], value}
      BY <2>2, <2>3, <2>4 DEF Configuration
    <3>2. Merged(k) # Mistyped /\ Effective(k) # Bad
      BY <1>1 DEF Loads
    <3>3. ASSUME NEW g \in Configs, g # f
          PROVE  file'[g].doc[k] = file[g].doc[k]
      BY <2>3, <3>3
    <3>4. k = key => file'[f].doc[k] = value
      BY <2>2, <2>4 DEF Configuration
    <3>5. k # key => file'[f].doc[k] = file[f].doc[k]
      BY <2>2, <2>4 DEF Configuration
    <3>6. value \notin {Mistyped, Bad} /\ value # Unset /\ Default \notin {Mistyped, Bad}
      BY <2>2, ValuesApart
    <3>7. f \in {"global", "project"} /\ "global" \in Configs /\ "project" \in Configs
      BY DEF Configs
    <3>8. Merged(k)' \in {Merged(k), value}
      BY <3>3, <3>4, <3>5, <3>6, <3>7 DEF Merged
    <3>. QED  BY <2>1, <3>2, <3>6, <3>8 DEF Effective
  <2>. QED  BY <2>5, <2>6, <2>7 DEF Loads
<1>2. FullInv /\ [Next]_vars =>
        [\A p \in Processes, f \in Configs, trust \in BOOLEAN :
           (/\ Publish(p) /\ ~ job[p].overlapped
            /\ job[p].file = f /\ job[p].trust = trust /\ Loads(f, trust))
           => Loads(f, trust)']_vars
  BY <1>1
<1>. QED  BY <1>2, CommandsInvariant, PTL DEF Spec, SetNeverLocksOut

\* Without a race, only a config set on the global file changes it.
LEMMA GlobalChanges ==
  ASSUME FullInv, [Next]_vars, "global" \notin raced, file'["global"] # file["global"]
  PROVE  \E p \in Processes : Publish(p) /\ job[p].file = "global"
<1>1. "global" \in Files /\ DOMAIN file = Files
  BY DEF Files, Configs, FullInv, Inv, Shape
<1>2. ASSUME NEW p \in Processes, NEW j, Begin(p, j) PROVE file' = file
  BY <1>2 DEF Begin
<1>3. ASSUME NEW p \in Processes, BeginSet(p) \/ BeginIntegrate(p) \/ Read(p) \/ Backup(p)
                                    \/ Open(p) \/ Stop(p)
      PROVE  file' = file
  BY <1>2, <1>3 DEF BeginSet, BeginIntegrate, Read, Backup, Open, Stop
<1>4. ASSUME NEW p \in Processes, Fill(p) PROVE file'["global"] = file["global"]
  <2>1. CASE job[p].file = "global"
    <3>1. job[p].fd = "temp"
      BY <1>4, <2>1 DEF Fill, FillThen, FullInv, WriteInv, Sure
    <3>. QED  BY <1>4, <3>1 DEF Fill, FillThen
  <2>2. CASE job[p].file # "global"
    BY <1>1, <1>4, <2>2 DEF Fill, FillThen
  <2>. QED  BY <2>1, <2>2
<1>5. ASSUME NEW p \in Processes, Publish(p), job[p].file # "global"
      PROVE  file'["global"] = file["global"]
  BY <1>1, <1>5 DEF Publish
<1>6. ASSUME EditProject \/ EditSettings PROVE file'["global"] = file["global"]
  <2>1. ASSUME NEW f, NEW c, Edit(f, c), f # "global" PROVE file'["global"] = file["global"]
    BY <1>1, <2>1 DEF Edit
  <2>. QED  BY <1>6, <2>1 DEF EditProject, EditSettings
<1>7. ASSUME Tick \/ UNCHANGED vars PROVE file' = file
  BY <1>7 DEF Tick, vars
<1>. QED  BY <1>3, <1>4, <1>5, <1>6, <1>7 DEF Next

\* No step changes the environment.
LEMMA EnvironmentStays == [Next]_vars => env' = env
<1>1. ASSUME NEW p \in Processes
      PROVE  /\ BeginSet(p) \/ BeginIntegrate(p) => env' = env
             /\ Read(p) \/ Backup(p) \/ Open(p) \/ Fill(p) \/ Publish(p) \/ Stop(p) => env' = env
  <2>1. ASSUME NEW j, Begin(p, j) PROVE env' = env
    BY <2>1 DEF Begin
  <2>2. BeginSet(p) \/ BeginIntegrate(p) => env' = env
    BY <2>1 DEF BeginSet, BeginIntegrate
  <2>3. Read(p) \/ Backup(p) \/ Open(p) \/ Fill(p) \/ Publish(p) \/ Stop(p) => env' = env
    BY DEF Read, Backup, Open, Fill, FillThen, Publish, Stop
  <2>. QED  BY <2>2, <2>3
<1>2. ASSUME NEW f, NEW c, Edit(f, c) PROVE env' = env
  BY <1>2 DEF Edit
<1>3. EditProject \/ EditSettings => env' = env
  BY <1>2 DEF EditProject, EditSettings
<1>4. Tick \/ UNCHANGED vars => env' = env
  BY DEF Tick, vars
<1>. QED  BY <1>1, <1>3, <1>4 DEF Next

\* What plain commands use for an unsafe key is changed by a config set of
\* that key on the global file and by nothing else.
THEOREM UnsafeKeysSetByName == Spec => UnsafeOnlySetByName
<1>1. ASSUME FullInv, [Next]_vars, NEW k \in Keys \ Safe, Loads("global", FALSE),
             Loads("global", FALSE)', "global" \notin raced, Effective(k)' # Effective(k)
      PROVE  \E p \in Processes : Publish(p) /\ job[p].file = "global" /\ job[p].key = k
  <2>1. file["project"].doc[k] = Unset /\ file'["project"].doc[k] = Unset
    BY <1>1 DEF Loads, ProjectAccepted
  <2>2. Merged(k)' # Merged(k)
    BY <1>1, EnvironmentStays DEF Effective
  <2>3. file'["global"].doc[k] # file["global"].doc[k]
    BY <2>1, <2>2 DEF Merged
  <2>4. PICK p \in Processes : Publish(p) /\ job[p].file = "global"
    BY <1>1, <2>3, GlobalChanges
  <2>5. Sure(p) /\ Stands(p) /\ WriteInv(p) /\ CommandInv(p)
    BY <1>1, <2>4 DEF Sure, Stands, Configs, FullInv
  <2>6. /\ file'["global"] = Whole(New(job[p], job[p].read.doc)) /\ job[p].at = "publish"
    BY <1>1, <2>4, <2>5, Published
  <2>7. file["global"].doc = job[p].read.doc
    BY <2>4, <2>5, <2>6 DEF WriteInv, Writing
  <2>8. file'["global"].doc = [file["global"].doc EXCEPT ![job[p].key] = job[p].value]
    BY <2>4, <2>6, <2>7 DEF Whole, New
  <2>9. file["global"].doc \in Configuration
    BY <1>1 DEF FullInv, ContentInv, Document, Files, Configs
  <2>10. job[p].key = k
    BY <2>3, <2>8, <2>9 DEF Configuration
  <2>. QED  BY <2>4, <2>10
<1>2. FullInv /\ [Next]_vars =>
        [\A k \in Keys \ Safe :
           (/\ Loads("global", FALSE) /\ Loads("global", FALSE)' /\ "global" \notin raced
            /\ Effective(k)' # Effective(k))
           => \E p \in Processes : Publish(p) /\ job[p].file = "global" /\ job[p].key = k]_vars
  BY <1>1
<1>. QED  BY <1>2, CommandsInvariant, PTL DEF Spec, UnsafeOnlySetByName
=============================================================================
