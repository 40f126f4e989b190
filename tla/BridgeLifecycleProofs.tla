------------------------ MODULE BridgeLifecycleProofs ------------------------
(***************************************************************************)
(* Proofs about BridgeLifecycle for any number of cb processes, sessions,  *)
(* agents and commands.                                                    *)
(*                                                                         *)
(* The invariant Inv has four parts.  Every log is sound (LogInv): keys    *)
(* are distinct, the records of a transcript follow each other and a       *)
(* handoff event comes after what its package covers.  Every checkpoint    *)
(* row names its event (CheckpointInv).  Every job has in the log what its *)
(* place in the command promises (JobInv); what HandoffIsCurrent needs of  *)
(* it holds while no two readings of the clock are equal.  Then a          *)
(* continuation has nothing in the log under the mark it is about to use   *)
(* (Unrecorded), because no two continuations carry one stamp (Stamps).    *)
(*                                                                         *)
(* Logs only grow at their ends, so what one command relies on survives    *)
(* what the others append: JobStays, CheckpointsStay and Appending.  Each  *)
(* action has a lemma that gives the new job and the batch to Quiet, Calm  *)
(* or Adding.                                                              *)
(*                                                                         *)
(* A second invariant, ExitInv, follows the record of an exit: nothing is  *)
(* under its mark that its command has not put there, and what the command *)
(* put there is in order.  For that no two commands may carry one mark.    *)
(* Two continuations do when they store one package, so the theorems about *)
(* the exits are of the behaviours with NoTwins, and of the instances in   *)
(* which processes continue to different agents.                           *)
(***************************************************************************)
EXTENDS BridgeLifecycle, WellFoundedInduction, SequenceTheorems, TLAPS

\* Every set of numbers has a least one.
LEMMA LeastNumber ==
  ASSUME NEW T \in SUBSET Nat, T # {}
  PROVE  \E m \in T : \A n \in T : m <= n
<1>1. PICK m \in T : \A n \in T : <<n, m>> \notin OpToRel(<, Nat)
  BY NatLessThanWellFounded, WFMin, Zenon
<1>2. ASSUME NEW n \in T, n < m PROVE FALSE
  <2>1. <<n, m>> \in OpToRel(<, Nat)
    BY <1>2, Zenon DEF OpToRel
  <2>. QED  BY <1>1, <2>1, Zenon
<1>. QED  BY <1>2

\* Induction on sets of numbers.
LEMMA Induction ==
  ASSUME NEW S, 0 \in S, \A n \in Nat : n \in S => n + 1 \in S
  PROVE  \A n \in Nat : n \in S
<1>1. SUFFICES ASSUME Nat \ S # {} PROVE FALSE
  OBVIOUS
<1>2. PICK m \in Nat \ S : \A n \in Nat \ S : m <= n
  BY <1>1, LeastNumber
<1>3. m - 1 \in Nat /\ m - 1 \in S
  BY <1>2
<1>. QED  BY <1>2, <1>3

\* The lists an append goes through.
Loop(old, events, n, f) ==
  f = [k \in 0 .. n |-> IF k = 0 THEN old
                        ELSE IF HasKey(f[k - 1], events[k].key) THEN f[k - 1]
                        ELSE Append(f[k - 1], events[k])]

\* Every prefix of a batch has such lists.
LEMMA LoopDefined ==
  ASSUME NEW old, NEW events
  PROVE  \A n \in Nat : \E f : Loop(old, events, n, f)
<1>. DEFINE S == {n \in Nat : \E f : Loop(old, events, n, f)}
<1>1. 0 \in S
  <2>. DEFINE f == [k \in 0 .. 0 |-> old]
  <2>1. Loop(old, events, 0, f)
    BY DEF Loop
  <2>. QED  BY <2>1
<1>2. ASSUME NEW n \in Nat, n \in S PROVE n + 1 \in S
  <2>1. PICK f : Loop(old, events, n, f)
    BY <1>2
  <2>. DEFINE g == [k \in 0 .. n + 1 |-> IF k = n + 1
                      THEN IF HasKey(f[n], events[n + 1].key) THEN f[n]
                           ELSE Append(f[n], events[n + 1])
                      ELSE f[k]]
  <2>2. \A k \in 0 .. n : g[k] = f[k]
    OBVIOUS
  <2>3. \A k \in 0 .. n + 1 : g[k] = IF k = 0 THEN old
                        ELSE IF HasKey(g[k - 1], events[k].key) THEN g[k - 1]
                        ELSE Append(g[k - 1], events[k])
    <3>1. \A k \in 0 .. n : f[k] = IF k = 0 THEN old
                        ELSE IF HasKey(f[k - 1], events[k].key) THEN f[k - 1]
                        ELSE Append(f[k - 1], events[k])
      BY <2>1 DEF Loop
    <3>2. \A k \in 1 .. n : k - 1 \in 0 .. n
      OBVIOUS
    <3>. QED  BY <3>1, <3>2, <2>2
  <2>4. Loop(old, events, n + 1, g)
    BY <2>3 DEF Loop
  <2>. QED  BY <2>4
<1>3. \A n \in Nat : n \in S
  <2>. HIDE DEF S
  <2>. QED  BY <1>1, <1>2, Induction
<1>. QED  BY <1>3

\* append_events goes through them.
LEMMA AppendedIsLoop ==
  ASSUME NEW old, NEW events, Len(events) \in Nat
  PROVE  \E f : Loop(old, events, Len(events), f) /\ Appended(old, events) = f[Len(events)]
<1>. DEFINE after == CHOOSE f : Loop(old, events, Len(events), f)
<1>1. Loop(old, events, Len(events), after)
  BY LoopDefined
<1>2. Appended(old, events) = after[Len(events)]
  BY DEF Appended, Loop
<1>. QED  BY <1>1, <1>2

-----------------------------------------------------------------------------
Entry == [key : Keys, version : Nat]

Distinct(l) == \A i, h \in 1 .. Len(l) : l[h].key = l[i].key => h = i

\* What the first n INSERTs of a batch make of a log.
Grown(old, events, n, new) ==
  /\ new \in Seq(Entry)
  /\ Len(old) <= Len(new)
  /\ \A i \in 1 .. Len(old) : new[i] = old[i]
  /\ \A i \in Len(old) + 1 .. Len(new) : \E k \in 1 .. n :
       /\ new[i] = events[k] /\ ~ HasKey(old, events[k].key)
       /\ \A h \in 1 .. k - 1 : \E j \in 1 .. i - 1 : new[j].key = events[h].key
  /\ \A k \in 1 .. n : \E i \in 1 .. Len(new) : new[i].key = events[k].key
  /\ Distinct(old) => Distinct(new)

\* An event whose key is stored changes nothing.
LEMMA GrownStays ==
  ASSUME NEW old \in Seq(Entry), NEW events \in Seq(Entry), NEW n \in Nat, n < Len(events),
         NEW l, Grown(old, events, n, l), HasKey(l, events[n + 1].key)
  PROVE  Grown(old, events, n + 1, l)
<1>. DEFINE e == events[n + 1]
<1>1. l \in Seq(Entry) /\ DOMAIN l = 1 .. Len(l) /\ Len(l) \in Nat
  BY DEF Grown
<1>2. PICK m \in 1 .. Len(l) : l[m].key = e.key
  BY <1>1 DEF HasKey
<1>3. \A i \in Len(old) + 1 .. Len(l) : \E k \in 1 .. n + 1 :
       /\ l[i] = events[k] /\ ~ HasKey(old, events[k].key)
       /\ \A h \in 1 .. k - 1 : \E j \in 1 .. i - 1 : l[j].key = events[h].key
  <2>. TAKE i \in Len(old) + 1 .. Len(l)
  <2>1. PICK k \in 1 .. n :
          /\ l[i] = events[k] /\ ~ HasKey(old, events[k].key)
          /\ \A h \in 1 .. k - 1 : \E j \in 1 .. i - 1 : l[j].key = events[h].key
    BY DEF Grown
  <2>2. k \in 1 .. n + 1
    OBVIOUS
  <2>. QED  BY <2>1, <2>2
<1>4. \A k \in 1 .. n + 1 : \E i \in 1 .. Len(l) : l[i].key = events[k].key
  <2>. TAKE k \in 1 .. n + 1
  <2>1. CASE k = n + 1
    BY <1>2, <2>1
  <2>2. CASE k \in 1 .. n
    BY <2>2 DEF Grown
  <2>. QED  BY <2>1, <2>2
<1>. QED  BY <1>1, <1>3, <1>4 DEF Grown

\* An event whose key is new is appended.
LEMMA GrownByOne ==
  ASSUME NEW old \in Seq(Entry), NEW events \in Seq(Entry), NEW n \in Nat, n < Len(events),
         NEW l, Grown(old, events, n, l), ~ HasKey(l, events[n + 1].key)
  PROVE  Grown(old, events, n + 1, Append(l, events[n + 1]))
<1>. DEFINE e == events[n + 1]
            g == Append(l, e)
<1>1. l \in Seq(Entry) /\ DOMAIN l = 1 .. Len(l) /\ Len(l) \in Nat /\ Len(old) <= Len(l)
      /\ \A i \in 1 .. Len(old) : l[i] = old[i]
  BY DEF Grown
<1>2. e \in Entry
  OBVIOUS
<1>3. g \in Seq(Entry) /\ Len(g) = Len(l) + 1 /\ g[Len(l) + 1] = e
      /\ \A i \in 1 .. Len(l) : g[i] = l[i]
  BY <1>1, <1>2
<1>4. ~ HasKey(old, e.key)
  <2>1. SUFFICES ASSUME NEW i \in DOMAIN old, old[i].key = e.key PROVE FALSE
    BY DEF HasKey
  <2>2. i \in 1 .. Len(old) /\ i \in DOMAIN l /\ l[i].key = e.key
    BY <1>1, <2>1
  <2>. QED  BY <2>2 DEF HasKey
<1>. HIDE DEF g
<1>5. \A i \in Len(old) + 1 .. Len(g) : \E k \in 1 .. n + 1 :
       /\ g[i] = events[k] /\ ~ HasKey(old, events[k].key)
       /\ \A h \in 1 .. k - 1 : \E j \in 1 .. i - 1 : g[j].key = events[h].key
  <2>. TAKE i \in Len(old) + 1 .. Len(g)
  <2>1. CASE i = Len(l) + 1
    <3>1. ASSUME NEW h \in 1 .. n PROVE \E j \in 1 .. i - 1 : g[j].key = events[h].key
      <4>1. PICK j \in 1 .. Len(l) : l[j].key = events[h].key
        BY DEF Grown
      <4>. QED  BY <1>1, <1>3, <2>1, <4>1
    <3>2. n + 1 \in 1 .. n + 1 /\ (n + 1) - 1 = n
      OBVIOUS
    <3>. QED  BY <1>3, <1>4, <2>1, <3>1, <3>2
  <2>2. CASE i \in Len(old) + 1 .. Len(l)
    <3>1. PICK k \in 1 .. n :
            /\ l[i] = events[k] /\ ~ HasKey(old, events[k].key)
            /\ \A h \in 1 .. k - 1 : \E j \in 1 .. i - 1 : l[j].key = events[h].key
      BY <2>2 DEF Grown
    <3>2. k \in 1 .. n + 1
      OBVIOUS
    <3>3. g[i] = l[i] /\ \A j \in 1 .. i - 1 : g[j] = l[j]
      BY <1>1, <1>3, <2>2
    <3>. QED  BY <3>1, <3>2, <3>3
  <2>. QED  BY <1>1, <1>3, <2>1, <2>2
<1>6. \A k \in 1 .. n + 1 : \E i \in 1 .. Len(g) : g[i].key = events[k].key
  <2>. TAKE k \in 1 .. n + 1
  <2>1. CASE k = n + 1
    BY <1>1, <1>3, <2>1
  <2>2. CASE k \in 1 .. n
    <3>1. PICK i \in 1 .. Len(l) : l[i].key = events[k].key
      BY <2>2 DEF Grown
    <3>. QED  BY <1>1, <1>3, <3>1
  <2>. QED  BY <2>1, <2>2
<1>7. ASSUME Distinct(old) PROVE Distinct(g)
  <2>1. Distinct(l)
    BY <1>7 DEF Grown
  <2>2. \A i \in 1 .. Len(l) : l[i].key # e.key
    BY <1>1 DEF HasKey
  <2>. SUFFICES ASSUME NEW i \in 1 .. Len(g), NEW h \in 1 .. Len(g), g[h].key = g[i].key
                PROVE  h = i
    BY DEF Distinct
  <2>3. CASE i \in 1 .. Len(l) /\ h \in 1 .. Len(l)
    <3>1. l[h].key = l[i].key
      BY <1>3, <2>3
    <3>. QED  BY <2>1, <2>3, <3>1 DEF Distinct
  <2>4. CASE i \in 1 .. Len(l) /\ h = Len(l) + 1
    BY <1>1, <1>3, <2>2, <2>4
  <2>5. CASE i = Len(l) + 1 /\ h \in 1 .. Len(l)
    BY <1>1, <1>3, <2>2, <2>5
  <2>. QED  BY <1>1, <1>3, <2>3, <2>4, <2>5
<1>8. \A i \in 1 .. Len(old) : g[i] = old[i]
  BY <1>1, <1>3
<1>9. Len(old) <= Len(g)
  BY <1>1, <1>3
<1>10. Grown(old, events, n + 1, g)
  BY <1>3, <1>5, <1>6, <1>7, <1>8, <1>9 DEF Grown
<1>. QED  BY <1>10 DEF g

\* What append_events leaves in a log.
LEMMA AppendedGrows ==
  ASSUME NEW old \in Seq(Entry), NEW events \in Seq(Entry)
  PROVE  Grown(old, events, Len(events), Appended(old, events))
<1>1. PICK f : Loop(old, events, Len(events), f) /\ Appended(old, events) = f[Len(events)]
  BY AppendedIsLoop
<1>. DEFINE S == {n \in Nat : n <= Len(events) => Grown(old, events, n, f[n])}
<1>2. 0 \in S
  <2>1. f[0] = old
    BY <1>1 DEF Loop
  <2>. QED  BY <2>1 DEF Grown
<1>3. ASSUME NEW n \in Nat, n \in S PROVE n + 1 \in S
  <2>1. SUFFICES ASSUME n < Len(events) PROVE Grown(old, events, n + 1, f[n + 1])
    OBVIOUS
  <2>2. f[n + 1] = IF HasKey(f[n], events[n + 1].key) THEN f[n] ELSE Append(f[n], events[n + 1])
    <3>1. n + 1 \in 0 .. Len(events) /\ n + 1 # 0 /\ (n + 1) - 1 = n
      BY <2>1
    <3>. QED  BY <1>1, <3>1 DEF Loop
  <2>3. Grown(old, events, n, f[n])
    BY <1>3, <2>1
  <2>. QED  BY <2>1, <2>2, <2>3, GrownStays, GrownByOne
<1>4. \A n \in Nat : n \in S
  <2>. HIDE DEF S
  <2>. QED  BY <1>2, <1>3, Induction
<1>. QED  BY <1>1, <1>4

-----------------------------------------------------------------------------
Marks == [name : {"none", "initial", "pre-handoff", "run", "continue",
                  "checkpoint", "import"},
          stamp : Nat, package : Package \cup {NoPackage}]

\* The types of a job's fields, under names that the provers leave folded.
Places == {"idle", "before", "record", "refresh", "refreshed", "save", "handoff", "target",
           "activate", "launch", "capture", "events", "failures", "after", "reconcile", "link",
           "checkpoint", "row", "finalize", "summary", "export", "bundle"}
Names == {"none", "run", "continue", "checkpoint", "import"}
Numbers == Nat
Flags == BOOLEAN
Job == [pc : Places, command : Names, session : Sessions \cup {NoSession},
        source : Agents \cup {NoAgent}, target : Agents \cup {NoAgent}, stamp : Numbers,
        before : Numbers, after : Numbers, package : Package \cup {NoPackage},
        external : Externals \cup {NoExternal}, count : Numbers, sequence : Numbers,
        full : Flags, failures : Flags]

Logs == [Sessions -> Seq(Entry)]

Links == Seq([session : Sessions, external : Externals, full : BOOLEAN])
Rows == [session : Sessions, sequence : Nat, mark : Marks]

\* A session has an agent from the moment its row exists.
Statuses(of, by) ==
  /\ of \in [Sessions -> {"none", "active", "paused", "failed"}]
  /\ by \in [Sessions -> Agents \cup {NoAgent}]
  /\ \A s \in Sessions : of[s] = "none" <=> by[s] = NoAgent

Shape ==
  /\ Statuses(status, agent)
  /\ log \in Logs
  /\ links \in Links
  /\ checkpoints \subseteq Rows
  /\ handoffs \subseteq Package
  /\ project \in Nat /\ records \in [Externals -> Nat]
  /\ job \in [Processes -> Job] /\ clock \in Nat

\* Which command is where, and what it holds there.
Place(j) ==
  /\ j.pc # "idle" => j.session \in Sessions
  /\ j.pc \in {"refresh", "refreshed", "save", "handoff", "target", "activate"}
       => j.command = "continue"
  /\ j.pc \in {"export", "bundle"} => j.command = "import"
  /\ j.pc \in {"before", "record", "checkpoint"}
       => j.command \in {"run", "continue", "checkpoint"}
  /\ j.pc \in {"launch", "capture", "events", "failures", "after", "reconcile", "link",
               "finalize", "summary"} => j.command \in {"run", "continue"}
  /\ j.pc = "row" => j.command \in {"run", "checkpoint"}
  /\ j.pc # "idle" /\ j.command \in {"run", "continue"} => {j.source, j.target} \subseteq Agents
  /\ j.pc # "idle" /\ j.command = "import" => j.target \in Agents
  /\ j.pc \in {"export", "bundle", "refreshed", "capture", "events", "link"}
       => j.external \in Externals

\* What a command at work has already stored.
JobInv(j, l, stored) ==
  /\ Place(j)
  /\ ~ Ties /\ j.pc = "save" =>
       \E g \in 1 .. Len(l[j.session]) :
         /\ l[j.session][g].key = Key("git", FirstMark(j))
         /\ l[j.session][g].version = j.before
  /\ j.command = "continue" /\ j.pc \in {"handoff", "target", "activate", "launch"} =>
       /\ j.package \in stored /\ j.package.session = j.session
       /\ j.package.seen <= Len(l[j.session])
       /\ ~ Ties => \E g \in 1 .. j.package.seen :
            /\ l[j.session][g].key = Key("git", FirstMark(j))
            /\ l[j.session][g].version = j.package.version
  /\ j.pc \in {"link", "checkpoint"} =>
       \E g \in 1 .. Len(l[j.session]) : l[j.session][g].key = Key("git", MarkOf(j))
  /\ j.pc = "row" =>
       /\ j.sequence \in 1 .. Len(l[j.session])
       /\ l[j.session][j.sequence].key = Key("checkpoint", MarkOf(j))
       /\ \E g \in 1 .. j.sequence - 1 : l[j.session][g].key = Key("git", MarkOf(j))

\* A continuation records its first snapshot once, when its clock has told its
\* time from all others.
Unrecorded(j, l) ==
  ~ Ties /\ j.command = "continue" /\ j.pc = "record" =>
    \A s \in Sessions : \A i \in 1 .. Len(l[s]) : l[s][i].key # Key("git", FirstMark(j))

\* What the place of an event in its log says of what is stored.
EntryInv(s, events, i, stored, time) ==
  LET k == events[i].key IN
  /\ k.tag = "record" =>
       \A n \in 1 .. k.n - 1 : \E h \in 1 .. i - 1 :
         events[h].key = RecordKey(k.external, n, k.full)
  /\ k.tag = "handoff" =>
       k.mark.package \in stored /\ k.mark.package.session = s /\ k.mark.package.seen < i
  /\ k.mark.name = "pre-handoff" => k.mark.stamp <= time

LogInv(l, stored, time) ==
  \A s \in Sessions :
    /\ Distinct(l[s])
    /\ \A i \in 1 .. Len(l[s]) : EntryInv(s, l[s], i, stored, time)

CheckpointInv(rows, l) ==
  \A c \in rows :
    /\ c.sequence \in 1 .. Len(l[c.session])
    /\ l[c.session][c.sequence].key = Key("checkpoint", c.mark)
    /\ \E g \in 1 .. c.sequence - 1 : l[c.session][g].key = Key("git", c.mark)

\* Without ties the clock tells continuations apart that are about to record.
Stamps ==
  /\ \A p \in Processes : job[p].stamp <= clock
  /\ ~ Ties => \A p, q \in Processes :
       /\ p # q /\ job[p].pc = "record" /\ job[q].pc = "record"
       /\ job[p].command = "continue" /\ job[q].command = "continue"
       => job[p].stamp # job[q].stamp

Inv ==
  /\ Shape /\ Stamps
  /\ LogInv(log, handoffs, clock)
  /\ CheckpointInv(checkpoints, log)
  /\ \A p \in Processes : JobInv(job[p], log, handoffs) /\ Unrecorded(job[p], log)

\* Logs only grow at their ends.
Grows(l, m) ==
  \A s \in Sessions :
    Len(l[s]) <= Len(m[s]) /\ \A i \in 1 .. Len(l[s]) : m[s][i] = l[s][i]

-----------------------------------------------------------------------------
\* What a job relies on survives what is appended and stored.
LEMMA JobStays ==
  ASSUME NEW j \in Job, NEW l \in Logs, NEW m \in Logs, NEW g, NEW h,
         Grows(l, m), g \subseteq h, JobInv(j, l, g)
  PROVE  JobInv(j, m, h)
<1>1. CASE j.pc = "idle"
  BY <1>1 DEF JobInv, Place
<1>2. CASE j.pc # "idle"
  <2>. DEFINE s == j.session
  <2>1. s \in Sessions
    BY <1>2 DEF JobInv, Place
  <2>2. /\ Len(l[s]) \in Nat /\ Len(m[s]) \in Nat /\ Len(l[s]) <= Len(m[s])
        /\ \A i \in 1 .. Len(l[s]) : m[s][i] = l[s][i]
    BY <2>1 DEF Grows, Logs
  <2>3. ~ Ties /\ j.pc = "save" => \E i \in 1 .. Len(m[s]) :
           m[s][i].key = Key("git", FirstMark(j)) /\ m[s][i].version = j.before
    BY <2>2 DEF JobInv
  <2>4. j.command = "continue" /\ j.pc \in {"handoff", "target", "activate", "launch"} =>
          /\ j.package \in h /\ j.package.session = s /\ j.package.seen <= Len(m[s])
          /\ ~ Ties => \E i \in 1 .. j.package.seen :
               m[s][i].key = Key("git", FirstMark(j)) /\ m[s][i].version = j.package.version
    <3>1. SUFFICES ASSUME j.command = "continue",
                          j.pc \in {"handoff", "target", "activate", "launch"}
                   PROVE  /\ j.package \in h /\ j.package.session = s /\ j.package.seen <= Len(m[s])
                          /\ ~ Ties => \E i \in 1 .. j.package.seen :
                               /\ m[s][i].key = Key("git", FirstMark(j))
                               /\ m[s][i].version = j.package.version
      OBVIOUS
    <3>2. j.package \in g /\ j.package.session = s /\ j.package.seen <= Len(l[s])
      BY <3>1 DEF JobInv
    <3>3. j.package.seen \in Nat
      BY DEF Job, Package, NoPackage
    <3>4. ASSUME ~ Ties
          PROVE  \E i \in 1 .. j.package.seen :
                   m[s][i].key = Key("git", FirstMark(j)) /\ m[s][i].version = j.package.version
      <4>1. PICK i \in 1 .. j.package.seen :
              l[s][i].key = Key("git", FirstMark(j)) /\ l[s][i].version = j.package.version
        BY <3>1, <3>4 DEF JobInv
      <4>2. m[s][i] = l[s][i]
        BY <2>2, <3>2, <3>3
      <4>. QED  BY <4>1, <4>2
    <3>. QED  BY <2>2, <3>2, <3>3, <3>4
  <2>5. j.pc \in {"link", "checkpoint"} =>
          \E i \in 1 .. Len(m[s]) : m[s][i].key = Key("git", MarkOf(j))
    BY <2>2 DEF JobInv
  <2>6. ASSUME j.pc = "row"
        PROVE  /\ j.sequence \in 1 .. Len(m[s]) /\ m[s][j.sequence].key = Key("checkpoint", MarkOf(j))
               /\ \E i \in 1 .. j.sequence - 1 : m[s][i].key = Key("git", MarkOf(j))
    <3>1. j.sequence \in 1 .. Len(l[s]) /\ l[s][j.sequence].key = Key("checkpoint", MarkOf(j))
      BY <2>6 DEF JobInv
    <3>2. PICK i \in 1 .. j.sequence - 1 : l[s][i].key = Key("git", MarkOf(j))
      BY <2>6 DEF JobInv
    <3>3. i \in 1 .. Len(l[s]) /\ j.sequence \in 1 .. Len(m[s])
      BY <2>2, <3>1, <3>2
    <3>4. m[s][i] = l[s][i] /\ m[s][j.sequence] = l[s][j.sequence]
      BY <2>2, <3>1, <3>3
    <3>. QED  BY <3>1, <3>2, <3>3, <3>4
  <2>7. Place(j)
    BY DEF JobInv
  <2>. QED  BY <2>3, <2>4, <2>5, <2>6, <2>7 DEF JobInv
<1>. QED  BY <1>1, <1>2

\* A sound log stays sound while packages are stored and commands start.
LEMMA LogStays ==
  ASSUME NEW l, NEW g, NEW h, NEW t \in Nat, NEW u \in Nat, l \in Logs,
         g \subseteq h, t <= u, LogInv(l, g, t)
  PROVE  LogInv(l, h, u)
<1>1. ASSUME NEW s \in Sessions PROVE Distinct(l[s])
  BY DEF LogInv
<1>2. ASSUME NEW s \in Sessions, NEW i \in 1 .. Len(l[s]) PROVE EntryInv(s, l[s], i, h, u)
  <2>1. EntryInv(s, l[s], i, g, t)
    BY DEF LogInv
  <2>2. l[s][i] \in Entry
    BY DEF Logs
  <2>3. l[s][i].key \in Keys
    BY <2>2 DEF Entry
  <2>4. l[s][i].key.mark.stamp \in Nat
    BY <2>3 DEF Keys
  <2>. DEFINE k == l[s][i].key
  <2>5. k.tag = "record" =>
         \A n \in 1 .. k.n - 1 : \E x \in 1 .. i - 1 :
            l[s][x].key = RecordKey(k.external, n, k.full)
    BY <2>1 DEF EntryInv
  <2>6. k.tag = "handoff" =>
         k.mark.package \in h /\ k.mark.package.session = s /\ k.mark.package.seen < i
    BY <2>1 DEF EntryInv
  <2>7. k.mark.name = "pre-handoff" => k.mark.stamp <= u
    <3>1. k.mark.name = "pre-handoff" => k.mark.stamp <= t
      BY <2>1 DEF EntryInv
    <3>. QED  BY <3>1, <2>4
  <2>. QED  BY <2>5, <2>6, <2>7 DEF EntryInv
<1>. QED  BY <1>1, <1>2 DEF LogInv

\* The rows of the checkpoints survive what is appended.
LEMMA CheckpointsStay ==
  ASSUME NEW rows, rows \subseteq Rows,
         NEW l \in Logs, NEW m \in Logs, Grows(l, m), CheckpointInv(rows, l)
  PROVE  CheckpointInv(rows, m)
<1>. SUFFICES ASSUME NEW c \in rows
              PROVE  /\ c.sequence \in 1 .. Len(m[c.session])
                     /\ m[c.session][c.sequence].key = Key("checkpoint", c.mark)
                     /\ \E g \in 1 .. c.sequence - 1 : m[c.session][g].key = Key("git", c.mark)
  BY DEF CheckpointInv
<1>. DEFINE s == c.session
<1>1. s \in Sessions /\ c.sequence \in Nat
  BY DEF Rows
<1>2. /\ Len(l[s]) \in Nat /\ Len(m[s]) \in Nat /\ Len(l[s]) <= Len(m[s])
      /\ \A i \in 1 .. Len(l[s]) : m[s][i] = l[s][i]
  BY <1>1 DEF Grows, Logs
<1>3. /\ c.sequence \in 1 .. Len(l[s]) /\ l[s][c.sequence].key = Key("checkpoint", c.mark)
      /\ \E g \in 1 .. c.sequence - 1 : l[s][g].key = Key("git", c.mark)
  BY DEF CheckpointInv
<1>. HIDE DEF s
<1>4. m[s][c.sequence].key = Key("checkpoint", c.mark) /\ c.sequence \in 1 .. Len(m[s])
  BY <1>1, <1>2, <1>3
<1>5. PICK g \in 1 .. c.sequence - 1 : l[s][g].key = Key("git", c.mark)
  BY <1>3
<1>6. m[s][g].key = Key("git", c.mark)
  <2>1. g \in 1 .. Len(l[s])
    BY <1>1, <1>2, <1>3
  <2>. QED  BY <1>2, <1>5, <2>1
<1>. QED  BY <1>4, <1>5, <1>6 DEF s

-----------------------------------------------------------------------------
\* What a batch has to respect for the log of its session to stay as it should.
Orderly(s, events, size, stored, time) ==
  \A k \in 1 .. Len(events) :
    LET key == events[k].key IN
    /\ key.tag = "record" => \A n \in 1 .. key.n - 1 : \E h \in 1 .. k - 1 :
                                 events[h].key = RecordKey(key.external, n, key.full)
    /\ key.tag = "handoff" =>
         key.mark.package \in stored /\ key.mark.package.session = s /\ key.mark.package.seen <= size
    /\ key.mark.name = "pre-handoff" => key.mark.stamp <= time

\* An orderly batch leaves an orderly log.
LEMMA Appending ==
  ASSUME NEW l \in Logs, NEW m, NEW s \in Sessions, NEW events \in Seq(Entry),
         NEW g, NEW time, g \subseteq Package, LogInv(l, g, time),
         Orderly(s, events, Len(l[s]), g, time),
         m = [l EXCEPT ![s] = Appended(@, events)]
  PROVE  m \in Logs /\ Grows(l, m) /\ LogInv(m, g, time)
<1>. DEFINE new == Appended(l[s], events)
<1>1. l[s] \in Seq(Entry) /\ Len(l[s]) \in Nat
  BY DEF Logs
<1>2. Grown(l[s], events, Len(events), new)
  BY <1>1, AppendedGrows
<1>. HIDE DEF new
<1>3. m[s] = new /\ \A t \in Sessions : t # s => m[t] = l[t]
  BY DEF Logs, new
<1>4. new \in Seq(Entry) /\ Len(new) \in Nat /\ Len(l[s]) <= Len(new)
      /\ \A i \in 1 .. Len(l[s]) : new[i] = l[s][i]
  BY <1>2 DEF Grown
<1>5. m \in Logs
  BY <1>4 DEF Logs, new
<1>6. Grows(l, m)
  <2>1. ASSUME NEW t \in Sessions
        PROVE  Len(l[t]) <= Len(m[t]) /\ \A i \in 1 .. Len(l[t]) : m[t][i] = l[t][i]
    <3>1. CASE t = s
      BY <1>3, <1>4, <3>1
    <3>2. CASE t # s
      <4>1. Len(l[t]) \in Nat
        BY DEF Logs
      <4>. QED  BY <1>3, <3>2, <4>1
    <3>. QED  BY <3>1, <3>2
  <2>. QED  BY <2>1 DEF Grows
<1>7. ASSUME NEW i \in 1 .. Len(new) PROVE EntryInv(s, new, i, g, time)
  <2>. DEFINE key == new[i].key
  <2>1. CASE i \in 1 .. Len(l[s])
    <3>1. EntryInv(s, l[s], i, g, time) /\ new[i] = l[s][i]
      BY <1>4, <2>1 DEF LogInv
    <3>2. key.tag = "record" => \A n \in 1 .. key.n - 1 : \E h \in 1 .. i - 1 :
             new[h].key = RecordKey(key.external, n, key.full)
      <4>1. \A h \in 1 .. i - 1 : new[h] = l[s][h]
        BY <1>1, <1>4, <2>1
      <4>2. key.tag = "record" => \A n \in 1 .. key.n - 1 : \E h \in 1 .. i - 1 :
             l[s][h].key = RecordKey(key.external, n, key.full)
        BY <3>1 DEF EntryInv
      <4>. QED  BY <4>1, <4>2
    <3>3. key.tag = "handoff" =>
             key.mark.package \in g /\ key.mark.package.session = s /\ key.mark.package.seen < i
      BY <3>1 DEF EntryInv
    <3>4. key.mark.name = "pre-handoff" => key.mark.stamp <= time
      BY <3>1 DEF EntryInv
    <3>. QED  BY <3>2, <3>3, <3>4 DEF EntryInv
  <2>2. CASE i \in Len(l[s]) + 1 .. Len(new)
    <3>1. PICK k \in 1 .. Len(events) :
            /\ new[i] = events[k]
            /\ \A h \in 1 .. k - 1 : \E j \in 1 .. i - 1 : new[j].key = events[h].key
      BY <1>2, <2>2 DEF Grown
    <3>2. key.tag = "record" => \A n \in 1 .. key.n - 1 : \E h \in 1 .. i - 1 :
             new[h].key = RecordKey(key.external, n, key.full)
      <4>1. key.tag = "record" => \A n \in 1 .. key.n - 1 : \E h \in 1 .. k - 1 :
             events[h].key = RecordKey(key.external, n, key.full)
        BY <3>1 DEF Orderly
      <4>. QED  BY <3>1, <4>1
    <3>3. key.tag = "handoff" =>
             key.mark.package \in g /\ key.mark.package.session = s /\ key.mark.package.seen < i
      <4>1. key.tag = "handoff" => key.mark.package \in g /\ key.mark.package.session = s
                                   /\ key.mark.package.seen <= Len(l[s])
        BY <3>1 DEF Orderly
      <4>2. \A package \in Package : package.seen \in Nat
        BY DEF Package
      <4>. QED  BY <1>1, <2>2, <4>1, <4>2
    <3>4. key.mark.name = "pre-handoff" => key.mark.stamp <= time
      BY <3>1 DEF Orderly
    <3>. QED  BY <3>2, <3>3, <3>4 DEF EntryInv
  <2>. QED  BY <1>1, <1>4, <2>1, <2>2
<1>8. Distinct(new)
  BY <1>2 DEF Grown, LogInv
<1>9. ASSUME NEW t \in Sessions
      PROVE  Distinct(m[t]) /\ \A i \in 1 .. Len(m[t]) : EntryInv(t, m[t], i, g, time)
  <2>1. CASE t = s
    BY <1>3, <1>7, <1>8, <2>1
  <2>2. CASE t # s
    <3>1. m[t] = l[t]
      BY <1>3, <2>2
    <3>2. Distinct(l[t]) /\ \A i \in 1 .. Len(l[t]) : EntryInv(t, l[t], i, g, time)
      BY DEF LogInv
    <3>. QED  BY <3>1, <3>2
  <2>. QED  BY <2>1, <2>2
<1>. QED  BY <1>5, <1>6, <1>9 DEF LogInv

\* Every event of a batch is in the log afterwards, as given when its key is new.
Holding(old, events, new) ==
  \A k \in 1 .. Len(events) :
    /\ \E i \in 1 .. Len(new) : new[i].key = events[k].key
    /\ ~ HasKey(old, events[k].key) =>
         \E i \in 1 .. Len(new), h \in 1 .. Len(events) :
           i > Len(old) /\ new[i] = events[h] /\ events[h].key = events[k].key

\* An append holds its batch.
LEMMA Present ==
  ASSUME NEW old \in Seq(Entry), NEW events \in Seq(Entry)
  PROVE  Holding(old, events, Appended(old, events))
<1>. DEFINE new == Appended(old, events)
<1>1. Grown(old, events, Len(events), new)
  BY AppendedGrows
<1>. HIDE DEF new
<1>2. Len(old) \in Nat /\ DOMAIN old = 1 .. Len(old)
  OBVIOUS
<1>3. ASSUME NEW k \in 1 .. Len(events)
      PROVE  /\ \E i \in 1 .. Len(new) : new[i].key = events[k].key
             /\ ~ HasKey(old, events[k].key) =>
                  \E i \in 1 .. Len(new), h \in 1 .. Len(events) :
                    i > Len(old) /\ new[i] = events[h] /\ events[h].key = events[k].key
  <2>1. PICK i \in 1 .. Len(new) : new[i].key = events[k].key
    BY <1>1 DEF Grown
  <2>2. ASSUME ~ HasKey(old, events[k].key)
        PROVE  i > Len(old) /\ \E h \in 1 .. Len(events) : new[i] = events[h]
    <3>1. i \notin 1 .. Len(old)
      BY <1>1, <1>2, <2>1, <2>2 DEF Grown, HasKey
    <3>2. i \in Len(old) + 1 .. Len(new)
      BY <1>1, <1>2, <3>1 DEF Grown
    <3>. QED  BY <1>1, <1>2, <3>2 DEF Grown
  <2>. QED  BY <2>1, <2>2
<1>. QED  BY <1>3 DEF new, Holding

\* A batch does not bring the snapshot another continuation has yet to record.
LEMMA UnrecordedStays ==
  ASSUME NEW l \in Logs, NEW m, NEW s \in Sessions, NEW events \in Seq(Entry), NEW j,
         m = [l EXCEPT ![s] = Appended(@, events)], Unrecorded(j, l),
         \A k \in 1 .. Len(events) : events[k].key # Key("git", FirstMark(j))
  PROVE  Unrecorded(j, m)
<1>. SUFFICES ASSUME ~ Ties, j.command = "continue", j.pc = "record",
                     NEW t \in Sessions, NEW i \in 1 .. Len(m[t])
              PROVE  m[t][i].key # Key("git", FirstMark(j))
  BY DEF Unrecorded
<1>. DEFINE key == Key("git", FirstMark(j))
<1>1. \A h \in 1 .. Len(l[t]) : l[t][h].key # key
  BY DEF Unrecorded
<1>2. CASE t # s
  BY <1>1, <1>2 DEF Logs
<1>3. CASE t = s
  <2>1. l[s] \in Seq(Entry) /\ Len(l[s]) \in Nat
    BY DEF Logs
  <2>2. m[s] = Appended(l[s], events)
    BY DEF Logs
  <2>3. Grown(l[s], events, Len(events), m[s])
    BY <2>1, <2>2, AppendedGrows
  <2>4. CASE i \in 1 .. Len(l[s])
    BY <1>1, <1>3, <2>3, <2>4 DEF Grown
  <2>5. CASE i \in Len(l[s]) + 1 .. Len(m[s])
    BY <1>3, <2>3, <2>5 DEF Grown
  <2>6. Len(m[s]) \in Nat
    BY <2>3 DEF Grown
  <2>. QED  BY <1>3, <2>1, <2>4, <2>5, <2>6
<1>. QED  BY <1>2, <1>3

-----------------------------------------------------------------------------
\* The last link of an agent is a link, when there is one.
LEMMA LastLinkIsExternal ==
  ASSUME links \in Links, NEW s, NEW a
  PROVE  LastLink(s, a) \in Externals \cup {NoExternal}
<1>. DEFINE R == [session : Sessions, external : Externals, full : BOOLEAN]
<1>1. links \in Seq(R)
  BY DEF Links
<1>. HIDE DEF R
<1>2. DOMAIN links = 1 .. Len(links) /\ Len(links) \in Nat
  BY <1>1
<1>3. \A i \in 1 .. Len(links) : links[i] \in R
  BY <1>1
<1>. DEFINE own == {i \in DOMAIN links : links[i].session = s /\ AgentOf[links[i].external] = a}
<1>4. CASE own = {}
  BY <1>4 DEF LastLink
<1>5. CASE own # {}
  <2>. DEFINE T == {n \in Nat : \E i \in own : n = Len(links) - i}
  <2>1. T # {} /\ T \in SUBSET Nat
    <3>1. PICK i \in own : TRUE
      BY <1>5
    <3>2. i \in 1 .. Len(links)
      BY <1>2
    <3>3. Len(links) - i \in T
      BY <1>2, <3>2
    <3>. QED  BY <3>3
  <2>2. PICK m \in T : \A n \in T : m <= n
    BY <2>1, LeastNumber
  <2>3. PICK i \in own : m = Len(links) - i
    BY <2>2
  <2>4. \A k \in own : Len(links) - k \in T /\ k \in Int
    BY <1>2
  <2>5. \A k \in own : k <= i
    BY <1>2, <2>2, <2>3, <2>4
  <2>6. \E k \in own : \A h \in own : k >= h
    BY <2>4, <2>5
  <2>7. Max(own) \in own
    BY <2>6, Zenon DEF Max
  <2>8. LastLink(s, a) = links[Max(own)].external
    BY <1>5, Zenon DEF LastLink
  <2>9. Max(own) \in 1 .. Len(links)
    BY <1>2, <2>7
  <2>. HIDE DEF own
  <2>. QED  BY <1>3, <2>8, <2>9 DEF R
<1>. QED  BY <1>4, <1>5

\* A step of a command at work keeps the invariant when what it leaves in its
\* job and adds to the tables is as it should be.
LEMMA Combine ==
  ASSUME Inv, NEW p \in Processes, NEW j \in Job, job[p].pc # "idle",
         job' = [job EXCEPT ![p] = j], clock' = clock,
         Statuses(status', agent'),
         log' \in Logs, Grows(log, log'), LogInv(log', handoffs', clock),
         links' \in Links,
         checkpoints' \subseteq Rows, CheckpointInv(checkpoints', log'),
         handoffs \subseteq handoffs', handoffs' \subseteq Package,
         project' \in Nat, records' \in [Externals -> Nat],
         JobInv(j, log', handoffs'), j.stamp <= clock, j.pc # "record",
         \A q \in Processes \ {p} : Unrecorded(job[q], log')
  PROVE  Inv'
<1>1. Shape'
  BY DEF Inv, Shape
<1>2. job'[p] = j /\ \A q \in Processes : q # p => job'[q] = job[q]
  BY DEF Inv, Shape
<1>3. Stamps'
  BY <1>2 DEF Inv, Stamps
<1>4. \A q \in Processes : JobInv(job'[q], log', handoffs') /\ Unrecorded(job'[q], log')
  <2>. TAKE q \in Processes
  <2>1. CASE q = p
    BY <1>2, <2>1 DEF Unrecorded
  <2>2. CASE q # p
    <3>1. job[q] \in Job /\ log \in Logs /\ JobInv(job[q], log, handoffs)
      BY DEF Inv, Shape
    <3>2. JobInv(job[q], log', handoffs')
      BY <3>1, JobStays
    <3>. QED  BY <1>2, <2>2, <3>2
  <2>. QED  BY <2>1, <2>2
<1>. QED  BY <1>1, <1>3, <1>4 DEF Inv

\* Steps that add nothing to a log.
LEMMA Calm ==
  ASSUME Inv, NEW p \in Processes, NEW j \in Job, job[p].pc # "idle",
         job' = [job EXCEPT ![p] = j], UNCHANGED <<log, clock>>,
         Statuses(status', agent'), links' \in Links,
         checkpoints' \subseteq Rows, CheckpointInv(checkpoints', log),
         handoffs \subseteq handoffs', handoffs' \subseteq Package,
         project' \in Nat, records' \in [Externals -> Nat],
         JobInv(j, log, handoffs'), j.stamp <= clock, j.pc # "record"
  PROVE  Inv'
<1>1. log \in Logs /\ clock \in Nat /\ LogInv(log, handoffs, clock)
  BY DEF Inv, Shape
<1>2. LogInv(log, handoffs', clock)
  BY <1>1, LogStays
<1>3. Grows(log, log)
  BY <1>1 DEF Grows, Logs
<1>4. \A q \in Processes \ {p} : Unrecorded(job[q], log)
  BY DEF Inv
<1>. QED  BY <1>1, <1>2, <1>3, <1>4, Combine

\* What an append of a batch does to the logs.
LEMMA AppendedLogs ==
  ASSUME Inv, NEW s \in Sessions, NEW events \in Seq(Entry), AppendTo(s, events),
         Orderly(s, events, Len(log[s]), handoffs, clock)
  PROVE  log' \in Logs /\ Grows(log, log') /\ LogInv(log', handoffs, clock)
<1>1. log \in Logs /\ LogInv(log, handoffs, clock) /\ handoffs \subseteq Package
  BY DEF Inv, Shape
<1>2. log' = [log EXCEPT ![s] = Appended(@, events)]
  BY DEF AppendTo
<1>. QED  BY <1>1, <1>2, Appending

\* Steps that append a batch.
LEMMA Adding ==
  ASSUME Inv, NEW p \in Processes, NEW j \in Job, job[p].pc # "idle",
         job' = [job EXCEPT ![p] = j], UNCHANGED <<checkpoints, handoffs, world, clock>>,
         NEW s \in Sessions, NEW events \in Seq(Entry), AppendTo(s, events),
         Orderly(s, events, Len(log[s]), handoffs, clock),
         \A q \in Processes \ {p} : \A k \in 1 .. Len(events) :
            events[k].key # Key("git", FirstMark(job[q])) \/ job[q].command # "continue"
               \/ job[q].pc # "record" \/ Ties,
         Statuses(status', agent'), links' \in Links,
         JobInv(j, log', handoffs), j.stamp <= clock, j.pc # "record"
  PROVE  Inv'
<1>1. /\ log \in Logs /\ LogInv(log, handoffs, clock) /\ handoffs \subseteq Package
      /\ checkpoints \subseteq Rows /\ CheckpointInv(checkpoints, log)
      /\ project \in Nat /\ records \in [Externals -> Nat]
  BY DEF Inv, Shape
<1>2. log' = [log EXCEPT ![s] = Appended(@, events)]
  BY DEF AppendTo
<1>3. log' \in Logs /\ Grows(log, log') /\ LogInv(log', handoffs, clock)
  BY <1>1, <1>2, Appending
<1>4. CheckpointInv(checkpoints, log')
  BY <1>1, <1>3, CheckpointsStay
<1>5. \A q \in Processes \ {p} : Unrecorded(job[q], log')
  <2>. TAKE q \in Processes \ {p}
  <2>1. Unrecorded(job[q], log)
    BY DEF Inv
  <2>2. CASE job[q].command # "continue" \/ job[q].pc # "record" \/ Ties
    BY <2>2 DEF Unrecorded
  <2>3. CASE \A k \in 1 .. Len(events) : events[k].key # Key("git", FirstMark(job[q]))
    BY <1>1, <1>2, <2>1, <2>3, UnrecordedStays
  <2>. QED  BY <2>2, <2>3
<1>6. /\ checkpoints' = checkpoints /\ handoffs' = handoffs /\ clock' = clock
      /\ project' = project /\ records' = records
  BY DEF world
<1>. QED  BY <1>1, <1>3, <1>4, <1>5, <1>6, Combine

-----------------------------------------------------------------------------
\* A process without a command, whatever session it remembers, promises nothing.
LEMMA IdleKeeps ==
  ASSUME NEW s \in Sessions \cup {NoSession}, NEW l, NEW g,
         NEW k, k = Idle \/ k = [Idle EXCEPT !.session = s]
  PROVE  k \in Job /\ k.pc = "idle" /\ k.stamp = 0 /\ JobInv(k, l, g)
<1>1. Idle.pc = "idle" /\ Idle.stamp = 0
  BY DEF Idle
<1>2. Idle \in Job
  <2>1. "idle" \in Places /\ "none" \in Names /\ 0 \in Numbers /\ FALSE \in Flags
    BY DEF Places, Names, Numbers, Flags
  <2>. QED  BY <2>1 DEF Idle, Job
<1>3. k \in Job /\ k.pc = "idle" /\ k.stamp = 0
  BY <1>1, <1>2 DEF Job
<1>4. JobInv(k, l, g)
  BY <1>3 DEF JobInv, Place
<1>. QED  BY <1>3, <1>4

\* Steps that write to no table.
LEMMA Quiet ==
  ASSUME Inv, NEW p \in Processes, NEW j \in Job, job[p].pc # "idle",
         job' = [job EXCEPT ![p] = j], UNCHANGED <<tables, clock>>,
         project' \in Nat, records' \in [Externals -> Nat],
         JobInv(j, log, handoffs), j.stamp <= clock, j.pc # "record"
  PROVE  Inv'
<1>1. /\ UNCHANGED <<log, clock>>
      /\ status' = status /\ agent' = agent /\ links' = links
      /\ checkpoints' = checkpoints /\ handoffs' = handoffs
  BY DEF tables
<1>2. /\ Statuses(status, agent) /\ links \in Links /\ checkpoints \subseteq Rows
      /\ handoffs \subseteq Package /\ CheckpointInv(checkpoints, log)
  BY DEF Inv, Shape
<1>. QED  BY <1>1, <1>2, Calm

\* A command returns, or is given up, without a write.
LEMMA Returns ==
  ASSUME Inv, NEW p \in Processes, job[p].pc # "idle", Finish(p) \/ Abandon(p),
         UNCHANGED <<tables, clock>>, project' \in Nat, records' \in [Externals -> Nat]
  PROVE  Inv'
<1>1. job[p].session \in Sessions \cup {NoSession} /\ clock \in Nat
  BY DEF Inv, Shape, Job
<1>2. PICK k : /\ k = Idle \/ k = [Idle EXCEPT !.session = job[p].session]
               /\ job' = [job EXCEPT ![p] = k]
  BY DEF Finish, Abandon
<1>3. k \in Job /\ k.pc = "idle" /\ k.stamp = 0 /\ JobInv(k, log, handoffs)
  BY <1>1, <1>2, IdleKeeps
<1>4. k.stamp <= clock
  BY <1>1, <1>3
<1>. QED  BY <1>2, <1>3, <1>4, Quiet

\* What a snapshot finds.
LEMMA SnapshotTypes ==
  ASSUME Inv, NEW v \in 0 .. MaxVersion, Snapshot(v)
  PROVE  project' \in Nat /\ records' \in [Externals -> Nat]
  BY BoundsAreNumbers DEF Snapshot, Inv, Shape

\* What an export finds.
LEMMA ExportTypes ==
  ASSUME Inv, NEW x \in Externals, NEW n \in 0 .. MaxRecords, Export(x, n)
  PROVE  project' \in Nat /\ records' \in [Externals -> Nat]
<1>1. n \in Nat /\ project \in Nat /\ records \in [Externals -> Nat]
  BY BoundsAreNumbers DEF Inv, Shape, Export
<1>. QED  BY <1>1 DEF Export

\* The transcript to import is read.
LEMMA ReadExportKeeps ==
  ASSUME Inv, NEW p \in Processes, ReadExport(p)
  PROVE  Inv'
<1>1. PICK n \in 0 .. MaxRecords :
        /\ Export(job[p].external, n)
        /\ IF n = 0 THEN Finish(p)
           ELSE job' = [job EXCEPT ![p].pc = "bundle", ![p].count = n]
  BY DEF ReadExport
<1>2. job[p].pc = "export" /\ UNCHANGED <<tables, clock>>
  BY DEF ReadExport
<1>3. project' \in Nat /\ records' \in [Externals -> Nat]
  <2>1. job[p].external \in Externals
    BY <1>2 DEF Inv, JobInv, Place
  <2>. QED  BY <1>1, <2>1, ExportTypes
<1>4. CASE n = 0
  BY <1>1, <1>2, <1>3, <1>4, Returns
<1>5. CASE n # 0
  <2>. DEFINE j == job[p]  k == [j EXCEPT !.pc = "bundle", !.count = n]
  <2>1. j \in Job /\ job \in [Processes -> Job] /\ JobInv(j, log, handoffs) /\ j.stamp <= clock
    BY DEF Inv, Shape, Stamps
  <2>2. job' = [job EXCEPT ![p] = k]
    BY <1>1, <1>5, <2>1
  <2>3. k \in Job /\ k.stamp = j.stamp /\ k.pc = "bundle"
    <3>1. n \in Numbers
      BY BoundsAreNumbers DEF Numbers
    <3>2. "bundle" \in Places
      BY DEF Places
    <3>. QED  BY <2>1, <3>1, <3>2 DEF Job
  <2>4. JobInv(k, log, handoffs)
    BY <1>2, <2>1 DEF JobInv, Place, Job
  <2>. HIDE DEF k
  <2>. QED  BY <1>2, <1>3, <2>1, <2>2, <2>3, <2>4, Quiet
<1>. QED  BY <1>4, <1>5

-----------------------------------------------------------------------------
\* What the invariant says of one job.
LEMMA AtWork ==
  ASSUME Inv, NEW p \in Processes
  PROVE  /\ job[p] \in Job /\ job \in [Processes -> Job]
         /\ JobInv(job[p], log, handoffs) /\ Place(job[p]) /\ Unrecorded(job[p], log)
         /\ job[p].stamp \in Nat /\ job[p].stamp <= clock /\ clock \in Nat
         /\ job[p].count \in Nat /\ job[p].before \in Nat /\ job[p].after \in Nat
         /\ job[p].sequence \in Nat /\ job[p].full \in BOOLEAN
         /\ project \in Nat /\ records \in [Externals -> Nat]
<1>1. job[p] \in Job /\ job \in [Processes -> Job] /\ clock \in Nat
      /\ project \in Nat /\ records \in [Externals -> Nat]
  BY DEF Inv, Shape
<1>2. JobInv(job[p], log, handoffs) /\ Unrecorded(job[p], log) /\ job[p].stamp <= clock
  BY DEF Inv, Stamps
<1>3. Place(job[p])
  BY <1>2 DEF JobInv
<1>4. /\ job[p].stamp \in Nat /\ job[p].count \in Nat /\ job[p].before \in Nat
      /\ job[p].after \in Nat /\ job[p].sequence \in Nat /\ job[p].full \in BOOLEAN
  BY <1>1 DEF Job, Numbers, Flags
<1>. QED  BY <1>1, <1>2, <1>3, <1>4

\* A command that ends with import.
LEMMA RefuseBundleKeeps ==
  ASSUME Inv, NEW p \in Processes, RefuseBundle(p)
  PROVE  Inv'
<1>1. /\ job[p].pc # "idle"
      /\ Finish(p) \/ Abandon(p)
      /\ UNCHANGED <<tables, clock>> /\ project' = project /\ records' = records
  BY DEF RefuseBundle, world
<1>2. project \in Nat /\ records \in [Externals -> Nat]
  BY AtWork
<1>. QED  BY <1>1, <1>2, Returns

\* A command that ends with --preview.
LEMMA PreviewKeeps ==
  ASSUME Inv, NEW p \in Processes, Preview(p)
  PROVE  Inv'
<1>1. /\ job[p].pc # "idle"
      /\ Finish(p) \/ Abandon(p)
      /\ UNCHANGED <<tables, clock>> /\ project' = project /\ records' = records
  BY DEF Preview, world
<1>2. project \in Nat /\ records \in [Externals -> Nat]
  BY AtWork
<1>. QED  BY <1>1, <1>2, Returns

\* A command that ends with a file instead of a launch.
LEMMA ManualHandoffKeeps ==
  ASSUME Inv, NEW p \in Processes, ManualHandoff(p)
  PROVE  Inv'
<1>1. /\ job[p].pc # "idle"
      /\ Finish(p) \/ Abandon(p)
      /\ UNCHANGED <<tables, clock>> /\ project' = project /\ records' = records
  BY DEF ManualHandoff, world
<1>2. project \in Nat /\ records \in [Externals -> Nat]
  BY AtWork
<1>. QED  BY <1>1, <1>2, Returns

\* A command that ends with a link that is refused.
LEMMA LinkConflictKeeps ==
  ASSUME Inv, NEW p \in Processes, LinkConflict(p)
  PROVE  Inv'
<1>1. /\ job[p].pc # "idle"
      /\ Finish(p) \/ Abandon(p)
      /\ UNCHANGED <<tables, clock>> /\ project' = project /\ records' = records
  BY DEF LinkConflict, world
<1>2. project \in Nat /\ records \in [Externals -> Nat]
  BY AtWork
<1>. QED  BY <1>1, <1>2, Returns

\* A command that ends with a fault.
LEMMA CutShortKeeps ==
  ASSUME Inv, NEW p \in Processes, CutShort(p)
  PROVE  Inv'
<1>1. /\ job[p].pc # "idle"
      /\ Finish(p) \/ Abandon(p)
      /\ UNCHANGED <<tables, clock>> /\ project' = project /\ records' = records
  BY DEF CutShort, world
<1>2. project \in Nat /\ records \in [Externals -> Nat]
  BY AtWork
<1>. QED  BY <1>1, <1>2, Returns

\* The transcript of the source is not read.
LEMMA SkipRefreshKeeps ==
  ASSUME Inv, NEW p \in Processes, SkipRefresh(p)
  PROVE  Inv'
<1>. DEFINE j == job[p]  k == [j EXCEPT !.pc = "before"]
<1>1. /\ j.pc = "refresh" /\ UNCHANGED <<tables, clock>>
      /\ project' = project /\ records' = records
  BY DEF SkipRefresh, world
<1>2. /\ j \in Job /\ job \in [Processes -> Job] /\ JobInv(j, log, handoffs) /\ Place(j)
      /\ j.stamp <= clock /\ project \in Nat /\ records \in [Externals -> Nat]
  BY AtWork
<1>3. job' = [job EXCEPT ![p] = k]
  BY <1>2 DEF SkipRefresh, Goto
<1>4. k \in Job /\ k.stamp = j.stamp /\ k.pc = "before"
  <2>1. "before" \in Places
    BY DEF Places
  <2>. QED  BY <1>2, <2>1 DEF Job
<1>5. JobInv(k, log, handoffs)
  BY <1>1, <1>2 DEF JobInv, Place, Job
<1>. HIDE DEF k
<1>. QED  BY <1>1, <1>2, <1>3, <1>4, <1>5, Quiet

\* The transcript of the source is read.
LEMMA ReadRefreshKeeps ==
  ASSUME Inv, NEW p \in Processes, ReadRefresh(p)
  PROVE  Inv'
<1>. DEFINE j == job[p]  x == SourceLink(j)  full == IsFull(j.session, x)
<1>1. PICK n \in 0 .. MaxRecords :
        /\ Export(x, n)
        /\ IF n = 0 THEN Finish(p)
           ELSE job' = [job EXCEPT ![p].pc = "refreshed", ![p].external = x, ![p].count = n,
                                   ![p].full = full]
  BY DEF ReadRefresh
<1>2. j.pc = "refresh" /\ UNCHANGED <<tables, clock>> /\ x # NoExternal
  BY DEF ReadRefresh, CanRefresh
<1>3. /\ j \in Job /\ job \in [Processes -> Job] /\ JobInv(j, log, handoffs) /\ Place(j)
      /\ j.stamp <= clock
  BY AtWork
<1>4. x \in Externals
  BY <1>2, LastLinkIsExternal DEF SourceLink, Inv, Shape
<1>5. full \in Flags
  BY DEF IsFull, Flags
<1>. HIDE DEF x, full
<1>6. project' \in Nat /\ records' \in [Externals -> Nat]
  BY <1>1, <1>4, ExportTypes
<1>7. CASE n = 0
  BY <1>1, <1>2, <1>6, <1>7, Returns
<1>8. CASE n # 0
  <2>. DEFINE k == [j EXCEPT !.pc = "refreshed", !.external = x, !.count = n, !.full = full]
  <2>1. job' = [job EXCEPT ![p] = k]
    BY <1>1, <1>3, <1>8
  <2>2. k \in Job /\ k.stamp = j.stamp /\ k.pc = "refreshed"
    <3>1. "refreshed" \in Places /\ n \in Numbers
      BY BoundsAreNumbers DEF Places, Numbers
    <3>. QED  BY <1>3, <1>4, <1>5, <3>1 DEF Job
  <2>3. JobInv(k, log, handoffs)
    BY <1>2, <1>3, <1>4 DEF JobInv, Place, Job
  <2>. HIDE DEF k
  <2>. QED  BY <1>2, <1>3, <1>6, <2>1, <2>2, <2>3, Quiet
<1>. QED  BY <1>7, <1>8

\* The first snapshot, under a time no continuation has read before unless two
\* readings may be equal.
LEMMA SnapshotBeforeKeeps ==
  ASSUME Inv, NEW p \in Processes, SnapshotBefore(p)
  PROVE  Inv'
<1>1. PICK v \in 0 .. MaxVersion, t \in 0 .. clock + 1 :
        /\ Snapshot(v)
        /\ IF job[p].command = "run" THEN t = 0 /\ UNCHANGED clock ELSE Now(t)
        /\ job' = [job EXCEPT ![p].pc = "record", ![p].before = v, ![p].after = v, ![p].stamp = t]
  BY DEF SnapshotBefore
<1>. DEFINE j == job[p]  k == [j EXCEPT !.pc = "record", !.before = v, !.after = v, !.stamp = t]
<1>2. /\ j.pc = "before" /\ log' = log /\ status' = status /\ agent' = agent /\ links' = links
      /\ checkpoints' = checkpoints /\ handoffs' = handoffs
  BY DEF SnapshotBefore, tables
<1>3. /\ j \in Job /\ job \in [Processes -> Job] /\ JobInv(j, log, handoffs) /\ Place(j)
      /\ clock \in Nat /\ log \in Logs /\ LogInv(log, handoffs, clock)
  BY AtWork DEF Inv, Shape
<1>4. project' \in Nat /\ records' \in [Externals -> Nat]
  BY <1>1, SnapshotTypes
<1>5. job' = [job EXCEPT ![p] = k]
  BY <1>1, <1>3
<1>6. /\ t \in Nat /\ clock' \in Nat /\ clock <= clock' /\ t <= clock'
      /\ (~ Ties /\ j.command = "continue") => clock < t
  BY <1>1, <1>3 DEF Now
<1>7. k \in Job /\ k.stamp = t /\ k.command = j.command /\ k.pc = "record"
  <2>1. "record" \in Places /\ v \in Numbers /\ t \in Numbers
    BY <1>6, BoundsAreNumbers DEF Places, Numbers
  <2>. QED  BY <1>3, <2>1 DEF Job
<1>8. JobInv(k, log, handoffs)
  BY <1>2, <1>3 DEF JobInv, Place, Job
<1>. HIDE DEF k
<1>9. job'[p] = k /\ \A q \in Processes : q # p => job'[q] = job[q]
  BY <1>3, <1>5
<1>10. Shape'
  BY <1>2, <1>3, <1>4, <1>5, <1>6, <1>7 DEF Inv, Shape
<1>11. Stamps'
  <2>1. \A q \in Processes : job[q].stamp \in Nat /\ job[q].stamp <= clock
    BY AtWork
  <2>2. \A q \in Processes : job'[q].stamp <= clock'
    BY <1>3, <1>6, <1>7, <1>9, <2>1
  <2>3. ASSUME ~ Ties, NEW q \in Processes, NEW r \in Processes, q # r,
               job'[q].pc = "record", job'[r].pc = "record",
               job'[q].command = "continue", job'[r].command = "continue"
        PROVE  job'[q].stamp # job'[r].stamp
    <3>1. CASE q = p
      BY <1>3, <1>6, <1>7, <1>9, <2>1, <2>3, <3>1
    <3>2. CASE r = p
      BY <1>3, <1>6, <1>7, <1>9, <2>1, <2>3, <3>2
    <3>3. CASE q # p /\ r # p
      BY <1>9, <2>3, <3>3 DEF Inv, Stamps
    <3>. QED  BY <3>1, <3>2, <3>3
  <2>. QED  BY <2>2, <2>3 DEF Stamps
<1>12. LogInv(log, handoffs, clock')
  BY <1>3, <1>6, LogStays
<1>13. Unrecorded(k, log)
  <2>1. ASSUME ~ Ties, NEW s \in Sessions, NEW i \in 1 .. Len(log[s]), k.command = "continue",
               log[s][i].key = Key("git", FirstMark(k))
        PROVE  FALSE
    <3>1. log[s][i].key.mark.name = "pre-handoff" /\ log[s][i].key.mark.stamp = t
      BY <1>7, <2>1 DEF Key, FirstMark, Mark
    <3>2. EntryInv(s, log[s], i, handoffs, clock)
      BY <1>3 DEF LogInv
    <3>3. t <= clock
      BY <3>1, <3>2 DEF EntryInv
    <3>. QED  BY <1>3, <1>6, <1>7, <2>1, <3>3
  <2>. QED  BY <2>1 DEF Unrecorded
<1>14. \A q \in Processes : JobInv(job'[q], log', handoffs') /\ Unrecorded(job'[q], log')
  BY <1>2, <1>8, <1>9, <1>13 DEF Inv
<1>15. LogInv(log', handoffs', clock') /\ CheckpointInv(checkpoints', log')
  BY <1>2, <1>12 DEF Inv
<1>. QED  BY <1>10, <1>11, <1>14, <1>15 DEF Inv

\* The target's last link.
LEMMA ReadTargetKeeps ==
  ASSUME Inv, NEW p \in Processes, ReadTarget(p)
  PROVE  Inv'
<1>. DEFINE j == job[p]
            x == IF j.target \in Resumable THEN LastLink(j.session, j.target) ELSE NoExternal
            k == [j EXCEPT !.pc = "activate", !.count = 0, !.external = x]
<1>1. /\ j.pc = "target" /\ UNCHANGED <<tables, clock>>
      /\ project' = project /\ records' = records
      /\ job' = [job EXCEPT ![p].pc = "activate", ![p].count = 0, ![p].external = x]
  BY DEF ReadTarget, world
<1>2. /\ j \in Job /\ job \in [Processes -> Job] /\ JobInv(j, log, handoffs) /\ Place(j)
      /\ j.stamp <= clock /\ project \in Nat /\ records \in [Externals -> Nat]
  BY AtWork
<1>3. x \in Externals \cup {NoExternal}
  BY LastLinkIsExternal DEF Inv, Shape
<1>. HIDE DEF x
<1>4. job' = [job EXCEPT ![p] = k]
  BY <1>1, <1>2
<1>5. /\ k \in Job /\ k.stamp = j.stamp /\ k.command = j.command /\ k.pc = "activate"
      /\ k.session = j.session /\ k.package = j.package /\ k.source = j.source
      /\ k.target = j.target
  <2>1. "activate" \in Places /\ 0 \in Numbers
    BY DEF Places, Numbers
  <2>. QED  BY <1>2, <1>3, <2>1 DEF Job
<1>. HIDE DEF k
<1>6. j.command = "continue" /\ j.session \in Sessions
  BY <1>1, <1>2 DEF Place
<1>7. FirstMark(k) = FirstMark(j)
  BY <1>5, <1>6 DEF FirstMark
<1>8. JobInv(k, log, handoffs)
  BY <1>1, <1>2, <1>5, <1>6, <1>7 DEF JobInv, Place
<1>. QED  BY <1>1, <1>2, <1>4, <1>5, <1>8, Quiet

\* The exit of the agent.
LEMMA AgentExitsKeeps ==
  ASSUME Inv, NEW p \in Processes, AgentExits(p)
  PROVE  Inv'
<1>. DEFINE j == job[p]
<1>1. PICK x \in IF j.external = NoExternal THEN Reported(j) ELSE {j.external},
           failures \in IF j.target \in Capturing THEN BOOLEAN ELSE {FALSE} :
        job' = [job EXCEPT ![p].external = x, ![p].failures = failures,
             ![p].pc = IF x # NoExternal /\ j.target \in Capturing THEN "capture"
                       ELSE AfterEvents(failures)]
  BY DEF AgentExits
<1>. DEFINE pc == IF x # NoExternal /\ j.target \in Capturing THEN "capture"
                  ELSE AfterEvents(failures)
            k == [j EXCEPT !.external = x, !.failures = failures, !.pc = pc]
<1>2. /\ j.pc = "launch" /\ UNCHANGED <<tables, clock>>
      /\ project' = project /\ records' = records
  BY DEF AgentExits, world
<1>3. /\ j \in Job /\ job \in [Processes -> Job] /\ JobInv(j, log, handoffs) /\ Place(j)
      /\ j.stamp <= clock /\ project \in Nat /\ records \in [Externals -> Nat]
  BY AtWork
<1>4. x \in Externals \cup {NoExternal}
  <2>1. j.session \in Sessions /\ j.external \in Externals \cup {NoExternal}
    BY <1>2, <1>3 DEF Place, Job
  <2>2. Reports[j.session] \subseteq Externals
    BY <2>1, ReportsEach
  <2>3. Reported(j) \subseteq Externals \cup {NoExternal}
    BY <2>2 DEF Reported
  <2>. QED  BY <2>1, <2>3
<1>5. failures \in Flags /\ pc \in Places /\ pc \in {"capture", "failures", "after"}
      /\ (pc = "capture" => x # NoExternal)
  BY DEF Flags, Places, AfterEvents
<1>6. job' = [job EXCEPT ![p] = k]
  BY <1>1, <1>3
<1>. HIDE DEF pc
<1>7. /\ k \in Job /\ k.stamp = j.stamp /\ k.command = j.command /\ k.pc = pc
      /\ k.session = j.session /\ k.external = x /\ k.source = j.source /\ k.target = j.target
  BY <1>3, <1>4, <1>5 DEF Job
<1>. HIDE DEF k
<1>8. JobInv(k, log, handoffs)
  BY <1>2, <1>3, <1>4, <1>5, <1>7 DEF JobInv, Place
<1>. QED  BY <1>2, <1>3, <1>5, <1>6, <1>7, <1>8, Quiet

\* The events the agent wrote are read.
LEMMA ReadCaptureKeeps ==
  ASSUME Inv, NEW p \in Processes, ReadCapture(p)
  PROVE  Inv'
<1>. DEFINE j == job[p]
<1>1. PICK n \in 0 .. MaxRecords :
        Export(j.external, n) /\ job' = [job EXCEPT ![p].pc = "events", ![p].count = n]
  BY DEF ReadCapture
<1>. DEFINE k == [j EXCEPT !.pc = "events", !.count = n]
<1>2. j.pc = "capture" /\ UNCHANGED <<tables, clock>>
  BY DEF ReadCapture
<1>3. /\ j \in Job /\ job \in [Processes -> Job] /\ JobInv(j, log, handoffs) /\ Place(j)
      /\ j.stamp <= clock
  BY AtWork
<1>4. project' \in Nat /\ records' \in [Externals -> Nat]
  BY <1>1, <1>2, <1>3, ExportTypes DEF Place
<1>5. job' = [job EXCEPT ![p] = k]
  BY <1>1, <1>3
<1>6. k \in Job /\ k.stamp = j.stamp /\ k.pc = "events"
  <2>1. "events" \in Places /\ n \in Numbers
    BY BoundsAreNumbers DEF Places, Numbers
  <2>. QED  BY <1>3, <2>1 DEF Job
<1>7. JobInv(k, log, handoffs)
  BY <1>2, <1>3 DEF JobInv, Place, Job
<1>. HIDE DEF k
<1>. QED  BY <1>2, <1>3, <1>4, <1>5, <1>6, <1>7, Quiet

\* The second snapshot.
LEMMA SnapshotAfterKeeps ==
  ASSUME Inv, NEW p \in Processes, SnapshotAfter(p)
  PROVE  Inv'
<1>. DEFINE j == job[p]
<1>1. PICK v \in 0 .. MaxVersion :
        Snapshot(v) /\ job' = [job EXCEPT ![p].pc = "reconcile", ![p].after = v]
  BY DEF SnapshotAfter
<1>. DEFINE k == [j EXCEPT !.pc = "reconcile", !.after = v]
<1>2. j.pc = "after" /\ UNCHANGED <<tables, clock>>
  BY DEF SnapshotAfter
<1>3. /\ j \in Job /\ job \in [Processes -> Job] /\ JobInv(j, log, handoffs) /\ Place(j)
      /\ j.stamp <= clock
  BY AtWork
<1>4. project' \in Nat /\ records' \in [Externals -> Nat]
  BY <1>1, SnapshotTypes
<1>5. job' = [job EXCEPT ![p] = k]
  BY <1>1, <1>3
<1>6. k \in Job /\ k.stamp = j.stamp /\ k.pc = "reconcile"
  <2>1. "reconcile" \in Places /\ v \in Numbers
    BY BoundsAreNumbers DEF Places, Numbers
  <2>. QED  BY <1>3, <2>1 DEF Job
<1>7. JobInv(k, log, handoffs)
  BY <1>2, <1>3 DEF JobInv, Place, Job
<1>. HIDE DEF k
<1>. QED  BY <1>2, <1>3, <1>4, <1>5, <1>6, <1>7, Quiet

-----------------------------------------------------------------------------
\* An update of the status.
LEMMA StatusesStay ==
  ASSUME Statuses(status, agent), NEW s \in Sessions, NEW a \in Agents,
         NEW value \in {"active", "paused", "failed"}, SetStatus(s, value, a)
  PROVE  Statuses(status', agent')
<1>1. /\ status \in [Sessions -> {"none", "active", "paused", "failed"}]
      /\ agent \in [Sessions -> Agents \cup {NoAgent}]
      /\ \A t \in Sessions : status[t] = "none" <=> agent[t] = NoAgent
  BY DEF Statuses
<1>2. status' = [status EXCEPT ![s] = value] /\ agent' = [agent EXCEPT ![s] = a]
  BY DEF SetStatus
<1>3. a # NoAgent /\ value # "none"
  BY NoValues
<1>4. \A t \in Sessions : status'[t] = "none" <=> agent'[t] = NoAgent
  BY <1>1, <1>2, <1>3
<1>. QED  BY <1>1, <1>2, <1>4 DEF Statuses

\* An upsert of a link.
LEMMA LinkedLinks ==
  ASSUME links \in Links, NEW s \in Sessions, NEW x \in Externals, NEW full \in BOOLEAN
  PROVE  Linked(s, x, full) \in Links
<1>. DEFINE R == [session : Sessions, external : Externals, full : BOOLEAN]
            r == [session |-> s, external |-> x, full |-> full]
            overwritten == [i \in DOMAIN links |-> IF links[i].session = s /\ links[i].external = x
                                                   THEN r ELSE links[i]]
<1>1. r \in R /\ links \in Seq(R)
  BY DEF Links
<1>. HIDE DEF R, r
<1>2. Append(links, r) \in Seq(R)
  BY <1>1
<1>3. overwritten \in Seq(R)
  <2>1. DOMAIN links = 1 .. Len(links) /\ Len(links) \in Nat /\ \A i \in DOMAIN links : links[i] \in R
    BY <1>1
  <2>2. overwritten \in [1 .. Len(links) -> R]
    BY <1>1, <2>1
  <2>. HIDE DEF overwritten
  <2>. QED  BY <2>1, <2>2
<1>4. Linked(s, x, full) = IF s \in OwnersOf(x) THEN overwritten ELSE Append(links, r)
  BY DEF Linked, r
<1>. HIDE DEF overwritten
<1>. QED  BY <1>2, <1>3, <1>4 DEF Links, R

\* The session is made active again.
LEMMA ActivateKeeps ==
  ASSUME Inv, NEW p \in Processes, Activate(p)
  PROVE  Inv'
<1>. DEFINE j == job[p]  k == [j EXCEPT !.pc = "launch"]
<1>1. /\ j.pc = "activate" /\ SetStatus(j.session, "active", j.target)
      /\ UNCHANGED <<log, clock>> /\ links' = links /\ checkpoints' = checkpoints
      /\ handoffs' = handoffs /\ project' = project /\ records' = records
  BY DEF Activate, world
<1>2. /\ j \in Job /\ job \in [Processes -> Job] /\ JobInv(j, log, handoffs) /\ Place(j)
      /\ j.stamp <= clock /\ project \in Nat /\ records \in [Externals -> Nat]
  BY AtWork
<1>3. /\ Statuses(status, agent) /\ links \in Links /\ checkpoints \subseteq Rows
      /\ handoffs \subseteq Package /\ CheckpointInv(checkpoints, log)
  BY DEF Inv, Shape
<1>4. j.command = "continue" /\ j.session \in Sessions /\ j.target \in Agents
  BY <1>1, <1>2 DEF Place
<1>5. Statuses(status', agent')
  BY <1>1, <1>3, <1>4, StatusesStay
<1>6. job' = [job EXCEPT ![p] = k]
  BY <1>2 DEF Activate, Goto
<1>7. /\ k \in Job /\ k.stamp = j.stamp /\ k.command = j.command /\ k.pc = "launch"
      /\ k.session = j.session /\ k.package = j.package /\ k.source = j.source
      /\ k.target = j.target
  <2>1. "launch" \in Places
    BY DEF Places
  <2>. QED  BY <1>2, <2>1 DEF Job
<1>. HIDE DEF k
<1>8. FirstMark(k) = FirstMark(j)
  BY <1>4, <1>7 DEF FirstMark
<1>9. JobInv(k, log, handoffs)
  BY <1>1, <1>2, <1>4, <1>7, <1>8 DEF JobInv, Place
<1>. QED  BY <1>1, <1>2, <1>3, <1>5, <1>6, <1>7, <1>9, Calm

\* The launch returns an error.
LEMMA LaunchFailsKeeps ==
  ASSUME Inv, NEW p \in Processes, LaunchFails(p)
  PROVE  Inv'
<1>. DEFINE j == job[p]
<1>1. /\ j.pc = "launch" /\ Finish(p)
      /\ UNCHANGED <<log, clock>> /\ links' = links /\ checkpoints' = checkpoints
      /\ handoffs' = handoffs /\ project' = project /\ records' = records
  BY DEF LaunchFails, world
<1>2. /\ j \in Job /\ Place(j) /\ clock \in Nat /\ project \in Nat
      /\ records \in [Externals -> Nat]
  BY AtWork
<1>3. /\ Statuses(status, agent) /\ links \in Links /\ checkpoints \subseteq Rows
      /\ handoffs \subseteq Package /\ CheckpointInv(checkpoints, log)
  BY DEF Inv, Shape
<1>4. j.session \in Sessions /\ j.target \in Agents /\ j.source \in Agents
  BY <1>1, <1>2 DEF Place
<1>5. \/ SetStatus(j.session, "failed", j.target)
      \/ SetStatus(j.session, "paused", j.source)
  BY DEF LaunchFails
<1>6. Statuses(status', agent')
  BY <1>3, <1>4, <1>5, StatusesStay
<1>7. job' = [job EXCEPT ![p] = Idle]
  BY <1>1 DEF Finish
<1>8. Idle \in Job /\ Idle.pc = "idle" /\ Idle.stamp = 0 /\ JobInv(Idle, log, handoffs)
  BY <1>4, IdleKeeps
<1>9. Idle.stamp <= clock
  BY <1>2, <1>8
<1>. QED  BY <1>1, <1>2, <1>3, <1>6, <1>7, <1>8, <1>9, Calm

\* The external session is linked.
LEMMA LinkExternalKeeps ==
  ASSUME Inv, NEW p \in Processes, LinkExternal(p)
  PROVE  Inv'
<1>. DEFINE j == job[p]  k == [j EXCEPT !.pc = "checkpoint"]
<1>1. /\ j.pc = "link" /\ links' = Linked(j.session, j.external, FALSE)
      /\ UNCHANGED <<log, clock>> /\ status' = status /\ agent' = agent
      /\ checkpoints' = checkpoints
      /\ handoffs' = handoffs /\ project' = project /\ records' = records
  BY DEF LinkExternal, world
<1>2. /\ j \in Job /\ job \in [Processes -> Job] /\ JobInv(j, log, handoffs) /\ Place(j)
      /\ j.stamp <= clock /\ project \in Nat /\ records \in [Externals -> Nat]
  BY AtWork
<1>3. /\ Statuses(status, agent) /\ links \in Links /\ checkpoints \subseteq Rows
      /\ handoffs \subseteq Package /\ CheckpointInv(checkpoints, log)
  BY DEF Inv, Shape
<1>4. /\ j.command \in {"run", "continue"} /\ j.session \in Sessions /\ j.external \in Externals
      /\ {j.source, j.target} \subseteq Agents
  BY <1>1, <1>2 DEF Place
<1>5. links' \in Links
  BY <1>1, <1>3, <1>4, LinkedLinks
<1>6. job' = [job EXCEPT ![p] = k]
  BY <1>2 DEF LinkExternal, Goto
<1>7. /\ k \in Job /\ k.stamp = j.stamp /\ k.command = j.command /\ k.pc = "checkpoint"
      /\ k.session = j.session /\ k.package = j.package /\ k.source = j.source
      /\ k.target = j.target
  <2>1. "checkpoint" \in Places
    BY DEF Places
  <2>. QED  BY <1>2, <2>1 DEF Job
<1>. HIDE DEF k
<1>8. MarkOf(k) = MarkOf(j)
  BY <1>7 DEF MarkOf
<1>9. JobInv(k, log, handoffs)
  BY <1>1, <1>2, <1>4, <1>7, <1>8 DEF JobInv, Place
<1>. QED  BY <1>1, <1>2, <1>3, <1>5, <1>6, <1>7, <1>9, Calm

\* The final status.
LEMMA FinalizeKeeps ==
  ASSUME Inv, NEW p \in Processes, Finalize(p)
  PROVE  Inv'
<1>. DEFINE j == job[p]  k == [j EXCEPT !.pc = "summary"]
<1>1. /\ j.pc = "finalize"
      /\ UNCHANGED <<log, clock>> /\ links' = links /\ checkpoints' = checkpoints
      /\ handoffs' = handoffs /\ project' = project /\ records' = records
  BY DEF Finalize, world
<1>2. /\ j \in Job /\ job \in [Processes -> Job] /\ JobInv(j, log, handoffs) /\ Place(j)
      /\ j.stamp <= clock /\ project \in Nat /\ records \in [Externals -> Nat]
  BY AtWork
<1>3. /\ Statuses(status, agent) /\ links \in Links /\ checkpoints \subseteq Rows
      /\ handoffs \subseteq Package /\ CheckpointInv(checkpoints, log)
  BY DEF Inv, Shape
<1>4. j.command \in {"run", "continue"} /\ j.session \in Sessions /\ {j.source, j.target} \subseteq Agents
  BY <1>1, <1>2 DEF Place
<1>5. PICK value \in {"paused", "failed"} : SetStatus(j.session, value, j.target)
  BY DEF Finalize
<1>6. Statuses(status', agent')
  BY <1>3, <1>4, <1>5, StatusesStay
<1>7. job' = [job EXCEPT ![p] = k]
  BY <1>2 DEF Finalize, Goto
<1>8. /\ k \in Job /\ k.stamp = j.stamp /\ k.command = j.command /\ k.pc = "summary"
      /\ k.session = j.session /\ k.source = j.source /\ k.target = j.target
  <2>1. "summary" \in Places
    BY DEF Places
  <2>. QED  BY <1>2, <2>1 DEF Job
<1>. HIDE DEF k
<1>9. JobInv(k, log, handoffs)
  BY <1>1, <1>2, <1>4, <1>8 DEF JobInv, Place
<1>. QED  BY <1>1, <1>2, <1>3, <1>6, <1>7, <1>8, <1>9, Calm

\* What a package is built from.
LEMMA PackageTypes ==
  ASSUME Inv, NEW p \in Processes, job[p].session \in Sessions,
         NEW source \in Agents, job[p].target \in Agents, NEW v \in Nat
  PROVE  PackageOf(job[p], source, v) \in Package
<1>1. Len(log[job[p].session]) \in Nat
  BY DEF Inv, Shape, Logs
<1>. QED  BY <1>1 DEF PackageOf, Package

\* The package of the handoff is stored.
LEMMA SaveHandoffKeeps ==
  ASSUME Inv, NEW p \in Processes, SaveHandoff(p)
  PROVE  Inv'
<1>. DEFINE j == job[p]
            package == PackageOf(j, j.source, j.before)
            k == [j EXCEPT !.pc = "handoff", !.package = package]
<1>1. /\ j.pc = "save" /\ handoffs' = handoffs \cup {package}
      /\ UNCHANGED <<log, clock>> /\ links' = links /\ checkpoints' = checkpoints
      /\ status' = status /\ agent' = agent /\ project' = project /\ records' = records
      /\ job' = [job EXCEPT ![p].pc = "handoff", ![p].package = package]
  BY DEF SaveHandoff, world
<1>2. /\ j \in Job /\ job \in [Processes -> Job] /\ JobInv(j, log, handoffs) /\ Place(j)
      /\ j.stamp <= clock /\ project \in Nat /\ records \in [Externals -> Nat]
      /\ j.before \in Nat
  BY AtWork
<1>3. /\ Statuses(status, agent) /\ links \in Links /\ checkpoints \subseteq Rows
      /\ handoffs \subseteq Package /\ CheckpointInv(checkpoints, log)
  BY DEF Inv, Shape
<1>4. j.command = "continue" /\ j.session \in Sessions /\ j.source \in Agents /\ j.target \in Agents
  BY <1>1, <1>2 DEF Place
<1>5. package \in Package
  BY <1>2, <1>4, PackageTypes
<1>6. package.session = j.session /\ package.seen = Len(log[j.session])
      /\ package.version = j.before
  BY DEF PackageOf
<1>. HIDE DEF package
<1>7. job' = [job EXCEPT ![p] = k]
  BY <1>1, <1>2
<1>8. /\ k \in Job /\ k.stamp = j.stamp /\ k.command = j.command /\ k.pc = "handoff"
      /\ k.session = j.session /\ k.package = package /\ k.source = j.source
      /\ k.target = j.target
  <2>1. "handoff" \in Places
    BY DEF Places
  <2>. QED  BY <1>2, <1>5, <2>1 DEF Job
<1>. HIDE DEF k
<1>9. FirstMark(k) = FirstMark(j)
  BY <1>4, <1>8 DEF FirstMark
<1>10. ~ Ties => \E g \in 1 .. Len(log[j.session]) :
         log[j.session][g].key = Key("git", FirstMark(j)) /\ log[j.session][g].version = j.before
  BY <1>1, <1>2 DEF JobInv
<1>11. Len(log[j.session]) \in Nat
  BY <1>4 DEF Inv, Shape, Logs
<1>12. JobInv(k, log, handoffs')
  BY <1>1, <1>4, <1>6, <1>8, <1>9, <1>10, <1>11 DEF JobInv, Place
<1>13. handoffs \subseteq handoffs' /\ handoffs' \subseteq Package
  BY <1>1, <1>3, <1>5
<1>. QED  BY <1>1, <1>2, <1>3, <1>7, <1>8, <1>12, <1>13, Calm

\* The closing package is stored.
LEMMA SaveSummaryKeeps ==
  ASSUME Inv, NEW p \in Processes, SaveSummary(p)
  PROVE  Inv'
<1>. DEFINE j == job[p]
            package == PackageOf(j, j.target, j.after)
<1>1. /\ j.pc = "summary" /\ handoffs' = handoffs \cup {package} /\ Finish(p)
      /\ UNCHANGED <<log, clock>> /\ links' = links /\ checkpoints' = checkpoints
      /\ status' = status /\ agent' = agent /\ project' = project /\ records' = records
  BY DEF SaveSummary, world
<1>2. /\ j \in Job /\ Place(j) /\ clock \in Nat /\ project \in Nat
      /\ records \in [Externals -> Nat] /\ j.after \in Nat
  BY AtWork
<1>3. /\ Statuses(status, agent) /\ links \in Links /\ checkpoints \subseteq Rows
      /\ handoffs \subseteq Package /\ CheckpointInv(checkpoints, log)
  BY DEF Inv, Shape
<1>4. j.session \in Sessions /\ j.target \in Agents
  BY <1>1, <1>2 DEF Place
<1>5. package \in Package
  BY <1>2, <1>4, PackageTypes
<1>6. handoffs \subseteq handoffs' /\ handoffs' \subseteq Package
  BY <1>1, <1>3, <1>5
<1>7. job' = [job EXCEPT ![p] = Idle]
  BY <1>1 DEF Finish
<1>8. Idle \in Job /\ Idle.pc = "idle" /\ Idle.stamp = 0 /\ JobInv(Idle, log, handoffs')
  BY <1>4, IdleKeeps
<1>9. Idle.stamp <= clock
  BY <1>2, <1>8
<1>. QED  BY <1>1, <1>2, <1>3, <1>6, <1>7, <1>8, <1>9, Calm

\* The mark of a job is a mark.
LEMMA MarkTypes ==
  ASSUME NEW j \in Job
  PROVE  MarkOf(j) \in Marks /\ FirstMark(j) \in Marks /\ NoMark \in Marks
<1>1. j.stamp \in Nat /\ j.package \in Package \cup {NoPackage} /\ j.command \in Names
  BY DEF Job, Numbers
<1>2. j.command \in {"none", "run", "continue", "checkpoint", "import"}
  BY <1>1 DEF Names
<1>3. \A n \in {"none", "initial", "pre-handoff", "run", "continue", "checkpoint", "import"},
         t \in Nat, c \in Package \cup {NoPackage} : Mark(n, t, c) \in Marks
  BY DEF Mark, Marks
<1>4. MarkOf(j) \in Marks
  BY <1>1, <1>2, <1>3 DEF MarkOf
<1>. QED  BY <1>1, <1>2, <1>3, <1>4 DEF FirstMark, NoMark

\* The row of a checkpoint.
LEMMA CreateCheckpointKeeps ==
  ASSUME Inv, NEW p \in Processes, CreateCheckpoint(p)
  PROVE  Inv'
<1>. DEFINE j == job[p]
            row == [session |-> j.session, sequence |-> j.sequence, mark |-> MarkOf(j)]
<1>1. /\ j.pc = "row" /\ checkpoints' = checkpoints \cup {row}
      /\ UNCHANGED <<log, clock>> /\ links' = links /\ handoffs' = handoffs
      /\ status' = status /\ agent' = agent /\ project' = project /\ records' = records
      /\ IF j.command = "checkpoint" THEN Finish(p) ELSE Goto(p, "finalize")
  BY DEF CreateCheckpoint, world
<1>2. /\ j \in Job /\ job \in [Processes -> Job] /\ JobInv(j, log, handoffs) /\ Place(j)
      /\ j.stamp <= clock /\ clock \in Nat /\ project \in Nat
      /\ records \in [Externals -> Nat] /\ j.sequence \in Nat
  BY AtWork
<1>3. /\ Statuses(status, agent) /\ links \in Links /\ checkpoints \subseteq Rows
      /\ handoffs \subseteq Package /\ CheckpointInv(checkpoints, log)
  BY DEF Inv, Shape
<1>4. j.command \in {"run", "checkpoint"} /\ j.session \in Sessions
  BY <1>1, <1>2 DEF Place
<1>5. checkpoints' \subseteq Rows
  <2>1. row \in Rows
    BY <1>2, <1>4, MarkTypes DEF Rows
  <2>. QED  BY <1>1, <1>3, <2>1
<1>6. CheckpointInv(checkpoints', log)
  <2>1. /\ j.sequence \in 1 .. Len(log[j.session])
        /\ log[j.session][j.sequence].key = Key("checkpoint", MarkOf(j))
        /\ \E g \in 1 .. j.sequence - 1 : log[j.session][g].key = Key("git", MarkOf(j))
    BY <1>1, <1>2 DEF JobInv
  <2>. QED  BY <1>1, <1>3, <2>1 DEF CheckpointInv
<1>7. CASE j.command = "checkpoint"
  <2>1. job' = [job EXCEPT ![p] = Idle]
    BY <1>1, <1>7 DEF Finish
  <2>2. Idle \in Job /\ Idle.pc = "idle" /\ Idle.stamp = 0 /\ JobInv(Idle, log, handoffs)
    BY <1>4, IdleKeeps
  <2>3. Idle.stamp <= clock
    BY <1>2, <2>2
  <2>. QED  BY <1>1, <1>2, <1>3, <1>5, <1>6, <2>1, <2>2, <2>3, Calm
<1>8. CASE j.command = "run"
  <2>. DEFINE k == [j EXCEPT !.pc = "finalize"]
  <2>1. job' = [job EXCEPT ![p] = k]
    BY <1>1, <1>2, <1>8 DEF Goto
  <2>2. /\ k \in Job /\ k.stamp = j.stamp /\ k.command = j.command /\ k.pc = "finalize"
        /\ k.session = j.session /\ k.source = j.source /\ k.target = j.target
    <3>1. "finalize" \in Places
      BY DEF Places
    <3>. QED  BY <1>2, <3>1 DEF Job
  <2>. HIDE DEF k
  <2>3. {j.source, j.target} \subseteq Agents
    BY <1>1, <1>2, <1>8 DEF Place
  <2>4. JobInv(k, log, handoffs)
    BY <1>4, <1>8, <2>2, <2>3 DEF JobInv, Place
  <2>. QED  BY <1>1, <1>2, <1>3, <1>5, <1>6, <2>1, <2>2, <2>4, Calm
<1>. QED  BY <1>4, <1>7, <1>8

-----------------------------------------------------------------------------
\* The batches.
LEMMA SingleBatch ==
  ASSUME NEW key \in Keys, NEW v \in Nat
  PROVE  /\ <<Event(key, v)>> \in Seq(Entry) /\ Len(<<Event(key, v)>>) = 1
         /\ <<Event(key, v)>>[1] = Event(key, v)
         /\ Event(key, v).key = key /\ Event(key, v).version = v
<1>1. Event(key, v) \in Entry /\ Event(key, v).key = key /\ Event(key, v).version = v
  BY DEF Event, Entry
<1>. HIDE DEF Event
<1>. QED  BY <1>1

\* The keys of what a command records itself.
LEMMA KeyTypes ==
  ASSUME NEW mark \in Marks, NEW tag \in {"git", "files", "error", "handoff", "checkpoint"}
  PROVE  /\ Key(tag, mark) \in Keys /\ Key(tag, mark).tag = tag /\ Key(tag, mark).mark = mark
  BY DEF Key, Keys, Marks

\* A transcript.
LEMMA TranscriptBatch ==
  ASSUME NEW x \in Externals, NEW n \in Nat, NEW full \in BOOLEAN, NEW s, NEW size, NEW g, NEW time
  PROVE  /\ Transcript(x, n, full) \in Seq(Entry)
         /\ Orderly(s, Transcript(x, n, full), size, g, time)
         /\ \A k \in 1 .. Len(Transcript(x, n, full)) : Transcript(x, n, full)[k].key.tag = "record"
<1>. DEFINE batch == Transcript(x, n, full)
<1>1. \A i \in Nat : /\ RecordKey(x, i, full) \in Keys /\ RecordKey(x, i, full).tag = "record"
                     /\ RecordKey(x, i, full).external = x /\ RecordKey(x, i, full).n = i
                     /\ RecordKey(x, i, full).full = full
                     /\ RecordKey(x, i, full).mark.name = "none"
  BY DEF RecordKey, Keys, NoMark, Mark
<1>2. \A i \in 1 .. n : Event(RecordKey(x, i, full), 0) \in Entry
  BY <1>1 DEF Event, Entry
<1>3. batch = [i \in 1 .. n |-> Event(RecordKey(x, i, full), 0)]
  BY DEF Transcript
<1>4. batch \in Seq(Entry) /\ Len(batch) = n
  <2>1. batch \in [1 .. n -> Entry]
    BY <1>2, <1>3
  <2>. HIDE DEF batch
  <2>. QED  BY <2>1
<1>5. \A i \in 1 .. n : batch[i].key = RecordKey(x, i, full)
  BY <1>3 DEF Event
<1>. HIDE DEF batch
<1>6. ASSUME NEW k \in 1 .. n
      PROVE  /\ batch[k].key.tag = "record" /\ batch[k].key.mark.name = "none"
             /\ \A m \in 1 .. batch[k].key.n - 1 : \E h \in 1 .. k - 1 :
                  batch[h].key = RecordKey(batch[k].key.external, m, batch[k].key.full)
  <2>1. batch[k].key = RecordKey(x, k, full)
    BY <1>5
  <2>2. /\ batch[k].key.tag = "record" /\ batch[k].key.mark.name = "none"
        /\ batch[k].key.n = k /\ batch[k].key.external = x /\ batch[k].key.full = full
    BY <1>1, <2>1
  <2>3. \A m \in 1 .. k - 1 : m \in 1 .. n /\ batch[m].key = RecordKey(x, m, full)
    BY <1>5
  <2>. QED  BY <2>2, <2>3
<1>7. Orderly(s, batch, size, g, time)
  BY <1>4, <1>6 DEF Orderly
<1>. QED  BY <1>4, <1>6, <1>7 DEF batch

\* A reconciliation.
LEMMA ReconciliationBatch ==
  ASSUME NEW mark \in Marks, NEW before \in Nat, NEW after \in Nat
  PROVE  LET batch == Reconciliation(mark, before, after) IN
         /\ batch \in Seq(Entry)
         /\ \A k \in 1 .. Len(batch) :
              /\ batch[k].key.tag \in {"git", "files"} /\ batch[k].key.mark = mark
              /\ batch[k].key = Key("git", mark) => batch[k].version = after
         /\ \E k \in 1 .. Len(batch) : batch[k].key = Key("git", mark)
<1>. DEFINE git == Event(Key("git", mark), after)
            files == Event([Key("files", mark) EXCEPT !.n = after], after)
<1>1. /\ git \in Entry /\ git.key = Key("git", mark) /\ git.version = after
      /\ git.key.tag = "git" /\ git.key.mark = mark
  BY KeyTypes DEF Event, Entry
<1>2. /\ files \in Entry /\ files.key.tag = "files" /\ files.key.mark = mark
  <2>. DEFINE key == [Key("files", mark) EXCEPT !.n = after]
  <2>1. key \in Keys /\ key.tag = "files" /\ key.mark = mark
    BY DEF Key, Keys, Marks
  <2>. HIDE DEF key
  <2>2. Event(key, after) \in Entry /\ Event(key, after).key = key
    BY <2>1 DEF Event, Entry
  <2>. QED  BY <2>1, <2>2 DEF key
<1>3. Key("git", mark).tag = "git"
  BY DEF Key
<1>. HIDE DEF git, files
<1>4. Reconciliation(mark, before, after) = IF before = after THEN <<>> \o <<git>>
                                            ELSE <<files>> \o <<git>>
  BY DEF Reconciliation, git, files
<1>5. CASE before = after
  <2>1. Reconciliation(mark, before, after) = <<git>>
    BY <1>1, <1>4, <1>5
  <2>. QED  BY <1>1, <2>1
<1>6. CASE before # after
  <2>. DEFINE one == <<files>>
            two == <<git>>
            batch == one \o two
  <2>1. Reconciliation(mark, before, after) = batch
    BY <1>4, <1>6
  <2>2. one \in Seq(Entry) /\ Len(one) = 1 /\ one[1] = files
    BY <1>2
  <2>3. two \in Seq(Entry) /\ Len(two) = 1 /\ two[1] = git
    BY <1>1
  <2>. HIDE DEF one, two
  <2>4. batch \in Seq(Entry) /\ Len(batch) = 2 /\ batch[1] = files /\ batch[2] = git
    <3>1. batch \in Seq(Entry)
      BY <2>2, <2>3
    <3>2. Len(batch) = 2
      BY <2>2, <2>3
    <3>3. \A i \in 1 .. Len(one) + Len(two) :
            batch[i] = IF i <= Len(one) THEN one[i] ELSE two[i - Len(one)]
      BY <2>2, <2>3, ConcatProperties
    <3>4. batch[1] = one[1] /\ batch[2] = two[1]
      <4>. HIDE DEF batch
      <4>. QED  BY <2>2, <2>3, <3>3
    <3>. QED  BY <2>2, <2>3, <3>1, <3>2, <3>4
  <2>. HIDE DEF batch
  <2>5. \A k \in 1 .. Len(batch) : k = 1 \/ k = 2
    BY <2>4
  <2>6. files.key # Key("git", mark)
    BY <1>2, <1>3
  <2>7. \A k \in 1 .. Len(batch) :
          /\ batch[k].key.tag \in {"git", "files"} /\ batch[k].key.mark = mark
          /\ batch[k].key = Key("git", mark) => batch[k].version = after
    BY <1>1, <1>2, <2>4, <2>5, <2>6
  <2>8. 2 \in 1 .. Len(batch) /\ batch[2].key = Key("git", mark)
    BY <1>1, <2>4
  <2>. QED  BY <2>1, <2>4, <2>7, <2>8 DEF batch
<1>. QED  BY <1>5, <1>6

\* What one continuation records of its first snapshot is its own.
LEMMA OthersApart ==
  ASSUME Inv, NEW p \in Processes, job[p].pc = "record", NEW events,
         \A k \in 1 .. Len(events) : \/ events[k].key.mark.name # "pre-handoff"
                                     \/ /\ events[k].key.mark.stamp = job[p].stamp
                                        /\ job[p].command = "continue"
  PROVE  \A q \in Processes \ {p} : \A k \in 1 .. Len(events) :
            events[k].key # Key("git", FirstMark(job[q])) \/ job[q].command # "continue"
               \/ job[q].pc # "record" \/ Ties
<1>. SUFFICES ASSUME NEW q \in Processes, q # p, NEW k \in 1 .. Len(events), ~ Ties,
                     job[q].command = "continue", job[q].pc = "record",
                     events[k].key = Key("git", FirstMark(job[q]))
              PROVE  FALSE
  OBVIOUS
<1>1. /\ events[k].key.mark.name = "pre-handoff"
      /\ events[k].key.mark.stamp = job[q].stamp
  BY DEF Key, FirstMark, Mark
<1>2. job[q].stamp # job[p].stamp
  BY <1>1 DEF Inv, Stamps
<1>. QED  BY <1>1, <1>2

\* Only the first snapshot of a continuation is recorded under a pre-handoff mark.
LEMMA MarkNames ==
  ASSUME NEW j \in Job
  PROVE  /\ MarkOf(j).name # "pre-handoff"
         /\ FirstMark(j).name = "pre-handoff" =>
              FirstMark(j).stamp = j.stamp /\ j.command = "continue"
         /\ j.command = "continue" => MarkOf(j).package = j.package
<1>1. j.command # "pre-handoff"
  <2>1. j.command \in Names
    BY DEF Job
  <2>. QED  BY <2>1 DEF Names
<1>2. MarkOf(j).name # "pre-handoff" /\ (j.command = "continue" => MarkOf(j).package = j.package)
  BY <1>1 DEF MarkOf, Mark
<1>3. FirstMark(j).name = "pre-handoff" =>
        FirstMark(j).stamp = j.stamp /\ j.command = "continue"
  BY <1>2 DEF FirstMark, Mark
<1>. QED  BY <1>2, <1>3

\* A batch of the command's own events is orderly unless it names a package.
LEMMA OwnBatch ==
  ASSUME Inv, NEW p \in Processes, NEW s, NEW size, NEW events,
         \A k \in 1 .. Len(events) :
            /\ events[k].key.tag \notin {"record", "handoff"}
            /\ events[k].key.mark \in {MarkOf(job[p]), FirstMark(job[p])}
  PROVE  /\ Orderly(s, events, size, handoffs, clock)
         /\ \A k \in 1 .. Len(events) : \/ events[k].key.mark.name # "pre-handoff"
                                        \/ /\ events[k].key.mark.stamp = job[p].stamp
                                           /\ job[p].command = "continue"
<1>1. job[p] \in Job /\ job[p].stamp <= clock
  BY AtWork
<1>2. \A m \in {MarkOf(job[p]), FirstMark(job[p])} : m.name = "pre-handoff" =>
        m.stamp = job[p].stamp /\ job[p].command = "continue"
  BY <1>1, MarkNames
<1>. QED  BY <1>1, <1>2 DEF Orderly

\* The records of the source are appended.
LEMMA AppendRefreshedKeeps ==
  ASSUME Inv, NEW p \in Processes, AppendRefreshed(p)
  PROVE  Inv'
<1>. DEFINE j == job[p]  events == Transcript(j.external, j.count, j.full)
            k == [j EXCEPT !.pc = "before", !.external = NoExternal, !.count = 0, !.full = FALSE]
<1>1. /\ j.pc = "refreshed" /\ AppendTo(j.session, events)
      /\ UNCHANGED <<checkpoints, handoffs, world, clock>>
      /\ status' = status /\ agent' = agent /\ links' = links
      /\ job' = [job EXCEPT ![p].pc = "before", ![p].external = NoExternal, ![p].count = 0,
                            ![p].full = FALSE]
  BY DEF AppendRefreshed
<1>2. /\ j \in Job /\ job \in [Processes -> Job] /\ Place(j)
      /\ j.stamp <= clock /\ j.count \in Nat /\ j.full \in BOOLEAN
  BY AtWork
<1>3. /\ Statuses(status, agent) /\ links \in Links /\ log \in Logs
  BY DEF Inv, Shape
<1>4. j.command = "continue" /\ j.session \in Sessions /\ j.external \in Externals
      /\ {j.source, j.target} \subseteq Agents
  BY <1>1, <1>2 DEF Place
<1>5. /\ events \in Seq(Entry) /\ Orderly(j.session, events, Len(log[j.session]), handoffs, clock)
      /\ \A i \in 1 .. Len(events) : events[i].key.tag = "record"
  BY <1>2, <1>4, TranscriptBatch
<1>6. job' = [job EXCEPT ![p] = k]
  BY <1>1, <1>2
<1>7. /\ k \in Job /\ k.stamp = j.stamp /\ k.command = j.command /\ k.pc = "before"
      /\ k.session = j.session /\ k.source = j.source /\ k.target = j.target
  <2>1. "before" \in Places /\ 0 \in Numbers /\ FALSE \in Flags
    BY DEF Places, Numbers, Flags
  <2>. QED  BY <1>2, <2>1 DEF Job
<1>. HIDE DEF events, k
<1>8. JobInv(k, log', handoffs)
  BY <1>4, <1>7 DEF JobInv, Place
<1>9. \A q \in Processes \ {p} : \A i \in 1 .. Len(events) :
          events[i].key # Key("git", FirstMark(job[q])) \/ job[q].command # "continue"
            \/ job[q].pc # "record" \/ Ties
  BY <1>5 DEF Key
<1>. QED  BY <1>1, <1>2, <1>3, <1>4, <1>5, <1>6, <1>7, <1>8, <1>9, Adding

\* The captured records are appended.
LEMMA AppendCapturedKeeps ==
  ASSUME Inv, NEW p \in Processes, AppendCaptured(p)
  PROVE  Inv'
<1>. DEFINE j == job[p]  events == Transcript(j.external, j.count, FALSE)
            k == [j EXCEPT !.pc = AfterEvents(j.failures)]
<1>1. /\ j.pc = "events" /\ AppendTo(j.session, events)
      /\ UNCHANGED <<checkpoints, handoffs, world, clock>>
      /\ status' = status /\ agent' = agent /\ links' = links
  BY DEF AppendCaptured
<1>2. /\ j \in Job /\ job \in [Processes -> Job] /\ Place(j)
      /\ j.stamp <= clock /\ j.count \in Nat
  BY AtWork
<1>3. /\ Statuses(status, agent) /\ links \in Links /\ log \in Logs
  BY DEF Inv, Shape
<1>4. j.command \in {"run", "continue"} /\ j.session \in Sessions /\ j.external \in Externals
      /\ {j.source, j.target} \subseteq Agents
  BY <1>1, <1>2 DEF Place
<1>5. /\ events \in Seq(Entry) /\ Orderly(j.session, events, Len(log[j.session]), handoffs, clock)
      /\ \A i \in 1 .. Len(events) : events[i].key.tag = "record"
  BY <1>2, <1>4, TranscriptBatch
<1>6. job' = [job EXCEPT ![p] = k]
  BY <1>2 DEF AppendCaptured, Goto
<1>7. /\ k \in Job /\ k.stamp = j.stamp /\ k.command = j.command /\ k.pc \in {"failures", "after"}
      /\ k.session = j.session /\ k.source = j.source /\ k.target = j.target
  <2>1. AfterEvents(j.failures) \in Places /\ AfterEvents(j.failures) \in {"failures", "after"}
    BY DEF Places, AfterEvents
  <2>. QED  BY <1>2, <2>1 DEF Job
<1>. HIDE DEF events, k
<1>8. JobInv(k, log', handoffs)
  BY <1>4, <1>7 DEF JobInv, Place
<1>9. \A q \in Processes \ {p} : \A i \in 1 .. Len(events) :
          events[i].key # Key("git", FirstMark(job[q])) \/ job[q].command # "continue"
            \/ job[q].pc # "record" \/ Ties
  BY <1>5 DEF Key
<1>. QED  BY <1>1, <1>2, <1>3, <1>4, <1>5, <1>6, <1>7, <1>8, <1>9, Adding

\* The failures of the capture are recorded.
LEMMA AppendCaptureFailuresKeeps ==
  ASSUME Inv, NEW p \in Processes, AppendCaptureFailures(p)
  PROVE  Inv'
<1>. DEFINE j == job[p]  key == Key("error", MarkOf(j))  events == <<Event(key, 0)>>
            k == [j EXCEPT !.pc = "after"]
<1>1. /\ j.pc = "failures" /\ AppendTo(j.session, events)
      /\ UNCHANGED <<checkpoints, handoffs, world, clock>>
      /\ status' = status /\ agent' = agent /\ links' = links
  BY DEF AppendCaptureFailures
<1>2. /\ j \in Job /\ job \in [Processes -> Job] /\ Place(j) /\ j.stamp <= clock
  BY AtWork
<1>3. /\ Statuses(status, agent) /\ links \in Links /\ log \in Logs
  BY DEF Inv, Shape
<1>4. j.command \in {"run", "continue"} /\ j.session \in Sessions
      /\ {j.source, j.target} \subseteq Agents
  BY <1>1, <1>2 DEF Place
<1>5. key \in Keys /\ key.tag = "error" /\ key.mark = MarkOf(j)
  BY <1>2, MarkTypes, KeyTypes
<1>6. events \in Seq(Entry) /\ \A i \in 1 .. Len(events) : events[i].key = key
  BY <1>5, SingleBatch
<1>7. job' = [job EXCEPT ![p] = k]
  BY <1>2 DEF AppendCaptureFailures, Goto
<1>8. /\ k \in Job /\ k.stamp = j.stamp /\ k.command = j.command /\ k.pc = "after"
      /\ k.session = j.session /\ k.source = j.source /\ k.target = j.target
  <2>1. "after" \in Places
    BY DEF Places
  <2>. QED  BY <1>2, <2>1 DEF Job
<1>. HIDE DEF events, key, k
<1>9. \A i \in 1 .. Len(events) : /\ events[i].key.tag \notin {"record", "handoff"}
                                  /\ events[i].key.mark \in {MarkOf(j), FirstMark(j)}
  BY <1>5, <1>6
<1>10. Orderly(j.session, events, Len(log[j.session]), handoffs, clock)
  BY <1>9, OwnBatch
<1>11. \A q \in Processes \ {p} : \A i \in 1 .. Len(events) :
          events[i].key # Key("git", FirstMark(job[q])) \/ job[q].command # "continue"
            \/ job[q].pc # "record" \/ Ties
  BY <1>5, <1>6 DEF Key
<1>12. JobInv(k, log', handoffs)
  BY <1>4, <1>8 DEF JobInv, Place
<1>. QED  BY <1>1, <1>2, <1>3, <1>4, <1>6, <1>7, <1>8, <1>10, <1>11, <1>12, Adding

\* The first snapshot is recorded.
LEMMA RecordBeforeKeeps ==
  ASSUME Inv, NEW p \in Processes, RecordBefore(p)
  PROVE  Inv'
<1>. DEFINE j == job[p]  s == j.session  mark == FirstMark(j)
            events == Reconciliation(mark, j.before, j.before)
            k == [j EXCEPT !.pc = AfterRecord[j.command]]
<1>1. /\ j.pc = "record" /\ AppendTo(s, events)
      /\ UNCHANGED <<checkpoints, handoffs, world, clock>>
      /\ status' = status /\ agent' = agent /\ links' = links
  BY DEF RecordBefore
<1>2. /\ j \in Job /\ job \in [Processes -> Job] /\ Place(j) /\ Unrecorded(j, log)
      /\ j.stamp <= clock /\ j.before \in Nat
  BY AtWork
<1>3. /\ Statuses(status, agent) /\ links \in Links /\ log \in Logs
  BY DEF Inv, Shape
<1>4. j.command \in {"run", "continue", "checkpoint"} /\ s \in Sessions
      /\ (j.command \in {"run", "continue"} => {j.source, j.target} \subseteq Agents)
  BY <1>1, <1>2 DEF Place
<1>5. /\ events \in Seq(Entry)
      /\ \A i \in 1 .. Len(events) :
           /\ events[i].key.tag \in {"git", "files"} /\ events[i].key.mark = mark
           /\ events[i].key = Key("git", mark) => events[i].version = j.before
      /\ \E i \in 1 .. Len(events) : events[i].key = Key("git", mark)
  BY <1>2, MarkTypes, ReconciliationBatch
<1>6. job' = [job EXCEPT ![p] = k]
  BY <1>2 DEF RecordBefore, Goto
<1>7. /\ j.command = "run" => AfterRecord[j.command] = "launch"
      /\ j.command = "continue" => AfterRecord[j.command] = "save"
      /\ j.command = "checkpoint" => AfterRecord[j.command] = "checkpoint"
  BY DEF AfterRecord
<1>8. /\ k \in Job /\ k.stamp = j.stamp /\ k.command = j.command /\ k.before = j.before
      /\ k.pc = AfterRecord[j.command]
      /\ k.session = s /\ k.source = j.source /\ k.target = j.target
  <2>1. AfterRecord[j.command] \in Places
    BY <1>4, <1>7 DEF Places
  <2>. QED  BY <1>2, <2>1 DEF Job
<1>. HIDE DEF events, k
<1>9. log'[s] = Appended(log[s], events) /\ log[s] \in Seq(Entry)
  BY <1>1, <1>3, <1>4 DEF AppendTo, Logs
<1>10. Holding(log[s], events, log'[s])
  <2>1. events \in Seq(Entry)
    BY <1>5
  <2>. QED  BY <1>9, <2>1, Present
<1>11. \E i \in 1 .. Len(log'[s]) : log'[s][i].key = Key("git", mark)
  <2>1. PICK i \in 1 .. Len(events) : events[i].key = Key("git", mark)
    BY <1>5
  <2>2. \E g \in 1 .. Len(log'[s]) : log'[s][g].key = events[i].key
    BY <1>10 DEF Holding
  <2>. QED  BY <2>1, <2>2
<1>12. ASSUME ~ Ties, j.command = "continue"
       PROVE  \E i \in 1 .. Len(log'[s]) : log'[s][i].key = Key("git", mark)
                                           /\ log'[s][i].version = j.before
  <2>1. ~ HasKey(log[s], Key("git", mark))
    <3>1. \A i \in 1 .. Len(log[s]) : log[s][i].key # Key("git", mark)
      BY <1>1, <1>2, <1>4, <1>12 DEF Unrecorded
    <3>2. DOMAIN log[s] = 1 .. Len(log[s])
      BY <1>3, <1>4 DEF Logs
    <3>. QED  BY <3>1, <3>2 DEF HasKey
  <2>2. PICK i \in 1 .. Len(events) : events[i].key = Key("git", mark)
    BY <1>5
  <2>3. PICK g \in 1 .. Len(log'[s]), h \in 1 .. Len(events) :
          log'[s][g] = events[h] /\ events[h].key = Key("git", mark)
    <3>1. ~ HasKey(log[s], events[i].key)
      BY <2>1, <2>2
    <3>2. \E g \in 1 .. Len(log'[s]), h \in 1 .. Len(events) :
            g > Len(log[s]) /\ log'[s][g] = events[h] /\ events[h].key = events[i].key
      BY <1>10, <3>1 DEF Holding
    <3>. QED  BY <2>2, <3>2
  <2>. QED  BY <1>5, <2>3
<1>13. \A i \in 1 .. Len(events) : /\ events[i].key.tag \notin {"record", "handoff"}
                                   /\ events[i].key.mark \in {MarkOf(j), FirstMark(j)}
  BY <1>5
<1>14. /\ Orderly(s, events, Len(log[s]), handoffs, clock)
       /\ \A i \in 1 .. Len(events) : \/ events[i].key.mark.name # "pre-handoff"
                                      \/ /\ events[i].key.mark.stamp = j.stamp
                                         /\ j.command = "continue"
  BY <1>13, OwnBatch
<1>15. \A q \in Processes \ {p} : \A i \in 1 .. Len(events) :
          events[i].key # Key("git", FirstMark(job[q])) \/ job[q].command # "continue"
            \/ job[q].pc # "record" \/ Ties
  BY <1>1, <1>14, OthersApart
<1>16. /\ j.command = "continue" => FirstMark(k) = mark
       /\ j.command = "checkpoint" => MarkOf(k) = mark
  BY <1>8 DEF FirstMark, MarkOf
<1>17. JobInv(k, log', handoffs)
  BY <1>4, <1>7, <1>8, <1>11, <1>12, <1>16 DEF JobInv, Place
<1>. QED  BY <1>1, <1>2, <1>3, <1>4, <1>5, <1>6, <1>7, <1>8, <1>14, <1>15, <1>17, Adding

\* The handoff event names the package that was stored.
LEMMA AppendHandoffKeeps ==
  ASSUME Inv, NEW p \in Processes, AppendHandoff(p)
  PROVE  Inv'
<1>. DEFINE j == job[p]  s == j.session  key == Key("handoff", MarkOf(j))
            events == <<Event(key, 0)>>
            k == [j EXCEPT !.pc = "target"]
<1>1. /\ j.pc = "handoff" /\ AppendTo(s, events)
      /\ UNCHANGED <<checkpoints, handoffs, world, clock>>
      /\ status' = status /\ agent' = agent /\ links' = links
  BY DEF AppendHandoff
<1>2. /\ j \in Job /\ job \in [Processes -> Job] /\ JobInv(j, log, handoffs) /\ Place(j)
      /\ j.stamp <= clock
  BY AtWork
<1>3. /\ Statuses(status, agent) /\ links \in Links /\ log \in Logs
      /\ LogInv(log, handoffs, clock) /\ handoffs \subseteq Package
  BY DEF Inv, Shape
<1>4. j.command = "continue" /\ s \in Sessions /\ {j.source, j.target} \subseteq Agents
  BY <1>1, <1>2 DEF Place
<1>5. key \in Keys /\ key.tag = "handoff" /\ key.mark = MarkOf(j)
  BY <1>2, MarkTypes, KeyTypes
<1>6. events \in Seq(Entry) /\ \A i \in 1 .. Len(events) : events[i].key = key
  BY <1>5, SingleBatch
<1>7. job' = [job EXCEPT ![p] = k]
  BY <1>2 DEF AppendHandoff, Goto
<1>8. /\ k \in Job /\ k.stamp = j.stamp /\ k.command = j.command /\ k.pc = "target"
      /\ k.session = s /\ k.source = j.source /\ k.target = j.target
      /\ k.package = j.package
  <2>1. "target" \in Places
    BY DEF Places
  <2>. QED  BY <1>2, <2>1 DEF Job
<1>. HIDE DEF events, key, k
<1>9. j.package \in handoffs /\ j.package.session = s /\ j.package.seen <= Len(log[s])
  BY <1>1, <1>2, <1>4 DEF JobInv
<1>10. Orderly(s, events, Len(log[s]), handoffs, clock)
  <2>1. key.mark.name # "pre-handoff" /\ key.mark.package = j.package
    BY <1>2, <1>4, <1>5, MarkNames
  <2>. QED  BY <1>5, <1>6, <1>9, <2>1 DEF Orderly
<1>11. \A q \in Processes \ {p} : \A i \in 1 .. Len(events) :
          events[i].key # Key("git", FirstMark(job[q])) \/ job[q].command # "continue"
            \/ job[q].pc # "record" \/ Ties
  BY <1>5, <1>6 DEF Key
<1>12. JobInv(k, log', handoffs)
  <2>1. AppendTo(s, events) /\ s \in Sessions /\ events \in Seq(Entry)
    BY <1>1, <1>4, <1>6
  <2>2. log' \in Logs /\ Grows(log, log')
    BY <1>10, <2>1, AppendedLogs
  <2>3. JobInv(j, log', handoffs)
    BY <1>2, <1>3, <2>2, JobStays
  <2>4. FirstMark(k) = FirstMark(j)
    BY <1>4, <1>8 DEF FirstMark
  <2>. QED  BY <1>1, <1>4, <1>8, <2>3, <2>4 DEF JobInv, Place
<1>. QED  BY <1>1, <1>2, <1>3, <1>4, <1>6, <1>7, <1>8, <1>10, <1>11, <1>12, Adding

\* What changed during the run is recorded.
LEMMA AppendReconciliationKeeps ==
  ASSUME Inv, NEW p \in Processes, AppendReconciliation(p)
  PROVE  Inv'
<1>. DEFINE j == job[p]  s == j.session  mark == MarkOf(j)
            events == Reconciliation(mark, j.before, j.after)
            pc == IF j.external = NoExternal THEN "checkpoint" ELSE "link"
            k == [j EXCEPT !.pc = pc]
<1>1. /\ j.pc = "reconcile" /\ AppendTo(s, events)
      /\ UNCHANGED <<checkpoints, handoffs, world, clock>>
      /\ status' = status /\ agent' = agent /\ links' = links
  BY DEF AppendReconciliation
<1>2. /\ j \in Job /\ job \in [Processes -> Job] /\ Place(j)
      /\ j.stamp <= clock /\ j.before \in Nat /\ j.after \in Nat
  BY AtWork
<1>3. /\ Statuses(status, agent) /\ links \in Links /\ log \in Logs
  BY DEF Inv, Shape
<1>4. j.command \in {"run", "continue"} /\ s \in Sessions /\ {j.source, j.target} \subseteq Agents
  BY <1>1, <1>2 DEF Place
<1>5. mark \in Marks
  BY <1>2, MarkTypes
<1>6. /\ events \in Seq(Entry)
      /\ \A i \in 1 .. Len(events) :
           /\ events[i].key.tag \in {"git", "files"} /\ events[i].key.mark = mark
           /\ events[i].key = Key("git", mark) => events[i].version = j.after
      /\ \E i \in 1 .. Len(events) : events[i].key = Key("git", mark)
  BY <1>2, <1>5, ReconciliationBatch
<1>7. job' = [job EXCEPT ![p] = k]
  BY <1>2 DEF AppendReconciliation, Goto
<1>8. pc \in Places /\ pc \in {"checkpoint", "link"} /\ (pc = "link" => j.external # NoExternal)
  BY DEF Places
<1>. HIDE DEF pc
<1>9. /\ k \in Job /\ k.stamp = j.stamp /\ k.command = j.command /\ k.pc = pc
      /\ k.session = s /\ k.source = j.source /\ k.target = j.target
      /\ k.package = j.package /\ k.external = j.external
      /\ j.external \in Externals \cup {NoExternal}
  BY <1>2, <1>8 DEF Job
<1>. HIDE DEF events, k
<1>10. log'[s] = Appended(log[s], events) /\ log[s] \in Seq(Entry)
  BY <1>1, <1>3, <1>4 DEF AppendTo, Logs
<1>11. Holding(log[s], events, log'[s])
  <2>1. events \in Seq(Entry)
    BY <1>6
  <2>. QED  BY <1>10, <2>1, Present
<1>12. \E g \in 1 .. Len(log'[s]) : log'[s][g].key = Key("git", mark)
  <2>1. PICK i \in 1 .. Len(events) : events[i].key = Key("git", mark)
    BY <1>6
  <2>2. \E g \in 1 .. Len(log'[s]) : log'[s][g].key = events[i].key
    BY <1>11 DEF Holding
  <2>. QED  BY <2>1, <2>2
<1>13. \A i \in 1 .. Len(events) : /\ events[i].key.tag \notin {"record", "handoff"}
                                   /\ events[i].key.mark \in {MarkOf(j), FirstMark(j)}
  BY <1>6
<1>14. Orderly(s, events, Len(log[s]), handoffs, clock)
  BY <1>13, OwnBatch
<1>15. \A q \in Processes \ {p} : \A i \in 1 .. Len(events) :
          events[i].key # Key("git", FirstMark(job[q])) \/ job[q].command # "continue"
            \/ job[q].pc # "record" \/ Ties
  <2>1. \A q \in Processes : job[q].command = "continue" =>
          Key("git", FirstMark(job[q])).mark.name = "pre-handoff"
    BY DEF Key, FirstMark, Mark
  <2>2. mark.name # "pre-handoff"
    BY <1>2, MarkNames
  <2>. QED  BY <1>6, <2>1, <2>2
<1>16. MarkOf(k) = mark
  BY <1>9 DEF MarkOf
<1>17. JobInv(k, log', handoffs)
  BY <1>4, <1>8, <1>9, <1>12, <1>16 DEF JobInv, Place
<1>. QED  BY <1>1, <1>2, <1>3, <1>4, <1>6, <1>7, <1>8, <1>9, <1>14, <1>15, <1>17, Adding

\* The checkpoint event, whose place the row is to name when it is new.
LEMMA AppendCheckpointKeeps ==
  ASSUME Inv, NEW p \in Processes, AppendCheckpoint(p)
  PROVE  Inv'
<1>. DEFINE j == job[p]  s == j.session  key == Key("checkpoint", MarkOf(j))
            events == <<Event(key, 0)>>
<1>1. /\ j.pc = "checkpoint" /\ AppendTo(s, events)
      /\ UNCHANGED <<checkpoints, handoffs, world, clock>>
      /\ status' = status /\ agent' = agent /\ links' = links
      /\ IF j.command # "continue" /\ ~ Stored(s, key)
         THEN job' = [job EXCEPT ![p].pc = "row", ![p].sequence = Len(log[s]) + 1]
         ELSE IF j.command = "checkpoint" THEN Finish(p) ELSE Goto(p, "finalize")
  BY DEF AppendCheckpoint
<1>2. /\ j \in Job /\ job \in [Processes -> Job] /\ JobInv(j, log, handoffs) /\ Place(j)
      /\ j.stamp <= clock /\ clock \in Nat
  BY AtWork
<1>3. /\ Statuses(status, agent) /\ links \in Links /\ log \in Logs
      /\ LogInv(log, handoffs, clock) /\ handoffs \subseteq Package
  BY DEF Inv, Shape
<1>4. /\ j.command \in {"run", "continue", "checkpoint"} /\ s \in Sessions
      /\ j.command \in {"run", "continue"} => {j.source, j.target} \subseteq Agents
  BY <1>1, <1>2 DEF Place
<1>5. key \in Keys /\ key.tag = "checkpoint" /\ key.mark = MarkOf(j)
  BY <1>2, MarkTypes, KeyTypes
<1>6. events \in Seq(Entry) /\ Len(events) = 1 /\ \A i \in 1 .. Len(events) : events[i].key = key
  BY <1>5, SingleBatch
<1>. HIDE DEF events, key
<1>7. \A i \in 1 .. Len(events) : /\ events[i].key.tag \notin {"record", "handoff"}
                                  /\ events[i].key.mark \in {MarkOf(j), FirstMark(j)}
  BY <1>5, <1>6
<1>8. Orderly(s, events, Len(log[s]), handoffs, clock)
  BY <1>7, OwnBatch
<1>9. \A q \in Processes \ {p} : \A i \in 1 .. Len(events) :
          events[i].key # Key("git", FirstMark(job[q])) \/ job[q].command # "continue"
            \/ job[q].pc # "record" \/ Ties
  BY <1>5, <1>6 DEF Key
<1>10. CASE j.command # "continue" /\ ~ Stored(s, key)
  <2>. DEFINE n == Len(log[s]) + 1  k == [j EXCEPT !.pc = "row", !.sequence = n]
  <2>1. Len(log[s]) \in Nat /\ log[s] \in Seq(Entry)
    BY <1>3, <1>4 DEF Logs
  <2>2. job' = [job EXCEPT ![p] = k]
    BY <1>1, <1>2, <1>10
  <2>3. n \in Nat
    BY <2>1
  <2>. HIDE DEF n
  <2>4. /\ k \in Job /\ k.stamp = j.stamp /\ k.command = j.command /\ k.pc = "row"
        /\ k.session = s /\ k.source = j.source /\ k.target = j.target
        /\ k.package = j.package /\ k.sequence = n
    <3>1. "row" \in Places /\ n \in Numbers
      BY <2>3 DEF Places, Numbers
    <3>. QED  BY <1>2, <3>1 DEF Job
  <2>. HIDE DEF k
  <2>5. log'[s] = Appended(log[s], events)
    BY <1>1, <1>3, <1>4 DEF AppendTo, Logs
  <2>6. log' \in Logs /\ Grows(log, log')
    <3>1. AppendTo(s, events) /\ s \in Sessions /\ events \in Seq(Entry)
      BY <1>1, <1>4, <1>6
    <3>. QED  BY <1>8, <3>1, AppendedLogs
  <2>7. Len(log'[s]) \in Nat /\ \A i \in 1 .. Len(log[s]) : log'[s][i] = log[s][i]
    BY <1>4, <2>6 DEF Grows, Logs
  <2>8. n \in 1 .. Len(log'[s]) /\ log'[s][n].key = key
    <3>1. Grown(log[s], events, Len(events), log'[s])
      <4>1. events \in Seq(Entry)
        BY <1>6
      <4>. QED  BY <2>1, <2>5, <4>1, AppendedGrows
    <3>2. Holding(log[s], events, log'[s])
      <4>1. events \in Seq(Entry)
        BY <1>6
      <4>. QED  BY <2>1, <2>5, <4>1, Present
    <3>3. ~ HasKey(log[s], events[1].key)
      BY <1>6, <1>10 DEF Stored
    <3>4. \E i \in 1 .. Len(log'[s]) : i > Len(log[s])
      BY <1>6, <3>2, <3>3 DEF Holding
    <3>5. n \in Len(log[s]) + 1 .. Len(log'[s])
      BY <2>1, <2>7, <3>4 DEF n
    <3>6. \E i \in 1 .. Len(events) : log'[s][n] = events[i]
      BY <3>1, <3>5 DEF Grown
    <3>. QED  BY <1>6, <2>1, <2>7, <3>5, <3>6
  <2>9. \E g \in 1 .. n - 1 : log'[s][g].key = Key("git", MarkOf(j))
    <3>1. PICK g \in 1 .. Len(log[s]) : log[s][g].key = Key("git", MarkOf(j))
      BY <1>1, <1>2 DEF JobInv
    <3>. QED  BY <2>1, <2>7, <3>1 DEF n
  <2>10. MarkOf(k) = MarkOf(j)
    BY <2>4 DEF MarkOf
  <2>11. JobInv(k, log', handoffs)
    BY <1>4, <1>10, <2>4, <2>8, <2>9, <2>10 DEF JobInv, Place, key
  <2>. QED  BY <1>1, <1>2, <1>3, <1>4, <1>6, <1>8, <1>9, <2>2, <2>4, <2>11, Adding
<1>11. CASE ~ (j.command # "continue" /\ ~ Stored(s, key)) /\ j.command = "checkpoint"
  <2>1. job' = [job EXCEPT ![p] = Idle]
    BY <1>1, <1>11 DEF Finish
  <2>2. Idle \in Job /\ Idle.pc = "idle" /\ Idle.stamp = 0 /\ JobInv(Idle, log', handoffs)
    BY <1>4, IdleKeeps
  <2>3. Idle.stamp <= clock
    BY <1>2, <2>2
  <2>. QED  BY <1>1, <1>2, <1>3, <1>4, <1>6, <1>8, <1>9, <2>1, <2>2, <2>3, Adding
<1>12. CASE ~ (j.command # "continue" /\ ~ Stored(s, key)) /\ j.command # "checkpoint"
  <2>. DEFINE k == [j EXCEPT !.pc = "finalize"]
  <2>1. job' = [job EXCEPT ![p] = k]
    BY <1>1, <1>2, <1>12 DEF Goto
  <2>2. /\ k \in Job /\ k.stamp = j.stamp /\ k.command = j.command /\ k.pc = "finalize"
        /\ k.session = s /\ k.source = j.source /\ k.target = j.target
    <3>1. "finalize" \in Places
      BY DEF Places
    <3>. QED  BY <1>2, <3>1 DEF Job
  <2>. HIDE DEF k
  <2>3. JobInv(k, log', handoffs)
    BY <1>4, <1>12, <2>2 DEF JobInv, Place
  <2>. QED  BY <1>1, <1>2, <1>3, <1>4, <1>6, <1>8, <1>9, <2>1, <2>2, <2>3, Adding
<1>. QED  BY <1>10, <1>11, <1>12

\* The transcript and the link of an import are stored.
LEMMA StoreBundleKeeps ==
  ASSUME Inv, NEW p \in Processes, StoreBundle(p)
  PROVE  Inv'
<1>. DEFINE j == job[p]  s == j.session  events == Transcript(j.external, j.count, j.full)
<1>1. /\ j.pc = "bundle" /\ AppendTo(s, events)
      /\ UNCHANGED <<checkpoints, handoffs, world, clock>>
      /\ links' = Linked(s, j.external, j.full) /\ Finish(p)
      /\ \/ SetStatus(s, "paused", j.target)
         \/ status' = status /\ agent' = agent
  BY DEF StoreBundle
<1>2. /\ j \in Job /\ job \in [Processes -> Job] /\ Place(j)
      /\ clock \in Nat /\ j.count \in Nat /\ j.full \in BOOLEAN
  BY AtWork
<1>3. /\ Statuses(status, agent) /\ links \in Links
  BY DEF Inv, Shape
<1>4. s \in Sessions /\ j.external \in Externals /\ j.target \in Agents
  BY <1>1, <1>2 DEF Place
<1>5. Statuses(status', agent')
  <2>1. CASE SetStatus(s, "paused", j.target)
    BY <1>3, <1>4, <2>1, StatusesStay
  <2>2. CASE status' = status /\ agent' = agent
    BY <1>3, <2>2
  <2>. QED  BY <1>1, <2>1, <2>2
<1>6. links' \in Links
  BY <1>1, <1>2, <1>3, <1>4, LinkedLinks
<1>7. /\ events \in Seq(Entry) /\ Orderly(s, events, Len(log[s]), handoffs, clock)
      /\ \A i \in 1 .. Len(events) : events[i].key.tag = "record"
  BY <1>2, <1>4, TranscriptBatch
<1>. HIDE DEF events
<1>8. \A q \in Processes \ {p} : \A i \in 1 .. Len(events) :
          events[i].key # Key("git", FirstMark(job[q])) \/ job[q].command # "continue"
            \/ job[q].pc # "record" \/ Ties
  BY <1>7 DEF Key
<1>9. job' = [job EXCEPT ![p] = Idle]
  BY <1>1 DEF Finish
<1>10. Idle \in Job /\ Idle.pc = "idle" /\ Idle.stamp = 0 /\ JobInv(Idle, log', handoffs)
  BY <1>4, IdleKeeps
<1>11. Idle.stamp <= clock
  BY <1>2, <1>10
<1>. QED  BY <1>1, <1>4, <1>5, <1>6, <1>7, <1>8, <1>9, <1>10, <1>11, Adding

-----------------------------------------------------------------------------
\* A command starts before it has read the clock.
LEMMA Starting ==
  ASSUME Inv, NEW p \in Processes, NEW j \in Job, Start(p, j), Statuses(status', agent'),
         j.pc \in {"before", "refresh", "export"}, Place(j), j.stamp = 0
  PROVE  Inv'
<1>1. /\ job[p].pc = "idle" /\ job' = [job EXCEPT ![p] = j] /\ clock' = clock
      /\ log' = log /\ links' = links /\ checkpoints' = checkpoints /\ handoffs' = handoffs
      /\ project' = project /\ records' = records
  BY DEF Start, world
<1>2. job \in [Processes -> Job] /\ clock \in Nat
  BY DEF Inv, Shape
<1>3. job'[p] = j /\ \A q \in Processes : q # p => job'[q] = job[q]
  BY <1>1, <1>2
<1>4. Shape'
  BY <1>1 DEF Inv, Shape
<1>5. Stamps'
  BY <1>1, <1>2, <1>3 DEF Inv, Stamps
<1>6. JobInv(j, log, handoffs) /\ Unrecorded(j, log)
  BY DEF JobInv, Place, Unrecorded
<1>7. \A q \in Processes : JobInv(job'[q], log', handoffs') /\ Unrecorded(job'[q], log')
  BY <1>1, <1>3, <1>6 DEF Inv
<1>8. LogInv(log', handoffs', clock') /\ CheckpointInv(checkpoints', log')
  BY <1>1 DEF Inv
<1>. QED  BY <1>4, <1>5, <1>7, <1>8 DEF Inv

\* A new session.
LEMMA StartRunKeeps ==
  ASSUME Inv, NEW p \in Processes, StartRun(p)
  PROVE  Inv'
<1>1. PICK s \in Sessions, a \in Targets[p] :
        /\ Start(p, [Idle EXCEPT !.pc = "before", !.command = "run", !.session = s,
                                 !.source = a, !.target = a])
        /\ SetStatus(s, "active", a)
  BY DEF StartRun
<1>. DEFINE j == [Idle EXCEPT !.pc = "before", !.command = "run", !.session = s,
                              !.source = a, !.target = a]
<1>2. a \in Agents
  BY TargetsEach
<1>3. Statuses(status', agent')
  BY <1>1, <1>2, StatusesStay DEF Inv, Shape
<1>4. /\ j \in Job /\ j.pc = "before" /\ j.command = "run" /\ j.session = s /\ j.source = a
      /\ j.target = a /\ j.stamp = 0
  <2>1. Idle \in Job /\ Idle.stamp = 0
    BY IdleKeeps
  <2>2. "before" \in Places /\ "run" \in Names
    BY DEF Places, Names
  <2>. QED  BY <1>2, <2>1, <2>2 DEF Job
<1>5. Start(p, j)
  BY <1>1
<1>. HIDE DEF j
<1>6. Place(j)
  BY <1>2, <1>4 DEF Place
<1>. QED  BY <1>3, <1>4, <1>5, <1>6, Starting

\* A session goes on with another agent, or the same.
LEMMA StartContinueKeeps ==
  ASSUME Inv, NEW p \in Processes, StartContinue(p)
  PROVE  Inv'
<1>1. PICK s \in Existing : \E a \in Targets[p], from \in Sources(s) :
        /\ Start(p, [Idle EXCEPT !.pc = "refresh", !.command = "continue", !.session = s,
                                 !.source = from, !.target = a])
        /\ UNCHANGED <<status, agent>>
  BY DEF StartContinue
<1>2. PICK a \in Targets[p], from \in Sources(s) :
        /\ Start(p, [Idle EXCEPT !.pc = "refresh", !.command = "continue", !.session = s,
                                 !.source = from, !.target = a])
        /\ UNCHANGED <<status, agent>>
  BY <1>1
<1>. DEFINE j == [Idle EXCEPT !.pc = "refresh", !.command = "continue", !.session = s,
                              !.source = from, !.target = a]
<1>3. Statuses(status, agent) /\ Statuses(status', agent')
  BY <1>2 DEF Inv, Shape
<1>4. s \in Sessions /\ a \in Agents /\ from \in Agents
  <2>1. s \in Sessions /\ status[s] # "none"
    BY DEF Existing
  <2>2. agent[s] \in Agents
    BY <1>3, <2>1 DEF Statuses
  <2>. QED  BY <2>1, <2>2, TargetsEach DEF Sources
<1>5. /\ j \in Job /\ j.pc = "refresh" /\ j.command = "continue" /\ j.session = s
      /\ j.source = from /\ j.target = a /\ j.stamp = 0
  <2>1. Idle \in Job /\ Idle.stamp = 0
    BY <1>4, IdleKeeps
  <2>2. "refresh" \in Places /\ "continue" \in Names
    BY DEF Places, Names
  <2>. QED  BY <1>4, <2>1, <2>2 DEF Job
<1>6. Start(p, j)
  BY <1>2
<1>. HIDE DEF j
<1>7. Place(j)
  BY <1>4, <1>5 DEF Place
<1>. QED  BY <1>3, <1>5, <1>6, <1>7, Starting

\* A checkpoint.
LEMMA StartCheckpointKeeps ==
  ASSUME Inv, NEW p \in Processes, StartCheckpoint(p)
  PROVE  Inv'
<1>1. PICK s \in Existing :
        /\ Start(p, [Idle EXCEPT !.pc = "before", !.command = "checkpoint", !.session = s])
        /\ UNCHANGED <<status, agent>>
  BY DEF StartCheckpoint
<1>. DEFINE j == [Idle EXCEPT !.pc = "before", !.command = "checkpoint", !.session = s]
<1>2. Statuses(status', agent') /\ s \in Sessions
  BY <1>1 DEF Inv, Shape, Existing
<1>3. j \in Job /\ j.pc = "before" /\ j.command = "checkpoint" /\ j.session = s /\ j.stamp = 0
  <2>1. Idle \in Job /\ Idle.stamp = 0
    BY <1>2, IdleKeeps
  <2>2. "before" \in Places /\ "checkpoint" \in Names
    BY DEF Places, Names
  <2>. QED  BY <1>2, <2>1, <2>2 DEF Job
<1>4. Start(p, j)
  BY <1>1
<1>. HIDE DEF j
<1>5. Place(j)
  BY <1>2, <1>3 DEF Place
<1>. QED  BY <1>2, <1>3, <1>4, <1>5, Starting

\* An import.
LEMMA StartImportKeeps ==
  ASSUME Inv, NEW p \in Processes, StartImport(p)
  PROVE  Inv'
<1>1. PICK x \in Importable, s \in Sessions, full \in BOOLEAN :
        /\ Start(p, [Idle EXCEPT !.pc = "export", !.command = "import", !.session = s,
                                 !.external = x, !.target = AgentOf[x], !.full = full])
        /\ UNCHANGED <<status, agent>>
  BY DEF StartImport
<1>. DEFINE a == AgentOf[x]
            j == [Idle EXCEPT !.pc = "export", !.command = "import", !.session = s,
                              !.external = x, !.target = a, !.full = full]
<1>2. x \in Externals /\ a \in Agents
  BY Subsets, AgentOfEach
<1>3. Statuses(status', agent')
  BY <1>1 DEF Inv, Shape
<1>4. Start(p, j)
  BY <1>1
<1>. HIDE DEF a
<1>5. /\ j \in Job /\ j.pc = "export" /\ j.command = "import" /\ j.session = s
      /\ j.external = x /\ j.target = a /\ j.stamp = 0
  <2>1. Idle \in Job /\ Idle.stamp = 0
    BY IdleKeeps
  <2>2. "export" \in Places /\ "import" \in Names /\ full \in Flags
    BY DEF Places, Names, Flags
  <2>. QED  BY <1>2, <2>1, <2>2 DEF Job
<1>. HIDE DEF j
<1>6. Place(j)
  BY <1>2, <1>5 DEF Place
<1>. QED  BY <1>3, <1>4, <1>5, <1>6, Starting

\* In the beginning nothing is stored and nothing runs.
LEMMA Initially ==
  ASSUME Init
  PROVE  Inv
<1>1. \A s \in Sessions : log[s] = <<>> /\ Len(log[s]) = 0
  BY DEF Init
<1>2. \A p \in Processes : job[p] = Idle
  BY DEF Init
<1>3. Idle \in Job /\ Idle.pc = "idle" /\ Idle.stamp = 0 /\ JobInv(Idle, log, handoffs)
      /\ Unrecorded(Idle, log)
  BY IdleKeeps DEF Unrecorded
<1>4. Shape
  <2>1. log \in Logs
    BY DEF Init, Logs
  <2>2. links \in Links /\ checkpoints \subseteq Rows /\ handoffs \subseteq Package
    BY DEF Init, Links
  <2>3. job \in [Processes -> Job]
    BY <1>3 DEF Init
  <2>4. project \in Nat /\ records \in [Externals -> Nat] /\ clock \in Nat
    BY DEF Init
  <2>5. Statuses(status, agent)
    BY DEF Init, Statuses
  <2>. QED  BY <2>1, <2>2, <2>3, <2>4, <2>5 DEF Shape
<1>5. Stamps
  BY <1>2, <1>3 DEF Init, Stamps
<1>6. LogInv(log, handoffs, clock)
  BY <1>1 DEF LogInv, Distinct
<1>7. CheckpointInv(checkpoints, log)
  BY DEF Init, CheckpointInv
<1>. QED  BY <1>2, <1>3, <1>4, <1>5, <1>6, <1>7 DEF Inv

\* Nothing happens.
LEMMA StutterKeeps ==
  ASSUME Inv, UNCHANGED vars
  PROVE  Inv'
<1>1. /\ status' = status /\ agent' = agent /\ log' = log /\ links' = links
      /\ checkpoints' = checkpoints /\ handoffs' = handoffs /\ project' = project
      /\ records' = records /\ job' = job /\ clock' = clock
  BY DEF vars, tables, world
<1>2. Shape' /\ Stamps'
  BY <1>1 DEF Inv, Shape, Stamps
<1>. QED  BY <1>1, <1>2 DEF Inv

\* The invariant is inductive.
LEMMA Inductive ==
  ASSUME Inv, [Next]_vars
  PROVE  Inv'
<1>1. CASE UNCHANGED vars
  BY <1>1, StutterKeeps
<1>2. ASSUME NEW p \in Processes,
             StartRun(p) \/ StartContinue(p) \/ StartCheckpoint(p) \/ StartImport(p)
      PROVE  Inv'
  BY <1>2, StartRunKeeps, StartContinueKeeps, StartCheckpointKeeps, StartImportKeeps
<1>3. ASSUME NEW p \in Processes, Step(p)
      PROVE  Inv'
  BY <1>3, ReadExportKeeps, StoreBundleKeeps, RefuseBundleKeeps, SkipRefreshKeeps,
     ReadRefreshKeeps, AppendRefreshedKeeps, SnapshotBeforeKeeps, RecordBeforeKeeps,
     SaveHandoffKeeps, PreviewKeeps, AppendHandoffKeeps, ReadTargetKeeps, ManualHandoffKeeps,
     ActivateKeeps, LaunchFailsKeeps, AgentExitsKeeps, ReadCaptureKeeps, AppendCapturedKeeps,
     AppendCaptureFailuresKeeps, SnapshotAfterKeeps, AppendReconciliationKeeps,
     LinkExternalKeeps, LinkConflictKeeps, AppendCheckpointKeeps, CreateCheckpointKeeps,
     FinalizeKeeps, SaveSummaryKeeps DEF Step
<1>4. ASSUME NEW p \in Processes, CutShort(p)
      PROVE  Inv'
  BY <1>4, CutShortKeeps
<1>. QED  BY <1>1, <1>2, <1>3, <1>4 DEF Next

\* The invariant holds of every behaviour of the commands.
THEOREM Invariance == Spec => []Inv
<1>1. Init => Inv
  BY Initially
<1>2. Inv /\ [Next]_vars => Inv'
  BY Inductive
<1>. QED  BY <1>1, <1>2, PTL DEF Spec

\* Every field of the tables and of the jobs keeps its type: a session has an
\* active agent exactly when its row exists (EventStore's sessions).
THEOREM TypeCorrect == Spec => []TypeOK
<1>1. Inv => TypeOK
  <2>. SUFFICES ASSUME Inv PROVE TypeOK
    OBVIOUS
  <2>1. /\ status \in [Sessions -> {"none", "active", "paused", "failed"}]
        /\ agent \in [Sessions -> Agents \cup {NoAgent}]
        /\ \A s \in Sessions : status[s] = "none" <=> agent[s] = NoAgent
    BY DEF Inv, Shape, Statuses
  <2>2. \A s \in Sessions : \A i \in DOMAIN log[s] :
           log[s][i].key \in Keys /\ log[s][i].version \in Nat
    <3>1. \A s \in Sessions : \A i \in DOMAIN log[s] : log[s][i] \in Entry
      BY DEF Inv, Shape, Logs
    <3>. QED  BY <3>1 DEF Entry
  <2>3. \A i \in DOMAIN links : links[i].session \in Sessions /\ links[i].external \in Externals
                                   /\ links[i].full \in BOOLEAN
    <3>. DEFINE R == [session : Sessions, external : Externals, full : BOOLEAN]
    <3>1. links \in Seq(R)
      BY DEF Inv, Shape, Links
    <3>. HIDE DEF R
    <3>2. \A i \in DOMAIN links : links[i] \in R
      BY <3>1
    <3>. QED  BY <3>2 DEF R
  <2>4. handoffs \subseteq Package
    BY DEF Inv, Shape
  <2>5. ASSUME NEW p \in Processes
        PROVE  /\ job[p].session \in Sessions \cup {NoSession}
               /\ {job[p].source, job[p].target} \subseteq Agents \cup {NoAgent}
               /\ job[p].external \in Externals \cup {NoExternal}
               /\ job[p].package \in Package \cup {NoPackage}
    BY DEF Inv, Shape, Job
  <2>. QED  BY <2>1, <2>2, <2>3, <2>4, <2>5 DEF TypeOK
<1>. QED  BY <1>1, Invariance, PTL

\* Every handoff event refers to a stored package of its session that was built
\* from events before it, wherever a continuation was cut short.
THEOREM HandoffsResolve == Spec => []HandoffEventsResolve
<1>1. Inv => HandoffEventsResolve
  <2>. SUFFICES ASSUME Inv, NEW s \in Sessions, NEW i \in DOMAIN log[s],
                       log[s][i].key.tag = "handoff"
                PROVE  /\ log[s][i].key.mark.package \in handoffs
                       /\ log[s][i].key.mark.package.session = s
                       /\ log[s][i].key.mark.package.seen < i
    BY DEF HandoffEventsResolve
  <2>1. i \in 1 .. Len(log[s])
    BY DEF Inv, Shape, Logs
  <2>2. EntryInv(s, log[s], i, handoffs, clock)
    BY <2>1 DEF Inv, LogInv
  <2>. QED  BY <2>2 DEF EntryInv
<1>. QED  BY <1>1, Invariance, PTL

\* Every row of the checkpoints table names the place of the checkpoint event
\* of its own command, after the project state that command recorded.
THEOREM CheckpointsNameEvents == Spec => []CheckpointsNameTheirEvent
<1>1. Inv => CheckpointsNameTheirEvent
  <2>. SUFFICES ASSUME Inv, NEW c \in checkpoints
                PROVE  /\ At(c.session, c.sequence, Key("checkpoint", c.mark))
                       /\ \E g \in 1 .. c.sequence - 1 : At(c.session, g, Key("git", c.mark))
    BY DEF CheckpointsNameTheirEvent
  <2>1. c.session \in Sessions
    BY DEF Inv, Shape, Rows
  <2>2. Len(log[c.session]) \in Nat /\ DOMAIN log[c.session] = 1 .. Len(log[c.session])
    BY <2>1 DEF Inv, Shape, Logs
  <2>3. /\ c.sequence \in 1 .. Len(log[c.session])
        /\ log[c.session][c.sequence].key = Key("checkpoint", c.mark)
        /\ \E g \in 1 .. c.sequence - 1 : log[c.session][g].key = Key("git", c.mark)
    BY DEF Inv, CheckpointInv
  <2>. QED  BY <2>2, <2>3 DEF At
<1>. QED  BY <1>1, Invariance, PTL

\* When no two readings of the clock are equal, an agent that continues a session
\* is launched with a package that covers the project state its own command
\* recorded, whatever other commands do.
THEOREM HandoffsAreCurrent == ~ Ties /\ Spec => []HandoffIsCurrent
<1>1. ~ Ties /\ Inv => HandoffIsCurrent
  <2>. SUFFICES ASSUME ~ Ties, Inv, NEW p \in Processes,
                       job[p].command = "continue", job[p].pc = "launch"
                PROVE  \E g \in 1 .. job[p].package.seen :
                         /\ At(job[p].session, g, Key("git", FirstMark(job[p])))
                         /\ log[job[p].session][g].version = job[p].package.version
    BY DEF HandoffIsCurrent
  <2>. DEFINE j == job[p]
  <2>1. j \in Job /\ JobInv(j, log, handoffs) /\ Place(j)
    BY AtWork
  <2>2. j.session \in Sessions
    BY <2>1 DEF Place
  <2>3. Len(log[j.session]) \in Nat /\ DOMAIN log[j.session] = 1 .. Len(log[j.session])
    BY <2>2 DEF Inv, Shape, Logs
  <2>4. j.package.seen \in Nat
    <3>1. j.package \in Package \cup {NoPackage}
      BY <2>1 DEF Job
    <3>. QED  BY <3>1 DEF Package, NoPackage
  <2>5. /\ j.package.seen <= Len(log[j.session])
        /\ \E g \in 1 .. j.package.seen :
             /\ log[j.session][g].key = Key("git", FirstMark(j))
             /\ log[j.session][g].version = j.package.version
    BY <2>1 DEF JobInv
  <2>. QED  BY <2>3, <2>4, <2>5 DEF At
<1>2. CASE ~ Ties
  BY <1>1, <1>2, Invariance, PTL
<1>. QED  BY <1>2

\* The records of an external session stand in transcript order in a log, once
\* each for each form they were exported in, however many processes refresh,
\* import and capture it.
THEOREM TranscriptsStayInOrder == Spec => []RecordsInOrder
<1>1. Inv => RecordsInOrder
  <2>. SUFFICES ASSUME Inv, NEW s \in Sessions, NEW i \in DOMAIN log[s],
                       log[s][i].key.tag = "record"
                PROVE  /\ \A h \in DOMAIN log[s] : log[s][h].key = log[s][i].key => h = i
                       /\ \A n \in 1 .. log[s][i].key.n - 1 : \E h \in 1 .. i - 1 :
                            At(s, h, RecordKey(log[s][i].key.external, n, log[s][i].key.full))
    BY DEF RecordsInOrder
  <2>1. DOMAIN log[s] = 1 .. Len(log[s]) /\ Len(log[s]) \in Nat
    BY DEF Inv, Shape, Logs
  <2>2. Distinct(log[s]) /\ EntryInv(s, log[s], i, handoffs, clock)
    BY <2>1 DEF Inv, LogInv
  <2>3. \A h \in DOMAIN log[s] : log[s][h].key = log[s][i].key => h = i
    BY <2>1, <2>2 DEF Distinct
  <2>4. \A n \in 1 .. log[s][i].key.n - 1 : \E h \in 1 .. i - 1 :
          log[s][h].key = RecordKey(log[s][i].key.external, n, log[s][i].key.full)
    BY <2>2 DEF EntryInv
  <2>5. \A h \in 1 .. i - 1 : h \in DOMAIN log[s]
    BY <2>1
  <2>. QED  BY <2>3, <2>4, <2>5 DEF At
<1>. QED  BY <1>1, Invariance, PTL

-----------------------------------------------------------------------------
\* A job that will set the status of a session.
Owner(j, s) ==
  /\ j.session = s
  /\ \/ j.command = "run" /\ j.pc \in {"before", "record"} \cup Finalizing
     \/ j.command = "continue" /\ j.pc \in Finalizing

\* A step of p neither activates a session that p does not own afterwards nor
\* gives up a session that stays active.
Responsible(p) ==
  /\ \A q \in Processes : q # p => job'[q] = job[q]
  /\ \A s \in Sessions :
       /\ status'[s] = "active" => status[s] = "active" \/ Owner(job'[p], s)
       /\ Owner(job[p], s) => Owner(job'[p], s) \/ status'[s] # "active"

\* What the steps need of the invariant.
LEMMA Staffed ==
  ASSUME Inv, NEW p \in Processes
  PROVE  /\ Place(job[p]) /\ job \in [Processes -> Job] /\ job[p] \in Job
         /\ status \in [Sessions -> {"none", "active", "paused", "failed"}]
<1>1. Place(job[p]) /\ job \in [Processes -> Job] /\ job[p] \in Job
  BY AtWork
<1>. QED  BY <1>1 DEF Inv, Shape, Statuses

\* Every step but a fault and a refused link.
LEMMA StepsAreResponsible ==
  ASSUME Inv, NEW p \in Processes,
         \/ StartRun(p) \/ StartContinue(p) \/ StartCheckpoint(p) \/ StartImport(p)
         \/ Step(p) /\ ~ LinkConflict(p)
  PROVE  Responsible(p)
<1>1. CASE StartRun(p)
  <2>1. PICK s \in Sessions, a \in Targets[p] :
          /\ Start(p, [Idle EXCEPT !.pc = "before", !.command = "run", !.session = s,
                                   !.source = a, !.target = a])
          /\ SetStatus(s, "active", a)
    BY <1>1 DEF StartRun
  <2>2. /\ job' = [job EXCEPT ![p] = [Idle EXCEPT !.pc = "before", !.command = "run", !.session = s,
                                        !.source = a, !.target = a]]
        /\ job[p].pc = "idle"
    BY <2>1 DEF Start
  <2>3. /\ job'[p].pc = "before" /\ job'[p].command = "run" /\ job'[p].session = s
        /\ \A q \in Processes : q # p => job'[q] = job[q]
    BY <2>2, Staffed DEF Idle
  <2>4. \A t \in Sessions : t # s => status'[t] = status[t]
    BY <2>1, Staffed DEF SetStatus
  <2>5. \A t \in Sessions : ~ Owner(job[p], t)
    BY <2>2 DEF Owner, Finalizing
  <2>. QED  BY <2>3, <2>4, <2>5 DEF Responsible, Owner
<1>2. CASE StartContinue(p)
  BY <1>2, Staffed DEF StartContinue, Start, Responsible, Owner, Finalizing, Place, Job, Idle
<1>3. CASE StartCheckpoint(p)
  BY <1>3, Staffed DEF StartCheckpoint, Start, Responsible, Owner, Finalizing, Place, Job, Idle
<1>4. CASE StartImport(p)
  BY <1>4, Staffed DEF StartImport, Start, Responsible, Owner, Finalizing, Place, Job, Idle
<1>5. CASE ReadExport(p)
  BY <1>5, Staffed DEF ReadExport, Finish, Responsible, Owner, Finalizing, Place, Job, tables, Idle
<1>6. CASE StoreBundle(p)
  BY <1>6, Staffed DEF StoreBundle, Finish, SetStatus, Responsible, Owner, Finalizing, Place, Job, Idle
<1>7. CASE RefuseBundle(p)
  BY <1>7, Staffed DEF RefuseBundle, Finish, Responsible, Owner, Finalizing, Place, Job, tables, Idle
<1>8. CASE SkipRefresh(p)
  BY <1>8, Staffed DEF SkipRefresh, Goto, Responsible, Owner, Finalizing, Place, Job, tables
<1>9. CASE ReadRefresh(p)
  BY <1>9, Staffed DEF ReadRefresh, Finish, Responsible, Owner, Finalizing, Place, Job, tables, Idle
<1>10. CASE AppendRefreshed(p)
  BY <1>10, Staffed DEF AppendRefreshed, Responsible, Owner, Finalizing, Place, Job, tables
<1>11. CASE SnapshotBefore(p)
  BY <1>11, Staffed DEF SnapshotBefore, Responsible, Owner, Finalizing, Place, Job, tables
<1>12. CASE RecordBefore(p)
  BY <1>12, Staffed DEF RecordBefore, Goto, AfterRecord, Responsible, Owner, Finalizing, Place, Job, tables
<1>13. CASE SaveHandoff(p)
  BY <1>13, Staffed DEF SaveHandoff, Responsible, Owner, Finalizing, Place, Job, tables
<1>14. CASE Preview(p)
  BY <1>14, Staffed DEF Preview, Finish, Responsible, Owner, Finalizing, Place, Job, tables, Idle
<1>15. CASE AppendHandoff(p)
  BY <1>15, Staffed DEF AppendHandoff, Goto, Responsible, Owner, Finalizing, Place, Job, tables
<1>16. CASE ReadTarget(p)
  BY <1>16, Staffed DEF ReadTarget, Responsible, Owner, Finalizing, Place, Job, tables
<1>17. CASE ManualHandoff(p)
  BY <1>17, Staffed DEF ManualHandoff, Finish, Responsible, Owner, Finalizing, Place, Job, tables, Idle
<1>18. CASE Activate(p)
  BY <1>18, Staffed DEF Activate, Goto, SetStatus, Responsible, Owner, Finalizing, Place, Job
<1>19. CASE LaunchFails(p)
  BY <1>19, Staffed DEF LaunchFails, Finish, SetStatus, Responsible, Owner, Finalizing, Place, Job, Idle
<1>20. CASE AgentExits(p)
  BY <1>20, Staffed DEF AgentExits, AfterEvents, Responsible, Owner, Finalizing, Place, Job, tables
<1>21. CASE ReadCapture(p)
  BY <1>21, Staffed DEF ReadCapture, Responsible, Owner, Finalizing, Place, Job, tables
<1>22. CASE AppendCaptured(p)
  BY <1>22, Staffed DEF AppendCaptured, Goto, AfterEvents, Responsible, Owner, Finalizing, Place, Job, tables
<1>23. CASE AppendCaptureFailures(p)
  BY <1>23, Staffed DEF AppendCaptureFailures, Goto, Responsible, Owner, Finalizing, Place, Job, tables
<1>24. CASE SnapshotAfter(p)
  BY <1>24, Staffed DEF SnapshotAfter, Responsible, Owner, Finalizing, Place, Job, tables
<1>25. CASE AppendReconciliation(p)
  BY <1>25, Staffed DEF AppendReconciliation, Goto, Responsible, Owner, Finalizing, Place, Job, tables
<1>26. CASE LinkExternal(p)
  BY <1>26, Staffed DEF LinkExternal, Goto, Responsible, Owner, Finalizing, Place, Job, tables
<1>27. CASE AppendCheckpoint(p)
  BY <1>27, Staffed DEF AppendCheckpoint, Goto, Finish, Responsible, Owner, Finalizing, Place, Job, tables, Idle
<1>28. CASE CreateCheckpoint(p)
  BY <1>28, Staffed DEF CreateCheckpoint, Goto, Finish, Responsible, Owner, Finalizing, Place, Job, tables, Idle
<1>29. CASE Finalize(p)
  BY <1>29, Staffed DEF Finalize, Goto, SetStatus, Responsible, Owner, Finalizing, Place, Job
<1>30. CASE SaveSummary(p)
  BY <1>30, Staffed DEF SaveSummary, Finish, Responsible, Owner, Finalizing, Place, Job, tables, Idle
<1>. QED  BY <1>1, <1>2, <1>3, <1>4, <1>5, <1>6, <1>7, <1>8, <1>9, <1>10, <1>11, <1>12,
     <1>13, <1>14, <1>15, <1>16, <1>17, <1>18, <1>19, <1>20, <1>21, <1>22, <1>23, <1>24,
     <1>25, <1>26, <1>27, <1>28, <1>29, <1>30 DEF Step

\* No command is cut short, or refused the link of its external session.
Uncut == \A p \in Processes : ~ (CutShort(p) \/ LinkConflict(p))

\* As long as no command is cut short or refused its link, a session is active
\* only while a command is at work on it that will set its final status.
THEOREM ActiveSessionsHaveOwner == Spec /\ [][Uncut]_vars => []ActiveHasOwner
<1>. DEFINE Owned == \A s \in Sessions : status[s] = "active" => \E p \in Processes : Owner(job[p], s)
<1>1. Init => Owned
  BY DEF Init
<1>2. Inv /\ Owned /\ [Next]_vars /\ [Uncut]_vars => Owned'
  <2>. SUFFICES ASSUME Inv, Owned, [Next]_vars, [Uncut]_vars
                PROVE  Owned'
    OBVIOUS
  <2>1. CASE UNCHANGED vars
    BY <2>1 DEF vars, tables
  <2>2. CASE Next /\ Uncut
    <3>1. PICK p \in Processes : Responsible(p)
      <4>1. PICK p \in Processes : \/ StartRun(p) \/ StartContinue(p) \/ StartCheckpoint(p)
                                   \/ StartImport(p) \/ Step(p) \/ CutShort(p)
        BY <2>2 DEF Next
      <4>2. ~ CutShort(p) /\ ~ LinkConflict(p)
        BY <2>2 DEF Uncut
      <4>. QED  BY <4>1, <4>2, StepsAreResponsible
    <3>2. ASSUME NEW s \in Sessions, status'[s] = "active"
          PROVE  \E q \in Processes : Owner(job'[q], s)
      <4>1. CASE status[s] = "active"
        <5>1. PICK q \in Processes : Owner(job[q], s)
          BY <4>1
        <5>. QED  BY <3>1, <3>2, <5>1 DEF Responsible
      <4>2. CASE status[s] # "active"
        BY <3>1, <3>2, <4>2 DEF Responsible
      <4>. QED  BY <4>1, <4>2
    <3>. QED  BY <3>2
  <2>. QED  BY <2>1, <2>2
<1>3. Owned <=> ActiveHasOwner
  BY DEF Owner, ActiveHasOwner
<1>. HIDE DEF Owned
<1>. QED  BY <1>1, <1>2, <1>3, Invariance, PTL DEF Spec


-----------------------------------------------------------------------------
(* The record of an exit.                                                  *)

\* Where a continuation holds a package that it has stored.
Packed == {"handoff", "target", "activate"} \cup Finalizing

\* The commands that will write, or have written, under the mark of an exit.
Exiting(j) == \/ j.command = "run" /\ j.pc \in {"before", "record"} \cup Finalizing
              \/ j.command = "continue" /\ j.pc \in Packed

\* The event at g is the Git state a command saw, after its capture failures.
Seen(j, l, g) ==
  /\ l[g].key = Key("git", MarkOf(j)) /\ l[g].version = j.after
  /\ j.failures => \E e \in 1 .. g : l[e].key = Key("error", MarkOf(j))

\* Nothing is under the mark of an exit before its command puts it there, and
\* everything it put there is in order.
Recorded(j, l) ==
  /\ j.pc \notin {"link", "checkpoint", "row", "finalize"} => ~ HasKey(l, Key("git", MarkOf(j)))
  /\ j.pc \notin {"row", "finalize"} => ~ HasKey(l, Key("checkpoint", MarkOf(j)))
  /\ j.pc \in {"after", "reconcile"} /\ j.failures => HasKey(l, Key("error", MarkOf(j)))
  /\ j.pc \in {"link", "checkpoint"} => \E g \in 1 .. Len(l) : Seen(j, l, g)
  /\ j.pc \in {"row", "finalize"} =>
       \E c \in 1 .. Len(l) : l[c].key = Key("checkpoint", MarkOf(j))
                              /\ \E g \in 1 .. c - 1 : Seen(j, l, g)

\* A package covers less than the log from its handoff event on.
Covered(j, l) ==
  j.command = "continue" /\ j.pc \in Packed =>
    /\ j.package.session = j.session /\ j.package.target = j.target
    /\ j.package.seen <= Len(l) /\ (j.pc # "handoff" => j.package.seen < Len(l))

ExitOf(j, l) == Exiting(j) => Recorded(j, l) /\ Covered(j, l)

\* Two jobs do not write under one mark.
Apart(j, k) ==
  /\ j.command = "run" /\ k.command = "run" => j.session # k.session
  /\ j.command = "continue" /\ j.pc \in Packed /\ k.command = "continue" /\ k.pc \in Packed =>
       j.package # k.package

\* A session without a row has no events, and no command but an import.
Rowless ==
  /\ \A s \in Sessions : status[s] = "none" => log[s] = <<>>
  /\ \A p \in Processes : job[p].pc \notin {"idle", "export", "bundle"} => status[job[p].session] # "none"

\* What continuations write comes after what their packages cover.
MarksFollow(l) ==
  \A i \in 1 .. Len(l) : l[i].key.mark.name = "continue" => l[i].key.mark.package.seen < i

ExitInv ==
  /\ Rowless
  /\ \A s \in Sessions : MarksFollow(log[s])
  /\ \A p, q \in Processes : p # q => Apart(job[p], job[q])
  /\ \A p \in Processes : ExitOf(job[p], log[job[p].session])

\* No continuation builds its package while another one of the session, to the
\* same agent, has stored its own and not yet recorded it.
NoTwins ==
  \A p, q \in Processes :
    /\ p # q /\ job[p].session = job[q].session /\ job[p].target = job[q].target
    /\ job[p].command = "continue" /\ job[q].command = "continue"
    => ~ (job[p].pc = "save" /\ job[q].pc = "handoff")

\* What a step of the command j adds to the log of its session: of the marks
\* of exits, none but its own.
Adds(l, m, j) ==
  /\ Len(l) <= Len(m) /\ \A i \in 1 .. Len(l) : m[i] = l[i]
  /\ \A i \in Len(l) + 1 .. Len(m) :
       m[i].key.mark.name \in {"run", "continue"} => Exiting(j) /\ m[i].key.mark = MarkOf(j)

\* The mark of an exit.
LEMMA ExitMark ==
  ASSUME NEW j, Exiting(j)
  PROVE  /\ MarkOf(j).name = j.command /\ j.command \in {"run", "continue"}
         /\ j.command = "continue" => MarkOf(j).package = j.package
  BY DEF Exiting, MarkOf, Mark

\* Commands that are apart have different marks.
LEMMA MarksApart ==
  ASSUME NEW j, NEW k, Exiting(j), Exiting(k), j.session = k.session, Apart(j, k)
  PROVE  MarkOf(j) # MarkOf(k)
<1>1. SUFFICES ASSUME MarkOf(j) = MarkOf(k) PROVE FALSE
  OBVIOUS
<1>2. j.command = k.command /\ (j.command = "continue" => j.package = k.package)
  BY <1>1, ExitMark
<1>. QED  BY <1>2 DEF Apart, Exiting

\* Keys have their tag and their mark.
LEMMA KeyFields ==
  ASSUME NEW tag, NEW mark
  PROVE  Key(tag, mark).tag = tag /\ Key(tag, mark).mark = mark
  BY DEF Key

\* What others add is not under the mark of an exit.
LEMMA ForeignKeys ==
  ASSUME NEW l \in Seq(Entry), NEW m \in Seq(Entry), NEW j, NEW k, Adds(l, m, k),
         Exiting(j), Exiting(k) => MarkOf(j) # MarkOf(k), NEW tag,
         HasKey(m, Key(tag, MarkOf(j)))
  PROVE  HasKey(l, Key(tag, MarkOf(j)))
<1>. DEFINE key == Key(tag, MarkOf(j))
<1>1. DOMAIN m = 1 .. Len(m) /\ DOMAIN l = 1 .. Len(l) /\ Len(l) \in Nat /\ Len(m) \in Nat
  OBVIOUS
<1>2. PICK i \in 1 .. Len(m) : m[i].key = key
  BY <1>1 DEF HasKey
<1>3. key.mark = MarkOf(j) /\ MarkOf(j).name \in {"run", "continue"}
  BY KeyFields, ExitMark
<1>4. i \notin Len(l) + 1 .. Len(m)
  BY <1>2, <1>3 DEF Adds
<1>5. i \in 1 .. Len(l)
  BY <1>1, <1>4
<1>6. m[i] = l[i]
  BY <1>5 DEF Adds
<1>. QED  BY <1>1, <1>2, <1>5, <1>6 DEF HasKey

\* A Git state that was recorded stays where it is.
LEMMA SeenStays ==
  ASSUME NEW l \in Seq(Entry), NEW m \in Seq(Entry), Len(l) <= Len(m),
         \A i \in 1 .. Len(l) : m[i] = l[i],
         NEW j, NEW g \in 1 .. Len(l), Seen(j, l, g)
  PROVE  g \in 1 .. Len(m) /\ Seen(j, m, g)
<1>1. Len(l) \in Nat /\ Len(m) \in Nat
  OBVIOUS
<1>2. g \in 1 .. Len(m) /\ m[g] = l[g] /\ \A e \in 1 .. g : m[e] = l[e]
  BY <1>1
<1>. QED  BY <1>2 DEF Seen

\* The record of an exit survives what is added beside it.
LEMMA RecordedStays ==
  ASSUME NEW l \in Seq(Entry), NEW m \in Seq(Entry), NEW j, Recorded(j, l),
         Len(l) <= Len(m), \A i \in 1 .. Len(l) : m[i] = l[i],
         HasKey(m, Key("git", MarkOf(j))) => HasKey(l, Key("git", MarkOf(j))),
         HasKey(m, Key("checkpoint", MarkOf(j))) => HasKey(l, Key("checkpoint", MarkOf(j)))
  PROVE  Recorded(j, m)
<1>1. Len(l) \in Nat /\ Len(m) \in Nat /\ DOMAIN l = 1 .. Len(l) /\ DOMAIN m = 1 .. Len(m)
  OBVIOUS
<1>2. ASSUME HasKey(l, Key("error", MarkOf(j))) PROVE HasKey(m, Key("error", MarkOf(j)))
  <2>1. PICK i \in 1 .. Len(l) : l[i].key = Key("error", MarkOf(j))
    BY <1>1, <1>2 DEF HasKey
  <2>. QED  BY <1>1, <2>1 DEF HasKey
<1>3. ASSUME j.pc \in {"link", "checkpoint"}
      PROVE  \E g \in 1 .. Len(m) : Seen(j, m, g)
  BY <1>3, SeenStays DEF Recorded
<1>4. ASSUME j.pc \in {"row", "finalize"}
      PROVE  \E c \in 1 .. Len(m) : m[c].key = Key("checkpoint", MarkOf(j))
                                    /\ \E g \in 1 .. c - 1 : Seen(j, m, g)
  <2>1. PICK c \in 1 .. Len(l) : l[c].key = Key("checkpoint", MarkOf(j))
                                 /\ \E g \in 1 .. c - 1 : Seen(j, l, g)
    BY <1>4 DEF Recorded
  <2>2. PICK g \in 1 .. c - 1 : Seen(j, l, g)
    BY <2>1
  <2>3. g \in 1 .. Len(l) /\ c \in 1 .. Len(m) /\ m[c] = l[c]
    BY <1>1
  <2>4. Seen(j, m, g)
    BY <2>2, <2>3, SeenStays
  <2>. QED  BY <2>1, <2>3, <2>4
<1>. QED  BY <1>2, <1>3, <1>4 DEF Recorded

\* The steps between which nothing is recorded under the mark of an exit.
Open == {"before", "record", "handoff", "target", "activate", "launch", "capture", "events",
         "failures", "after", "reconcile"}

\* A command that moves on without a write takes its record along.
LEMMA RecordedMoves ==
  ASSUME NEW j, NEW k, NEW l, Recorded(j, l), MarkOf(k) = MarkOf(j),
         \/ /\ {j.pc, k.pc} \subseteq Open
            /\ (k.pc \in {"after", "reconcile"} /\ k.failures) =>
                 HasKey(l, Key("error", MarkOf(j)))
         \/ /\ k.after = j.after /\ k.failures = j.failures
            /\ \/ {j.pc, k.pc} \subseteq {"link", "checkpoint"}
               \/ {j.pc, k.pc} \subseteq {"row", "finalize"}
  PROVE  Recorded(k, l)
  BY DEF Recorded, Open, Seen

-----------------------------------------------------------------------------
\* A batch of the command's own events.
LEMMA BatchAdds ==
  ASSUME NEW l \in Seq(Entry), NEW events \in Seq(Entry), NEW j,
         \A k \in 1 .. Len(events) : events[k].key.mark.name \in {"run", "continue"} =>
           Exiting(j) /\ events[k].key.mark = MarkOf(j)
  PROVE  Appended(l, events) \in Seq(Entry) /\ Adds(l, Appended(l, events), j)
<1>. DEFINE m == Appended(l, events)
<1>1. Grown(l, events, Len(events), m)
  BY AppendedGrows
<1>. HIDE DEF m
<1>2. m \in Seq(Entry) /\ Len(l) <= Len(m) /\ \A i \in 1 .. Len(l) : m[i] = l[i]
  BY <1>1 DEF Grown
<1>3. ASSUME NEW i \in Len(l) + 1 .. Len(m), m[i].key.mark.name \in {"run", "continue"}
      PROVE  Exiting(j) /\ m[i].key.mark = MarkOf(j)
  <2>1. PICK k \in 1 .. Len(events) : m[i] = events[k]
    BY <1>1 DEF Grown
  <2>. QED  BY <1>3, <2>1
<1>4. Adds(l, m, j)
  BY <1>2, <1>3 DEF Adds
<1>. QED  BY <1>2, <1>4 DEF m

\* The events a step brings are the command's own.
OwnEvents(j, events) ==
  /\ events \in Seq(Entry)
  /\ \A k \in 1 .. Len(events) : events[k].key.mark.name \in {"run", "continue"} =>
       Exiting(j) /\ events[k].key.mark = MarkOf(j)

\* What a step does to other jobs and to the logs.
Proceeds(p) ==
  /\ job' \in [Processes -> Job] /\ \A q \in Processes : q # p => job'[q] = job[q]
  /\ \A s \in Sessions :
       /\ log[s] \in Seq(Entry) /\ log'[s] \in Seq(Entry)
       /\ log'[s] = log[s] \/ (s = job[p].session /\ Adds(log[s], log'[s], job[p]))

\* A step that appends its own events.
LEMMA AppendsOwn ==
  ASSUME Inv, NEW p \in Processes, job[p].session \in Sessions, NEW events,
         OwnEvents(job[p], events), AppendTo(job[p].session, events)
  PROVE  /\ log'[job[p].session] = Appended(log[job[p].session], events)
         /\ \A s \in Sessions :
              /\ log[s] \in Seq(Entry) /\ log'[s] \in Seq(Entry)
              /\ log'[s] = log[s] \/ (s = job[p].session /\ Adds(log[s], log'[s], job[p]))
<1>. DEFINE s == job[p].session
<1>1. log \in [Sessions -> Seq(Entry)] /\ log' = [log EXCEPT ![s] = Appended(@, events)]
  BY DEF Inv, Shape, Logs, AppendTo
<1>2. log[s] \in Seq(Entry) /\ log'[s] = Appended(log[s], events)
      /\ \A t \in Sessions : t # s => log'[t] = log[t]
  BY <1>1
<1>3. log'[s] \in Seq(Entry) /\ Adds(log[s], log'[s], job[p])
  BY <1>2, BatchAdds DEF OwnEvents
<1>. QED  BY <1>1, <1>2, <1>3

\* Records are under no mark.
LEMMA TranscriptMarks ==
  ASSUME NEW x \in Externals, NEW n \in Nat, NEW full \in BOOLEAN, NEW j
  PROVE  OwnEvents(j, Transcript(x, n, full))
<1>1. Transcript(x, n, full) \in Seq(Entry)
  BY TranscriptBatch
<1>2. ASSUME NEW k \in 1 .. Len(Transcript(x, n, full))
      PROVE  Transcript(x, n, full)[k].key.mark.name = "none"
  <2>1. Transcript(x, n, full) = [i \in 1 .. n |-> Event(RecordKey(x, i, full), 0)]
    BY DEF Transcript
  <2>2. Len(Transcript(x, n, full)) = n
    BY <2>1
  <2>. QED  BY <2>1, <2>2 DEF Event, RecordKey, NoMark, Mark
<1>. QED  BY <1>1, <1>2 DEF OwnEvents

\* An event under the command's own mark.
LEMMA SingleMarks ==
  ASSUME NEW j \in Job, Exiting(j) \/ MarkOf(j).name \notin {"run", "continue"},
         NEW tag \in {"error", "handoff", "checkpoint"}
  PROVE  /\ OwnEvents(j, <<Event(Key(tag, MarkOf(j)), 0)>>)
         /\ Len(<<Event(Key(tag, MarkOf(j)), 0)>>) = 1
         /\ <<Event(Key(tag, MarkOf(j)), 0)>>[1].key = Key(tag, MarkOf(j))
<1>. DEFINE key == Key(tag, MarkOf(j))  events == <<Event(key, 0)>>
<1>1. key \in Keys /\ key.mark = MarkOf(j)
  BY MarkTypes, KeyTypes
<1>2. events \in Seq(Entry) /\ Len(events) = 1 /\ events[1].key = key
  BY <1>1, SingleBatch
<1>. HIDE DEF events, key
<1>3. \A k \in 1 .. Len(events) : events[k].key.mark = MarkOf(j)
  BY <1>1, <1>2
<1>. QED  BY <1>2, <1>3 DEF OwnEvents, events, key

\* A reconciliation.
LEMMA ReconciliationMarks ==
  ASSUME NEW j \in Job, NEW mark \in Marks, NEW before \in Nat, NEW after \in Nat,
         (Exiting(j) /\ mark = MarkOf(j)) \/ mark.name \notin {"run", "continue"}
  PROVE  OwnEvents(j, Reconciliation(mark, before, after))
<1>. DEFINE events == Reconciliation(mark, before, after)
<1>1. events \in Seq(Entry) /\ \A k \in 1 .. Len(events) : events[k].key.mark = mark
  BY ReconciliationBatch
<1>. HIDE DEF events
<1>. QED  BY <1>1 DEF OwnEvents, events

\* The events each step appends are its own.
LEMMA StepsAppendOwn ==
  ASSUME Inv, NEW p \in Processes
  PROVE  /\ StoreBundle(p) => OwnEvents(job[p], Transcript(job[p].external, job[p].count, job[p].full))
         /\ AppendRefreshed(p) =>
              OwnEvents(job[p], Transcript(job[p].external, job[p].count, job[p].full))
         /\ AppendCaptured(p) => OwnEvents(job[p], Transcript(job[p].external, job[p].count, FALSE))
         /\ RecordBefore(p) =>
              OwnEvents(job[p], Reconciliation(FirstMark(job[p]), job[p].before, job[p].before))
         /\ AppendHandoff(p) => OwnEvents(job[p], <<Event(Key("handoff", MarkOf(job[p])), 0)>>)
         /\ AppendCaptureFailures(p) =>
              OwnEvents(job[p], <<Event(Key("error", MarkOf(job[p])), 0)>>)
         /\ AppendReconciliation(p) =>
              OwnEvents(job[p], Reconciliation(MarkOf(job[p]), job[p].before, job[p].after))
         /\ AppendCheckpoint(p) => OwnEvents(job[p], <<Event(Key("checkpoint", MarkOf(job[p])), 0)>>)
<1>. DEFINE j == job[p]
<1>1. /\ j \in Job /\ Place(j) /\ j.count \in Nat /\ j.before \in Nat /\ j.after \in Nat
      /\ j.full \in BOOLEAN
  BY AtWork
<1>2. MarkOf(j) \in Marks /\ FirstMark(j) \in Marks
  BY <1>1, MarkTypes
<1>3. j.pc \in {"bundle", "refreshed", "events"} => j.external \in Externals
  BY <1>1 DEF Place
<1>4. StoreBundle(p) \/ AppendRefreshed(p) \/ AppendCaptured(p) => j.external \in Externals
  BY <1>3 DEF StoreBundle, AppendRefreshed, AppendCaptured
<1>5. ASSUME RecordBefore(p) PROVE FirstMark(j).name \notin {"run", "continue"}
  <2>1. j.command \in {"run", "continue", "checkpoint"}
    BY <1>1, <1>5 DEF Place, RecordBefore
  <2>. QED  BY <2>1 DEF FirstMark, MarkOf, Mark
<1>6. ASSUME AppendHandoff(p) \/ AppendCaptureFailures(p) \/ AppendReconciliation(p)
      PROVE  Exiting(j)
  BY <1>1, <1>6 DEF Place, AppendHandoff, AppendCaptureFailures, AppendReconciliation, Exiting,
     Packed, Finalizing
<1>7. ASSUME AppendCheckpoint(p)
      PROVE  Exiting(j) \/ MarkOf(j).name \notin {"run", "continue"}
  <2>1. j.pc = "checkpoint" /\ j.command \in {"run", "continue", "checkpoint"}
    BY <1>1, <1>7 DEF Place, AppendCheckpoint
  <2>. QED  BY <2>1 DEF Exiting, Packed, Finalizing, MarkOf, Mark
<1>. HIDE DEF j
<1>8. /\ StoreBundle(p) \/ AppendRefreshed(p) =>
           OwnEvents(j, Transcript(j.external, j.count, j.full))
      /\ AppendCaptured(p) => OwnEvents(j, Transcript(j.external, j.count, FALSE))
  BY <1>1, <1>4, TranscriptMarks
<1>9. RecordBefore(p) => OwnEvents(j, Reconciliation(FirstMark(j), j.before, j.before))
  BY <1>1, <1>2, <1>5, ReconciliationMarks
<1>10. AppendReconciliation(p) => OwnEvents(j, Reconciliation(MarkOf(j), j.before, j.after))
  BY <1>1, <1>2, <1>6, ReconciliationMarks
<1>11. /\ AppendHandoff(p) => OwnEvents(j, <<Event(Key("handoff", MarkOf(j)), 0)>>)
       /\ AppendCaptureFailures(p) => OwnEvents(j, <<Event(Key("error", MarkOf(j)), 0)>>)
       /\ AppendCheckpoint(p) => OwnEvents(j, <<Event(Key("checkpoint", MarkOf(j)), 0)>>)
  BY <1>1, <1>6, <1>7, SingleMarks
<1>. QED  BY <1>8, <1>9, <1>10, <1>11 DEF j

\* A step changes no job but its own, and appends its own events or nothing.
LEMMA StepsProceed ==
  ASSUME Inv, Inv', NEW p \in Processes,
         \/ StartRun(p) \/ StartContinue(p) \/ StartCheckpoint(p) \/ StartImport(p)
         \/ Step(p) \/ CutShort(p)
  PROVE  Proceeds(p)
<1>1. /\ job' \in [Processes -> Job] /\ log' \in [Sessions -> Seq(Entry)]
      /\ job \in [Processes -> Job] /\ log \in [Sessions -> Seq(Entry)]
  BY DEF Inv, Shape, Logs
<1>2. \A q \in Processes : q # p => job'[q] = job[q]
  BY <1>1 DEF StartRun, StartContinue, StartCheckpoint, StartImport, Start, Step, CutShort, Abandon,
     Finish, Goto, ReadExport, StoreBundle, RefuseBundle, SkipRefresh, ReadRefresh, AppendRefreshed,
     SnapshotBefore, RecordBefore, SaveHandoff, Preview, AppendHandoff, ReadTarget, ManualHandoff,
     Activate, LaunchFails, AgentExits, ReadCapture, AppendCaptured, AppendCaptureFailures,
     SnapshotAfter, AppendReconciliation, LinkExternal, LinkConflict, AppendCheckpoint,
     CreateCheckpoint, Finalize, SaveSummary
<1>. DEFINE Brings(events) == AppendTo(job[p].session, events) /\ OwnEvents(job[p], events)
                                  /\ job[p].pc # "idle"
<1>3. log' = log \/ \E events : Brings(events)
  BY StepsAppendOwn DEF StartRun, StartContinue, StartCheckpoint, StartImport, Start, Step, CutShort,
     ReadExport, StoreBundle, RefuseBundle, SkipRefresh, ReadRefresh, AppendRefreshed,
     SnapshotBefore, RecordBefore, SaveHandoff, Preview, AppendHandoff, ReadTarget, ManualHandoff,
     Activate, LaunchFails, AgentExits, ReadCapture, AppendCaptured, AppendCaptureFailures,
     SnapshotAfter, AppendReconciliation, LinkExternal, LinkConflict, AppendCheckpoint,
     CreateCheckpoint, Finalize, SaveSummary, tables
<1>4. CASE log' = log
  BY <1>1, <1>2, <1>4 DEF Proceeds
<1>5. CASE \E events : Brings(events)
  <2>1. PICK events : Brings(events)
    BY <1>5
  <2>2. job[p].session \in Sessions
    BY <2>1, AtWork DEF Place
  <2>. QED  BY <1>1, <1>2, <2>1, <2>2, AppendsOwn DEF Proceeds
<1>. QED  BY <1>3, <1>4, <1>5

-----------------------------------------------------------------------------
\* The fields of a new job are those its start asks for.
LEMMA StartedJob ==
  ASSUME Inv, NEW p \in Processes, NEW j, Start(p, j)
  PROVE  /\ job'[p] = j
         /\ log' = log
  BY AtWork DEF Start

\* The job of a new run.
LEMMA StartedRun ==
  ASSUME Inv, NEW p \in Processes, StartRun(p)
  PROVE  LET k == job'[p] IN
         /\ k.pc = "before" /\ k.command = "run" /\ k.session \in Sessions
         /\ status[k.session] = "none" /\ log' = log
         /\ \A q \in Processes : job[q].session # k.session
         /\ \E a : SetStatus(k.session, "active", a)
<1>1. PICK s \in Sessions, a \in Targets[p] :
        /\ Unused(s) /\ SetStatus(s, "active", a)
        /\ Start(p, [Idle EXCEPT !.pc = "before", !.command = "run", !.session = s,
                                 !.source = a, !.target = a])
  BY DEF StartRun
<1>. DEFINE j == [Idle EXCEPT !.pc = "before", !.command = "run", !.session = s,
                              !.source = a, !.target = a]
<1>2. /\ j.pc = "before"
      /\ j.command = "run"
      /\ j.session = s
  BY DEF Idle
<1>. HIDE DEF j
<1>3. job'[p] = j /\ log' = log
  BY <1>1, StartedJob DEF j
<1>. QED  BY <1>1, <1>2, <1>3 DEF Unused

\* The job of a new continuation.
LEMMA StartedContinue ==
  ASSUME Inv, NEW p \in Processes, StartContinue(p)
  PROVE  LET k == job'[p] IN
         /\ k.pc = "refresh" /\ k.command = "continue" /\ k.session \in Sessions
         /\ k.target \in Targets[p]
         /\ status[k.session] # "none" /\ status' = status /\ log' = log
<1>1. PICK s \in Existing : \E a \in Targets[p], from \in Sources(s) :
        /\ Start(p, [Idle EXCEPT !.pc = "refresh", !.command = "continue", !.session = s,
                                 !.source = from, !.target = a])
        /\ UNCHANGED <<status, agent>>
  BY DEF StartContinue
<1>2. PICK a \in Targets[p], from \in Sources(s) :
        /\ Start(p, [Idle EXCEPT !.pc = "refresh", !.command = "continue", !.session = s,
                                 !.source = from, !.target = a])
        /\ UNCHANGED <<status, agent>>
  BY <1>1
<1>. DEFINE j == [Idle EXCEPT !.pc = "refresh", !.command = "continue", !.session = s,
                              !.source = from, !.target = a]
<1>3. /\ j.pc = "refresh"
      /\ j.command = "continue"
      /\ j.session = s
      /\ j.target = a
  BY DEF Idle
<1>. HIDE DEF j
<1>4. job'[p] = j /\ log' = log
  BY <1>2, StartedJob DEF j
<1>. QED  BY <1>2, <1>3, <1>4 DEF Existing

\* The job of a new checkpoint.
LEMMA StartedCheckpoint ==
  ASSUME Inv, NEW p \in Processes, StartCheckpoint(p)
  PROVE  LET k == job'[p] IN
         /\ k.command = "checkpoint" /\ k.session \in Sessions
         /\ status[k.session] # "none" /\ status' = status /\ log' = log
<1>1. PICK s \in Existing :
        /\ Start(p, [Idle EXCEPT !.pc = "before", !.command = "checkpoint", !.session = s])
        /\ UNCHANGED <<status, agent>>
  BY DEF StartCheckpoint
<1>. DEFINE j == [Idle EXCEPT !.pc = "before", !.command = "checkpoint", !.session = s]
<1>2. /\ j.command = "checkpoint"
      /\ j.session = s
  BY DEF Idle
<1>. HIDE DEF j
<1>3. job'[p] = j /\ log' = log
  BY <1>1, StartedJob DEF j
<1>. QED  BY <1>1, <1>2, <1>3 DEF Existing

\* The job of a new import.
LEMMA StartedImport ==
  ASSUME Inv, NEW p \in Processes, StartImport(p)
  PROVE  LET k == job'[p] IN
         /\ k.pc = "export" /\ k.command = "import"
         /\ status' = status /\ log' = log
<1>1. PICK x \in Importable, s \in Sessions, full \in BOOLEAN :
        /\ Start(p, [Idle EXCEPT !.pc = "export", !.command = "import", !.session = s,
                                 !.external = x, !.target = AgentOf[x], !.full = full])
        /\ UNCHANGED <<status, agent>>
  BY DEF StartImport
<1>. DEFINE j == [Idle EXCEPT !.pc = "export", !.command = "import", !.session = s,
                              !.external = x, !.target = AgentOf[x], !.full = full]
<1>2. /\ j.pc = "export"
      /\ j.command = "import"
  BY DEF Idle
<1>. HIDE DEF j
<1>3. job'[p] = j /\ log' = log
  BY <1>1, StartedJob DEF j
<1>. QED  BY <1>1, <1>2, <1>3

\* The job of a continuation that has stored its package.
LEMMA SavedJob ==
  ASSUME Inv, NEW p \in Processes, SaveHandoff(p)
  PROVE  LET j == job[p] k == job'[p] IN
         /\ j.pc = "save" /\ j.command = "continue" /\ j.session \in Sessions
         /\ k.pc = "handoff" /\ k.command = "continue" /\ k.session = j.session
         /\ k.target = j.target /\ k.package.session = j.session /\ k.package.target = j.target
         /\ k.package.seen = Len(log[j.session]) /\ log' = log
<1>1. job[p] \in Job /\ job \in [Processes -> Job] /\ Place(job[p])
  BY AtWork
<1>2. job[p].pc = "save" /\ job[p].command = "continue" /\ job[p].session \in Sessions
  BY <1>1 DEF SaveHandoff, Place
<1>. DEFINE package == PackageOf(job[p], job[p].source, job[p].before)
<1>3. /\ package.session = job[p].session /\ package.target = job[p].target
      /\ package.seen = Len(log[job[p].session])
  BY DEF PackageOf
<1>4. job' = [job EXCEPT ![p].pc = "handoff", ![p].package = package] /\ log' = log
  BY DEF SaveHandoff
<1>. HIDE DEF package
<1>5. /\ job'[p].pc = "handoff" /\ job'[p].command = job[p].command
      /\ job'[p].session = job[p].session /\ job'[p].target = job[p].target
      /\ job'[p].package = package
  BY <1>1, <1>4 DEF Job
<1>. QED  BY <1>2, <1>3, <1>4, <1>5

\* A command that needs a row finds it, and rows stay.
RowsStay(p) ==
  /\ \A s \in Sessions : status'[s] = "none" => status[s] = "none" /\ log'[s] = log[s]
  /\ job'[p].pc \notin {"idle", "export", "bundle"} =>
       job'[p].session \in Sessions /\ status'[job'[p].session] # "none"

\* A write to the row of a session leaves a row.
LEMMA StatusSet ==
  ASSUME Inv, NEW s \in Sessions, NEW value \in {"active", "paused", "failed"}, NEW a,
         SetStatus(s, value, a)
  PROVE  status'[s] = value /\ \A t \in Sessions : t # s => status'[t] = status[t]
  BY DEF Inv, Shape, Statuses, SetStatus

\* No step of a command takes a row away, or writes to a session without one.
LEMMA StepsKeepRows ==
  ASSUME Inv, Rowless, NEW p \in Processes,
         \/ StartRun(p) \/ StartContinue(p) \/ StartCheckpoint(p) \/ StartImport(p)
         \/ Step(p) \/ CutShort(p)
  PROVE  RowsStay(p)
<1>. DEFINE j == job[p]
<1>1. /\ j \in Job /\ Place(j) /\ job \in [Processes -> Job]
      /\ log \in [Sessions -> Seq(Entry)]
      /\ status \in [Sessions -> {"none", "active", "paused", "failed"}]
  BY AtWork, Staffed DEF Inv, Shape, Logs
<1>2. j.pc \notin {"idle", "export", "bundle"} => j.session \in Sessions /\ status[j.session] # "none"
  BY <1>1 DEF Rowless, Place
<1>3. \A s \in Sessions : \A events : AppendTo(s, events) =>
        \A t \in Sessions : t # s => log'[t] = log[t]
  BY <1>1 DEF AppendTo
<1>4. CASE StartRun(p)
  BY <1>4, StartedRun, StatusSet DEF RowsStay
<1>5. CASE StartContinue(p)
  BY <1>5, StartedContinue DEF RowsStay
<1>6. CASE StartCheckpoint(p)
  BY <1>6, StartedCheckpoint DEF RowsStay
<1>7. CASE StartImport(p)
  BY <1>7, StartedImport DEF RowsStay
<1>8. CASE ReadExport(p) \/ RefuseBundle(p) \/ SkipRefresh(p) \/ ReadRefresh(p) \/ SnapshotBefore(p)
           \/ Preview(p) \/ ReadTarget(p) \/ ManualHandoff(p) \/ AgentExits(p) \/ ReadCapture(p)
           \/ SnapshotAfter(p) \/ LinkConflict(p) \/ CutShort(p)
  <2>1. status' = status /\ log' = log
    BY <1>8 DEF ReadExport, RefuseBundle, SkipRefresh, ReadRefresh, SnapshotBefore, Preview, ReadTarget,
       ManualHandoff, AgentExits, ReadCapture, SnapshotAfter, LinkConflict, CutShort, tables
  <2>2. CASE Finish(p) \/ Abandon(p) \/ ReadExport(p)
    <3>1. Finish(p) \/ Abandon(p) => job'[p].pc = "idle"
      BY <1>1 DEF Finish, Abandon, Idle
    <3>2. ReadExport(p) => Finish(p) \/ job'[p].pc = "bundle"
      BY <1>1 DEF ReadExport, Job
    <3>. QED  BY <2>1, <2>2, <3>1, <3>2 DEF RowsStay
  <2>3. CASE ~ (Finish(p) \/ Abandon(p) \/ ReadExport(p))
    <3>1. SkipRefresh(p) \/ ReadRefresh(p) \/ SnapshotBefore(p) \/ ReadTarget(p) \/ AgentExits(p)
          \/ ReadCapture(p) \/ SnapshotAfter(p)
      BY <1>8, <2>3 DEF RefuseBundle, Preview, ManualHandoff, LinkConflict, CutShort
    <3>2. CASE SkipRefresh(p) \/ SnapshotBefore(p) \/ SnapshotAfter(p) \/ ReadCapture(p)
      <4>1. job'[p].session = j.session /\ j.pc \notin {"idle", "export", "bundle"}
        <5>1. SkipRefresh(p) => job'[p].session = j.session /\ j.pc = "refresh"
          BY <1>1 DEF SkipRefresh, Goto, Job
        <5>2. SnapshotBefore(p) => job'[p].session = j.session /\ j.pc = "before"
          BY <1>1 DEF SnapshotBefore, Job
        <5>3. SnapshotAfter(p) => job'[p].session = j.session /\ j.pc = "after"
          BY <1>1 DEF SnapshotAfter, Job
        <5>4. ReadCapture(p) => job'[p].session = j.session /\ j.pc = "capture"
          BY <1>1 DEF ReadCapture, Job
        <5>. QED  BY <3>2, <5>1, <5>2, <5>3, <5>4
      <4>. QED  BY <1>2, <2>1, <4>1 DEF RowsStay
    <3>3. CASE ReadRefresh(p) \/ ReadTarget(p) \/ AgentExits(p)
      <4>1. ReadRefresh(p) => job'[p].session = j.session /\ j.pc = "refresh"
        BY <1>1, <2>3 DEF ReadRefresh, Job
      <4>2. ReadTarget(p) => job'[p].session = j.session /\ j.pc = "target"
        BY <1>1 DEF ReadTarget, Job
      <4>3. AgentExits(p) => job'[p].session = j.session /\ j.pc = "launch"
        BY <1>1 DEF AgentExits, Job
      <4>. QED  BY <1>2, <2>1, <3>3, <4>1, <4>2, <4>3 DEF RowsStay
    <3>. QED  BY <3>1, <3>2, <3>3
  <2>. QED  BY <2>2, <2>3
<1>9. CASE AppendRefreshed(p) \/ RecordBefore(p) \/ SaveHandoff(p) \/ AppendHandoff(p)
           \/ AppendCaptured(p) \/ AppendCaptureFailures(p) \/ AppendReconciliation(p)
           \/ LinkExternal(p) \/ AppendCheckpoint(p) \/ CreateCheckpoint(p) \/ SaveSummary(p)
  <2>1. status' = status /\ j.pc \notin {"idle", "export", "bundle"}
        /\ (log' = log \/ \E events : AppendTo(j.session, events))
    BY <1>9 DEF AppendRefreshed, RecordBefore, SaveHandoff, AppendHandoff, AppendCaptured,
       AppendCaptureFailures, AppendReconciliation, LinkExternal, AppendCheckpoint, CreateCheckpoint,
       SaveSummary
  <2>2. job'[p].pc = "idle" \/ job'[p].session = j.session
    <3>1. AppendRefreshed(p) => job'[p].session = j.session
      BY <1>1 DEF AppendRefreshed, Job
    <3>2. SaveHandoff(p) => job'[p].session = j.session
      BY SavedJob
    <3>3. AppendCheckpoint(p) /\ ~ Finish(p) => job'[p].session = j.session
      BY <1>1 DEF AppendCheckpoint, Goto, Job
    <3>4. Finish(p) => job'[p].pc = "idle"
      BY <1>1 DEF Finish, Idle
    <3>5. \A pc : Goto(p, pc) => job'[p].session = j.session
      BY <1>1 DEF Goto, Job
    <3>6. RecordBefore(p) \/ AppendHandoff(p) \/ AppendCaptured(p) \/ AppendCaptureFailures(p)
          \/ AppendReconciliation(p) \/ LinkExternal(p) \/ CreateCheckpoint(p) \/ SaveSummary(p)
            => Finish(p) \/ \E pc : Goto(p, pc)
      BY DEF RecordBefore, AppendHandoff, AppendCaptured, AppendCaptureFailures,
         AppendReconciliation, LinkExternal, CreateCheckpoint, SaveSummary
    <3>. QED  BY <1>9, <3>1, <3>2, <3>3, <3>4, <3>5, <3>6
  <2>. QED  BY <1>2, <1>3, <2>1, <2>2 DEF RowsStay
<1>10. CASE StoreBundle(p)
  <2>1. /\ j.session \in Sessions /\ j.target \in Agents /\ job'[p].pc = "idle"
        /\ AppendTo(j.session, Transcript(j.external, j.count, j.full))
        /\ IF status[j.session] = "none" THEN SetStatus(j.session, "paused", j.target)
           ELSE status' = status
    BY <1>1, <1>10 DEF StoreBundle, Place, Finish, Idle
  <2>2. /\ status'[j.session] # "none"
        /\ \A t \in Sessions : t # j.session => status'[t] = status[t]
    BY <2>1, StatusSet
  <2>. QED  BY <1>3, <2>1, <2>2 DEF RowsStay
<1>11. CASE Activate(p) \/ LaunchFails(p) \/ Finalize(p)
  <2>1. /\ log' = log /\ j.pc \notin {"idle", "export", "bundle"}
        /\ \E value \in {"active", "paused", "failed"} : \E a : SetStatus(j.session, value, a)
    BY <1>11 DEF Activate, LaunchFails, Finalize
  <2>2. job'[p].pc = "idle" \/ job'[p].session = j.session
    BY <1>1, <1>11 DEF Activate, LaunchFails, Finalize, Finish, Goto, Idle, Job
  <2>. QED  BY <1>2, <2>1, <2>2, StatusSet DEF RowsStay
<1>. QED  BY <1>4, <1>5, <1>6, <1>7, <1>8, <1>9, <1>10, <1>11 DEF Step

\* Rowless is inductive.
LEMMA RowlessKeeps ==
  ASSUME Inv, Inv', Rowless, NEW p \in Processes, RowsStay(p), Proceeds(p)
  PROVE  Rowless'
<1>1. ASSUME NEW s \in Sessions, status'[s] = "none" PROVE log'[s] = <<>>
  BY <1>1 DEF RowsStay, Rowless
<1>2. ASSUME NEW q \in Processes, job'[q].pc \notin {"idle", "export", "bundle"}
      PROVE  status'[job'[q].session] # "none"
  <2>1. CASE q = p
    BY <1>2, <2>1 DEF RowsStay
  <2>2. CASE q # p
    <3>1. job'[q] = job[q] /\ Place(job[q])
      BY <2>2, AtWork DEF Proceeds
    <3>2. job[q].session \in Sessions /\ status[job[q].session] # "none"
      BY <1>2, <3>1 DEF Rowless, Place
    <3>. QED  BY <3>1, <3>2 DEF RowsStay
  <2>. QED  BY <2>1, <2>2
<1>. QED  BY <1>1, <1>2 DEF Rowless

\* What a continuation writes comes after what its package covers.
LEMMA MarksFollowKeeps ==
  ASSUME Inv, ExitInv, NEW p \in Processes, Proceeds(p), NEW s \in Sessions
  PROVE  MarksFollow(log'[s])
<1>. DEFINE j == job[p]  l == log[s]  m == log'[s]
<1>1. l \in Seq(Entry) /\ m \in Seq(Entry) /\ (m = l \/ (s = j.session /\ Adds(l, m, j)))
  BY DEF Proceeds
<1>2. CASE m = l
  BY <1>2 DEF ExitInv
<1>3. CASE s = j.session /\ Adds(l, m, j)
  <2>1. ASSUME NEW i \in 1 .. Len(m), m[i].key.mark.name = "continue"
        PROVE  m[i].key.mark.package.seen < i
    <3>1. CASE i \in 1 .. Len(l)
      <4>1. m[i] = l[i]
        BY <1>3, <3>1 DEF Adds
      <4>. QED  BY <2>1, <3>1, <4>1 DEF ExitInv, MarksFollow
    <3>2. CASE i \in Len(l) + 1 .. Len(m)
      <4>1. Exiting(j) /\ m[i].key.mark = MarkOf(j)
        BY <1>3, <2>1, <3>2 DEF Adds
      <4>2. j.command = "continue" /\ m[i].key.mark.package = j.package
        BY <2>1, <4>1, ExitMark
      <4>3. j.package.seen <= Len(l)
        BY <1>3, <4>1, <4>2 DEF ExitInv, ExitOf, Covered, Exiting
      <4>4. j.package.seen \in Nat
        <5>1. j.package \in Package \cup {NoPackage}
          BY AtWork DEF Job
        <5>. QED  BY <5>1 DEF Package, NoPackage
      <4>. QED  BY <1>1, <3>2, <4>2, <4>3, <4>4
    <3>. QED  BY <1>1, <2>1, <3>1, <3>2
  <2>. QED  BY <2>1 DEF MarksFollow
<1>. QED  BY <1>1, <1>2, <1>3

-----------------------------------------------------------------------------
\* A job k that has its mark, if any, from j.
MarkFrom(j, k) ==
  /\ k.command = "run" => j.command = "run" /\ j.session = k.session
  /\ (k.command = "continue" /\ k.pc \in Packed) =>
       (j.command = "continue" /\ j.pc \in Packed /\ j.package = k.package)

\* Only the start of a run and a stored package bring a mark.
LEMMA StepsKeepMark ==
  ASSUME Inv, NEW p \in Processes,
         \/ StartContinue(p) \/ StartCheckpoint(p) \/ StartImport(p)
         \/ Step(p) /\ ~ SaveHandoff(p)
         \/ CutShort(p)
  PROVE  MarkFrom(job[p], job'[p])
<1>0. Place(job[p]) /\ job \in [Processes -> Job] /\ job[p] \in Job
  BY AtWork
<1>1. CASE StartContinue(p)
  BY <1>1, StartedContinue DEF MarkFrom, Packed, Finalizing
<1>2. CASE StartCheckpoint(p)
  BY <1>2, StartedCheckpoint DEF MarkFrom
<1>3. CASE StartImport(p)
  BY <1>3, StartedImport DEF MarkFrom
<1>4. ASSUME Finish(p) \/ Abandon(p) PROVE MarkFrom(job[p], job'[p])
  BY <1>4, <1>0 DEF Finish, Abandon, Idle, MarkFrom
<1>5. CASE CutShort(p)
  BY <1>5, <1>4 DEF CutShort
<1>6. CASE ReadExport(p)
  <2>1. CASE Finish(p)
    BY <1>4, <2>1
  <2>2. CASE ~ Finish(p)
    BY <1>6, <1>0, <2>2 DEF ReadExport, MarkFrom, Packed, Finalizing, Place, Job
  <2>. QED  BY <2>1, <2>2
<1>7. CASE StoreBundle(p) \/ RefuseBundle(p) \/ Preview(p) \/ ManualHandoff(p) \/ LaunchFails(p)
           \/ LinkConflict(p) \/ SaveSummary(p)
  BY <1>7, <1>4 DEF StoreBundle, RefuseBundle, Preview, ManualHandoff, LaunchFails, LinkConflict,
     SaveSummary
<1>8. CASE SkipRefresh(p)
  BY <1>8, <1>0 DEF SkipRefresh, Goto, MarkFrom, Packed, Finalizing, Job
<1>9. CASE ReadRefresh(p)
  <2>1. CASE Finish(p)
    BY <1>4, <2>1
  <2>2. CASE ~ Finish(p)
    BY <1>9, <1>0, <2>2 DEF ReadRefresh, MarkFrom, Packed, Finalizing, Job
  <2>. QED  BY <2>1, <2>2
<1>10. CASE AppendRefreshed(p)
  BY <1>10, <1>0 DEF AppendRefreshed, MarkFrom, Packed, Finalizing, Job
<1>11. CASE SnapshotBefore(p)
  BY <1>11, <1>0 DEF SnapshotBefore, MarkFrom, Packed, Finalizing, Job
<1>12. CASE RecordBefore(p)
  BY <1>12, <1>0 DEF RecordBefore, Goto, AfterRecord, MarkFrom, Packed, Finalizing, Job
<1>13. CASE AppendHandoff(p)
  BY <1>13, <1>0 DEF AppendHandoff, Goto, MarkFrom, Packed, Finalizing, Job
<1>14. CASE ReadTarget(p)
  BY <1>14, <1>0 DEF ReadTarget, MarkFrom, Packed, Finalizing, Job
<1>15. CASE Activate(p)
  BY <1>15, <1>0 DEF Activate, Goto, MarkFrom, Packed, Finalizing, Job
<1>16. CASE AgentExits(p)
  BY <1>16, <1>0 DEF AgentExits, MarkFrom, Packed, Finalizing, Job
<1>17. CASE ReadCapture(p)
  BY <1>17, <1>0 DEF ReadCapture, MarkFrom, Packed, Finalizing, Job
<1>18. CASE AppendCaptured(p)
  BY <1>18, <1>0 DEF AppendCaptured, Goto, MarkFrom, Packed, Finalizing, Job
<1>19. CASE AppendCaptureFailures(p)
  BY <1>19, <1>0 DEF AppendCaptureFailures, Goto, MarkFrom, Packed, Finalizing, Job
<1>20. CASE SnapshotAfter(p)
  BY <1>20, <1>0 DEF SnapshotAfter, MarkFrom, Packed, Finalizing, Job
<1>21. CASE AppendReconciliation(p)
  BY <1>21, <1>0 DEF AppendReconciliation, Goto, MarkFrom, Packed, Finalizing, Job
<1>22. CASE LinkExternal(p)
  BY <1>22, <1>0 DEF LinkExternal, Goto, MarkFrom, Packed, Finalizing, Job
<1>23. CASE AppendCheckpoint(p)
  <2>1. CASE Finish(p)
    BY <1>4, <2>1
  <2>2. CASE ~ Finish(p)
    BY <1>23, <1>0, <2>2 DEF AppendCheckpoint, Goto, MarkFrom, Packed, Finalizing, Job
  <2>. QED  BY <2>1, <2>2
<1>24. CASE CreateCheckpoint(p)
  <2>1. CASE Finish(p)
    BY <1>4, <2>1
  <2>2. CASE ~ Finish(p)
    BY <1>24, <1>0, <2>2 DEF CreateCheckpoint, Goto, MarkFrom, Packed, Finalizing, Job
  <2>. QED  BY <2>1, <2>2
<1>25. CASE Finalize(p)
  BY <1>25, <1>0 DEF Finalize, Goto, MarkFrom, Packed, Finalizing, Job
<1>. QED  BY <1>1, <1>2, <1>3, <1>5, <1>6, <1>7, <1>8, <1>9, <1>10, <1>11, <1>12, <1>13, <1>14,
     <1>15, <1>16, <1>17, <1>18, <1>19, <1>20, <1>21, <1>22, <1>23, <1>24, <1>25 DEF Step

\* Two commands stay apart, unless a continuation builds the package of another.
LEMMA ApartKeeps ==
  ASSUME Inv, ExitInv, NoTwins, NEW p \in Processes, Proceeds(p),
         StartRun(p) \/ SaveHandoff(p) \/ MarkFrom(job[p], job'[p]),
         NEW q \in Processes, q # p
  PROVE  Apart(job'[p], job'[q]) /\ Apart(job'[q], job'[p])
<1>1. job'[q] = job[q]
  BY DEF Proceeds
<1>2. Apart(job[p], job[q])
  BY DEF ExitInv
<1>3. SUFFICES Apart(job'[p], job[q])
  BY <1>1 DEF Apart
<1>4. CASE MarkFrom(job[p], job'[p])
  BY <1>2, <1>4 DEF MarkFrom, Apart
<1>5. CASE StartRun(p)
  BY <1>5, StartedRun DEF Apart
<1>6. CASE SaveHandoff(p)
  <2>. DEFINE j == job[p]  k == job'[p]
  <2>1. /\ j.pc = "save" /\ j.command = "continue" /\ j.session \in Sessions
        /\ k.pc = "handoff" /\ k.command = "continue"
        /\ k.package.session = j.session /\ k.package.target = j.target
        /\ k.package.seen = Len(log[j.session])
    BY <1>6, SavedJob
  <2>. SUFFICES ASSUME job[q].command = "continue", job[q].pc \in Packed, k.package = job[q].package
                PROVE  FALSE
    BY <2>1 DEF Apart
  <2>2. /\ job[q].package.session = job[q].session /\ job[q].package.target = job[q].target
        /\ job[q].pc # "handoff" => job[q].package.seen < Len(log[job[q].session])
    BY DEF ExitInv, ExitOf, Covered, Exiting
  <2>3. job[q].session = j.session /\ job[q].target = j.target
    BY <2>1, <2>2
  <2>4. job[q].pc # "handoff"
    BY <2>1, <2>3 DEF NoTwins
  <2>5. Len(log[j.session]) \in Nat
    BY <2>1 DEF Inv, Shape, Logs
  <2>. QED  BY <2>1, <2>2, <2>3, <2>4, <2>5
<1>. QED  BY <1>4, <1>5, <1>6

-----------------------------------------------------------------------------
\* A job that goes on with its command.
GoesOn(j, k) ==
  /\ k.command = j.command /\ k.session = j.session /\ k.target = j.target
  /\ k.package = j.package
  /\ k.command \in {"run", "continue"} \/ k.stamp = j.stamp

\* It keeps its mark.
LEMMA SameMark ==
  ASSUME NEW j, NEW k, GoesOn(j, k)
  PROVE  MarkOf(k) = MarkOf(j)
  BY DEF GoesOn, MarkOf

\* A job whose place is none of an exit promises nothing.
LEMMA NoExit ==
  ASSUME NEW j, NEW l,
         \/ j.pc \in {"idle", "refresh", "refreshed", "export", "bundle", "save", "summary"}
         \/ j.command \notin {"run", "continue"}
         \/ j.command = "continue" /\ j.pc \in {"before", "record"}
  PROVE  ExitOf(j, l)
  BY DEF ExitOf, Exiting, Packed, Finalizing

\* A command that returns promises nothing.
LEMMA ReturnsNoExit ==
  ASSUME Inv, NEW p \in Processes, Finish(p) \/ Abandon(p), NEW l
  PROVE  ExitOf(job'[p], l)
<1>1. job'[p].pc = "idle"
  BY AtWork DEF Finish, Abandon, Idle
<1>. QED  BY <1>1, NoExit

\* A command at its exit goes on without a write.
LEMMA QuietExit ==
  ASSUME NEW j, NEW k, NEW l, ExitOf(j, l), Exiting(j), GoesOn(j, k),
         j.pc # "handoff", k.pc # "handoff",
         \/ /\ {j.pc, k.pc} \subseteq Open
            /\ (k.pc \in {"after", "reconcile"} /\ k.failures) =>
                 (j.pc \in {"after", "reconcile"} /\ j.failures)
         \/ /\ k.after = j.after /\ k.failures = j.failures
            /\ \/ {j.pc, k.pc} \subseteq {"link", "checkpoint"}
               \/ {j.pc, k.pc} \subseteq {"row", "finalize"}
  PROVE  ExitOf(k, l)
<1>1. Recorded(j, l) /\ Covered(j, l) /\ MarkOf(k) = MarkOf(j)
  BY SameMark DEF ExitOf
<1>2. (k.pc \in {"after", "reconcile"} /\ k.failures) => HasKey(l, Key("error", MarkOf(j)))
  BY <1>1 DEF Recorded, Open
<1>3. Recorded(k, l)
  BY <1>1, <1>2, RecordedMoves
<1>4. Covered(k, l)
  BY <1>1 DEF Covered, GoesOn, Exiting
<1>. QED  BY <1>3, <1>4 DEF ExitOf

\* The quiet steps of an exit.
LEMMA QuietSteps ==
  ASSUME Inv, ExitInv, NEW p \in Processes,
         \/ SnapshotBefore(p) \/ ReadTarget(p) \/ Activate(p) \/ AgentExits(p) \/ ReadCapture(p)
         \/ SnapshotAfter(p) \/ LinkExternal(p) \/ CreateCheckpoint(p)
  PROVE  log' = log /\ ExitOf(job'[p], log[job'[p].session])
<1>. DEFINE j == job[p]  k == job'[p]
<1>1. /\ j \in Job /\ job \in [Processes -> Job] /\ Place(j)
      /\ ExitOf(j, log[j.session])
  BY AtWork DEF ExitInv
<1>2. log' = log
  BY DEF SnapshotBefore, ReadTarget, Activate, AgentExits, ReadCapture, SnapshotAfter, LinkExternal,
     CreateCheckpoint, tables
<1>3. CASE SnapshotBefore(p)
  <2>1. /\ k.command = j.command /\ k.session = j.session /\ j.pc = "before" /\ k.pc = "record"
        /\ j.command = "run" => GoesOn(j, k)
    <3>1. PICK v, t : job' = [job EXCEPT ![p].pc = "record", ![p].before = v, ![p].after = v,
                                         ![p].stamp = t]
      BY <1>3 DEF SnapshotBefore
    <3>2. k = [j EXCEPT !.pc = "record", !.before = v, !.after = v, !.stamp = t]
      BY <1>1, <3>1
    <3>. QED  BY <1>1, <1>3, <3>2 DEF SnapshotBefore, GoesOn, Job
  <2>2. CASE j.command = "run"
    <3>1. Exiting(j) /\ {j.pc, k.pc} \subseteq Open
      BY <2>1, <2>2 DEF Exiting, Open
    <3>2. ExitOf(k, log[j.session])
      BY <1>1, <2>1, <2>2, <3>1, QuietExit
    <3>. QED  BY <1>2, <2>1, <3>2
  <2>3. CASE j.command # "run"
    <3>1. k.command \notin {"run", "continue"} \/ (k.command = "continue" /\ k.pc = "record")
      BY <1>1, <2>1, <2>3 DEF Place
    <3>. QED  BY <1>2, <3>1, NoExit
  <2>. QED  BY <2>2, <2>3
<1>4. CASE ReadTarget(p)
  <2>1. GoesOn(j, k) /\ j.pc = "target" /\ k.pc = "activate"
    BY <1>1, <1>4 DEF ReadTarget, GoesOn, Job
  <2>2. Exiting(j) /\ {j.pc, k.pc} \subseteq Open
    BY <1>1, <2>1 DEF Exiting, Packed, Open, Place
  <2>3. ExitOf(k, log[j.session])
    BY <1>1, <2>1, <2>2, QuietExit
  <2>. QED  BY <1>2, <2>1, <2>3 DEF GoesOn
<1>5. CASE Activate(p)
  <2>1. GoesOn(j, k) /\ j.pc = "activate" /\ k.pc = "launch"
    BY <1>1, <1>5 DEF Activate, Goto, GoesOn, Job
  <2>2. Exiting(j) /\ {j.pc, k.pc} \subseteq Open
    BY <1>1, <2>1 DEF Exiting, Packed, Open, Place
  <2>3. ExitOf(k, log[j.session])
    BY <1>1, <2>1, <2>2, QuietExit
  <2>. QED  BY <1>2, <2>1, <2>3 DEF GoesOn
<1>6. CASE AgentExits(p)
  <2>1. /\ GoesOn(j, k) /\ j.pc = "launch" /\ k.pc \in {"capture", "failures", "after"}
        /\ k.pc = "after" => ~ k.failures
    <3>1. PICK x \in IF j.external = NoExternal THEN Reported(j) ELSE {j.external},
               failures \in BOOLEAN :
            job' = [job EXCEPT ![p].external = x, ![p].failures = failures,
                      ![p].pc = IF x # NoExternal /\ j.target \in Capturing THEN "capture"
                                ELSE AfterEvents(failures)]
      BY <1>6 DEF AgentExits
    <3>. DEFINE pc == IF x # NoExternal /\ j.target \in Capturing THEN "capture"
                      ELSE AfterEvents(failures)
    <3>2. pc \in {"capture", "failures", "after"} /\ (pc = "after" => ~ failures)
      BY DEF AfterEvents
    <3>3. k = [j EXCEPT !.external = x, !.failures = failures, !.pc = pc]
      BY <1>1, <3>1
    <3>. HIDE DEF pc
    <3>4. GoesOn(j, k) /\ k.pc = pc /\ k.failures = failures
      BY <1>1, <3>3 DEF GoesOn, Job
    <3>. QED  BY <1>6, <3>2, <3>4 DEF AgentExits
  <2>2. Exiting(j) /\ {j.pc, k.pc} \subseteq Open
    BY <1>1, <2>1 DEF Exiting, Packed, Open, Place, Finalizing
  <2>3. ExitOf(k, log[j.session])
    BY <1>1, <2>1, <2>2, QuietExit
  <2>. QED  BY <1>2, <2>1, <2>3 DEF GoesOn
<1>7. CASE ReadCapture(p)
  <2>1. GoesOn(j, k) /\ j.pc = "capture" /\ k.pc = "events"
    <3>1. PICK n : job' = [job EXCEPT ![p].pc = "events", ![p].count = n]
      BY <1>7 DEF ReadCapture
    <3>2. k = [j EXCEPT !.pc = "events", !.count = n]
      BY <1>1, <3>1
    <3>3. GoesOn(j, k) /\ k.pc = "events"
      BY <1>1, <3>2 DEF GoesOn, Job
    <3>. QED  BY <1>7, <3>3 DEF ReadCapture
  <2>2. Exiting(j) /\ {j.pc, k.pc} \subseteq Open
    BY <1>1, <2>1 DEF Exiting, Packed, Open, Place, Finalizing
  <2>3. ExitOf(k, log[j.session])
    BY <1>1, <2>1, <2>2, QuietExit
  <2>. QED  BY <1>2, <2>1, <2>3 DEF GoesOn
<1>8. CASE SnapshotAfter(p)
  <2>1. GoesOn(j, k) /\ j.pc = "after" /\ k.pc = "reconcile" /\ k.failures = j.failures
    <3>1. PICK v : job' = [job EXCEPT ![p].pc = "reconcile", ![p].after = v]
      BY <1>8 DEF SnapshotAfter
    <3>2. k = [j EXCEPT !.pc = "reconcile", !.after = v]
      BY <1>1, <3>1
    <3>3. GoesOn(j, k) /\ k.pc = "reconcile" /\ k.failures = j.failures
      BY <1>1, <3>2 DEF GoesOn, Job
    <3>. QED  BY <1>8, <3>3 DEF SnapshotAfter
  <2>2. Exiting(j) /\ {j.pc, k.pc} \subseteq Open
    BY <1>1, <2>1 DEF Exiting, Packed, Open, Place, Finalizing
  <2>3. ExitOf(k, log[j.session])
    BY <1>1, <2>1, <2>2, QuietExit
  <2>. QED  BY <1>2, <2>1, <2>3 DEF GoesOn
<1>9. CASE LinkExternal(p)
  <2>1. /\ GoesOn(j, k) /\ j.pc = "link" /\ k.pc = "checkpoint"
        /\ k.failures = j.failures /\ k.after = j.after
    BY <1>1, <1>9 DEF LinkExternal, Goto, GoesOn, Job
  <2>2. Exiting(j)
    BY <1>1, <2>1 DEF Exiting, Packed, Place, Finalizing
  <2>3. ExitOf(k, log[j.session])
    BY <1>1, <2>1, <2>2, QuietExit
  <2>. QED  BY <1>2, <2>1, <2>3 DEF GoesOn
<1>10. CASE CreateCheckpoint(p)
  <2>1. CASE Finish(p)
    BY <1>2, <2>1, ReturnsNoExit
  <2>2. CASE ~ Finish(p)
    <3>1. /\ GoesOn(j, k) /\ j.pc = "row" /\ k.pc = "finalize" /\ j.command # "checkpoint"
          /\ k.failures = j.failures /\ k.after = j.after
      BY <1>1, <1>10, <2>2 DEF CreateCheckpoint, Goto, GoesOn, Job
    <3>2. Exiting(j)
      BY <1>1, <3>1 DEF Exiting, Packed, Place, Finalizing
    <3>3. ExitOf(k, log[j.session])
      BY <1>1, <3>1, <3>2, QuietExit
    <3>. QED  BY <1>2, <3>1, <3>3 DEF GoesOn
  <2>. QED  BY <2>1, <2>2
<1>. QED  BY <1>2, <1>3, <1>4, <1>5, <1>6, <1>7, <1>8, <1>9, <1>10

\* An append leaves the log as it was up to its end.
LEMMA AppendedExtends ==
  ASSUME NEW l \in Seq(Entry), NEW events \in Seq(Entry)
  PROVE  /\ Appended(l, events) \in Seq(Entry) /\ Len(l) <= Len(Appended(l, events))
         /\ \A i \in 1 .. Len(l) : Appended(l, events)[i] = l[i]
BY AppendedGrows DEF Grown

\* A batch has a key, and brought it to the end of a log.
Offers(events, key) == \E k \in 1 .. Len(events) : events[k].key = key
Brought(l, m, events, key) ==
  \E i \in 1 .. Len(m) : \E h \in 1 .. Len(events) :
    i > Len(l) /\ m[i] = events[h] /\ events[h].key = key

\* What an append leaves in a log was there or is in its batch, and what is in
\* the batch is in the log, at the end if it is new.
LEMMA AppendedKeys ==
  ASSUME NEW l \in Seq(Entry), NEW events \in Seq(Entry), NEW m, m = Appended(l, events), NEW key
  PROVE  /\ HasKey(m, key) => HasKey(l, key) \/ Offers(events, key)
         /\ Offers(events, key) => HasKey(m, key)
         /\ (Offers(events, key) /\ ~ HasKey(l, key)) => Brought(l, m, events, key)
<1>1. Grown(l, events, Len(events), m) /\ Holding(l, events, m)
  BY AppendedGrows, Present
<1>2. m \in Seq(Entry) /\ Len(l) <= Len(m) /\ \A i \in 1 .. Len(l) : m[i] = l[i]
  BY AppendedExtends
<1>3. /\ Len(l) \in Nat /\ Len(m) \in Nat /\ DOMAIN l = 1 .. Len(l) /\ DOMAIN m = 1 .. Len(m)
  BY <1>2
<1>4. ASSUME HasKey(m, key), ~ HasKey(l, key) PROVE Offers(events, key)
  <2>1. PICK i \in 1 .. Len(m) : m[i].key = key
    BY <1>3, <1>4 DEF HasKey
  <2>2. i \notin 1 .. Len(l)
    BY <1>2, <1>3, <1>4, <2>1 DEF HasKey
  <2>3. i \in Len(l) + 1 .. Len(m)
    BY <1>3, <2>2
  <2>4. PICK k \in 1 .. Len(events) : m[i] = events[k]
    BY <1>1, <2>3 DEF Grown
  <2>. QED  BY <2>1, <2>4 DEF Offers
<1>5. ASSUME Offers(events, key)
      PROVE  HasKey(m, key) /\ (~ HasKey(l, key) => Brought(l, m, events, key))
  <2>1. PICK k \in 1 .. Len(events) : events[k].key = key
    BY <1>5 DEF Offers
  <2>2. \E i \in 1 .. Len(m) : m[i].key = key
    BY <1>1, <2>1 DEF Holding
  <2>3. HasKey(m, key)
    BY <1>3, <2>2 DEF HasKey
  <2>4. ASSUME ~ HasKey(l, key) PROVE Brought(l, m, events, key)
    BY <1>1, <2>1, <2>4 DEF Holding, Brought
  <2>. QED  BY <2>3, <2>4
<1>. QED  BY <1>4, <1>5

\* A command at its exit goes on after an append that is no part of the record.
LEMMA BesideExit ==
  ASSUME NEW j, NEW k, NEW l \in Seq(Entry), NEW m, NEW events \in Seq(Entry),
         m = Appended(l, events), ExitOf(j, l), Exiting(j), GoesOn(j, k),
         \A i \in 1 .. Len(events) : events[i].key \notin {Key("git", MarkOf(j)), Key("checkpoint", MarkOf(j))},
         {j.pc, k.pc} \subseteq Open,
         (k.pc \in {"after", "reconcile"} /\ k.failures) => HasKey(m, Key("error", MarkOf(j))),
         Covered(k, m)
  PROVE  ExitOf(k, m)
<1>1. Recorded(j, l) /\ MarkOf(k) = MarkOf(j)
  BY SameMark DEF ExitOf
<1>2. /\ HasKey(m, Key("git", MarkOf(j))) => HasKey(l, Key("git", MarkOf(j)))
      /\ HasKey(m, Key("checkpoint", MarkOf(j))) => HasKey(l, Key("checkpoint", MarkOf(j)))
      /\ m \in Seq(Entry) /\ Len(l) <= Len(m) /\ \A i \in 1 .. Len(l) : m[i] = l[i]
  <2>1. ASSUME NEW key, \A i \in 1 .. Len(events) : events[i].key # key, HasKey(m, key)
        PROVE  HasKey(l, key)
    BY <2>1, AppendedKeys DEF Offers
  <2>. DEFINE git == Key("git", MarkOf(j))  checkpoint == Key("checkpoint", MarkOf(j))
  <2>2. \A i \in 1 .. Len(events) : events[i].key # git /\ events[i].key # checkpoint
    OBVIOUS
  <2>. HIDE DEF git, checkpoint
  <2>3. /\ HasKey(m, git) => HasKey(l, git)
        /\ HasKey(m, checkpoint) => HasKey(l, checkpoint)
    BY <2>1, <2>2
  <2>. QED  BY <2>3, AppendedExtends DEF git, checkpoint
<1>3. Recorded(j, m)
  BY <1>1, <1>2, RecordedStays
<1>4. Recorded(k, m)
  BY <1>1, <1>3, RecordedMoves
<1>. QED  BY <1>4 DEF ExitOf

\* A package stays covered by a log that grows.
LEMMA CoveredStays ==
  ASSUME NEW j \in Job, NEW k, NEW l \in Seq(Entry), NEW m \in Seq(Entry), Len(l) <= Len(m),
         Covered(j, l), Exiting(j), GoesOn(j, k), k.pc = "handoff" \/ j.pc # "handoff"
  PROVE  Covered(k, m)
<1>1. j.package.seen \in Nat /\ Len(l) \in Nat /\ Len(m) \in Nat
  <2>1. j.package \in Package \cup {NoPackage}
    BY DEF Job
  <2>. QED  BY <2>1 DEF Package, NoPackage
<1>. QED  BY <1>1 DEF Covered, GoesOn, Exiting

\* The facts the appending steps share.
LEMMA AppendingExit ==
  ASSUME Inv, ExitInv, NEW p \in Processes,
         job[p].session \in Sessions, NEW events, OwnEvents(job[p], events),
         AppendTo(job[p].session, events)
  PROVE  LET j == job[p] l == log[j.session] m == log'[j.session] IN
         /\ j \in Job /\ job \in [Processes -> Job] /\ Place(j) /\ ExitOf(j, l)
         /\ events \in Seq(Entry) /\ l \in Seq(Entry) /\ m \in Seq(Entry)
         /\ m = Appended(l, events) /\ Len(l) <= Len(m) /\ \A i \in 1 .. Len(l) : m[i] = l[i]
<1>1. job[p] \in Job /\ job \in [Processes -> Job] /\ Place(job[p])
      /\ ExitOf(job[p], log[job[p].session])
  BY AtWork DEF ExitInv
<1>2. /\ log[job[p].session] \in Seq(Entry) /\ events \in Seq(Entry)
      /\ log'[job[p].session] = Appended(log[job[p].session], events)
  BY AppendsOwn DEF OwnEvents
<1>. QED  BY <1>1, <1>2, AppendedExtends

\* The first snapshot of a run is recorded under another mark.
LEMMA RecordBeforeExit ==
  ASSUME Inv, ExitInv, NEW p \in Processes, RecordBefore(p)
  PROVE  ExitOf(job'[p], log'[job'[p].session])
<1>. DEFINE j == job[p]  k == job'[p]  s == j.session
            events == Reconciliation(FirstMark(j), j.before, j.before)
<1>1. /\ j.pc = "record" /\ s \in Sessions /\ AppendTo(s, events)
      /\ j \in Job /\ job \in [Processes -> Job] /\ j.before \in Nat
      /\ j.command \in {"run", "continue", "checkpoint"}
  BY AtWork DEF RecordBefore, Place
<1>2. OwnEvents(j, events)
  BY StepsAppendOwn
<1>3. GoesOn(j, k) /\ k.pc = AfterRecord[j.command]
  BY <1>1 DEF RecordBefore, Goto, GoesOn, Job
<1>4. CASE j.command # "run"
  <2>1. k.command = "checkpoint" \/ (k.command = "continue" /\ k.pc = "save")
    BY <1>1, <1>3, <1>4 DEF GoesOn, AfterRecord
  <2>. QED  BY <2>1, NoExit
<1>5. CASE j.command = "run"
  <2>1. \A i \in 1 .. Len(events) : events[i].key.mark = FirstMark(j)
    BY <1>1, MarkTypes, ReconciliationBatch
  <2>2. FirstMark(j).name = "initial" /\ MarkOf(j).name = "run"
    BY <1>5 DEF FirstMark, MarkOf, Mark
  <2>. DEFINE l == log[s]  m == log'[s]
  <2>. HIDE DEF events
  <2>3. /\ ExitOf(j, l) /\ l \in Seq(Entry) /\ m \in Seq(Entry) /\ events \in Seq(Entry)
        /\ m = Appended(l, events)
    BY <1>1, <1>2, AppendingExit
  <2>4. \A i \in 1 .. Len(events) :
          events[i].key \notin {Key("git", MarkOf(j)), Key("checkpoint", MarkOf(j))}
    BY <2>1, <2>2, KeyFields
  <2>5. k.pc = "launch" /\ Exiting(j) /\ {j.pc, k.pc} \subseteq Open /\ k.command = "run"
    BY <1>1, <1>3, <1>5 DEF AfterRecord, Exiting, Open, GoesOn
  <2>6. Covered(k, m)
    BY <2>5 DEF Covered
  <2>7. ExitOf(k, m)
    BY <1>3, <2>3, <2>4, <2>5, <2>6, BesideExit
  <2>. QED  BY <1>3, <2>7 DEF GoesOn
<1>. QED  BY <1>4, <1>5

\* After its event, a package covers less than the log.
LEMMA AppendHandoffExit ==
  ASSUME Inv, Inv', ExitInv, NEW p \in Processes, AppendHandoff(p)
  PROVE  ExitOf(job'[p], log'[job'[p].session])
<1>. DEFINE j == job[p]  k == job'[p]  s == j.session  key == Key("handoff", MarkOf(j))
            events == <<Event(key, 0)>>  l == log[s]  m == log'[s]
<1>1. /\ j.pc = "handoff" /\ s \in Sessions /\ AppendTo(s, events)
      /\ j \in Job /\ job \in [Processes -> Job] /\ j.command = "continue"
  BY AtWork DEF AppendHandoff, Place
<1>2. OwnEvents(j, events)
  BY StepsAppendOwn
<1>3. GoesOn(j, k) /\ k.pc = "target"
  BY <1>1 DEF AppendHandoff, Goto, GoesOn, Job
<1>4. Exiting(j) /\ {j.pc, k.pc} \subseteq Open
  BY <1>1, <1>3 DEF Exiting, Packed, Open
<1>5. Len(events) = 1 /\ events[1].key = key
  BY <1>1, <1>4, SingleMarks
<1>. HIDE DEF events
<1>6. /\ ExitOf(j, l) /\ l \in Seq(Entry) /\ m \in Seq(Entry) /\ events \in Seq(Entry)
      /\ m = Appended(l, events)
  BY <1>1, <1>2, AppendingExit
<1>7. key.tag = "handoff" /\ key.mark = MarkOf(j) /\ MarkOf(j).package = j.package
  BY <1>1, <1>4, KeyFields, ExitMark
<1>8. \A i \in 1 .. Len(events) :
        events[i].key \notin {Key("git", MarkOf(j)), Key("checkpoint", MarkOf(j))}
  BY <1>5, <1>7, KeyFields
<1>9. Covered(k, m)
  <2>1. HasKey(m, key)
    <3>1. Offers(events, key)
      BY <1>5 DEF Offers
    <3>. QED  BY <1>6, <3>1, AppendedKeys
  <2>2. PICK i \in 1 .. Len(m) : m[i].key = key
    BY <1>6, <2>1 DEF HasKey
  <2>3. EntryInv(s, m, i, handoffs', clock')
    BY <1>1, <2>2 DEF Inv, LogInv
  <2>4. j.package.session = s /\ j.package.seen < i
    BY <1>7, <2>2, <2>3 DEF EntryInv
  <2>5. j.package.seen \in Nat /\ Len(m) \in Nat
    <3>1. j.package \in Package \cup {NoPackage}
      BY <1>1 DEF Job
    <3>. QED  BY <1>6, <3>1 DEF Package, NoPackage
  <2>6. j.package.target = j.target
    BY <1>1, <1>4, <1>6 DEF ExitOf, Covered, Packed
  <2>. QED  BY <1>3, <2>4, <2>5, <2>6 DEF Covered, GoesOn
<1>10. ExitOf(k, m)
  BY <1>3, <1>4, <1>6, <1>8, <1>9, BesideExit
<1>. QED  BY <1>3, <1>10 DEF GoesOn

\* Captured records are under no mark.
LEMMA AppendCapturedExit ==
  ASSUME Inv, ExitInv, NEW p \in Processes, AppendCaptured(p)
  PROVE  ExitOf(job'[p], log'[job'[p].session])
<1>. DEFINE j == job[p]  k == job'[p]  s == j.session
            events == Transcript(j.external, j.count, FALSE)  l == log[s]  m == log'[s]
<1>1. /\ j.pc = "events" /\ s \in Sessions /\ AppendTo(s, events)
      /\ j \in Job /\ job \in [Processes -> Job] /\ j.command \in {"run", "continue"}
      /\ j.external \in Externals /\ j.count \in Nat
  BY AtWork DEF AppendCaptured, Place
<1>2. OwnEvents(j, events)
  BY StepsAppendOwn
<1>3. GoesOn(j, k) /\ k.pc = AfterEvents(j.failures) /\ k.failures = j.failures
  BY <1>1 DEF AppendCaptured, Goto, GoesOn, Job
<1>4. Exiting(j) /\ {j.pc, k.pc} \subseteq Open /\ (k.pc \in {"after", "reconcile"} => ~ k.failures)
      /\ k.pc # "handoff"
  BY <1>1, <1>3 DEF Exiting, Packed, Open, Finalizing, AfterEvents
<1>5. \A i \in 1 .. Len(events) : events[i].key.tag = "record"
  BY <1>1, TranscriptBatch
<1>. HIDE DEF events
<1>6. /\ ExitOf(j, l) /\ l \in Seq(Entry) /\ m \in Seq(Entry) /\ events \in Seq(Entry)
      /\ m = Appended(l, events) /\ Len(l) <= Len(m)
  BY <1>1, <1>2, AppendingExit
<1>7. \A i \in 1 .. Len(events) :
        events[i].key \notin {Key("git", MarkOf(j)), Key("checkpoint", MarkOf(j))}
  BY <1>5, KeyFields
<1>8. Covered(k, m)
  BY <1>1, <1>3, <1>4, <1>6, CoveredStays DEF ExitOf
<1>9. ExitOf(k, m)
  BY <1>3, <1>4, <1>6, <1>7, <1>8, BesideExit
<1>. QED  BY <1>3, <1>9 DEF GoesOn

\* The failures are in the log before the state after the exit.
LEMMA AppendCaptureFailuresExit ==
  ASSUME Inv, ExitInv, NEW p \in Processes, AppendCaptureFailures(p)
  PROVE  ExitOf(job'[p], log'[job'[p].session])
<1>. DEFINE j == job[p]  k == job'[p]  s == j.session  key == Key("error", MarkOf(j))
            events == <<Event(key, 0)>>  l == log[s]  m == log'[s]
<1>1. /\ j.pc = "failures" /\ s \in Sessions /\ AppendTo(s, events)
      /\ j \in Job /\ job \in [Processes -> Job] /\ j.command \in {"run", "continue"}
  BY AtWork DEF AppendCaptureFailures, Place
<1>2. OwnEvents(j, events)
  BY StepsAppendOwn
<1>3. GoesOn(j, k) /\ k.pc = "after"
  BY <1>1 DEF AppendCaptureFailures, Goto, GoesOn, Job
<1>4. Exiting(j) /\ {j.pc, k.pc} \subseteq Open
  BY <1>1, <1>3 DEF Exiting, Packed, Open, Finalizing
<1>5. Len(events) = 1 /\ events[1].key = key
  BY <1>1, <1>4, SingleMarks
<1>. HIDE DEF events
<1>6. /\ ExitOf(j, l) /\ l \in Seq(Entry) /\ m \in Seq(Entry) /\ events \in Seq(Entry)
      /\ m = Appended(l, events) /\ Len(l) <= Len(m)
  BY <1>1, <1>2, AppendingExit
<1>7. \A i \in 1 .. Len(events) :
        events[i].key \notin {Key("git", MarkOf(j)), Key("checkpoint", MarkOf(j))}
  BY <1>5, KeyFields
<1>8. HasKey(m, key)
  <2>1. Offers(events, key)
    BY <1>5 DEF Offers
  <2>. QED  BY <1>6, <2>1, AppendedKeys
<1>9. Covered(k, m)
  BY <1>1, <1>3, <1>4, <1>6, CoveredStays DEF ExitOf
<1>10. ExitOf(k, m)
  BY <1>3, <1>4, <1>6, <1>7, <1>8, <1>9, BesideExit
<1>. QED  BY <1>3, <1>10 DEF GoesOn

\* What a batch of a reconciliation holds.
Reconciles(batch, mark, after) ==
  /\ \A k \in 1 .. Len(batch) :
       /\ batch[k].key.tag \in {"git", "files"}
       /\ batch[k].key = Key("git", mark) => batch[k].version = after
  /\ \E k \in 1 .. Len(batch) : batch[k].key = Key("git", mark)

\* The batch tells the state it was given.
LEMMA ReconciliationHolds ==
  ASSUME NEW mark \in Marks, NEW before \in Nat, NEW after \in Nat
  PROVE  Reconciles(Reconciliation(mark, before, after), mark, after)
<1>. DEFINE b == Reconciliation(mark, before, after)
<1>1. /\ \A k \in 1 .. Len(b) :
           /\ b[k].key.tag \in {"git", "files"} /\ b[k].key.mark = mark
           /\ b[k].key = Key("git", mark) => b[k].version = after
      /\ \E k \in 1 .. Len(b) : b[k].key = Key("git", mark)
  BY ReconciliationBatch, ZenonT(60)
<1>. HIDE DEF b
<1>2. Reconciles(b, mark, after)
  BY <1>1 DEF Reconciles
<1>. QED  BY <1>2 DEF b

\* The state after the exit is recorded after the failures.
LEMMA AppendReconciliationExit ==
  ASSUME Inv, ExitInv, NEW p \in Processes, AppendReconciliation(p)
  PROVE  ExitOf(job'[p], log'[job'[p].session])
<1>. DEFINE j == job[p]  k == job'[p]  s == j.session  git == Key("git", MarkOf(j))
            checkpoint == Key("checkpoint", MarkOf(j))
            events == Reconciliation(MarkOf(j), j.before, j.after)  l == log[s]  m == log'[s]
<1>1. /\ j.pc = "reconcile" /\ s \in Sessions /\ AppendTo(s, events)
      /\ j \in Job /\ job \in [Processes -> Job] /\ j.command \in {"run", "continue"}
      /\ j.before \in Nat /\ j.after \in Nat
  BY AtWork DEF AppendReconciliation, Place
<1>2. OwnEvents(j, events)
  BY StepsAppendOwn
<1>3. /\ GoesOn(j, k) /\ k.pc \in {"checkpoint", "link"}
      /\ k.after = j.after /\ k.failures = j.failures
  BY <1>1 DEF AppendReconciliation, Goto, GoesOn, Job
<1>4. Exiting(j)
  BY <1>1, <1>3 DEF Exiting, Packed, Finalizing
<1>5. /\ \A i \in 1 .. Len(events) :
           /\ events[i].key.tag \in {"git", "files"}
           /\ events[i].key = git => events[i].version = j.after
      /\ \E i \in 1 .. Len(events) : events[i].key = git
  <2>1. MarkOf(j) \in Marks
    BY <1>1, MarkTypes
  <2>2. Reconciles(events, MarkOf(j), j.after)
    BY <1>1, <2>1, ReconciliationHolds
  <2>. HIDE DEF events
  <2>. QED  BY <2>2 DEF Reconciles
<1>. HIDE DEF events
<1>6. /\ ExitOf(j, l) /\ l \in Seq(Entry) /\ m \in Seq(Entry) /\ events \in Seq(Entry)
      /\ m = Appended(l, events) /\ Len(l) <= Len(m) /\ \A i \in 1 .. Len(l) : m[i] = l[i]
  BY <1>1, <1>2, AppendingExit
<1>7. Recorded(j, l) /\ Covered(j, l) /\ MarkOf(k) = MarkOf(j)
  BY <1>3, <1>4, <1>6, SameMark DEF ExitOf
<1>8. ~ HasKey(m, checkpoint)
  <2>1. ~ HasKey(l, checkpoint)
    BY <1>1, <1>7 DEF Recorded
  <2>2. checkpoint.tag = "checkpoint"
    BY KeyFields
  <2>. HIDE DEF checkpoint
  <2>3. ~ Offers(events, checkpoint)
    BY <1>5, <2>2 DEF Offers
  <2>. QED  BY <1>6, <2>1, <2>3, AppendedKeys
<1>9. PICK g \in 1 .. Len(m) : g > Len(l) /\ m[g].key = git /\ m[g].version = j.after
  <2>1. ~ HasKey(l, git)
    BY <1>1, <1>7 DEF Recorded
  <2>. HIDE DEF git
  <2>4. Offers(events, git)
    BY <1>5 DEF Offers
  <2>2. Brought(l, m, events, git)
    BY <1>6, <2>1, <2>4, AppendedKeys
  <2>3. PICK i \in 1 .. Len(m), h \in 1 .. Len(events) :
          i > Len(l) /\ m[i] = events[h] /\ events[h].key = git
    BY <2>2 DEF Brought
  <2>. QED  BY <1>5, <2>3
<1>10. ASSUME j.failures PROVE \E e \in 1 .. g : m[e].key = Key("error", MarkOf(j))
  <2>1. HasKey(l, Key("error", MarkOf(j)))
    BY <1>1, <1>7, <1>10 DEF Recorded
  <2>7. DOMAIN l = 1 .. Len(l)
    BY <1>6
  <2>2. PICK e \in 1 .. Len(l) : l[e].key = Key("error", MarkOf(j))
    BY <2>1, <2>7 DEF HasKey
  <2>3. Len(l) \in Nat
    BY <1>6
  <2>4. m[e] = l[e]
    BY <1>6, <2>2
  <2>5. g \in Int /\ g > Len(l)
    BY <1>9
  <2>6. e \in 1 .. g
    BY <2>2, <2>3, <2>5
  <2>. QED  BY <2>2, <2>4, <2>6
<1>11. Seen(k, m, g)
  BY <1>3, <1>7, <1>9, <1>10 DEF Seen
<1>12. Recorded(k, m)
  BY <1>3, <1>7, <1>8, <1>11 DEF Recorded
<1>13. Covered(k, m)
  BY <1>1, <1>3, <1>4, <1>6, <1>7, CoveredStays
<1>. QED  BY <1>3, <1>12, <1>13 DEF GoesOn, ExitOf

\* The checkpoint comes last.
LEMMA AppendCheckpointExit ==
  ASSUME Inv, ExitInv, NEW p \in Processes, AppendCheckpoint(p)
  PROVE  ExitOf(job'[p], log'[job'[p].session])
<1>. DEFINE j == job[p]  k == job'[p]  s == j.session  key == Key("checkpoint", MarkOf(j))
            events == <<Event(key, 0)>>  l == log[s]  m == log'[s]
<1>1. /\ j.pc = "checkpoint" /\ s \in Sessions /\ AppendTo(s, events)
      /\ j \in Job /\ job \in [Processes -> Job] /\ j.command \in {"run", "continue", "checkpoint"}
  BY AtWork DEF AppendCheckpoint, Place
<1>2. OwnEvents(j, events)
  BY StepsAppendOwn
<1>3. CASE Finish(p)
  BY <1>3, ReturnsNoExit
<1>4. CASE ~ Finish(p)
  <2>1. /\ GoesOn(j, k) /\ k.pc \in {"row", "finalize"}
        /\ k.after = j.after /\ k.failures = j.failures
    BY <1>1, <1>4 DEF AppendCheckpoint, Goto, GoesOn, Job
  <2>2. CASE j.command = "checkpoint"
    <3>1. k.command = "checkpoint"
      BY <2>1, <2>2 DEF GoesOn
    <3>. QED  BY <3>1, NoExit
  <2>3. CASE j.command # "checkpoint"
    <3>1. Exiting(j)
      BY <1>1, <2>3 DEF Exiting, Packed, Finalizing
    <3>2. Len(events) = 1 /\ events[1].key = key
      BY <1>1, <3>1, SingleMarks
    <3>. HIDE DEF events
    <3>3. /\ ExitOf(j, l) /\ l \in Seq(Entry) /\ m \in Seq(Entry) /\ events \in Seq(Entry)
          /\ m = Appended(l, events) /\ Len(l) <= Len(m) /\ \A i \in 1 .. Len(l) : m[i] = l[i]
      BY <1>1, <1>2, AppendingExit
    <3>4. Recorded(j, l) /\ Covered(j, l) /\ MarkOf(k) = MarkOf(j)
      BY <2>1, <3>1, <3>3, SameMark DEF ExitOf
    <3>5. PICK c \in 1 .. Len(m) : c > Len(l) /\ m[c].key = key
      <4>1. ~ HasKey(l, key)
        BY <1>1, <3>4 DEF Recorded
      <4>. HIDE DEF key
      <4>2. Offers(events, key)
        BY <3>2 DEF Offers
      <4>3. Brought(l, m, events, key)
        BY <3>3, <4>1, <4>2, AppendedKeys
      <4>. QED  BY <4>3 DEF Brought
    <3>6. PICK g \in 1 .. Len(l) : Seen(j, l, g)
      BY <1>1, <3>4 DEF Recorded
    <3>7. g \in 1 .. c - 1 /\ Seen(j, m, g)
      <4>1. Seen(j, m, g)
        BY <3>3, <3>6, SeenStays
      <4>2. Len(l) \in Nat
        BY <3>3
      <4>. QED  BY <3>5, <4>1, <4>2
    <3>8. Seen(k, m, g)
      BY <2>1, <3>4, <3>7 DEF Seen
    <3>9. Recorded(k, m)
      BY <2>1, <3>4, <3>5, <3>7, <3>8 DEF Recorded
    <3>10. Covered(k, m)
      BY <1>1, <2>1, <3>1, <3>3, <3>4, CoveredStays
    <3>. QED  BY <2>1, <3>9, <3>10 DEF GoesOn, ExitOf
  <2>. QED  BY <2>2, <2>3
<1>. QED  BY <1>3, <1>4

\* A new run has nothing in its log.
LEMMA StartRunExit ==
  ASSUME Inv, ExitInv, NEW p \in Processes, StartRun(p)
  PROVE  ExitOf(job'[p], log'[job'[p].session])
<1>. DEFINE k == job'[p]  l == log'[k.session]
<1>1. /\ k.pc = "before" /\ k.command = "run" /\ k.session \in Sessions
      /\ status[k.session] = "none" /\ log' = log
  BY StartedRun
<1>2. l = <<>>
  BY <1>1 DEF ExitInv, Rowless
<1>3. \A key : ~ HasKey(l, key)
  BY <1>2 DEF HasKey
<1>. HIDE DEF l
<1>4. Recorded(k, l) /\ Covered(k, l)
  BY <1>1, <1>3 DEF Recorded, Covered
<1>. QED  BY <1>4 DEF ExitOf, l

\* Nothing in the log is under the mark of a package that covers the log.
LEMMA SaveHandoffExit ==
  ASSUME Inv, ExitInv, NEW p \in Processes, SaveHandoff(p)
  PROVE  ExitOf(job'[p], log'[job'[p].session])
<1>. DEFINE j == job[p]  k == job'[p]  l == log[j.session]
<1>1. /\ j.session \in Sessions
      /\ k.pc = "handoff" /\ k.command = "continue" /\ k.session = j.session
      /\ k.target = j.target /\ k.package.session = j.session /\ k.package.target = j.target
      /\ k.package.seen = Len(l) /\ log' = log
  BY SavedJob
<1>2. l \in Seq(Entry) /\ MarksFollow(l)
  BY <1>1 DEF Inv, Shape, Logs, ExitInv
<1>3. DOMAIN l = 1 .. Len(l) /\ Len(l) \in Nat
  BY <1>2
<1>4. Exiting(k)
  BY <1>1 DEF Exiting, Packed
<1>5. ASSUME NEW tag, HasKey(l, Key(tag, MarkOf(k))) PROVE FALSE
  <2>1. PICK i \in 1 .. Len(l) : l[i].key = Key(tag, MarkOf(k))
    BY <1>3, <1>5 DEF HasKey
  <2>2. l[i].key.mark = MarkOf(k)
    BY <2>1, KeyFields
  <2>3. l[i].key.mark.name = "continue" /\ l[i].key.mark.package = k.package
    BY <1>1, <1>4, <2>2, ExitMark
  <2>4. k.package.seen < i
    BY <1>2, <2>3 DEF MarksFollow
  <2>. QED  BY <1>1, <1>3, <2>4
<1>6. Recorded(k, l)
  BY <1>1, <1>5 DEF Recorded
<1>7. Covered(k, l)
  BY <1>1, <1>3 DEF Covered
<1>. QED  BY <1>1, <1>6, <1>7 DEF ExitOf

\* Each step leaves the exit of its own command as it should be.
LEMMA OwnExit ==
  ASSUME Inv, Inv', ExitInv, NEW p \in Processes,
         \/ StartRun(p) \/ StartContinue(p) \/ StartCheckpoint(p) \/ StartImport(p)
         \/ Step(p) \/ CutShort(p)
  PROVE  ExitOf(job'[p], log'[job'[p].session])
<1>1. /\ Place(job[p]) /\ job \in [Processes -> Job] /\ job[p] \in Job
  BY AtWork
<1>2. CASE StartContinue(p)
  BY <1>2, StartedContinue, NoExit
<1>3. CASE StartCheckpoint(p)
  BY <1>3, StartedCheckpoint, NoExit
<1>4. CASE StartImport(p)
  BY <1>4, StartedImport, NoExit
<1>5. CASE CutShort(p) \/ StoreBundle(p) \/ RefuseBundle(p) \/ Preview(p) \/ ManualHandoff(p)
           \/ LaunchFails(p) \/ LinkConflict(p) \/ SaveSummary(p)
  BY <1>5, ReturnsNoExit DEF CutShort, StoreBundle, RefuseBundle, Preview, ManualHandoff,
     LaunchFails, LinkConflict, SaveSummary
<1>6. CASE ReadExport(p)
  <2>1. CASE Finish(p)
    BY <2>1, ReturnsNoExit
  <2>2. CASE ~ Finish(p)
    <3>1. job'[p].pc = "bundle"
      BY <1>1, <1>6, <2>2 DEF ReadExport, Job
    <3>. QED  BY <3>1, NoExit
  <2>. QED  BY <2>1, <2>2
<1>7. CASE ReadRefresh(p)
  <2>1. CASE Finish(p)
    BY <2>1, ReturnsNoExit
  <2>2. CASE ~ Finish(p)
    <3>1. job'[p].pc = "refreshed"
      BY <1>1, <1>7, <2>2 DEF ReadRefresh, Job
    <3>. QED  BY <3>1, NoExit
  <2>. QED  BY <2>1, <2>2
<1>8. CASE SkipRefresh(p) \/ AppendRefreshed(p)
  <2>1. job'[p].pc = "before" /\ job'[p].command = "continue"
    BY <1>1, <1>8 DEF SkipRefresh, AppendRefreshed, Goto, Place, Job
  <2>. QED  BY <2>1, NoExit
<1>9. CASE Finalize(p)
  <2>1. job'[p].pc = "summary"
    BY <1>1, <1>9 DEF Finalize, Goto, Job
  <2>. QED  BY <2>1, NoExit
<1>10. CASE \/ SnapshotBefore(p) \/ ReadTarget(p) \/ Activate(p) \/ AgentExits(p) \/ ReadCapture(p)
            \/ SnapshotAfter(p) \/ LinkExternal(p) \/ CreateCheckpoint(p)
  BY <1>10, QuietSteps
<1>. QED  BY <1>2, <1>3, <1>4, <1>5, <1>6, <1>7, <1>8, <1>9, <1>10, StartRunExit, SaveHandoffExit,
     RecordBeforeExit, AppendHandoffExit, AppendCapturedExit, AppendCaptureFailuresExit,
     AppendReconciliationExit, AppendCheckpointExit DEF Step

\* And it leaves the exits of the others alone.
LEMMA OthersExit ==
  ASSUME Inv, ExitInv, NEW p \in Processes, Proceeds(p), NEW q \in Processes, q # p
  PROVE  ExitOf(job'[q], log'[job'[q].session])
<1>. DEFINE j == job[q]  s == j.session  l == log[s]  m == log'[s]
<1>1. job'[q] = j
  BY DEF Proceeds
<1>. SUFFICES ASSUME Exiting(j) PROVE Recorded(j, m) /\ Covered(j, m)
  BY <1>1 DEF ExitOf
<1>2. j \in Job /\ s \in Sessions
  BY AtWork DEF Exiting, Packed, Finalizing, Place
<1>3. /\ l \in Seq(Entry) /\ m \in Seq(Entry)
      /\ m = l \/ (s = job[p].session /\ Adds(l, m, job[p]))
  BY <1>2 DEF Proceeds
<1>4. Recorded(j, l) /\ Covered(j, l)
  BY DEF ExitInv, ExitOf
<1>5. CASE m = l
  BY <1>4, <1>5
<1>6. CASE s = job[p].session /\ Adds(l, m, job[p])
  <2>1. Apart(j, job[p])
    BY DEF ExitInv
  <2>2. Exiting(job[p]) => MarkOf(j) # MarkOf(job[p])
    BY <1>6, <2>1, MarksApart
  <2>3. \A tag : HasKey(m, Key(tag, MarkOf(j))) => HasKey(l, Key(tag, MarkOf(j)))
    BY <1>3, <1>6, <2>2, ForeignKeys
  <2>4. Len(l) <= Len(m) /\ \A i \in 1 .. Len(l) : m[i] = l[i]
    BY <1>6 DEF Adds
  <2>5. Recorded(j, m)
    BY <1>3, <1>4, <2>3, <2>4, RecordedStays
  <2>6. GoesOn(j, j)
    BY DEF GoesOn
  <2>7. Covered(j, m)
    BY <1>2, <1>3, <1>4, <2>4, <2>6, CoveredStays
  <2>. QED  BY <2>5, <2>7
<1>. QED  BY <1>3, <1>5, <1>6

\* ExitInv holds at first.
LEMMA ExitInitially ==
  ASSUME Init
  PROVE  ExitInv
<1>1. \A s \in Sessions : log[s] = <<>>
  BY DEF Init
<1>2. \A p \in Processes : job[p].pc = "idle" /\ job[p].command = "none"
  BY DEF Init, Idle
<1>3. Rowless
  BY <1>1, <1>2 DEF Rowless
<1>4. \A s \in Sessions : MarksFollow(log[s])
  BY <1>1 DEF MarksFollow
<1>5. \A p, q \in Processes : Apart(job[p], job[q])
  BY <1>2 DEF Apart
<1>6. \A p \in Processes : ExitOf(job[p], log[job[p].session])
  BY <1>2, NoExit
<1>. QED  BY <1>3, <1>4, <1>5, <1>6 DEF ExitInv

\* ExitInv is inductive while no continuation builds the package of another.
LEMMA ExitInductive ==
  ASSUME Inv, Inv', ExitInv, NoTwins, [Next]_vars
  PROVE  ExitInv'
<1>1. CASE UNCHANGED vars
  BY <1>1 DEF vars, tables, ExitInv, Rowless
<1>2. CASE Next
  <2>1. PICK p \in Processes : \/ StartRun(p) \/ StartContinue(p) \/ StartCheckpoint(p)
                               \/ StartImport(p) \/ Step(p) \/ CutShort(p)
    BY <1>2 DEF Next
  <2>2. Proceeds(p)
    BY <2>1, StepsProceed
  <2>3. Rowless'
    <3>1. Rowless
      BY DEF ExitInv
    <3>2. RowsStay(p)
      BY <2>1, <3>1, StepsKeepRows
    <3>. QED  BY <2>2, <3>1, <3>2, RowlessKeeps
  <2>4. \A s \in Sessions : MarksFollow(log'[s])
    BY <2>2, MarksFollowKeeps
  <2>5. StartRun(p) \/ SaveHandoff(p) \/ MarkFrom(job[p], job'[p])
    BY <2>1, StepsKeepMark
  <2>6. \A q, r \in Processes : q # r => Apart(job'[q], job'[r])
    <3>. SUFFICES ASSUME NEW q \in Processes, NEW r \in Processes, q # r
                  PROVE  Apart(job'[q], job'[r])
      OBVIOUS
    <3>1. CASE q = p \/ r = p
      BY <2>2, <2>5, <3>1, ApartKeeps
    <3>2. CASE q # p /\ r # p
      BY <2>2, <3>2 DEF Proceeds, ExitInv
    <3>. QED  BY <3>1, <3>2
  <2>7. \A q \in Processes : ExitOf(job'[q], log'[job'[q].session])
    BY <2>1, <2>2, OwnExit, OthersExit
  <2>. QED  BY <2>3, <2>4, <2>6, <2>7 DEF ExitInv
<1>. QED  BY <1>1, <1>2

\* The invariant of the exits, in the behaviours in which no continuation of a
\* session stores the package that another one is about to record.
THEOREM ExitInvariant == Spec /\ []NoTwins => []ExitInv
<1>1. Init => ExitInv
  BY ExitInitially
<1>2. Inv /\ Inv' /\ ExitInv /\ NoTwins /\ [Next]_vars => ExitInv'
  BY ExitInductive
<1>. QED  BY <1>1, <1>2, Invariance, PTL DEF Spec

\* The record of an exit is complete when a command sets the final status.
LEMMA ExitInvRecords ==
  ASSUME Inv, ExitInv
  PROVE  ExitIsRecorded
<1>. SUFFICES ASSUME NEW p \in Processes, job[p].pc = "finalize"
              PROVE  LET j == job[p] s == j.session m == MarkOf(j) IN
                     \E g, c \in DOMAIN log[s] :
                       /\ g < c
                       /\ At(s, g, Key("git", m)) /\ log[s][g].version = j.after
                       /\ At(s, c, Key("checkpoint", m))
                       /\ j.failures => \E e \in 1 .. g : At(s, e, Key("error", m))
  BY DEF ExitIsRecorded
<1>. DEFINE j == job[p]  s == j.session
<1>1. Place(j) /\ j \in Job
  BY AtWork
<1>2. Exiting(j) /\ s \in Sessions
  BY <1>1 DEF Place, Exiting, Packed, Finalizing
<1>3. DOMAIN log[s] = 1 .. Len(log[s]) /\ Len(log[s]) \in Nat
  BY <1>2 DEF Inv, Shape, Logs
<1>4. Recorded(j, log[s])
  BY <1>2 DEF ExitInv, ExitOf
<1>5. PICK c \in 1 .. Len(log[s]) : log[s][c].key = Key("checkpoint", MarkOf(j))
                                    /\ \E g \in 1 .. c - 1 : Seen(j, log[s], g)
  BY <1>4 DEF Recorded
<1>6. PICK g \in 1 .. c - 1 : Seen(j, log[s], g)
  BY <1>5
<1>7. g \in DOMAIN log[s] /\ c \in DOMAIN log[s] /\ g < c /\ \A e \in 1 .. g : e \in DOMAIN log[s]
  BY <1>3
<1>8. /\ At(s, g, Key("git", MarkOf(j))) /\ log[s][g].version = j.after
      /\ At(s, c, Key("checkpoint", MarkOf(j)))
      /\ j.failures => \E e \in 1 .. g : At(s, e, Key("error", MarkOf(j)))
  BY <1>5, <1>6, <1>7 DEF Seen, At
<1>. QED  BY <1>7, <1>8

\* However a run or continuation interleaves with others, when it sets the
\* final status the log of its session tells its whole exit in order, unless
\* two continuations of it to one agent built one package.
THEOREM ExitsAreRecorded == Spec /\ []NoTwins => []ExitIsRecorded
BY ExitInvariant, Invariance, ExitInvRecords, PTL

-----------------------------------------------------------------------------
\* A command continues to one of the agents its process may continue to.
TargetOf(p, j) == j.command = "continue" => j.target \in Targets[p]
OwnTargets == \A p \in Processes : TargetOf(p, job[p])

\* A step keeps the target of the job, or ends it.
LEMMA StepsKeepTarget ==
  ASSUME Inv, NEW p \in Processes, Step(p) \/ CutShort(p), TargetOf(p, job[p])
  PROVE  TargetOf(p, job'[p])
<1>0. job \in [Processes -> Job] /\ job[p] \in Job
  BY AtWork
<1>1. ASSUME Finish(p) \/ Abandon(p) PROVE TargetOf(p, job'[p])
  BY <1>1, <1>0 DEF Finish, Abandon, Idle, TargetOf
<1>2. ASSUME NEW pc, Goto(p, pc) PROVE TargetOf(p, job'[p])
  BY <1>2, <1>0 DEF Goto, TargetOf, Job
<1>3. CASE CutShort(p) \/ StoreBundle(p) \/ RefuseBundle(p) \/ Preview(p) \/ ManualHandoff(p)
           \/ LaunchFails(p) \/ LinkConflict(p) \/ SaveSummary(p)
  BY <1>3, <1>1 DEF CutShort, StoreBundle, RefuseBundle, Preview, ManualHandoff, LaunchFails,
     LinkConflict, SaveSummary
<1>4. CASE SkipRefresh(p) \/ RecordBefore(p) \/ AppendHandoff(p) \/ Activate(p)
           \/ AppendCaptured(p) \/ AppendCaptureFailures(p)
           \/ AppendReconciliation(p) \/ LinkExternal(p) \/ Finalize(p)
  BY <1>4, <1>2 DEF SkipRefresh, RecordBefore, AppendHandoff, Activate,
     AppendCaptured, AppendCaptureFailures, AppendReconciliation, LinkExternal, Finalize
<1>5. CASE SnapshotBefore(p)
  BY <1>5, <1>0 DEF SnapshotBefore, TargetOf, Job
<1>13. CASE AppendRefreshed(p)
  BY <1>13, <1>0 DEF AppendRefreshed, TargetOf, Job
<1>11. CASE ReadCapture(p)
  BY <1>11, <1>0 DEF ReadCapture, TargetOf, Job
<1>12. CASE SnapshotAfter(p)
  BY <1>12, <1>0 DEF SnapshotAfter, TargetOf, Job
<1>8. CASE SaveHandoff(p)
  BY <1>8, <1>0, SavedJob DEF TargetOf
<1>9. CASE ReadTarget(p)
  BY <1>9, <1>0 DEF ReadTarget, TargetOf, Job
<1>10. CASE AgentExits(p)
  BY <1>10, <1>0 DEF AgentExits, TargetOf, Job
<1>6. CASE ReadExport(p)
  <2>1. CASE ~ Finish(p)
    BY <1>6, <1>0, <2>1 DEF ReadExport, TargetOf, Job
  <2>. QED  BY <1>1, <2>1
<1>14. CASE ReadRefresh(p)
  <2>1. CASE ~ Finish(p)
    <3>. DEFINE full == IsFull(job[p].session, SourceLink(job[p]))
    <3>1. PICK n : job' = [job EXCEPT ![p].pc = "refreshed", ![p].external = SourceLink(job[p]),
                                      ![p].count = n, ![p].full = full]
      BY <1>14, <2>1 DEF ReadRefresh
    <3>. HIDE DEF full
    <3>2. job'[p].command = job[p].command /\ job'[p].target = job[p].target
      BY <1>0, <3>1 DEF Job
    <3>. QED  BY <3>2 DEF TargetOf
  <2>. QED  BY <1>1, <2>1
<1>7. CASE AppendCheckpoint(p) \/ CreateCheckpoint(p)
  <2>1. CASE ~ Finish(p) /\ ~ Goto(p, "finalize")
    BY <1>7, <1>0, <2>1 DEF AppendCheckpoint, CreateCheckpoint, TargetOf, Job
  <2>. QED  BY <1>1, <1>2, <2>1
<1>. QED  BY <1>3, <1>4, <1>5, <1>6, <1>7, <1>8, <1>9, <1>10,
     <1>11, <1>12, <1>13, <1>14 DEF Step

\* A command starts with a target of its process.
LEMMA StartsWithTarget ==
  ASSUME Inv, NEW p \in Processes,
         StartRun(p) \/ StartContinue(p) \/ StartCheckpoint(p) \/ StartImport(p)
  PROVE  TargetOf(p, job'[p])
  BY StartedRun, StartedContinue, StartedCheckpoint, StartedImport DEF TargetOf

\* A step of any process keeps the targets of all.
LEMMA OwnTargetsKeep ==
  ASSUME Inv, Inv', OwnTargets, [Next]_vars
  PROVE  OwnTargets'
<1>1. CASE UNCHANGED vars
  BY <1>1 DEF vars, OwnTargets, TargetOf
<1>2. CASE Next
  <2>1. PICK p \in Processes :
          \/ StartRun(p) \/ StartContinue(p) \/ StartCheckpoint(p) \/ StartImport(p)
          \/ Step(p) \/ CutShort(p)
    BY <1>2 DEF Next
  <2>2. TargetOf(p, job'[p])
    BY <2>1, StepsKeepTarget, StartsWithTarget DEF OwnTargets
  <2>3. \A q \in Processes : q # p => job'[q] = job[q]
    BY <2>1, StepsProceed DEF Proceeds
  <2>. QED  BY <2>2, <2>3 DEF OwnTargets, TargetOf
<1>. QED  BY <1>1, <1>2

\* No two processes continue to one agent.
DifferentTargets == \A p, q \in Processes : p # q => Targets[p] \cap Targets[q] = {}

\* Then no two continuations are about one package.
LEMMA TargetsTellApart ==
  ASSUME DifferentTargets, OwnTargets
  PROVE  NoTwins
BY DEF DifferentTargets, OwnTargets, TargetOf, NoTwins

\* Processes that continue to different agents never spoil each other's record
\* of an exit, whatever else they do on the same session.
THEOREM ExitsAreRecordedByTarget ==
  ASSUME DifferentTargets
  PROVE  Spec => []ExitIsRecorded
<1>1. Init => OwnTargets
  BY DEF Init, OwnTargets, TargetOf, Idle
<1>2. Inv /\ Inv' /\ OwnTargets /\ [Next]_vars => OwnTargets'
  BY OwnTargetsKeep
<1>3. OwnTargets => NoTwins
  BY TargetsTellApart
<1>. QED  BY <1>1, <1>2, <1>3, ExitsAreRecorded, Invariance, PTL DEF Spec
====
