------------------------ MODULE OpenCodeExportProofs ------------------------
(***************************************************************************)
(* Proofs about OpenCodeExport for any number of processes, messages,      *)
(* exports and labels.                                                     *)
(*                                                                         *)
(* An export of a growing transcript is a snapshot that is stored later.   *)
(* The invariant says what a batch in the hands of a process, and the log, *)
(* have in common (Faithful): each event has the key of a record its       *)
(* message shows, results follow their calls, and of every message before  *)
(* one it tells of all is told, unless the next message was sent while     *)
(* that one was still being answered.  It is that last fact (Settled) that *)
(* keeps exports stored in any order from mixing the messages: a record    *)
(* that comes late belongs to a message that was open, and what was sent   *)
(* meanwhile is queued.                                                    *)
(***************************************************************************)
EXTENDS OpenCodeExport, WellFoundedInduction, SequenceTheorems, TLAPS

\* Every set of numbers has a least one.
LEMMA LeastNumber ==
  ASSUME NEW T \in SUBSET Nat, T # {}
  PROVE  \E m \in T : \A n \in T : m <= n
<1>1. PICK m \in T : \A n \in T : <<n, m>> \notin OpToRel(<, Nat)
  BY NatLessThanWellFounded, WFMin, Zenon
<1>2. ASSUME NEW n \in T, n < m PROVE FALSE
  <2>1. <<n, m>> \in OpToRel(<, Nat)
    BY <1>2, Zenon DEF OpToRel
  <2>. QED  BY <1>1, <2>1, Zenon
<1>. QED  BY <1>2

\* Induction on sets of numbers.
LEMMA Induction ==
  ASSUME NEW S, 0 \in S, \A n \in Nat : n \in S => n + 1 \in S
  PROVE  \A n \in Nat : n \in S
<1>1. SUFFICES ASSUME Nat \ S # {} PROVE FALSE
  OBVIOUS
<1>2. PICK m \in Nat \ S : \A n \in Nat \ S : m <= n
  BY <1>1, LeastNumber
<1>3. m - 1 \in Nat /\ m - 1 \in S
  BY <1>2
<1>. QED  BY <1>2, <1>3

\* The lists an append goes through.
Loop(old, events, n, f) ==
  f = [k \in 0 .. n |-> IF k = 0 THEN old
                        ELSE IF HasKey(f[k - 1], events[k].key) THEN f[k - 1]
                        ELSE Append(f[k - 1], events[k])]

\* Every prefix of a batch has such lists.
LEMMA LoopDefined ==
  ASSUME NEW old, NEW events
  PROVE  \A n \in Nat : \E f : Loop(old, events, n, f)
<1>. DEFINE S == {n \in Nat : \E f : Loop(old, events, n, f)}
<1>1. 0 \in S
  <2>. DEFINE f == [k \in 0 .. 0 |-> old]
  <2>1. Loop(old, events, 0, f)
    BY DEF Loop
  <2>. QED  BY <2>1
<1>2. ASSUME NEW n \in Nat, n \in S PROVE n + 1 \in S
  <2>1. PICK f : Loop(old, events, n, f)
    BY <1>2
  <2>. DEFINE g == [k \in 0 .. n + 1 |-> IF k = n + 1
                      THEN IF HasKey(f[n], events[n + 1].key) THEN f[n]
                           ELSE Append(f[n], events[n + 1])
                      ELSE f[k]]
  <2>2. \A k \in 0 .. n : g[k] = f[k]
    OBVIOUS
  <2>3. \A k \in 0 .. n + 1 : g[k] = IF k = 0 THEN old
                        ELSE IF HasKey(g[k - 1], events[k].key) THEN g[k - 1]
                        ELSE Append(g[k - 1], events[k])
    <3>1. \A k \in 0 .. n : f[k] = IF k = 0 THEN old
                        ELSE IF HasKey(f[k - 1], events[k].key) THEN f[k - 1]
                        ELSE Append(f[k - 1], events[k])
      BY <2>1 DEF Loop
    <3>2. \A k \in 1 .. n : k - 1 \in 0 .. n
      OBVIOUS
    <3>. QED  BY <3>1, <3>2, <2>2
  <2>4. Loop(old, events, n + 1, g)
    BY <2>3 DEF Loop
  <2>. QED  BY <2>4
<1>3. \A n \in Nat : n \in S
  <2>. HIDE DEF S
  <2>. QED  BY <1>1, <1>2, Induction
<1>. QED  BY <1>3

\* append_events goes through them.
LEMMA AppendedIsLoop ==
  ASSUME NEW old, NEW events, Len(events) \in Nat
  PROVE  \E f : Loop(old, events, Len(events), f) /\ Appended(old, events) = f[Len(events)]
<1>. DEFINE after == CHOOSE f : Loop(old, events, Len(events), f)
<1>1. Loop(old, events, Len(events), after)
  BY LoopDefined
<1>2. Appended(old, events) = after[Len(events)]
  BY DEF Appended, Loop
<1>. QED  BY <1>1, <1>2

-----------------------------------------------------------------------------
Names == {"id", "ordinal", "part", "message"} \X Nat
Keys == [tag : {"message", "call", "result"}, name : Names, full : BOOLEAN]
Entry == [key : Keys, of : Nat, content : Nat]

\* No key is in a list twice.
Distinct(l) == \A i, h \in 1 .. Len(l) : l[h].key = l[i].key => h = i

\* What the first n INSERTs of a batch make of a log.
Grown(old, events, n, new) ==
  /\ new \in Seq(Entry)
  /\ Len(old) <= Len(new)
  /\ \A i \in 1 .. Len(old) : new[i] = old[i]
  /\ \A i \in Len(old) + 1 .. Len(new) : \E k \in 1 .. n :
       /\ new[i] = events[k] /\ ~ HasKey(old, events[k].key)
       /\ \A h \in 1 .. k - 1 : \E j \in 1 .. i - 1 : new[j].key = events[h].key
  /\ \A k \in 1 .. n : \E i \in 1 .. Len(new) : new[i].key = events[k].key
  /\ Distinct(old) => Distinct(new)

\* An event whose key is stored changes nothing.
LEMMA GrownStays ==
  ASSUME NEW old \in Seq(Entry), NEW events \in Seq(Entry), NEW n \in Nat, n < Len(events),
         NEW l, Grown(old, events, n, l), HasKey(l, events[n + 1].key)
  PROVE  Grown(old, events, n + 1, l)
<1>. DEFINE e == events[n + 1]
<1>1. l \in Seq(Entry) /\ DOMAIN l = 1 .. Len(l) /\ Len(l) \in Nat
  BY DEF Grown
<1>2. PICK m \in 1 .. Len(l) : l[m].key = e.key
  BY <1>1 DEF HasKey
<1>3. \A i \in Len(old) + 1 .. Len(l) : \E k \in 1 .. n + 1 :
       /\ l[i] = events[k] /\ ~ HasKey(old, events[k].key)
       /\ \A h \in 1 .. k - 1 : \E j \in 1 .. i - 1 : l[j].key = events[h].key
  <2>. TAKE i \in Len(old) + 1 .. Len(l)
  <2>1. PICK k \in 1 .. n :
          /\ l[i] = events[k] /\ ~ HasKey(old, events[k].key)
          /\ \A h \in 1 .. k - 1 : \E j \in 1 .. i - 1 : l[j].key = events[h].key
    BY DEF Grown
  <2>2. k \in 1 .. n + 1
    OBVIOUS
  <2>. QED  BY <2>1, <2>2
<1>4. \A k \in 1 .. n + 1 : \E i \in 1 .. Len(l) : l[i].key = events[k].key
  <2>. TAKE k \in 1 .. n + 1
  <2>1. CASE k = n + 1
    BY <1>2, <2>1
  <2>2. CASE k \in 1 .. n
    BY <2>2 DEF Grown
  <2>. QED  BY <2>1, <2>2
<1>. QED  BY <1>1, <1>3, <1>4 DEF Grown

\* An event whose key is new is appended.
LEMMA GrownByOne ==
  ASSUME NEW old \in Seq(Entry), NEW events \in Seq(Entry), NEW n \in Nat, n < Len(events),
         NEW l, Grown(old, events, n, l), ~ HasKey(l, events[n + 1].key)
  PROVE  Grown(old, events, n + 1, Append(l, events[n + 1]))
<1>. DEFINE e == events[n + 1]
            g == Append(l, e)
<1>1. l \in Seq(Entry) /\ DOMAIN l = 1 .. Len(l) /\ Len(l) \in Nat /\ Len(old) <= Len(l)
      /\ \A i \in 1 .. Len(old) : l[i] = old[i]
  BY DEF Grown
<1>2. e \in Entry
  OBVIOUS
<1>3. g \in Seq(Entry) /\ Len(g) = Len(l) + 1 /\ g[Len(l) + 1] = e
      /\ \A i \in 1 .. Len(l) : g[i] = l[i]
  BY <1>1, <1>2
<1>4. ~ HasKey(old, e.key)
  <2>1. SUFFICES ASSUME NEW i \in DOMAIN old, old[i].key = e.key PROVE FALSE
    BY DEF HasKey
  <2>2. i \in 1 .. Len(old) /\ i \in DOMAIN l /\ l[i].key = e.key
    BY <1>1, <2>1
  <2>. QED  BY <2>2 DEF HasKey
<1>. HIDE DEF g
<1>5. \A i \in Len(old) + 1 .. Len(g) : \E k \in 1 .. n + 1 :
       /\ g[i] = events[k] /\ ~ HasKey(old, events[k].key)
       /\ \A h \in 1 .. k - 1 : \E j \in 1 .. i - 1 : g[j].key = events[h].key
  <2>. TAKE i \in Len(old) + 1 .. Len(g)
  <2>1. CASE i = Len(l) + 1
    <3>1. ASSUME NEW h \in 1 .. n PROVE \E j \in 1 .. i - 1 : g[j].key = events[h].key
      <4>1. PICK j \in 1 .. Len(l) : l[j].key = events[h].key
        BY DEF Grown
      <4>. QED  BY <1>1, <1>3, <2>1, <4>1
    <3>2. n + 1 \in 1 .. n + 1 /\ (n + 1) - 1 = n
      OBVIOUS
    <3>. QED  BY <1>3, <1>4, <2>1, <3>1, <3>2
  <2>2. CASE i \in Len(old) + 1 .. Len(l)
    <3>1. PICK k \in 1 .. n :
            /\ l[i] = events[k] /\ ~ HasKey(old, events[k].key)
            /\ \A h \in 1 .. k - 1 : \E j \in 1 .. i - 1 : l[j].key = events[h].key
      BY <2>2 DEF Grown
    <3>2. k \in 1 .. n + 1
      OBVIOUS
    <3>3. g[i] = l[i] /\ \A j \in 1 .. i - 1 : g[j] = l[j]
      BY <1>1, <1>3, <2>2
    <3>. QED  BY <3>1, <3>2, <3>3
  <2>. QED  BY <1>1, <1>3, <2>1, <2>2
<1>6. \A k \in 1 .. n + 1 : \E i \in 1 .. Len(g) : g[i].key = events[k].key
  <2>. TAKE k \in 1 .. n + 1
  <2>1. CASE k = n + 1
    BY <1>1, <1>3, <2>1
  <2>2. CASE k \in 1 .. n
    <3>1. PICK i \in 1 .. Len(l) : l[i].key = events[k].key
      BY <2>2 DEF Grown
    <3>. QED  BY <1>1, <1>3, <3>1
  <2>. QED  BY <2>1, <2>2
<1>7. ASSUME Distinct(old) PROVE Distinct(g)
  <2>1. Distinct(l)
    BY <1>7 DEF Grown
  <2>2. \A i \in 1 .. Len(l) : l[i].key # e.key
    BY <1>1 DEF HasKey
  <2>. SUFFICES ASSUME NEW i \in 1 .. Len(g), NEW h \in 1 .. Len(g), g[h].key = g[i].key
                PROVE  h = i
    BY DEF Distinct
  <2>3. CASE i \in 1 .. Len(l) /\ h \in 1 .. Len(l)
    <3>1. l[h].key = l[i].key
      BY <1>3, <2>3
    <3>. QED  BY <2>1, <2>3, <3>1 DEF Distinct
  <2>4. CASE i \in 1 .. Len(l) /\ h = Len(l) + 1
    BY <1>1, <1>3, <2>2, <2>4
  <2>5. CASE i = Len(l) + 1 /\ h \in 1 .. Len(l)
    BY <1>1, <1>3, <2>2, <2>5
  <2>. QED  BY <1>1, <1>3, <2>3, <2>4, <2>5
<1>8. \A i \in 1 .. Len(old) : g[i] = old[i]
  BY <1>1, <1>3
<1>9. Len(old) <= Len(g)
  BY <1>1, <1>3
<1>10. Grown(old, events, n + 1, g)
  BY <1>3, <1>5, <1>6, <1>7, <1>8, <1>9 DEF Grown
<1>. QED  BY <1>10 DEF g

\* What append_events leaves in a log.
LEMMA AppendedGrows ==
  ASSUME NEW old \in Seq(Entry), NEW events \in Seq(Entry)
  PROVE  Grown(old, events, Len(events), Appended(old, events))
<1>1. PICK f : Loop(old, events, Len(events), f) /\ Appended(old, events) = f[Len(events)]
  BY AppendedIsLoop
<1>. DEFINE S == {n \in Nat : n <= Len(events) => Grown(old, events, n, f[n])}
<1>2. 0 \in S
  <2>1. f[0] = old
    BY <1>1 DEF Loop
  <2>. QED  BY <2>1 DEF Grown
<1>3. ASSUME NEW n \in Nat, n \in S PROVE n + 1 \in S
  <2>1. SUFFICES ASSUME n < Len(events) PROVE Grown(old, events, n + 1, f[n + 1])
    OBVIOUS
  <2>2. f[n + 1] = IF HasKey(f[n], events[n + 1].key) THEN f[n] ELSE Append(f[n], events[n + 1])
    <3>1. n + 1 \in 0 .. Len(events) /\ n + 1 # 0 /\ (n + 1) - 1 = n
      BY <2>1
    <3>. QED  BY <1>1, <3>1 DEF Loop
  <2>3. Grown(old, events, n, f[n])
    BY <1>3, <2>1
  <2>. QED  BY <2>1, <2>2, <2>3, GrownStays, GrownByOne
<1>4. \A n \in Nat : n \in S
  <2>. HIDE DEF S
  <2>. QED  BY <1>2, <1>3, Induction
<1>. QED  BY <1>1, <1>4

-----------------------------------------------------------------------------
(* The invariant.                                                          *)

\* The names of a message and of its tool part, given the message.
NameOf(m, n) == <<IF m.id THEN "id" ELSE "ordinal", n>>
PartOf(m, n) == IF m.partId THEN <<"part", n>> ELSE IF m.id THEN <<"id", n>> ELSE <<"message", 0>>

\* The n-th message shows the records that its export would hold.
Shows(m, n, full, key) ==
  \/ key = Key("message", NameOf(m, n), full) /\ m.role # "other" /\ m.text # 0
  \/ key = Key("call", PartOf(m, n), full) /\ m.tool \in {"called", "finished"}
  \/ key = Key("result", PartOf(m, n), full) /\ m.tool \in {"finished", "answered"}

\* The call of a result comes before it, unless its part has no input.
Follows(t, l) ==
  \A i \in 1 .. Len(l) : (l[i].key.tag = "result" /\ t[l[i].of].tool # "answered") =>
    \E h \in 1 .. i - 1 : l[h].key = [l[i].key EXCEPT !.tag = "call"]

\* An event has the key of a record of its message.
Known(t, e) == e.of \in 1 .. Len(t) /\ Shows(t[e.of], e.of, e.key.full, e.key)

\* A finished message of which a list tells all.
Told(t, l, n, full) ==
  ~ t[n].open /\ \A key \in Keys : Shows(t[n], n, full, key) => HasKey(l, key)

\* Of every message before those of a list all is told, or the next is queued.
Settled(t, l) ==
  \A i \in 1 .. Len(l) : \A n \in 1 .. l[i].of - 1 :
    t[n + 1].queued \/ Told(t, l, n, l[i].key.full)

\* What is true of a batch that was read, and of the log.
Faithful(t, l) ==
  /\ l \in Seq(Entry)
  /\ \A i \in 1 .. Len(l) : Known(t, l[i])
  /\ Follows(t, l)
  /\ Settled(t, l)

\* The events of a batch have one form and the order of the transcript.
Ordered(events, full) ==
  /\ \A i \in 1 .. Len(events) : events[i].key.full = full
  /\ \A i, k \in 1 .. Len(events) : i < k => events[i].of <= events[k].of

\* Events stand in the order of their messages, unless one of those was queued.
InOrder(t, l) ==
  \A i, j \in 1 .. Len(l) :
    (i < j /\ l[i].key.full = l[j].key.full /\ l[j].of < l[i].of)
      => \E n \in l[j].of + 1 .. l[i].of : t[n].queued

\* A message sent while the one before it was open is queued.
Queued(t) == \A n \in 1 .. Len(t) - 1 : t[n].open => t[n + 1].queued

Job == [events : Seq(Entry), full : BOOLEAN, import : BOOLEAN]
Transcript(t) == t \in Seq(Message) /\ Queued(t)
JobInv(t, j) == j \in Job /\ Faithful(t, j.events) /\ Ordered(j.events, j.full)
LogInv(t, l) == Faithful(t, l) /\ Distinct(l) /\ InOrder(t, l)

ExportInv ==
  /\ Transcript(transcript)
  /\ marker \in {"none", "plain", "full"}
  /\ job \in [Processes -> Job] /\ \A p \in Processes : JobInv(transcript, job[p])
  /\ LogInv(transcript, log)

-----------------------------------------------------------------------------
(* Storing a batch.                                                        *)

\* A key that is stored, or in the batch, is stored after an append.
LEMMA KeysStay ==
  ASSUME NEW l \in Seq(Entry), NEW events \in Seq(Entry), NEW new, Grown(l, events, Len(events), new),
         NEW key, HasKey(l, key) \/ HasKey(events, key)
  PROVE  HasKey(new, key)
<1>1. /\ new \in Seq(Entry) /\ Len(l) <= Len(new) /\ \A i \in 1 .. Len(l) : new[i] = l[i]
      /\ \A k \in 1 .. Len(events) : \E i \in 1 .. Len(new) : new[i].key = events[k].key
  BY DEF Grown
<1>2. /\ DOMAIN new = 1 .. Len(new) /\ DOMAIN l = 1 .. Len(l) /\ DOMAIN events = 1 .. Len(events)
      /\ Len(new) \in Nat /\ Len(l) \in Nat
  BY <1>1
<1>3. CASE HasKey(l, key)
  <2>1. PICK i \in 1 .. Len(l) : l[i].key = key
    BY <1>2, <1>3 DEF HasKey
  <2>2. i \in 1 .. Len(new) /\ new[i].key = key
    BY <1>1, <1>2, <2>1
  <2>. QED  BY <1>2, <2>2 DEF HasKey
<1>4. CASE HasKey(events, key)
  <2>1. PICK k \in 1 .. Len(events) : events[k].key = key
    BY <1>2, <1>4 DEF HasKey
  <2>2. PICK i \in 1 .. Len(new) : new[i].key = events[k].key
    BY <1>1
  <2>. QED  BY <1>2, <2>1, <2>2 DEF HasKey
<1>. QED  BY <1>3, <1>4

\* What is told stays told in a longer list.
LEMMA ToldStays ==
  ASSUME NEW t, NEW l, NEW m, NEW n, NEW full, Told(t, l, n, full),
         \A key \in Keys : HasKey(l, key) => HasKey(m, key)
  PROVE  Told(t, m, n, full)
BY DEF Told

\* An event of a log after an append is an old one or one of the batch, whose
\* key was not stored.
LEMMA Origin ==
  ASSUME NEW l \in Seq(Entry), NEW events \in Seq(Entry), NEW new, Grown(l, events, Len(events), new),
         NEW i \in 1 .. Len(new)
  PROVE  \/ i \in 1 .. Len(l) /\ new[i] = l[i]
         \/ i > Len(l) /\ \E k \in 1 .. Len(events) :
              /\ new[i] = events[k] /\ ~ HasKey(l, events[k].key)
              /\ \A h \in 1 .. k - 1 : \E j \in 1 .. i - 1 : new[j].key = events[h].key
<1>1. Len(l) \in Nat /\ i \in Nat
  OBVIOUS
<1>2. CASE i \in 1 .. Len(l)
  BY <1>2 DEF Grown
<1>3. CASE i \in Len(l) + 1 .. Len(new)
  BY <1>1, <1>3 DEF Grown
<1>. QED  BY <1>1, <1>2, <1>3

\* An append keeps a log faithful.
LEMMA AppendFaithful ==
  ASSUME NEW t, NEW l, NEW events, NEW new, Faithful(t, l), Faithful(t, events),
         Grown(l, events, Len(events), new)
  PROVE  Faithful(t, new)
<1>1. l \in Seq(Entry) /\ events \in Seq(Entry) /\ new \in Seq(Entry)
      /\ Len(l) <= Len(new) /\ Len(l) \in Nat /\ Len(new) \in Nat
  BY DEF Faithful, Grown
<1>2. ASSUME NEW i \in 1 .. Len(new) PROVE Known(t, new[i])
  BY <1>1, Origin DEF Faithful
<1>3. ASSUME NEW i \in 1 .. Len(new), new[i].key.tag = "result", t[new[i].of].tool # "answered"
      PROVE  \E h \in 1 .. i - 1 : new[h].key = [new[i].key EXCEPT !.tag = "call"]
  <2>1. CASE i \in 1 .. Len(l) /\ new[i] = l[i]
    <3>1. PICK h \in 1 .. i - 1 : l[h].key = [l[i].key EXCEPT !.tag = "call"]
      BY <1>3, <2>1 DEF Faithful, Follows
    <3>2. new[h] = l[h]
      BY <1>1, <2>1 DEF Grown
    <3>. QED  BY <2>1, <3>1, <3>2
  <2>2. CASE \E k \in 1 .. Len(events) :
               /\ new[i] = events[k]
               /\ \A h \in 1 .. k - 1 : \E j \in 1 .. i - 1 : new[j].key = events[h].key
    <3>0. PICK k \in 1 .. Len(events) :
            /\ new[i] = events[k]
            /\ \A h \in 1 .. k - 1 : \E j \in 1 .. i - 1 : new[j].key = events[h].key
      BY <2>2
    <3>1. PICK h \in 1 .. k - 1 : events[h].key = [events[k].key EXCEPT !.tag = "call"]
      BY <1>3, <3>0 DEF Faithful, Follows
    <3>2. PICK j \in 1 .. i - 1 : new[j].key = events[h].key
      BY <3>0
    <3>. QED  BY <3>0, <3>1, <3>2
  <2>3. \/ i \in 1 .. Len(l) /\ new[i] = l[i]
        \/ \E k \in 1 .. Len(events) :
             /\ new[i] = events[k]
             /\ \A h \in 1 .. k - 1 : \E j \in 1 .. i - 1 : new[j].key = events[h].key
    <3>1. CASE i \in 1 .. Len(l)
      BY <1>1, <3>1 DEF Grown
    <3>2. CASE i \in Len(l) + 1 .. Len(new)
      <4>1. PICK k \in 1 .. Len(events) :
              /\ new[i] = events[k] /\ ~ HasKey(l, events[k].key)
              /\ \A h \in 1 .. k - 1 : \E j \in 1 .. i - 1 : new[j].key = events[h].key
        BY <3>2 DEF Grown
      <4>. QED  BY <4>1
    <3>3. Len(l) \in Nat /\ i \in Nat
      BY <1>1
    <3>. QED  BY <3>1, <3>2, <3>3
  <2>. QED  BY <2>1, <2>2, <2>3
<1>4. ASSUME NEW i \in 1 .. Len(new), NEW n \in 1 .. new[i].of - 1
      PROVE  t[n + 1].queued \/ Told(t, new, n, new[i].key.full)
  <2>1. \A key \in Keys : HasKey(l, key) \/ HasKey(events, key) => HasKey(new, key)
    BY <1>1, KeysStay
  <2>2. CASE i \in 1 .. Len(l) /\ new[i] = l[i]
    <3>1. t[n + 1].queued \/ Told(t, l, n, new[i].key.full)
      BY <1>4, <2>2 DEF Faithful, Settled
    <3>. QED  BY <2>1, <3>1, ToldStays
  <2>3. ASSUME NEW k \in 1 .. Len(events), new[i] = events[k]
        PROVE  t[n + 1].queued \/ Told(t, new, n, new[i].key.full)
    <3>1. t[n + 1].queued \/ Told(t, events, n, new[i].key.full)
      BY <1>4, <2>3 DEF Faithful, Settled
    <3>. QED  BY <2>1, <3>1, ToldStays
  <2>. QED  BY <1>1, <2>2, <2>3, Origin
<1>. QED  BY <1>1, <1>2, <1>3, <1>4 DEF Faithful, Follows, Settled

\* An append keeps the order of the messages: an event that comes after those
\* of a later message was not yet shown when they were read.
LEMMA AppendInOrder ==
  ASSUME NEW t, NEW l, NEW events, NEW full, NEW new, LogInv(t, l), Faithful(t, events),
         Ordered(events, full), Grown(l, events, Len(events), new)
  PROVE  InOrder(t, new)
<1>1. l \in Seq(Entry) /\ events \in Seq(Entry) /\ new \in Seq(Entry)
      /\ Len(l) <= Len(new) /\ Len(l) \in Nat /\ Len(new) \in Nat /\ Len(events) \in Nat
  BY DEF LogInv, Faithful, Grown
<1>2. Distinct(new)
  BY DEF LogInv, Grown
<1>. SUFFICES ASSUME NEW i \in 1 .. Len(new), NEW j \in 1 .. Len(new), i < j,
                     new[i].key.full = new[j].key.full, new[j].of < new[i].of
              PROVE  \E n \in new[j].of + 1 .. new[i].of : t[n].queued
  BY DEF InOrder
<1>3. new[i] \in Entry /\ new[j] \in Entry
  BY <1>1
<1>4. CASE j \in 1 .. Len(l) /\ new[j] = l[j]
  <2>1. i \in 1 .. Len(l) /\ new[i] = l[i]
    BY <1>1, <1>4 DEF Grown
  <2>. QED  BY <1>4, <2>1 DEF LogInv, InOrder
<1>5. ASSUME j > Len(l), NEW k \in 1 .. Len(events), new[j] = events[k], ~ HasKey(l, events[k].key)
      PROVE  \E n \in new[j].of + 1 .. new[i].of : t[n].queued
  <2>1. CASE i \in 1 .. Len(l) /\ new[i] = l[i]
    <3>. DEFINE n == new[j].of
    <3>1. Known(t, new[j])
      BY <1>5 DEF Faithful
    <3>2. n \in 1 .. Len(t) /\ Shows(t[n], n, new[j].key.full, new[j].key)
      BY <3>1 DEF Known
    <3>3. new[j].of \in Nat /\ new[i].of \in Nat
      BY <1>3 DEF Entry
    <3>4. n \in 1 .. new[i].of - 1
      BY <3>2, <3>3
    <3>5. t[n + 1].queued \/ Told(t, l, n, new[i].key.full)
      BY <2>1, <3>4 DEF LogInv, Faithful, Settled
    <3>6. new[j].key \in Keys
      BY <1>3 DEF Entry
    <3>7. ~ Told(t, l, n, new[i].key.full)
      BY <1>5, <3>2, <3>6 DEF Told
    <3>8. n + 1 \in new[j].of + 1 .. new[i].of
      BY <3>3, <3>4
    <3>. QED  BY <3>5, <3>7, <3>8
  <2>2. ASSUME NEW h \in 1 .. Len(events), new[i] = events[h],
               \A g \in 1 .. h - 1 : \E b \in 1 .. i - 1 : new[b].key = events[g].key
        PROVE  FALSE
    <3>1. h < k
      <4>1. CASE k \in 1 .. h - 1
        <5>1. PICK b \in 1 .. i - 1 : new[b].key = new[j].key
          BY <1>5, <2>2, <4>1
        <5>2. b \in 1 .. Len(new) /\ b # j
          BY <5>1, <1>1
        <5>. QED  BY <1>2, <5>1, <5>2 DEF Distinct
      <4>2. CASE k = h
        BY <1>2, <1>5, <2>2, <4>2 DEF Distinct
      <4>. QED  BY <4>1, <4>2
    <3>2. events[h].of <= events[k].of
      BY <3>1 DEF Ordered
    <3>3. new[i].of \in Nat /\ new[j].of \in Nat
      BY <1>3 DEF Entry
    <3>. QED  BY <1>5, <2>2, <3>2, <3>3
  <2>. QED  BY <1>1, <2>1, <2>2, Origin
<1>. QED  BY <1>1, <1>4, <1>5, Origin

-----------------------------------------------------------------------------
(* OpenCode at work.                                                       *)

\* A message keeps its name, its role and what it shows.
Keeps(m, k) ==
  /\ k.id = m.id /\ k.partId = m.partId /\ k.role = m.role
  /\ m.text # 0 => k.text # 0
  /\ m.tool \in {"called", "finished"} => k.tool \in {"called", "finished"}
  /\ m.tool = "finished" => k.tool = "finished"
  /\ m.tool = "answered" => k.tool = "answered"

\* A transcript grows at its end and in its open messages.
Evolves(t, u) ==
  /\ Len(t) \in Nat /\ Len(u) \in Nat /\ Len(t) <= Len(u)
  /\ \A n \in 1 .. Len(t) :
       Keeps(t[n], u[n]) /\ u[n].queued = t[n].queued /\ (~ t[n].open => u[n] = t[n])

\* A message shows no less than before.
LEMMA ShowsStay ==
  ASSUME NEW m, NEW k, NEW n, NEW full, NEW key, Keeps(m, k), Shows(m, n, full, key)
  PROVE  Shows(k, n, full, key)
BY DEF Keeps, Shows, NameOf, PartOf

\* What is true of a list stays true while the transcript grows.
LEMMA FaithfulStays ==
  ASSUME NEW t, NEW u, NEW l, Evolves(t, u), Faithful(t, l)
  PROVE  Faithful(u, l)
<1>1. l \in Seq(Entry) /\ Len(l) \in Nat /\ \A i \in 1 .. Len(l) : l[i] \in Entry
  BY DEF Faithful
<1>2. ASSUME NEW i \in 1 .. Len(l) PROVE l[i].of \in 1 .. Len(t) /\ l[i].of \in 1 .. Len(u)
  BY DEF Faithful, Known, Evolves
<1>3. ASSUME NEW i \in 1 .. Len(l) PROVE Known(u, l[i])
  <2>1. Known(t, l[i])
    BY DEF Faithful
  <2>2. Keeps(t[l[i].of], u[l[i].of])
    BY <1>2 DEF Evolves
  <2>. QED  BY <1>2, <2>1, <2>2, ShowsStay DEF Known
<1>4. ASSUME NEW i \in 1 .. Len(l), NEW n \in 1 .. l[i].of - 1
      PROVE  u[n + 1].queued \/ Told(u, l, n, l[i].key.full)
  <2>1. n \in 1 .. Len(t) /\ n + 1 \in 1 .. Len(t)
    BY <1>2 DEF Evolves
  <2>2. CASE t[n + 1].queued
    BY <2>1, <2>2 DEF Evolves
  <2>3. CASE Told(t, l, n, l[i].key.full)
    <3>1. u[n] = t[n]
      BY <2>1, <2>3 DEF Told, Evolves
    <3>. QED  BY <2>3, <3>1 DEF Told
  <2>4. t[n + 1].queued \/ Told(t, l, n, l[i].key.full)
    BY DEF Faithful, Settled
  <2>. QED  BY <2>2, <2>3, <2>4
<1>5. ASSUME NEW i \in 1 .. Len(l), l[i].key.tag = "result", u[l[i].of].tool # "answered"
      PROVE  \E h \in 1 .. i - 1 : l[h].key = [l[i].key EXCEPT !.tag = "call"]
  <2>1. t[l[i].of].tool # "answered"
    BY <1>2, <1>5 DEF Evolves, Keeps
  <2>. QED  BY <1>5, <2>1 DEF Faithful, Follows
<1>. QED  BY <1>1, <1>3, <1>4, <1>5 DEF Faithful, Follows, Settled

\* So does the order of the log.
LEMMA LogStays ==
  ASSUME NEW t, NEW u, NEW l, Evolves(t, u), LogInv(t, l)
  PROVE  LogInv(u, l)
<1>1. Faithful(u, l)
  BY FaithfulStays DEF LogInv
<1>2. InOrder(u, l)
  <2>. SUFFICES ASSUME NEW i \in 1 .. Len(l), NEW j \in 1 .. Len(l), i < j,
                       l[i].key.full = l[j].key.full, l[j].of < l[i].of
                PROVE  \E n \in l[j].of + 1 .. l[i].of : u[n].queued
    BY DEF InOrder
  <2>1. PICK n \in l[j].of + 1 .. l[i].of : t[n].queued
    BY DEF LogInv, InOrder
  <2>2. l[i].of \in 1 .. Len(t) /\ l[j].of \in 1 .. Len(t)
    BY DEF LogInv, Faithful, Known
  <2>3. n \in 1 .. Len(t)
    BY <2>2 DEF Evolves
  <2>. QED  BY <2>1, <2>3 DEF Evolves
<1>. QED  BY <1>1, <1>2 DEF LogInv

\* A step of OpenCode.
LEMMA Growing ==
  ASSUME ExportInv, UNCHANGED <<log, marker, job>>,
         Evolves(transcript, transcript'), Transcript(transcript')
  PROVE  ExportInv'
<1>1. \A p \in Processes : JobInv(transcript', job[p])
  BY FaithfulStays DEF ExportInv, JobInv
<1>2. LogInv(transcript', log)
  BY LogStays DEF ExportInv
<1>. QED  BY <1>1, <1>2 DEF ExportInv

\* A new message.
LEMMA AddMessageKeeps ==
  ASSUME ExportInv, AddMessage
  PROVE  ExportInv'
<1>. DEFINE t == transcript  queued == \E n \in DOMAIN transcript : transcript[n].open
<1>1. t \in Seq(Message) /\ Len(t) \in Nat /\ DOMAIN t = 1 .. Len(t) /\ Queued(t)
  BY DEF ExportInv, Transcript
<1>2. PICK role \in Roles, label \in Labels :
        transcript' = Append(t, [role |-> role, id |-> label[1], partId |-> label[2],
                                 text |-> IF role = "user" THEN Words ELSE 0, tool |-> "none",
                                 open |-> role # "user", queued |-> queued])
  BY DEF AddMessage
<1>. DEFINE m == [role |-> role, id |-> label[1], partId |-> label[2],
                  text |-> IF role = "user" THEN Words ELSE 0, tool |-> "none",
                  open |-> role # "user", queued |-> queued]
<1>3. m \in Message /\ m.queued = queued
  <2>1. label[1] \in BOOLEAN /\ label[2] \in BOOLEAN
    BY LabelsEach
  <2>2. (IF role = "user" THEN Words ELSE 0) \in 0 .. Words
    BY BoundsAreNumbers
  <2>3. queued \in BOOLEAN /\ (role # "user") \in BOOLEAN
    OBVIOUS
  <2>. HIDE DEF queued
  <2>. QED  BY <2>1, <2>2, <2>3 DEF Message, Roles
<1>. HIDE DEF m
<1>4. /\ transcript' \in Seq(Message) /\ Len(transcript') = Len(t) + 1
      /\ \A n \in 1 .. Len(t) : transcript'[n] = t[n]
      /\ transcript'[Len(t) + 1] = m
  BY <1>1, <1>2, <1>3 DEF m
<1>5. Queued(transcript')
  <2>. SUFFICES ASSUME NEW n \in 1 .. Len(transcript') - 1, transcript'[n].open
                PROVE  transcript'[n + 1].queued
    BY DEF Queued
  <2>1. n \in 1 .. Len(t) /\ t[n].open
    BY <1>1, <1>4
  <2>2. CASE n = Len(t)
    BY <1>1, <1>3, <1>4, <2>1, <2>2
  <2>3. CASE n \in 1 .. Len(t) - 1
    <3>1. n + 1 \in 1 .. Len(t)
      BY <1>1, <2>3
    <3>. QED  BY <1>1, <1>4, <2>1, <2>3, <3>1 DEF Queued
  <2>4. n = Len(t) \/ n \in 1 .. Len(t) - 1
    <3>1. Len(t) \in Nat /\ n \in 1 .. Len(t)
      BY <1>1, <2>1
    <3>. HIDE DEF t
    <3>. QED  BY <3>1
  <2>. QED  BY <2>2, <2>3, <2>4
<1>6. Evolves(t, transcript')
  BY <1>1, <1>4 DEF Evolves, Keeps
<1>. QED  BY <1>4, <1>5, <1>6, Growing DEF AddMessage, Transcript

\* A change of an open message.
LEMMA ChangeKeeps ==
  ASSUME ExportInv, NEW n \in DOMAIN transcript, NEW m \in Message, Change(n, m),
         Keeps(transcript[n], m), m.queued = transcript[n].queued
  PROVE  ExportInv'
<1>. DEFINE t == transcript
<1>1. t \in Seq(Message) /\ Len(t) \in Nat /\ DOMAIN t = 1 .. Len(t) /\ Queued(t)
  BY DEF ExportInv, Transcript
<1>2. t[n].open /\ transcript' = [t EXCEPT ![n] = m] /\ UNCHANGED <<log, marker, job>>
  BY DEF Change
<1>3. /\ transcript' \in Seq(Message) /\ Len(transcript') = Len(t)
      /\ \A i \in 1 .. Len(t) : transcript'[i] = IF i = n THEN m ELSE t[i]
  BY <1>1, <1>2
<1>4. \A i \in 1 .. Len(t) : Keeps(t[i], transcript'[i]) /\ transcript'[i].queued = t[i].queued
                             /\ (~ t[i].open => transcript'[i] = t[i])
  BY <1>2, <1>3 DEF Keeps
<1>5. Evolves(t, transcript')
  BY <1>1, <1>3, <1>4 DEF Evolves
<1>6. Queued(transcript')
  <2>. SUFFICES ASSUME NEW i \in 1 .. Len(t) - 1, transcript'[i].open
                PROVE  transcript'[i + 1].queued
    BY <1>3 DEF Queued
  <2>1. i \in 1 .. Len(t) /\ i + 1 \in 1 .. Len(t)
    BY <1>1
  <2>2. t[i].open
    BY <1>2, <1>3, <2>1
  <2>. QED  BY <1>1, <1>4, <2>1, <2>2 DEF Queued
<1>. QED  BY <1>2, <1>3, <1>5, <1>6, Growing DEF Transcript

\* Every step of OpenCode in a message.
LEMMA WorkKeeps ==
  ASSUME ExportInv, NEW n \in DOMAIN transcript,
         WriteText(n) \/ CallTool(n) \/ FinishTool(n) \/ AnswerTool(n) \/ Close(n)
  PROVE  ExportInv'
<1>. DEFINE m == transcript[n]
<1>1. m \in Message
  BY DEF ExportInv, Transcript
<1>2. CASE WriteText(n)
  <2>. DEFINE k == [m EXCEPT !.text = @ + 1]
  <2>1. k \in Message /\ Keeps(m, k) /\ k.queued = m.queued
    BY <1>1, <1>2, BoundsAreNumbers DEF WriteText, Message, Keeps
  <2>2. Change(n, k)
    BY <1>2 DEF WriteText
  <2>. HIDE DEF k
  <2>. QED  BY <2>1, <2>2, ChangeKeeps
<1>3. CASE CallTool(n)
  <2>. DEFINE k == [m EXCEPT !.tool = "called"]
  <2>1. k \in Message /\ Keeps(m, k) /\ k.queued = m.queued
    BY <1>1, <1>3 DEF CallTool, Message, Keeps
  <2>2. Change(n, k)
    BY <1>3 DEF CallTool
  <2>. HIDE DEF k
  <2>. QED  BY <2>1, <2>2, ChangeKeeps
<1>4. CASE FinishTool(n)
  <2>. DEFINE k == [m EXCEPT !.tool = "finished"]
  <2>1. k \in Message /\ Keeps(m, k) /\ k.queued = m.queued
    BY <1>1, <1>4 DEF FinishTool, Message, Keeps
  <2>2. Change(n, k)
    BY <1>4 DEF FinishTool
  <2>. HIDE DEF k
  <2>. QED  BY <2>1, <2>2, ChangeKeeps
<1>5. CASE Close(n)
  <2>. DEFINE k == [m EXCEPT !.open = FALSE]
  <2>1. k \in Message /\ Keeps(m, k) /\ k.queued = m.queued
    BY <1>1 DEF Message, Keeps
  <2>2. Change(n, k)
    BY <1>5 DEF Close
  <2>. HIDE DEF k
  <2>. QED  BY <2>1, <2>2, ChangeKeeps
<1>6. CASE AnswerTool(n)
  <2>. DEFINE k == [m EXCEPT !.tool = "answered"]
  <2>1. k \in Message /\ Keeps(m, k) /\ k.queued = m.queued
    BY <1>1, <1>6 DEF AnswerTool, Message, Keeps
  <2>2. Change(n, k)
    BY <1>6 DEF AnswerTool
  <2>. HIDE DEF k
  <2>. QED  BY <2>1, <2>2, ChangeKeeps
<1>. QED  BY <1>2, <1>3, <1>4, <1>5, <1>6

-----------------------------------------------------------------------------
(* An export.                                                              *)

\* The records of one message.
PartsOf(n, full) == MessageEvents(n, full) \o ToolEvents(n, full)

\* What the export of the first n messages is, in a transcript.
Exported(t, n, full, l) ==
  /\ l \in Seq(Entry)
  /\ \A i \in 1 .. Len(l) : l[i].of \in 1 .. n /\ l[i].key.full = full
                            /\ Shows(t[l[i].of], l[i].of, full, l[i].key)
  /\ \A m \in 1 .. n : \A key : Shows(t[m], m, full, key) => HasKey(l, key)
  /\ \A i, k \in 1 .. Len(l) : i < k => l[i].of <= l[k].of
  /\ Follows(t, l)

\* What the records of one message are.
Parts(t, n, full, l) ==
  /\ l \in Seq(Entry) /\ Follows(t, l)
  /\ \A i \in 1 .. Len(l) : l[i].of = n /\ l[i].key.full = full /\ Shows(t[n], n, full, l[i].key)
HasText(n, full, l) ==
  (transcript[n].role # "other" /\ transcript[n].text # 0) =>
    HasKey(l, Key("message", MessageName(n), full))
HasTools(n, full, l) ==
  /\ transcript[n].tool \in {"called", "finished"} => HasKey(l, Key("call", PartName(n), full))
  /\ transcript[n].tool \in {"finished", "answered"} => HasKey(l, Key("result", PartName(n), full))

\* The end of one list followed by another.
LEMMA Joined ==
  ASSUME NEW a \in Seq(Entry), NEW b \in Seq(Entry), NEW c, c = a \o b
  PROVE  /\ c \in Seq(Entry) /\ Len(c) = Len(a) + Len(b)
         /\ \A i \in 1 .. Len(a) : c[i] = a[i]
         /\ \A i \in 1 .. Len(b) : c[Len(a) + i] = b[i]
         /\ \A i \in 1 .. Len(c) :
              \/ i \in 1 .. Len(a) /\ c[i] = a[i]
              \/ i > Len(a) /\ i - Len(a) \in 1 .. Len(b) /\ c[i] = b[i - Len(a)]
         /\ \A key : HasKey(a, key) \/ HasKey(b, key) => HasKey(c, key)
<1>1. /\ c \in Seq(Entry) /\ Len(c) = Len(a) + Len(b)
      /\ \A i \in 1 .. Len(a) + Len(b) : c[i] = IF i <= Len(a) THEN a[i] ELSE b[i - Len(a)]
      /\ Len(a) \in Nat /\ Len(b) \in Nat
  BY ConcatProperties
<1>2. /\ \A i \in 1 .. Len(a) : c[i] = a[i]
      /\ \A i \in 1 .. Len(b) : c[Len(a) + i] = b[i]
  <2>1. ASSUME NEW i \in 1 .. Len(a) PROVE c[i] = a[i]
    BY <1>1
  <2>2. ASSUME NEW i \in 1 .. Len(b) PROVE c[Len(a) + i] = b[i]
    <3>1. Len(a) + i \in 1 .. Len(a) + Len(b) /\ ~ (Len(a) + i <= Len(a)) /\ (Len(a) + i) - Len(a) = i
      BY <1>1
    <3>. QED  BY <1>1, <3>1
  <2>. QED  BY <2>1, <2>2
<1>3. ASSUME NEW i \in 1 .. Len(c)
      PROVE  \/ i \in 1 .. Len(a) /\ c[i] = a[i]
             \/ i > Len(a) /\ i - Len(a) \in 1 .. Len(b) /\ c[i] = b[i - Len(a)]
  <2>1. CASE i <= Len(a)
    BY <1>1, <2>1
  <2>2. CASE i > Len(a)
    BY <1>1, <2>2
  <2>. QED  BY <1>1, <2>1, <2>2
<1>4. ASSUME NEW key, HasKey(a, key) \/ HasKey(b, key) PROVE HasKey(c, key)
  <2>1. DOMAIN a = 1 .. Len(a) /\ DOMAIN b = 1 .. Len(b) /\ DOMAIN c = 1 .. Len(c)
    BY <1>1
  <2>2. CASE HasKey(a, key)
    <3>1. PICK i \in 1 .. Len(a) : a[i].key = key
      BY <2>1, <2>2 DEF HasKey
    <3>2. i \in 1 .. Len(c) /\ c[i].key = key
      BY <1>1, <1>2, <3>1
    <3>. QED  BY <2>1, <3>2 DEF HasKey
  <2>3. CASE HasKey(b, key)
    <3>1. PICK i \in 1 .. Len(b) : b[i].key = key
      BY <2>1, <2>3 DEF HasKey
    <3>2. Len(a) + i \in 1 .. Len(c) /\ c[Len(a) + i].key = key
      BY <1>1, <1>2, <3>1
    <3>. QED  BY <2>1, <3>2 DEF HasKey
  <2>. QED  BY <1>4, <2>2, <2>3
<1>. QED  BY <1>1, <1>2, <1>3, <1>4

\* Results follow their calls in two such lists, one after the other.
LEMMA JoinedFollows ==
  ASSUME NEW t, NEW a \in Seq(Entry), NEW b \in Seq(Entry), Follows(t, a), Follows(t, b),
         NEW c, c = a \o b
  PROVE  Follows(t, c)
<1>1. Len(a) \in Nat /\ Len(b) \in Nat
  OBVIOUS
<1>. SUFFICES ASSUME NEW i \in 1 .. Len(c), c[i].key.tag = "result", t[c[i].of].tool # "answered"
              PROVE  \E h \in 1 .. i - 1 : c[h].key = [c[i].key EXCEPT !.tag = "call"]
  BY DEF Follows
<1>2. CASE i \in 1 .. Len(a) /\ c[i] = a[i]
  <2>1. PICK h \in 1 .. i - 1 : a[h].key = [a[i].key EXCEPT !.tag = "call"]
    BY <1>2 DEF Follows
  <2>2. h \in 1 .. Len(a)
    BY <1>1, <1>2
  <2>3. c[h] = a[h]
    BY <2>2, Joined
  <2>. QED  BY <1>2, <2>1, <2>3
<1>3. CASE i > Len(a) /\ i - Len(a) \in 1 .. Len(b) /\ c[i] = b[i - Len(a)]
  <2>1. PICK h \in 1 .. (i - Len(a)) - 1 : b[h].key = [b[i - Len(a)].key EXCEPT !.tag = "call"]
    BY <1>3 DEF Follows
  <2>2. h \in 1 .. Len(b) /\ Len(a) + h \in 1 .. i - 1
    BY <1>1, <1>3
  <2>3. c[Len(a) + h] = b[h]
    BY <2>2, Joined
  <2>4. c[Len(a) + h].key = [c[i].key EXCEPT !.tag = "call"]
    BY <1>3, <2>1, <2>3
  <2>. QED  BY <2>2, <2>4
<1>4. \/ i \in 1 .. Len(a) /\ c[i] = a[i]
      \/ i > Len(a) /\ i - Len(a) \in 1 .. Len(b) /\ c[i] = b[i - Len(a)]
  BY Joined
<1>. QED  BY <1>2, <1>3, <1>4

\* The events and names of a message.
LEMMA EventTypes ==
  ASSUME transcript \in Seq(Message), NEW n \in 1 .. Len(transcript), NEW full \in BOOLEAN,
         NEW tag \in {"message", "call", "result"}, NEW name \in Names
  PROVE  LET e == Event(tag, name, full, n) IN
         /\ e \in Entry /\ e.of = n /\ e.key = Key(tag, name, full)
         /\ e.key.full = full /\ e.key.tag = tag /\ e.key.name = name
<1>1. transcript[n] \in Message
  OBVIOUS
<1>2. transcript[n].text \in Nat
  BY <1>1, BoundsAreNumbers DEF Message
<1>3. Key(tag, name, full) \in Keys
  BY DEF Key, Keys
<1>4. /\ Key(tag, name, full).tag = tag /\ Key(tag, name, full).full = full
      /\ Key(tag, name, full).name = name
  BY DEF Key
<1>5. (IF full /\ tag = "message" THEN transcript[n].text ELSE 0) \in Nat
  BY <1>2
<1>. QED  BY <1>3, <1>4, <1>5 DEF Event, Entry

\* The names are those of the message.
LEMMA NameTypes ==
  ASSUME transcript \in Seq(Message), NEW n \in 1 .. Len(transcript)
  PROVE  /\ MessageName(n) \in Names /\ MessageName(n) = NameOf(transcript[n], n)
         /\ PartName(n) \in Names /\ PartName(n) = PartOf(transcript[n], n)
<1>1. n \in Nat /\ 0 \in Nat
  OBVIOUS
<1>2. <<"id", n>> \in Names /\ <<"ordinal", n>> \in Names /\ <<"part", n>> \in Names
      /\ <<"message", 0>> \in Names
  BY <1>1 DEF Names
<1>. QED  BY <1>2 DEF MessageName, PartName, NameOf, PartOf

\* The records of a tool.
LEMMA ToolParts ==
  ASSUME transcript \in Seq(Message), NEW n \in 1 .. Len(transcript), NEW full \in BOOLEAN
  PROVE  /\ Parts(transcript, n, full, ToolEvents(n, full))
         /\ HasTools(n, full, ToolEvents(n, full))
<1>. DEFINE l == ToolEvents(n, full)
            call == Event("call", PartName(n), full, n)
            result == Event("result", PartName(n), full, n)
            tool == transcript[n].tool
<1>0. transcript[n] \in Message
  OBVIOUS
<1>1. tool \in {"none", "called", "finished", "answered"}
  BY <1>0 DEF Message
<1>2. /\ call \in Entry /\ call.of = n /\ call.key = Key("call", PartName(n), full)
      /\ call.key.full = full /\ call.key.tag = "call"
      /\ result \in Entry /\ result.of = n /\ result.key = Key("result", PartName(n), full)
      /\ result.key.full = full /\ result.key.tag = "result"
  BY NameTypes, EventTypes
<1>3. call.key = [result.key EXCEPT !.tag = "call"]
  BY <1>2 DEF Key
<1>4. l = CASE tool = "none"     -> <<>>
            [] tool = "called"   -> <<call>>
            [] tool = "finished" -> <<call, result>>
            [] tool = "answered" -> <<result>>
  BY DEF ToolEvents
<1>5. tool \in {"called", "finished"} => Shows(transcript[n], n, full, call.key)
  BY <1>2, NameTypes DEF Shows
<1>6. tool \in {"finished", "answered"} => Shows(transcript[n], n, full, result.key)
  BY <1>2, NameTypes DEF Shows
<1>. HIDE DEF call, result, l
<1>7. CASE tool = "none"
  <2>1. l = <<>>
    BY <1>4, <1>7
  <2>2. l \in Seq(Entry) /\ Len(l) = 0
    BY <2>1
  <2>3. Follows(transcript, l)
    BY <2>2 DEF Follows
  <2>. QED  BY <1>7, <2>2, <2>3 DEF Parts, HasTools, l
<1>8. CASE tool = "called"
  <2>1. l = <<call>>
    BY <1>4, <1>8
  <2>2. l \in Seq(Entry) /\ Len(l) = 1 /\ DOMAIN l = 1 .. 1 /\ l[1] = call
    BY <1>2, <2>1
  <2>3. \A i \in 1 .. Len(l) : l[i] = call
    BY <2>2
  <2>4. Follows(transcript, l)
    BY <1>2, <2>3 DEF Follows
  <2>5. HasKey(l, Key("call", PartName(n), full))
    BY <1>2, <2>2 DEF HasKey
  <2>. QED  BY <1>2, <1>5, <1>8, <2>2, <2>3, <2>4, <2>5 DEF Parts, HasTools, l
<1>9. CASE tool = "finished"
  <2>1. l = <<call, result>>
    BY <1>4, <1>9
  <2>2. l \in Seq(Entry) /\ Len(l) = 2 /\ DOMAIN l = 1 .. 2 /\ l[1] = call /\ l[2] = result
    BY <1>2, <2>1
  <2>3. \A i \in 1 .. Len(l) : (i = 1 /\ l[i] = call) \/ (i = 2 /\ l[i] = result)
    BY <2>2
  <2>4. Follows(transcript, l)
    <3>. SUFFICES ASSUME NEW i \in 1 .. Len(l), l[i].key.tag = "result",
                         transcript[l[i].of].tool # "answered"
                  PROVE  \E h \in 1 .. i - 1 : l[h].key = [l[i].key EXCEPT !.tag = "call"]
      BY DEF Follows
    <3>1. i = 2 /\ l[i] = result
      BY <1>2, <2>3
    <3>2. 1 \in 1 .. i - 1
      BY <3>1
    <3>. QED  BY <1>3, <2>2, <3>1, <3>2
  <2>5. HasKey(l, Key("call", PartName(n), full)) /\ HasKey(l, Key("result", PartName(n), full))
    BY <1>2, <2>2 DEF HasKey
  <2>6. \A i \in 1 .. Len(l) : l[i].of = n /\ l[i].key.full = full
                               /\ Shows(transcript[n], n, full, l[i].key)
    BY <1>2, <1>5, <1>6, <1>9, <2>3
  <2>. QED  BY <1>9, <2>2, <2>4, <2>5, <2>6 DEF Parts, HasTools, l
<1>10. CASE tool = "answered"
  <2>1. l = <<result>>
    BY <1>4, <1>10
  <2>2. l \in Seq(Entry) /\ Len(l) = 1 /\ DOMAIN l = 1 .. 1 /\ l[1] = result
    BY <1>2, <2>1
  <2>3. \A i \in 1 .. Len(l) : l[i] = result
    BY <2>2
  <2>4. Follows(transcript, l)
    BY <1>2, <1>10, <2>3 DEF Follows
  <2>5. HasKey(l, Key("result", PartName(n), full))
    BY <1>2, <2>2 DEF HasKey
  <2>. QED  BY <1>2, <1>6, <1>10, <2>2, <2>3, <2>4, <2>5 DEF Parts, HasTools, l
<1>. QED  BY <1>1, <1>7, <1>8, <1>9, <1>10

\* The record of a text.
LEMMA MessageParts ==
  ASSUME transcript \in Seq(Message), NEW n \in 1 .. Len(transcript), NEW full \in BOOLEAN
  PROVE  /\ Parts(transcript, n, full, MessageEvents(n, full))
         /\ HasText(n, full, MessageEvents(n, full))
<1>. DEFINE l == MessageEvents(n, full)
            message == Event("message", MessageName(n), full, n)
            silent == transcript[n].role = "other" \/ transcript[n].text = 0
<1>1. /\ message \in Entry /\ message.of = n /\ message.key = Key("message", MessageName(n), full)
      /\ message.key.full = full /\ message.key.tag = "message"
  BY NameTypes, EventTypes
<1>2. l = IF silent THEN <<>> ELSE <<message>>
  BY DEF MessageEvents
<1>3. ~ silent => Shows(transcript[n], n, full, message.key)
  BY <1>1, NameTypes DEF Shows
<1>. HIDE DEF message, l
<1>4. CASE silent
  <2>1. l = <<>>
    BY <1>2, <1>4
  <2>2. l \in Seq(Entry) /\ Len(l) = 0
    BY <2>1
  <2>3. Follows(transcript, l)
    BY <2>2 DEF Follows
  <2>. QED  BY <1>4, <2>2, <2>3 DEF Parts, HasText, l
<1>5. CASE ~ silent
  <2>1. l = <<message>>
    BY <1>2, <1>5
  <2>2. l \in Seq(Entry) /\ Len(l) = 1 /\ DOMAIN l = 1 .. 1 /\ l[1] = message
    BY <1>1, <2>1
  <2>3. \A i \in 1 .. Len(l) : l[i] = message
    BY <2>2
  <2>4. Follows(transcript, l)
    BY <1>1, <2>3 DEF Follows
  <2>5. HasKey(l, Key("message", MessageName(n), full))
    BY <1>1, <2>2 DEF HasKey
  <2>. QED  BY <1>1, <1>3, <1>5, <2>2, <2>3, <2>4, <2>5 DEF Parts, HasText, l
<1>. QED  BY <1>4, <1>5

\* The records of a message are told in full, under its name.
LEMMA PartsOfMessage ==
  ASSUME transcript \in Seq(Message), NEW n \in 1 .. Len(transcript), NEW full \in BOOLEAN
  PROVE  /\ Parts(transcript, n, full, PartsOf(n, full))
         /\ \A key : Shows(transcript[n], n, full, key) => HasKey(PartsOf(n, full), key)
<1>. DEFINE a == MessageEvents(n, full)  b == ToolEvents(n, full)  c == PartsOf(n, full)
<1>1. Parts(transcript, n, full, a) /\ HasText(n, full, a)
  BY MessageParts
<1>2. Parts(transcript, n, full, b) /\ HasTools(n, full, b)
  BY ToolParts
<1>3. c = a \o b
  BY DEF PartsOf
<1>4. MessageName(n) = NameOf(transcript[n], n) /\ PartName(n) = PartOf(transcript[n], n)
  BY NameTypes
<1>. HIDE DEF a, b, c
<1>5. a \in Seq(Entry) /\ b \in Seq(Entry) /\ Follows(transcript, a) /\ Follows(transcript, b)
  BY <1>1, <1>2 DEF Parts
<1>6. c \in Seq(Entry) /\ Follows(transcript, c)
  BY <1>3, <1>5, Joined, JoinedFollows
<1>7. ASSUME NEW i \in 1 .. Len(c)
      PROVE  c[i].of = n /\ c[i].key.full = full /\ Shows(transcript[n], n, full, c[i].key)
  <2>1. \/ i \in 1 .. Len(a) /\ c[i] = a[i]
        \/ i > Len(a) /\ i - Len(a) \in 1 .. Len(b) /\ c[i] = b[i - Len(a)]
    BY <1>3, <1>5, Joined
  <2>. QED  BY <1>1, <1>2, <2>1 DEF Parts
<1>8. ASSUME NEW key, Shows(transcript[n], n, full, key) PROVE HasKey(c, key)
  <2>1. HasKey(a, key) \/ HasKey(b, key)
    BY <1>1, <1>2, <1>4, <1>8 DEF Shows, HasText, HasTools
  <2>. QED  BY <1>3, <1>5, <2>1, Joined
<1>9. Parts(transcript, n, full, c)
  BY <1>6, <1>7 DEF Parts
<1>. QED  BY <1>8, <1>9 DEF c

\* The lists that FlattenSeq goes through.
Flattens(lists, n, f) ==
  f = [i \in 1 .. n |-> IF i = 1 THEN lists[i] ELSE f[i - 1] \o lists[i]]

\* There are such lists.
LEMMA FlattensDefined ==
  ASSUME NEW lists
  PROVE  \A n \in Nat : \E f : Flattens(lists, n, f)
<1>. DEFINE S == {n \in Nat : \E f : Flattens(lists, n, f)}
<1>1. 0 \in S
  <2>. DEFINE f == [i \in 1 .. 0 |-> lists[i]]
  <2>1. Flattens(lists, 0, f)
    BY DEF Flattens
  <2>. QED  BY <2>1
<1>2. ASSUME NEW n \in Nat, n \in S PROVE n + 1 \in S
  <2>1. PICK f : Flattens(lists, n, f)
    BY <1>2
  <2>. DEFINE g == [i \in 1 .. n + 1 |-> IF i = n + 1
                      THEN IF i = 1 THEN lists[i] ELSE f[n] \o lists[n + 1]
                      ELSE f[i]]
  <2>2. \A i \in 1 .. n : g[i] = f[i]
    OBVIOUS
  <2>3. \A i \in 1 .. n + 1 : g[i] = IF i = 1 THEN lists[i] ELSE g[i - 1] \o lists[i]
    <3>1. \A i \in 1 .. n : f[i] = IF i = 1 THEN lists[i] ELSE f[i - 1] \o lists[i]
      BY <2>1 DEF Flattens
    <3>2. ASSUME NEW i \in 1 .. n PROVE g[i] = IF i = 1 THEN lists[i] ELSE g[i - 1] \o lists[i]
      <4>1. CASE i = 1
        BY <2>2, <3>1, <4>1
      <4>2. CASE i # 1
        <5>1. i - 1 \in 1 .. n
          BY <4>2
        <5>2. g[i - 1] = f[i - 1] /\ g[i] = f[i] /\ f[i] = f[i - 1] \o lists[i]
          BY <2>2, <3>1, <4>2, <5>1
        <5>. QED  BY <4>2, <5>2
      <4>. QED  BY <4>1, <4>2
    <3>3. g[n + 1] = IF n + 1 = 1 THEN lists[n + 1] ELSE g[n] \o lists[n + 1]
      <4>1. CASE n = 0
        BY <4>1
      <4>2. CASE n # 0
        <5>1. n \in 1 .. n /\ n + 1 \in 1 .. n + 1 /\ n + 1 # 1
          BY <4>2
        <5>2. g[n] = f[n]
          BY <2>2, <5>1
        <5>3. g[n + 1] = f[n] \o lists[n + 1]
          BY <5>1
        <5>. QED  BY <5>1, <5>2, <5>3
      <4>. QED  BY <4>1, <4>2
    <3>4. \A i \in 1 .. n + 1 : i \in 1 .. n \/ (i = n + 1 /\ i - 1 = n)
      OBVIOUS
    <3>. HIDE DEF g
    <3>. QED  BY <3>2, <3>3, <3>4
  <2>4. g = [i \in 1 .. n + 1 |-> IF i = 1 THEN lists[i] ELSE g[i - 1] \o lists[i]]
    BY <2>3
  <2>5. Flattens(lists, n + 1, g)
    <3>. HIDE DEF g
    <3>. QED  BY <2>4 DEF Flattens
  <2>. QED  BY <2>5
<1>3. \A n \in Nat : n \in S
  <2>. HIDE DEF S
  <2>. QED  BY <1>1, <1>2, Induction
<1>. QED  BY <1>3

\* FlattenSeq goes through them.
LEMMA FlattenIsLoop ==
  ASSUME NEW lists, Len(lists) \in Nat, Len(lists) # 0
  PROVE  \E f : Flattens(lists, Len(lists), f) /\ FlattenSeq(lists) = f[Len(lists)]
<1>. DEFINE flatten == CHOOSE f : Flattens(lists, Len(lists), f)
<1>1. Flattens(lists, Len(lists), flatten)
  BY FlattensDefined
<1>2. FlattenSeq(lists) = flatten[Len(lists)]
  BY DEF FlattenSeq, Flattens
<1>. QED  BY <1>1, <1>2

\* The export of one message more.
LEMMA ExportedByOne ==
  ASSUME NEW t, NEW n \in Nat, NEW full, NEW a, NEW b, NEW c, Exported(t, n, full, a),
         Parts(t, n + 1, full, b), \A key : Shows(t[n + 1], n + 1, full, key) => HasKey(b, key),
         c = a \o b
  PROVE  Exported(t, n + 1, full, c)
<1>1. a \in Seq(Entry) /\ b \in Seq(Entry) /\ Follows(t, a) /\ Follows(t, b)
      /\ Len(a) \in Nat /\ Len(b) \in Nat
  BY DEF Exported, Parts
<1>2. c \in Seq(Entry) /\ Follows(t, c)
  BY <1>1, Joined, JoinedFollows
<1>3. ASSUME NEW i \in 1 .. Len(c)
      PROVE  \/ i \in 1 .. Len(a) /\ c[i] = a[i]
             \/ i > Len(a) /\ i - Len(a) \in 1 .. Len(b) /\ c[i] = b[i - Len(a)]
  BY <1>1, Joined
<1>4. \A i \in 1 .. Len(a) : a[i].of \in 1 .. n /\ a[i].key.full = full
                             /\ Shows(t[a[i].of], a[i].of, full, a[i].key)
  BY DEF Exported
<1>5. \A i \in 1 .. Len(b) : b[i].of = n + 1 /\ b[i].key.full = full
                             /\ Shows(t[n + 1], n + 1, full, b[i].key)
  BY DEF Parts
<1>6. ASSUME NEW i \in 1 .. Len(c)
      PROVE  c[i].of \in 1 .. n + 1 /\ c[i].key.full = full
             /\ Shows(t[c[i].of], c[i].of, full, c[i].key)
  BY <1>3, <1>4, <1>5
<1>7. ASSUME NEW m \in 1 .. n + 1, NEW key, Shows(t[m], m, full, key) PROVE HasKey(c, key)
  <2>1. CASE m = n + 1
    <3>1. HasKey(b, key)
      BY <1>7, <2>1
    <3>. QED  BY <1>1, <3>1, Joined
  <2>2. CASE m \in 1 .. n
    <3>1. HasKey(a, key)
      BY <1>7, <2>2 DEF Exported
    <3>. QED  BY <1>1, <3>1, Joined
  <2>. QED  BY <2>1, <2>2
<1>8. ASSUME NEW i \in 1 .. Len(c), NEW k \in 1 .. Len(c), i < k PROVE c[i].of <= c[k].of
  <2>1. CASE k \in 1 .. Len(a) /\ c[k] = a[k]
    <3>1. i \in 1 .. Len(a) /\ c[i] = a[i]
      BY <1>1, <1>3, <1>8, <2>1
    <3>. QED  BY <1>8, <2>1, <3>1 DEF Exported
  <2>2. CASE k > Len(a) /\ k - Len(a) \in 1 .. Len(b) /\ c[k] = b[k - Len(a)]
    <3>1. c[k].of = n + 1
      BY <1>5, <2>2
    <3>2. c[i].of \in 1 .. n + 1
      BY <1>6
    <3>. QED  BY <3>1, <3>2
  <2>. QED  BY <1>3, <2>1, <2>2
<1>. QED  BY <1>2, <1>6, <1>7, <1>8 DEF Exported

\* An export tells all that the transcript shows, in its order.
LEMMA ExportTells ==
  ASSUME transcript \in Seq(Message), NEW full \in BOOLEAN
  PROVE  Exported(transcript, Len(transcript), full, Export(full))
<1>. DEFINE t == transcript  lists == [n \in DOMAIN t |-> PartsOf(n, full)]
<1>1. Export(full) = FlattenSeq(lists)
  BY DEF Export, PartsOf
<1>2. Len(t) \in Nat /\ DOMAIN t = 1 .. Len(t)
  OBVIOUS
<1>3. Len(lists) = Len(t) /\ \A n \in 1 .. Len(t) : lists[n] = PartsOf(n, full)
  BY <1>2
<1>4. \A n \in 1 .. Len(t) : Parts(t, n, full, PartsOf(n, full))
                             /\ \A key : Shows(t[n], n, full, key) => HasKey(PartsOf(n, full), key)
  BY PartsOfMessage
<1>5. Exported(t, 0, full, <<>>)
  BY DEF Exported, Follows
<1>6. CASE Len(t) = 0
  <2>1. t = <<>> /\ lists = <<>>
    BY <1>2, <1>6
  <2>2. FlattenSeq(lists) = <<>>
    BY <2>1 DEF FlattenSeq
  <2>. QED  BY <1>1, <1>5, <1>6, <2>2
<1>7. CASE Len(t) # 0
  <2>. HIDE DEF lists
  <2>1. PICK f : Flattens(lists, Len(t), f) /\ FlattenSeq(lists) = f[Len(t)]
    BY <1>2, <1>3, <1>7, FlattenIsLoop
  <2>2. \A i \in 1 .. Len(t) : f[i] = IF i = 1 THEN lists[i] ELSE f[i - 1] \o lists[i]
    BY <2>1 DEF Flattens
  <2>. DEFINE S == {n \in Nat : n \in 1 .. Len(t) => Exported(t, n, full, f[n])}
  <2>3. 0 \in S
    OBVIOUS
  <2>4. ASSUME NEW n \in Nat, n \in S PROVE n + 1 \in S
    <3>. SUFFICES ASSUME n + 1 \in 1 .. Len(t) PROVE Exported(t, n + 1, full, f[n + 1])
      OBVIOUS
    <3>. DEFINE part == PartsOf(n + 1, full)
    <3>1. Parts(t, n + 1, full, part) /\ \A key : Shows(t[n + 1], n + 1, full, key) => HasKey(part, key)
      BY <1>4
    <3>2. lists[n + 1] = part
      BY <1>3
    <3>. HIDE DEF part, t
    <3>3. CASE n = 0
      <4>1. f[n + 1] = part
        BY <2>2, <3>2, <3>3
      <4>2. part = <<>> \o part
        BY <3>1 DEF Parts
      <4>. QED  BY <1>5, <3>1, <3>3, <4>1, <4>2, ExportedByOne
    <3>4. CASE n # 0
      <4>1. n \in 1 .. Len(t) /\ n + 1 # 1 /\ (n + 1) - 1 = n
        BY <1>2, <3>4
      <4>2. f[n + 1] = f[n] \o part
        BY <2>2, <3>2, <4>1
      <4>3. Exported(t, n, full, f[n])
        BY <2>4, <4>1
      <4>. QED  BY <3>1, <4>2, <4>3, ExportedByOne
    <3>. QED  BY <3>3, <3>4
  <2>5. \A n \in Nat : n \in S
    <3>. HIDE DEF S
    <3>. QED  BY <2>3, <2>4, Induction
  <2>6. Exported(t, Len(t), full, f[Len(t)])
    BY <1>2, <1>7, <2>5
  <2>. QED  BY <1>1, <2>1, <2>6
<1>. QED  BY <1>6, <1>7

\* An export is faithful to the transcript it was taken of.
LEMMA ExportIsFaithful ==
  ASSUME Transcript(transcript), NEW full \in BOOLEAN
  PROVE  Faithful(transcript, Export(full)) /\ Ordered(Export(full), full)
<1>. DEFINE t == transcript  l == Export(full)
<1>1. Exported(t, Len(t), full, l)
  BY ExportTells DEF Transcript
<1>2. Len(t) \in Nat /\ Queued(t)
  BY DEF Transcript
<1>. HIDE DEF t, l
<1>3. \A i \in 1 .. Len(l) : Known(t, l[i])
  BY <1>1 DEF Exported, Known
<1>4. ASSUME NEW i \in 1 .. Len(l), NEW n \in 1 .. l[i].of - 1
      PROVE  t[n + 1].queued \/ Told(t, l, n, l[i].key.full)
  <2>1. l[i].of \in 1 .. Len(t) /\ l[i].key.full = full
    BY <1>1 DEF Exported
  <2>2. n \in 1 .. Len(t) - 1 /\ n \in 1 .. Len(t)
    BY <1>2, <2>1
  <2>3. CASE t[n].open
    BY <1>2, <2>2, <2>3 DEF Queued
  <2>4. CASE ~ t[n].open
    BY <1>1, <2>1, <2>2, <2>4 DEF Exported, Told
  <2>. QED  BY <2>3, <2>4
<1>5. Faithful(t, l)
  BY <1>1, <1>3, <1>4 DEF Exported, Faithful, Settled
<1>6. Ordered(l, full)
  BY <1>1 DEF Exported, Ordered
<1>. QED  BY <1>5, <1>6 DEF t, l

-----------------------------------------------------------------------------
(* The steps of cb.                                                        *)

\* A process reads an export.
LEMMA ReadKeeps ==
  ASSUME ExportInv, NEW p \in Processes, NEW full \in BOOLEAN, NEW import \in BOOLEAN,
         Read(p, full, import)
  PROVE  ExportInv'
<1>. DEFINE j == [events |-> Export(full), full |-> full, import |-> import]
<1>1. job' = [job EXCEPT ![p] = j] /\ UNCHANGED <<transcript, log, marker>>
  BY DEF Read
<1>2. Faithful(transcript, Export(full)) /\ Ordered(Export(full), full)
  BY ExportIsFaithful DEF ExportInv
<1>3. Export(full) \in Seq(Entry)
  BY <1>2 DEF Faithful
<1>4. j \in Job /\ j.events = Export(full) /\ j.full = full
  BY <1>3 DEF Job
<1>5. JobInv(transcript, j)
  BY <1>2, <1>4 DEF JobInv
<1>. HIDE DEF j
<1>6. job' \in [Processes -> Job] /\ \A q \in Processes : JobInv(transcript, job'[q])
  BY <1>1, <1>4, <1>5 DEF ExportInv
<1>. QED  BY <1>1, <1>6 DEF ExportInv

\* Nothing in hand is faithful.
LEMMA IdleHolds ==
  ASSUME NEW t
  PROVE  JobInv(t, Idle)
<1>1. Idle \in Job /\ Idle.events = <<>>
  BY DEF Idle, Job
<1>2. <<>> \in Seq(Entry) /\ Len(<<>>) = 0
  OBVIOUS
<1>3. Faithful(t, Idle.events)
  BY <1>1, <1>2 DEF Faithful, Follows, Settled
<1>4. Ordered(Idle.events, Idle.full)
  BY <1>1, <1>2 DEF Ordered
<1>. QED  BY <1>1, <1>3, <1>4 DEF JobInv

\* A process stores what it has read.
LEMMA StoreKeeps ==
  ASSUME ExportInv, NEW p \in Processes, Store(p)
  PROVE  ExportInv'
<1>. DEFINE events == job[p].events  new == Appended(log, events)
<1>1. /\ log' = new /\ job' = [job EXCEPT ![p] = Idle] /\ transcript' = transcript
      /\ marker' \in {"none", "plain", "full"}
  BY DEF Store, ExportInv
<1>2. LogInv(transcript, log) /\ JobInv(transcript, job[p])
  BY DEF ExportInv
<1>3. log \in Seq(Entry) /\ events \in Seq(Entry) /\ Faithful(transcript, log)
      /\ Faithful(transcript, events) /\ Ordered(events, job[p].full) /\ Distinct(log)
  BY <1>2 DEF LogInv, JobInv, Faithful
<1>4. Grown(log, events, Len(events), new)
  BY <1>3, AppendedGrows
<1>. HIDE DEF new, events
<1>5. Faithful(transcript, new) /\ InOrder(transcript, new)
  BY <1>2, <1>3, <1>4, AppendFaithful, AppendInOrder
<1>6. Distinct(new)
  BY <1>3, <1>4 DEF Grown
<1>7. LogInv(transcript, log')
  BY <1>1, <1>5, <1>6 DEF LogInv
<1>8. Idle \in Job /\ JobInv(transcript, Idle)
  BY IdleHolds DEF JobInv
<1>9. job' \in [Processes -> Job] /\ \A q \in Processes : JobInv(transcript, job'[q])
  BY <1>1, <1>8 DEF ExportInv
<1>. QED  BY <1>1, <1>7, <1>9 DEF ExportInv

\* In the beginning there is nothing to tell.
LEMMA Initially ==
  ASSUME Init
  PROVE  ExportInv
<1>1. transcript = <<>> /\ log = <<>> /\ marker = "none" /\ job = [p \in Processes |-> Idle]
  BY DEF Init
<1>2. Transcript(transcript)
  BY <1>1 DEF Transcript, Queued
<1>3. LogInv(transcript, log)
  BY <1>1 DEF LogInv, Faithful, Follows, Settled, Distinct, InOrder
<1>4. Idle \in Job /\ JobInv(transcript, Idle)
  BY IdleHolds DEF JobInv
<1>. QED  BY <1>1, <1>2, <1>3, <1>4 DEF ExportInv

\* Every step keeps the invariant.
LEMMA Inductive ==
  ASSUME ExportInv, [Next]_vars
  PROVE  ExportInv'
<1>1. CASE UNCHANGED vars
  BY <1>1 DEF vars, ExportInv
<1>2. CASE AddMessage
  BY <1>2, AddMessageKeeps
<1>3. CASE Relink
  BY <1>3 DEF Relink, ExportInv
<1>4. CASE \E n \in DOMAIN transcript : 
                WriteText(n) \/ CallTool(n) \/ FinishTool(n) \/ AnswerTool(n) \/ Close(n)
  BY <1>4, WorkKeeps
<1>5. CASE \E p \in Processes : Import(p) \/ Refresh(p) \/ Store(p)
  <2>1. PICK p \in Processes : Import(p) \/ Refresh(p) \/ Store(p)
    BY <1>5
  <2>2. CASE Import(p)
    BY <2>2, ReadKeeps DEF Import
  <2>3. CASE Refresh(p)
    <3>1. (marker = "full") \in BOOLEAN
      OBVIOUS
    <3>2. Read(p, marker = "full", FALSE)
      BY <2>3 DEF Refresh
    <3>. QED  BY <3>1, <3>2, ReadKeeps
  <2>4. CASE Store(p)
    BY <2>4, StoreKeeps
  <2>. QED  BY <2>1, <2>2, <2>3, <2>4
<1>. QED  BY <1>1, <1>2, <1>3, <1>4, <1>5 DEF Next

-----------------------------------------------------------------------------
\* Whatever is read and stored in whatever order, every batch and the log are
\* faithful to the transcript, and no key is stored twice.
THEOREM ExportInvariant == Spec => []ExportInv
<1>1. Init => ExportInv
  BY Initially
<1>2. ExportInv /\ [Next]_vars => ExportInv'
  BY Inductive
<1>. QED  BY <1>1, <1>2, PTL DEF Spec

\* The transcript and the log keep their types, events tell of messages there
\* are, and no key is stored twice.
THEOREM TypeCorrect == Spec => []TypeOK
<1>1. ExportInv => TypeOK
  <2>. SUFFICES ASSUME ExportInv PROVE TypeOK
    OBVIOUS
  <2>1. DOMAIN log = 1 .. Len(log) /\ DOMAIN transcript = 1 .. Len(transcript)
    BY DEF ExportInv, LogInv, Faithful, Transcript
  <2>2. \A i \in 1 .. Len(log) : log[i].of \in 1 .. Len(transcript)
    BY DEF ExportInv, LogInv, Faithful, Known
  <2>3. \A i, j \in 1 .. Len(log) : log[i].key = log[j].key => i = j
    BY DEF ExportInv, LogInv, Distinct
  <2>. QED  BY <2>1, <2>2, <2>3 DEF TypeOK, ExportInv, Transcript
<1>. QED  BY <1>1, ExportInvariant, PTL

\* The result of a tool comes after its call, whichever exports were stored.
THEOREM ResultsFollowCalls == Spec => []ResultFollowsCall
<1>1. ExportInv => ResultFollowsCall
  <2>. SUFFICES ASSUME ExportInv PROVE ResultFollowsCall
    OBVIOUS
  <2>1. DOMAIN log = 1 .. Len(log)
    BY DEF ExportInv, LogInv, Faithful
  <2>2. Follows(transcript, log)
    BY DEF ExportInv, LogInv, Faithful
  <2>. QED  BY <2>1, <2>2 DEF Follows, ResultFollowsCall
<1>. QED  BY <1>1, ExportInvariant, PTL

\* Exports read at different times and stored in any order do not mix the
\* messages, other than those sent while an earlier one was being answered.
THEOREM MessagesStayInOrder == Spec => []MessagesInOrder
<1>1. ExportInv => MessagesInOrder
  <2>. SUFFICES ASSUME ExportInv PROVE MessagesInOrder
    OBVIOUS
  <2>1. DOMAIN log = 1 .. Len(log)
    BY DEF ExportInv, LogInv, Faithful
  <2>2. InOrder(transcript, log)
    BY DEF ExportInv, LogInv
  <2>. QED  BY <2>1, <2>2 DEF InOrder, MessagesInOrder
<1>. QED  BY <1>1, ExportInvariant, PTL

\* Two records with one key are of one message, or their name is shared.
LEMMA KeysTellApart ==
  ASSUME transcript \in Seq(Message), NEW e, NEW f, Known(transcript, e), Known(transcript, f),
         e.key = f.key, ~ NameShared(e)
  PROVE  f.of = e.of
<1>. DEFINE n == e.of  m == f.of
<1>1. /\ n \in 1 .. Len(transcript) /\ Shows(transcript[n], n, e.key.full, e.key)
      /\ m \in 1 .. Len(transcript) /\ Shows(transcript[m], m, f.key.full, e.key)
  BY DEF Known
<1>2. /\ MessageName(n) = NameOf(transcript[n], n) /\ PartName(n) = PartOf(transcript[n], n)
      /\ MessageName(m) = NameOf(transcript[m], m) /\ PartName(m) = PartOf(transcript[m], m)
  BY <1>1, NameTypes
<1>3. CASE e.key.tag = "message"
  <2>1. e.key.name = NameOf(transcript[n], n) /\ e.key.name = NameOf(transcript[m], m)
    BY <1>1, <1>3 DEF Shows, Key
  <2>. QED  BY <2>1 DEF NameOf
<1>4. CASE e.key.tag # "message"
  <2>1. e.key.name = PartName(m) /\ transcript[m].tool # "none"
    BY <1>1, <1>2, <1>4 DEF Shows, Key
  <2>2. m \in DOMAIN transcript
    BY <1>1
  <2>. QED  BY <1>4, <2>1, <2>2 DEF NameShared
<1>. QED  BY <1>3, <1>4

\* A stored export is in the log, record by record: no key shadows another,
\* unless two tool parts share their name.
THEOREM RecordsAreStored == Spec => EveryRecordStored
<1>1. ASSUME ExportInv, NEW p \in Processes, Store(p), NEW k \in DOMAIN job[p].events,
             ~ NameShared(job[p].events[k])
      PROVE  Recorded(job[p].events[k], log')
  <2>. DEFINE events == job[p].events  e == events[k]
  <2>1. JobInv(transcript, job[p]) /\ transcript \in Seq(Message)
    BY <1>1 DEF ExportInv, Transcript
  <2>2. events \in Seq(Entry) /\ DOMAIN events = 1 .. Len(events) /\ Known(transcript, e)
    BY <1>1, <2>1 DEF JobInv, Faithful
  <2>3. ExportInv' /\ transcript' = transcript
    BY <1>1, StoreKeeps DEF Store
  <2>4. Faithful(transcript, log')
    BY <2>3 DEF ExportInv, LogInv
  <2>5. log' \in Seq(Entry) /\ DOMAIN log' = 1 .. Len(log')
    BY <2>4 DEF Faithful
  <2>6. \E i \in 1 .. Len(log') : log'[i].key = e.key
    <3>1. log \in Seq(Entry) /\ log' = Appended(log, events)
      BY <1>1 DEF ExportInv, LogInv, Faithful, Store
    <3>2. Grown(log, events, Len(events), log')
      BY <2>2, <3>1, AppendedGrows
    <3>. QED  BY <1>1, <2>2, <3>2 DEF Grown
  <2>7. PICK i \in 1 .. Len(log') : log'[i].key = e.key
    BY <2>6
  <2>8. Known(transcript, log'[i])
    BY <2>4, <2>7 DEF Faithful
  <2>. HIDE DEF e
  <2>9. log'[i].of = e.of
    BY <1>1, <2>1, <2>2, <2>7, <2>8, KeysTellApart DEF e
  <2>. QED  BY <2>5, <2>7, <2>9 DEF Recorded, e
<1>2. ExportInv => [\A p \in Processes :
       Store(p) => \A k \in DOMAIN job[p].events :
                     NameShared(job[p].events[k]) \/ Recorded(job[p].events[k], log')]_vars
  BY <1>1
<1>. QED  BY <1>2, ExportInvariant, PTL DEF EveryRecordStored
=============================================================================
