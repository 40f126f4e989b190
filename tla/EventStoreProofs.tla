-------------------------- MODULE EventStoreProofs --------------------------
(***************************************************************************)
(* Proofs about EventStore for every set of writers, sessions, keys,       *)
(* external sessions and batches.                                          *)
(*                                                                         *)
(* The inductive invariant says what an open transaction's view is: the    *)
(* committed tables, plus rows of the call's session numbered consecutively*)
(* above them, plus the call's own session and link.  It is inductive      *)
(* because the reservation is taken before MAX(sequence) is read, so that  *)
(* the committed tables stand still while a view exists.                   *)
(***************************************************************************)
EXTENDS EventStore, TLAPS

\* A well-formed context_events table.
Numbered(rows) ==
  \A s \in SessionIds :
    /\ MaxSequence(rows, s) \in Nat
    /\ SequencesOf(rows, s) = 1 .. MaxSequence(rows, s)

Distinct(rows) ==
  \A q, r \in rows : q.session = r.session
                       /\ (q.sequence = r.sequence \/ q.key = r.key) => q = r

WellFormed(rows) == Numbered(rows) /\ Distinct(rows)

\* Every external session has one owner, and every session cb import minted
\* is linked, except a given one whose link is still to be stored.
OneOwner(links) == \A k, l \in links : k.external = l.external => k.session = l.session

ImportsLinked(tables, except) ==
  \A s \in tables.sessions \cap ImportIds :
    s \in except \/ \E l \in tables.links : l.session = s

\* The keys of the batch before position n are stored for the session.
Stored(rows, request, n) ==
  \A i \in DOMAIN request.batch :
    i < n => request.batch[i] \in KeysOf(rows, request.session)

DbInv ==
  /\ WellFormed(db.rows)
  /\ OneOwner(db.links)
  /\ ImportsLinked(db, {})

LockInv == \A w \in Writers : pc[w] \in InTransaction <=> lock = w

RequestInv ==
  \A w \in Writers :
    /\ req[w].creates => req[w].session \in ImportIds /\ req[w].external # NoExternal
    /\ pc[w] \in {"begin", "create", "max"} => inserted[w] = {}
    /\ pc[w] = "create" => req[w].creates
    /\ pc[w] # "idle" => ~ succeeded[w]

\* What the transaction has written so far.
ViewInv(w) ==
  /\ WellFormed(view[w].rows)
  /\ OneOwner(view[w].links)
  /\ db.rows \subseteq view[w].rows
  /\ db.links \subseteq view[w].links
  /\ \A r \in view[w].rows \ db.rows :
       r.session = req[w].session /\ r.sequence > MaxSequence(db.rows, r.session)
  /\ inserted[w] \subseteq view[w].rows

\* How far it has come.
ProgressInv(w) ==
  /\ pc[w] = "insert" =>
       /\ sequence[w] = MaxSequence(view[w].rows, req[w].session)
       /\ Stored(view[w].rows, req[w], at[w])
  /\ pc[w] \in {"link", "commit"} =>
       Stored(view[w].rows, req[w], Len(req[w].batch) + 1)
  /\ pc[w] = "link" => req[w].external # NoExternal
  /\ pc[w] = "commit" /\ req[w].external # NoExternal =>
       [session |-> req[w].session, external |-> req[w].external] \in view[w].links
  /\ ImportsLinked(view[w], IF pc[w] # "commit" /\ req[w].creates
                            THEN {req[w].session} ELSE {})

TransactionInv ==
  \A w \in Writers : pc[w] \in InTransaction => ViewInv(w) /\ ProgressInv(w)

ResultInv ==
  \A w \in Writers : succeeded[w] =>
    /\ Stored(db.rows, req[w], Len(req[w].batch) + 1)
    /\ inserted[w] \subseteq db.rows
    /\ req[w].external # NoExternal =>
         [session |-> req[w].session, external |-> req[w].external] \in db.links

Inv == TypeOK /\ DbInv /\ LockInv /\ RequestInv /\ TransactionInv /\ ResultInv

-----------------------------------------------------------------------------
(* Tables of rows.                                                         *)

\* MAX(sequence) of rows numbered 1 .. n is n.
LEMMA MaxOfInterval ==
  ASSUME NEW rows, NEW s, NEW n \in Nat, SequencesOf(rows, s) = 1 .. n
  PROVE  MaxSequence(rows, s) = n
<1>1. CASE n = 0
  BY <1>1 DEF MaxSequence
<1>2. CASE n # 0
  <2>1. n \in 1 .. n /\ \A k \in 1 .. n : k <= n
    BY <1>2
  <2>2. \A m \in 1 .. n : (\A k \in 1 .. n : k <= m) => m = n
    BY <2>1
  <2>3. MaxSequence(rows, s) = CHOOSE m \in 1 .. n : \A k \in 1 .. n : k <= m
    BY <1>2 DEF MaxSequence
  <2>. QED  BY <2>1, <2>2, <2>3
<1>. QED  BY <1>1, <1>2

\* A row accepted one above the maximum keeps the table well formed and
\* becomes the new maximum of its session.
LEMMA AddRow ==
  ASSUME NEW rows \in SUBSET Row, NEW row \in Row, WellFormed(rows),
         row.sequence = MaxSequence(rows, row.session) + 1, Accepts(rows, row)
  PROVE  /\ WellFormed(rows \cup {row})
         /\ MaxSequence(rows \cup {row}, row.session) = row.sequence
<1> DEFINE new == rows \cup {row}
           max == MaxSequence(rows, row.session)
<1>1. row.session \in SessionIds /\ max \in Nat
  BY DEF Row, WellFormed, Numbered
<1>2. SequencesOf(new, row.session) = 1 .. (max + 1)
  <2>1. SequencesOf(new, row.session) = SequencesOf(rows, row.session) \cup {row.sequence}
    BY DEF SequencesOf
  <2>2. SequencesOf(rows, row.session) = 1 .. max
    BY <1>1 DEF WellFormed, Numbered
  <2>3. (1 .. max) \cup {max + 1} = 1 .. (max + 1)
    <3> HIDE DEF max
    <3>. QED  BY <1>1
  <2>. QED  BY <2>1, <2>2, <2>3
<1>3. MaxSequence(new, row.session) = max + 1
  BY <1>1, <1>2, MaxOfInterval
<1>4. ASSUME NEW s \in SessionIds, s # row.session
      PROVE  SequencesOf(new, s) = SequencesOf(rows, s)
  BY <1>4 DEF SequencesOf
<1>5. Numbered(new)
  <2>1. ASSUME NEW s \in SessionIds, s # row.session
        PROVE  /\ MaxSequence(new, s) \in Nat
               /\ SequencesOf(new, s) = 1 .. MaxSequence(new, s)
    BY <1>4, <2>1 DEF WellFormed, Numbered, MaxSequence
  <2>2. /\ MaxSequence(new, row.session) \in Nat
        /\ SequencesOf(new, row.session) = 1 .. MaxSequence(new, row.session)
    BY <1>1, <1>2, <1>3
  <2> HIDE DEF new
  <2>. QED  BY <2>1, <2>2 DEF Numbered
<1>6. Distinct(new)
  BY DEF Distinct, WellFormed, Accepts
<1>. QED  BY <1>3, <1>5, <1>6 DEF WellFormed

\* A row offered one above the maximum is refused for its key alone.
LEMMA RefusedForItsKey ==
  ASSUME NEW rows \in SUBSET Row, NEW row \in Row, WellFormed(rows),
         row.sequence = MaxSequence(rows, row.session) + 1, ~ Accepts(rows, row)
  PROVE  row.key \in KeysOf(rows, row.session)
<1>1. PICK r \in rows : /\ r.session = row.session
                        /\ r.sequence = row.sequence \/ r.key = row.key
  BY DEF Accepts
<1>2. r.sequence \in SequencesOf(rows, row.session)
  BY <1>1 DEF SequencesOf
<1>3. /\ MaxSequence(rows, row.session) \in Nat
      /\ r.sequence \in 1 .. MaxSequence(rows, row.session)
  BY <1>2 DEF WellFormed, Numbered, Row
<1>4. r.key = row.key
  BY <1>1, <1>3
<1>. QED  BY <1>1, <1>4 DEF KeysOf

\* The empty table is well formed.
LEMMA EmptyWellFormed == WellFormed({})
<1>1. \A s \in SessionIds : SequencesOf({}, s) = 1 .. 0
  BY DEF SequencesOf
<1>2. \A s \in SessionIds : MaxSequence({}, s) = 0
  BY <1>1, MaxOfInterval
<1>. QED  BY <1>1, <1>2 DEF WellFormed, Numbered, Distinct

\* What is stored stays stored in a larger table.
LEMMA StoredMonotone ==
  ASSUME NEW small, NEW large, small \subseteq large, NEW request, NEW n,
         Stored(small, request, n)
  PROVE  Stored(large, request, n)
BY DEF Stored, KeysOf
\* One more event of the batch is stored.
LEMMA StoredNext ==
  ASSUME NEW rows, NEW request \in Request, NEW n \in Nat,
         Stored(rows, request, n), request.batch[n] \in KeysOf(rows, request.session)
  PROVE  Stored(rows, request, n + 1)
<1> SUFFICES ASSUME NEW i \in DOMAIN request.batch, i < n + 1
             PROVE  request.batch[i] \in KeysOf(rows, request.session)
  BY DEF Stored
<1>1. i \in Nat
  BY DEF Request
<1>2. i < n \/ i = n
  BY <1>1
<1>. QED  BY <1>2 DEF Stored

\* Once the index has passed the end of the batch, all of it is stored.
LEMMA StoredAll ==
  ASSUME NEW rows, NEW request \in Request, NEW n \in Nat,
         Stored(rows, request, n), n > Len(request.batch)
  PROVE  \A m \in Nat : Stored(rows, request, m)
<1> SUFFICES ASSUME NEW i \in DOMAIN request.batch
             PROVE  request.batch[i] \in KeysOf(rows, request.session)
  BY DEF Stored
<1>1. i \in 1 .. Len(request.batch) /\ Len(request.batch) \in Nat
  BY DEF Request
<1>2. i < n
  BY <1>1
<1>. QED  BY <1>2 DEF Stored

\* A larger table has the larger maximum.
LEMMA MaxMonotone ==
  ASSUME NEW small, NEW large, small \subseteq large, Numbered(small), Numbered(large),
         NEW s \in SessionIds
  PROVE  MaxSequence(small, s) <= MaxSequence(large, s)
<1> DEFINE m == MaxSequence(small, s)
           n == MaxSequence(large, s)
<1>1. m \in Nat /\ n \in Nat
  BY DEF Numbered
<1>2. 1 .. m \subseteq 1 .. n
  <2>1. SequencesOf(small, s) \subseteq SequencesOf(large, s)
    BY DEF SequencesOf
  <2>. QED  BY <2>1 DEF Numbered
<1> HIDE DEF m, n
<1>3. m <= n
  <2>1. CASE m = 0
    BY <1>1, <2>1
  <2>2. CASE m # 0
    BY <1>1, <1>2, <2>2
  <2>. QED  BY <2>1, <2>2
<1>. QED  BY <1>3 DEF m, n

-----------------------------------------------------------------------------
(* Type correctness.  MAX(sequence) is a number because the rows are       *)
(* numbered consecutively, so the step uses the transaction invariant.     *)

\* The tables and the writers start well typed.
LEMMA TypeInit == Init => TypeOK
<1>1. NoCall \in Request
  BY IdsDisjoint DEF NoCall, Request
<1>2. EmptyTables \in Tables
  BY DEF EmptyTables, Tables
<1>. QED  BY <1>1, <1>2 DEF Init, Steps, TypeOK

\* A call that ends, in whatever way, leaves a well typed idle writer.
LEMMA DiscardType ==
  ASSUME TypeOK, NEW w \in Writers, Discard(w)
  PROVE  TypeOK'
<1>1. NoCall \in Request
  BY IdsDisjoint DEF NoCall, Request
<1>2. EmptyTables \in Tables
  BY DEF EmptyTables, Tables
<1>. QED  BY <1>1, <1>2 DEF Discard, End, Steps, TypeOK

\* The row an INSERT offers is a row.
LEMMA CandidateType ==
  ASSUME TypeOK, NEW w \in Writers, at[w] <= Len(req[w].batch)
  PROVE  Candidate(w) \in Row
<1>1. req[w].batch \in Seq(Keys) /\ req[w].session \in SessionIds
  BY DEF TypeOK, Request
<1>2. req[w].batch[at[w]] \in Keys
  BY <1>1 DEF TypeOK
<1>. QED  BY <1>1, <1>2 DEF Candidate, Row, TypeOK

\* Every step keeps the types.
LEMMA TypeStep ==
  ASSUME TypeOK, TransactionInv, [Next]_vars
  PROVE  TypeOK'
<1>1. ASSUME NEW w \in Writers, NEW s \in SessionIds, CreateSession(w, s)
      PROVE  TypeOK'
  BY <1>1 DEF CreateSession, Tables, locals, TypeOK
<1>2. ASSUME NEW w \in Writers, NEW s \in SessionIds, NEW x \in Externals,
             LinkExternalSession(w, s, x)
      PROVE  TypeOK'
  <2>1. [session |-> s, external |-> x] \in Link
    BY DEF Link
  <2>2. db' \in Tables
    BY <1>2, <2>1 DEF LinkExternalSession, Tables, TypeOK
  <2>. QED  BY <1>2, <2>2 DEF LinkExternalSession, locals, TypeOK
<1>3. ASSUME NEW w \in Writers, NEW request \in Request, Call(w, request)
      PROVE  TypeOK'
  BY <1>3 DEF Call, Steps, locals, TypeOK
<1>4. ASSUME NEW w \in Writers, CallAppend(w)
      PROVE  TypeOK'
  <2>1. PICK s \in db.sessions, b \in Batches :
          Call(w, [session |-> s, batch |-> b, creates |-> FALSE,
                   external |-> NoExternal])
    BY <1>4 DEF CallAppend
  <2>2. s \in SessionIds /\ b \in Seq(Keys)
    BY BatchesAreSequences DEF Tables, TypeOK
  <2>. QED  BY <2>1, <2>2, <1>3 DEF Request
<1>5. ASSUME NEW w \in Writers, CallImport(w)
      PROVE  TypeOK'
  <2>1. PICK x \in Externals, b \in Batches, s \in SessionIds :
          Call(w, [session |-> s, batch |-> b,
                   creates |-> LinkedTo(db.links, x) = {}, external |-> x])
    BY <1>5 DEF CallImport
  <2>2. b \in Seq(Keys)
    BY BatchesAreSequences
  <2>. QED  BY <2>1, <2>2, <1>3 DEF Request
<1>6. ASSUME NEW w \in Writers, Begin(w)
      PROVE  TypeOK'
  BY <1>6 DEF Begin, Steps, InTransaction, TypeOK
<1>7. ASSUME NEW w \in Writers, InsertSession(w)
      PROVE  TypeOK'
  BY <1>7, ZenonT(30) DEF InsertSession, Steps, InTransaction, Tables, Request, TypeOK
<1>8. ASSUME NEW w \in Writers, ReadMaxSequence(w)
      PROVE  TypeOK'
  <2>1. WellFormed(view[w].rows) /\ req[w].session \in SessionIds
    BY <1>8 DEF ReadMaxSequence, InTransaction, TransactionInv, ViewInv, TypeOK, Request
  <2>2. MaxSequence(view[w].rows, req[w].session) \in Nat
    BY <2>1 DEF WellFormed, Numbered
  <2>. QED  BY <1>8, <2>2 DEF ReadMaxSequence, Steps, InTransaction, TypeOK
<1>9. ASSUME NEW w \in Writers, InsertEvent(w)
      PROVE  TypeOK'
  <2>1. Candidate(w) \in Row
    BY <1>9, CandidateType DEF InsertEvent
  <2>2. at' \in [Writers -> Nat \ {0}]
    BY <1>9 DEF InsertEvent, TypeOK
  <2>3. CASE Accepts(view[w].rows, Candidate(w))
    <3>1. [view[w] EXCEPT !.rows = @ \cup {Candidate(w)}] \in Tables
      BY <2>1 DEF Tables, TypeOK
    <3>2. view' \in [Writers -> Tables]
      BY <1>9, <2>3, <3>1 DEF InsertEvent, TypeOK
    <3>3. sequence' = [sequence EXCEPT ![w] = @ + 1] /\ sequence \in [Writers -> Nat]
      BY <1>9, <2>3 DEF InsertEvent, TypeOK
    <3>4. sequence' \in [Writers -> Nat]
      BY <3>3
    <3>5. /\ inserted' = [inserted EXCEPT ![w] = @ \cup {Candidate(w)}]
          /\ inserted \in [Writers -> SUBSET Row]
      BY <1>9, <2>3 DEF InsertEvent, TypeOK
    <3>6. inserted' \in [Writers -> SUBSET Row]
      BY <2>1, <3>5
    <3>. QED  BY <1>9, <2>2, <3>2, <3>4, <3>6 DEF InsertEvent, TypeOK
  <2>4. CASE ~ Accepts(view[w].rows, Candidate(w))
    BY <1>9, <2>2, <2>4 DEF InsertEvent, TypeOK
  <2>. QED  BY <2>3, <2>4
<1>10. ASSUME NEW w \in Writers, BatchDone(w)
       PROVE  TypeOK'
  BY <1>10 DEF BatchDone, Steps, InTransaction, locals, TypeOK
<1>11. ASSUME NEW w \in Writers, UpsertLink(w), pc[w] = "link" => req[w].external # NoExternal
       PROVE  TypeOK'
  <2>1. [session |-> req[w].session, external |-> req[w].external] \in Link
    BY <1>11 DEF UpsertLink, Link, Request, TypeOK
  <2>. QED  BY <1>11, <2>1 DEF UpsertLink, Steps, InTransaction, Tables, TypeOK
<1>12. ASSUME NEW w \in Writers, Commit(w)
       PROVE  TypeOK'
  <2>1. EmptyTables \in Tables
    BY DEF EmptyTables, Tables
  <2>. QED  BY <1>12, <2>1 DEF Commit, End, Steps, TypeOK
<1>13. ASSUME NEW w \in Writers, pc[w] = "link"
       PROVE  req[w].external # NoExternal
  BY <1>13 DEF TransactionInv, ProgressInv, InTransaction
<1>14. CASE UNCHANGED vars
  BY <1>14 DEF vars, TypeOK
<1>. QED
  BY <1>1, <1>2, <1>4, <1>5, <1>6, <1>7, <1>8, <1>9, <1>10, <1>11, <1>12, <1>13, <1>14,
     DiscardType
     DEF Next, Statement, BusyTimeout, LinkConflict, Rollback, Crash
-----------------------------------------------------------------------------
(* The inductive invariant.                                                *)

\* Nothing of another writer changes in a step of w.
OthersUntouched(w) ==
  \A v \in Writers \ {w} :
    /\ pc'[v] = pc[v] /\ req'[v] = req[v] /\ view'[v] = view[v]
    /\ sequence'[v] = sequence[v] /\ at'[v] = at[v]
    /\ inserted'[v] = inserted[v] /\ succeeded'[v] = succeeded[v]

\* Empty tables and idle writers satisfy the invariant.
LEMMA InitInv == Init => Inv
<1> SUFFICES ASSUME Init PROVE Inv
  OBVIOUS
<1>1. DbInv
  BY EmptyWellFormed DEF Init, DbInv, EmptyTables, OneOwner, ImportsLinked
<1>2. LockInv
  BY NoWriterIsNotAWriter DEF Init, LockInv, InTransaction
<1>3. RequestInv /\ TransactionInv /\ ResultInv
  BY DEF Init, NoCall, RequestInv, TransactionInv, ResultInv, InTransaction
<1>. QED  BY <1>1, <1>2, <1>3, TypeInit DEF Inv

\* A step of w that leaves the committed tables alone keeps the invariant if
\* what it says of w's own call still holds.
LEMMA LocalStep ==
  ASSUME Inv, TypeOK', NEW w \in Writers,
         OthersUntouched(w), UNCHANGED db, LockInv', RequestInv', ~ succeeded'[w],
         pc'[w] \in InTransaction => ViewInv(w)' /\ ProgressInv(w)'
  PROVE  Inv'
<1>1. DbInv'
  BY DEF Inv, DbInv
<1>2. TransactionInv'
  <2> SUFFICES ASSUME NEW v \in Writers, pc'[v] \in InTransaction, v # w
               PROVE  ViewInv(v)' /\ ProgressInv(v)'
    BY DEF TransactionInv
  <2>1. pc[v] \in InTransaction /\ pc'[v] = pc[v] /\ req'[v] = req[v] /\ view'[v] = view[v]
        /\ sequence'[v] = sequence[v] /\ at'[v] = at[v] /\ inserted'[v] = inserted[v]
    BY DEF OthersUntouched
  <2>2. ViewInv(v) /\ ProgressInv(v)
    BY <2>1 DEF Inv, TransactionInv
  <2>3. ViewInv(v)'
    BY <2>1, <2>2 DEF ViewInv
  <2>4. ProgressInv(v)'
    BY <2>1, <2>2 DEF ProgressInv
  <2>. QED  BY <2>3, <2>4
<1>3. ResultInv'
  <2> SUFFICES ASSUME NEW v \in Writers, succeeded'[v], v # w
               PROVE  /\ Stored(db.rows, req'[v], Len(req'[v].batch) + 1)
                      /\ inserted'[v] \subseteq db.rows
                      /\ req'[v].external # NoExternal =>
                           [session |-> req'[v].session, external |-> req'[v].external]
                             \in db.links
    BY DEF ResultInv
  <2>1. succeeded[v] /\ req'[v] = req[v] /\ inserted'[v] = inserted[v]
    BY DEF OthersUntouched
  <2>. QED  BY <2>1 DEF Inv, ResultInv
<1>. QED  BY <1>1, <1>2, <1>3 DEF Inv

\* A new call touches no table.
LEMMA CallStep ==
  ASSUME Inv, TypeOK', NEW w \in Writers, NEW request \in Request, Call(w, request),
         request.creates => request.session \in ImportIds /\ request.external # NoExternal
  PROVE  Inv'
<1> USE DEF Inv, TypeOK
<1>1. OthersUntouched(w) /\ ~ succeeded'[w] /\ UNCHANGED db
  BY DEF Call, locals, OthersUntouched
<1>2. pc'[w] \notin InTransaction
  BY DEF Call, InTransaction
<1>3. LockInv'
  BY DEF Call, LockInv, InTransaction
<1>4. RequestInv'
  BY DEF Call, RequestInv
<1>. QED  BY <1>1, <1>2, <1>3, <1>4, LocalStep

\* Giving up a transaction leaves the tables as they were.
LEMMA DiscardStep ==
  ASSUME Inv, TypeOK', NEW w \in Writers, Discard(w), pc[w] # "idle"
  PROVE  Inv'
<1> USE DEF Inv, TypeOK
<1>1. OthersUntouched(w) /\ ~ succeeded'[w] /\ UNCHANGED db
  BY DEF Discard, End, OthersUntouched, RequestInv
<1>2. pc'[w] \notin InTransaction
  BY DEF Discard, End, InTransaction
<1>3. LockInv'
  BY NoWriterIsNotAWriter DEF Discard, End, LockInv, InTransaction
<1>4. RequestInv'
  BY DEF Discard, End, RequestInv, NoCall
<1>. QED  BY <1>1, <1>2, <1>3, <1>4, LocalStep

\* BEGIN IMMEDIATE: the view is the committed tables.
LEMMA BeginStep ==
  ASSUME Inv, TypeOK', NEW w \in Writers, Begin(w)
  PROVE  Inv'
<1> USE DEF Inv, TypeOK
<1>1. OthersUntouched(w) /\ ~ succeeded'[w] /\ UNCHANGED db
  BY DEF Begin, OthersUntouched, RequestInv
<1>2. LockInv'
  BY NoWriterIsNotAWriter DEF Begin, LockInv, InTransaction
<1>3. RequestInv'
  BY DEF Begin, RequestInv
<1>4. view'[w] = db /\ req'[w] = req[w] /\ pc'[w] \in {"create", "max"} /\ inserted'[w] = {}
  BY DEF Begin, RequestInv
<1>5. ViewInv(w)'
  BY <1>1, <1>4 DEF ViewInv, DbInv
<1>6. ImportsLinked(db, {req[w].session}) /\ ImportsLinked(db, {})
  BY DEF DbInv, ImportsLinked
<1>7. ProgressInv(w)'
  BY <1>4, <1>6 DEF ProgressInv
<1>. QED  BY <1>1, <1>2, <1>3, <1>5, <1>7, LocalStep

\* The session row of an import.
LEMMA InsertSessionStep ==
  ASSUME Inv, TypeOK', NEW w \in Writers, InsertSession(w)
  PROVE  Inv'
<1> USE DEF Inv, TypeOK
<1>1. OthersUntouched(w) /\ ~ succeeded'[w] /\ UNCHANGED db
  BY DEF InsertSession, OthersUntouched, RequestInv
<1>2. LockInv'
  BY DEF InsertSession, LockInv, InTransaction
<1>3. RequestInv'
  BY DEF InsertSession, RequestInv
<1>4. /\ view'[w] = [view[w] EXCEPT !.sessions = @ \cup {req[w].session}]
      /\ req'[w] = req[w] /\ req[w].creates /\ pc[w] = "create" /\ pc'[w] = "max"
      /\ inserted'[w] = inserted[w]
  BY DEF InsertSession, RequestInv
<1>5. /\ view'[w].rows = view[w].rows /\ view'[w].links = view[w].links
      /\ view'[w].sessions = view[w].sessions \cup {req[w].session}
  BY <1>4 DEF Tables
<1>6. ViewInv(w) /\ ProgressInv(w)
  BY <1>4 DEF TransactionInv, InTransaction
<1>7. ViewInv(w)'
  BY <1>1, <1>4, <1>5, <1>6 DEF ViewInv
<1>8. ProgressInv(w)'
  BY <1>4, <1>5, <1>6 DEF ProgressInv, ImportsLinked
<1>. QED  BY <1>1, <1>2, <1>3, <1>7, <1>8, LocalStep

\* The counter becomes the largest number of the session in the view.
LEMMA ReadMaxSequenceStep ==
  ASSUME Inv, TypeOK', NEW w \in Writers, ReadMaxSequence(w)
  PROVE  Inv'
<1> USE DEF Inv, TypeOK
<1>1. OthersUntouched(w) /\ ~ succeeded'[w] /\ UNCHANGED db
  BY DEF ReadMaxSequence, OthersUntouched, RequestInv
<1>2. LockInv'
  BY DEF ReadMaxSequence, LockInv, InTransaction
<1>3. RequestInv'
  BY DEF ReadMaxSequence, RequestInv
<1>4. /\ view'[w] = view[w] /\ req'[w] = req[w] /\ inserted'[w] = inserted[w]
      /\ pc[w] = "max" /\ pc'[w] = "insert" /\ at'[w] = 1
      /\ sequence'[w] = MaxSequence(view[w].rows, req[w].session)
  BY DEF ReadMaxSequence
<1>5. ViewInv(w) /\ ProgressInv(w)
  BY <1>4 DEF TransactionInv, InTransaction
<1>6. ViewInv(w)'
  BY <1>1, <1>4, <1>5 DEF ViewInv
<1>7. Stored(view'[w].rows, req'[w], at'[w])
  BY <1>4 DEF Stored, Request
<1>8. ProgressInv(w)'
  BY <1>4, <1>5, <1>7 DEF ProgressInv
<1>. QED  BY <1>1, <1>2, <1>3, <1>6, <1>8, LocalStep

\* INSERT OR IGNORE: the row gets the next number or its key is there.
LEMMA InsertEventStep ==
  ASSUME Inv, TypeOK', NEW w \in Writers, InsertEvent(w)
  PROVE  Inv'
<1> USE DEF Inv, TypeOK
<1> DEFINE row == Candidate(w)
           s == req[w].session
<1>1. OthersUntouched(w) /\ ~ succeeded'[w] /\ UNCHANGED db
  <2>1. CASE Accepts(view[w].rows, row)
    BY <2>1 DEF InsertEvent, OthersUntouched, RequestInv
  <2>2. CASE ~ Accepts(view[w].rows, row)
    BY <2>2 DEF InsertEvent, OthersUntouched, RequestInv
  <2>. QED  BY <2>1, <2>2
<1>2. LockInv'
  BY DEF InsertEvent, LockInv, InTransaction
<1>3. RequestInv'
  <2>1. \A v \in Writers : v # w => inserted'[v] = inserted[v]
    BY <1>1 DEF OthersUntouched
  <2>. QED  BY <1>1, <2>1 DEF InsertEvent, RequestInv, OthersUntouched
<1>4. /\ pc[w] = "insert" /\ pc'[w] = "insert" /\ req'[w] = req[w]
      /\ at'[w] = at[w] + 1 /\ at[w] \in Nat \ {0} /\ at[w] <= Len(req[w].batch)
  BY DEF InsertEvent
<1>5. ViewInv(w) /\ ProgressInv(w)
  BY <1>4 DEF TransactionInv, InTransaction
<1>6. /\ row \in Row /\ row.session = s /\ row.key = req[w].batch[at[w]]
      /\ row.sequence = MaxSequence(view[w].rows, row.session) + 1
  BY <1>4, <1>5, CandidateType DEF Candidate, ProgressInv
<1>7. view[w].rows \in SUBSET Row /\ WellFormed(view[w].rows)
  BY <1>5 DEF ViewInv, Tables
<1>8. CASE Accepts(view[w].rows, row)
  <2>1. /\ view'[w] = [view[w] EXCEPT !.rows = @ \cup {row}]
        /\ sequence'[w] = sequence[w] + 1
        /\ inserted'[w] = inserted[w] \cup {row}
    BY <1>8 DEF InsertEvent
  <2>2. /\ view'[w].rows = view[w].rows \cup {row}
        /\ view'[w].links = view[w].links /\ view'[w].sessions = view[w].sessions
    BY <2>1 DEF Tables
  <2>3. WellFormed(view'[w].rows) /\ MaxSequence(view'[w].rows, s) = row.sequence
    <3> HIDE DEF row, Inv, TypeOK
    <3>1. /\ WellFormed(view[w].rows \cup {row})
          /\ MaxSequence(view[w].rows \cup {row}, row.session) = row.sequence
      BY <1>6, <1>7, <1>8, AddRow
    <3>. QED  BY <1>6, <2>2, <3>1
  <2>4. row.sequence > MaxSequence(db.rows, s)
    <3>1. MaxSequence(view[w].rows, s) \in Nat /\ MaxSequence(db.rows, s) \in Nat
      BY <1>7 DEF WellFormed, Numbered, DbInv, Request
    <3>2. MaxSequence(db.rows, s) <= MaxSequence(view[w].rows, s)
      BY <1>5, <1>7, MaxMonotone DEF ViewInv, WellFormed, DbInv, Request
    <3>. QED  BY <1>6, <3>1, <3>2
  <2>5. ViewInv(w)'
    BY <1>1, <1>4, <1>5, <1>6, <2>1, <2>2, <2>3, <2>4 DEF ViewInv
  <2>6. Stored(view'[w].rows, req'[w], at'[w])
    <3>1. row.key \in KeysOf(view'[w].rows, s)
      BY <1>6, <2>2 DEF KeysOf
    <3>2. Stored(view'[w].rows, req[w], at[w])
      BY <1>4, <1>5, <2>2, StoredMonotone DEF ProgressInv
    <3>. QED  BY <1>4, <1>6, <3>1, <3>2, StoredNext
  <2>7. sequence'[w] = MaxSequence(view'[w].rows, req'[w].session)
    BY <1>4, <1>5, <1>6, <2>1, <2>3 DEF ProgressInv
  <2>8. ProgressInv(w)'
    BY <1>4, <1>5, <2>2, <2>6, <2>7 DEF ProgressInv, ImportsLinked
  <2>. QED  BY <1>1, <1>2, <1>3, <2>5, <2>8, LocalStep
<1>9. CASE ~ Accepts(view[w].rows, row)
  <2>1. view'[w] = view[w] /\ sequence'[w] = sequence[w] /\ inserted'[w] = inserted[w]
    BY <1>9 DEF InsertEvent
  <2>2. row.key \in KeysOf(view[w].rows, s)
    BY <1>6, <1>7, <1>9, RefusedForItsKey
  <2>3. ViewInv(w)'
    BY <1>1, <1>4, <1>5, <2>1 DEF ViewInv
  <2>4. Stored(view'[w].rows, req'[w], at'[w])
    <3>1. Stored(view[w].rows, req[w], at[w])
      BY <1>4, <1>5 DEF ProgressInv
    <3>. QED  BY <1>4, <1>6, <2>1, <2>2, <3>1, StoredNext
  <2>5. ProgressInv(w)'
    BY <1>4, <1>5, <2>1, <2>4 DEF ProgressInv
  <2>. QED  BY <1>1, <1>2, <1>3, <2>3, <2>5, LocalStep
<1>. QED  BY <1>8, <1>9

\* The end of a batch, where an append is ready to commit.
LEMMA BatchDoneStep ==
  ASSUME Inv, TypeOK', NEW w \in Writers, BatchDone(w)
  PROVE  Inv'
<1> USE DEF Inv, TypeOK
<1>1. OthersUntouched(w) /\ ~ succeeded'[w] /\ UNCHANGED db
  BY DEF BatchDone, locals, OthersUntouched, RequestInv
<1>2. LockInv'
  BY DEF BatchDone, LockInv, InTransaction
<1>3. RequestInv'
  BY DEF BatchDone, RequestInv, locals
<1>4. /\ view'[w] = view[w] /\ req'[w] = req[w] /\ inserted'[w] = inserted[w]
      /\ pc[w] = "insert" /\ at[w] > Len(req[w].batch)
      /\ pc'[w] = IF req[w].external = NoExternal THEN "commit" ELSE "link"
  BY DEF BatchDone, locals
<1>5. ViewInv(w) /\ ProgressInv(w)
  BY <1>4 DEF TransactionInv, InTransaction
<1>6. ViewInv(w)'
  BY <1>1, <1>4, <1>5 DEF ViewInv
<1>7. Stored(view'[w].rows, req'[w], Len(req'[w].batch) + 1)
  <2>1. Stored(view[w].rows, req[w], at[w]) /\ req[w].batch \in Seq(Keys)
    BY <1>4, <1>5 DEF ProgressInv, Request
  <2>2. req[w] \in Request /\ at[w] \in Nat /\ Len(req[w].batch) + 1 \in Nat
    BY <2>1
  <2>. QED  BY <1>4, <2>1, <2>2, StoredAll
<1>8. ImportsLinked(view'[w], IF pc'[w] # "commit" /\ req'[w].creates
                              THEN {req'[w].session} ELSE {})
  BY <1>4, <1>5 DEF ProgressInv, RequestInv
<1>9. ProgressInv(w)'
  BY <1>4, <1>7, <1>8 DEF ProgressInv
<1>. QED  BY <1>1, <1>2, <1>3, <1>6, <1>9, LocalStep

\* The link of an import.
LEMMA UpsertLinkStep ==
  ASSUME Inv, TypeOK', NEW w \in Writers, UpsertLink(w)
  PROVE  Inv'
<1> USE DEF Inv, TypeOK
<1> DEFINE new == [session |-> req[w].session, external |-> req[w].external]
<1>1. OthersUntouched(w) /\ ~ succeeded'[w] /\ UNCHANGED db
  BY DEF UpsertLink, OthersUntouched, RequestInv
<1>2. LockInv'
  BY DEF UpsertLink, LockInv, InTransaction
<1>3. RequestInv'
  BY DEF UpsertLink, RequestInv
<1>4. /\ req'[w] = req[w] /\ inserted'[w] = inserted[w]
      /\ pc[w] = "link" /\ pc'[w] = "commit"
      /\ LinkAllowed(view[w].links, req[w].session, req[w].external)
      /\ view'[w] = [view[w] EXCEPT !.links = @ \cup {new}]
  BY DEF UpsertLink
<1>5. /\ view'[w].rows = view[w].rows /\ view'[w].sessions = view[w].sessions
      /\ view'[w].links = view[w].links \cup {new}
  BY <1>4 DEF Tables
<1>6. ViewInv(w) /\ ProgressInv(w)
  BY <1>4 DEF TransactionInv, InTransaction
<1>7. OneOwner(view'[w].links)
  BY <1>4, <1>5, <1>6 DEF ViewInv, OneOwner, LinkAllowed
<1>8. ViewInv(w)'
  BY <1>1, <1>4, <1>5, <1>6, <1>7 DEF ViewInv
<1>9. ImportsLinked(view'[w], {})
  <2> SUFFICES ASSUME NEW s \in view[w].sessions \cap ImportIds
               PROVE  \E l \in view'[w].links : l.session = s
    BY <1>5 DEF ImportsLinked
  <2>1. s = req[w].session \/ \E l \in view[w].links : l.session = s
    BY <1>6 DEF ProgressInv, ImportsLinked
  <2>2. new \in view'[w].links /\ new.session = req[w].session
    BY <1>5
  <2>. QED  BY <1>5, <2>1, <2>2
<1>10. ProgressInv(w)'
  BY <1>4, <1>5, <1>6, <1>9 DEF ProgressInv
<1>. QED  BY <1>1, <1>2, <1>3, <1>8, <1>10, LocalStep

\* Only the holder of the reservation is in a transaction.
LEMMA OnlyHolder ==
  ASSUME Inv, NEW w \in Writers, pc[w] \in InTransaction, NEW v \in Writers, v # w
  PROVE  pc[v] \notin InTransaction
BY DEF Inv, LockInv

\* The commit: the view becomes the tables, and the result the truth.
LEMMA CommitStep ==
  ASSUME Inv, TypeOK', NEW w \in Writers, Commit(w)
  PROVE  Inv'
<1> USE DEF Inv, TypeOK
<1>1. /\ pc[w] = "commit" /\ pc[w] \in InTransaction /\ pc'[w] = "idle"
      /\ db' = view[w] /\ req' = req /\ inserted' = inserted
      /\ \A v \in Writers : v # w => pc'[v] = pc[v] /\ succeeded'[v] = succeeded[v]
  BY DEF Commit, End, InTransaction
<1>2. ViewInv(w) /\ ProgressInv(w)
  BY <1>1 DEF TransactionInv
<1>3. DbInv'
  BY <1>1, <1>2 DEF DbInv, ViewInv, ProgressInv
<1>4. LockInv'
  BY <1>1, NoWriterIsNotAWriter DEF Commit, End, LockInv, InTransaction
<1>5. RequestInv'
  BY <1>1 DEF RequestInv
<1>6. TransactionInv'
  BY <1>1, OnlyHolder DEF TransactionInv, InTransaction
<1>7. ResultInv'
  <2> SUFFICES ASSUME NEW v \in Writers, succeeded'[v]
               PROVE  /\ Stored(db'.rows, req[v], Len(req[v].batch) + 1)
                      /\ inserted[v] \subseteq db'.rows
                      /\ req[v].external # NoExternal =>
                           [session |-> req[v].session, external |-> req[v].external]
                             \in db'.links
    BY <1>1 DEF ResultInv
  <2>1. CASE v = w
    BY <1>1, <1>2, <2>1 DEF ViewInv, ProgressInv
  <2>2. CASE v # w
    <3>1. succeeded[v] /\ db.rows \subseteq db'.rows /\ db.links \subseteq db'.links
      BY <1>1, <1>2, <2>2 DEF ViewInv
    <3>. QED  BY <3>1, StoredMonotone DEF ResultInv
  <2>. QED  BY <2>1, <2>2
<1>. QED  BY <1>3, <1>4, <1>5, <1>6, <1>7

\* A single autocommitted statement runs while nobody is in a transaction.
LEMMA AutocommitStep ==
  ASSUME Inv, TypeOK', lock = NoWriter, DbInv', db.rows = db'.rows,
         db.links \subseteq db'.links,
         UNCHANGED <<lock, pc, req, locals, inserted, succeeded>>
  PROVE  Inv'
<1> USE DEF Inv, TypeOK
<1>1. \A w \in Writers : pc[w] \notin InTransaction
  BY NoWriterIsNotAWriter DEF LockInv
<1>2. LockInv' /\ RequestInv'
  BY DEF LockInv, RequestInv
<1>3. TransactionInv'
  BY <1>1 DEF TransactionInv
<1>4. ResultInv'
  BY DEF ResultInv
<1>. QED  BY <1>2, <1>3, <1>4

\* A session created outside a transaction.
LEMMA CreateSessionStep ==
  ASSUME Inv, TypeOK', NEW w \in Writers, NEW s \in SessionIds, CreateSession(w, s)
  PROVE  Inv'
<1>1. /\ db'.rows = db.rows /\ db'.links = db.links
      /\ db'.sessions = db.sessions \cup {s} /\ s \in RunIds
  BY DEF CreateSession, Inv, TypeOK, Tables
<1>2. DbInv'
  BY <1>1, IdsDisjoint DEF Inv, DbInv, ImportsLinked
<1>. QED  BY <1>1, <1>2, AutocommitStep DEF CreateSession

\* A link stored outside a transaction.
LEMMA LinkExternalSessionStep ==
  ASSUME Inv, TypeOK', NEW w \in Writers, NEW s \in SessionIds, NEW x \in Externals,
         LinkExternalSession(w, s, x)
  PROVE  Inv'
<1>1. /\ db'.rows = db.rows /\ db'.sessions = db.sessions
      /\ db'.links = db.links \cup {[session |-> s, external |-> x]}
  BY DEF LinkExternalSession, Inv, TypeOK, Tables
<1>2. OneOwner(db'.links)
  BY <1>1 DEF Inv, DbInv, OneOwner, LinkExternalSession, LinkAllowed
<1>3. ImportsLinked(db', {})
  BY <1>1 DEF Inv, DbInv, ImportsLinked
<1>4. DbInv'
  BY <1>1, <1>2, <1>3 DEF Inv, DbInv
<1>. QED  BY <1>1, <1>4, AutocommitStep DEF LinkExternalSession

\* Every step keeps the invariant.
LEMMA InvStep ==
  ASSUME Inv, [Next]_vars
  PROVE  Inv'
<1>1. TypeOK'
  BY TypeStep DEF Inv
<1>2. ASSUME NEW w \in Writers, CallAppend(w)
      PROVE  Inv'
  <2>1. PICK s \in db.sessions, b \in Batches :
          Call(w, [session |-> s, batch |-> b, creates |-> FALSE,
                   external |-> NoExternal])
    BY <1>2 DEF CallAppend
  <2>2. [session |-> s, batch |-> b, creates |-> FALSE, external |-> NoExternal]
          \in Request
    BY BatchesAreSequences DEF Inv, TypeOK, Tables, Request
  <2>. QED  BY <1>1, <2>1, <2>2, CallStep
<1>3. ASSUME NEW w \in Writers, CallImport(w)
      PROVE  Inv'
  <2>1. PICK x \in Externals, b \in Batches, s \in SessionIds :
          /\ LinkedTo(db.links, x) = {} => s \in ImportIds
          /\ Call(w, [session |-> s, batch |-> b,
                      creates |-> LinkedTo(db.links, x) = {}, external |-> x])
    BY <1>3 DEF CallImport
  <2> DEFINE request == [session |-> s, batch |-> b,
                         creates |-> LinkedTo(db.links, x) = {}, external |-> x]
  <2>2. request \in Request
    BY BatchesAreSequences DEF Request
  <2>3. request.creates => request.session \in ImportIds /\ request.external # NoExternal
    BY <2>1, NoExternalIsNotExternal
  <2>. QED  BY <1>1, <2>1, <2>2, <2>3, CallStep
<1>4. ASSUME NEW w \in Writers, Statement(w)
      PROVE  Inv'
  BY <1>1, <1>4, BeginStep, InsertSessionStep, ReadMaxSequenceStep, InsertEventStep,
     BatchDoneStep, UpsertLinkStep, CommitStep, DiscardStep
     DEF Statement, BusyTimeout, LinkConflict, Rollback
<1>5. ASSUME NEW w \in Writers, Rollback(w) \/ Crash(w)
      PROVE  Inv'
  BY <1>1, <1>5, DiscardStep DEF Rollback, Crash, InTransaction
<1>6. CASE UNCHANGED vars
  <2>1. DbInv' /\ LockInv' /\ RequestInv' /\ ResultInv'
    BY <1>6 DEF Inv, vars, DbInv, LockInv, RequestInv, ResultInv
  <2>2. TransactionInv'
    BY <1>6 DEF Inv, vars, TransactionInv, ViewInv, ProgressInv
  <2>. QED  BY <1>1, <2>1, <2>2 DEF Inv
<1>. QED
  BY <1>1, <1>2, <1>3, <1>4, <1>5, <1>6, CreateSessionStep, LinkExternalSessionStep DEF Next

-----------------------------------------------------------------------------
(* Theorems.                                                               *)

\* The invariant holds in every reachable state.
THEOREM Invariance == Spec => []Inv
BY InitInv, InvStep, PTL DEF Spec

\* The tables a transaction sees, and every local variable of a call, keep
\* their types whatever statement runs, fails or is cut short by a crash.
THEOREM TypeCorrect == Spec => []TypeOK
BY Invariance, PTL DEF Inv

\* Sequence numbers of a session's committed events are exactly 1 .. n, for
\* any number of writers, batches and failures (append_events,
\* import_session_bundle).
THEOREM SequencesAreGapFree == Spec => []GapFree
<1>1. Inv => GapFree
  BY DEF Inv, DbInv, WellFormed, Numbered, Distinct, GapFree
<1>. QED  BY <1>1, Invariance, PTL

\* An Ok result of append_events or import_session_bundle means that every
\* event of the batch, and the link, is stored.
THEOREM SuccessMeansStored == Spec => []SuccessIsDurable
<1>1. Inv => SuccessIsDurable
  <2> SUFFICES ASSUME Inv, NEW w \in Writers, succeeded[w]
               PROVE  /\ \A i \in DOMAIN req[w].batch :
                           req[w].batch[i] \in KeysOf(db.rows, req[w].session)
                      /\ inserted[w] \subseteq db.rows
                      /\ req[w].external # NoExternal =>
                           LinkedTo(db.links, req[w].external) = {req[w].session}
    BY DEF SuccessIsDurable
  <2>1. req[w] \in Request /\ DOMAIN req[w].batch = 1 .. Len(req[w].batch)
        /\ Len(req[w].batch) \in Nat
    BY DEF Inv, TypeOK, Request
  <2>2. \A i \in DOMAIN req[w].batch :
          req[w].batch[i] \in KeysOf(db.rows, req[w].session)
    <3>1. Stored(db.rows, req[w], Len(req[w].batch) + 1)
      BY DEF Inv, ResultInv
    <3>2. \A i \in DOMAIN req[w].batch : i < Len(req[w].batch) + 1
      BY <2>1
    <3>. QED  BY <3>1, <3>2 DEF Stored
  <2>3. inserted[w] \subseteq db.rows
    BY DEF Inv, ResultInv
  <2>4. ASSUME req[w].external # NoExternal
        PROVE  LinkedTo(db.links, req[w].external) = {req[w].session}
    <3>1. [session |-> req[w].session, external |-> req[w].external] \in db.links
      BY <2>4 DEF Inv, ResultInv
    <3>2. OneOwner(db.links)
      BY DEF Inv, DbInv
    <3>. QED  BY <3>1, <3>2 DEF OneOwner, LinkedTo
  <2>. QED  BY <2>2, <2>3, <2>4
<1>. QED  BY <1>1, Invariance, PTL

\* A session minted by cb import exists only together with its link, and its
\* external session has no other owner, wherever an import was cut short.
THEOREM ImportsAreAtomic == Spec => []ImportIsAtomic
<1>1. Inv => ImportIsAtomic
  BY DEF Inv, DbInv, ImportsLinked, OneOwner, ImportIsAtomic
<1>. QED  BY <1>1, Invariance, PTL

\* No step changes or removes a committed event, and every event committed by
\* a step is numbered above the session's earlier ones.
THEOREM HistoryIsAppendOnly == Spec => AppendOnly
<1>1. ASSUME Inv, [Next]_vars
      PROVE  [/\ db.rows \subseteq db'.rows
              /\ \A r \in db'.rows \ db.rows :
                   r.sequence > MaxSequence(db.rows, r.session)]_db
  <2>1. ASSUME NEW w \in Writers, Commit(w)
        PROVE  /\ db.rows \subseteq db'.rows
               /\ \A r \in db'.rows \ db.rows :
                    r.sequence > MaxSequence(db.rows, r.session)
    BY <1>1, <2>1 DEF Commit, Inv, TransactionInv, ViewInv, InTransaction
  <2>2. ASSUME NEW w \in Writers, NEW s \in SessionIds,
               CreateSession(w, s) \/ \E x \in Externals : LinkExternalSession(w, s, x)
        PROVE  db'.rows = db.rows
    BY <1>1, <2>2 DEF CreateSession, LinkExternalSession, Inv, TypeOK, Tables
  <2>3. ASSUME NEW w \in Writers,
               \/ CallAppend(w) \/ CallImport(w) \/ Rollback(w) \/ Crash(w)
               \/ Statement(w) /\ ~ Commit(w)
        PROVE  UNCHANGED db
    BY <2>3 DEF CallAppend, CallImport, Call, Rollback, Crash, Discard, Statement, Begin,
                BusyTimeout, InsertSession, ReadMaxSequence, InsertEvent, BatchDone,
                UpsertLink, LinkConflict
  <2>4. CASE UNCHANGED vars
    BY <2>4 DEF vars
  <2>. QED  BY <1>1, <2>1, <2>2, <2>3, <2>4 DEF Next
<1>. QED  BY <1>1, Invariance, PTL DEF Spec, AppendOnly
=============================================================================
