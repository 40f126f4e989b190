------------------------ MODULE EventStoreRefinement ------------------------
(***************************************************************************)
(* Proof that the store, statement by statement, implements ContextLog: for *)
(* every set of writers, sessions, keys, external sessions and batches a   *)
(* commit is one abstract call and every other step a stutter, except the  *)
(* two autocommitted statements.                                           *)
(*                                                                         *)
(* The invariant of EventStoreProofs says that a view is well formed.  What *)
(* a commit adds to the log also has to be exactly what the batch names and *)
(* the log lacks, in the order of the batch (NewRowsInv), and the rest of  *)
(* the view has to be the committed tables and the arguments of the call   *)
(* (ViewMeaning).                                                          *)
(***************************************************************************)
EXTENDS EventStoreProofs, SequenceTheorems

\* Arguments of a call that is in progress.
RequestMeaning ==
  \A w \in Writers : pc[w] # "idle" =>
    /\ req[w].batch \in Batches
    /\ req[w].external = NoExternal => ~ req[w].creates
    /\ ~ req[w].creates => req[w].session \in db.sessions

LinksMeaning == \A l \in db.links : l.session \in db.sessions

NewLink(w) == [session |-> req[w].session, external |-> req[w].external]

\* Sessions and links of a view.
ViewMeaning(w) ==
  /\ view[w].sessions = db.sessions \cup (IF req[w].creates /\ pc[w] # "create"
                                          THEN {req[w].session} ELSE {})
  /\ view[w].links = db.links \cup (IF pc[w] = "commit" /\ req[w].external # NoExternal
                                    THEN {NewLink(w)} ELSE {})
  /\ pc[w] = "commit" /\ req[w].external # NoExternal =>
       LinkAllowed(db.links, req[w].session, req[w].external)

\* The row holds the n-th key of the batch, and no later row of its session
\* holds a key that the batch names up to there.
Follows(row, rows, request, n) ==
  /\ request.batch[n] = row.key
  /\ \A m \in 1 .. n, r \in rows :
       r.session = request.session /\ r.sequence > row.sequence => r.key # request.batch[m]

NewRowsInv(w) ==
  \A row \in view[w].rows \ db.rows :
    /\ pc[w] \in {"insert", "link", "commit"}
    /\ \E n \in 1 .. Len(req[w].batch) : n < at[w] /\ Follows(row, view[w].rows, req[w], n)

MeaningInv ==
  /\ RequestMeaning /\ LinksMeaning
  /\ \A w \in Writers : pc[w] \in InTransaction => ViewMeaning(w) /\ NewRowsInv(w)

-----------------------------------------------------------------------------
(* The invariant.                                                          *)

\* Empty tables and idle writers mean nothing yet.
LEMMA MeaningInit == Init => MeaningInv
BY DEF Init, MeaningInv, RequestMeaning, LinksMeaning, EmptyTables, InTransaction

\* A step of w that leaves the committed tables alone keeps the meaning of
\* every other call.
LEMMA LocalMeaning ==
  ASSUME Inv, MeaningInv, NEW w \in Writers, OthersUntouched(w), UNCHANGED db,
         pc'[w] # "idle" =>
           /\ req'[w].batch \in Batches
           /\ req'[w].external = NoExternal => ~ req'[w].creates
           /\ ~ req'[w].creates => req'[w].session \in db.sessions,
         pc'[w] \in InTransaction => ViewMeaning(w)' /\ NewRowsInv(w)'
  PROVE  MeaningInv'
<1>1. RequestMeaning'
  BY DEF MeaningInv, RequestMeaning, OthersUntouched
<1>2. LinksMeaning'
  BY DEF MeaningInv, LinksMeaning
<1>3. ASSUME NEW v \in Writers, pc'[v] \in InTransaction, v # w
      PROVE  ViewMeaning(v)' /\ NewRowsInv(v)'
  <2>1. /\ pc'[v] = pc[v] /\ req'[v] = req[v] /\ view'[v] = view[v] /\ at'[v] = at[v]
        /\ db' = db
    BY <1>3 DEF OthersUntouched
  <2>2. ViewMeaning(v) /\ NewRowsInv(v)
    BY <1>3, <2>1 DEF MeaningInv
  <2>3. ViewMeaning(v)'
    BY <2>1, <2>2 DEF ViewMeaning, NewLink
  <2>4. NewRowsInv(v)'
    BY <2>1, <2>2 DEF NewRowsInv
  <2>. QED  BY <2>3, <2>4
<1>. QED  BY <1>1, <1>2, <1>3 DEF MeaningInv

\* A call names a batch a caller may pass and a session that exists or that it
\* creates.
LEMMA CallMeaning ==
  ASSUME Inv, MeaningInv, NEW w \in Writers, CallAppend(w) \/ CallImport(w)
  PROVE  MeaningInv'
<1>1. PICK request : /\ Call(w, request)
                     /\ request.batch \in Batches
                     /\ request.external = NoExternal => ~ request.creates
                     /\ ~ request.creates => request.session \in db.sessions
  <2>1. CASE CallAppend(w)
    <3>1. PICK s \in db.sessions, b \in Batches :
            Call(w, [session |-> s, batch |-> b, creates |-> FALSE,
                     external |-> NoExternal])
      BY <2>1 DEF CallAppend
    <3>. QED  BY <3>1
  <2>2. CASE CallImport(w)
    <3>1. PICK x \in Externals, b \in Batches, s \in SessionIds :
            /\ LinkedTo(db.links, x) # {} => s \in LinkedTo(db.links, x)
            /\ Call(w, [session |-> s, batch |-> b,
                        creates |-> LinkedTo(db.links, x) = {}, external |-> x])
      BY <2>2 DEF CallImport
    <3> DEFINE request == [session |-> s, batch |-> b,
                           creates |-> LinkedTo(db.links, x) = {}, external |-> x]
    <3>2. LinkedTo(db.links, x) # {} => s \in db.sessions
      BY <3>1 DEF LinkedTo, MeaningInv, LinksMeaning
    <3>3. request.batch \in Batches
      OBVIOUS
    <3>4. request.external # NoExternal
      BY NoExternalIsNotExternal
    <3>5. request.session = s /\ (~ request.creates => LinkedTo(db.links, x) # {})
      OBVIOUS
    <3>6. ~ request.creates => request.session \in db.sessions
      BY <3>2, <3>5
    <3>7. Call(w, request)
      BY <3>1
    <3> HIDE DEF request
    <3>. QED  BY <3>3, <3>4, <3>6, <3>7
  <2>. QED  BY <2>1, <2>2
<1>2. /\ OthersUntouched(w) /\ UNCHANGED db
      /\ req'[w] = request /\ pc'[w] = "begin"
  BY <1>1 DEF Call, locals, OthersUntouched, Inv, TypeOK
<1>. QED  BY <1>1, <1>2, LocalMeaning DEF InTransaction

\* A call that ends without success leaves nothing to mean.
LEMMA DiscardMeaning ==
  ASSUME Inv, MeaningInv, NEW w \in Writers, Discard(w)
  PROVE  MeaningInv'
<1>1. OthersUntouched(w) /\ UNCHANGED db /\ pc'[w] = "idle"
  BY DEF Discard, End, OthersUntouched, Inv, TypeOK
<1>. QED  BY <1>1, LocalMeaning DEF InTransaction

\* What is known of a call inside its transaction.
LEMMA InsideMeaning ==
  ASSUME Inv, MeaningInv, NEW w \in Writers, pc[w] \in InTransaction
  PROVE  /\ req[w].batch \in Batches
         /\ req[w].external = NoExternal => ~ req[w].creates
         /\ ~ req[w].creates => req[w].session \in db.sessions
         /\ ViewMeaning(w) /\ NewRowsInv(w)
BY DEF MeaningInv, RequestMeaning, InTransaction

\* A view starts as the committed tables.
LEMMA BeginMeaning ==
  ASSUME Inv, MeaningInv, NEW w \in Writers, Begin(w)
  PROVE  MeaningInv'
<1> USE DEF Inv, TypeOK
<1>1. OthersUntouched(w) /\ UNCHANGED db
  BY DEF Begin, OthersUntouched
<1>2. /\ view'[w] = db /\ req'[w] = req[w] /\ pc[w] = "begin"
      /\ pc'[w] = IF req[w].creates THEN "create" ELSE "max"
  BY DEF Begin
<1>3. ViewMeaning(w)'
  BY <1>1, <1>2 DEF ViewMeaning
<1>4. NewRowsInv(w)'
  BY <1>1, <1>2 DEF NewRowsInv
<1>. QED  BY <1>1, <1>2, <1>3, <1>4, LocalMeaning DEF MeaningInv, RequestMeaning

\* A session is in the view once its row is inserted.
LEMMA InsertSessionMeaning ==
  ASSUME Inv, MeaningInv, NEW w \in Writers, InsertSession(w)
  PROVE  MeaningInv'
<1> USE DEF Inv, TypeOK
<1>1. OthersUntouched(w) /\ UNCHANGED db
  BY DEF InsertSession, OthersUntouched
<1>2. /\ pc[w] = "create" /\ pc'[w] = "max" /\ req'[w] = req[w] /\ req[w].creates
      /\ view'[w] = [view[w] EXCEPT !.sessions = @ \cup {req[w].session}]
  BY DEF InsertSession, RequestInv
<1>3. /\ view'[w].sessions = view[w].sessions \cup {req[w].session}
      /\ view'[w].links = view[w].links /\ view'[w].rows = view[w].rows
  BY <1>2 DEF Tables
<1>4. /\ ViewMeaning(w) /\ NewRowsInv(w) /\ req[w].batch \in Batches
      /\ req[w].external # NoExternal
  BY <1>2, InsideMeaning DEF InTransaction
<1>5. ViewMeaning(w)'
  BY <1>1, <1>2, <1>3, <1>4 DEF ViewMeaning
<1>6. NewRowsInv(w)'
  BY <1>1, <1>2, <1>3, <1>4 DEF NewRowsInv
<1>. QED  BY <1>1, <1>2, <1>4, <1>5, <1>6, LocalMeaning

\* The counter is read; no row is written.
LEMMA ReadMaxSequenceMeaning ==
  ASSUME Inv, MeaningInv, NEW w \in Writers, ReadMaxSequence(w)
  PROVE  MeaningInv'
<1> USE DEF Inv, TypeOK
<1>1. OthersUntouched(w) /\ UNCHANGED db
  BY DEF ReadMaxSequence, OthersUntouched
<1>2. /\ pc[w] = "max" /\ pc'[w] = "insert" /\ req'[w] = req[w] /\ view'[w] = view[w]
      /\ pc[w] \in InTransaction
  BY DEF ReadMaxSequence, InTransaction
<1>3. /\ ViewMeaning(w) /\ NewRowsInv(w) /\ req[w].batch \in Batches
      /\ req[w].external = NoExternal => ~ req[w].creates
      /\ ~ req[w].creates => req[w].session \in db.sessions
  BY <1>2, InsideMeaning
<1>4. ViewMeaning(w)'
  BY <1>1, <1>2, <1>3 DEF ViewMeaning
<1>5. NewRowsInv(w)'
  BY <1>1, <1>2, <1>3 DEF NewRowsInv
<1>. QED  BY <1>1, <1>2, <1>3, <1>4, <1>5, LocalMeaning

\* A row with a key that the batch does not name up to n changes nothing.
LEMMA FollowsMore ==
  ASSUME NEW q, NEW rows, NEW row, NEW request, NEW n,
         Follows(q, rows, request, n), \A m \in 1 .. n : request.batch[m] # row.key
  PROVE  Follows(q, rows \cup {row}, request, n)
BY DEF Follows

\* A row above all others of its session follows whatever the batch names.
LEMMA FollowsLast ==
  ASSUME NEW rows \in SUBSET Row, NEW row \in Row, NEW request, NEW n,
         request.batch[n] = row.key, WellFormed(rows), row.session = request.session,
         row.sequence = MaxSequence(rows, row.session)
  PROVE  Follows(row, rows, request, n)
<1> SUFFICES ASSUME NEW r \in rows, r.session = request.session
             PROVE  ~ (r.sequence > row.sequence)
  BY DEF Follows
<1>1. row.session \in SessionIds /\ MaxSequence(rows, row.session) \in Nat
  BY DEF Row, WellFormed, Numbered
<1>2. r.sequence \in SequencesOf(rows, row.session)
  BY DEF SequencesOf
<1>3. r.sequence \in 1 .. MaxSequence(rows, row.session)
  BY <1>1, <1>2 DEF WellFormed, Numbered
<1>. QED  BY <1>1, <1>3

\* A key of the batch that was stored before is not the key of a new row.
LEMMA NewKey ==
  ASSUME NEW rows, NEW request \in Request, NEW row, NEW n \in Nat, NEW m \in 1 .. n,
         n < Len(request.batch) + 1, Stored(rows, request, n + 1), Accepts(rows, row),
         row.session = request.session
  PROVE  request.batch[m] # row.key
<1>1. m \in DOMAIN request.batch /\ m < n + 1
  BY DEF Request
<1>2. request.batch[m] \in KeysOf(rows, request.session)
  BY <1>1 DEF Stored
<1>. QED  BY <1>2 DEF KeysOf, Accepts

\* A row the loop inserts holds the key at the loop's position.
LEMMA InsertEventMeaning ==
  ASSUME Inv, Inv', MeaningInv, NEW w \in Writers, InsertEvent(w)
  PROVE  MeaningInv'
<1> USE DEF Inv, TypeOK
<1> DEFINE row == Candidate(w)
           n == at[w]
<1>1. OthersUntouched(w) /\ UNCHANGED db
  <2>1. CASE Accepts(view[w].rows, row)
    BY <2>1 DEF InsertEvent, OthersUntouched
  <2>2. CASE ~ Accepts(view[w].rows, row)
    BY <2>2 DEF InsertEvent, OthersUntouched
  <2>. QED  BY <2>1, <2>2
<1>2. /\ pc[w] = "insert" /\ pc'[w] = "insert" /\ req'[w] = req[w] /\ at'[w] = n + 1
      /\ n \in Nat \ {0} /\ n <= Len(req[w].batch) /\ pc[w] \in InTransaction
  BY DEF InsertEvent, InTransaction
<1>3. /\ ViewMeaning(w) /\ NewRowsInv(w) /\ req[w].batch \in Batches
      /\ req[w].external = NoExternal => ~ req[w].creates
      /\ ~ req[w].creates => req[w].session \in db.sessions
  BY <1>2, InsideMeaning
<1>4. n \in 1 .. Len(req[w].batch) /\ Len(req[w].batch) \in Nat /\ req[w] \in Request
  <2>1. req[w] \in Request
    OBVIOUS
  <2>2. req[w].batch \in Seq(Keys)
    BY <2>1 DEF Request
  <2> HIDE DEF n, Inv, TypeOK
  <2>. QED  BY <1>2, <2>1, <2>2
<1>5. CASE Accepts(view[w].rows, row)
  <2>1. /\ view'[w].rows = view[w].rows \cup {row}
        /\ view'[w].links = view[w].links /\ view'[w].sessions = view[w].sessions
        /\ sequence'[w] = sequence[w] + 1
    BY <1>5 DEF InsertEvent, Tables
  <2>2. ViewMeaning(w)'
    BY <1>1, <1>2, <1>3, <2>1 DEF ViewMeaning
  <2>3. /\ ViewInv(w)' /\ ProgressInv(w)' /\ view'[w].rows \in SUBSET Row
    BY <1>2 DEF TransactionInv, Tables
  <2>4. /\ row.session = req[w].session /\ row.key = req[w].batch[n]
        /\ row.sequence = MaxSequence(view'[w].rows, row.session) /\ row \in Row
    BY <1>2, <2>1, <2>3, CandidateType DEF Candidate, ProgressInv
  <2>5. Follows(row, view'[w].rows, req[w], n)
    <3>1. WellFormed(view'[w].rows)
      BY <2>3 DEF ViewInv
    <3> HIDE DEF row, n, Inv, TypeOK
    <3>. QED  BY <2>3, <2>4, <3>1, FollowsLast
  <2>6. ASSUME NEW k \in 1 .. Len(req[w].batch), k < n
        PROVE  req[w].batch[k] # row.key
    <3>1. k \in DOMAIN req[w].batch
      BY <1>4
    <3>2. Stored(view[w].rows, req[w], n)
      BY <1>2 DEF TransactionInv, ProgressInv
    <3>3. req[w].batch[k] \in KeysOf(view[w].rows, req[w].session)
      BY <2>6, <3>1, <3>2 DEF Stored
    <3>. QED  BY <1>5, <2>4, <3>3 DEF KeysOf, Accepts
  <2>7. ASSUME NEW q \in view[w].rows \ db.rows
        PROVE  \E k \in 1 .. Len(req[w].batch) :
                 k < n + 1 /\ Follows(q, view'[w].rows, req[w], k)
    <3>1. PICK k \in 1 .. Len(req[w].batch) : k < n /\ Follows(q, view[w].rows, req[w], k)
      BY <1>3, <2>7 DEF NewRowsInv
    <3>2. \A m \in 1 .. k : m \in 1 .. Len(req[w].batch) /\ m < n
      <4> HIDE DEF n, Inv, TypeOK
      <4>. QED  BY <1>4, <3>1
    <3>3. \A m \in 1 .. k : req[w].batch[m] # row.key
      BY <2>6, <3>2
    <3>4. Follows(q, view[w].rows \cup {row}, req[w], k)
      <4> HIDE DEF n, row, Inv, TypeOK
      <4>. QED  BY <3>1, <3>3, FollowsMore
    <3>5. k < n + 1
      BY <1>4, <3>1
    <3>. QED  BY <2>1, <3>4, <3>5
  <2>8. NewRowsInv(w)'
    <3> SUFFICES ASSUME NEW q \in view'[w].rows \ db.rows
                 PROVE  \E k \in 1 .. Len(req[w].batch) :
                          k < n + 1 /\ Follows(q, view'[w].rows, req[w], k)
      BY <1>1, <1>2 DEF NewRowsInv
    <3>1. CASE q = row
      <4>1. n < n + 1
        BY <1>4
      <4>. QED  BY <1>4, <2>5, <3>1, <4>1
    <3>2. CASE q # row
      BY <2>1, <2>7, <3>2
    <3>. QED  BY <3>1, <3>2
  <2>. QED  BY <1>1, <1>2, <1>3, <2>2, <2>8, LocalMeaning
<1>6. CASE ~ Accepts(view[w].rows, row)
  <2>1. view'[w] = view[w]
    BY <1>6 DEF InsertEvent
  <2>2. ViewMeaning(w)'
    BY <1>1, <1>2, <1>3, <2>1 DEF ViewMeaning
  <2>3. NewRowsInv(w)'
    <3> SUFFICES ASSUME NEW q \in view[w].rows \ db.rows
                 PROVE  \E k \in 1 .. Len(req[w].batch) :
                          k < n + 1 /\ Follows(q, view[w].rows, req[w], k)
      BY <1>1, <1>2, <2>1 DEF NewRowsInv
    <3>1. PICK k \in 1 .. Len(req[w].batch) : k < n /\ Follows(q, view[w].rows, req[w], k)
      BY <1>3 DEF NewRowsInv
    <3>2. k < n + 1
      BY <1>4, <3>1
    <3>. QED  BY <3>1, <3>2
  <2>. QED  BY <1>1, <1>2, <1>3, <2>2, <2>3, LocalMeaning
<1>. QED  BY <1>5, <1>6

\* The end of the batch writes nothing.
LEMMA BatchDoneMeaning ==
  ASSUME Inv, MeaningInv, NEW w \in Writers, BatchDone(w)
  PROVE  MeaningInv'
<1> USE DEF Inv, TypeOK
<1>1. OthersUntouched(w) /\ UNCHANGED db
  BY DEF BatchDone, locals, OthersUntouched
<1>2. /\ view'[w] = view[w] /\ req'[w] = req[w] /\ at'[w] = at[w] /\ pc[w] = "insert"
      /\ pc'[w] = IF req[w].external = NoExternal THEN "commit" ELSE "link"
      /\ pc[w] \in InTransaction
  BY DEF BatchDone, locals, InTransaction
<1>3. /\ ViewMeaning(w) /\ NewRowsInv(w) /\ req[w].batch \in Batches
      /\ req[w].external = NoExternal => ~ req[w].creates
      /\ ~ req[w].creates => req[w].session \in db.sessions
  BY <1>2, InsideMeaning
<1>4. ViewMeaning(w)'
  BY <1>1, <1>2, <1>3 DEF ViewMeaning
<1>5. NewRowsInv(w)'
  BY <1>1, <1>2, <1>3 DEF NewRowsInv
<1>. QED  BY <1>1, <1>2, <1>3, <1>4, <1>5, LocalMeaning

\* The link is the one the call was given, and nobody else owns it.
LEMMA UpsertLinkMeaning ==
  ASSUME Inv, MeaningInv, NEW w \in Writers, UpsertLink(w)
  PROVE  MeaningInv'
<1> USE DEF Inv, TypeOK
<1>1. OthersUntouched(w) /\ UNCHANGED db
  BY DEF UpsertLink, OthersUntouched
<1>2. /\ pc[w] = "link" /\ pc'[w] = "commit" /\ req'[w] = req[w] /\ at'[w] = at[w]
      /\ LinkAllowed(view[w].links, req[w].session, req[w].external)
      /\ view'[w].rows = view[w].rows /\ view'[w].sessions = view[w].sessions
      /\ view'[w].links = view[w].links \cup {NewLink(w)}
      /\ pc[w] \in InTransaction
  BY DEF UpsertLink, Tables, NewLink, InTransaction
<1>3. /\ ViewMeaning(w) /\ NewRowsInv(w) /\ req[w].batch \in Batches
      /\ req[w].external = NoExternal => ~ req[w].creates
      /\ ~ req[w].creates => req[w].session \in db.sessions
      /\ req[w].external # NoExternal
  BY <1>2, InsideMeaning DEF TransactionInv, ProgressInv
<1>4. view[w].links = db.links
  BY <1>2, <1>3 DEF ViewMeaning
<1>5. ViewMeaning(w)'
  BY <1>1, <1>2, <1>3, <1>4 DEF ViewMeaning, NewLink
<1>6. NewRowsInv(w)'
  BY <1>1, <1>2, <1>3 DEF NewRowsInv
<1>. QED  BY <1>1, <1>2, <1>3, <1>5, <1>6, LocalMeaning

\* Sessions and links only grow while nobody else is in a transaction.
LEMMA TablesMeaning ==
  ASSUME MeaningInv, NEW w, pc'[w] = "idle",
         \A v \in Writers \ {w} :
           pc'[v] = pc[v] /\ req'[v] = req[v] /\ pc[v] \notin InTransaction,
         db.sessions \subseteq db'.sessions, LinksMeaning'
  PROVE  MeaningInv'
<1>1. RequestMeaning'
  BY DEF MeaningInv, RequestMeaning
<1>2. \A v \in Writers : pc'[v] \notin InTransaction
  BY DEF InTransaction
<1>. QED  BY <1>1, <1>2 DEF MeaningInv

\* What a commit publishes still means what the other calls took it for.
LEMMA CommitMeaning ==
  ASSUME Inv, MeaningInv, NEW w \in Writers, Commit(w)
  PROVE  MeaningInv'
<1> USE DEF Inv, TypeOK
<1>1. /\ pc[w] = "commit" /\ pc[w] \in InTransaction /\ pc'[w] = "idle"
      /\ db' = view[w] /\ \A v \in Writers \ {w} : pc'[v] = pc[v] /\ req'[v] = req[v]
  BY DEF Commit, End, InTransaction
<1>2. ViewMeaning(w) /\ (~ req[w].creates => req[w].session \in db.sessions)
  BY <1>1, InsideMeaning
<1>3. /\ db.sessions \subseteq db'.sessions
      /\ \A l \in db'.links : l \in db.links \/ l = NewLink(w)
      /\ req[w].session \in db'.sessions
  BY <1>1, <1>2 DEF ViewMeaning
<1>4. LinksMeaning'
  BY <1>3 DEF MeaningInv, LinksMeaning, NewLink
<1>5. \A v \in Writers \ {w} : pc[v] \notin InTransaction
  BY <1>1, OnlyHolder
<1>. QED  BY <1>1, <1>3, <1>4, <1>5, TablesMeaning

\* A single statement runs while nobody is in a transaction.
LEMMA AutocommitMeaning ==
  ASSUME Inv, MeaningInv, NEW w \in Writers,
         (\E s \in SessionIds : CreateSession(w, s))
           \/ \E s \in SessionIds, x \in Externals : LinkExternalSession(w, s, x)
  PROVE  MeaningInv'
<1> USE DEF Inv, TypeOK
<1>1. /\ pc'[w] = "idle" /\ pc' = pc /\ req' = req /\ lock = NoWriter
  BY DEF CreateSession, LinkExternalSession
<1>2. \A v \in Writers : pc[v] \notin InTransaction
  BY <1>1, NoWriterIsNotAWriter DEF LockInv
<1>3. db.sessions \subseteq db'.sessions /\ LinksMeaning'
  BY DEF CreateSession, LinkExternalSession, Tables, MeaningInv, LinksMeaning
<1>. QED  BY <1>1, <1>2, <1>3, TablesMeaning

\* Every step keeps the meaning.
LEMMA MeaningStep ==
  ASSUME Inv, MeaningInv, [Next]_vars
  PROVE  MeaningInv'
<1>1. Inv'
  BY InvStep
<1>2. ASSUME NEW w \in Writers, Statement(w)
      PROVE  MeaningInv'
  BY <1>1, <1>2, BeginMeaning, InsertSessionMeaning, ReadMaxSequenceMeaning,
     InsertEventMeaning, BatchDoneMeaning, UpsertLinkMeaning, CommitMeaning, DiscardMeaning
     DEF Statement, BusyTimeout, LinkConflict, Rollback
<1>3. ASSUME NEW w \in Writers, Rollback(w) \/ Crash(w)
      PROVE  MeaningInv'
  BY <1>3, DiscardMeaning DEF Rollback, Crash
<1>4. CASE UNCHANGED vars
  BY <1>4 DEF vars, MeaningInv, RequestMeaning, LinksMeaning, ViewMeaning, NewLink,
              NewRowsInv
<1>. QED  BY <1>2, <1>3, <1>4, CallMeaning, AutocommitMeaning DEF Next

\* In every reachable state a view is the committed tables and what the
\* arguments of the call ask for.
THEOREM ViewsMeanTheirCalls == Spec => []MeaningInv
<1>1. Init => MeaningInv
  BY MeaningInit
<1>2. Inv /\ MeaningInv /\ [Next]_vars => MeaningInv'
  BY MeaningStep
<1>. QED  BY <1>1, <1>2, Invariance, PTL DEF Spec

-----------------------------------------------------------------------------
(* The log of a session.                                                   *)

\* The row with a number in a log is the row with its key.
LEMMA LogEntries ==
  ASSUME NEW rows \in SUBSET Row, WellFormed(rows), NEW s \in SessionIds
  PROVE  /\ MaxSequence(rows, s) \in Nat
         /\ LogOf(rows, s) \in Seq(Keys)
         /\ Len(LogOf(rows, s)) = MaxSequence(rows, s)
         /\ \A r \in rows : r.session = s =>
              r.sequence \in 1 .. MaxSequence(rows, s) /\ LogOf(rows, s)[r.sequence] = r.key
         /\ \A i \in 1 .. MaxSequence(rows, s) :
              \E r \in rows : r.session = s /\ r.sequence = i /\ LogOf(rows, s)[i] = r.key
<1> DEFINE max == MaxSequence(rows, s)
<1>1. max \in Nat /\ SequencesOf(rows, s) = 1 .. max
  BY DEF WellFormed, Numbered
<1>2. ASSUME NEW r \in rows, r.session = s
      PROVE  r.sequence \in 1 .. max /\ LogOf(rows, s)[r.sequence] = r.key
  <2>1. r.sequence \in 1 .. max
    BY <1>1, <1>2 DEF SequencesOf
  <2>2. r = [session |-> s, sequence |-> r.sequence, key |-> r.key] /\ r.key \in Keys
    BY <1>2 DEF Row
  <2>3. ASSUME NEW k \in Keys, [session |-> s, sequence |-> r.sequence, key |-> k] \in rows
        PROVE  k = r.key
    BY <1>2, <2>3 DEF WellFormed, Distinct
  <2>4. (CHOOSE k \in Keys : [session |-> s, sequence |-> r.sequence, key |-> k] \in rows)
          = r.key
    BY <2>2, <2>3
  <2>5. LogOf(rows, s)[r.sequence]
          = CHOOSE k \in Keys : [session |-> s, sequence |-> r.sequence, key |-> k] \in rows
    <3> HIDE DEF max
    <3>1. \A i \in 1 .. max : LogOf(rows, s)[i]
            = CHOOSE k \in Keys : [session |-> s, sequence |-> i, key |-> k] \in rows
      BY DEF LogOf, max
    <3>. QED  BY <2>1, <3>1
  <2>. QED  BY <2>1, <2>4, <2>5
<1>3. ASSUME NEW i \in 1 .. max
      PROVE  \E r \in rows : r.session = s /\ r.sequence = i /\ LogOf(rows, s)[i] = r.key
  <2>1. PICK r \in rows : r.session = s /\ r.sequence = i
    BY <1>1 DEF SequencesOf
  <2>. QED  BY <1>2, <2>1
<1>4. LogOf(rows, s) \in [1 .. max -> Keys]
  <2>1. \A i \in 1 .. max : LogOf(rows, s)[i] \in Keys
    BY <1>3 DEF Row
  <2> DEFINE entry(i) ==
        CHOOSE k \in Keys : [session |-> s, sequence |-> i, key |-> k] \in rows
  <2>2. LogOf(rows, s) = [i \in 1 .. max |-> entry(i)]
    BY DEF LogOf
  <2> HIDE DEF max, entry
  <2>. QED  BY <2>1, <2>2
<1>5. LogOf(rows, s) \in Seq(Keys) /\ Len(LogOf(rows, s)) = max
  <2> HIDE DEF max
  <2>. QED  BY <1>1, <1>4
<1>. QED  BY <1>1, <1>2, <1>3, <1>5

\* Rows of other sessions do not change a log.
LEMMA SameLog ==
  ASSUME NEW old \in SUBSET Row, NEW new \in SUBSET Row, old \subseteq new,
         WellFormed(old), WellFormed(new), NEW s \in SessionIds,
         \A r \in new \ old : r.session # s
  PROVE  LogOf(new, s) = LogOf(old, s)
<1>1. SequencesOf(new, s) = SequencesOf(old, s)
  BY DEF SequencesOf
<1>2. MaxSequence(new, s) = MaxSequence(old, s)
  BY <1>1 DEF MaxSequence
<1>3. /\ LogOf(old, s) \in Seq(Keys) /\ Len(LogOf(old, s)) = MaxSequence(old, s)
      /\ \A i \in 1 .. MaxSequence(old, s) :
           \E r \in old : r.session = s /\ r.sequence = i /\ LogOf(old, s)[i] = r.key
  BY LogEntries
<1>4. /\ LogOf(new, s) \in Seq(Keys) /\ Len(LogOf(new, s)) = MaxSequence(new, s)
      /\ \A r \in new : r.session = s => LogOf(new, s)[r.sequence] = r.key
  BY LogEntries
<1>5. \A i \in 1 .. Len(LogOf(old, s)) : LogOf(new, s)[i] = LogOf(old, s)[i]
  BY <1>3, <1>4
<1>. QED  BY <1>2, <1>3, <1>4, <1>5, SeqEqual

\* What a transaction adds to the log of its session is what its batch names
\* and the log lacked, each key once and in the order of the batch.
LEMMA CommittedLog ==
  ASSUME Inv, MeaningInv, NEW w \in Writers, pc[w] = "commit"
  PROVE  Abstract!AppendsMissing(LogOf(db.rows, req[w].session),
                                 LogOf(view[w].rows, req[w].session), req[w].batch)
<1> DEFINE s == req[w].session
           batch == req[w].batch
           old == LogOf(db.rows, s)
           new == LogOf(view[w].rows, s)
           oldMax == MaxSequence(db.rows, s)
           newMax == MaxSequence(view[w].rows, s)
<1>1. /\ ViewInv(w) /\ ProgressInv(w) /\ NewRowsInv(w)
      /\ WellFormed(db.rows) /\ db.rows \in SUBSET Row /\ view[w].rows \in SUBSET Row
      /\ s \in SessionIds /\ req[w] \in Request /\ batch \in Seq(Keys)
  BY InsideMeaning DEF Inv, TransactionInv, InTransaction, DbInv, TypeOK, Tables, Request
<1>2. /\ WellFormed(view[w].rows) /\ db.rows \subseteq view[w].rows
      /\ \A p \in 1 .. Len(batch) : batch[p] \in KeysOf(view[w].rows, s)
  <2>1. Stored(view[w].rows, req[w], Len(batch) + 1)
    BY <1>1 DEF ProgressInv
  <2>2. \A p \in 1 .. Len(batch) : p \in DOMAIN batch /\ p < Len(batch) + 1
    BY <1>1
  <2>. QED  BY <1>1, <2>1, <2>2 DEF ViewInv, Stored
<1>3. /\ oldMax \in Nat /\ old \in Seq(Keys) /\ Len(old) = oldMax
      /\ \A r \in db.rows : r.session = s =>
           r.sequence \in 1 .. oldMax /\ old[r.sequence] = r.key
      /\ \A i \in 1 .. oldMax :
           \E r \in db.rows : r.session = s /\ r.sequence = i /\ old[i] = r.key
  <2> HIDE DEF s, batch
  <2>. QED  BY <1>1, LogEntries
<1>4. /\ newMax \in Nat /\ new \in Seq(Keys) /\ Len(new) = newMax
      /\ \A r \in view[w].rows : r.session = s =>
           r.sequence \in 1 .. newMax /\ new[r.sequence] = r.key
      /\ \A i \in 1 .. newMax :
           \E r \in view[w].rows : r.session = s /\ r.sequence = i /\ new[i] = r.key
  <2> HIDE DEF s, batch
  <2>. QED  BY <1>1, <1>2, LogEntries
<1>5. oldMax <= newMax
  BY <1>1, <1>2, MaxMonotone DEF WellFormed
<1> HIDE DEF old, new, oldMax, newMax, s, batch
<1>6. ASSUME NEW i \in 1 .. oldMax
      PROVE  new[i] = old[i]
  BY <1>2, <1>3, <1>4
<1>7. ASSUME NEW i \in 1 .. newMax, NEW j \in 1 .. newMax, new[i] = new[j]
      PROVE  i = j
  BY <1>2, <1>4, <1>7 DEF WellFormed, Distinct
<1>8. ASSUME NEW p \in 1 .. Len(batch)
      PROVE  \E i \in 1 .. newMax : new[i] = batch[p]
  BY <1>2, <1>4 DEF KeysOf
<1>9. ASSUME NEW i \in oldMax + 1 .. newMax
      PROVE  \E p \in 1 .. Len(batch) :
               /\ batch[p] = new[i]
               /\ \A j \in i + 1 .. newMax, q \in 1 .. p : batch[q] # new[j]
  <2>1. i \in 1 .. newMax /\ i \notin 1 .. oldMax
    BY <1>3, <1>4
  <2>2. PICK r \in view[w].rows : r.session = s /\ r.sequence = i /\ new[i] = r.key
    BY <1>4, <2>1
  <2>3. r \notin db.rows
    BY <1>3, <2>1, <2>2
  <2>4. PICK p \in 1 .. Len(batch) : Follows(r, view[w].rows, req[w], p)
    BY <1>1, <2>2, <2>3 DEF NewRowsInv, batch
  <2>5. batch[p] = new[i]
    BY <2>2, <2>4 DEF Follows, batch
  <2>6. ASSUME NEW j \in i + 1 .. newMax, NEW q \in 1 .. p
        PROVE  batch[q] # new[j]
    <3>1. j \in 1 .. newMax /\ j > i
      BY <1>4, <2>1
    <3>2. PICK t \in view[w].rows : t.session = s /\ t.sequence = j /\ new[j] = t.key
      BY <1>4, <3>1
    <3>. QED  BY <2>2, <2>4, <3>1, <3>2 DEF Follows, batch, s
  <2>. QED  BY <2>5, <2>6
<1>10. Abstract!AppendsMissing(old, new, batch)
  BY <1>3, <1>4, <1>5, <1>6, <1>7, <1>8, <1>9 DEF Abstract!AppendsMissing
<1>. QED  BY <1>10 DEF old, new, batch, s

-----------------------------------------------------------------------------
(* The refinement.                                                         *)

\* A commit is the abstract call: the batch of the call is appended to the
\* log of its session, and an import adds its session and link.
LEMMA CommitRefines ==
  ASSUME Inv, MeaningInv, NEW w \in Writers, Commit(w)
  PROVE  Abstract!Next
<1> DEFINE s == req[w].session
           batch == req[w].batch
           x == req[w].external
           log == [t \in SessionIds |-> LogOf(db.rows, t)]
           newLog == [t \in SessionIds |-> LogOf(db'.rows, t)]
<1>1. /\ pc[w] = "commit" /\ pc[w] \in InTransaction /\ db' = view[w]
      /\ s \in SessionIds /\ x \in Externals \cup {NoExternal}
  BY DEF Commit, InTransaction, Inv, TypeOK, Request
<1>2. /\ ViewMeaning(w) /\ batch \in Batches
      /\ x = NoExternal => ~ req[w].creates
      /\ ~ req[w].creates => s \in db.sessions
  BY <1>1, InsideMeaning
<1>3. Abstract!AppendsMissing(LogOf(db.rows, s), LogOf(db'.rows, s), batch)
  BY <1>1, CommittedLog
<1>4. ASSUME NEW t \in SessionIds, t # s
      PROVE  LogOf(db'.rows, t) = LogOf(db.rows, t)
  <2>1. /\ db.rows \in SUBSET Row /\ view[w].rows \in SUBSET Row
        /\ WellFormed(db.rows) /\ ViewInv(w)
    BY <1>1 DEF Inv, TransactionInv, DbInv, TypeOK, Tables
  <2>2. \A r \in view[w].rows \ db.rows : r.session # t
    BY <1>4, <2>1 DEF ViewInv
  <2>. QED  BY <1>1, <2>1, <2>2, SameLog DEF ViewInv
<1>5. newLog = [log EXCEPT ![s] = newLog[s]]
  BY <1>4
<1>6. Abstract!AppendBatch(s, batch)
  BY <1>1, <1>3, <1>5 DEF Abstract!AppendBatch
<1>7. CASE x = NoExternal
  <2>1. db'.sessions = db.sessions /\ db'.links = db.links /\ s \in db.sessions
    BY <1>1, <1>2, <1>7 DEF ViewMeaning
  <2>2. Abstract!AppendEvents(s, batch)
    BY <1>6, <2>1 DEF Abstract!AppendEvents
  <2>. QED  BY <1>1, <1>2, <2>2 DEF Abstract!Next
<1>8. CASE x # NoExternal
  <2>1. /\ db'.sessions = db.sessions \cup {s}
        /\ db'.links = db.links \cup {NewLink(w)}
        /\ LinkAllowed(db.links, s, x) /\ x \in Externals
    BY <1>1, <1>2, <1>8 DEF ViewMeaning
  <2>2. Abstract!Owned(s, x) /\ Abstract!AddLink(s, x)
    BY <2>1 DEF Abstract!Owned, Abstract!AddLink, LinkAllowed, NewLink
  <2>3. Abstract!ImportBundle(s, batch, x)
    BY <1>6, <2>1, <2>2 DEF Abstract!ImportBundle
  <2>. QED  BY <1>1, <1>2, <2>1, <2>3 DEF Abstract!Next
<1>. QED  BY <1>7, <1>8

\* The two autocommitted statements are calls of their own.
LEMMA AutocommitRefines ==
  ASSUME Inv, NEW w \in Writers, NEW s \in SessionIds,
         CreateSession(w, s) \/ \E x \in Externals : LinkExternalSession(w, s, x)
  PROVE  Abstract!Next
<1> USE DEF Inv, TypeOK
<1>1. CASE CreateSession(w, s)
  <2>1. /\ s \notin db.sessions /\ db'.sessions = db.sessions \cup {s}
        /\ db'.rows = db.rows /\ db'.links = db.links
    BY <1>1 DEF CreateSession, Tables
  <2>2. Abstract!CreateSession(s)
    BY <2>1 DEF Abstract!CreateSession
  <2>. QED  BY <2>2 DEF Abstract!Next
<1>2. ASSUME NEW x \in Externals, LinkExternalSession(w, s, x)
      PROVE  Abstract!Next
  <2>1. /\ s \in db.sessions /\ db'.sessions = db.sessions /\ db'.rows = db.rows
        /\ db'.links = db.links \cup {[session |-> s, external |-> x]}
        /\ LinkAllowed(db.links, s, x)
    BY <1>2 DEF LinkExternalSession, Tables
  <2>2. Abstract!LinkExternalSession(s, x)
    BY <2>1 DEF Abstract!LinkExternalSession, Abstract!Owned, Abstract!AddLink, LinkAllowed
  <2>. QED  BY <2>2 DEF Abstract!Next
<1>. QED  BY <1>1, <1>2

\* Every step of the store is an abstract call or is not seen.
LEMMA StepRefines ==
  ASSUME Inv, MeaningInv, [Next]_vars
  PROVE  [Abstract!Next]_(Abstract!vars)
<1>1. ASSUME NEW w \in Writers,
             \/ CallAppend(w) \/ CallImport(w) \/ Rollback(w) \/ Crash(w)
             \/ Statement(w) /\ ~ Commit(w)
      PROVE  UNCHANGED db
  BY <1>1 DEF CallAppend, CallImport, Call, Rollback, Crash, Discard, Statement, Begin,
              BusyTimeout, InsertSession, ReadMaxSequence, InsertEvent, BatchDone,
              UpsertLink, LinkConflict
<1>2. CASE UNCHANGED vars
  BY <1>2 DEF vars, Abstract!vars
<1>3. UNCHANGED db => UNCHANGED Abstract!vars
  BY DEF Abstract!vars
<1>. QED  BY <1>1, <1>2, <1>3, CommitRefines, AutocommitRefines DEF Next

\* Empty tables are empty logs.
LEMMA InitRefines == Init => Abstract!Init
<1> SUFFICES ASSUME Init PROVE Abstract!Init
  OBVIOUS
<1>1. db.rows = {} /\ db.sessions = {} /\ db.links = {}
  BY DEF Init, EmptyTables
<1>2. ASSUME NEW s \in SessionIds
      PROVE  LogOf(db.rows, s) = <<>>
  <2>1. WellFormed({}) /\ SequencesOf({}, s) = {}
    BY EmptyWellFormed DEF SequencesOf
  <2>2. MaxSequence({}, s) = 0
    BY <2>1 DEF MaxSequence
  <2>3. LogOf({}, s) \in Seq(Keys) /\ Len(LogOf({}, s)) = 0
    BY <2>1, <2>2, LogEntries
  <2>. QED  BY <1>1, <2>3, EmptySeq
<1>. QED  BY <1>1, <1>2 DEF Abstract!Init

\* The store, statement by statement and with a rollback, a timeout or a crash
\* at any of them, does what one atomic call after the other would do: each
\* append_events and import_session_bundle either appends exactly its missing
\* events, in batch order, or nothing.
THEOREM StoreImplementsContextLog == Spec => ImplementsContextLog
<1>1. Init => Abstract!Init
  BY InitRefines
<1>2. Inv /\ MeaningInv /\ [Next]_vars => [Abstract!Next]_(Abstract!vars)
  BY StepRefines
<1>. QED
  BY <1>1, <1>2, Invariance, ViewsMeanTheirCalls, PTL
     DEF Spec, ImplementsContextLog, Abstract!Spec
=============================================================================
