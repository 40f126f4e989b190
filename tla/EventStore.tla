----------------------------- MODULE EventStore -----------------------------
(***************************************************************************)
(* The SQLite store shared by every cb process (crates/cb-storage).        *)
(*                                                                         *)
(* A writer is one asynchronous call into the store: two writers are two   *)
(* tasks on one pool or two processes on one database file.  append_events *)
(* and import_session_bundle are multi-statement BEGIN IMMEDIATE           *)
(* transactions and take one step per statement; create_session and        *)
(* link_external_session are single autocommitted statements.              *)
(*                                                                         *)
(* Columns that no property tells apart (timestamps, payload, hash, title, *)
(* status, source path, parser version) are left out.  An external session *)
(* stands for the pair (agent, external_session_id).                       *)
(***************************************************************************)
EXTENDS Integers, Sequences

CONSTANTS
  RunIds,      \* bridge session ids minted by cb run
  ImportIds,   \* bridge session ids minted by cb import
  Externals,   \* external sessions of the agents
  Keys,        \* import keys
  Writers,     \* concurrent calls into the store
  Batches,     \* the batches of import keys a caller may pass
  NoWriter,    \* nobody holds the writer reservation
  NoExternal   \* the call stores no link

SessionIds == RunIds \cup ImportIds

ASSUME IdsDisjoint == RunIds \cap ImportIds = {} /\ SessionIds # {}
ASSUME BatchesAreSequences == Batches \subseteq Seq(Keys)
ASSUME NoWriterIsNotAWriter == NoWriter \notin Writers
ASSUME NoExternalIsNotExternal == NoExternal \notin Externals

VARIABLES
  db,        \* the committed tables: sessions, rows of context_events, links
  lock,      \* holder of SQLite's writer reservation
  pc,        \* next statement of each writer
  req,       \* arguments of the current (or last) call of each writer
  view,      \* the tables as the writer's own transaction sees them
  sequence,  \* the local variable of the same name
  at,        \* index of the next event of the batch
  inserted,  \* rows the call reports as inserted
  succeeded  \* the writer's last call returned Ok

vars == <<db, lock, pc, req, view, sequence, at, inserted, succeeded>>
locals == <<view, sequence, at>>

Row  == [session : SessionIds, sequence : Nat, key : Keys]
Link == [session : SessionIds, external : Externals]
Tables == [sessions : SUBSET SessionIds, rows : SUBSET Row, links : SUBSET Link]

\* `creates` is new_session.is_some(); an append has external = NoExternal.
Request == [session  : SessionIds, batch : Seq(Keys), creates : BOOLEAN,
            external : Externals \cup {NoExternal}]

InTransaction == {"create", "max", "insert", "link", "commit"}
Steps == {"idle", "begin"} \cup InTransaction

-----------------------------------------------------------------------------
(* Constraints of the schema and the queries of the two transactions.      *)

SequencesOf(rows, s) == {r.sequence : r \in {q \in rows : q.session = s}}
KeysOf(rows, s)      == {r.key : r \in {q \in rows : q.session = s}}

\* SELECT COALESCE(MAX(sequence), 0) FROM context_events WHERE session = s
MaxSequence(rows, s) ==
  LET S == SequencesOf(rows, s)
  IN  IF S = {} THEN 0 ELSE CHOOSE m \in S : \A n \in S : n <= m

\* INSERT OR IGNORE inserts unless UNIQUE(session, sequence) or
\* UNIQUE(session, import_key) already has the row's value.
Accepts(rows, row) ==
  \A r \in rows : r.session = row.session =>
                    r.sequence # row.sequence /\ r.key # row.key

\* UNIQUE(agent, external_session_id) against the upsert's own primary key.
LinkAllowed(links, s, x) == \A l \in links : l.external = x => l.session = s

\* The session an external session is linked to (session_for_external).
LinkedTo(links, x) == {l.session : l \in {k \in links : k.external = x}}

EmptyTables == [sessions |-> {}, rows |-> {}, links |-> {}]

\* An id no other call has minted: ids are random UUIDs.
Fresh(s) == /\ s \notin db.sessions
            /\ \A v \in Writers : pc[v] # "idle" => req[v].session # s

NoCall == [session |-> CHOOSE s \in SessionIds : TRUE, batch |-> <<>>,
           creates |-> FALSE, external |-> NoExternal]

Init ==
  /\ db = EmptyTables
  /\ lock = NoWriter
  /\ pc = [w \in Writers |-> "idle"]
  /\ req = [w \in Writers |-> NoCall]
  /\ view = [w \in Writers |-> EmptyTables]
  /\ sequence = [w \in Writers |-> 0]
  /\ at = [w \in Writers |-> 1]
  /\ inserted = [w \in Writers |-> {}]
  /\ succeeded = [w \in Writers |-> FALSE]

-----------------------------------------------------------------------------
(* Single-statement writes.  They wait for the reservation like any write. *)

\* cb run creates its session row.
CreateSession(w, s) ==
  /\ pc[w] = "idle" /\ lock = NoWriter
  /\ s \in RunIds \ db.sessions
  /\ db' = [db EXCEPT !.sessions = @ \cup {s}]
  /\ UNCHANGED <<lock, pc, req, locals, inserted, succeeded>>

\* cb run and cb continue store the link an adapter returned; the statement
\* fails, changing nothing, when the external session has another owner.
LinkExternalSession(w, s, x) ==
  /\ pc[w] = "idle" /\ lock = NoWriter
  /\ s \in db.sessions
  /\ LinkAllowed(db.links, s, x)
  /\ db' = [db EXCEPT !.links = @ \cup {[session |-> s, external |-> x]}]
  /\ UNCHANGED <<lock, pc, req, locals, inserted, succeeded>>

-----------------------------------------------------------------------------
(* Calls.  append_events is called for a session id the caller holds;      *)
(* import first looks the external session up and then, in a later step,   *)
(* stores the bundle for the session it found or for a new one.            *)

Call(w, request) ==
  /\ pc[w] = "idle"
  /\ pc' = [pc EXCEPT ![w] = "begin"]
  /\ req' = [req EXCEPT ![w] = request]
  /\ inserted' = [inserted EXCEPT ![w] = {}]
  /\ succeeded' = [succeeded EXCEPT ![w] = FALSE]
  /\ UNCHANGED <<db, lock, locals>>

CallAppend(w) ==
  \E s \in db.sessions, b \in Batches :
    Call(w, [session |-> s, batch |-> b, creates |-> FALSE, external |-> NoExternal])

CallImport(w) ==
  \E x \in Externals, b \in Batches, s \in SessionIds :
    LET found == LinkedTo(db.links, x) IN
    /\ IF found = {} THEN s \in ImportIds /\ Fresh(s) ELSE s \in found
    /\ Call(w, [session |-> s, batch |-> b, creates |-> found = {}, external |-> x])

-----------------------------------------------------------------------------
(* The transaction.                                                        *)

\* Fault: a plain BEGIN, which reserves the writer only at the first write.
BeginDeferred(w) ==
  /\ pc[w] = "begin"
  /\ lock' = w
  /\ view' = [view EXCEPT ![w] = db]
  /\ pc' = [pc EXCEPT ![w] = IF req[w].creates THEN "create" ELSE "max"]
  /\ UNCHANGED <<db, req, sequence, at, inserted, succeeded>>

\* BEGIN IMMEDIATE: the reservation is taken before anything is read.
Begin(w) ==
  /\ pc[w] = "begin" /\ lock = NoWriter
  /\ lock' = w
  /\ view' = [view EXCEPT ![w] = db]
  /\ pc' = [pc EXCEPT ![w] = IF req[w].creates THEN "create" ELSE "max"]
  /\ UNCHANGED <<db, req, sequence, at, inserted, succeeded>>

\* Fault: the session row is inserted through the pool, not the transaction.
InsertSessionOutside(w) ==
  /\ pc[w] = "create"
  /\ db' = [db EXCEPT !.sessions = @ \cup {req[w].session}]
  /\ view' = [view EXCEPT ![w].sessions = @ \cup {req[w].session}]
  /\ pc' = [pc EXCEPT ![w] = "max"]
  /\ UNCHANGED <<lock, req, sequence, at, inserted, succeeded>>

InsertSession(w) ==
  /\ pc[w] = "create" /\ req[w].session \notin view[w].sessions
  /\ view' = [view EXCEPT ![w].sessions = @ \cup {req[w].session}]
  /\ pc' = [pc EXCEPT ![w] = "max"]
  /\ UNCHANGED <<db, lock, req, sequence, at, inserted, succeeded>>

\* Fault: the counter starts one too low, as if the loop bound it before
\* incrementing it.
ReadMaxSequenceLow(w) ==
  /\ pc[w] = "max"
  /\ LET m == MaxSequence(view[w].rows, req[w].session)
     IN  sequence' = [sequence EXCEPT ![w] = IF m = 0 THEN 0 ELSE m - 1]
  /\ at' = [at EXCEPT ![w] = 1]
  /\ pc' = [pc EXCEPT ![w] = "insert"]
  /\ UNCHANGED <<db, lock, req, view, inserted, succeeded>>

ReadMaxSequence(w) ==
  /\ pc[w] = "max"
  /\ sequence' = [sequence EXCEPT ![w] = MaxSequence(view[w].rows, req[w].session)]
  /\ at' = [at EXCEPT ![w] = 1]
  /\ pc' = [pc EXCEPT ![w] = "insert"]
  /\ UNCHANGED <<db, lock, req, view, inserted, succeeded>>

\* The row the loop offers next, numbered one above the last accepted one.
Candidate(w) == [session  |-> req[w].session, sequence |-> sequence[w] + 1,
                 key      |-> req[w].batch[at[w]]]

\* The loop body when an ignored row leaves the counter `change` away.
OfferEvent(w, change) ==
  /\ pc[w] = "insert" /\ at[w] <= Len(req[w].batch)
  /\ req[w].session \in view[w].sessions
  /\ at' = [at EXCEPT ![w] = @ + 1]
  /\ IF Accepts(view[w].rows, Candidate(w))
     THEN /\ view' = [view EXCEPT ![w].rows = @ \cup {Candidate(w)}]
          /\ sequence' = [sequence EXCEPT ![w] = @ + 1]
          /\ inserted' = [inserted EXCEPT ![w] = @ \cup {Candidate(w)}]
     ELSE /\ sequence' = [sequence EXCEPT ![w] = @ + change]
          /\ UNCHANGED <<view, inserted>>
  /\ UNCHANGED <<db, lock, pc, req, succeeded>>

\* Faults: the number of an ignored row is never given back, or twice.
InsertEventKeepingNumber(w) == OfferEvent(w, 1)
InsertEventReturningTwice(w) == OfferEvent(w, -1)

\* An accepted row advances the sequence; an ignored one gives it back.
InsertEvent(w) ==
  /\ pc[w] = "insert" /\ at[w] <= Len(req[w].batch)
  /\ req[w].session \in view[w].sessions
  /\ at' = [at EXCEPT ![w] = @ + 1]
  /\ IF Accepts(view[w].rows, Candidate(w))
     THEN /\ view' = [view EXCEPT ![w].rows = @ \cup {Candidate(w)}]
          /\ sequence' = [sequence EXCEPT ![w] = @ + 1]
          /\ inserted' = [inserted EXCEPT ![w] = @ \cup {Candidate(w)}]
     ELSE UNCHANGED <<view, sequence, inserted>>
  /\ UNCHANGED <<db, lock, pc, req, succeeded>>

BatchDone(w) ==
  /\ pc[w] = "insert" /\ at[w] > Len(req[w].batch)
  /\ pc' = [pc EXCEPT ![w] = IF req[w].external = NoExternal THEN "commit" ELSE "link"]
  /\ UNCHANGED <<db, lock, req, locals, inserted, succeeded>>

\* Fault: a schema without UNIQUE(agent, external_session_id).
UpsertLinkUnchecked(w) ==
  /\ pc[w] = "link"
  /\ view' = [view EXCEPT ![w].links =
                @ \cup {[session |-> req[w].session, external |-> req[w].external]}]
  /\ pc' = [pc EXCEPT ![w] = "commit"]
  /\ UNCHANGED <<db, lock, req, sequence, at, inserted, succeeded>>

UpsertLink(w) ==
  /\ pc[w] = "link"
  /\ LinkAllowed(view[w].links, req[w].session, req[w].external)
  /\ view' = [view EXCEPT ![w].links =
                @ \cup {[session |-> req[w].session, external |-> req[w].external]}]
  /\ pc' = [pc EXCEPT ![w] = "commit"]
  /\ UNCHANGED <<db, lock, req, sequence, at, inserted, succeeded>>

\* The end of a call frees the reservation and drops the call's locals.
End(w) ==
  /\ lock' = IF lock = w THEN NoWriter ELSE lock
  /\ pc' = [pc EXCEPT ![w] = "idle"]
  /\ view' = [view EXCEPT ![w] = EmptyTables]
  /\ sequence' = [sequence EXCEPT ![w] = 0]
  /\ at' = [at EXCEPT ![w] = 1]

Commit(w) ==
  /\ pc[w] = "commit"
  /\ End(w)
  /\ db' = view[w]
  /\ succeeded' = [succeeded EXCEPT ![w] = TRUE]
  /\ UNCHANGED <<req, inserted>>

\* Fault: a failed call keeps its connection, and with it the reservation.
DiscardHoldingLock(w) ==
  /\ pc' = [pc EXCEPT ![w] = "idle"]
  /\ req' = [req EXCEPT ![w] = NoCall]
  /\ view' = [view EXCEPT ![w] = EmptyTables]
  /\ sequence' = [sequence EXCEPT ![w] = 0]
  /\ at' = [at EXCEPT ![w] = 1]
  /\ inserted' = [inserted EXCEPT ![w] = {}]
  /\ UNCHANGED <<db, lock, succeeded>>

\* The call ends without success and SQLite discards what it wrote.
Discard(w) ==
  /\ End(w)
  /\ req' = [req EXCEPT ![w] = NoCall]
  /\ inserted' = [inserted EXCEPT ![w] = {}]
  /\ UNCHANGED <<db, succeeded>>

\* BEGIN IMMEDIATE fails with SQLITE_BUSY once busy_timeout has passed.
BusyTimeout(w) ==
  /\ pc[w] = "begin" /\ lock # NoWriter
  /\ Discard(w)

\* A statement returns an error; the dropped transaction rolls back.
Rollback(w) == pc[w] \in InTransaction /\ Discard(w)

LinkConflict(w) ==
  /\ pc[w] = "link"
  /\ ~ LinkAllowed(view[w].links, req[w].session, req[w].external)
  /\ Rollback(w)

\* The process dies; SQLite discards the uncommitted transaction.
Crash(w) == pc[w] # "idle" /\ Discard(w)

\* The statements a running writer is bound to execute.
Statement(w) ==
  \/ Begin(w) \/ BusyTimeout(w) \/ InsertSession(w) \/ ReadMaxSequence(w)
  \/ InsertEvent(w) \/ BatchDone(w) \/ UpsertLink(w) \/ LinkConflict(w)
  \/ Commit(w)

Next ==
  \E w \in Writers :
    \/ \E s \in SessionIds : CreateSession(w, s)
    \/ \E s \in SessionIds, x \in Externals : LinkExternalSession(w, s, x)
    \/ CallAppend(w) \/ CallImport(w)
    \/ Statement(w) \/ Rollback(w) \/ Crash(w)

Spec == Init /\ [][Next]_vars

\* Every started call keeps being executed: the runtime polls it, and the
\* busy handler gives up after busy_timeout.
FairSpec == Spec /\ \A w \in Writers : WF_vars(Statement(w))

-----------------------------------------------------------------------------
TypeOK ==
  /\ db \in Tables
  /\ lock \in Writers \cup {NoWriter}
  /\ pc \in [Writers -> Steps]
  /\ req \in [Writers -> Request]
  /\ view \in [Writers -> Tables]
  /\ sequence \in [Writers -> Nat]
  /\ at \in [Writers -> Nat \ {0}]
  /\ inserted \in [Writers -> SUBSET Row]
  /\ succeeded \in [Writers -> BOOLEAN]

\* The committed events of a session are numbered 1, 2, ..., n without a gap
\* or a repetition, whatever interleaving of appends and imports, rollbacks
\* and crashes produced them.
GapFree ==
  \A s \in SessionIds :
    /\ SequencesOf(db.rows, s) = 1 .. MaxSequence(db.rows, s)
    /\ \A q, r \in db.rows :
         q.session = s /\ r.session = s /\ q.sequence = r.sequence => q = r

\* A call that reported success stored every event it was given: INSERT OR
\* IGNORE dropped a row only because its import key was already stored, never
\* because its sequence number was taken.  What it reports as inserted is
\* stored, under the number it reports, and so is the link it was given.
SuccessIsDurable ==
  \A w \in Writers : succeeded[w] =>
    /\ \A i \in DOMAIN req[w].batch :
         req[w].batch[i] \in KeysOf(db.rows, req[w].session)
    /\ inserted[w] \subseteq db.rows
    /\ req[w].external # NoExternal =>
         LinkedTo(db.links, req[w].external) = {req[w].session}

\* An import that fails or dies half way leaves nothing: a session minted by
\* cb import never exists without the link that makes it reachable again, and
\* two imports of one external session never leave two sessions behind.
ImportIsAtomic ==
  \A s \in db.sessions \cap ImportIds :
    \E l \in db.links :
      l.session = s /\ \A k \in db.links : k.external = l.external => k.session = s

\* History is immutable: no committed event changes or disappears, and every
\* event committed later is numbered above all those a reader could have seen.
AppendOnly ==
  [][/\ db.rows \subseteq db'.rows
     /\ \A r \in db'.rows \ db.rows : r.sequence > MaxSequence(db.rows, r.session)
    ]_db

\* The log of a session as its readers see it: the keys in sequence order.
LogOf(rows, s) ==
  [i \in 1 .. MaxSequence(rows, s) |->
     CHOOSE k \in Keys : [session |-> s, sequence |-> i, key |-> k] \in rows]

Abstract == INSTANCE ContextLog WITH
  sessions <- db.sessions,
  log      <- [s \in SessionIds |-> LogOf(db.rows, s)],
  links    <- db.links

\* Statement by statement, with failures at every one of them, the store
\* behaves as if each call appended its missing events in one atomic step.
ImplementsContextLog == Abstract!Spec

\* Nobody keeps the writer reservation: every transaction ends, so a waiting
\* call is not locked out for good by one that failed.
ReservationIsReleased == (lock # NoWriter) ~> (lock = NoWriter)
=============================================================================
