----------------------------- MODULE ContextLog -----------------------------
(***************************************************************************)
(* What the store promises its callers: every bridge session is one        *)
(* append-only log of distinct import keys, every external session belongs *)
(* to at most one bridge session, and a call either happens as a whole or  *)
(* not at all.  EventStore implements this specification.                  *)
(***************************************************************************)
EXTENDS Integers, Sequences

CONSTANTS SessionIds, Externals, Keys, Batches

VARIABLES
  sessions,  \* the bridge sessions that exist
  log,       \* the import keys of each session's events, in sequence order
  links      \* external sessions and the bridge session each belongs to

vars == <<sessions, log, links>>

Init ==
  /\ sessions = {}
  /\ log = [s \in SessionIds |-> <<>>]
  /\ links = {}

\* new is old followed by the keys of the batch that old lacks, each once,
\* in the order in which the batch first names them.
AppendsMissing(old, new, batch) ==
  /\ Len(old) <= Len(new) /\ \A i \in 1 .. Len(old) : new[i] = old[i]
  /\ \A i, j \in 1 .. Len(new) : new[i] = new[j] => i = j
  /\ \A p \in 1 .. Len(batch) : \E i \in 1 .. Len(new) : new[i] = batch[p]
  /\ \A i \in Len(old) + 1 .. Len(new) :
       \E p \in 1 .. Len(batch) :
         /\ batch[p] = new[i]
         /\ \A j \in i + 1 .. Len(new), q \in 1 .. p : batch[q] # new[j]

Owned(s, x) == \A l \in links : l.external = x => l.session = s

AddLink(s, x) == links' = links \cup {[session |-> s, external |-> x]}

AppendBatch(s, batch) ==
  /\ log' = [log EXCEPT ![s] = log'[s]]
  /\ AppendsMissing(log[s], log'[s], batch)

\* cb run creates a session.
CreateSession(s) ==
  /\ s \notin sessions
  /\ sessions' = sessions \cup {s}
  /\ UNCHANGED <<log, links>>

\* append_events as one step.
AppendEvents(s, batch) ==
  /\ s \in sessions
  /\ AppendBatch(s, batch)
  /\ UNCHANGED <<sessions, links>>

\* link_external_session.
LinkExternalSession(s, x) ==
  /\ s \in sessions /\ Owned(s, x)
  /\ AddLink(s, x)
  /\ UNCHANGED <<sessions, log>>

\* import_session_bundle as one step: the session, its events and its link.
ImportBundle(s, batch, x) ==
  /\ Owned(s, x)
  /\ sessions' = sessions \cup {s}
  /\ AppendBatch(s, batch)
  /\ AddLink(s, x)

Next ==
  \E s \in SessionIds :
    \/ CreateSession(s)
    \/ \E b \in Batches : AppendEvents(s, b)
    \/ \E x \in Externals : LinkExternalSession(s, x) \/ \E b \in Batches : ImportBundle(s, b, x)

Spec == Init /\ [][Next]_vars
=============================================================================
