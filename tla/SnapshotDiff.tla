---------------------------- MODULE SnapshotDiff ----------------------------
(***************************************************************************)
(* diff_snapshots (crates/cb-project/src/diff.rs): the file changes that   *)
(* append_reconciliation records from the snapshots before and after an    *)
(* agent's run.  A snapshot maps the paths that exist to their metadata;   *)
(* paths are numbered in their sort order.                                 *)
(***************************************************************************)
EXTENDS Integers, Sequences, SequencesExt, FiniteSetsExt

CONSTANTS MaxPath, Metadata, HashOf, NoHash

ASSUME MaxPathNat == MaxPath \in Nat
ASSUME HashEach == DOMAIN HashOf = Metadata  \* NoHash for a file too long to hash

Paths == 1 .. MaxPath
Snapshots == UNION {[P -> Metadata] : P \in SUBSET Paths}

VARIABLES before, after, phase, created, deleted, moved, changes

vars == <<before, after, phase, created, deleted, moved, changes>>

\* The paths of S in their order.
Ascending(S) ==
  CHOOSE s \in [1 .. Cardinality(S) -> S] :
    /\ \A i, j \in DOMAIN s : i < j => s[i] < s[j]
    /\ \A p \in S : \E i \in DOMAIN s : s[i] = p

Change(kind, path, from) == [kind |-> kind, path |-> path, from |-> from]

Init ==
  /\ before \in Snapshots /\ after \in Snapshots
  /\ phase = "pair"
  /\ created = Ascending(DOMAIN after \ DOMAIN before)
  /\ deleted = DOMAIN before \ DOMAIN after
  /\ moved = <<>>
  /\ changes = {}

SameContent(d, c) == HashOf[before[d]] # NoHash /\ HashOf[after[c]] = HashOf[before[d]]

Matches(d) == {i \in DOMAIN created : SameContent(d, created[i])}

\* Each deleted file is paired with the first created one of its content,
\* whose index in created is remembered.
PairMoves ==
  /\ phase = "pair"
  /\ LET paired == Ascending({d \in deleted : Matches(d) # {}})
     IN  moved' = [k \in DOMAIN paired |->
                     LET i == Min(Matches(paired[k]))
                     IN  [from |-> paired[k], index |-> i, path |-> created[i]]]
  /\ phase' = "move"
  /\ UNCHANGED <<before, after, created, deleted, changes>>

\* Fault: a move leaves its origin among the deleted files.
ApplyMoveKeepingOrigin ==
  LET m == Last(moved) IN
  /\ phase = "move" /\ moved # <<>>
  /\ moved' = Front(moved)
  /\ IF m.index > Len(created)
     THEN phase' = "panicked" /\ UNCHANGED <<created, deleted, changes>>
     ELSE /\ created' = RemoveAt(created, m.index)
          /\ changes' = changes \cup {Change("moved", m.path, m.from)}
          /\ UNCHANGED <<phase, deleted>>
  /\ UNCHANGED <<before, after>>

\* Fault: the moves are applied from the first to the last.
ApplyMoveInOrder ==
  LET m == Head(moved) IN
  /\ phase = "move" /\ moved # <<>>
  /\ moved' = Tail(moved)
  /\ IF m.index > Len(created)
     THEN phase' = "panicked" /\ UNCHANGED <<created, deleted, changes>>
     ELSE /\ created' = RemoveAt(created, m.index)
          /\ deleted' = deleted \ {m.from}
          /\ changes' = changes \cup {Change("moved", m.path, m.from)}
          /\ UNCHANGED phase
  /\ UNCHANGED <<before, after>>

\* From the last move to the first, the remembered index is removed from
\* created; Vec::remove panics when it is out of bounds.
ApplyMove ==
  LET m == Last(moved) IN
  /\ phase = "move" /\ moved # <<>>
  /\ moved' = Front(moved)
  /\ IF m.index > Len(created)
     THEN phase' = "panicked" /\ UNCHANGED <<created, deleted, changes>>
     ELSE /\ created' = RemoveAt(created, m.index)
          /\ deleted' = deleted \ {m.from}
          /\ changes' = changes \cup {Change("moved", m.path, m.from)}
          /\ UNCHANGED phase
  /\ UNCHANGED <<before, after>>

\* What is left was created or deleted; a path in both snapshots was modified
\* when any of its metadata differs.
Collect ==
  /\ phase = "move" /\ moved = <<>>
  /\ changes' = changes
       \cup {Change("created", created[i], 0) : i \in DOMAIN created}
       \cup {Change("deleted", d, 0) : d \in deleted}
       \cup {Change("modified", p, 0) :
               p \in {q \in DOMAIN before \cap DOMAIN after : before[q] # after[q]}}
  /\ phase' = "done"
  /\ UNCHANGED <<before, after, created, deleted, moved>>

Next == PairMoves \/ ApplyMove \/ Collect

Spec == Init /\ [][Next]_vars

-----------------------------------------------------------------------------
Kind(kind) == {c \in changes : c.kind = kind}
Appeared == DOMAIN after \ DOMAIN before
Vanished == DOMAIN before \ DOMAIN after

\* The reference: a delta is always returned, and it reports every file that
\* appeared by exactly one change, as created or as the destination of a move.
CreationsAccounted ==
  /\ phase # "panicked"
  /\ phase = "done" =>
       \A p \in Appeared : Cardinality({c \in changes : c.path = p}) = 1

\* Every file that vanished is reported exactly once, as deleted or as the
\* origin of a move, and a move joins files of one content: whatever the
\* stale indices remove from created, no deletion is lost or invented.
DeletionsAccounted ==
  phase = "done" =>
    \A p \in Paths :
      LET told == {c \in changes : c.kind = "deleted" /\ c.path = p}
                  \cup {c \in Kind("moved") : c.from = p}
      IN  /\ Cardinality(told) = IF p \in Vanished THEN 1 ELSE 0
          /\ \A c \in told : c.kind = "moved" => SameContent(p, c.path)

\* The renames a snapshot pair shows are in order when distinct files were
\* renamed and kept their relative order.
OrderedRenames ==
  \A d, e \in Vanished, c, b \in Appeared :
    SameContent(d, c) /\ SameContent(e, b) => (d < e <=> c < b)

\* With ordered renames the indices stay valid and the delta is exact: it
\* turns the paths of one snapshot into those of the other, each told once.
ExactForOrderedRenames ==
  OrderedRenames =>
    /\ phase # "panicked"
    /\ phase = "done" =>
         /\ {c.path : c \in Kind("created") \cup Kind("moved")} = Appeared
         /\ \A c, b \in changes : c.path = b.path => c = b
=============================================================================
