------------------------- MODULE SnapshotDiffProofs -------------------------
(***************************************************************************)
(* What the delta of two snapshots tells, for every pair of snapshots over *)
(* any number of paths and any contents.                                   *)
(*                                                                         *)
(* MoveInv holds of every delta: the moves that wait join files of one     *)
(* content and are ordered by their origin, each origin still counts as    *)
(* deleted, and the changes told so far are the moves of exactly the       *)
(* vanished files that do not.  OrderInv is about ordered renames only:    *)
(* the indices the moves remember then grow with their origins, and a move *)
(* applied from the end shifts no index that is still needed.              *)
(***************************************************************************)
EXTENDS SnapshotDiff, WellFoundedInduction, SequenceTheorems, FiniteSetTheorems, TLAPS

Moves == [from : Paths, index : Nat \ {0}, path : Paths]

\* The changes told while the moves are applied.
ToldInv ==
  /\ \A c \in changes : \E d \in Vanished \ deleted, p \in Appeared :
       SameContent(d, p) /\ c = Change("moved", p, d)
  /\ \A d \in Vanished \ deleted : \E c \in changes : c.from = d
  /\ \A c, b \in changes : c.from = b.from => c = b

\* The moves that wait join files of one content.
JoinInv ==
  \A k \in DOMAIN moved :
    /\ moved[k].from \in deleted /\ moved[k].path \in Appeared
    /\ SameContent(moved[k].from, moved[k].path)

MoveInv ==
  /\ before \in Snapshots /\ after \in Snapshots
  /\ phase \in {"pair", "move", "panicked", "done"}
  /\ created \in Seq(Appeared)
  /\ deleted \subseteq Vanished
  /\ moved \in Seq(Moves)
  /\ JoinInv
  /\ \A j, k \in DOMAIN moved : j < k => moved[j].from < moved[k].from
  /\ phase = "pair" => /\ moved = <<>> /\ changes = {}
                       /\ deleted = Vanished /\ created = Ascending(Appeared)
  /\ phase = "move" => ToldInv

\* The indices of the moves that wait, for ordered renames.
IndexInv ==
  /\ phase # "panicked"
  /\ \A i, j \in DOMAIN created : i < j => created[i] < created[j]
  /\ \A k \in DOMAIN moved :
       moved[k].index \in DOMAIN created /\ created[moved[k].index] = moved[k].path
  /\ \A j, k \in DOMAIN moved : j < k => moved[j].index < moved[k].index

\* Each file that appeared is told once or still to be told, for ordered renames.
PathInv ==
  /\ \A c \in changes : \A i \in DOMAIN created : created[i] # c.path
  /\ \A p \in Appeared : \/ \E c \in changes : c.path = p
                         \/ \E i \in DOMAIN created : created[i] = p
  /\ \A c, b \in changes : c.path = b.path => c = b

OrderInv ==
  OrderedRenames =>
    /\ IndexInv
    /\ phase # "done" => PathInv

DeltaInv == MoveInv /\ OrderInv /\ DeletionsAccounted /\ ExactForOrderedRenames

-----------------------------------------------------------------------------
\* A set of numbers with an element has a least one.
LEMMA LeastNumber ==
  ASSUME NEW T \in SUBSET Nat, T # {}
  PROVE  \E m \in T : \A n \in T : m <= n
<1>1. PICK m \in T : \A n \in T : <<n, m>> \notin OpToRel(<, Nat)
  BY NatLessThanWellFounded, WFMin, Zenon
<1>2. ASSUME NEW n \in T, n < m PROVE FALSE
  <2>1. <<n, m>> \in OpToRel(<, Nat)
    BY <1>2, Zenon DEF OpToRel
  <2>. QED  BY <1>1, <2>1, Zenon
<1>. QED  BY <1>2

\* Min is that element: the first created file of a content is one of them.
LEMMA MinIsMember ==
  ASSUME NEW T \in SUBSET Nat, T # {}
  PROVE  Min(T) \in T
<1>1. \E m \in T : \A n \in T : m =< n
  BY LeastNumber
<1>. QED  BY <1>1 DEF Min

\* Induction on sets of numbers.
LEMMA Induction ==
  ASSUME NEW S, 0 \in S, \A n \in Nat : n \in S => n + 1 \in S
  PROVE  \A n \in Nat : n \in S
<1>1. SUFFICES ASSUME Nat \ S # {} PROVE FALSE
  OBVIOUS
<1>2. PICK m \in Nat \ S : \A n \in Nat \ S : m <= n
  BY <1>1, LeastNumber
<1>3. m - 1 \in Nat /\ m - 1 \in S
  BY <1>2
<1>. QED  BY <1>2, <1>3

\* What Ascending chooses.
InOrder(s, S) ==
  /\ s \in [1 .. Cardinality(S) -> S]
  /\ \A i, j \in DOMAIN s : i < j => s[i] < s[j]
  /\ \A p \in S : \E i \in DOMAIN s : s[i] = p

\* A set of numbered paths is finite.
LEMMA FinitePaths ==
  ASSUME NEW n \in Nat, NEW T \in SUBSET (1 .. n)
  PROVE  IsFiniteSet(T) /\ Cardinality(T) \in Nat
<1>1. IsFiniteSet(1 .. n)
  <2>1. 1 \in Int /\ n \in Int
    OBVIOUS
  <2>. QED  BY <2>1, FS_Interval, Zenon
<1>2. IsFiniteSet(T)
  BY <1>1, FS_Subset, Zenon
<1>. QED  BY <1>2, FS_CardinalityType, Zenon

\* One more path after the others can be listed when they can.
LEMMA OneMoreInOrder ==
  ASSUME NEW n \in Nat, NEW T \in SUBSET (1 .. n), NEW s, InOrder(s, T)
  PROVE  \E t : InOrder(t, T \cup {n + 1})
<1>. DEFINE c == Cardinality(T)
            t == [i \in 1 .. c + 1 |-> IF i = c + 1 THEN n + 1 ELSE s[i]]
<1>1. IsFiniteSet(T) /\ c \in Nat
  BY FinitePaths, Zenon
<1>2. Cardinality(T \cup {n + 1}) = c + 1
  <2>1. n + 1 \notin T
    OBVIOUS
  <2>. QED  BY <1>1, <2>1, FS_AddElement, Zenon
<1>3. /\ s \in [1 .. c -> T]
      /\ \A i, j \in 1 .. c : i < j => s[i] < s[j]
      /\ \A p \in T : \E i \in 1 .. c : s[i] = p
  BY DEF InOrder
<1>. HIDE DEF c
<1>4. t \in [1 .. c + 1 -> T \cup {n + 1}]
  BY <1>1, <1>3
<1>5. \A i, j \in 1 .. c + 1 : i < j => t[i] < t[j]
  <2>1. SUFFICES ASSUME NEW i \in 1 .. c + 1, NEW j \in 1 .. c + 1, i < j
                 PROVE  t[i] < t[j]
    OBVIOUS
  <2>2. i \in 1 .. c /\ t[i] = s[i]
    BY <1>1, <2>1
  <2>0. s[i] \in 1 .. n
    BY <1>3, <2>2
  <2>3. CASE j = c + 1
    BY <1>1, <2>0, <2>2, <2>3
  <2>4. CASE j # c + 1
    <3>1. j \in 1 .. c /\ t[j] = s[j]
      BY <1>1, <2>4
    <3>. QED  BY <1>3, <2>1, <2>2, <3>1
  <2>. QED  BY <2>3, <2>4
<1>6. ASSUME NEW p \in T \cup {n + 1} PROVE \E i \in 1 .. c + 1 : t[i] = p
  <2>1. CASE p = n + 1
    <3>1. c + 1 \in 1 .. c + 1 /\ t[c + 1] = p
      BY <1>1, <2>1
    <3>. QED  BY <3>1
  <2>2. CASE p \in T
    <3>1. PICK i \in 1 .. c : s[i] = p
      BY <1>3, <2>2
    <3>2. i \in 1 .. c + 1 /\ t[i] = p
      BY <1>1, <3>1
    <3>. QED  BY <3>2
  <2>. QED  BY <2>1, <2>2
<1>7. DOMAIN t = 1 .. c + 1
  OBVIOUS
<1>. HIDE DEF t
<1>8. InOrder(t, T \cup {n + 1})
  BY <1>2, <1>4, <1>5, <1>6, <1>7 DEF InOrder
<1>. QED  BY <1>8

\* Every set of paths can be listed in its order.
LEMMA AscendingInOrder ==
  ASSUME NEW S \in SUBSET Paths
  PROVE  InOrder(Ascending(S), S)
<1>. DEFINE Listed == {n \in Nat : \A T \in SUBSET (1 .. n) : \E s : InOrder(s, T)}
<1>1. 0 \in Listed
  <2>1. SUFFICES ASSUME NEW T \in SUBSET (1 .. 0) PROVE \E s : InOrder(s, T)
    OBVIOUS
  <2>2. T = {}
    OBVIOUS
  <2>3. Cardinality(T) = 0
    BY <2>2, FS_EmptySet, Zenon
  <2>4. InOrder(<<>>, T)
    BY <2>2, <2>3 DEF InOrder
  <2>. QED  BY <2>4
<1>2. ASSUME NEW n \in Nat, n \in Listed PROVE n + 1 \in Listed
  <2>1. SUFFICES ASSUME NEW T \in SUBSET (1 .. n + 1) PROVE \E s : InOrder(s, T)
    OBVIOUS
  <2>2. CASE n + 1 \notin T
    <3>1. T \in SUBSET (1 .. n)
      BY <2>2
    <3>. QED  BY <1>2, <3>1
  <2>3. CASE n + 1 \in T
    <3>1. T \ {n + 1} \in SUBSET (1 .. n) /\ T = (T \ {n + 1}) \cup {n + 1}
      BY <2>3
    <3>2. PICK s : InOrder(s, T \ {n + 1})
      BY <1>2, <3>1
    <3>. HIDE DEF Listed
    <3>3. \E t : InOrder(t, (T \ {n + 1}) \cup {n + 1})
      BY <3>1, <3>2, OneMoreInOrder, Zenon
    <3>. QED  BY <3>1, <3>3, Zenon
  <2>. QED  BY <2>2, <2>3
<1>3. MaxPath \in Listed
  <2>. HIDE DEF Listed
  <2>. QED  BY <1>1, <1>2, Induction, MaxPathNat
<1>4. PICK s : InOrder(s, S)
  BY <1>3 DEF Paths
<1>5. Ascending(S) = CHOOSE x \in [1 .. Cardinality(S) -> S] : InOrder(x, S)
  BY DEF Ascending, InOrder
<1>6. s \in [1 .. Cardinality(S) -> S]
  BY <1>4 DEF InOrder
<1>. QED  BY <1>4, <1>5, <1>6, Zenon

\* The list of a set of paths is a sequence.
LEMMA AscendingIsSeq ==
  ASSUME NEW S \in SUBSET Paths
  PROVE  /\ Ascending(S) \in Seq(S)
         /\ \A i, j \in DOMAIN Ascending(S) : i < j => Ascending(S)[i] < Ascending(S)[j]
         /\ \A p \in S : \E i \in DOMAIN Ascending(S) : Ascending(S)[i] = p
<1>1. Cardinality(S) \in Nat
  BY FinitePaths, MaxPathNat, Zenon DEF Paths
<1>2. InOrder(Ascending(S), S)
  BY AscendingInOrder
<1>. QED  BY <1>1, <1>2 DEF InOrder

\* Vec::remove: the elements after the removed one move up by one.
LEMMA RemovedAt ==
  ASSUME NEW X, NEW s \in Seq(X), NEW i \in 1 .. Len(s)
  PROVE  /\ RemoveAt(s, i) \in Seq(X)
         /\ Len(RemoveAt(s, i)) = Len(s) - 1
         /\ \A j \in 1 .. Len(s) - 1 :
              RemoveAt(s, i)[j] = IF j < i THEN s[j] ELSE s[j + 1]
<1>. DEFINE l == SubSeq(s, 1, i - 1)
            r == SubSeq(s, i + 1, Len(s))
<1>1. Len(s) \in Nat /\ i \in Nat /\ \A j \in 1 .. Len(s) : s[j] \in X
  OBVIOUS
<1>2. l \in Seq(X) /\ Len(l) = i - 1 /\ \A j \in 1 .. i - 1 : l[j] = s[j]
  BY <1>1
<1>3. r \in Seq(X) /\ Len(r) = Len(s) - i /\ \A j \in 1 .. Len(s) - i : r[j] = s[i + j]
  BY <1>1
<1>4. RemoveAt(s, i) = l \o r
  BY DEF RemoveAt
<1>. HIDE DEF l, r
<1>5. /\ l \o r \in Seq(X) /\ Len(l \o r) = Len(s) - 1
      /\ \A j \in 1 .. Len(l) + Len(r) :
           (l \o r)[j] = IF j <= Len(l) THEN l[j] ELSE r[j - Len(l)]
  BY <1>1, <1>2, <1>3, ConcatProperties
<1>6. ASSUME NEW j \in 1 .. Len(s) - 1
      PROVE  (l \o r)[j] = IF j < i THEN s[j] ELSE s[j + 1]
  <2>1. (l \o r)[j] = IF j <= i - 1 THEN l[j] ELSE r[j - (i - 1)]
    BY <1>1, <1>2, <1>3, <1>5
  <2>2. CASE j < i
    BY <1>1, <1>2, <2>1, <2>2
  <2>3. CASE j >= i
    <3>1. j - (i - 1) \in 1 .. Len(s) - i /\ i + (j - (i - 1)) = j + 1
      BY <1>1, <2>3
    <3>2. r[j - (i - 1)] = s[j + 1]
      BY <1>3, <3>1
    <3>. QED  BY <1>1, <2>1, <2>3, <3>2
  <2>4. j < i \/ j >= i
    BY <1>1
  <2>. QED  BY <2>2, <2>3, <2>4, Zenon
<1>. QED  BY <1>4, <1>5, <1>6

\* What is left of the moves once the last one is taken.
LEMMA FrontOf ==
  ASSUME NEW X, NEW s \in Seq(X), s # <<>>
  PROVE  /\ Front(s) \in Seq(X) /\ Len(Front(s)) = Len(s) - 1
         /\ \A j \in 1 .. Len(s) - 1 : Front(s)[j] = s[j]
         /\ Len(s) \in Nat \ {0} /\ Last(s) = s[Len(s)]
<1>1. Len(s) \in Nat \ {0} /\ \A j \in 1 .. Len(s) : s[j] \in X
  OBVIOUS
<1>. DEFINE f == SubSeq(s, 1, Len(s) - 1)
<1>2. f \in Seq(X) /\ Len(f) = Len(s) - 1 /\ \A j \in 1 .. Len(s) - 1 : f[j] = s[j]
  <2>1. 1 \in Int /\ Len(s) - 1 \in Int /\ \A j \in 1 .. Len(s) - 1 : s[j] \in X
    BY <1>1
  <2>2. /\ f \in Seq(X)
        /\ Len(f) = IF 1 <= Len(s) - 1 THEN Len(s) - 1 - 1 + 1 ELSE 0
        /\ \A j \in 1 .. Len(s) - 1 - 1 + 1 : f[j] = s[1 + j - 1]
    BY <2>1, SubSeqProperties
  <2>. HIDE DEF f
  <2>3. Len(s) - 1 - 1 + 1 = Len(s) - 1 /\ \A j \in 1 .. Len(s) - 1 : 1 + j - 1 = j
    BY <1>1
  <2>4. \A j \in 1 .. Len(s) - 1 : f[j] = s[j]
    BY <2>2, <2>3
  <2>5. Len(f) = Len(s) - 1
    <3>. DEFINE n == Len(s)
    <3>0. n \in Nat /\ n > 0
      BY <1>1
    <3>. HIDE DEF n
    <3>2. 1 <= n - 1 \/ n - 1 = 0
      BY <3>0
    <3>1. 1 <= Len(s) - 1 \/ Len(s) - 1 = 0
      BY <3>2 DEF n
    <3>. QED  BY <2>2, <2>3, <3>1
  <2>. QED  BY <2>2, <2>4, <2>5
<1>3. Front(s) = f /\ Last(s) = s[Len(s)]
  BY DEF Front, Last
<1>. HIDE DEF f
<1>. QED  BY <1>1, <1>2, <1>3

\* A paired path was deleted, and its partner is a created one of its content.
LEMMA PairIsMove ==
  ASSUME created \in Seq(Appeared), NEW d \in Paths, Matches(d) # {}
  PROVE  /\ Min(Matches(d)) \in 1 .. Len(created)
         /\ created[Min(Matches(d))] \in Appeared
         /\ SameContent(d, created[Min(Matches(d))])
<1>1. Matches(d) \in SUBSET Nat /\ Matches(d) \subseteq 1 .. Len(created)
  BY DEF Matches
<1>2. Min(Matches(d)) \in Matches(d)
  BY <1>1, MinIsMember
<1>. HIDE DEF Appeared
<1>3. /\ Min(Matches(d)) \in DOMAIN created
      /\ SameContent(d, created[Min(Matches(d))])
  BY <1>2, Zenon DEF Matches
<1>. QED  BY <1>3

-----------------------------------------------------------------------------
\* The snapshots list paths.
LEMMA SnapshotPaths ==
  ASSUME before \in Snapshots, after \in Snapshots
  PROVE  Appeared \in SUBSET Paths /\ Vanished \in SUBSET Paths
BY DEF Snapshots, Appeared, Vanished

\* The delta starts with every file created and deleted, and no move.
LEMMA InitDelta == Init => MoveInv /\ OrderInv
<1>. SUFFICES ASSUME Init PROVE MoveInv /\ OrderInv
  OBVIOUS
<1>0. before \in Snapshots /\ after \in Snapshots
  BY DEF Init
<1>1. Appeared \in SUBSET Paths
  BY <1>0, SnapshotPaths
<1>2. /\ created = Ascending(Appeared) /\ deleted = Vanished
      /\ phase = "pair" /\ moved = <<>> /\ changes = {}
  BY DEF Init, Appeared, Vanished
<1>3. /\ created \in Seq(Appeared)
      /\ \A i, j \in DOMAIN created : i < j => created[i] < created[j]
      /\ \A p \in Appeared : \E i \in DOMAIN created : created[i] = p
  BY <1>1, <1>2, AscendingIsSeq
<1>4. moved \in Seq(Moves) /\ DOMAIN moved = {}
  BY <1>2
<1>. HIDE DEF Appeared, Vanished, Moves
<1>5. MoveInv
  <2>1. JoinInv
    BY <1>4 DEF JoinInv
  <2>. QED  BY <1>0, <1>2, <1>3, <1>4, <2>1 DEF MoveInv
<1>6. IndexInv /\ PathInv
  BY <1>2, <1>3, <1>4 DEF IndexInv, PathInv
<1>. QED  BY <1>5, <1>6 DEF OrderInv

\* Pairing the moves.
LEMMA PairMovesDelta ==
  ASSUME MoveInv, OrderInv, PairMoves
  PROVE  MoveInv' /\ OrderInv'
<1>0. /\ before \in Snapshots /\ after \in Snapshots /\ created \in Seq(Appeared)
      /\ phase = "pair" /\ changes = {} /\ deleted = Vanished
      /\ created = Ascending(Appeared) /\ phase' = "move"
      /\ UNCHANGED <<before, after, created, deleted, changes>>
  BY DEF MoveInv, PairMoves
<1>1. Appeared \in SUBSET Paths /\ Vanished \in SUBSET Paths
  BY <1>0, SnapshotPaths
<1>2. Appeared' = Appeared /\ Vanished' = Vanished /\ OrderedRenames' = OrderedRenames
  BY <1>0 DEF Appeared, Vanished, OrderedRenames, SameContent
<1>3. \A d, c : SameContent(d, c)' = SameContent(d, c)
  BY <1>0 DEF SameContent
<1>. DEFINE matched == {d \in deleted : Matches(d) # {}}
            paired == Ascending(matched)
            index(k) == Min(Matches(paired[k]))
<1>4. /\ matched \in SUBSET Paths /\ paired \in Seq(matched)
      /\ \A j, k \in DOMAIN paired : j < k => paired[j] < paired[k]
  BY <1>0, <1>1, AscendingIsSeq
<1>5. moved' = [k \in DOMAIN paired |->
                  [from |-> paired[k], index |-> index(k), path |-> created[index(k)]]]
  BY DEF PairMoves
<1>. HIDE DEF paired, Appeared, Vanished
<1>6. ASSUME NEW k \in DOMAIN paired
      PROVE  /\ paired[k] \in deleted /\ paired[k] \in Paths
             /\ index(k) \in 1 .. Len(created)
             /\ created[index(k)] \in Appeared
             /\ SameContent(paired[k], created[index(k)])
  <2>1. paired[k] \in matched
    BY <1>4
  <2>2. paired[k] \in Paths /\ Matches(paired[k]) # {} /\ paired[k] \in deleted
    BY <1>4, <2>1
  <2>. QED  BY <1>0, <2>2, PairIsMove
<1>. HIDE DEF index, matched
<1>7. ASSUME NEW k \in DOMAIN paired
      PROVE  /\ moved'[k].from = paired[k] /\ moved'[k].index = index(k)
             /\ moved'[k].path = created[index(k)] /\ moved'[k] \in Moves
  <2>1. index(k) \in Nat \ {0}
    BY <1>0, <1>6
  <2>. QED  BY <1>1, <1>5, <1>6, <2>1 DEF Moves
<1>8. DOMAIN moved' = DOMAIN paired /\ moved' \in Seq(Moves)
  <2>1. Len(paired) \in Nat /\ DOMAIN paired = 1 .. Len(paired)
    BY <1>4
  <2>2. moved' \in [1 .. Len(paired) -> Moves]
    BY <1>5, <1>7, <2>1, Zenon
  <2>. QED  BY <2>1, <2>2, SeqDef
<1>9. MoveInv'
  <2>1. JoinInv'
    BY <1>0, <1>2, <1>6, <1>7, <1>8 DEF JoinInv, SameContent
  <2>2. \A j, k \in DOMAIN moved' : j < k => moved'[j].from < moved'[k].from
    BY <1>4, <1>7, <1>8
  <2>3. ToldInv'
    <3>1. changes' = {} /\ Vanished' \ deleted' = {}
      BY <1>0, <1>2
    <3>. QED  BY <3>1 DEF ToldInv
  <2>. QED  BY <1>0, <1>2, <1>8, <2>1, <2>2, <2>3 DEF MoveInv
<1>10. ASSUME OrderedRenames PROVE IndexInv' /\ PathInv'
  <2>1. IndexInv /\ PathInv
    BY <1>0, <1>10 DEF OrderInv
  <2>2. ASSUME NEW j \in DOMAIN paired, NEW k \in DOMAIN paired, j < k
        PROVE  index(j) < index(k)
    <3>1. paired[j] < paired[k]
      BY <1>4, <2>2
    <3>2. created[index(j)] < created[index(k)]
      BY <1>0, <1>6, <1>10, <3>1 DEF OrderedRenames
    <3>3. /\ index(j) \in DOMAIN created /\ index(k) \in DOMAIN created
          /\ index(j) \in Nat /\ index(k) \in Nat
      BY <1>0, <1>6
    <3>6. created[index(j)] \in Nat /\ created[index(k)] \in Nat
      <4>1. created[index(j)] \in Paths /\ created[index(k)] \in Paths
        BY <1>1, <1>6, Zenon
      <4>2. Paths \subseteq Nat
        BY MaxPathNat DEF Paths
      <4>. QED  BY <4>1, <4>2, Zenon
    <3>4. \/ index(j) < index(k) \/ index(j) = index(k) \/ index(k) < index(j)
      BY <3>3
    <3>5. CASE index(k) < index(j)
      <4>1. created[index(k)] < created[index(j)]
        BY <2>1, <3>3, <3>5 DEF IndexInv
      <4>. QED  BY <3>2, <3>6, <4>1
    <3>. QED  BY <3>2, <3>4, <3>5, <3>6
  <2>3. IndexInv'
    BY <1>0, <1>6, <1>7, <1>8, <2>1, <2>2 DEF IndexInv
  <2>4. PathInv'
    BY <1>0, <1>2, <2>1 DEF PathInv
  <2>. QED  BY <2>3, <2>4
<1>11. OrderInv'
  BY <1>2, <1>10 DEF OrderInv
<1>. QED  BY <1>9, <1>11

\* Paths are numbered.
LEMMA PathsAreNumbers == Paths \subseteq Nat \ {0}
BY MaxPathNat DEF Paths

\* What the last move that waits says, and what is left once it is taken.
LEMMA LastMove ==
  ASSUME MoveInv, moved # <<>>
  PROVE  /\ Last(moved).from \in deleted /\ Last(moved).from \in Vanished
         /\ Last(moved).path \in Appeared
         /\ Last(moved).index \in Nat \ {0}
         /\ SameContent(Last(moved).from, Last(moved).path)
         /\ Front(moved) \in Seq(Moves)
         /\ Len(moved) \in Nat \ {0} /\ DOMAIN Front(moved) = 1 .. Len(moved) - 1
         /\ \A k \in 1 .. Len(moved) - 1 :
              /\ Front(moved)[k] = moved[k]
              /\ moved[k].from \in deleted /\ moved[k].from # Last(moved).from
<1>1. moved \in Seq(Moves) /\ deleted \subseteq Vanished /\ JoinInv
  BY DEF MoveInv
<1>2. /\ Front(moved) \in Seq(Moves) /\ Len(Front(moved)) = Len(moved) - 1
      /\ \A j \in 1 .. Len(moved) - 1 : Front(moved)[j] = moved[j]
      /\ Len(moved) \in Nat \ {0} /\ Last(moved) = moved[Len(moved)]
  BY <1>1, FrontOf
<1>3. Len(moved) \in DOMAIN moved /\ DOMAIN moved = 1 .. Len(moved)
  BY <1>1, <1>2
<1>4. DOMAIN Front(moved) = 1 .. Len(moved) - 1
  BY <1>2
<1>5. /\ Last(moved).from \in deleted /\ Last(moved).from \in Vanished
      /\ Last(moved).path \in Appeared
      /\ SameContent(Last(moved).from, Last(moved).path)
  BY <1>1, <1>2, <1>3 DEF JoinInv
<1>6. Last(moved).index \in Nat \ {0}
  <2>1. moved[Len(moved)] \in Moves
    BY <1>1, <1>3
  <2>. QED  BY <1>2, <2>1 DEF Moves
<1>7. ASSUME NEW k \in 1 .. Len(moved) - 1
      PROVE  moved[k].from \in deleted /\ moved[k].from # Last(moved).from
  <2>1. k \in DOMAIN moved /\ k < Len(moved)
    BY <1>2, <1>3
  <2>2. moved[k].from < Last(moved).from
    BY <1>2, <1>3, <2>1 DEF MoveInv
  <2>3. moved[k] \in Moves /\ moved[Len(moved)] \in Moves
    BY <1>1, <1>3, <2>1
  <2>4. moved[k].from \in Nat /\ Last(moved).from \in Nat
    BY <1>2, <2>3, PathsAreNumbers DEF Moves
  <2>5. moved[k].from \in deleted
    BY <1>1, <2>1 DEF JoinInv
  <2>. QED  BY <2>2, <2>4, <2>5
<1>. QED  BY <1>2, <1>4, <1>5, <1>6, <1>7

\* Applying the last move.
LEMMA ApplyMoveDelta ==
  ASSUME MoveInv, OrderInv, ApplyMove
  PROVE  MoveInv' /\ OrderInv'
<1>. DEFINE m == Last(moved)
            front == Front(moved)
            n == Len(moved)
            kept == RemoveAt(created, m.index)
<1>0. /\ before \in Snapshots /\ after \in Snapshots /\ created \in Seq(Appeared)
      /\ phase = "move" /\ moved # <<>> /\ moved' = front /\ deleted \subseteq Vanished
      /\ moved \in Seq(Moves) /\ UNCHANGED <<before, after>>
      /\ JoinInv /\ ToldInv
  BY DEF MoveInv, ApplyMove
<1>1. Appeared \in SUBSET Paths /\ Vanished \in SUBSET Paths
  BY <1>0, SnapshotPaths
<1>2. Appeared' = Appeared /\ Vanished' = Vanished /\ OrderedRenames' = OrderedRenames
  BY <1>0 DEF Appeared, Vanished, OrderedRenames, SameContent
<1>3. \A d, c : SameContent(d, c)' = SameContent(d, c)
  BY <1>0 DEF SameContent
<1>4. /\ m.from \in deleted /\ m.from \in Vanished /\ m.path \in Appeared
      /\ m.index \in Nat \ {0} /\ SameContent(m.from, m.path)
      /\ front \in Seq(Moves) /\ n \in Nat \ {0} /\ DOMAIN front = 1 .. n - 1
      /\ DOMAIN moved = 1 .. n /\ m = moved[n]
      /\ \A k \in 1 .. n - 1 :
           front[k] = moved[k] /\ moved[k].from \in deleted /\ moved[k].from # m.from
  BY <1>0, LastMove DEF Last
<1>5. /\ m.index > Len(created) =>
           phase' = "panicked" /\ UNCHANGED <<created, deleted, changes>>
      /\ ~(m.index > Len(created)) =>
           /\ phase' = "move" /\ created' = kept /\ deleted' = deleted \ {m.from}
           /\ changes' = changes \cup {Change("moved", m.path, m.from)}
  BY <1>0 DEF ApplyMove
<1>. HIDE DEF Appeared, Vanished, front, n, kept
<1>6. \A j, k \in 1 .. n - 1 : j < k => moved'[j].from < moved'[k].from
  <2>1. SUFFICES ASSUME NEW j \in 1 .. n - 1, NEW k \in 1 .. n - 1, j < k
                 PROVE  moved'[j].from < moved'[k].from
    OBVIOUS
  <2>2. j \in DOMAIN moved /\ k \in DOMAIN moved
    BY <1>4
  <2>3. moved[j].from < moved[k].from
    BY <2>1, <2>2 DEF MoveInv
  <2>. QED  BY <1>0, <1>4, <2>3
<1>7. ASSUME NEW k \in 1 .. n - 1 PROVE moved[k].path \in Appeared /\ SameContent(moved[k].from, moved[k].path)
  <2>1. k \in DOMAIN moved
    BY <1>4
  <2>. QED  BY <1>0, <2>1 DEF JoinInv
<1>8. CASE m.index > Len(created)
  <2>. HIDE DEF m
  <2>1. phase' = "panicked" /\ UNCHANGED <<created, deleted, changes>>
    BY <1>5, <1>8
  <2>2. JoinInv'
    <3>1. ASSUME NEW k \in 1 .. n - 1
          PROVE  /\ moved'[k].from \in deleted' /\ moved'[k].path \in Appeared'
                 /\ moved'[k] = moved[k]
      BY <1>0, <1>2, <1>4, <1>7, <2>1
    <3>. QED  BY <1>0, <1>2, <1>4, <1>7, <2>1, <3>1 DEF JoinInv, SameContent
  <2>3. MoveInv'
    BY <1>0, <1>2, <1>4, <1>6, <2>1, <2>2 DEF MoveInv
  <2>4. ~OrderedRenames
    <3>1. SUFFICES ASSUME OrderedRenames PROVE FALSE
      OBVIOUS
    <3>2. m.index \in DOMAIN created
      BY <1>4, <3>1 DEF OrderInv, IndexInv
    <3>. QED  BY <1>0, <1>4, <1>8, <3>2
  <2>. QED  BY <1>2, <2>3, <2>4 DEF OrderInv
<1>9. CASE ~(m.index > Len(created))
  <2>1. /\ phase' = "move" /\ created' = kept /\ deleted' = deleted \ {m.from}
        /\ changes' = changes \cup {Change("moved", m.path, m.from)}
    BY <1>5, <1>9
  <2>2. /\ kept \in Seq(Appeared) /\ Len(kept) = Len(created) - 1
        /\ \A j \in 1 .. Len(created) - 1 :
             kept[j] = IF j < m.index THEN created[j] ELSE created[j + 1]
    <3>1. m.index \in 1 .. Len(created)
      BY <1>0, <1>4, <1>9
    <3>. QED  BY <1>0, <3>1, RemovedAt DEF kept
  <2>. HIDE DEF m
  <2>3. JoinInv'
    <3>1. ASSUME NEW k \in 1 .. n - 1
          PROVE  /\ moved'[k].from \in deleted' /\ moved'[k].path \in Appeared'
                 /\ moved'[k] = moved[k]
      BY <1>0, <1>2, <1>4, <1>7, <2>1
    <3>. QED  BY <1>0, <1>2, <1>4, <1>7, <2>1, <3>1 DEF JoinInv, SameContent
  <2>4. ToldInv'
    <3>. DEFINE new == Change("moved", m.path, m.from)
    <3>1. new.from = m.from /\ new.path = m.path
      BY DEF Change
    <3>2. Vanished' \ deleted' = (Vanished \ deleted) \cup {m.from}
      BY <1>0, <1>2, <1>4, <2>1
    <3>3. \A c \in changes : c.from \in Vanished \ deleted
      <4>1. SUFFICES ASSUME NEW c \in changes PROVE c.from \in Vanished \ deleted
        OBVIOUS
      <4>2. PICK d \in Vanished \ deleted, p \in Appeared : c = Change("moved", p, d)
        BY <1>0 DEF ToldInv
      <4>. QED  BY <4>2 DEF Change
    <3>4. changes' = changes \cup {new}
      BY <2>1
    <3>5. (\A c \in changes : \E d \in Vanished \ deleted, p \in Appeared :
             SameContent(d, p) /\ c = Change("moved", p, d))'
      <4>1. ASSUME NEW c \in changes'
            PROVE \E d \in Vanished' \ deleted', p \in Appeared' :
                    SameContent(d, p)' /\ c = Change("moved", p, d)
        <5>1. CASE c \in changes
          <6>1. PICK d \in Vanished \ deleted, p \in Appeared :
                  SameContent(d, p) /\ c = Change("moved", p, d)
            BY <1>0, <5>1 DEF ToldInv
          <6>. QED  BY <1>2, <1>3, <3>2, <6>1
        <5>2. CASE c = new
          <6>1. m.from \in Vanished' \ deleted' /\ m.path \in Appeared'
            BY <1>2, <1>4, <3>2
          <6>2. SameContent(m.from, m.path) /\ c = Change("moved", m.path, m.from)
            BY <1>4, <5>2
          <6>3. PICK d \in Vanished' \ deleted', p \in Appeared' :
                  SameContent(d, p) /\ c = Change("moved", p, d)
            BY <6>1, <6>2, Zenon
          <6>. QED  BY <1>3, <6>3, Zenon
        <5>. QED  BY <3>4, <5>1, <5>2
      <4>. QED  BY <4>1, Zenon
    <3>. HIDE DEF new
    <3>6. \A d \in Vanished' \ deleted' : \E c \in changes' : c.from = d
      BY <1>0, <3>1, <3>2, <3>4 DEF ToldInv
    <3>7. \A c, b \in changes' : c.from = b.from => c = b
      BY <1>0, <1>4, <3>1, <3>3, <3>4 DEF ToldInv
    <3>. QED  BY <3>5, <3>6, <3>7, Zenon DEF ToldInv
  <2>5. MoveInv'
    BY <1>0, <1>2, <1>4, <1>6, <2>1, <2>2, <2>3, <2>4 DEF MoveInv
  <2>6. ASSUME OrderedRenames PROVE IndexInv' /\ PathInv'
    <3>0. IndexInv /\ PathInv
      BY <1>0, <2>6 DEF OrderInv
    <3>1. /\ Len(created) \in Nat /\ DOMAIN created = 1 .. Len(created)
          /\ m.index \in 1 .. Len(created) /\ created[m.index] = m.path
          /\ DOMAIN created' = 1 .. Len(created) - 1
      <4>1. n \in DOMAIN moved /\ moved[n] = m
        BY <1>4
      <4>2. m.index \in DOMAIN created /\ created[m.index] = m.path
        BY <3>0, <4>1 DEF IndexInv
      <4>3. Len(created) \in Nat /\ DOMAIN created = 1 .. Len(created)
        BY <1>0
      <4>4. DOMAIN created' = 1 .. Len(created) - 1
        BY <2>1, <2>2
      <4>. QED  BY <4>2, <4>3, <4>4
    <3>2. ASSUME NEW j \in DOMAIN created'
          PROVE  /\ j < m.index => j \in DOMAIN created /\ created'[j] = created[j]
                 /\ j >= m.index => j + 1 \in DOMAIN created /\ created'[j] = created[j + 1]
      BY <2>1, <2>2, <3>1
    <3>3. \A i \in DOMAIN created : created[i] \in Nat
      <4>1. ASSUME NEW i \in DOMAIN created PROVE created[i] \in Appeared
        BY <1>0
      <4>. QED  BY <1>1, <4>1, PathsAreNumbers
    <3>4. \A i, j \in DOMAIN created : i < j => created[i] < created[j]
      BY <3>0 DEF IndexInv
    <3>5. \A i \in DOMAIN created : i # m.index => created[i] # m.path
      <4>1. SUFFICES ASSUME NEW i \in DOMAIN created, i # m.index
                     PROVE  created[i] # created[m.index]
        BY <3>1
      <4>2. i < m.index \/ m.index < i
        BY <3>1, <4>1
      <4>. QED  BY <3>1, <3>3, <3>4, <4>2
    <3>6. \A i, j \in DOMAIN created' : i < j => created'[i] < created'[j]
      <4>1. SUFFICES ASSUME NEW i \in DOMAIN created', NEW j \in DOMAIN created', i < j
                     PROVE  created'[i] < created'[j]
        OBVIOUS
      <4>2. i \in Nat /\ j \in Nat
        BY <3>1
      <4>3. CASE j < m.index
        BY <3>1, <3>2, <3>4, <4>1, <4>2, <4>3
      <4>4. CASE i >= m.index
        BY <3>1, <3>2, <3>4, <4>1, <4>2, <4>4
      <4>5. CASE i < m.index /\ j >= m.index
        BY <3>1, <3>2, <3>4, <4>1, <4>2, <4>5
      <4>. QED  BY <3>1, <4>2, <4>3, <4>4, <4>5
    <3>7. ASSUME NEW k \in DOMAIN moved'
          PROVE  /\ moved'[k].index \in DOMAIN created'
                 /\ created'[moved'[k].index] = moved'[k].path
      <4>1. k \in DOMAIN moved /\ n \in DOMAIN moved /\ k < n /\ moved'[k] = moved[k]
        BY <1>0, <1>4
      <4>2. /\ moved[k].index < m.index
            /\ moved[k].index \in DOMAIN created
            /\ created[moved[k].index] = moved[k].path
        BY <1>4, <3>0, <4>1 DEF IndexInv
      <4>3. moved[k].index \in DOMAIN created'
        BY <3>1, <4>2
      <4>. QED  BY <3>2, <4>1, <4>2, <4>3
    <3>8. \A j, k \in DOMAIN moved' : j < k => moved'[j].index < moved'[k].index
      <4>1. ASSUME NEW k \in DOMAIN moved' PROVE k \in DOMAIN moved /\ moved'[k] = moved[k]
        BY <1>0, <1>4
      <4>. QED  BY <3>0, <4>1 DEF IndexInv
    <3>9. IndexInv'
      BY <2>1, <3>6, <3>7, <3>8 DEF IndexInv
    <3>. DEFINE new == Change("moved", m.path, m.from)
    <3>10. new.path = m.path /\ changes' = changes \cup {new}
      BY <2>1 DEF Change
    <3>. HIDE DEF new
    <3>11. ASSUME NEW j \in DOMAIN created'
           PROVE  \E i \in DOMAIN created : created'[j] = created[i] /\ i # m.index
      <4>1. j \in Nat /\ (j < m.index \/ j >= m.index)
        BY <3>1
      <4>2. CASE j < m.index
        BY <3>1, <3>2, <4>1, <4>2
      <4>3. CASE j >= m.index
        <5>1. j + 1 # m.index
          BY <3>1, <4>1, <4>3
        <5>. QED  BY <3>2, <4>3, <5>1
      <4>. QED  BY <4>1, <4>2, <4>3
    <3>12. ASSUME NEW i \in DOMAIN created, i # m.index
           PROVE  \E j \in DOMAIN created' : created'[j] = created[i]
      <4>1. i \in Nat /\ (i < m.index \/ i > m.index)
        BY <3>1, <3>12
      <4>2. CASE i < m.index
        <5>1. i \in DOMAIN created'
          BY <3>1, <4>2
        <5>. QED  BY <3>2, <4>2, <5>1
      <4>3. CASE i > m.index
        <5>1. i - 1 \in DOMAIN created' /\ i - 1 >= m.index /\ (i - 1) + 1 = i
          BY <3>1, <4>1, <4>3
        <5>. QED  BY <3>2, <5>1
      <4>. QED  BY <4>1, <4>2, <4>3
    <3>13. \A c \in changes' : \A j \in DOMAIN created' : created'[j] # c.path
      BY <3>0, <3>5, <3>10, <3>11 DEF PathInv
    <3>14. ASSUME NEW p \in Appeared
           PROVE  \/ \E c \in changes' : c.path = p
                  \/ \E j \in DOMAIN created' : created'[j] = p
      <4>1. CASE p = m.path
        BY <3>10, <4>1
      <4>2. CASE \E c \in changes : c.path = p
        BY <3>10, <4>2
      <4>3. CASE p # m.path /\ \E i \in DOMAIN created : created[i] = p
        <5>1. PICK i \in DOMAIN created : created[i] = p
          BY <4>3
        <5>2. i # m.index
          BY <3>1, <4>3, <5>1
        <5>. QED  BY <3>12, <5>1, <5>2
      <4>. QED  BY <3>0, <4>1, <4>2, <4>3 DEF PathInv
    <3>15. \A c \in changes : c.path # m.path
      BY <3>0, <3>1 DEF PathInv
    <3>16. \A c, b \in changes' : c.path = b.path => c = b
      BY <3>0, <3>10, <3>15 DEF PathInv
    <3>17. PathInv'
      BY <1>2, <3>13, <3>14, <3>16 DEF PathInv
    <3>. QED  BY <3>9, <3>17
  <2>. QED  BY <1>2, <2>5, <2>6 DEF OrderInv
<1>. QED  BY <1>8, <1>9, Zenon

\* Collecting the changes: every deletion is told, and ordered renames exactly.
LEMMA CollectDelta ==
  ASSUME MoveInv, OrderInv, Collect
  PROVE  /\ MoveInv' /\ OrderInv'
         /\ DeletionsAccounted' /\ ExactForOrderedRenames'
<1>. DEFINE made == {Change("created", created[i], 0) : i \in DOMAIN created}
            gone == {Change("deleted", d, 0) : d \in deleted}
            same == {q \in DOMAIN before \cap DOMAIN after : before[q] # after[q]}
            edited == {Change("modified", p, 0) : p \in same}
<1>0. /\ before \in Snapshots /\ after \in Snapshots /\ created \in Seq(Appeared)
      /\ phase = "move" /\ phase' = "done" /\ moved = <<>> /\ deleted \subseteq Vanished
      /\ UNCHANGED <<before, after, created, deleted, moved>>
      /\ JoinInv /\ ToldInv
      /\ changes' = changes \cup made \cup gone \cup edited
  BY DEF MoveInv, Collect
<1>1. /\ Appeared \in SUBSET Paths /\ Vanished \in SUBSET Paths
      /\ Appeared \cap Vanished = {} /\ same \cap Appeared = {}
  BY <1>0, SnapshotPaths DEF Appeared, Vanished
<1>2. Appeared' = Appeared /\ Vanished' = Vanished /\ OrderedRenames' = OrderedRenames
  BY <1>0 DEF Appeared, Vanished, OrderedRenames, SameContent
<1>3. \A d, c : SameContent(d, c)' = SameContent(d, c)
  BY <1>0 DEF SameContent
<1>. HIDE DEF Appeared, Vanished, same
<1>4. MoveInv'
  <2>1. JoinInv'
    BY <1>0, <1>2, <1>3 DEF JoinInv, SameContent
  <2>. QED  BY <1>0, <1>2, <2>1 DEF MoveInv
<1>5. \A c \in changes : /\ c.kind = "moved" /\ c.path \in Appeared
                         /\ c.from \in Vanished \ deleted /\ c.from \in Paths
                         /\ SameContent(c.from, c.path)
  <2>1. SUFFICES ASSUME NEW c \in changes
                 PROVE  /\ c.kind = "moved" /\ c.path \in Appeared
                        /\ c.from \in Vanished \ deleted /\ c.from \in Paths
                        /\ SameContent(c.from, c.path)
    OBVIOUS
  <2>2. PICK d \in Vanished \ deleted, p \in Appeared :
          SameContent(d, p) /\ c = Change("moved", p, d)
    BY <1>0 DEF ToldInv
  <2>3. c.kind = "moved" /\ c.path = p /\ c.from = d
    BY <2>2 DEF Change
  <2>. QED  BY <1>1, <2>2, <2>3
<1>6. \A c \in made : c.kind = "created" /\ c.from = 0 /\ \E i \in DOMAIN created : c.path = created[i]
  BY DEF Change
<1>7. \A c \in gone : c.kind = "deleted" /\ c.from = 0 /\ c.path \in deleted
  BY DEF Change
<1>8. \A c \in edited : c.kind = "modified" /\ c.from = 0 /\ c.path \in same
  BY DEF Change
<1>9. \A d \in deleted : Change("deleted", d, 0) \in gone /\ Change("deleted", d, 0).path = d
  BY DEF Change
<1>10. \A c, b \in gone : c.path = b.path => c = b
  BY DEF Change
<1>11. \A c, b \in made : c.path = b.path => c = b
  BY DEF Change
<1>12. \A c, b \in edited : c.path = b.path => c = b
  BY DEF Change
<1>13. ASSUME NEW i \in DOMAIN created PROVE \E c \in made : c.path = created[i]
  <2>1. Change("created", created[i], 0).path = created[i]
    BY DEF Change
  <2>2. Change("created", created[i], 0) \in made
    OBVIOUS
  <2>. QED  BY <2>1, <2>2, Zenon
<1>. HIDE DEF made, gone, edited
<1>14. ASSUME NEW p \in Paths
       PROVE  LET told == {c \in changes' : c.kind = "deleted" /\ c.path = p}
                          \cup {c \in {x \in changes' : x.kind = "moved"} : c.from = p}
              IN  /\ Cardinality(told) = IF p \in Vanished THEN 1 ELSE 0
                  /\ \A c \in told : c.kind = "moved" => SameContent(p, c.path)
  <2>. DEFINE told == {c \in changes' : c.kind = "deleted" /\ c.path = p}
                      \cup {c \in {x \in changes' : x.kind = "moved"} : c.from = p}
  <2>1. \A c \in told : \/ c \in gone /\ c.path = p
                        \/ c \in changes /\ c.from = p
    BY <1>0, <1>5, <1>6, <1>7, <1>8
  <2>2. \A c \in gone : c.path = p => c \in told
    BY <1>0, <1>7
  <2>3. \A c \in changes : c.from = p => c \in told
    BY <1>0, <1>5
  <2>. HIDE DEF told
  <2>4. \A c \in told : c.kind = "moved" => SameContent(p, c.path)
    BY <1>5, <1>7, <2>1
  <2>5. CASE p \notin Vanished
    <3>1. told = {}
      BY <1>0, <1>5, <1>7, <2>1, <2>5
    <3>2. Cardinality(told) = 0
      BY <3>1, FS_EmptySet, Zenon
    <3>. QED  BY <2>4, <2>5, <3>2, Zenon DEF told
  <2>6. CASE p \in Vanished
    <3>1. PICK x : told = {x}
      <4>1. CASE p \in deleted
        <5>1. PICK x \in gone : x.path = p
          BY <1>9, <4>1
        <5>2. told = {x}
          BY <1>5, <1>10, <2>1, <2>2, <4>1, <5>1
        <5>. QED  BY <5>2
      <4>2. CASE p \notin deleted
        <5>1. PICK x \in changes : x.from = p
          BY <1>0, <2>6, <4>2 DEF ToldInv
        <5>2. \A c \in changes : c.from = p => c = x
          BY <1>0, <5>1 DEF ToldInv
        <5>3. told = {x}
          BY <1>7, <2>1, <2>3, <4>2, <5>1, <5>2
        <5>. QED  BY <5>3
      <4>. QED  BY <4>1, <4>2
    <3>2. Cardinality(told) = 1
      BY <3>1, FS_Singleton, Zenon
    <3>. QED  BY <2>4, <2>6, <3>2, Zenon DEF told
  <2>. QED  BY <2>5, <2>6
<1>15. DeletionsAccounted'
  BY <1>2, <1>3, <1>14, Zenon DEF DeletionsAccounted, Kind
<1>16. ASSUME OrderedRenames
       PROVE  /\ {c.path : c \in {x \in changes' : x.kind = "created"}
                               \cup {x \in changes' : x.kind = "moved"}} = Appeared
              /\ \A c, b \in changes' : c.path = b.path => c = b
  <2>0. IndexInv /\ PathInv
    BY <1>0, <1>16 DEF OrderInv
  <2>. DEFINE entered == {x \in changes' : x.kind = "created"}
                         \cup {x \in changes' : x.kind = "moved"}
  <2>1. \A c \in changes' : c \in entered <=> c \in made \/ c \in changes
    BY <1>0, <1>5, <1>6, <1>7, <1>8
  <2>2. \A c \in made : c.path \in Appeared
    BY <1>0, <1>6
  <2>3. ASSUME NEW p \in Appeared PROVE \E c \in entered : c.path = p
    <3>1. CASE \E c \in changes : c.path = p
      BY <1>0, <1>5, <3>1
    <3>2. CASE \E i \in DOMAIN created : created[i] = p
      <4>1. PICK c \in made : c.path = p
        BY <1>13, <3>2
      <4>2. c \in entered
        BY <1>0, <1>6, <4>1
      <4>. QED  BY <4>1, <4>2
    <3>. QED  BY <2>0, <3>1, <3>2 DEF PathInv
  <2>4. \A c \in entered : c.path \in Appeared
    BY <1>0, <1>5, <2>1, <2>2
  <2>5. \A c \in made : c.path \in Appeared /\ \A b \in changes : b.path # c.path
    BY <1>6, <2>0, <2>2 DEF PathInv
  <2>6. \A c \in gone : c.path \in Vanished
    BY <1>0, <1>7
  <2>7. ASSUME NEW c \in changes', NEW b \in changes', c.path = b.path
        PROVE  c = b
    <3>1. same \cap Vanished = {}
      BY DEF same, Vanished
    <3>2. \/ c \in changes \cup made /\ b \in changes \cup made
          \/ c \in gone /\ b \in gone
          \/ c \in edited /\ b \in edited
      BY <1>0, <1>1, <1>5, <1>8, <2>5, <2>6, <2>7, <3>1
    <3>. QED  BY <1>10, <1>11, <1>12, <2>0, <2>5, <2>7, <3>2 DEF PathInv
  <2>. HIDE DEF entered
  <2>8. {c.path : c \in entered} = Appeared
    BY <2>3, <2>4
  <2>. QED  BY <2>7, <2>8, Zenon DEF entered
<1>17. OrderInv'
  <2>1. ASSUME OrderedRenames PROVE IndexInv'
    BY <1>0, <2>1 DEF OrderInv, IndexInv
  <2>. QED  BY <1>0, <1>2, <2>1 DEF OrderInv
<1>18. ExactForOrderedRenames'
  BY <1>0, <1>2, <1>16 DEF ExactForOrderedRenames, Kind
<1>. QED  BY <1>4, <1>15, <1>17, <1>18

-----------------------------------------------------------------------------
\* Every step of diff_snapshots keeps what the delta means.
LEMMA StepDelta == DeltaInv /\ [Next]_vars => DeltaInv'
<1>. SUFFICES ASSUME DeltaInv, [Next]_vars PROVE DeltaInv'
  OBVIOUS
<1>0. MoveInv /\ OrderInv /\ DeletionsAccounted /\ ExactForOrderedRenames
  BY DEF DeltaInv
<1>1. ASSUME MoveInv', OrderInv', phase' \in {"move", "panicked"}
      PROVE  DeltaInv'
  <2>1. DeletionsAccounted'
    BY <1>1 DEF DeletionsAccounted
  <2>2. ExactForOrderedRenames'
    BY <1>1 DEF ExactForOrderedRenames, OrderInv, IndexInv
  <2>. QED  BY <1>1, <2>1, <2>2 DEF DeltaInv
<1>2. CASE PairMoves
  BY <1>0, <1>1, <1>2, PairMovesDelta DEF PairMoves
<1>3. CASE ApplyMove
  <2>1. phase' \in {"move", "panicked"}
    BY <1>3 DEF ApplyMove
  <2>. QED  BY <1>0, <1>1, <1>3, <2>1, ApplyMoveDelta
<1>4. CASE Collect
  BY <1>0, <1>4, CollectDelta DEF DeltaInv
<1>5. CASE UNCHANGED vars
  <2>1. /\ Appeared' = Appeared /\ Vanished' = Vanished
        /\ OrderedRenames' = OrderedRenames
    BY <1>5 DEF vars, Appeared, Vanished, OrderedRenames, SameContent
  <2>2. MoveInv' /\ OrderInv'
    BY <1>0, <1>5, <2>1 DEF vars, MoveInv, OrderInv, JoinInv, ToldInv, IndexInv, PathInv,
      SameContent
  <2>3. DeletionsAccounted' /\ ExactForOrderedRenames'
    BY <1>0, <1>5, <2>1 DEF vars, DeletionsAccounted, ExactForOrderedRenames, Kind,
      SameContent
  <2>. QED  BY <2>2, <2>3 DEF DeltaInv
<1>. QED  BY <1>2, <1>3, <1>4, <1>5 DEF Next

\* DeltaInv is an invariant of every delta of two snapshots.
THEOREM DeltaInvariant == Spec => []DeltaInv
<1>1. Init => DeltaInv
  <2>. SUFFICES ASSUME Init PROVE DeltaInv
    OBVIOUS
  <2>1. MoveInv /\ OrderInv /\ phase = "pair"
    BY InitDelta DEF Init
  <2>. QED  BY <2>1 DEF DeltaInv, DeletionsAccounted, ExactForOrderedRenames
<1>. QED  BY <1>1, StepDelta, PTL DEF Spec

\* For any number of files and any contents, duplicates included: whatever the
\* stale indices remove from created, diff_snapshots reports each vanished file
\* exactly once, as deleted or as the origin of a move to a file of its content.
THEOREM DeletionsAreAccounted == Spec => []DeletionsAccounted
BY DeltaInvariant, PTL DEF DeltaInv

\* When distinct files were renamed in their order, Vec::remove is never given
\* an index out of bounds and the delta turns the paths of one snapshot into
\* those of the other, each told once.
THEOREM OrderedRenamesAreExact == Spec => []ExactForOrderedRenames
BY DeltaInvariant, PTL DEF DeltaInv
=============================================================================
