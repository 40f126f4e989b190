------------------------ MODULE HandoffBuilderProofs ------------------------
(***************************************************************************)
(* What a handoff package shows and what its compaction gives up, for      *)
(* every log, every estimate of its items, every budget and every diff.    *)
(*                                                                         *)
(* PackageInv joins what the five invariants need.  ReducedInv ties each   *)
(* list to the events that were reduced to it.  EmptiedInv says that the   *)
(* phases that are over left nothing while the package is too large: it    *)
(* gives FitsOrCannot at the end, and it is why an item may be given up    *)
(* (LostInv) and why the last one that was would not have fitted (LastInv).*)
(* The first lemmas are about SumTo, the recursive function every estimate *)
(* is: a term that changes changes the sum by as much.                     *)
(***************************************************************************)
EXTENDS HandoffBuilder, WellFoundedInduction, FiniteSetTheorems, SequenceTheorems, TLAPS

\* A set of numbers with an element has a least one.
LEMMA LeastNumber ==
  ASSUME NEW T \in SUBSET Nat, T # {}
  PROVE  \E m \in T : \A n \in T : m <= n
<1>1. PICK m \in T : \A n \in T : <<n, m>> \notin OpToRel(<, Nat)
  BY NatLessThanWellFounded, WFMin, Zenon
<1>2. ASSUME NEW n \in T, n < m PROVE FALSE
  <2>1. <<n, m>> \in OpToRel(<, Nat)
    BY <1>2, Zenon DEF OpToRel
  <2>. QED  BY <1>1, <2>1, Zenon
<1>. QED  BY <1>2

\* Min is that element: the oldest item of a list is one of its items.
LEMMA MinOf ==
  ASSUME NEW T \in SUBSET Nat, T # {}
  PROVE  Min(T) \in T /\ \A n \in T : Min(T) <= n
<1>1. \E m \in T : \A n \in T : m =< n
  BY LeastNumber
<1>. QED  BY <1>1 DEF Min

\* Max, where the numbers are bounded.
LEMMA MaxOf ==
  ASSUME NEW b \in Nat, NEW T \in SUBSET (0 .. b), T # {}
  PROVE  Max(T) \in T /\ \A n \in T : n <= Max(T)
<1>. DEFINE U == {b - n : n \in T}
<1>0. \A n \in T : n \in Nat /\ b - n \in Nat
  OBVIOUS
<1>1. U \in SUBSET Nat /\ U # {}
  BY <1>0
<1>2. PICK u \in U : \A v \in U : u <= v
  BY <1>1, LeastNumber
<1>3. PICK m \in T : u = b - m
  BY <1>2
<1>4. \A n \in T : m >= n
  <2>1. SUFFICES ASSUME NEW n \in T PROVE m >= n
    OBVIOUS
  <2>2. b - n \in U
    OBVIOUS
  <2>3. m \in Nat /\ n \in Nat
    BY <1>0
  <2>4. b - m <= b - n
    BY <1>2, <1>3, <2>2
  <2>. QED  BY <2>3, <2>4
<1>5. \E x \in T : \A y \in T : x >= y
  BY <1>4
<1>6. Max(T) \in T /\ \A y \in T : Max(T) >= y
  BY <1>5 DEF Max
<1>. QED  BY <1>6

\* Induction on sets of numbers.
LEMMA Induction ==
  ASSUME NEW S, 0 \in S, \A n \in Nat : n \in S => n + 1 \in S
  PROVE  \A n \in Nat : n \in S
<1>1. SUFFICES ASSUME Nat \ S # {} PROVE FALSE
  OBVIOUS
<1>2. PICK m \in Nat \ S : \A n \in Nat \ S : m <= n
  BY <1>1, LeastNumber
<1>3. m - 1 \in Nat /\ m - 1 \in S
  BY <1>2
<1>. QED  BY <1>2, <1>3

-----------------------------------------------------------------------------
\* The partial sums of SumTo.
Totals(term, n, f) ==
  f = [k \in 0 .. n |-> IF k = 0 THEN term[0] ELSE f[k - 1] + term[k]]

\* One of them.
LEMMA TotalsStep ==
  ASSUME NEW term, NEW n \in Nat, NEW f, Totals(term, n, f)
  PROVE  /\ f[0] = term[0]
         /\ \A k \in Nat : k < n => f[k + 1] = f[k] + term[k + 1]
<1>1. f[0] = term[0]
  BY DEF Totals
<1>2. ASSUME NEW k \in Nat, k < n PROVE f[k + 1] = f[k] + term[k + 1]
  <2>1. k + 1 \in 0 .. n /\ k + 1 # 0 /\ (k + 1) - 1 = k
    BY <1>2
  <2>2. f[k + 1] = f[(k + 1) - 1] + term[k + 1]
    BY <2>1 DEF Totals
  <2>. QED  BY <2>1, <2>2
<1>. QED  BY <1>1, <1>2

\* They exist for every number of terms.
LEMMA TotalsExist ==
  ASSUME NEW term, NEW n \in Nat
  PROVE  \E f : Totals(term, n, f)
<1>. DEFINE S == {m \in Nat : \E f : Totals(term, m, f)}
<1>1. 0 \in S
  <2>1. Totals(term, 0, [k \in 0 .. 0 |-> term[0]])
    BY DEF Totals
  <2>. QED  BY <2>1
<1>2. ASSUME NEW m \in Nat, m \in S PROVE m + 1 \in S
  <2>1. PICK f : Totals(term, m, f)
    BY <1>2
  <2>. DEFINE g == [k \in 0 .. m + 1 |-> IF k = m + 1 THEN f[m] + term[m + 1] ELSE f[k]]
  <2>2. ASSUME NEW k \in 0 .. m + 1
        PROVE  g[k] = IF k = 0 THEN term[0] ELSE g[k - 1] + term[k]
    <3>1. CASE k = 0
      BY <2>1, <3>1, TotalsStep
    <3>2. CASE k = m + 1
      BY <3>2
    <3>3. CASE k \in 1 .. m
      <4>1. k - 1 \in Nat /\ k - 1 < m /\ (k - 1) + 1 = k
        BY <3>3
      <4>2. f[k] = f[k - 1] + term[k]
        BY <2>1, <4>1, TotalsStep
      <4>3. g[k] = f[k] /\ g[k - 1] = f[k - 1] /\ k # 0
        BY <3>3
      <4>. QED  BY <4>2, <4>3
    <3>. QED  BY <3>1, <3>2, <3>3
  <2>3. g = [k \in 0 .. m + 1 |-> g[k]]
    OBVIOUS
  <2>. HIDE DEF g
  <2>4. Totals(term, m + 1, g)
    BY <2>2, <2>3, Zenon DEF Totals
  <2>. QED  BY <2>4
<1>. HIDE DEF S
<1>3. n \in S
  BY <1>1, <1>2, Induction
<1>. QED  BY <1>3 DEF S

\* SumTo is the last of them.
LEMMA SumIsTotal ==
  ASSUME NEW term, NEW n \in Nat
  PROVE  \E f : Totals(term, n, f) /\ SumTo(term, n) = f[n]
<1>. DEFINE upTo == CHOOSE f : Totals(term, n, f)
<1>1. Totals(term, n, upTo)
  BY TotalsExist
<1>2. SumTo(term, n) = upTo[n]
  BY DEF SumTo, Totals
<1>. QED  BY <1>1, <1>2

\* SumTo adds one term at a time.
LEMMA SumStep ==
  ASSUME NEW term, NEW n \in Nat
  PROVE  SumTo(term, 0) = term[0] /\ SumTo(term, n + 1) = SumTo(term, n) + term[n + 1]
<1>1. PICK z : Totals(term, 0, z) /\ SumTo(term, 0) = z[0]
  BY SumIsTotal
<1>2. PICK f : Totals(term, n, f) /\ SumTo(term, n) = f[n]
  BY SumIsTotal
<1>3. PICK g : Totals(term, n + 1, g) /\ SumTo(term, n + 1) = g[n + 1]
  BY SumIsTotal
<1>. DEFINE S == {k \in Nat : k <= n => f[k] = g[k]}
<1>4. 0 \in S
  BY <1>2, <1>3, TotalsStep
<1>5. ASSUME NEW k \in Nat, k \in S PROVE k + 1 \in S
  <2>1. SUFFICES ASSUME k + 1 <= n PROVE f[k + 1] = g[k + 1]
    OBVIOUS
  <2>2. k < n /\ k < n + 1 /\ f[k] = g[k]
    BY <1>5, <2>1
  <2>3. f[k + 1] = f[k] + term[k + 1]
    BY <1>2, <2>2, TotalsStep
  <2>4. g[k + 1] = g[k] + term[k + 1]
    BY <1>3, <2>2, TotalsStep
  <2>. QED  BY <2>2, <2>3, <2>4
<1>. HIDE DEF S
<1>6. n \in S
  BY <1>4, <1>5, Induction
<1>7. f[n] = g[n]
  BY <1>6 DEF S
<1>8. g[n + 1] = g[n] + term[n + 1]
  BY <1>3, TotalsStep
<1>9. z[0] = term[0]
  BY <1>1, TotalsStep
<1>. QED  BY <1>1, <1>2, <1>3, <1>7, <1>8, <1>9

\* Sums of numbers are numbers.
LEMMA SumType ==
  ASSUME NEW n \in Nat, NEW term, \A k \in 0 .. n : term[k] \in Nat
  PROVE  SumTo(term, n) \in Nat
<1>. DEFINE S == {m \in Nat : m <= n => SumTo(term, m) \in Nat}
<1>1. 0 \in S
  BY SumStep
<1>2. ASSUME NEW m \in Nat, m \in S PROVE m + 1 \in S
  <2>1. SUFFICES ASSUME m + 1 <= n PROVE SumTo(term, m + 1) \in Nat
    OBVIOUS
  <2>2. SumTo(term, m) \in Nat /\ term[m + 1] \in Nat
    BY <1>2, <2>1
  <2>3. SumTo(term, m + 1) = SumTo(term, m) + term[m + 1]
    BY SumStep
  <2>. QED  BY <2>2, <2>3
<1>. HIDE DEF S
<1>3. n \in S
  BY <1>1, <1>2, Induction
<1>. QED  BY <1>3 DEF S

\* Less in each term is less in all.
LEMMA SumMonotone ==
  ASSUME NEW n \in Nat, NEW a, NEW b,
         \A k \in 0 .. n : a[k] \in Nat /\ b[k] \in Nat /\ a[k] <= b[k]
  PROVE  SumTo(a, n) <= SumTo(b, n)
<1>. DEFINE S == {m \in Nat : m <= n => SumTo(a, m) <= SumTo(b, m)}
<1>1. 0 \in S
  BY SumStep
<1>2. ASSUME NEW m \in Nat, m \in S PROVE m + 1 \in S
  <2>1. SUFFICES ASSUME m + 1 <= n PROVE SumTo(a, m + 1) <= SumTo(b, m + 1)
    OBVIOUS
  <2>2. /\ SumTo(a, m) <= SumTo(b, m) /\ a[m + 1] <= b[m + 1]
        /\ a[m + 1] \in Nat /\ b[m + 1] \in Nat
    BY <1>2, <2>1
  <2>3. SumTo(a, m) \in Nat /\ SumTo(b, m) \in Nat
    <3>1. \A k \in 0 .. m : a[k] \in Nat /\ b[k] \in Nat
      BY <2>1
    <3>. QED  BY <3>1, SumType
  <2>4. SumTo(a, m + 1) = SumTo(a, m) + a[m + 1] /\ SumTo(b, m + 1) = SumTo(b, m) + b[m + 1]
    BY SumStep
  <2>. QED  BY <2>2, <2>3, <2>4
<1>. HIDE DEF S
<1>3. n \in S
  BY <1>1, <1>2, Induction
<1>. QED  BY <1>3 DEF S

\* A change of one term changes the sum by as much.
LEMMA SumChange ==
  ASSUME NEW n \in Nat, NEW a, NEW b, NEW c \in 0 .. n,
         \A k \in 0 .. n : a[k] \in Nat /\ b[k] \in Nat /\ (k # c => a[k] = b[k])
  PROVE  SumTo(a, n) + b[c] = SumTo(b, n) + a[c]
<1>. DEFINE S == {m \in Nat : m <= n =>
                    IF m < c THEN SumTo(a, m) = SumTo(b, m)
                    ELSE SumTo(a, m) + b[c] = SumTo(b, m) + a[c]}
<1>0. c \in Nat /\ a[c] \in Nat /\ b[c] \in Nat
  OBVIOUS
<1>1. 0 \in S
  <2>1. SumTo(a, 0) = a[0] /\ SumTo(b, 0) = b[0] /\ a[0] \in Nat /\ b[0] \in Nat
    BY SumStep
  <2>2. CASE c = 0
    BY <1>0, <2>1, <2>2
  <2>3. CASE c # 0
    BY <1>0, <2>1, <2>3
  <2>. QED  BY <2>2, <2>3
<1>2. ASSUME NEW m \in Nat, m \in S PROVE m + 1 \in S
  <2>1. SUFFICES ASSUME m + 1 <= n
                 PROVE  IF m + 1 < c THEN SumTo(a, m + 1) = SumTo(b, m + 1)
                        ELSE SumTo(a, m + 1) + b[c] = SumTo(b, m + 1) + a[c]
    OBVIOUS
  <2>2. /\ IF m < c THEN SumTo(a, m) = SumTo(b, m)
           ELSE SumTo(a, m) + b[c] = SumTo(b, m) + a[c]
        /\ a[m + 1] \in Nat /\ b[m + 1] \in Nat /\ (m + 1 # c => a[m + 1] = b[m + 1])
    BY <1>2, <2>1
  <2>3. SumTo(a, m) \in Nat /\ SumTo(b, m) \in Nat
    <3>1. \A k \in 0 .. m : a[k] \in Nat /\ b[k] \in Nat
      BY <2>1
    <3>. QED  BY <3>1, SumType
  <2>4. SumTo(a, m + 1) = SumTo(a, m) + a[m + 1] /\ SumTo(b, m + 1) = SumTo(b, m) + b[m + 1]
    BY SumStep
  <2>5. CASE m + 1 < c
    BY <1>0, <2>2, <2>3, <2>4, <2>5
  <2>6. CASE m + 1 = c
    <3>1. SumTo(a, m) = SumTo(b, m) /\ a[m + 1] = a[c] /\ b[m + 1] = b[c]
      BY <1>0, <2>2, <2>6
    <3>. QED  BY <1>0, <2>3, <2>4, <2>6, <3>1
  <2>7. CASE m + 1 > c
    <3>1. SumTo(a, m) + b[c] = SumTo(b, m) + a[c] /\ a[m + 1] = b[m + 1]
      BY <1>0, <2>2, <2>7
    <3>. QED  BY <1>0, <2>2, <2>3, <2>4, <2>7, <3>1
  <2>. QED  BY <1>0, <2>5, <2>6, <2>7
<1>. HIDE DEF S
<1>3. n \in S
  BY <1>1, <1>2, Induction
<1>. QED  BY <1>0, <1>3 DEF S

\* a and b differ at c only.
OnlyAt(n, a, b, c) ==
  \A k \in 0 .. n : a[k] \in Nat /\ b[k] \in Nat /\ (k # c => a[k] = b[k])

\* A term that is less by s makes the sum less by s.
LEMMA SumWithout ==
  ASSUME NEW n \in Nat, NEW a, NEW b, NEW c \in 0 .. n, NEW s \in Nat,
         OnlyAt(n, a, b, c), a[c] = b[c] + s
  PROVE  SumTo(a, n) = SumTo(b, n) + s
<1>1. SumTo(a, n) + b[c] = SumTo(b, n) + a[c]
  BY SumChange DEF OnlyAt
<1>2. SumTo(a, n) \in Nat /\ SumTo(b, n) \in Nat
  BY SumType DEF OnlyAt
<1>3. b[c] \in Nat
  BY DEF OnlyAt
<1>. QED  BY <1>1, <1>2, <1>3

-----------------------------------------------------------------------------
\* What the items of a log and the parts of a package add.
SizeIn(log, i) == IF i = 0 THEN Placeholder ELSE log[i].size

Sizes(log, items) ==
  [i \in 0 .. Len(log) |-> IF i \in items THEN SizeIn(log, i) ELSE 0]

WeightIn(log, items) == SumTo(Sizes(log, items), Len(log))

PartsIn(log, req, lists, d) ==
  [n \in 0 .. Len(Order) |->
     IF n = 0 THEN req
     ELSE IF Order[n] = "diff" THEN d[1] + d[2] ELSE WeightIn(log, lists[Order[n]])]

EstimateIn(log, req, lists, d) == SumTo(PartsIn(log, req, lists, d), Len(Order))

Packages(log) == [Lists -> SUBSET (0 .. Len(log))]

\* The thirteen phases of the compactor: the diffs are the eighth, and each
\* other phase cuts one list.
LEMMA OrderFacts ==
  /\ Len(Order) = 13 /\ DOMAIN Order = 1 .. 13
  /\ \A n \in 1 .. 13 : Order[n] = "diff" <=> n = 8
  /\ \A n \in 1 .. 13 : n # 8 => Order[n] \in Lists
  /\ \A m, n \in 1 .. 13 : Order[m] = Order[n] => m = n
  /\ \A l \in Lists : \E n \in 1 .. 13 : n # 8 /\ Order[n] = l
<1>1. /\ Order[1] = "failed_approaches" /\ Order[2] = "commands"
      /\ Order[3] = "relevant_files" /\ Order[4] = "recent_conversation"
      /\ Order[5] = "completed_work" /\ Order[6] = "tests"
      /\ Order[7] = "pending_tasks" /\ Order[8] = "diff"
      /\ Order[9] = "errors" /\ Order[10] = "decisions"
      /\ Order[11] = "assumptions" /\ Order[12] = "current_state"
      /\ Order[13] = "modified_files"
      /\ Len(Order) = 13 /\ DOMAIN Order = 1 .. 13
  BY DEF Order
<1>2. \A n \in 1 .. 13 : n \in {1, 2, 3, 4, 5, 6, 7, 8, 9, 10, 11, 12, 13}
  OBVIOUS
<1>3. \A n \in 1 .. 13 : Order[n] = "diff" <=> n = 8
  BY <1>1, <1>2
<1>4. \A n \in 1 .. 13 : n # 8 => Order[n] \in Lists
  BY <1>1, <1>2 DEF Lists
<1>5. \A m, n \in 1 .. 13 : Order[m] = Order[n] => m = n
  BY <1>1, <1>2
<1>6. \A l \in Lists : \E n \in 1 .. 13 : n # 8 /\ Order[n] = l
  BY <1>1 DEF Lists
<1>. QED  BY <1>1, <1>3, <1>4, <1>5, <1>6

\* The number of phases and the phase of the diffs, on their own.
LEMMA OrderLength == Len(Order) = 13 /\ Order[8] = "diff"
BY OrderFacts

\* The phase of a list is its place in the order.
LEMMA PositionOf ==
  ASSUME NEW n \in 1 .. 13
  PROVE  Position(Order[n]) = n
BY OrderFacts DEF Position

\* The size of an item is a number.
LEMMA SizeType ==
  ASSUME NEW log \in Seq(Events), NEW i \in 0 .. Len(log)
  PROVE  SizeIn(log, i) \in Nat
<1>1. CASE i = 0
  BY <1>1, NumbersTyped DEF SizeIn
<1>2. CASE i # 0
  <2>1. log[i] \in Events
    BY <1>2
  <2>. QED  BY <1>2, <2>1, EventsTyped DEF SizeIn
<1>. QED  BY <1>1, <1>2

\* So is the weight of a list.
LEMMA WeightType ==
  ASSUME NEW log \in Seq(Events), NEW items
  PROVE  /\ \A i \in 0 .. Len(log) : Sizes(log, items)[i] \in Nat
         /\ WeightIn(log, items) \in Nat
<1>1. \A i \in 0 .. Len(log) : Sizes(log, items)[i] \in Nat
  BY SizeType DEF Sizes
<1>2. Len(log) \in Nat
  OBVIOUS
<1>. QED  BY <1>1, <1>2, SumType DEF WeightIn

\* A list with fewer items adds less.
LEMMA WeightMonotone ==
  ASSUME NEW log \in Seq(Events), NEW items, NEW more, items \subseteq more
  PROVE  WeightIn(log, items) <= WeightIn(log, more)
<1>1. \A i \in 0 .. Len(log) : /\ Sizes(log, items)[i] \in Nat /\ Sizes(log, more)[i] \in Nat
                               /\ Sizes(log, items)[i] <= Sizes(log, more)[i]
  BY SizeType DEF Sizes
<1>2. Len(log) \in Nat
  OBVIOUS
<1>. QED  BY <1>1, <1>2, SumMonotone DEF WeightIn

\* An item adds its size.
LEMMA WeightWithout ==
  ASSUME NEW log \in Seq(Events), NEW items \in SUBSET (0 .. Len(log)), NEW i \in items
  PROVE  WeightIn(log, items) = WeightIn(log, items \ {i}) + SizeIn(log, i)
<1>. DEFINE a == Sizes(log, items)
            b == Sizes(log, items \ {i})
<1>1. a[i] = SizeIn(log, i) /\ b[i] = 0 /\ SizeIn(log, i) \in Nat
  BY SizeType DEF Sizes
<1>2. \A k \in 0 .. Len(log) : a[k] \in Nat /\ b[k] \in Nat
  BY WeightType
<1>3. \A k \in 0 .. Len(log) : k # i => a[k] = b[k]
  BY DEF Sizes
<1>4. WeightIn(log, items) \in Nat /\ WeightIn(log, items \ {i}) \in Nat
  BY WeightType
<1>5. Len(log) \in Nat /\ i \in 0 .. Len(log)
  OBVIOUS
<1>. HIDE DEF a, b
<1>6. SumTo(a, Len(log)) + b[i] = SumTo(b, Len(log)) + a[i]
  BY <1>2, <1>3, <1>5, SumChange
<1>7. WeightIn(log, items) = SumTo(a, Len(log)) /\ WeightIn(log, items \ {i}) = SumTo(b, Len(log))
  BY DEF WeightIn, a, b
<1>. QED  BY <1>1, <1>4, <1>6, <1>7

\* An empty list adds nothing.
LEMMA WeightEmpty ==
  ASSUME NEW log \in Seq(Events)
  PROVE  WeightIn(log, {}) = 0
<1>. DEFINE n == Len(log)
            S == {m \in Nat : m <= n => SumTo(Sizes(log, {}), m) = 0}
<1>1. n \in Nat /\ \A i \in 0 .. n : Sizes(log, {})[i] = 0
  BY DEF Sizes
<1>. HIDE DEF n
<1>2. 0 \in S
  BY <1>1, SumStep
<1>3. ASSUME NEW m \in Nat, m \in S PROVE m + 1 \in S
  <2>1. SUFFICES ASSUME m + 1 <= n PROVE SumTo(Sizes(log, {}), m + 1) = 0
    OBVIOUS
  <2>2. SumTo(Sizes(log, {}), m) = 0 /\ Sizes(log, {})[m + 1] = 0
    BY <1>1, <1>3, <2>1
  <2>3. SumTo(Sizes(log, {}), m + 1) = SumTo(Sizes(log, {}), m) + Sizes(log, {})[m + 1]
    BY SumStep
  <2>. QED  BY <2>2, <2>3
<1>. HIDE DEF S
<1>4. n \in S
  BY <1>1, <1>2, <1>3, Induction
<1>. QED  BY <1>1, <1>4 DEF S, n, WeightIn

\* The parts of a package are numbers, and so is its estimate.
LEMMA EstimateType ==
  ASSUME NEW log \in Seq(Events), NEW req \in Nat, NEW lists, NEW d \in Nat \X Nat
  PROVE  /\ \A n \in 0 .. 13 : PartsIn(log, req, lists, d)[n] \in Nat
         /\ EstimateIn(log, req, lists, d) \in Nat
<1>1. \A n \in 0 .. 13 : PartsIn(log, req, lists, d)[n] \in Nat
  <2>1. SUFFICES ASSUME NEW n \in 0 .. 13 PROVE PartsIn(log, req, lists, d)[n] \in Nat
    OBVIOUS
  <2>2. WeightIn(log, lists[Order[n]]) \in Nat
    BY WeightType
  <2>3. d[1] + d[2] \in Nat
    OBVIOUS
  <2>. QED  BY <2>2, <2>3, OrderFacts DEF PartsIn
<1>2. 13 \in Nat
  OBVIOUS
<1>. QED  BY <1>1, <1>2, SumType, OrderFacts DEF EstimateIn

\* Shorter diffs never make a package larger.
LEMMA EstimateMonotone ==
  ASSUME NEW log \in Seq(Events), NEW req \in Nat, NEW lists,
         NEW c \in Nat \X Nat, NEW d \in Nat \X Nat, c[1] <= d[1], c[2] <= d[2]
  PROVE  EstimateIn(log, req, lists, c) <= EstimateIn(log, req, lists, d)
<1>. DEFINE a == PartsIn(log, req, lists, c)
            b == PartsIn(log, req, lists, d)
<1>1. \A n \in 0 .. 13 : a[n] \in Nat /\ b[n] \in Nat
  BY EstimateType
<1>2. c[1] + c[2] <= d[1] + d[2]
  OBVIOUS
<1>3. \A n \in 0 .. 13 : a[n] <= b[n]
  <2>1. SUFFICES ASSUME NEW n \in 0 .. 13 PROVE a[n] <= b[n]
    OBVIOUS
  <2>2. a[n] = b[n] \/ (a[n] = c[1] + c[2] /\ b[n] = d[1] + d[2])
    BY OrderFacts DEF PartsIn
  <2>. HIDE DEF a, b
  <2>3. a[n] \in Nat /\ b[n] \in Nat
    BY <1>1
  <2>. QED  BY <1>2, <2>2, <2>3
<1>4. 13 \in Nat
  OBVIOUS
<1>. HIDE DEF a, b
<1>5. SumTo(a, 13) <= SumTo(b, 13)
  BY <1>1, <1>3, <1>4, SumMonotone
<1>. QED  BY <1>5, OrderFacts DEF EstimateIn, a, b

\* A list of a package without one of its items.
Without(lists, l, i) == [lists EXCEPT ![l] = @ \ {i}]

\* A package with one item less is smaller by the size of the item.
LEMMA EstimateWithout ==
  ASSUME NEW log \in Seq(Events), NEW req \in Nat, NEW lists \in Packages(log),
         NEW d \in Nat \X Nat, NEW n \in 1 .. 13, n # 8, NEW i \in lists[Order[n]]
  PROVE  EstimateIn(log, req, lists, d)
           = EstimateIn(log, req, Without(lists, Order[n], i), d) + SizeIn(log, i)
<1>. DEFINE l == Order[n]
            less == Without(lists, l, i)
            a == PartsIn(log, req, lists, d)
            b == PartsIn(log, req, less, d)
<1>1. \A k \in 0 .. 13 : a[k] \in Nat /\ b[k] \in Nat
  BY EstimateType
<1>2. l \in Lists /\ lists[l] \in SUBSET (0 .. Len(log)) /\ less[l] = lists[l] \ {i}
  BY OrderFacts DEF Packages, Without
<1>3. a[n] = WeightIn(log, lists[l]) /\ b[n] = WeightIn(log, less[l])
  <2>1. n \in 0 .. Len(Order) /\ n # 0 /\ l # "diff"
    BY OrderFacts
  <2>. QED  BY <2>1 DEF PartsIn
<1>4. a[n] = b[n] + SizeIn(log, i)
  BY <1>2, <1>3, WeightWithout
<1>5. ASSUME NEW k \in 0 .. 13, k # n PROVE a[k] = b[k]
  <2>1. CASE k = 0 \/ k = 8
    BY <2>1, OrderFacts DEF PartsIn
  <2>2. CASE k \in 1 .. 13 /\ k # 8
    <3>1. Order[k] \in Lists /\ Order[k] # l
      BY <1>5, <2>2, OrderFacts
    <3>2. less[Order[k]] = lists[Order[k]]
      BY <3>1 DEF Packages, Without
    <3>. QED  BY <2>2, <3>2, OrderFacts DEF PartsIn
  <2>. QED  BY <2>1, <2>2
<1>6. SizeIn(log, i) \in Nat
  <2>1. i \in 0 .. Len(log)
    BY <1>2
  <2>. QED  BY <2>1, SizeType
<1>. DEFINE top == Len(Order)
<1>7. top \in Nat /\ n \in 0 .. top /\ top = 13
  BY OrderFacts
<1>. HIDE DEF a, b, top
<1>8. \A k \in 0 .. top : a[k] \in Nat /\ b[k] \in Nat /\ (k # n => a[k] = b[k])
  BY <1>1, <1>5, <1>7
<1>9. OnlyAt(top, a, b, n)
  BY <1>8 DEF OnlyAt
<1>10. SumTo(a, top) = SumTo(b, top) + SizeIn(log, i)
  BY <1>4, <1>6, <1>7, <1>9, SumWithout
<1>. QED  BY <1>10 DEF EstimateIn, a, b, top

-----------------------------------------------------------------------------
\* The events reduced to a list.
Reduced(l) ==
  {i \in VisibleEvents : l \in ListsOf[events[i].kind] /\ ~ events[i].excluded}

\* The lists hold what was reduced to them; the conversation loses its oldest
\* messages only.
ReducedInv ==
  /\ \A l \in Lists : package[l] \subseteq Reduced(l) \cup {0}
  /\ phase = "window" => /\ package["recent_conversation"] = Conversation
                         /\ 0 \notin package["current_state"]
  /\ phase \in {"compact", "done"} =>
       IsSuffixOf(package["recent_conversation"], Conversation)

Now == EstimateIn(events, Required, package, diff)

Lost(l) == begun.package[l] \ package[l]

ListPhases == 1 .. 13 \ {8}

\* The diffs are cut in their phase, and the phases that are over left nothing
\* while the package is too large.
EmptiedInv ==
  /\ at <= 8 => diff = begun.diff
  /\ Now > budget =>
       \A n \in 1 .. at - 1 : IF n = 8 THEN diff = Cut(begun.diff)
                                       ELSE package[Order[n]] = {}

\* Items are lost from the oldest, in the order of the phases, and only when
\* the lists of the phases before are empty.
LostInv ==
  /\ \A l \in Lists : IsSuffixOf(package[l], begun.package[l])
  /\ \A n \in ListPhases : n > at => Lost(Order[n]) = {}
  /\ \A n \in ListPhases : Lost(Order[n]) # {} =>
       \A k \in ListPhases : k < n => package[Order[k]] = {}

\* The diffs are cut only when the lists before them are empty, and before an
\* item of the lists after them is lost.
CutInv ==
  /\ diff # begun.diff => \A n \in 1 .. 7 : package[Order[n]] = {}
  /\ \A n \in ListPhases : n > 8 /\ Lost(Order[n]) # {} => diff = Cut(begun.diff)

\* The item lost last would not have fitted, with the diffs as they were.
Then(n) == EstimateIn(events, Required, package, IF n < 8 THEN begun.diff ELSE diff)

LastInv ==
  \A n \in ListPhases :
    /\ Lost(Order[n]) # {}
    /\ \A k \in ListPhases : k > n => Lost(Order[k]) = {}
    => Then(n) + SizeIn(events, Max(Lost(Order[n]))) > budget

\* The lists next to which the window was sized, and the messages it cut.
Others == [begun.package EXCEPT !["recent_conversation"] = {}, !["current_state"] = @ \ {0}]

WindowCut == Conversation \ begun.package["recent_conversation"]

\* The newest message the window cut would not have fitted.
WindowInv ==
  /\ IsSuffixOf(begun.package["recent_conversation"], Conversation)
  /\ WindowCut # {} =>
       Estimate(Others, begun.diff) + 64
         + Weight(begun.package["recent_conversation"] \cup {Max(WindowCut)}) > budget

CompactInv ==
  phase \in {"compact", "done"} => EmptiedInv /\ LostInv /\ CutInv /\ LastInv /\ WindowInv

EndInv ==
  /\ phase = "done" => ~ (Now > budget)
  /\ phase = "failed" =>
       budget = 0 \/ EstimateIn(events, Required, Empty, Cut(begun.diff)) > budget

BegunTyped ==
  /\ begun.diff \in Nat \X Nat /\ begun.package \in [Lists -> SUBSET Positions]
  /\ phase \in {"reduce", "window"} => at = 1

PackageInv == TypeOK /\ BegunTyped /\ ReducedInv /\ CompactInv /\ EndInv

-----------------------------------------------------------------------------
\* The estimate of the model, with the log and what is required as arguments.
LEMMA EstimateIs ==
  ASSUME NEW lists, NEW d
  PROVE  Estimate(lists, d) = EstimateIn(events, Required, lists, d)
BY DEF Estimate, EstimateIn, Parts, PartsIn, Weight, WeightIn, Sizes, SizeOf, SizeIn,
  Positions

\* So is the weight of a list.
LEMMA WeightIs ==
  ASSUME NEW items
  PROVE  Weight(items) = WeightIn(events, items)
BY DEF Weight, WeightIn, Sizes, SizeOf, SizeIn, Positions

\* The objectives are user messages of the log.
LEMMA RequiredType ==
  ASSUME events \in Seq(Events)
  PROVE  Required \in Nat
<1>1. Fixed \in Nat
  BY NumbersTyped
<1>2. CASE UserMessages = {}
  BY <1>1, <1>2 DEF Required
<1>3. CASE UserMessages # {}
  <2>1. UserMessages \in SUBSET (0 .. Len(events)) /\ UserMessages \in SUBSET Nat
        /\ Len(events) \in Nat
    BY DEF UserMessages, VisibleEvents
  <2>2. Min(UserMessages) \in 0 .. Len(events) /\ Max(UserMessages) \in 0 .. Len(events)
    BY <1>3, <2>1, MinOf, MaxOf
  <2>3. \A i : SizeOf(i) = SizeIn(events, i)
    BY DEF SizeOf, SizeIn
  <2>4. SizeOf(Min(UserMessages)) \in Nat /\ SizeOf(Max(UserMessages)) \in Nat
    BY <2>2, <2>3, SizeType
  <2>. QED  BY <1>1, <1>3, <2>4 DEF Required
<1>. QED  BY <1>2, <1>3

\* They stay what they are while the log does.
LEMMA LogUnchanged ==
  ASSUME events' = events
  PROVE  /\ Required' = Required /\ Conversation' = Conversation /\ Positions' = Positions
         /\ \A l : Reduced(l)' = Reduced(l)
<1>1. VisibleEvents' = VisibleEvents
  BY DEF VisibleEvents, Visible
<1>2. UserMessages' = UserMessages
  BY <1>1 DEF UserMessages
<1>3. Required' = Required
  BY <1>2 DEF Required, SizeOf
<1>4. Conversation' = Conversation /\ \A l : Reduced(l)' = Reduced(l)
  BY <1>1 DEF Conversation, Reduced
<1>5. Positions' = Positions
  BY DEF Positions
<1>. QED  BY <1>3, <1>4, <1>5

\* The window stays what it was while the compactor works.
LEMMA WindowUnchanged ==
  ASSUME WindowInv, UNCHANGED <<events, budget, begun>>
  PROVE  WindowInv'
<1>1. Conversation' = Conversation /\ Required' = Required
  BY LogUnchanged
<1>2. Others' = Others /\ WindowCut' = WindowCut
  BY <1>1 DEF Others, WindowCut
<1>3. Estimate(Others, begun.diff)' = Estimate(Others, begun.diff)
  BY <1>1, <1>2 DEF Estimate, Parts, Weight, SizeOf, Positions
<1>. QED  BY <1>1, <1>2, <1>3 DEF WindowInv, Weight, SizeOf, Positions

\* The list of the conversation holds the messages that may be shown.
LEMMA ReducedConversation ==
  ASSUME events \in Seq(Events)
  PROVE  Reduced("recent_conversation") = Conversation
<1>1. ASSUME NEW k \in Kinds
      PROVE  "recent_conversation" \in ListsOf[k] <=> k \in {"user", "assistant", "system"}
  BY DEF Kinds, ListsOf
<1>2. ASSUME NEW i \in VisibleEvents
      PROVE  /\ events[i].kind \in Kinds
             /\ events[i].excluded => events[i].kind \in {"read", "change"}
  BY EventsTyped DEF VisibleEvents
<1>. QED  BY <1>1, <1>2 DEF Reduced, Conversation

\* What a list holds are positions.
LEMMA ReducedPositions ==
  /\ \A l : Reduced(l) \subseteq Positions \ {0}
  /\ Conversation \subseteq Positions \ {0}
  /\ VisibleEvents \subseteq Positions \ {0}
BY DEF Reduced, Conversation, VisibleEvents, Positions

\* A list is its own newest part; its part from a position on is one too.
LEMMA SuffixFrom ==
  ASSUME NEW of \in SUBSET Nat, NEW k \in Nat
  PROVE  IsSuffixOf(of, of) /\ IsSuffixOf({i \in of : i >= k}, of)
BY DEF IsSuffixOf

\* The newest part of a list without its oldest item is one.
LEMMA SuffixWithout ==
  ASSUME NEW of \in SUBSET Nat, NEW items, IsSuffixOf(items, of), items # {}
  PROVE  IsSuffixOf(items \ {Min(items)}, of)
<1>1. items \in SUBSET Nat /\ \A i \in items, j \in of \ items : j < i
  BY DEF IsSuffixOf
<1>2. Min(items) \in items /\ \A i \in items : Min(items) <= i
  BY <1>1, MinOf
<1>. DEFINE m == Min(items)
<1>. HIDE DEF m
<1>3. m \in items /\ \A i \in items : m <= i
  BY <1>2 DEF m
<1>4. \A i \in items \ {m}, j \in of \ (items \ {m}) : j < i
  <2>1. SUFFICES ASSUME NEW i \in items \ {m}, NEW j \in of \ (items \ {m}) PROVE j < i
    OBVIOUS
  <2>2. CASE j = m
    BY <1>1, <1>3, <2>2
  <2>3. CASE j # m
    BY <1>1, <2>3
  <2>. QED  BY <2>2, <2>3
<1>. QED  BY <1>1, <1>3, <1>4 DEF IsSuffixOf, m

\* Such a part takes nothing from a list of numbers but its own.
LEMMA SuffixOfNumbers ==
  ASSUME NEW of \in SUBSET Nat, NEW items, IsSuffixOf(items, of)
  PROVE  items \in SUBSET Nat
BY DEF IsSuffixOf

-----------------------------------------------------------------------------
\* A package starts empty.
LEMMA InitPackage == Init => PackageInv
<1>. SUFFICES ASSUME Init PROVE PackageInv
  OBVIOUS
<1>1. events \in Seq(Events)
  BY NumbersTyped DEF Init, BoundedSeq, SeqOf
<1>2. budget \in Budgets /\ diff \in Nat \X Nat /\ phase = "reduce" /\ at = 1
      /\ package = Empty /\ begun.diff = diff /\ begun.package = Empty
  BY NumbersTyped DEF Init
<1>3. Empty \in [Lists -> SUBSET Positions] /\ \A l \in Lists : Empty[l] = {}
  BY DEF Empty
<1>4. TypeOK
  BY <1>1, <1>2, <1>3, OrderFacts DEF TypeOK
<1>. QED  BY <1>2, <1>3, <1>4 DEF PackageInv, BegunTyped, ReducedInv, CompactInv, EndInv

\* The events are reduced.
LEMMA ReducePackage ==
  ASSUME PackageInv, Reduce
  PROVE  PackageInv'
<1>1. /\ events \in Seq(Events) /\ budget \in Budgets /\ diff \in Nat \X Nat
      /\ at = 1 /\ phase' = "window" /\ TypeOK /\ BegunTyped
      /\ UNCHANGED <<events, budget, diff, at, begun>>
  BY DEF PackageInv, TypeOK, BegunTyped, Reduce
<1>2. package' = [l \in Lists |-> Reduced(l)]
  BY DEF Reduce, Reduced
<1>3. /\ Conversation' = Conversation /\ Positions' = Positions
      /\ \A l : Reduced(l)' = Reduced(l)
  BY <1>1, LogUnchanged
<1>4. package' \in [Lists -> SUBSET Positions]
  BY <1>2, ReducedPositions
<1>5. TypeOK'
  BY <1>1, <1>3, <1>4 DEF TypeOK
<1>6. BegunTyped'
  BY <1>1, <1>3 DEF BegunTyped
<1>7. ReducedInv'
  <2>1. "recent_conversation" \in Lists
    BY DEF Lists
  <2>2. package'["recent_conversation"] = Conversation
    BY <1>1, <1>2, <2>1, ReducedConversation
  <2>3. 0 \notin package'["current_state"]
    <3>1. "current_state" \in Lists /\ 0 \notin Reduced("current_state")
      BY ReducedPositions DEF Lists
    <3>. QED  BY <1>2, <3>1
  <2>. QED  BY <1>1, <1>2, <1>3, <2>2, <2>3 DEF ReducedInv
<1>. QED  BY <1>1, <1>5, <1>6, <1>7 DEF PackageInv, CompactInv, EndInv

\* The room left for the conversation is a number.
LEMMA RoomType ==
  ASSUME NEW x \in Int
  PROVE  Max({0, x}) \in Nat /\ Max({0, x}) >= x
<1>1. \E m \in {0, x} : \A n \in {0, x} : m >= n
  <2>1. CASE x >= 0
    BY <2>1
  <2>2. CASE x < 0
    BY <2>2
  <2>. QED  BY <2>1, <2>2
<1>2. Max({0, x}) \in {0, x} /\ \A n \in {0, x} : Max({0, x}) >= n
  BY <1>1 DEF Max
<1>3. Max({0, x}) >= 0 /\ Max({0, x}) >= x /\ Max({0, x}) \in Int
  BY <1>2
<1>. QED  BY <1>3

\* The window is the newest part of the conversation, and as much of it as
\* there is room for.
LEMMA WindowIsNewest ==
  ASSUME events \in Seq(Events), NEW conversation \in SUBSET Positions, NEW room \in Nat
  PROVE  LET window == WindowOf(conversation, room)
             cut == conversation \ window
         IN  /\ IsSuffixOf(window, conversation)
             /\ cut # {} => Weight(window \cup {Max(cut)}) > room
<1>. DEFINE from(k) == {i \in conversation : i >= k}
            fits == {k \in 0 .. Len(events) + 1 : Weight(from(k)) <= room}
<1>1. Len(events) \in Nat /\ conversation \in SUBSET Nat
  BY DEF Positions
<1>2. from(Len(events) + 1) = {}
  <2>1. \A i \in conversation : i \in Nat /\ i <= Len(events)
    BY <1>1 DEF Positions
  <2>2. \A i \in conversation : ~ (i >= Len(events) + 1)
    BY <1>1, <2>1
  <2>. QED  BY <2>2
<1>3. Weight(from(Len(events) + 1)) = 0
  BY <1>2, WeightIs, WeightEmpty
<1>4. Len(events) + 1 \in fits
  BY <1>1, <1>3
<1>5. fits \in SUBSET Nat /\ fits # {}
  <2>1. fits \subseteq 0 .. Len(events) + 1
    OBVIOUS
  <2>. HIDE DEF fits
  <2>. QED  BY <1>1, <1>4, <2>1
<1>6. WindowOf(conversation, room) = from(Min(fits))
  BY DEF WindowOf
<1>7. \A k \in 0 .. Len(events) + 1 : k \notin fits => ~ (Weight(from(k)) <= room)
  OBVIOUS
<1>. HIDE DEF fits
<1>8. Min(fits) \in Nat /\ \A k \in fits : Min(fits) <= k
  BY <1>5, MinOf
<1>9. IsSuffixOf(from(Min(fits)), conversation)
  BY <1>1, <1>8, SuffixFrom
<1>. DEFINE least == Min(fits)
            cut == conversation \ from(least)
            newest == Max(cut)
<1>10. ASSUME cut # {} PROVE Weight(from(least) \cup {newest}) > room
  <2>1. cut \in SUBSET (0 .. Len(events)) /\ \A i \in cut : ~ (i >= least)
    BY DEF Positions
  <2>2. newest \in cut /\ \A i \in cut : i <= newest
    BY <1>1, <1>10, <2>1, MaxOf
  <2>. HIDE DEF newest, least
  <2>3. newest \in conversation /\ newest \in Nat /\ least \in Nat /\ newest < least
    BY <1>1, <1>8, <2>1, <2>2 DEF least
  <2>4. from(newest) = from(least) \cup {newest}
    <3>1. ASSUME NEW i \in conversation
          PROVE  i >= newest <=> i >= least \/ i = newest
      <4>1. i \in Nat
        BY <1>1
      <4>2. CASE i \in cut
        BY <2>1, <2>2, <2>3, <4>1, <4>2
      <4>3. CASE i \notin cut
        BY <2>3, <4>1, <4>3
      <4>. QED  BY <4>2, <4>3
    <3>. QED  BY <2>3, <3>1
  <2>5. newest \in 0 .. Len(events) + 1 /\ newest \notin fits
    BY <1>1, <1>8, <2>1, <2>2, <2>3 DEF least
  <2>6. ~ (Weight(from(newest)) <= room)
    BY <1>7, <2>5
  <2>7. Weight(from(newest)) \in Nat
    BY WeightIs, WeightType
  <2>. DEFINE w == Weight(from(newest))
  <2>8. w = Weight(from(least) \cup {newest})
    BY <2>4
  <2>9. w \in Nat /\ ~ (w <= room)
    BY <2>6, <2>7
  <2>. HIDE DEF w
  <2>10. w > room
    BY <2>9
  <2>. QED  BY <2>8, <2>10
<1>. HIDE DEF from
<1>. QED  BY <1>6, <1>9, <1>10

\* The conversation is cut to the window, and a note stands for the state.
LEMMA WindowPackage ==
  ASSUME PackageInv, Window
  PROVE  PackageInv'
<1>. DEFINE structured ==
              Estimate([package EXCEPT !["recent_conversation"] = {}], diff)
            room == Max({0, budget - (structured + 64)})
            window == WindowOf(Conversation, room)
<1>1. /\ events \in Seq(Events) /\ budget \in Budgets /\ budget \in Nat
      /\ diff \in Nat \X Nat /\ package \in [Lists -> SUBSET Positions]
      /\ at = 1 /\ phase = "window" /\ TypeOK /\ BegunTyped /\ ReducedInv
      /\ phase' \in {"failed", "compact"} /\ (phase' = "failed" => budget = 0)
      /\ UNCHANGED <<events, budget, diff, at>>
  BY NumbersTyped DEF PackageInv, TypeOK, BegunTyped, Window
<1>2. /\ Conversation' = Conversation /\ Positions' = Positions
      /\ \A l : Reduced(l)' = Reduced(l)
  BY <1>1, LogUnchanged
<1>3. package["recent_conversation"] = Conversation
  BY <1>1 DEF ReducedInv
<1>4. /\ package' = [package EXCEPT
                       !["recent_conversation"] = window,
                       !["current_state"] = IF @ = {} THEN {0} ELSE @]
      /\ begun' = [diff |-> diff, package |-> package']
  BY <1>3 DEF Window
<1>5. structured \in Nat
  BY <1>1, EstimateIs, EstimateType, RequiredType
<1>. HIDE DEF structured
<1>6. room \in Nat /\ room >= budget - (structured + 64)
  <2>1. budget - (structured + 64) \in Int
    BY <1>1, <1>5
  <2>. QED  BY <2>1, RoomType
<1>. HIDE DEF room
<1>7. Conversation \in SUBSET Positions /\ Conversation \in SUBSET Nat /\ 0 \in Positions
  BY <1>1, ReducedPositions DEF Positions
<1>8. /\ IsSuffixOf(window, Conversation)
      /\ Conversation \ window # {} => Weight(window \cup {Max(Conversation \ window)}) > room
  BY <1>1, <1>6, <1>7, WindowIsNewest
<1>. HIDE DEF window
<1>9. window \subseteq Conversation
  BY <1>8 DEF IsSuffixOf
<1>10. /\ "recent_conversation" \in Lists /\ "current_state" \in Lists
  BY DEF Lists
<1>11. package' \in [Lists -> SUBSET Positions]
  BY <1>1, <1>4, <1>7, <1>9
<1>12. TypeOK'
  BY <1>1, <1>2, <1>11 DEF TypeOK
<1>13. BegunTyped'
  BY <1>1, <1>2, <1>4, <1>11 DEF BegunTyped
<1>14. ReducedInv'
  <2>1. package'["recent_conversation"] = window
    BY <1>1, <1>4, <1>10
  <2>2. ASSUME NEW l \in Lists PROVE package'[l] \subseteq Reduced(l) \cup {0}
    <3>1. package[l] \subseteq Reduced(l) \cup {0}
      BY <1>1 DEF ReducedInv
    <3>2. CASE l = "recent_conversation"
      BY <1>1, <1>9, <2>1, <3>2, ReducedConversation
    <3>3. CASE l = "current_state"
      BY <1>1, <1>4, <1>10, <3>1, <3>3
    <3>4. CASE l \notin {"recent_conversation", "current_state"}
      BY <1>1, <1>4, <3>1, <3>4
    <3>. QED  BY <3>2, <3>3, <3>4
  <2>. QED  BY <1>1, <1>2, <1>8, <2>1, <2>2 DEF ReducedInv
<1>15. CompactInv'
  <2>1. begun'.package = package' /\ begun'.diff = diff'
    BY <1>1, <1>4
  <2>2. \A n \in ListPhases : Lost(Order[n])' = {}
    BY <2>1 DEF Lost
  <2>3. EmptiedInv'
    BY <1>1, <2>1 DEF EmptiedInv
  <2>4. LostInv'
    <3>1. \A l \in Lists : IsSuffixOf(package'[l], package'[l])
      BY DEF IsSuffixOf
    <3>. QED  BY <2>1, <2>2, <3>1 DEF LostInv
  <2>5. LastInv'
    BY <2>2 DEF LastInv
  <2>6. CutInv'
    BY <2>1, <2>2 DEF CutInv
  <2>7. WindowInv'
    <3>1. /\ begun'.package["recent_conversation"] = window
          /\ begun'.package["current_state"] \ {0} = package["current_state"]
      BY <1>1, <1>4, <1>10, <2>1 DEF ReducedInv
    <3>2. Others' = [package EXCEPT !["recent_conversation"] = {}]
      <4>1. Others' = [package' EXCEPT !["recent_conversation"] = {},
                                       !["current_state"] = package["current_state"]]
        BY <1>10, <1>11, <2>1, <3>1 DEF Others
      <4>2. /\ package' \in [Lists -> SUBSET Positions]
            /\ \A l \in Lists \ {"recent_conversation", "current_state"} : package'[l] = package[l]
        BY <1>1, <1>4, <1>11
      <4>. QED  BY <1>1, <1>10, <4>1, <4>2
    <3>3. Estimate(Others, begun.diff)' = structured
      <4>1. Estimate(Others, begun.diff)' = Estimate([package EXCEPT !["recent_conversation"] = {}], diff)
        BY <1>1, <1>4, <3>2, LogUnchanged DEF Estimate, Parts, Weight, SizeOf, Positions
      <4>. QED  BY <4>1 DEF structured
    <3>4. \A items : Weight(items)' = Weight(items)
      BY <1>1 DEF Weight, SizeOf, Positions
    <3>5. WindowCut' = Conversation \ window
      BY <1>2, <3>1 DEF WindowCut
    <3>6. ASSUME Conversation \ window # {}
          PROVE  structured + 64 + Weight(window \cup {Max(Conversation \ window)}) > budget
      <4>. DEFINE w == Weight(window \cup {Max(Conversation \ window)})
      <4>1. w \in Nat
        BY <1>1, WeightIs, WeightType
      <4>2. w > room
        BY <1>8, <3>6
      <4>. HIDE DEF w
      <4>3. structured + 64 + w > budget
        BY <1>1, <1>5, <1>6, <4>1, <4>2
      <4>. QED  BY <4>3 DEF w
    <3>7. IsSuffixOf(begun'.package["recent_conversation"], Conversation')
      BY <1>2, <1>8, <3>1
    <3>8. WindowCut' # {} =>
            Estimate(Others, begun.diff)' + 64
              + Weight(begun.package["recent_conversation"] \cup {Max(WindowCut)})' > budget'
      <4>1. Weight(begun.package["recent_conversation"] \cup {Max(WindowCut)})'
              = Weight(window \cup {Max(Conversation \ window)})
        BY <1>1, <3>1, <3>5 DEF Weight, SizeOf, Positions
      <4>. QED  BY <1>1, <3>3, <3>5, <3>6, <4>1
    <3>. QED  BY <3>7, <3>8 DEF WindowInv
  <2>. QED  BY <2>3, <2>4, <2>5, <2>6, <2>7 DEF CompactInv
<1>16. EndInv'
  BY <1>1 DEF EndInv
<1>. QED  BY <1>12, <1>13, <1>14, <1>15, <1>16 DEF PackageInv

\* What the steps of the compactor find.
LEMMA CompactingFacts ==
  ASSUME PackageInv, phase = "compact"
  PROVE  /\ events \in Seq(Events) /\ budget \in Budgets /\ budget \in Nat
         /\ diff \in Nat \X Nat /\ package \in [Lists -> SUBSET Positions]
         /\ begun.package \in [Lists -> SUBSET Positions] /\ begun.diff \in Nat \X Nat
         /\ at \in 1 .. 14 /\ Required \in Nat /\ Now \in Nat
         /\ TypeOK /\ BegunTyped /\ ReducedInv /\ EmptiedInv /\ LostInv /\ LastInv
         /\ CutInv /\ WindowInv
         /\ Exceeds <=> Now > budget
<1>1. /\ TypeOK /\ BegunTyped /\ ReducedInv /\ EmptiedInv /\ LostInv /\ LastInv
      /\ CutInv /\ WindowInv
  BY DEF PackageInv, CompactInv
<1>2. /\ events \in Seq(Events) /\ budget \in Budgets /\ budget \in Nat
      /\ diff \in Nat \X Nat /\ package \in [Lists -> SUBSET Positions]
      /\ begun.package \in [Lists -> SUBSET Positions] /\ begun.diff \in Nat \X Nat
      /\ at \in 1 .. 14
  <2>1. events \in Seq(Events) /\ budget \in Budgets /\ diff \in Nat \X Nat
        /\ package \in [Lists -> SUBSET Positions] /\ at \in 1 .. 14
    BY <1>1, OrderLength DEF TypeOK
  <2>2. budget \in Nat
    BY <2>1, NumbersTyped
  <2>. QED  BY <1>1, <2>1, <2>2 DEF BegunTyped
<1>3. Required \in Nat /\ Now \in Nat
  BY <1>2, RequiredType, EstimateType DEF Now
<1>4. Exceeds <=> Now > budget
  BY EstimateIs DEF Exceeds, Now
<1>. QED  BY <1>1, <1>2, <1>3, <1>4

\* The oldest item of a list is given up.
LEMMA DiscardPackage ==
  ASSUME PackageInv, DiscardOldest
  PROVE  PackageInv'
<1>. DEFINE l == Order[at]
            m == Min(package[l])
<1>1. /\ events \in Seq(Events) /\ budget \in Budgets /\ budget \in Nat
      /\ diff \in Nat \X Nat /\ package \in [Lists -> SUBSET Positions]
      /\ begun.package \in [Lists -> SUBSET Positions] /\ begun.diff \in Nat \X Nat
      /\ at \in 1 .. 14 /\ Required \in Nat /\ Now \in Nat
      /\ TypeOK /\ BegunTyped /\ ReducedInv /\ EmptiedInv /\ LostInv /\ LastInv
      /\ CutInv /\ WindowInv
      /\ Exceeds <=> Now > budget
  BY CompactingFacts DEF DiscardOldest
<1>2. /\ phase = "compact" /\ at \in 1 .. 13 /\ at # 8 /\ Now > budget
      /\ package[l] # {} /\ UNCHANGED <<events, budget, diff, phase, at, begun>>
      /\ package' = [package EXCEPT ![l] = @ \ {m}]
  <2>1. at <= 13 /\ Order[at] # "diff"
    BY OrderLength DEF DiscardOldest
  <2>2. at \in 1 .. 13 /\ at # 8
    BY <1>1, <2>1, OrderLength
  <2>. QED  BY <1>1, <2>2 DEF DiscardOldest
<1>3. /\ l \in Lists /\ package[l] \in SUBSET Positions
      /\ at \in ListPhases /\ Positions \in SUBSET Nat
  <2>1. l \in Lists /\ at \in ListPhases
    BY <1>2, OrderFacts DEF ListPhases
  <2>2. Positions \in SUBSET Nat
    BY <1>1 DEF Positions
  <2>. HIDE DEF l
  <2>. QED  BY <1>1, <2>1, <2>2
<1>4. m \in package[l] /\ \A i \in package[l] : m <= i
  BY <1>2, <1>3, MinOf
<1>5. /\ Required' = Required /\ Conversation' = Conversation /\ Positions' = Positions
      /\ \A k : Reduced(k)' = Reduced(k)
  BY <1>2, LogUnchanged
<1>. HIDE DEF m
<1>6. /\ package' \in [Lists -> SUBSET Positions]
      /\ package'[l] = package[l] \ {m}
      /\ \A k \in Lists : k # l => package'[k] = package[k]
      /\ \A k \in Lists : package'[k] \subseteq package[k]
  <2>. HIDE DEF l
  <2>. QED  BY <1>1, <1>2, <1>3
<1>7. Now = Now' + SizeIn(events, m) /\ Now' \in Nat /\ SizeIn(events, m) \in Nat
  <2>1. package \in Packages(events)
    BY <1>1 DEF Packages, Positions
  <2>2. Now' = EstimateIn(events, Required, package', diff)
    BY <1>2, <1>5 DEF Now
  <2>3. at \in 1 .. 13 /\ at # 8 /\ m \in package[Order[at]]
        /\ package' = Without(package, Order[at], m)
    BY <1>2, <1>4 DEF Without
  <2>4. Now = EstimateIn(events, Required, package', diff) + SizeIn(events, m)
    <3>1. /\ events \in Seq(Events) /\ Required \in Nat /\ diff \in Nat \X Nat
          /\ at \in 1 .. 13 /\ at # 8 /\ m \in package[Order[at]]
      BY <1>1, <2>3
    <3>2. EstimateIn(events, Required, package, diff)
            = EstimateIn(events, Required, Without(package, Order[at], m), diff)
                + SizeIn(events, m)
      BY <2>1, <3>1, EstimateWithout
    <3>. QED  BY <2>3, <3>2 DEF Now
  <2>5. Now' \in Nat
    BY <1>1, <2>2, EstimateType
  <2>6. m \in 0 .. Len(events)
    BY <1>3, <1>4 DEF Positions
  <2>7. SizeIn(events, m) \in Nat
    BY <1>1, <2>6, SizeType
  <2>. QED  BY <2>2, <2>4, <2>5, <2>7
<1>8. TypeOK' /\ BegunTyped'
  BY <1>1, <1>2, <1>5, <1>6 DEF TypeOK, BegunTyped
<1>9. \A k \in Lists, of \in SUBSET Nat : IsSuffixOf(package[k], of) => IsSuffixOf(package'[k], of)
  <2>1. SUFFICES ASSUME NEW k \in Lists, NEW of \in SUBSET Nat, IsSuffixOf(package[k], of)
                 PROVE  IsSuffixOf(package'[k], of)
    OBVIOUS
  <2>2. CASE k = l
    <3>1. IsSuffixOf(package[l] \ {Min(package[l])}, of)
      BY <1>2, <2>1, <2>2, SuffixWithout
    <3>. QED  BY <1>6, <2>2, <3>1 DEF m
  <2>3. CASE k # l
    BY <1>6, <2>1, <2>3
  <2>. QED  BY <2>2, <2>3
<1>10. ReducedInv'
  <2>1. "recent_conversation" \in Lists /\ Conversation \in SUBSET Nat
    BY <1>1, <1>3, ReducedPositions DEF Lists
  <2>2. IsSuffixOf(package'["recent_conversation"], Conversation)
    BY <1>1, <1>2, <1>9, <2>1 DEF ReducedInv
  <2>3. \A k \in Lists : package'[k] \subseteq Reduced(k) \cup {0}
    BY <1>1, <1>6 DEF ReducedInv
  <2>. QED  BY <1>2, <1>5, <2>2, <2>3 DEF ReducedInv
<1>11. \A n \in ListPhases : Order[n] \in Lists /\ (Order[n] = l => n = at)
  BY <1>2, OrderFacts DEF ListPhases
<1>12. \A n \in ListPhases : n # at => package'[Order[n]] = package[Order[n]]
                                       /\ Lost(Order[n])' = Lost(Order[n])
  BY <1>2, <1>6, <1>11 DEF Lost
<1>13. \A n \in ListPhases : n < at => package[Order[n]] = {}
  <2>1. SUFFICES ASSUME NEW n \in ListPhases, n < at PROVE package[Order[n]] = {}
    OBVIOUS
  <2>2. n \in 1 .. at - 1 /\ n # 8
    BY <1>1, <2>1 DEF ListPhases
  <2>. QED  BY <1>1, <1>2, <2>2 DEF EmptiedInv
<1>14. EmptiedInv'
  <2>1. ASSUME NEW n \in 1 .. at - 1, n # 8 PROVE package'[Order[n]] = {}
    <3>1. n \in ListPhases /\ n < at /\ n # at
      BY <1>2, <2>1 DEF ListPhases
    <3>. QED  BY <1>12, <1>13, <3>1
  <2>2. at - 1 >= 8 => diff' = Cut(begun.diff)'
    <3>1. SUFFICES ASSUME at - 1 >= 8 PROVE diff = Cut(begun.diff)
      BY <1>2 DEF Cut
    <3>2. 8 \in 1 .. at - 1
      BY <1>2, <3>1
    <3>. QED  BY <1>1, <1>2, <3>2 DEF EmptiedInv
  <2>3. \A n \in 1 .. at - 1 : n = 8 => at - 1 >= 8
    BY <1>2
  <2>. QED  BY <1>1, <1>2, <2>1, <2>2, <2>3 DEF EmptiedInv
<1>15. LostInv'
  <2>1. \A k \in Lists : IsSuffixOf(package'[k], begun'.package[k])
    <3>1. ASSUME NEW k \in Lists PROVE begun.package[k] \in SUBSET Nat
      BY <1>1, <1>3
    <3>. QED  BY <1>1, <1>2, <1>9, <3>1 DEF LostInv
  <2>2. ASSUME NEW n \in ListPhases, n > at PROVE Lost(Order[n])' = {}
    <3>1. n # at
      BY <1>2, <2>2
    <3>. QED  BY <1>1, <1>12, <2>2, <3>1 DEF LostInv
  <2>3. ASSUME NEW n \in ListPhases, Lost(Order[n])' # {}, NEW k \in ListPhases, k < n
        PROVE  package'[Order[k]] = {}
    <3>1. n \in Nat /\ k \in Nat /\ at \in Nat
      BY <1>2 DEF ListPhases
    <3>2. n <= at
      BY <1>2, <2>2, <2>3, <3>1
    <3>3. k < at /\ k # at
      BY <2>3, <3>1, <3>2
    <3>. QED  BY <1>12, <1>13, <3>3
  <2>. QED  BY <1>2, <2>1, <2>2, <2>3 DEF LostInv
<1>16. LastInv'
  <2>1. SUFFICES ASSUME NEW n \in ListPhases, Lost(Order[n])' # {},
                        \A k \in ListPhases : k > n => Lost(Order[k])' = {}
                 PROVE  Then(n)' + SizeIn(events, Max(Lost(Order[n])')) > budget
    BY <1>2 DEF LastInv
  <2>2. /\ Lost(l)' = Lost(l) \cup {m} /\ m \in Lost(l)'
        /\ IsSuffixOf(package[l], begun.package[l])
    <3>1. IsSuffixOf(package[l], begun.package[l])
      BY <1>1, <1>3 DEF LostInv
    <3>2. m \in begun.package[l]
      BY <1>4, <3>1 DEF IsSuffixOf
    <3>. QED  BY <1>2, <1>4, <1>6, <3>1, <3>2 DEF Lost
  <2>3. n = at
    <3>1. n \in Nat /\ at \in Nat
      BY <1>2 DEF ListPhases
    <3>2. ~ (n > at)
      BY <1>15, <1>2, <2>1 DEF LostInv
    <3>3. Lost(Order[at])' # {}
      BY <2>2
    <3>4. ~ (at > n)
      BY <1>2, <1>3, <2>1, <3>3 DEF Lost
    <3>. QED  BY <3>1, <3>2, <3>4
  <2>4. Max(Lost(l)') = m
    <3>1. \A i \in Lost(l)' : i <= m
      <4>1. SUFFICES ASSUME NEW i \in Lost(l) PROVE i <= m
        BY <1>3, <1>4, <2>2
      <4>2. i < m
        BY <1>4, <2>2 DEF Lost, IsSuffixOf
      <4>3. i \in Nat /\ m \in Nat
        BY <1>1, <1>3, <1>4 DEF Lost
      <4>. QED  BY <4>2, <4>3
    <3>2. Lost(l)' \in SUBSET (0 .. Len(events)) /\ Len(events) \in Nat
      BY <1>1, <1>2, <1>3 DEF Lost, Positions
    <3>3. Max(Lost(l)') \in Lost(l)' /\ \A i \in Lost(l)' : i <= Max(Lost(l)')
      BY <2>2, <3>2, MaxOf
    <3>4. Max(Lost(l)') \in Nat /\ m \in Nat
      BY <3>2, <3>3, <2>2
    <3>. QED  BY <2>2, <3>1, <3>3, <3>4
  <2>5. Then(n)' = Now'
    <3>1. n < 8 => diff = begun.diff
      BY <1>1, <1>2, <2>3 DEF EmptiedInv
    <3>. QED  BY <1>2, <1>5, <3>1 DEF Then, Now
  <2>. QED  BY <1>2, <1>7, <2>3, <2>4, <2>5
<1>18. CutInv'
  <2>1. ASSUME diff # begun.diff, NEW n \in 1 .. 7 PROVE package'[Order[n]] = {}
    <3>1. package[Order[n]] = {}
      BY <1>1, <2>1 DEF CutInv
    <3>2. n \in ListPhases
      BY <2>1 DEF ListPhases
    <3>. QED  BY <1>6, <1>11, <3>1, <3>2
  <2>2. ASSUME NEW n \in ListPhases, n > 8, Lost(Order[n])' # {}
        PROVE  diff = Cut(begun.diff)
    <3>1. CASE n = at
      <4>1. 8 \in 1 .. at - 1
        BY <1>2, <2>2, <3>1
      <4>. QED  BY <1>1, <1>2, <4>1 DEF EmptiedInv
    <3>2. CASE n # at
      BY <1>1, <1>12, <2>2, <3>2 DEF CutInv
    <3>. QED  BY <3>1, <3>2
  <2>3. Cut(begun.diff)' = Cut(begun.diff)
    BY <1>2 DEF Cut
  <2>. QED  BY <1>2, <2>1, <2>2, <2>3 DEF CutInv
<1>19. WindowInv'
  BY <1>1, <1>2, WindowUnchanged
<1>17. CompactInv' /\ EndInv'
  BY <1>2, <1>14, <1>15, <1>16, <1>18, <1>19 DEF CompactInv, EndInv
<1>. QED  BY <1>8, <1>10, <1>17 DEF PackageInv

\* The smaller of two numbers.
LEMMA LeastOfTwo ==
  ASSUME NEW x \in Nat, NEW y \in Nat
  PROVE  Min({x, y}) \in Nat /\ Min({x, y}) <= x
<1>1. {x, y} \in SUBSET Nat /\ {x, y} # {}
  OBVIOUS
<1>2. Min({x, y}) \in {x, y} /\ \A n \in {x, y} : Min({x, y}) <= n
  BY <1>1, MinOf
<1>. QED  BY <1>2

\* A cut diff is not longer.
LEMMA CutType ==
  ASSUME budget \in Nat, NEW d \in Nat \X Nat
  PROVE  Cut(d) \in Nat \X Nat /\ Cut(d)[1] <= d[1] /\ Cut(d)[2] <= d[2]
<1>. DEFINE most == budget \div 16
<1>1. most \in Nat
  OBVIOUS
<1>2. Cut(d) = <<Min({d[1], most}), Min({d[2], most})>>
  BY DEF Cut
<1>. HIDE DEF most
<1>3. d[1] \in Nat /\ d[2] \in Nat
  OBVIOUS
<1>. QED  BY <1>1, <1>2, <1>3, LeastOfTwo

\* What stays of the invariant while the lists do.
LEMMA ListsUnchanged ==
  ASSUME PackageInv, UNCHANGED <<events, budget, package, begun>>,
         diff' \in Nat \X Nat, at' \in 1 .. 14, phase \in {"compact", "done"},
         phase' \in {"compact", "done", "failed"}
  PROVE  TypeOK' /\ BegunTyped' /\ ReducedInv'
<1>1. /\ Required' = Required /\ Conversation' = Conversation /\ Positions' = Positions
      /\ \A k : Reduced(k)' = Reduced(k)
  BY LogUnchanged
<1>2. TypeOK /\ BegunTyped /\ ReducedInv
  BY DEF PackageInv
<1>3. TypeOK' /\ BegunTyped'
  <2>1. TypeOK'
    BY <1>1, <1>2, OrderLength DEF TypeOK
  <2>2. BegunTyped'
    BY <1>1, <1>2 DEF BegunTyped
  <2>. QED  BY <2>1, <2>2
<1>4. ReducedInv'
  BY <1>1, <1>2 DEF ReducedInv
<1>. QED  BY <1>3, <1>4

\* A phase is over.
LEMMA NextListPackage ==
  ASSUME PackageInv, NextList
  PROVE  PackageInv'
<1>1. /\ events \in Seq(Events) /\ budget \in Nat /\ diff \in Nat \X Nat
      /\ at \in 1 .. 14 /\ EmptiedInv /\ LostInv /\ LastInv
      /\ CutInv /\ WindowInv
      /\ Exceeds <=> Now > budget
  BY CompactingFacts DEF NextList
<1>2. /\ phase = "compact" /\ at \in 1 .. 13 /\ at # 8 /\ at' = at + 1
      /\ UNCHANGED <<events, budget, diff, package, phase, begun>>
      /\ Now > budget => package[Order[at]] = {}
  <2>1. at <= 13 /\ Order[at] # "diff"
    BY OrderLength DEF NextList
  <2>2. at \in 1 .. 13 /\ at # 8
    BY <1>1, <2>1, OrderLength
  <2>. QED  BY <1>1, <2>2 DEF NextList
<1>3. TypeOK' /\ BegunTyped' /\ ReducedInv'
  <2>1. at' \in 1 .. 14
    BY <1>2
  <2>. QED  BY <1>1, <1>2, <2>1, ListsUnchanged
<1>4. /\ Now' = Now /\ \A l : Lost(l)' = Lost(l)
      /\ \A n : Then(n)' = Then(n)
  BY <1>2, LogUnchanged DEF Now, Lost, Then
<1>5. Cut(begun.diff)' = Cut(begun.diff)
  BY <1>2 DEF Cut
<1>6. EmptiedInv'
  <2>1. ASSUME Now > budget, NEW n \in 1 .. at
        PROVE  IF n = 8 THEN diff = Cut(begun.diff) ELSE package[Order[n]] = {}
    <3>1. CASE n = at
      BY <1>2, <2>1, <3>1
    <3>2. CASE n # at
      <4>1. n \in 1 .. at - 1
        BY <1>2, <3>2
      <4>. QED  BY <1>1, <2>1, <4>1 DEF EmptiedInv
    <3>. QED  BY <3>1, <3>2
  <2>2. at' - 1 = at /\ (at' <= 8 => at <= 8)
    BY <1>2
  <2>3. at' <= 8 => diff' = begun'.diff
    BY <1>1, <1>2, <2>2 DEF EmptiedInv
  <2>. QED  BY <1>2, <1>4, <1>5, <2>1, <2>2, <2>3 DEF EmptiedInv
<1>7. LostInv'
  <2>1. \A n \in ListPhases : n > at' => n > at
    BY <1>2 DEF ListPhases
  <2>. QED  BY <1>1, <1>2, <1>4, <2>1 DEF LostInv
<1>8. LastInv' /\ CutInv'
  BY <1>1, <1>2, <1>4, <1>5 DEF LastInv, CutInv
<1>9. WindowInv'
  BY <1>1, <1>2, WindowUnchanged
<1>. QED  BY <1>2, <1>3, <1>6, <1>7, <1>8, <1>9 DEF PackageInv, CompactInv, EndInv

\* The diffs are cut.
LEMMA TruncatePackage ==
  ASSUME PackageInv, TruncateDiff
  PROVE  PackageInv'
<1>1. /\ events \in Seq(Events) /\ budget \in Nat /\ diff \in Nat \X Nat
      /\ at \in 1 .. 14 /\ Required \in Nat /\ Now \in Nat
      /\ EmptiedInv /\ LostInv /\ LastInv /\ CutInv /\ WindowInv
      /\ Exceeds <=> Now > budget
  BY CompactingFacts DEF TruncateDiff
<1>2. /\ phase = "compact" /\ at = 8 /\ at' = 9
      /\ UNCHANGED <<events, budget, package, phase, begun>>
      /\ Now > budget => diff' = Cut(diff)
      /\ ~ (Now > budget) => diff' = diff
  <2>1. at <= 13 /\ Order[at] = "diff"
    BY OrderLength DEF TruncateDiff
  <2>2. at = 8
    <3>1. at \in 1 .. 13
      BY <1>1, <2>1
    <3>. QED  BY <2>1, <3>1, OrderFacts
  <2>. QED  BY <1>1, <2>2 DEF TruncateDiff
<1>3. diff = begun.diff
  BY <1>1, <1>2 DEF EmptiedInv
<1>4. diff' \in Nat \X Nat /\ diff'[1] <= diff[1] /\ diff'[2] <= diff[2]
  <2>1. CASE Now > budget
    BY <1>1, <1>2, <2>1, CutType
  <2>2. CASE ~ (Now > budget)
    BY <1>1, <1>2, <2>2
  <2>. QED  BY <2>1, <2>2
<1>5. TypeOK' /\ BegunTyped' /\ ReducedInv'
  BY <1>2, <1>4, ListsUnchanged
<1>6. Now' <= Now /\ Now' \in Nat
  <2>1. Now' = EstimateIn(events, Required, package, diff')
    BY <1>2, LogUnchanged DEF Now
  <2>2. Now = EstimateIn(events, Required, package, diff)
    BY DEF Now
  <2>. QED  BY <1>1, <1>4, <2>1, <2>2, EstimateMonotone, EstimateType
<1>7. Cut(begun.diff)' = Cut(begun.diff) /\ \A l : Lost(l)' = Lost(l)
  BY <1>2 DEF Cut, Lost
<1>8. EmptiedInv'
  <2>1. Now' > budget => Now > budget
    BY <1>1, <1>6
  <2>2. ASSUME Now' > budget, NEW n \in 1 .. 8
        PROVE  IF n = 8 THEN diff' = Cut(begun.diff) ELSE package[Order[n]] = {}
    <3>1. CASE n = 8
      BY <1>2, <1>3, <2>1, <2>2, <3>1
    <3>2. CASE n # 8
      <4>1. n \in 1 .. at - 1
        BY <1>2, <3>2
      <4>. QED  BY <1>1, <2>1, <2>2, <3>2, <4>1 DEF EmptiedInv
    <3>. QED  BY <3>1, <3>2
  <2>3. at' - 1 = 8 /\ ~ (at' <= 8)
    BY <1>2
  <2>. QED  BY <1>2, <1>7, <2>2, <2>3 DEF EmptiedInv
<1>9. LostInv'
  <2>1. \A n \in ListPhases : n > at' => n > at
    BY <1>2 DEF ListPhases
  <2>. QED  BY <1>1, <1>2, <1>7, <2>1 DEF LostInv
<1>11. \A n \in ListPhases : Lost(Order[n]) # {} => n < 8
  <2>1. SUFFICES ASSUME NEW n \in ListPhases, Lost(Order[n]) # {} PROVE n < 8
    OBVIOUS
  <2>2. n \in 1 .. 13 /\ n # 8 /\ ~ (n > at)
    BY <1>1, <2>1 DEF LostInv, ListPhases
  <2>. QED  BY <1>2, <2>2
<1>10. LastInv'
  <2>1. SUFFICES ASSUME NEW n \in ListPhases, Lost(Order[n]) # {},
                        \A k \in ListPhases : k > n => Lost(Order[k]) = {}
                 PROVE  Then(n)' + SizeIn(events, Max(Lost(Order[n]))) > budget
    BY <1>2, <1>7 DEF LastInv
  <2>2. n < 8
    BY <1>11, <2>1
  <2>3. Then(n)' = Then(n)
    BY <1>2, <2>2, LogUnchanged DEF Then
  <2>. QED  BY <1>1, <2>1, <2>3 DEF LastInv
<1>12. CutInv'
  <2>1. ASSUME diff' # begun.diff, NEW n \in 1 .. 7 PROVE package[Order[n]] = {}
    <3>1. Now > budget
      BY <1>2, <1>3, <2>1
    <3>2. n \in 1 .. at - 1 /\ n # 8
      BY <1>2, <2>1
    <3>. QED  BY <1>1, <3>1, <3>2 DEF EmptiedInv
  <2>2. \A n \in ListPhases : n > 8 => Lost(Order[n])' = {}
    <3>1. \A n \in ListPhases : n > 8 => Lost(Order[n]) = {}
      BY <1>1, <1>2 DEF LostInv
    <3>. QED  BY <1>7, <3>1
  <2>. QED  BY <1>2, <2>1, <2>2 DEF CutInv
<1>13. WindowInv'
  BY <1>1, <1>2, WindowUnchanged
<1>. QED  BY <1>2, <1>5, <1>8, <1>9, <1>10, <1>12, <1>13 DEF PackageInv, CompactInv, EndInv

\* The compactor returns the package, or says that the budget is too small.
LEMMA FinishPackage ==
  ASSUME PackageInv, Finish
  PROVE  PackageInv'
<1>1. /\ events \in Seq(Events) /\ budget \in Nat /\ diff \in Nat \X Nat
      /\ package \in [Lists -> SUBSET Positions]
      /\ at \in 1 .. 14 /\ EmptiedInv /\ LostInv /\ LastInv
      /\ CutInv /\ WindowInv
      /\ Exceeds <=> Now > budget
  BY CompactingFacts DEF Finish
<1>2. /\ phase = "compact" /\ at = 14
      /\ UNCHANGED <<events, budget, diff, package, at, begun>>
      /\ phase' = IF Now > budget THEN "failed" ELSE "done"
  BY <1>1, OrderLength DEF Finish
<1>3. TypeOK' /\ BegunTyped' /\ ReducedInv'
  BY <1>1, <1>2, ListsUnchanged
<1>4. /\ Now' = Now /\ Required' = Required /\ \A l : Lost(l)' = Lost(l)
      /\ \A n : Then(n)' = Then(n)
  BY <1>2, LogUnchanged DEF Now, Lost, Then
<1>5. Cut(begun.diff)' = Cut(begun.diff)
  BY <1>2 DEF Cut
<1>6. EmptiedInv' /\ LostInv' /\ LastInv' /\ CutInv' /\ WindowInv'
  <2>1. WindowInv'
    BY <1>1, <1>2, WindowUnchanged
  <2>. QED  BY <1>1, <1>2, <1>4, <1>5, <2>1 DEF EmptiedInv, LostInv, LastInv, CutInv
<1>7. ASSUME Now > budget
      PROVE  EstimateIn(events, Required, Empty, Cut(begun.diff)) > budget
  <2>1. \A n \in 1 .. 13 : IF n = 8 THEN diff = Cut(begun.diff) ELSE package[Order[n]] = {}
    <3>1. at - 1 = 13
      BY <1>2
    <3>2. \A n \in 1 .. at - 1 :
            IF n = 8 THEN diff = Cut(begun.diff) ELSE package[Order[n]] = {}
      BY <1>1, <1>7, Zenon DEF EmptiedInv
    <3>. QED  BY <3>1, <3>2
  <2>2. \A l \in Lists : package[l] = {}
    BY <2>1, OrderFacts
  <2>3. package = Empty
    BY <1>1, <2>2 DEF Empty
  <2>4. diff = Cut(begun.diff)
    BY <2>1
  <2>. QED  BY <1>7, <2>3, <2>4, Zenon DEF Now
<1>8. EndInv'
  BY <1>2, <1>4, <1>5, <1>7 DEF EndInv
<1>. QED  BY <1>3, <1>6, <1>8 DEF PackageInv, CompactInv

\* PackageInv is an invariant of every construction of a package.
THEOREM PackageInvariant == Spec => []PackageInv
<1>1. ASSUME PackageInv, [Next]_vars PROVE PackageInv'
  <2>1. CASE UNCHANGED vars
    <3>1. UNCHANGED <<events, budget, diff, package, phase, at, begun>>
      BY <2>1 DEF vars
    <3>2. /\ Required' = Required /\ Conversation' = Conversation /\ Positions' = Positions
          /\ \A k : Reduced(k)' = Reduced(k)
      BY <3>1, LogUnchanged
    <3>3. /\ Now' = Now /\ Cut(begun.diff)' = Cut(begun.diff)
          /\ \A l : Lost(l)' = Lost(l) /\ \A n : Then(n)' = Then(n)
      BY <3>1, <3>2 DEF Now, Cut, Lost, Then
    <3>4. TypeOK' /\ BegunTyped'
      BY <1>1, <3>1, <3>2 DEF PackageInv, TypeOK, BegunTyped
    <3>5. ReducedInv'
      BY <1>1, <3>1, <3>2 DEF PackageInv, ReducedInv
    <3>6. CompactInv'
      <4>1. phase \in {"compact", "done"} => WindowInv'
        BY <1>1, <3>1, WindowUnchanged DEF PackageInv, CompactInv
      <4>. QED  BY <1>1, <3>1, <3>3, <4>1 DEF PackageInv, CompactInv, EmptiedInv, LostInv,
                                              LastInv, CutInv
    <3>7. EndInv'
      BY <1>1, <3>1, <3>2, <3>3 DEF PackageInv, EndInv
    <3>. QED  BY <3>4, <3>5, <3>6, <3>7 DEF PackageInv
  <2>. QED  BY <1>1, <2>1, ReducePackage, WindowPackage, DiscardPackage, NextListPackage,
              TruncatePackage, FinishPackage DEF Next
<1>. QED  BY <1>1, InitPackage, PTL DEF Spec

\* The variables keep their types, and the compactor never leaves its phases.
THEOREM TypeCorrect == Spec => []TypeOK
BY PackageInvariant, PTL DEF PackageInv

\* A package that is returned fits the budget. Building one fails only on a
\* budget of zero or when what no phase removes is already too large.
THEOREM PackageFitsOrCannot == Spec => []FitsOrCannot
<1>1. PackageInv => FitsOrCannot
  <2>. SUFFICES ASSUME PackageInv PROVE FitsOrCannot
    OBVIOUS
  <2>1. Estimate(package, diff) = Now
    BY EstimateIs DEF Now
  <2>2. Estimate(Empty, Cut(begun.diff)) = EstimateIn(events, Required, Empty, Cut(begun.diff))
    BY EstimateIs
  <2>3. budget \in Nat /\ (phase = "done" => Now \in Nat)
    BY NumbersTyped, RequiredType, EstimateType DEF PackageInv, TypeOK, Now
  <2>. QED  BY <2>1, <2>2, <2>3 DEF PackageInv, EndInv, FitsOrCannot
<1>. QED  BY <1>1, PackageInvariant, PTL

\* The conversation of a package is the newest part of what may be shown, and
\* the window leaves nothing out that it had room for.
THEOREM ConversationIsNewest == Spec => []NewestConversation
<1>1. PackageInv => NewestConversation
  BY DEF PackageInv, ReducedInv, CompactInv, WindowInv, WindowCut, Others, NewestConversation
<1>. QED  BY <1>1, PackageInvariant, PTL

\* No item of a hidden event or an excluded file is in a package, and no
\* record is shown both sanitized and in full.
THEOREM RecordsShownOnce == Spec => []ShownOnce
<1>1. PackageInv => ShownOnce
  <2>. SUFFICES ASSUME PackageInv PROVE ShownOnce
    OBVIOUS
  <2>1. \A l \in Lists, i \in Positions : i \in package[l] \ {0} =>
          /\ i \in DOMAIN events /\ Visible(i) /\ ~ events[i].excluded
    BY DEF PackageInv, ReducedInv, Reduced, VisibleEvents
  <2>2. \A l \in Lists : package[l] \subseteq Positions
    BY DEF PackageInv, TypeOK
  <2>3. SUFFICES ASSUME NEW l \in Lists
                 PROVE  LET shown == package[l] \ {0} IN
                        /\ \A i \in shown : ~ events[i].hidden /\ ~ events[i].excluded
                        /\ \A i, j \in shown :
                             {events[i].parser, events[j].parser} = {"sanitized", "full"} =>
                               events[i].id = NoId \/ events[i].id # events[j].id
    BY DEF ShownOnce
  <2>4. ASSUME NEW i \in package[l] \ {0}
        PROVE  /\ i \in DOMAIN events /\ Visible(i) /\ ~ events[i].excluded
               /\ ~ events[i].hidden
    <3>1. i \in Positions
      BY <2>2
    <3>2. i \in DOMAIN events /\ Visible(i) /\ ~ events[i].excluded
      BY <2>1, <3>1
    <3>. QED  BY <3>2 DEF Visible
  <2>5. ASSUME NEW i \in package[l] \ {0}, NEW j \in package[l] \ {0},
               events[i].parser = "sanitized", events[j].parser = "full",
               events[i].id # NoId, events[i].id = events[j].id
        PROVE  FALSE
    BY <2>4, <2>5 DEF Visible
  <2>6. ASSUME NEW i \in package[l] \ {0}, NEW j \in package[l] \ {0},
               {events[i].parser, events[j].parser} = {"sanitized", "full"}
        PROVE  \/ events[i].parser = "sanitized" /\ events[j].parser = "full"
               \/ events[j].parser = "sanitized" /\ events[i].parser = "full"
    BY <2>6
  <2>. QED  BY <2>4, <2>5, <2>6
<1>. QED  BY <1>1, PackageInvariant, PTL

\* Of what the window has left, compaction gives up the oldest items of the
\* least important lists first, the diffs in their turn, and nothing that it
\* could have kept.
THEOREM CompactionLosesLeast == Spec => []LeastLoss
<1>1. PackageInv => LeastLoss
  <2>. SUFFICES ASSUME PackageInv, phase = "done" PROVE LeastLoss
    BY DEF LeastLoss
  <2>. DEFINE lost == {l \in Lists : package[l] # begun.package[l]}
  <2>1. LostInv /\ LastInv /\ CutInv /\ TypeOK /\ BegunTyped
    BY DEF PackageInv, CompactInv
  <2>2. \A l \in Lists : IsSuffixOf(package[l], begun.package[l])
    BY <2>1 DEF LostInv
  <2>3. ASSUME NEW l \in Lists
        PROVE  \E n \in ListPhases : Order[n] = l /\ Position(l) = n
    <3>1. PICK n \in 1 .. 13 : n # 8 /\ Order[n] = l
      BY OrderFacts
    <3>. QED  BY <3>1, PositionOf DEF ListPhases
  <2>4. \A l \in Lists : l \in lost <=> Lost(l) # {}
    BY <2>2 DEF Lost, IsSuffixOf
  <2>5. \A n \in ListPhases : Order[n] \in Lists /\ Position(Order[n]) = n
    BY OrderFacts, PositionOf DEF ListPhases
  <2>6. Position("diff") = 8
    <3>1. 8 \in 1 .. 13 /\ Order[8] = "diff"
      BY OrderFacts
    <3>. QED  BY <3>1, PositionOf
  <2>. HIDE DEF lost
  <2>7. ASSUME NEW l \in lost, NEW k \in Lists, Position(k) < Position(l)
        PROVE  package[k] = {}
    <3>1. l \in Lists /\ Lost(l) # {}
      BY <2>4 DEF lost
    <3>2. PICK n \in ListPhases : Order[n] = l /\ Position(l) = n
      BY <2>3, <3>1
    <3>3. PICK j \in ListPhases : Order[j] = k /\ Position(k) = j
      BY <2>3
    <3>. QED  BY <2>1, <2>7, <3>1, <3>2, <3>3 DEF LostInv
  <2>8. ASSUME NEW l \in lost, \A k \in lost : Position(k) <= Position(l)
        PROVE  Estimate(package, IF Position(l) < Position("diff") THEN begun.diff ELSE diff)
                 + SizeOf(Max(begun.package[l] \ package[l])) > budget
    <3>1. l \in Lists /\ Lost(l) # {}
      BY <2>4 DEF lost
    <3>2. PICK n \in ListPhases : Order[n] = l /\ Position(l) = n
      BY <2>3, <3>1
    <3>3. \A k \in ListPhases : k > n => Lost(Order[k]) = {}
      <4>1. SUFFICES ASSUME NEW k \in ListPhases, k > n, Lost(Order[k]) # {} PROVE FALSE
        OBVIOUS
      <4>2. Order[k] \in lost /\ Position(Order[k]) = k
        BY <2>4, <2>5, <4>1
      <4>3. k <= n /\ k \in Nat /\ n \in Nat
        BY <2>8, <3>2, <4>2 DEF ListPhases
      <4>. QED  BY <4>1, <4>3
    <3>4. Then(n) + SizeIn(events, Max(Lost(l))) > budget
      BY <2>1, <3>1, <3>2, <3>3 DEF LastInv
    <3>5. /\ Estimate(package, IF n < 8 THEN begun.diff ELSE diff) = Then(n)
          /\ SizeOf(Max(Lost(l))) = SizeIn(events, Max(Lost(l)))
      BY EstimateIs DEF Then, SizeOf, SizeIn
    <3>. QED  BY <2>6, <3>2, <3>4, <3>5 DEF Lost
  <2>9. ASSUME NEW l \in lost, Position(l) > Position("diff")
        PROVE  diff = Cut(begun.diff)
    <3>1. l \in Lists /\ Lost(l) # {}
      BY <2>4 DEF lost
    <3>2. PICK n \in ListPhases : Order[n] = l /\ Position(l) = n
      BY <2>3, <3>1
    <3>. QED  BY <2>1, <2>6, <2>9, <3>1, <3>2 DEF CutInv
  <2>10. ASSUME diff # begun.diff, NEW k \in Lists, Position(k) < Position("diff")
         PROVE  package[k] = {}
    <3>1. PICK n \in ListPhases : Order[n] = k /\ Position(k) = n
      BY <2>3
    <3>2. n \in 1 .. 7
      BY <2>6, <2>10, <3>1 DEF ListPhases
    <3>. QED  BY <2>1, <2>10, <3>1, <3>2 DEF CutInv
  <2>. QED  BY <2>2, <2>7, <2>8, <2>9, <2>10 DEF LeastLoss, lost
<1>. QED  BY <1>1, PackageInvariant, PTL
=============================================================================
