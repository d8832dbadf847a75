------------------------- MODULE DraftMonth_proofs -------------------------
(***************************************************************************)
(* The draft month for any month length, any sentences and any order.      *)
(***************************************************************************)
EXTENDS DraftMonth, FiniteSetTheorems, SequenceTheorems, WellFoundedInduction, TLAPS

-----------------------------------------------------------------------------
(* A finite set in a total order.                                          *)

\* R orders S strictly and totally.
StrictlyOrders(R, S) ==
  /\ \A x \in S : <<x, x>> \notin R
  /\ \A x, y, z \in S : <<x, y>> \in R /\ <<y, z>> \in R => <<x, z>> \in R
  /\ \A x, y \in S : x = y \/ <<x, y>> \in R \/ <<y, x>> \in R

Below(R, S, x) == {y \in S : <<y, x>> \in R}

\* T is S in the order R.
Ranked(T, R, S) ==
  /\ DOMAIN T = 1..Cardinality(S)
  /\ \A n \in DOMAIN T : T[n] \in S
  /\ \A n, m \in DOMAIN T : n < m => <<T[n], T[m]>> \in R /\ T[n] # T[m]
  /\ \A x \in S : \E n \in DOMAIN T : T[n] = x

LEMMA RankGrows ==
  ASSUME NEW S, IsFiniteSet(S), NEW R, StrictlyOrders(R, S), NEW x \in S, NEW y \in S, <<x, y>> \in R
  PROVE  Cardinality(Below(R, S, x)) < Cardinality(Below(R, S, y))
<1>1. Below(R, S, x) \subseteq Below(R, S, y) \ {x} /\ x \in Below(R, S, y) /\ Below(R, S, y) \subseteq S
  BY DEF Below, StrictlyOrders
<1>2. IsFiniteSet(Below(R, S, y))
  BY <1>1, FS_Subset
<1>3. IsFiniteSet(Below(R, S, y) \ {x}) /\ Cardinality(Below(R, S, y) \ {x}) = Cardinality(Below(R, S, y)) - 1
  BY <1>1, <1>2, FS_RemoveElement
<1>4. Cardinality(Below(R, S, x)) <= Cardinality(Below(R, S, y) \ {x})
  BY <1>1, <1>3, FS_Subset
<1>5. Cardinality(Below(R, S, y)) \in Nat /\ Cardinality(Below(R, S, x)) \in Nat
  <2>1. IsFiniteSet(Below(R, S, x))
    BY <1>1, <1>3, FS_Subset
  <2> QED
    BY <1>2, <2>1, FS_CardinalityType
<1> QED
  BY <1>3, <1>4, <1>5

LEMMA RankIsSmall ==
  ASSUME NEW S, IsFiniteSet(S), NEW R, StrictlyOrders(R, S), NEW x \in S
  PROVE  Cardinality(Below(R, S, x)) \in 0..(Cardinality(S) - 1)
<1>1. Below(R, S, x) \subseteq S \ {x}
  BY DEF Below, StrictlyOrders
<1>2. IsFiniteSet(S \ {x}) /\ Cardinality(S \ {x}) = Cardinality(S) - 1
  BY FS_RemoveElement
<1>3. IsFiniteSet(Below(R, S, x)) /\ Cardinality(Below(R, S, x)) <= Cardinality(S) - 1
  BY <1>1, <1>2, FS_Subset
<1> QED
  BY <1>3, FS_CardinalityType

\* Every rank is somebody's.
LEMMA RankIsTaken ==
  ASSUME NEW S, IsFiniteSet(S), NEW R, StrictlyOrders(R, S), NEW n \in 1..Cardinality(S)
  PROVE  \E x \in S : Cardinality(Below(R, S, x)) = n - 1
<1> DEFINE top == Cardinality(S)
           rank == [x \in S |-> Cardinality(Below(R, S, x))]
<1>1. top \in Nat
  BY FS_CardinalityType
<1>2. rank \in [S -> 0..(top - 1)]
  BY RankIsSmall
<1>3. \A x, y \in S : rank[x] = rank[y] => x = y
  <2> SUFFICES ASSUME NEW x \in S, NEW y \in S, x # y PROVE rank[x] # rank[y]
    OBVIOUS
  <2>1. <<x, y>> \in R \/ <<y, x>> \in R
    BY DEF StrictlyOrders
  <2>2. rank[x] \in Int /\ rank[y] \in Int
    BY <1>2
  <2>3. rank[x] < rank[y] \/ rank[y] < rank[x]
    BY <2>1, RankGrows
  <2> QED
    BY <2>2, <2>3
<1>4. rank \in Injection(S, 0..(top - 1))
  BY <1>2, <1>3 DEF Injection, IsInjective
<1>5. IsFiniteSet(0..(top - 1)) /\ Cardinality(0..(top - 1)) = top
  <2> HIDE DEF top
  <2>1. 0 \in Int /\ top - 1 \in Int
    BY <1>1
  <2> QED
    BY <1>1, <2>1, FS_Interval
<1>6. rank \in Surjection(S, 0..(top - 1))
  BY <1>4, <1>5, FS_Injection
<1>7. n - 1 \in 0..(top - 1)
  BY <1>1
<1>8. \E x \in S : rank[x] = n - 1
  BY <1>6, <1>7 DEF Surjection
<1> QED
  BY <1>8

LEMMA SortedIsRanked ==
  ASSUME NEW S, IsFiniteSet(S), NEW R, StrictlyOrders(R, S), NEW T, DOMAIN T = 1..Cardinality(S),
         \A n \in 1..Cardinality(S) : T[n] = CHOOSE x \in S : Cardinality(Below(R, S, x)) = n - 1
  PROVE  Ranked(T, R, S)
<1>0. Cardinality(S) \in Nat
  BY FS_CardinalityType
<1>1. \A n \in DOMAIN T : T[n] \in S /\ Cardinality(Below(R, S, T[n])) = n - 1
  <2> SUFFICES ASSUME NEW n \in 1..Cardinality(S) PROVE T[n] \in S /\ Cardinality(Below(R, S, T[n])) = n - 1
    OBVIOUS
  <2>1. \E x \in S : Cardinality(Below(R, S, x)) = n - 1
    BY RankIsTaken
  <2> QED
    BY <2>1
<1>2. ASSUME NEW n \in DOMAIN T, NEW m \in DOMAIN T, n < m
      PROVE  <<T[n], T[m]>> \in R /\ T[n] # T[m]
  <2>1. T[n] # T[m]
    BY <1>0, <1>1, <1>2
  <2>2. CASE <<T[m], T[n]>> \in R
    <3>1. Cardinality(Below(R, S, T[m])) < Cardinality(Below(R, S, T[n]))
      BY <1>1, <2>2, RankGrows
    <3>2. m - 1 < n - 1
      BY <1>1, <3>1
    <3> QED
      BY <1>0, <1>2, <3>2
  <2> QED
    BY <1>1, <2>1, <2>2 DEF StrictlyOrders
<1>3. ASSUME NEW x \in S
      PROVE  \E n \in DOMAIN T : T[n] = x
  <2> DEFINE n == Cardinality(Below(R, S, x)) + 1
  <2>1. n \in 1..Cardinality(S) /\ n - 1 = Cardinality(Below(R, S, x))
    BY <1>0, RankIsSmall
  <2>2. T[n] \in S /\ Cardinality(Below(R, S, T[n])) = Cardinality(Below(R, S, x))
    BY <1>1, <2>1
  <2> HIDE DEF n
  <2>3. T[n] = x
    <3> SUFFICES ASSUME T[n] # x PROVE FALSE
      OBVIOUS
    <3>1. \/ Cardinality(Below(R, S, T[n])) < Cardinality(Below(R, S, x))
          \/ Cardinality(Below(R, S, x)) < Cardinality(Below(R, S, T[n]))
      BY <2>2, RankGrows DEF StrictlyOrders
    <3>2. Cardinality(Below(R, S, x)) \in Int
      BY RankIsSmall, <1>0
    <3> QED
      BY <2>2, <3>1, <3>2
  <2> QED
    BY <2>1, <2>3
<1> QED
  BY <1>1, <1>2, <1>3 DEF Ranked

LEMMA LeastOfNats ==
  ASSUME NEW S \in SUBSET Nat, S # {}
  PROVE  \E n \in S : \A k \in S : n <= k
<1> DEFINE R == {ss \in Nat \X Nat : ss[1] < ss[2]}
<1>1. IsWellFoundedOn(R, Nat)
  BY NatLessThanWellFounded DEF OpToRel
<1> HIDE DEF R
<1>2. PICK x \in S : \A y \in S : ~(<<y, x>> \in R)
  BY <1>1, WFMin
<1>3. \A k, n \in Nat : n < k => <<n, k>> \in R
  BY DEF R
<1>4. ASSUME NEW y \in S PROVE x <= y
  <2>1. x \in Nat /\ y \in Nat /\ ~(y < x)
    BY <1>2, <1>3
  <2> QED
    BY <2>1
<1> QED
  BY <1>4

\* Tuples of N numbers, by the first that differs.
LEMMA BeforeIsTotal ==
  ASSUME NEW N \in Nat, NEW a \in [1..N -> Int], NEW b \in [1..N -> Int], a # b
  PROVE  Before(a, b) \/ Before(b, a)
<1> DEFINE D == {n \in 1..N : a[n] # b[n]}
<1>1. D \in SUBSET Nat /\ D # {}
  BY DEF D
<1>2. PICK n \in D : \A k \in D : n <= k
  <2> HIDE DEF D
  <2> QED
    BY <1>1, LeastOfNats
<1>3. \A m \in 1..(n - 1) : a[m] = b[m]
  <2> SUFFICES ASSUME NEW m \in 1..(n - 1), a[m] # b[m] PROVE FALSE
    OBVIOUS
  <2>1. m \in D /\ n \in Nat /\ ~(n <= m)
    BY <1>2
  <2> QED
    BY <1>2, <2>1
<1>4. n \in 1..N /\ a[n] \in Int /\ b[n] \in Int /\ a[n] # b[n]
  BY <1>2
<1>5. a[n] < b[n] \/ b[n] < a[n]
  BY <1>4
<1> QED
  BY <1>3, <1>4, <1>5 DEF Before

LEMMA BeforeIsStrict ==
  ASSUME NEW N \in Nat, NEW a \in [1..N -> Int], NEW b \in [1..N -> Int], NEW c \in [1..N -> Int]
  PROVE  ~Before(a, a) /\ (Before(a, b) /\ Before(b, c) => Before(a, c))
<1>1. ~Before(a, a)
  BY DEF Before
<1>2. ASSUME Before(a, b), Before(b, c)
      PROVE  Before(a, c)
  <2>1. PICK n \in 1..N : a[n] < b[n] /\ \A m \in 1..(n - 1) : a[m] = b[m]
    BY <1>2 DEF Before
  <2>2. PICK k \in 1..N : b[k] < c[k] /\ \A m \in 1..(k - 1) : b[m] = c[m]
    BY <1>2 DEF Before
  <2>3. CASE n < k
    <3>1. n \in 1..(k - 1) /\ b[n] = c[n]
      BY <2>2, <2>3
    <3>2. a[n] < c[n] /\ \A m \in 1..(n - 1) : m \in 1..(k - 1)
      BY <2>1, <2>3, <3>1
    <3> QED
      BY <2>1, <2>2, <3>2 DEF Before
  <2>4. CASE n = k
    <3>1. a[n] < c[n]
      BY <2>1, <2>2, <2>4
    <3>2. \A m \in 1..(n - 1) : a[m] = c[m]
      BY <2>1, <2>2, <2>4
    <3> QED
      BY <3>1, <3>2 DEF Before
  <2>5. CASE k < n
    <3>1. k \in 1..(n - 1) /\ a[k] = b[k]
      BY <2>1, <2>5
    <3>2. a[k] < c[k] /\ \A m \in 1..(k - 1) : m \in 1..(n - 1)
      BY <2>2, <2>5, <3>1
    <3> QED
      BY <2>1, <2>2, <3>2 DEF Before
  <2> QED
    BY <2>3, <2>4, <2>5
<1> QED
  BY <1>1, <1>2

\* The members of a set by the key each has, no two the same.
ByKey(k, S) == {ss \in S \X S : Before(k[ss[1]], k[ss[2]])}

LEMMA KeysOrder ==
  ASSUME NEW S, NEW N \in Nat, NEW k \in [S -> [1..N -> Int]], \A x, y \in S : k[x] = k[y] => x = y
  PROVE  StrictlyOrders(ByKey(k, S), S)
<1>1. \A x \in S : <<x, x>> \notin ByKey(k, S)
  BY BeforeIsStrict DEF ByKey
<1>2. ASSUME NEW x \in S, NEW y \in S, NEW z \in S, <<x, y>> \in ByKey(k, S), <<y, z>> \in ByKey(k, S)
      PROVE  <<x, z>> \in ByKey(k, S)
  <2>1. Before(k[x], k[y]) /\ Before(k[y], k[z])
    BY <1>2 DEF ByKey
  <2>2. Before(k[x], k[z])
    BY <2>1, BeforeIsStrict
  <2> QED
    BY <2>2 DEF ByKey
<1>3. ASSUME NEW x \in S, NEW y \in S, x # y
      PROVE  <<x, y>> \in ByKey(k, S) \/ <<y, x>> \in ByKey(k, S)
  <2>1. k[x] # k[y] /\ k[x] \in [1..N -> Int] /\ k[y] \in [1..N -> Int]
    BY <1>3
  <2>2. Before(k[x], k[y]) \/ Before(k[y], k[x])
    BY <2>1, BeforeIsTotal
  <2> QED
    BY <2>2 DEF ByKey
<1> QED
  BY <1>1, <1>2, <1>3 DEF StrictlyOrders

\* What InOrder makes of them: a list of all of S, each once.
Lists(T, S) ==
  /\ T \in [1..Cardinality(S) -> S]
  /\ \A n, m \in DOMAIN T : T[n] = T[m] => n = m
  /\ \A x \in S : \E n \in DOMAIN T : T[n] = x

LEMMA InOrderIsRanked ==
  ASSUME NEW S, IsFiniteSet(S), NEW N \in Nat, NEW k \in [S -> [1..N -> Int]], \A x, y \in S : k[x] = k[y] => x = y
  PROVE  Ranked(InOrder(k), ByKey(k, S), S) /\ Lists(InOrder(k), S)
<1> DEFINE T == InOrder(k)
<1>0. DOMAIN k = S /\ Cardinality(S) \in Nat
  BY FS_CardinalityType
<1>1. \A x \in S : {y \in S : Before(k[y], k[x])} = Below(ByKey(k, S), S, x)
  BY DEF Below, ByKey
<1>2. T = [n \in 1..Cardinality(S) |-> CHOOSE x \in S : Cardinality({y \in S : Before(k[y], k[x])}) = n - 1]
  BY <1>0 DEF InOrder
<1> HIDE DEF T
<1>3. ASSUME NEW n \in 1..Cardinality(S)
      PROVE  T[n] = CHOOSE x \in S : Cardinality(Below(ByKey(k, S), S, x)) = n - 1
  <2>1. T[n] = CHOOSE x \in S : Cardinality({y \in S : Before(k[y], k[x])}) = n - 1
    BY <1>2, <1>3
  <2> QED
    BY <1>1, <2>1
<1>4. Ranked(T, ByKey(k, S), S)
  BY <1>2, <1>3, KeysOrder, SortedIsRanked
<1>5. T \in [1..Cardinality(S) -> S]
  BY <1>2, <1>4 DEF Ranked
<1>6. ASSUME NEW n \in DOMAIN T, NEW m \in DOMAIN T, n # m
      PROVE  T[n] # T[m]
  <2>1. n < m \/ m < n
    BY <1>0, <1>2, <1>6
  <2> QED
    BY <1>4, <2>1 DEF Ranked
<1>7. Lists(T, S)
  BY <1>4, <1>5, <1>6 DEF Lists, Ranked
<1> QED
  BY <1>4, <1>7 DEF T

LEMMA SortedIsRising ==
  ASSUME NEW S \in SUBSET Int, IsFiniteSet(S)
  PROVE  Lists(Sorted(S), S) /\ \A n, m \in DOMAIN Sorted(S) : n < m => Sorted(S)[n] < Sorted(S)[m]
<1> DEFINE k == [x \in S |-> <<x>>]
<1>1. k \in [S -> [1..1 -> Int]] /\ \A x, y \in S : k[x] = k[y] => x = y
  OBVIOUS
<1>2. \A x, y \in S : Before(k[x], k[y]) => x < y
  BY DEF Before
<1>3. Sorted(S) = InOrder(k)
  BY DEF Sorted
<1> HIDE DEF k
<1>4. Ranked(InOrder(k), ByKey(k, S), S) /\ Lists(InOrder(k), S)
  BY <1>1, InOrderIsRanked
<1> QED
  BY <1>2, <1>3, <1>4 DEF Ranked, ByKey

LEMMA ListIsSeq ==
  ASSUME NEW T, NEW S, IsFiniteSet(S), Lists(T, S)
  PROVE  T \in Seq(S) /\ Len(T) = Cardinality(S) /\ DOMAIN T = 1..Cardinality(S)
  BY FS_CardinalityType DEF Lists

-----------------------------------------------------------------------------
(* What a sentence asks of the rows, and what writing it leaves.           *)

\* A row that changes keeps its place in the order of applications, and what protects it.
Stays(b, c) == c.pos = b.pos /\ (Theirs(b) => Theirs(c)) /\ (b.series => c.series)

Results(m, change) == [gone : SUBSET DOMAIN m, add : Seq(Beat), change : {change}, later : SUBSET Int, context : BOOLEAN]

IsResult(r, m) ==
  /\ r \in Results(m, r.change)
  /\ DOMAIN r.change \subseteq DOMAIN m
  /\ \A id \in DOMAIN r.change : r.change[id] \in Beat /\ Stays(m[id], r.change[id])

Gone(m, r) == {id \in r.gone : ~RemovalProtection(m[id])}
Free(m) == Sorted(Ids \ DOMAIN m)
Top(m) == CHOOSE p \in {0} \cup {m[id].pos : id \in DOMAIN m} : \A id \in DOMAIN m : m[id].pos <= p

LEMMA PlacedIsABeat ==
  ASSUME NEW b \in Beat, NEW p \in Nat
  PROVE  [b EXCEPT !.pos = p] \in Beat /\ [b EXCEPT !.pos = p].pos = p
  BY DEF Beat

LEMMA RowsAreFew ==
  ASSUME NEW m, IsMonth(m)
  PROVE  /\ IsFiniteSet(DOMAIN m) /\ Cardinality(DOMAIN m) \in Nat
         /\ IsFiniteSet(Ids \ DOMAIN m) /\ Cardinality(Ids \ DOMAIN m) = MaxBeats - Cardinality(DOMAIN m)
<1>1. IsFiniteSet(Ids) /\ Cardinality(Ids) = MaxBeats
  <2>1. 1 \in Int /\ MaxBeats \in Int /\ MaxBeats \in Nat
    BY ReshapeAssumption
  <2>2. IsFiniteSet(1..MaxBeats) /\ Cardinality(1..MaxBeats) = IF 1 > MaxBeats THEN 0 ELSE MaxBeats - 1 + 1
    BY <2>1, FS_Interval
  <2> QED
    BY <2>1, <2>2 DEF Ids
<1>2. DOMAIN m \subseteq Ids /\ Ids \cap DOMAIN m = DOMAIN m
  BY DEF IsMonth
<1>3. IsFiniteSet(DOMAIN m) /\ Cardinality(DOMAIN m) \in Nat
  BY <1>1, <1>2, FS_Subset, FS_CardinalityType
<1>4. IsFiniteSet(Ids \ DOMAIN m) /\ Cardinality(Ids \ DOMAIN m) = Cardinality(Ids) - Cardinality(Ids \cap DOMAIN m)
  BY <1>1, FS_Difference
<1> QED
  BY <1>1, <1>2, <1>3, <1>4

LEMMA TopIsTop ==
  ASSUME NEW m, IsMonth(m)
  PROVE  Top(m) \in Nat /\ \A id \in DOMAIN m : m[id].pos <= Top(m)
<1> DEFINE P == {m[id].pos : id \in DOMAIN m}
<1>1. \A id \in DOMAIN m : m[id].pos \in Nat
  BY DEF IsMonth, Beat
<1>2. P \in SUBSET Int /\ P \in SUBSET Nat
  BY <1>1
<1>3. IsFiniteSet(P)
  <2> DEFINE f == [id \in DOMAIN m |-> m[id].pos]
  <2>1. f \in Surjection(DOMAIN m, P)
    BY DEF Surjection
  <2> HIDE DEF f
  <2> QED
    BY <2>1, RowsAreFew, FS_Surjection
<1>4. \E p \in {0} \cup P : \A id \in DOMAIN m : m[id].pos <= p
  <2>1. CASE DOMAIN m = {}
    BY <2>1
  <2>2. CASE DOMAIN m # {}
    <3> DEFINE T == Sorted(P)
    <3>1. Lists(T, P) /\ \A n, k \in DOMAIN T : n < k => T[n] < T[k]
      <4> HIDE DEF P
      <4> QED
        BY <1>2, <1>3, SortedIsRising
    <3>2. \A id \in DOMAIN m : \E n \in DOMAIN T : T[n] = m[id].pos
      <4>1. \A id \in DOMAIN m : m[id].pos \in P
        OBVIOUS
      <4> HIDE DEF P, T
      <4> QED
        BY <3>1, <4>1 DEF Lists
    <3> HIDE DEF T
    <3>3. DOMAIN T = 1..Cardinality(P) /\ Cardinality(P) \in Nat
      BY <1>3, <3>1, FS_CardinalityType DEF Lists
    <3>4. PICK id0 \in DOMAIN m : TRUE
      BY <2>2
    <3>5. Cardinality(P) \in DOMAIN T
      BY <3>2, <3>3, <3>4
    <3>6. T[Cardinality(P)] \in P
      <4> HIDE DEF P
      <4> QED
        BY <3>1, <3>5 DEF Lists
    <3>7. \A n \in DOMAIN T : T[n] \in Nat
      BY <1>2, <3>1 DEF Lists
    <3>8. \A n \in DOMAIN T : T[n] <= T[Cardinality(P)]
      BY <3>1, <3>3, <3>5, <3>7
    <3> QED
      BY <3>2, <3>6, <3>8
  <2> QED
    BY <2>1, <2>2
<1>5. Top(m) \in {0} \cup P /\ \A id \in DOMAIN m : m[id].pos <= Top(m)
  BY <1>4 DEF Top
<1> QED
  BY <1>2, <1>5

LEMMA FreeIsRoom ==
  ASSUME NEW m, IsMonth(m), NEW n \in Nat, n <= MaxBeats - Cardinality(DOMAIN m)
  PROVE  Lists(Free(m), Ids \ DOMAIN m) /\ 1..n \subseteq DOMAIN Free(m)
<1>1. Ids \ DOMAIN m \in SUBSET Int /\ MaxBeats \in Nat
  BY ReshapeAssumption DEF Ids
<1>2. Lists(Free(m), Ids \ DOMAIN m)
  BY <1>1, RowsAreFew, SortedIsRising DEF Free
<1> DEFINE room == MaxBeats - Cardinality(DOMAIN m)
<1>3. DOMAIN Free(m) = 1..room
  BY <1>2, RowsAreFew DEF Lists
<1>4. room \in Int /\ n <= room
  <2>1. Cardinality(DOMAIN m) \in Nat
    BY RowsAreFew
  <2> QED
    BY <1>1, <2>1
<1> HIDE DEF room
<1>5. 1..n \subseteq 1..room
  BY <1>4
<1> QED
  BY <1>2, <1>3, <1>5

LEMMA Written ==
  ASSUME NEW m, IsMonth(m), NEW r, IsResult(r, m), Len(r.add) <= MaxBeats - Cardinality(DOMAIN m)
  PROVE  LET W == WriteOps(m, r)
             free == Free(m)
         IN /\ DOMAIN W = (DOMAIN m \ Gone(m, r)) \cup {free[k] : k \in DOMAIN r.add}
            /\ \A k \in DOMAIN r.add : free[k] \in Ids \ DOMAIN m /\ W[free[k]] = [r.add[k] EXCEPT !.pos = Top(m) + k]
            /\ \A k, l \in DOMAIN r.add : free[k] = free[l] => k = l
            /\ \A id \in DOMAIN m \ Gone(m, r) : W[id] = IF id \in DOMAIN r.change THEN r.change[id] ELSE m[id]
<1> DEFINE W == WriteOps(m, r)
           free == Free(m)
           fresh(id) == CHOOSE k \in DOMAIN r.add : free[k] = id
<1>1. r.add \in Seq(Beat) /\ Len(r.add) \in Nat /\ DOMAIN r.add = 1..Len(r.add)
  BY DEF IsResult, Results
<1>2. Lists(free, Ids \ DOMAIN m) /\ DOMAIN r.add \subseteq DOMAIN free
  BY <1>1, FreeIsRoom
<1>3. W = [id \in (DOMAIN m \ Gone(m, r)) \cup {free[k] : k \in DOMAIN r.add} |->
             IF id \notin DOMAIN m THEN [r.add[fresh(id)] EXCEPT !.pos = Top(m) + fresh(id)]
             ELSE IF id \in DOMAIN r.change THEN r.change[id] ELSE m[id]]
  BY DEF WriteOps, Gone, Free, Top
<1> HIDE DEF W, free
<1>4. \A k \in DOMAIN r.add : free[k] \in Ids \ DOMAIN m
  BY <1>2 DEF Lists
<1>5. \A k, l \in DOMAIN r.add : free[k] = free[l] => k = l
  BY <1>2 DEF Lists
<1>6. \A k \in DOMAIN r.add : fresh(free[k]) = k
  BY <1>5
<1>7. \A k \in DOMAIN r.add : W[free[k]] = [r.add[k] EXCEPT !.pos = Top(m) + k]
  <2> HIDE DEF fresh
  <2> QED
    BY <1>3, <1>4, <1>6
<1>8. DOMAIN W = (DOMAIN m \ Gone(m, r)) \cup {free[k] : k \in DOMAIN r.add}
  BY <1>3
<1>9. \A id \in DOMAIN m \ Gone(m, r) : W[id] = IF id \in DOMAIN r.change THEN r.change[id] ELSE m[id]
  BY <1>3
<1> QED
  BY <1>4, <1>5, <1>7, <1>8, <1>9 DEF W, free

LEMMA WrittenIsMonth ==
  ASSUME NEW m, IsMonth(m), NEW r, IsResult(r, m), Len(r.add) <= MaxBeats - Cardinality(DOMAIN m)
  PROVE  IsMonth(WriteOps(m, r))
<1> DEFINE W == WriteOps(m, r)
           free == Free(m)
<1>1. /\ DOMAIN W = (DOMAIN m \ Gone(m, r)) \cup {free[k] : k \in DOMAIN r.add}
      /\ \A k \in DOMAIN r.add : free[k] \in Ids \ DOMAIN m /\ W[free[k]] = [r.add[k] EXCEPT !.pos = Top(m) + k]
      /\ \A k, l \in DOMAIN r.add : free[k] = free[l] => k = l
      /\ \A id \in DOMAIN m \ Gone(m, r) : W[id] = IF id \in DOMAIN r.change THEN r.change[id] ELSE m[id]
  BY Written
<1> HIDE DEF W, free
<1>2. Top(m) \in Nat /\ \A id \in DOMAIN m : m[id].pos <= Top(m)
  BY TopIsTop
<1>3. DOMAIN m \subseteq Ids /\ \A id \in DOMAIN m : m[id] \in Beat
  BY DEF IsMonth
<1>4. \A k \in DOMAIN r.add : r.add[k] \in Beat /\ k \in Nat \ {0}
  BY DEF IsResult, Results
<1>5. ASSUME NEW k \in DOMAIN r.add
      PROVE  W[free[k]] \in Beat /\ W[free[k]].pos = Top(m) + k
  <2> DEFINE b == r.add[k]
             p == Top(m) + k
  <2>1. b \in Beat /\ p \in Nat /\ W[free[k]] = [b EXCEPT !.pos = p]
    BY <1>1, <1>2, <1>4
  <2> HIDE DEF b, p
  <2>2. [b EXCEPT !.pos = p] \in Beat /\ [b EXCEPT !.pos = p].pos = p
    BY <2>1, PlacedIsABeat
  <2> QED
    BY <2>1, <2>2 DEF p
<1>6. ASSUME NEW id \in DOMAIN m \ Gone(m, r)
      PROVE  W[id] \in Beat /\ W[id].pos = m[id].pos
  BY <1>1, <1>3 DEF IsResult, Stays
<1>7. ASSUME NEW id \in DOMAIN W
      PROVE  id \in Ids /\ W[id] \in Beat
  <2>1. CASE id \in DOMAIN m \ Gone(m, r)
    BY <1>3, <1>6, <2>1
  <2>2. CASE \E k \in DOMAIN r.add : id = free[k]
    BY <1>1, <1>5, <2>2
  <2> QED
    BY <1>1, <2>1, <2>2
<1>8. ASSUME NEW x \in DOMAIN W, NEW y \in DOMAIN W, x # y
      PROVE  W[x].pos # W[y].pos
  <2>1. \A id \in DOMAIN m : m[id].pos \in Nat
    BY <1>3 DEF Beat
  <2>2. CASE x \in DOMAIN m \ Gone(m, r) /\ y \in DOMAIN m \ Gone(m, r)
    BY <1>6, <1>8, <2>2 DEF IsMonth
  <2>3. CASE x \in DOMAIN m \ Gone(m, r) /\ \E k \in DOMAIN r.add : y = free[k]
    BY <1>2, <1>4, <1>5, <1>6, <2>1, <2>3
  <2>4. CASE y \in DOMAIN m \ Gone(m, r) /\ \E k \in DOMAIN r.add : x = free[k]
    BY <1>2, <1>4, <1>5, <1>6, <2>1, <2>4
  <2>5. CASE (\E k \in DOMAIN r.add : x = free[k]) /\ (\E k \in DOMAIN r.add : y = free[k])
    BY <1>2, <1>4, <1>5, <1>8, <2>5
  <2> QED
    BY <1>1, <2>2, <2>3, <2>4, <2>5
<1> QED
  BY <1>7, <1>8 DEF W, IsMonth

-----------------------------------------------------------------------------
(* The lists the transforms choose from.                                   *)

LEMMA RowsAreBeats ==
  ASSUME NEW m, IsMonth(m), NEW id \in DOMAIN m
  PROVE  /\ id \in Int /\ m[id] \in Beat
         /\ m[id].day \in Days /\ m[id].day \in Int /\ m[id].posts \in Int /\ m[id].avg \in Int /\ m[id].pos \in Int
         /\ m[id].format \in Formats /\ m[id].pillar \in Pillars
<1>1. id \in Int /\ m[id] \in Beat
  BY DEF IsMonth, Ids
<1>2. m[id].day \in Days /\ m[id].posts \in Nat /\ m[id].avg \in Nat /\ m[id].pos \in Nat
      /\ m[id].format \in Formats /\ m[id].pillar \in Pillars
  BY <1>1 DEF Beat
<1> QED
  BY <1>1, <1>2 DEF Days

LEMMA CountsAreNumbers ==
  ASSUME NEW m, IsMonth(m)
  PROVE  /\ FormatCount(m) \in [Formats -> Nat]
         /\ PillarCount(m) \in [ToSet(PillarNames) -> Nat]
         /\ DayCount(m) \in [Days -> Nat]
<1>1. IsFiniteSet(DOMAIN m)
  BY RowsAreFew
<1>2. \A S \in SUBSET DOMAIN m : Cardinality(S) \in Nat
  BY <1>1, FS_Subset, FS_CardinalityType
<1>3. \A f \in Formats : Cardinality({id \in DOMAIN m : m[id].format = f}) \in Nat
  BY <1>2
<1>4. \A p \in ToSet(PillarNames) : Cardinality({id \in DOMAIN m : m[id].pillar = p}) \in Nat
  BY <1>2
<1>5. \A d \in Days : Cardinality({id \in DOMAIN m : m[id].day = d}) \in Nat
  BY <1>2
<1> QED
  BY <1>3, <1>4, <1>5 DEF FormatCount, PillarCount, DayCount

LEMMA PairsAreListed ==
  ASSUME NEW n \in Nat, NEW c \in [1..n -> Int]
  PROVE  Lists(InOrder([k \in 1..n |-> <<c[k], k>>]), 1..n)
<1> DEFINE k == [x \in 1..n |-> <<c[x], x>>]
<1>1. k \in [1..n -> [1..2 -> Int]] /\ \A x, y \in 1..n : k[x] = k[y] => x = y
  OBVIOUS
<1>2. IsFiniteSet(1..n)
  BY FS_Interval
<1> HIDE DEF k
<1>3. Lists(InOrder(k), 1..n)
  BY <1>1, <1>2, InOrderIsRanked
<1> QED
  BY <1>3 DEF k

LEMMA MostIsOneOfThem ==
  ASSUME NEW S, NEW names \in Seq(S), names # <<>>, NEW count \in [ToSet(names) -> Nat]
  PROVE  MostOf(names, count) \in ToSet(names)
<1> DEFINE n == Len(names)
           c == [k \in 1..n |-> -count[names[k]]]
           T == InOrder([k \in 1..n |-> <<c[k], k>>])
<1>1. n \in Nat \ {0} /\ DOMAIN names = 1..n
  OBVIOUS
<1>2. c \in [1..n -> Int]
  BY <1>1 DEF ToSet
<1>3. [k \in DOMAIN names |-> <<-count[names[k]], k>>] = [k \in 1..n |-> <<c[k], k>>]
  BY <1>1
<1>4. MostOf(names, count) = names[T[1]]
  BY <1>3 DEF MostOf
<1> HIDE DEF n, c
<1>5. Lists(T, 1..n)
  BY <1>1, <1>2, PairsAreListed
<1> HIDE DEF T
<1>6. IsFiniteSet(1..n) /\ Cardinality(1..n) = n
  BY <1>1, FS_Interval
<1>7. T[1] \in 1..n
  <2>1. T \in [1..Cardinality(1..n) -> 1..n]
    BY <1>5 DEF Lists
  <2>2. T \in [1..n -> 1..n]
    BY <1>6, <2>1
  <2>3. 1 \in 1..n
    BY <1>1
  <2> QED
    BY <2>2, <2>3
<1> QED
  BY <1>1, <1>4, <1>7 DEF ToSet

LEMMA NamesAreNamed ==
  /\ FormatOrder \in Seq(Formats) /\ FormatOrder # <<>> /\ ToSet(FormatOrder) = Formats
  /\ FormatNames \in Seq(Formats) /\ ToSet(FormatNames) = Formats
  /\ PillarNames \in Seq(STRING) /\ PillarNames # <<>> /\ ToSet(PillarNames) \subseteq Pillars
  /\ "single" \in Formats /\ "reel" \in Formats /\ "carousel" \in Formats /\ "General" \in Pillars /\ Unsaid \in Pillars
<1>2. ToSet(FormatOrder) = {"single", "reel", "carousel"} /\ ToSet(FormatNames) = {"single", "reel", "carousel"}
  BY DEF FormatOrder, FormatNames, ToSet
<1>0. Formats = {"single", "reel", "carousel"}
  BY <1>2 DEF Formats
<1>1. FormatOrder \in Seq(Formats) /\ FormatOrder # <<>> /\ FormatNames \in Seq(Formats)
  BY <1>0 DEF FormatOrder, FormatNames
<1>3. PillarNames # <<>>
  BY MonthAssumption DEF ToSet
<1> QED
  BY <1>0, <1>1, <1>2, <1>3, MonthAssumption DEF Pillars

LEMMA CommonestIsAFormat ==
  ASSUME NEW m, IsMonth(m)
  PROVE  CommonestFormat(m) \in Formats /\ CommonestPillar(m) \in Pillars
<1>0. FormatCount(m) \in [ToSet(FormatOrder) -> Nat] /\ PillarCount(m) \in [ToSet(PillarNames) -> Nat]
  BY CountsAreNumbers, NamesAreNamed
<1>1. MostOf(FormatOrder, FormatCount(m)) \in ToSet(FormatOrder)
  BY <1>0, NamesAreNamed, MostIsOneOfThem
<1>2. MostOf(PillarNames, PillarCount(m)) \in ToSet(PillarNames)
  BY <1>0, NamesAreNamed, MostIsOneOfThem
<1> QED
  BY <1>1, <1>2, NamesAreNamed DEF CommonestFormat, CommonestPillar

\* What replacementCandidates leaves to be replaced.
Fair(m) == {id \in DOMAIN m : ReplacementTier(m[id]) # Spared /\ ~RemovalProtection(m[id])}

LEMMA TierIsANumber ==
  ASSUME NEW b
  PROVE  /\ ReplacementTier(b) \in 0..3
         /\ ReplacementTier(b) = Spared <=> Theirs(b)
         /\ ReplacementTier(b) \in {0, 1} => ~Theirs(b) /\ b.basis # "client_input"
         /\ RemovalProtection(b) <=> Theirs(b) \/ b.series
  BY DEF ReplacementTier, Spared, Theirs, RemovalProtection

LEMMA CandidatesAreFair ==
  ASSUME NEW m, IsMonth(m)
  PROVE  Lists(ReplacementCandidates(m), Fair(m))
<1> DEFINE age(b) == IF ReplacementTier(b) = 2 THEN b.pos ELSE 0
           key == [id \in Fair(m) |-> <<ReplacementTier(m[id]), age(m[id])>> \o Evidence(id, m[id])]
<1>1. IsFiniteSet(Fair(m)) /\ Fair(m) \subseteq DOMAIN m
  BY RowsAreFew, FS_Subset DEF Fair
<1>2. ASSUME NEW id \in Fair(m)
      PROVE  key[id] \in [1..7 -> Int] /\ key[id][7] = id
  <2>1. id \in DOMAIN m
    BY <1>1
  <2>2. id \in Int /\ m[id].pos \in Int /\ m[id].day \in Int /\ m[id].posts \in Int /\ m[id].avg \in Int
    BY <2>1, RowsAreBeats
  <2>3. ReplacementTier(m[id]) \in Int
    BY TierIsANumber
  <2>4. age(m[id]) \in Int
    BY <2>2
  <2> DEFINE t == ReplacementTier(m[id])
             a == age(m[id])
             e == IF m[id].basis = "template" THEN 0 ELSE 1
             p == m[id].posts
             g == m[id].avg
             d == m[id].day
  <2>5. key[id] = <<t, a>> \o <<e, p, g, d, id>>
    BY DEF Evidence
  <2>6. t \in Int /\ a \in Int /\ e \in Int /\ p \in Int /\ g \in Int /\ d \in Int /\ id \in Int
    BY <2>2, <2>3, <2>4
  <2> DEFINE v == <<t, a>>
             w == <<e, p, g, d, id>>
  <2> HIDE DEF t, a, e, p, g, d, key
  <2>7. v \in Seq(Int) /\ w \in Seq(Int) /\ Len(v) = 2 /\ Len(w) = 5 /\ w[5] = id
    BY <2>6
  <2>8. v \o w \in Seq(Int) /\ Len(v \o w) = 7 /\ (v \o w)[7] = w[5]
    <3> HIDE DEF v, w
    <3>1. /\ v \o w \in Seq(Int) /\ Len(v \o w) = Len(v) + Len(w)
          /\ \A i \in 1..(Len(v) + Len(w)) : (v \o w)[i] = IF i <= Len(v) THEN v[i] ELSE w[i - Len(v)]
      BY <2>7, ConcatProperties
    <3>2. (v \o w)[7] = w[5]
      BY <2>7, <3>1
    <3> QED
      BY <2>7, <3>1, <3>2
  <2> DEFINE z == v \o w
  <2>9. key[id] = z /\ z \in Seq(Int) /\ Len(z) = 7 /\ z[7] = id
    BY <2>5, <2>7, <2>8
  <2> HIDE DEF v, w, z
  <2>10. z \in [1..7 -> Int]
    BY <2>9, LenProperties
  <2> QED
    BY <2>9, <2>10
<1>3. DOMAIN key = Fair(m)
  OBVIOUS
<1>4. ReplacementCandidates(m) = InOrder(key)
  BY DEF ReplacementCandidates, Fair
<1> HIDE DEF key
<1>5. key \in [Fair(m) -> [1..7 -> Int]]
  <2>1. key = [id \in Fair(m) |-> key[id]]
    BY DEF key
  <2> QED
    BY <1>2, <2>1
<1>6. \A x, y \in Fair(m) : key[x] = key[y] => x = y
  BY <1>2
<1>7. ASSUME NEW S, S = Fair(m)
      PROVE  Lists(InOrder(key), S)
  <2>1. IsFiniteSet(S) /\ key \in [S -> [1..7 -> Int]] /\ \A x, y \in S : key[x] = key[y] => x = y
    BY <1>1, <1>5, <1>6, <1>7
  <2>2. 7 \in Nat
    OBVIOUS
  <2> QED
    BY <2>1, <2>2, InOrderIsRanked
<1> QED
  BY <1>4, <1>7

LEMMA WeakestAreThose ==
  ASSUME NEW m, IsMonth(m), NEW S \in SUBSET DOMAIN m
  PROVE  Lists(WeakestFirst(m, S), S)
<1> DEFINE key == [id \in S |-> Evidence(id, m[id])]
<1>1. IsFiniteSet(S)
  BY RowsAreFew, FS_Subset
<1>2. ASSUME NEW id \in S
      PROVE  key[id] \in [1..5 -> Int] /\ key[id][5] = id
  <2>1. id \in Int /\ m[id].day \in Int /\ m[id].posts \in Int /\ m[id].avg \in Int
    BY RowsAreBeats
  <2> QED
    BY <2>1 DEF Evidence
<1>4. WeakestFirst(m, S) = InOrder(key)
  BY DEF WeakestFirst
<1>5. key \in [S -> [1..5 -> Int]]
  BY <1>2
<1> HIDE DEF key
<1>6. \A x, y \in S : key[x] = key[y] => x = y
  BY <1>2
<1> QED
  BY <1>1, <1>4, <1>5, <1>6, InOrderIsRanked

-----------------------------------------------------------------------------
(* Every intent asks for a result.                                         *)

Part == [day : Days, label : Labels, format : Formats \cup {Unsaid}]

LEMMA NewOnesAreBeats ==
  ASSUME NEW d \in Days, NEW f \in Formats, NEW p \in Pillars, NEW s \in Subjects \cup {Unsaid}, NEW label \in Labels
  PROVE  /\ NewBeat(d, f, p, s, label) \in Beat
         /\ NewBeat(d, f, p, s, label).day = d /\ NewBeat(d, f, p, s, label).label = label
<1>1. "client_input" \in Bases
  BY DEF Bases
<1>2. 0 \in 0..1
  OBVIOUS
<1>3. 0 \in Nat
  OBVIOUS
<1> QED
  BY <1>1, <1>2, <1>3 DEF NewBeat, Beat

LEMMA NothingIsAResult ==
  ASSUME NEW m
  PROVE  /\ IsResult(NoChange, m) /\ NoChange \in Results(m, <<>>)
         /\ NoChange.gone = {} /\ NoChange.add = <<>> /\ DOMAIN NoChange.change = {}
         /\ NoChange.later = {} /\ ~NoChange.context
<1>1. NoChange \in Results(m, <<>>)
  BY DEF NoChange, Results
<1>2. DOMAIN <<>> = {}
  OBVIOUS
<1>3. NoChange.gone = {} /\ NoChange.add = <<>> /\ NoChange.change = <<>> /\ NoChange.later = {} /\ ~NoChange.context
  BY DEF NoChange
<1> QED
  BY <1>1, <1>2, <1>3 DEF IsResult

LEMMA RowsMoveOnly ==
  ASSUME NEW m, NEW gone \in SUBSET DOMAIN m, NEW add \in Seq(Beat), NEW r, r = [NoChange EXCEPT !.gone = gone, !.add = add]
  PROVE  IsResult(r, m)
<1>1. NoChange \in Results(m, <<>>)
  BY NothingIsAResult
<1>2. r \in Results(m, <<>>)
  BY <1>1 DEF Results
<1>3. r.change = <<>>
  BY <1>1 DEF Results
<1>4. DOMAIN <<>> = {}
  OBVIOUS
<1> QED
  BY <1>2, <1>3, <1>4 DEF IsResult

LEMMA AddsOnly ==
  ASSUME NEW m, NEW add \in Seq(Beat), NEW r, r = [NoChange EXCEPT !.add = add]
  PROVE  IsResult(r, m) /\ r.gone = {} /\ DOMAIN r.change = {} /\ r.later = {} /\ ~r.context
<1>1. NoChange \in Results(m, <<>>)
  BY NothingIsAResult
<1>2. r \in Results(m, <<>>)
  BY <1>1 DEF Results
<1>3. r.gone = {} /\ r.change = <<>> /\ r.later = {} /\ ~r.context
  BY DEF NoChange
<1>4. DOMAIN <<>> = {}
  OBVIOUS
<1> QED
  BY <1>2, <1>3, <1>4 DEF IsResult

LEMMA RowsChangeOnly ==
  ASSUME NEW m, NEW S \in SUBSET DOMAIN m, NEW c, DOMAIN c = S,
         \A id \in S : c[id] \in Beat /\ Stays(m[id], c[id]), NEW r, r = [NoChange EXCEPT !.change = c]
  PROVE  IsResult(r, m)
<1>1. NoChange \in Results(m, <<>>)
  BY NothingIsAResult
<1>2. r \in Results(m, c)
  BY <1>1 DEF Results
<1>3. r.change = c
  BY <1>1 DEF Results
<1> QED
  BY <1>2, <1>3 DEF IsResult

\* The parts of a list take the first of those that can be replaced.
IsPlaced(r, m, parts) ==
  /\ r.gone = {ReplacementCandidates(m)[k] : k \in DOMAIN parts \cap DOMAIN ReplacementCandidates(m)}
  /\ r.gone \subseteq Fair(m)
  /\ DOMAIN r.change = {}
  /\ DOMAIN r.add = DOMAIN parts /\ Len(r.add) = Len(parts)
  /\ \A k \in DOMAIN parts : r.add[k].day = parts[k].day /\ r.add[k].label = parts[k].label

LEMMA NothingIsPlaced ==
  ASSUME NEW m
  PROVE  \E parts \in Seq(Part) : IsPlaced(NoChange, m, parts)
<1>1. IsPlaced(NoChange, m, <<>>)
  BY DEF IsPlaced, NoChange
<1>2. <<>> \in Seq(Part)
  OBVIOUS
<1> HIDE DEF IsPlaced
<1> QED
  BY <1>1, <1>2

LEMMA PlaceIsAResult ==
  ASSUME NEW m, IsMonth(m), NEW parts \in Seq(Part), NEW s \in Subjects
  PROVE  LET r == Place(parts, s, m) IN IsResult(r, m) /\ IsPlaced(r, m, parts) /\ r.later = {} /\ ~r.context
<1> DEFINE pool == ReplacementCandidates(m)
           format(k, other) == IF parts[k].format = Unsaid THEN other ELSE parts[k].format
           row(k) == IF k \in DOMAIN pool
                     THEN NewBeat(parts[k].day, format(k, m[pool[k]].format), m[pool[k]].pillar, s, parts[k].label)
                     ELSE NewBeat(parts[k].day, format(k, CommonestFormat(m)), CommonestPillar(m), s, parts[k].label)
           gone == {pool[k] : k \in DOMAIN parts \cap DOMAIN pool}
           add == [k \in DOMAIN parts |-> row(k)]
           r == Place(parts, s, m)
<1>1. r = [NoChange EXCEPT !.gone = gone, !.add = add]
  BY DEF Place
<1> HIDE DEF r
<1>2. Lists(pool, Fair(m)) /\ Fair(m) \subseteq DOMAIN m
  BY CandidatesAreFair DEF Fair
<1> HIDE DEF pool
<1>3. ASSUME NEW k \in DOMAIN parts
      PROVE  row(k) \in Beat /\ row(k).day = parts[k].day /\ row(k).label = parts[k].label
  <2>1. parts[k] \in Part
    OBVIOUS
  <2>2. parts[k].day \in Days /\ parts[k].label \in Labels /\ parts[k].format \in Formats \cup {Unsaid} /\ s \in Subjects \cup {Unsaid}
    BY <2>1 DEF Part
  <2>3. CASE k \in DOMAIN pool
    <3>1. pool[k] \in DOMAIN m
      BY <1>2, <2>3 DEF Lists
    <3>2. m[pool[k]].format \in Formats /\ m[pool[k]].pillar \in Pillars
      BY <3>1, RowsAreBeats
    <3>3. format(k, m[pool[k]].format) \in Formats
      BY <2>2, <3>2
    <3> HIDE DEF format
    <3> DEFINE d == parts[k].day
               f == format(k, m[pool[k]].format)
               p == m[pool[k]].pillar
               label == parts[k].label
    <3>4. row(k) = NewBeat(d, f, p, s, label)
      BY <2>3
    <3>5. d \in Days /\ f \in Formats /\ p \in Pillars /\ label \in Labels
      BY <2>2, <3>2, <3>3
    <3> HIDE DEF row, d, f, p, label
    <3>6. row(k) \in Beat /\ row(k).day = d /\ row(k).label = label
      BY <2>2, <3>4, <3>5, NewOnesAreBeats
    <3> QED
      BY <3>6 DEF d, label
  <2>4. CASE k \notin DOMAIN pool
    <3>1. format(k, CommonestFormat(m)) \in Formats /\ CommonestPillar(m) \in Pillars
      BY <2>2, CommonestIsAFormat
    <3> HIDE DEF format
    <3> DEFINE d == parts[k].day
               f == format(k, CommonestFormat(m))
               p == CommonestPillar(m)
               label == parts[k].label
    <3>4. row(k) = NewBeat(d, f, p, s, label)
      BY <2>4
    <3>5. d \in Days /\ f \in Formats /\ p \in Pillars /\ label \in Labels
      BY <2>2, <3>1
    <3> HIDE DEF row, d, f, p, label
    <3>6. row(k) \in Beat /\ row(k).day = d /\ row(k).label = label
      BY <2>2, <3>4, <3>5, NewOnesAreBeats
    <3> QED
      BY <3>6 DEF d, label
  <2> QED
    BY <2>3, <2>4
<1> HIDE DEF row
<1>4. DOMAIN parts = 1..Len(parts) /\ Len(parts) \in Nat
  OBVIOUS
<1>5. add \in Seq(Beat) /\ DOMAIN add = DOMAIN parts /\ Len(add) = Len(parts)
  BY <1>3, <1>4
<1>6. \A k \in DOMAIN parts : add[k].day = parts[k].day /\ add[k].label = parts[k].label
  BY <1>3
<1>7. gone \subseteq Fair(m)
  BY <1>2 DEF Lists
<1> HIDE DEF add, gone
<1>8. gone \in SUBSET DOMAIN m /\ add \in Seq(Beat)
  BY <1>2, <1>5, <1>7
<1>9. IsResult(r, m)
  BY <1>1, <1>8, RowsMoveOnly
<1>10. r.gone = gone /\ r.add = add /\ DOMAIN r.change = {} /\ r.later = {} /\ ~r.context
  <2>1. r.gone = gone /\ r.add = add /\ r.change = <<>> /\ r.later = {} /\ ~r.context
    BY <1>1 DEF NoChange
  <2>2. DOMAIN <<>> = {}
    OBVIOUS
  <2> QED
    BY <2>1, <2>2
<1> QED
  BY <1>5, <1>6, <1>7, <1>9, <1>10 DEF r, gone, pool, IsPlaced

LEMMA ClampedIsADay ==
  ASSUME NEW d \in Int
  PROVE  ClampToMonth(d) \in Days
  BY MonthAssumption DEF ClampToMonth, Days

LEMMA ToSetOfJoined ==
  ASSUME NEW S, NEW v \in Seq(S), NEW w \in Seq(S)
  PROVE  v \o w \in Seq(S) /\ ToSet(v \o w) = ToSet(v) \cup ToSet(w)
<1> DEFINE z == v \o w
<1>1. /\ z \in Seq(S) /\ Len(z) = Len(v) + Len(w) /\ DOMAIN z = 1..(Len(v) + Len(w))
      /\ \A i \in 1..(Len(v) + Len(w)) : z[i] = IF i <= Len(v) THEN v[i] ELSE w[i - Len(v)]
  BY ConcatProperties
<1>2. DOMAIN v = 1..Len(v) /\ DOMAIN w = 1..Len(w) /\ Len(v) \in Nat /\ Len(w) \in Nat
  OBVIOUS
<1> HIDE DEF z
<1>3. ASSUME NEW i \in DOMAIN z
      PROVE  z[i] \in ToSet(v) \cup ToSet(w)
  <2>1. CASE i <= Len(v)
    BY <1>1, <1>2, <2>1 DEF ToSet
  <2>2. CASE ~(i <= Len(v))
    <3>1. i - Len(v) \in DOMAIN w /\ z[i] = w[i - Len(v)]
      BY <1>1, <1>2, <2>2
    <3> QED
      BY <3>1 DEF ToSet
  <2> QED
    BY <2>1, <2>2
<1>4. ASSUME NEW i \in DOMAIN v
      PROVE  v[i] \in ToSet(z)
  <2>1. i \in DOMAIN z /\ z[i] = v[i]
    BY <1>1, <1>2
  <2> QED
    BY <2>1 DEF ToSet
<1>5. ASSUME NEW i \in DOMAIN w
      PROVE  w[i] \in ToSet(z)
  <2>1. i + Len(v) \in DOMAIN z /\ z[i + Len(v)] = w[i]
    BY <1>1, <1>2
  <2> QED
    BY <2>1 DEF ToSet
<1> QED
  BY <1>1, <1>3, <1>4, <1>5 DEF z, ToSet

ArcPart(day, label, format) == [day |-> day, label |-> label, format |-> format]

\* Around the launch: what does not fit is left out at the month's edge.
LEMMA ArcDatesAreAnArc ==
  ASSUME NEW at \in Int, NEW given \in [launch : Int, tease : Int, followUp : Int]
  PROVE  LET P == ArcDates(at, given)
             t == TeaseDay(at, given)
             l == ClampToMonth(at)
             f == FollowUpDay(at, given)
         IN /\ P \in Seq(Part) /\ l \in Days
            /\ ToSet(P) = (IF t \in Days THEN {ArcPart(t, "Tease", "single")} ELSE {})
                          \cup {ArcPart(l, "Launch", "reel")}
                          \cup (IF f \in Days THEN {ArcPart(f, "Follow-up", "carousel")} ELSE {})
            /\ t \in Int /\ f \in Int /\ t < l /\ f > l
            /\ (t \in Days \/ l = 1) /\ (f \in Days \/ l = LastDay)
<1> DEFINE part(day, label, format) == IF day \in Days THEN <<[day |-> day, label |-> label, format |-> format]>> ELSE <<>>
           t == TeaseDay(at, given)
           l == ClampToMonth(at)
           f == FollowUpDay(at, given)
           u == part(t, "Tease", "single")
           v == part(l, "Launch", "reel")
           w == part(f, "Follow-up", "carousel")
<1>1. given.tease \in Int /\ given.followUp \in Int
  OBVIOUS
<1>2. l \in Days
  BY ClampedIsADay
<1>3. t \in Int /\ t < l /\ (t \in Days \/ l = 1)
  <2> DEFINE wanted == IF given.tease # 0 THEN ClampToMonth(given.tease) ELSE ClampToMonth(at - 5)
  <2>1. wanted \in Days
    BY <1>1, ClampedIsADay
  <2>2. t = IF wanted < l THEN wanted ELSE l - 1
    BY DEF TeaseDay
  <2> HIDE DEF wanted, t, l
  <2> QED
    BY <1>2, <2>1, <2>2, MonthAssumption DEF Days
<1>4. f \in Int /\ f > l /\ (f \in Days \/ l = LastDay)
  <2> DEFINE wanted == IF given.followUp # 0 THEN ClampToMonth(given.followUp) ELSE ClampToMonth(at + 3)
  <2>1. wanted \in Days
    BY <1>1, ClampedIsADay
  <2>2. f = IF wanted > l THEN wanted ELSE l + 1
    BY DEF FollowUpDay
  <2> HIDE DEF wanted, f, l
  <2> QED
    BY <1>2, <2>1, <2>2, MonthAssumption DEF Days
<1>5. ArcDates(at, given) = (u \o v) \o w
  BY DEF ArcDates
<1> HIDE DEF t, l, f
<1>6. ASSUME NEW day \in Days, NEW label \in Labels, NEW format \in Formats
      PROVE  <<ArcPart(day, label, format)>> \in Seq(Part) /\ ToSet(<<ArcPart(day, label, format)>>) = {ArcPart(day, label, format)}
  <2>1. ArcPart(day, label, format) \in Part
    BY DEF ArcPart, Part
  <2> QED
    BY <2>1 DEF ToSet
<1>7. <<>> \in Seq(Part) /\ ToSet(<<>>) = {}
  BY DEF ToSet
<1>8. "Tease" \in Labels /\ "Launch" \in Labels /\ "Follow-up" \in Labels
  BY DEF Labels
<1>9. u \in Seq(Part) /\ ToSet(u) = IF t \in Days THEN {ArcPart(t, "Tease", "single")} ELSE {}
  <2>1. CASE t \in Days
    <3>1. u = <<ArcPart(t, "Tease", "single")>>
      BY <2>1 DEF ArcPart
    <3> HIDE DEF u
    <3> QED
      BY <1>6, <1>8, <2>1, <3>1, NamesAreNamed
  <2>2. CASE t \notin Days
    BY <1>7, <2>2
  <2> QED
    BY <2>1, <2>2
<1>10. v \in Seq(Part) /\ ToSet(v) = {ArcPart(l, "Launch", "reel")}
  <2>1. v = <<ArcPart(l, "Launch", "reel")>>
    BY <1>2 DEF ArcPart
  <2> HIDE DEF v
  <2> QED
    BY <1>2, <1>6, <1>8, <2>1, NamesAreNamed
<1>11. w \in Seq(Part) /\ ToSet(w) = IF f \in Days THEN {ArcPart(f, "Follow-up", "carousel")} ELSE {}
  <2>1. CASE f \in Days
    <3>1. w = <<ArcPart(f, "Follow-up", "carousel")>>
      BY <2>1 DEF ArcPart
    <3> HIDE DEF w
    <3> QED
      BY <1>6, <1>8, <2>1, <3>1, NamesAreNamed
  <2>2. CASE f \notin Days
    BY <1>7, <2>2
  <2> QED
    BY <2>1, <2>2
<1> HIDE DEF u, v, w
<1>12. u \o v \in Seq(Part) /\ ToSet(u \o v) = ToSet(u) \cup ToSet(v)
  BY <1>9, <1>10, ToSetOfJoined
<1>13. (u \o v) \o w \in Seq(Part) /\ ToSet((u \o v) \o w) = ToSet(u \o v) \cup ToSet(w)
  <2> DEFINE z == u \o v
  <2>1. z \in Seq(Part) /\ w \in Seq(Part)
    BY <1>11, <1>12
  <2> HIDE DEF z
  <2>2. z \o w \in Seq(Part) /\ ToSet(z \o w) = ToSet(z) \cup ToSet(w)
    BY <2>1, ToSetOfJoined
  <2> QED
    BY <2>2 DEF z
<1> QED
  BY <1>2, <1>3, <1>4, <1>5, <1>9, <1>10, <1>11, <1>12, <1>13 DEF t, l, f

LEMMA SeriesIsExpanded ==
  ASSUME NEW i \in Sentences, i.kind = "series"
  PROVE  ExpandSeries(i) \in Seq(Int) /\ (i.listed # <<>> => ToSet(ExpandSeries(i)) = ToSet(i.listed))
<1> DEFINE byDay == InOrder([k \in DOMAIN i.listed |-> <<i.listed[k], k>>])
           end == IF i.until # 0 /\ i.until < LastDay THEN i.until ELSE LastDay
           day(n) == i.day + (n - 1) * i.interval
           turns == {n \in 1..i.count : \A m \in 1..n : day(m) <= end}
<1>1. i.listed \in Seq(Int) /\ i.interval \in Int /\ i.count \in Nat /\ i.until \in Int /\ i.day \in Int
  BY IntentAssumption DEF IsIntent
<1>2. CASE i.listed # <<>>
  <2> DEFINE n == Len(i.listed)
             c == i.listed
  <2>1. n \in Nat /\ DOMAIN c = 1..n /\ c \in [1..n -> Int]
    BY <1>1
  <2>2. byDay = InOrder([k \in 1..n |-> <<c[k], k>>])
    BY <2>1
  <2> HIDE DEF byDay, n
  <2>3. Lists(byDay, 1..n)
    BY <2>1, <2>2, PairsAreListed
  <2>4. IsFiniteSet(1..n) /\ Cardinality(1..n) = n
    BY <2>1, FS_Interval
  <2>5. byDay \in [1..n -> 1..n]
    BY <2>3, <2>4 DEF Lists
  <2>6. ExpandSeries(i) = [k \in 1..n |-> c[byDay[k]]]
    BY <1>2, <2>5 DEF ExpandSeries, byDay
  <2>7. \A k \in 1..n : c[byDay[k]] \in Int
    BY <2>1, <2>5
  <2>8. [k \in 1..n |-> c[byDay[k]]] \in Seq(Int)
    BY <2>1, <2>7
  <2>9. ToSet([k \in 1..n |-> c[byDay[k]]]) = ToSet(c)
    <3>1. \A k \in 1..n : \E x \in 1..n : byDay[x] = k
      BY <2>3, <2>5 DEF Lists
    <3> QED
      BY <2>1, <2>5, <3>1 DEF ToSet
  <2> QED
    BY <2>6, <2>8, <2>9
<1>3. CASE i.listed = <<>>
  <2>1. i.count \in Int /\ 1 \in Int
    BY <1>1
  <2>2. IsFiniteSet(1..i.count)
    BY <2>1, FS_Interval
  <2>7. turns \in SUBSET (1..i.count)
    OBVIOUS
  <2>8. IsFiniteSet(turns)
    BY <2>2, <2>7, FS_Subset
  <2>3. Cardinality(turns) \in Nat
    BY <2>8, FS_CardinalityType
  <2>4. ExpandSeries(i) = [n \in 1..Cardinality(turns) |-> day(n)]
    BY <1>3 DEF ExpandSeries
  <2> DEFINE top == Cardinality(turns)
  <2>5. \A n \in 1..top : day(n) \in Int
    <3> HIDE DEF top
    <3> QED
      BY <1>1
  <2> HIDE DEF turns, day
  <2>6. [n \in 1..top |-> day(n)] \in Seq(Int)
    BY <2>3, <2>5
  <2> QED
    BY <1>3, <2>4, <2>6
<1> QED
  BY <1>2, <1>3

\* The days of an arc: a launch, and what falls on either side of it within the month.
IsArc(P) ==
  \E t, l, f \in Int :
    /\ ToSet(P) = (IF t \in Days THEN {ArcPart(t, "Tease", "single")} ELSE {})
                  \cup {ArcPart(l, "Launch", "reel")}
                  \cup (IF f \in Days THEN {ArcPart(f, "Follow-up", "carousel")} ELSE {})
    /\ l \in Days /\ t < l /\ f > l
    /\ (t \in Days \/ l = 1) /\ (f \in Days \/ l = LastDay)

LEMMA LaunchIsAResult ==
  ASSUME NEW m, IsMonth(m), NEW i \in Sentences, i.kind = "launch"
  PROVE  LET r == ApplyLaunchArc(i, m) IN
         /\ IsResult(r, m) /\ r.later = {} /\ ~r.context
         /\ \E parts \in Seq(Part) : IsPlaced(r, m, parts) /\ (LaunchDay(i) # 0 => IsArc(parts))
<1> DEFINE at == LaunchDay(i)
           parts == ArcDates(at, i.given)
<1>0. CASE at = 0
  <2>1. ApplyLaunchArc(i, m) = NoChange
    BY <1>0 DEF ApplyLaunchArc
  <2> HIDE DEF at
  <2> QED
    BY <1>0, <2>1, NothingIsAResult, NothingIsPlaced DEF at
<1>1. i.given \in [launch : Int, tease : Int, followUp : Int] /\ i.day \in Int /\ i.subject \in Subjects
  BY IntentAssumption DEF IsIntent
<1>2. at \in Int
  BY <1>1 DEF LaunchDay
<1>3. at # 0 => ApplyLaunchArc(i, m) = Place(parts, i.subject, m)
  BY DEF ApplyLaunchArc
<1> HIDE DEF at
<1>4. parts \in Seq(Part) /\ IsArc(parts)
  <2>1. ClampToMonth(at) \in Int
    BY <1>2, ClampedIsADay DEF Days
  <2> QED
    BY <1>1, <1>2, <2>1, ArcDatesAreAnArc DEF IsArc
<1> HIDE DEF parts
<1>5. LET r == Place(parts, i.subject, m) IN IsResult(r, m) /\ IsPlaced(r, m, parts) /\ r.later = {} /\ ~r.context
  BY <1>1, <1>4, PlaceIsAResult
<1> QED
  BY <1>0, <1>3, <1>4, <1>5 DEF at

LEMMA EventIsAResult ==
  ASSUME NEW m, IsMonth(m), NEW i \in Sentences, i.kind = "event"
  PROVE  LET r == ApplyEvent(i, m) IN
         /\ IsResult(r, m) /\ r.later = {} /\ ~r.context
         /\ \E parts \in Seq(Part) : IsPlaced(r, m, parts)
<1> DEFINE part == [day |-> ClampToMonth(i.day), label |-> Unsaid, format |-> Unsaid]
           parts == <<part>>
<1>0. CASE i.day = 0
  <2>1. ApplyEvent(i, m) = NoChange
    BY <1>0 DEF ApplyEvent
  <2> QED
    BY <2>1, NothingIsAResult, NothingIsPlaced
<1>1. i.day \in Int /\ i.subject \in Subjects
  BY IntentAssumption DEF IsIntent
<1>2. part \in Part
  <2>1. ClampToMonth(i.day) \in Days
    BY <1>1, ClampedIsADay
  <2> QED
    BY <2>1 DEF Part, Labels
<1>3. i.day # 0 => ApplyEvent(i, m) = Place(parts, i.subject, m)
  BY DEF ApplyEvent
<1> HIDE DEF part
<1>4. parts \in Seq(Part)
  BY <1>2
<1> HIDE DEF parts
<1>5. LET r == Place(parts, i.subject, m) IN IsResult(r, m) /\ IsPlaced(r, m, parts) /\ r.later = {} /\ ~r.context
  BY <1>1, <1>4, PlaceIsAResult
<1> QED
  BY <1>0, <1>3, <1>4, <1>5

LEMMA SeriesIsAResult ==
  ASSUME NEW m, IsMonth(m), NEW i \in Sentences, i.kind = "series"
  PROVE  LET r == ApplySeries(i, m) IN
         /\ IsResult(r, m) /\ ~r.context
         /\ \E parts \in Seq(Part) :
              /\ IsPlaced(r, m, parts)
              /\ i.listed # <<>> =>
                   \A d \in ToSet(i.listed) : IF d \in Days THEN \E k \in DOMAIN parts : parts[k].day = d ELSE d \in r.later
<1> DEFINE all == ExpandSeries(i)
           inside == {k \in DOMAIN all : all[k] \in Days}
           within == Sorted(inside)
           parts == [k \in DOMAIN within |-> [day |-> all[within[k]], label |-> "dated", format |-> Unsaid]]
           p == Place(parts, i.subject, m)
           r == ApplySeries(i, m)
<1>1. i.subject \in Subjects
  BY IntentAssumption DEF IsIntent
<1>2. all \in Seq(Int) /\ (i.listed # <<>> => ToSet(all) = ToSet(i.listed))
  BY SeriesIsExpanded
<1>3. r = [p EXCEPT !.later = Later(all)]
  BY DEF ApplySeries
<1> HIDE DEF all
<1>4. inside \in SUBSET Int /\ IsFiniteSet(inside)
  <2>1. IsFiniteSet(1..Len(all)) /\ DOMAIN all = 1..Len(all)
    <3>1. Len(all) \in Int /\ 1 \in Int /\ DOMAIN all = 1..Len(all)
      BY <1>2
    <3> QED
      BY <3>1, FS_Interval
  <2>2. inside \in SUBSET (1..Len(all))
    BY <2>1
  <2> QED
    BY <2>1, <2>2, FS_Subset
<1>5. \A k \in inside : all[k] \in Days
  OBVIOUS
<1>6. \A d \in ToSet(all) : d \in Days => \E k \in inside : all[k] = d
  BY DEF ToSet
<1> HIDE DEF inside
<1>7. Lists(within, inside)
  BY <1>4, SortedIsRising
<1> HIDE DEF within
<1>8. parts \in Seq(Part)
  <2>1. DOMAIN within = 1..Cardinality(inside) /\ Cardinality(inside) \in Nat
    BY <1>4, <1>7, FS_CardinalityType DEF Lists
  <2>2. \A k \in DOMAIN within : [day |-> all[within[k]], label |-> "dated", format |-> Unsaid] \in Part
    BY <1>5, <1>7 DEF Lists, Part, Labels
  <2> QED
    BY <2>1, <2>2
<1>9. \A k \in DOMAIN within : k \in DOMAIN parts /\ parts[k].day = all[within[k]]
  OBVIOUS
<1> HIDE DEF parts
<1>10. IsResult(p, m) /\ IsPlaced(p, m, parts) /\ ~p.context
  BY <1>1, <1>8, PlaceIsAResult
<1> HIDE DEF p, r
<1>11. Later(all) \in SUBSET Int
  BY <1>2 DEF Later, ToSet
<1>12. p \in Results(m, p.change)
  BY <1>10 DEF IsResult
<1>13. /\ r \in Results(m, p.change)
       /\ r.gone = p.gone /\ r.add = p.add /\ r.change = p.change /\ r.later = Later(all) /\ ~r.context
  BY <1>3, <1>10, <1>11, <1>12 DEF Results
<1>14. IsResult(r, m) /\ IsPlaced(r, m, parts)
  BY <1>10, <1>13 DEF IsResult, IsPlaced
<1>15. ASSUME i.listed # <<>>, NEW d \in ToSet(i.listed)
       PROVE  IF d \in Days THEN \E k \in DOMAIN parts : parts[k].day = d ELSE d \in r.later
  <2>1. d \in ToSet(all)
    BY <1>2, <1>15
  <2>2. CASE d \notin Days
    BY <1>13, <2>1, <2>2 DEF Later
  <2>3. CASE d \in Days
    <3>1. PICK k \in inside : all[k] = d
      BY <1>6, <2>1, <2>3
    <3>2. PICK n \in DOMAIN within : within[n] = k
      BY <1>7 DEF Lists
    <3> QED
      BY <1>9, <2>3, <3>1, <3>2
  <2> QED
    BY <2>2, <2>3
<1> QED
  BY <1>8, <1>13, <1>14, <1>15 DEF r

LEMMA BeatSpecIsAResult ==
  ASSUME NEW m, IsMonth(m), NEW i \in Sentences, i.kind = "beat_spec"
  PROVE  LET r == ApplyBeatSpec(i, m) IN
         IsResult(r, m) /\ r.gone = {} /\ DOMAIN r.change = {} /\ r.later = {} /\ ~r.context
<1> DEFINE r == ApplyBeatSpec(i, m)
           d == ClampToMonth(i.day)
           f == IF i.format # Unsaid THEN i.format ELSE CommonestFormat(m)
           b == NewBeat(d, f, Unsaid, i.subject, Unsaid)
           c == [b EXCEPT !.basis = "client_added", !.touched = TRUE]
           add == <<c>>
<1>0. CASE i.day = 0
  <2>1. r = NoChange
    BY <1>0 DEF ApplyBeatSpec
  <2> HIDE DEF r
  <2> QED
    BY <2>1, NothingIsAResult DEF r
<1>1. i.day \in Int /\ i.subject \in Subjects \cup {Unsaid} /\ i.format \in Formats \cup {Unsaid}
  BY IntentAssumption DEF IsIntent
<1>2. d \in Days /\ f \in Formats /\ Unsaid \in Pillars /\ Unsaid \in Labels
  BY <1>1, ClampedIsADay, CommonestIsAFormat, NamesAreNamed DEF Labels
<1>3. i.day # 0 => r = [NoChange EXCEPT !.add = add]
  BY DEF ApplyBeatSpec
<1> HIDE DEF d, f
<1>4. b \in Beat
  BY <1>1, <1>2, NewOnesAreBeats
<1> HIDE DEF b
<1>5. c \in Beat
  BY <1>4 DEF Beat, Bases
<1> HIDE DEF c
<1>6. add \in Seq(Beat)
  BY <1>5
<1> HIDE DEF add, r
<1>7. i.day # 0 => IsResult(r, m) /\ r.gone = {} /\ DOMAIN r.change = {} /\ r.later = {} /\ ~r.context
  BY <1>3, <1>6, AddsOnly
<1> QED
  BY <1>0, <1>7 DEF r

LEMMA SpreadNames ==
  ASSUME NEW S, NEW names \in Seq(S), NEW count, NEW n \in Int
  PROVE  LET T == Spread(names, count, n) IN \E l \in Nat : DOMAIN T = 1..l /\ \A k \in DOMAIN T : T[k] \in ToSet(names)
<1> DEFINE part == [k \in DOMAIN names |-> count[names[k]]]
           total == Total(part)
           floor == [k \in DOMAIN names |-> (part[k] * n) \div total]
           rest == [k \in DOMAIN names |-> (part[k] * n) % total]
           short == n - Total(floor)
           ahead(k) == {m \in DOMAIN names : part[m] > 0 /\ (rest[m] > rest[k] \/ (rest[m] = rest[k] /\ m < k))}
           quota == [k \in DOMAIN names |-> floor[k] + IF part[k] > 0 /\ Cardinality(ahead(k)) < short THEN 1 ELSE 0]
           turns == {t \in (1..n) \X DOMAIN names : t[1] <= quota[t[2]]}
           rows == InOrder([t \in turns |-> t])
           T == Spread(names, count, n)
<1>1. T = IF total = 0 \/ n <= 0 THEN <<>> ELSE [k \in DOMAIN rows |-> names[rows[k][2]]]
  BY DEF Spread
<1>2. turns \in SUBSET ((1..n) \X DOMAIN names)
  OBVIOUS
<1> HIDE DEF turns, total, T
<1>3. IsFiniteSet((1..n) \X DOMAIN names)
  <2>1. IsFiniteSet(1..n) /\ IsFiniteSet(1..Len(names))
    <3>1. 1 \in Int /\ n \in Int /\ Len(names) \in Int
      OBVIOUS
    <3> QED
      BY <3>1, FS_Interval
  <2>2. DOMAIN names = 1..Len(names)
    OBVIOUS
  <2> QED
    BY <2>1, <2>2, FS_Product
<1>4. IsFiniteSet(turns)
  BY <1>2, <1>3, FS_Subset
<1>5. Lists(rows, turns)
  <2> DEFINE k == [t \in turns |-> t]
  <2>1. k \in [turns -> [1..2 -> Int]]
    <3>1. ASSUME NEW t \in turns PROVE t \in [1..2 -> Int]
      <4>1. t \in (1..n) \X (1..Len(names))
        BY <1>2
      <4> QED
        BY <4>1
    <3> QED
      BY <3>1
  <2>2. \A x, y \in turns : k[x] = k[y] => x = y
    OBVIOUS
  <2> HIDE DEF k
  <2>3. Lists(InOrder(k), turns)
    BY <1>4, <2>1, <2>2, InOrderIsRanked
  <2> QED
    BY <2>3 DEF k
<1> HIDE DEF rows
<1>6. DOMAIN rows = 1..Cardinality(turns) /\ Cardinality(turns) \in Nat
  BY <1>4, <1>5, FS_CardinalityType DEF Lists
<1>7. \A k \in DOMAIN rows : names[rows[k][2]] \in ToSet(names)
  <2>1. \A k \in DOMAIN rows : rows[k] \in (1..n) \X DOMAIN names
    BY <1>2, <1>5 DEF Lists
  <2> QED
    BY <2>1 DEF ToSet
<1>8. CASE total = 0 \/ n <= 0
  <2>1. T = <<>> /\ DOMAIN <<>> = 1..0
    BY <1>1, <1>8
  <2> QED
    BY <2>1 DEF T
<1>9. CASE ~(total = 0 \/ n <= 0)
  <2>1. T = [k \in DOMAIN rows |-> names[rows[k][2]]]
    BY <1>1, <1>9
  <2>2. DOMAIN T = 1..Cardinality(turns) /\ \A k \in DOMAIN T : T[k] \in ToSet(names)
    BY <1>6, <1>7, <2>1
  <2> QED
    BY <1>6, <2>2 DEF T
<1> QED
  BY <1>8, <1>9

LEMMA ThinnestAreDays ==
  ASSUME NEW m, IsMonth(m), NEW n \in Int
  PROVE  ThinnestDays(m, n) \in Seq(Days)
<1> DEFINE start == DayCount(m)
           counts[k \in 0..n] == IF k = 0 THEN start
                                 ELSE LET count == counts[k - 1] IN [count EXCEPT ![ThinnestDay(count)] = @ + 1]
           after == counts[n]
           picks == {p \in Days \X (1..n) : p[2] <= after[p[1]] - start[p[1]]}
           rows == InOrder([p \in picks |-> p])
<1>1. ThinnestDays(m, n) = [k \in DOMAIN rows |-> rows[k][1]]
  BY DEF ThinnestDays
<1>2. picks \in SUBSET (Days \X (1..n))
  OBVIOUS
<1> HIDE DEF picks
<1>3. IsFiniteSet(Days \X (1..n)) /\ Days \subseteq Int
  <2>1. 1 \in Int /\ n \in Int /\ LastDay \in Int /\ Days = 1..LastDay
    BY MonthAssumption DEF Days
  <2>2. IsFiniteSet(1..n) /\ IsFiniteSet(Days)
    BY <2>1, FS_Interval
  <2> QED
    BY <2>1, <2>2, FS_Product
<1>4. IsFiniteSet(picks)
  BY <1>2, <1>3, FS_Subset
<1>5. Lists(rows, picks)
  <2> DEFINE k == [p \in picks |-> p]
  <2>1. k \in [picks -> [1..2 -> Int]]
    <3>1. ASSUME NEW p \in picks PROVE p \in [1..2 -> Int]
      <4>1. p \in (1..LastDay) \X (1..n)
        BY <1>2 DEF Days
      <4> QED
        BY <4>1
    <3> QED
      BY <3>1
  <2>2. \A x, y \in picks : k[x] = k[y] => x = y
    OBVIOUS
  <2> HIDE DEF k
  <2>3. Lists(InOrder(k), picks)
    BY <1>4, <2>1, <2>2, InOrderIsRanked
  <2> QED
    BY <2>3 DEF k
<1> HIDE DEF rows
<1>6. DOMAIN rows = 1..Cardinality(picks) /\ Cardinality(picks) \in Nat
  BY <1>4, <1>5, FS_CardinalityType DEF Lists
<1>7. \A k \in DOMAIN rows : rows[k][1] \in Days
  BY <1>2, <1>5 DEF Lists
<1> QED
  BY <1>1, <1>6, <1>7

LEMMA SlotsAreNumbers ==
  ASSUME NEW w \in Nat, NEW n \in Nat
  PROVE  SlotCountFor(w) \in 1..LastDay /\ CadenceFloorSlots(w, n) \in 0..LastDay
<1>1. LastDay \in Nat /\ LastDay >= 1
  BY MonthAssumption
<1>2. ASSUME NEW x \in Nat PROVE SlotCountFor(x) \in 1..LastDay
  <2> DEFINE s == (2 * x * LastDay + 7) \div 14
  <2>1. 2 * x * LastDay + 7 \in Int
    BY <1>1
  <2>2. s \in Int
    BY <2>1
  <2>3. SlotCountFor(x) = IF s > LastDay THEN LastDay ELSE IF s < 1 THEN 1 ELSE s
    BY DEF SlotCountFor
  <2> HIDE DEF s
  <2> QED
    BY <1>1, <2>2, <2>3
<1>3. CadenceFloorSlots(w, n) \in 0..LastDay
  <2> DEFINE week == IF w > 0 THEN SlotCountFor(w) ELSE 0
             most == IF week > n THEN week ELSE n
  <2>1. week \in Nat
    BY <1>1, <1>2
  <2>2. most \in Nat
    BY <2>1
  <2>3. CadenceFloorSlots(w, n) = IF most > LastDay THEN LastDay ELSE most
    BY DEF CadenceFloorSlots
  <2> HIDE DEF most
  <2> QED
    BY <1>1, <2>2, <2>3
<1> QED
  BY <1>2, <1>3

LEMMA CadenceIsAResult ==
  ASSUME NEW m, IsMonth(m), NEW i \in Sentences, i.kind = "cadence"
  PROVE  LET r == ApplyCadence(i, m) IN
         IsResult(r, m) /\ r.gone = {} /\ DOMAIN r.change = {} /\ r.later = {} /\ ~r.context
<1> DEFINE gap == CadenceFloorSlots(i.perWeek, i.perMonth) - Cardinality(DOMAIN m)
           days == ThinnestDays(m, gap)
           formats == Spread(FormatNames, FormatCount(m), gap)
           pillars == Spread(PillarNames, PillarCount(m), gap)
           or(names, k, other) == IF k \in DOMAIN names THEN names[k] ELSE other
           row(k) == NewBeat(days[k], or(formats, k, CommonestFormat(m)), or(pillars, k, Unsaid), Unsaid, Unsaid)
           add == [k \in DOMAIN days |-> row(k)]
           r == ApplyCadence(i, m)
<1>1. i.perWeek \in Nat /\ i.perMonth \in Nat
  BY IntentAssumption DEF IsIntent
<1>2. gap \in Int
  <2>1. Cardinality(DOMAIN m) \in Nat
    BY RowsAreFew
  <2>2. CadenceFloorSlots(i.perWeek, i.perMonth) \in 0..LastDay
    BY <1>1, SlotsAreNumbers
  <2>3. CadenceFloorSlots(i.perWeek, i.perMonth) \in Int
    BY <2>2, MonthAssumption
  <2> QED
    BY <2>1, <2>3
<1>3. r = IF gap <= 0 THEN NoChange ELSE [NoChange EXCEPT !.add = add]
  BY DEF ApplyCadence
<1> HIDE DEF gap
<1>4. days \in Seq(Days)
  BY <1>2, ThinnestAreDays
<1>5. \A k \in DOMAIN formats : formats[k] \in Formats
  BY <1>2, SpreadNames, NamesAreNamed
<1>6. \A k \in DOMAIN pillars : pillars[k] \in Pillars
  BY <1>2, SpreadNames, NamesAreNamed
<1> HIDE DEF days, formats, pillars
<1>7. ASSUME NEW k \in DOMAIN days
      PROVE  row(k) \in Beat
  <2> DEFINE d == days[k]
             f == or(formats, k, CommonestFormat(m))
             p == or(pillars, k, Unsaid)
  <2>1. d \in Days
    BY <1>4
  <2>2. f \in Formats /\ p \in Pillars
    BY <1>5, <1>6, CommonestIsAFormat, NamesAreNamed
  <2>3. Unsaid \in Subjects \cup {Unsaid} /\ Unsaid \in Labels
    BY DEF Labels
  <2>4. row(k) = NewBeat(d, f, p, Unsaid, Unsaid)
    OBVIOUS
  <2> HIDE DEF row, d, f, p
  <2> QED
    BY <2>1, <2>2, <2>3, <2>4, NewOnesAreBeats
<1> HIDE DEF row
<1>8. add \in Seq(Beat)
  <2>1. DOMAIN days = 1..Len(days) /\ Len(days) \in Nat
    BY <1>4
  <2> QED
    BY <1>7, <2>1
<1> HIDE DEF add, r
<1>9. CASE gap <= 0
  BY <1>3, <1>9, NothingIsAResult DEF r
<1>10. CASE ~(gap <= 0)
  <2>1. r = [NoChange EXCEPT !.add = add]
    BY <1>3, <1>10
  <2>2. IsResult(r, m) /\ r.gone = {} /\ DOMAIN r.change = {} /\ r.later = {} /\ ~r.context
    BY <1>8, <2>1, AddsOnly
  <2> QED
    BY <2>2 DEF r
<1> QED
  BY <1>9, <1>10

\* An emphasis changes nothing but posts the machine chose.
LEMMA EmphasisIsAResult ==
  ASSUME NEW m, IsMonth(m), NEW i \in Sentences, i.kind = "emphasis"
  PROVE  LET r == ApplyEmphasis(i, m) IN
         /\ IsResult(r, m) /\ r.gone = {} /\ r.add = <<>> /\ r.later = {}
         /\ \A id \in DOMAIN r.change : ~Theirs(m[id]) /\ m[id].basis # "client_input"
<1> DEFINE fair == Eligible(m, i)
           weakest == WeakestFirst(m, fair)
           third == IF Len(weakest) >= 3 THEN Len(weakest) \div 3 ELSE 1
           leant == {weakest[k] : k \in 1..third}
           lean(id) == IF i.format # Unsaid THEN [Reweighted(m[id]) EXCEPT !.format = i.format]
                       ELSE [Reweighted(m[id]) EXCEPT !.pillar = i.pillar]
           change == [id \in leant |-> lean(id)]
           r == ApplyEmphasis(i, m)
<1>1. i.pillar \in Pillars /\ i.format \in Formats \cup {Unsaid} /\ i.ambiguous \in BOOLEAN
  BY IntentAssumption DEF IsIntent
<1>2. fair \subseteq DOMAIN m /\ \A id \in fair : ReplacementTier(m[id]) \in {0, 1}
  BY DEF Eligible
<1>3. r = IF i.pillar = Unsaid /\ i.format = Unsaid THEN [NoChange EXCEPT !.context = ~i.ambiguous]
          ELSE IF weakest = <<>> THEN NoChange
          ELSE [NoChange EXCEPT !.change = change]
  BY DEF ApplyEmphasis
<1> HIDE DEF fair
<1>4. Lists(weakest, fair) /\ IsFiniteSet(fair)
  BY <1>2, WeakestAreThose, RowsAreFew, FS_Subset
<1> HIDE DEF weakest
<1>5. weakest \in Seq(fair)
  BY <1>4, ListIsSeq
<1>6. CASE i.pillar = Unsaid /\ i.format = Unsaid
  <2> DEFINE x == ~i.ambiguous
  <2>1. NoChange \in Results(m, <<>>)
    BY NothingIsAResult
  <2>2. x \in BOOLEAN /\ r = [NoChange EXCEPT !.context = x]
    BY <1>3, <1>6
  <2> HIDE DEF x, r
  <2>3. r \in Results(m, <<>>) /\ r.gone = {} /\ r.add = <<>> /\ r.change = <<>> /\ r.later = {}
    <3>1. r \in Results(m, <<>>)
      BY <2>1, <2>2 DEF Results
    <3>2. r.gone = {} /\ r.add = <<>> /\ r.change = <<>> /\ r.later = {}
      BY <2>2 DEF NoChange
    <3> QED
      BY <3>1, <3>2
  <2>4. DOMAIN <<>> = {}
    OBVIOUS
  <2> QED
    BY <2>3, <2>4 DEF IsResult, r
<1>7. CASE ~(i.pillar = Unsaid /\ i.format = Unsaid) /\ weakest = <<>>
  <2>1. r = NoChange
    BY <1>3, <1>7
  <2> HIDE DEF r
  <2> QED
    BY <2>1, NothingIsAResult DEF r
<1>8. CASE ~(i.pillar = Unsaid /\ i.format = Unsaid) /\ weakest # <<>>
  <2>1. r = [NoChange EXCEPT !.change = change]
    BY <1>3, <1>8
  <2>2. 1..third \subseteq DOMAIN weakest
    <3> DEFINE l == Len(weakest)
    <3>1. l \in Nat \ {0} /\ DOMAIN weakest = 1..l
      BY <1>5, <1>8
    <3> HIDE DEF l
    <3>2. (IF l >= 3 THEN l \div 3 ELSE 1) \in 1..l
      BY <3>1
    <3>3. third \in 1..l
      BY <3>2 DEF l
    <3> HIDE DEF third
    <3> QED
      BY <3>1, <3>3
  <2> HIDE DEF third
  <2>3. leant \subseteq fair
    BY <1>4, <2>2 DEF Lists
  <2> HIDE DEF leant
  <2>4. ASSUME NEW id \in leant
        PROVE  lean(id) \in Beat /\ Stays(m[id], lean(id)) /\ ~Theirs(m[id]) /\ m[id].basis # "client_input"
    <3> DEFINE b == m[id]
    <3>1. b \in Beat /\ ~Theirs(b) /\ b.basis # "client_input"
      BY <1>2, <2>3, RowsAreBeats, TierIsANumber
    <3> HIDE DEF b
    <3>2. 0 \in 0..1 /\ "emphasis_reweight" \in Bases
      BY DEF Bases
    <3>3. Reweighted(b) \in Beat /\ Reweighted(b).pos = b.pos /\ Reweighted(b).series = b.series
      BY <3>1, <3>2 DEF Reweighted, Beat
    <3>4. CASE i.format # Unsaid
      <4>1. lean(id) = [Reweighted(b) EXCEPT !.format = i.format] /\ i.format \in Formats
        BY <1>1, <3>4 DEF b
      <4> HIDE DEF lean
      <4>2. lean(id) \in Beat /\ lean(id).pos = b.pos /\ lean(id).series = b.series
        BY <3>3, <4>1 DEF Beat
      <4> QED
        BY <3>1, <4>2 DEF Stays, b
    <3>5. CASE i.format = Unsaid
      <4>1. lean(id) = [Reweighted(b) EXCEPT !.pillar = i.pillar]
        BY <3>5 DEF b
      <4> HIDE DEF lean
      <4>2. lean(id) \in Beat /\ lean(id).pos = b.pos /\ lean(id).series = b.series
        BY <1>1, <3>3, <4>1 DEF Beat
      <4> QED
        BY <3>1, <4>2 DEF Stays, b
    <3> QED
      BY <3>4, <3>5
  <2> HIDE DEF lean
  <2>5. DOMAIN change = leant /\ \A id \in leant : change[id] = lean(id)
    OBVIOUS
  <2>6. leant \in SUBSET DOMAIN m
    BY <1>2, <2>3
  <2> HIDE DEF change, r
  <2>7. IsResult(r, m)
    BY <2>1, <2>4, <2>5, <2>6, RowsChangeOnly
  <2>8. r.gone = {} /\ r.add = <<>> /\ r.change = change /\ r.later = {}
    BY <2>1 DEF NoChange
  <2> QED
    BY <2>4, <2>5, <2>7, <2>8 DEF r
<1> QED
  BY <1>6, <1>7, <1>8

\* An edit loses at most the one post it drops.
LEMMA BeatEditIsAResult ==
  ASSUME NEW m, IsMonth(m), NEW i \in Sentences, i.kind = "beat_edit"
  PROVE  LET r == ApplyBeatEdit(i, m) IN
         /\ IsResult(r, m) /\ r.add = <<>> /\ r.later = {} /\ ~r.context
         /\ r.gone = {} \/ \E id \in DOMAIN m : r.gone = {id}
<1> DEFINE matches == ResolveBeatRef(i, m)
           id == CHOOSE id \in matches : TRUE
           swapped == [x \in {id} |-> [m[x] EXCEPT !.format = i.format]]
           moved == [x \in {id} |-> [m[x] EXCEPT !.day = ClampToMonth(i.day)]]
           r == ApplyBeatEdit(i, m)
<1>1. /\ i.edit \in {"drop", "move", "swap_format"} /\ i.day \in Int
      /\ i.edit = "swap_format" => i.format \in Formats
  BY IntentAssumption DEF IsIntent
<1>2. matches \subseteq DOMAIN m
  BY DEF ResolveBeatRef
<1>3. CASE Cardinality(matches) # 1
  <2>1. r = NoChange
    BY <1>3 DEF ApplyBeatEdit
  <2> HIDE DEF r
  <2> QED
    BY <2>1, NothingIsAResult DEF r
<1>4. CASE Cardinality(matches) = 1
  <2>1. id \in DOMAIN m
    <3>1. matches # {}
      BY <1>4, FS_EmptySet
    <3> QED
      BY <1>2, <3>1
  <2>2. m[id] \in Beat
    BY <2>1, RowsAreBeats
  <2>3. r = CASE i.edit = "drop" -> IF RemovalProtection(m[id]) THEN NoChange ELSE [NoChange EXCEPT !.gone = {id}]
              [] i.edit = "swap_format" -> [NoChange EXCEPT !.change = swapped]
              [] i.edit = "move" -> IF i.day = 0 THEN NoChange ELSE [NoChange EXCEPT !.change = moved]
    BY <1>4 DEF ApplyBeatEdit
  <2> HIDE DEF matches, id
  <2>4. CASE i.edit = "drop" /\ RemovalProtection(m[id])
    <3>1. r = NoChange
      BY <2>3, <2>4
    <3> HIDE DEF r
    <3> QED
      BY <3>1, NothingIsAResult DEF r
  <2>5. CASE i.edit = "drop" /\ ~RemovalProtection(m[id])
    <3>1. r = [NoChange EXCEPT !.gone = {id}]
      BY <2>3, <2>5
    <3> HIDE DEF r
    <3>2. NoChange \in Results(m, <<>>) /\ {id} \in SUBSET DOMAIN m
      BY <2>1, NothingIsAResult
    <3>3. r \in Results(m, <<>>)
      BY <3>1, <3>2 DEF Results
    <3>4. r.gone = {id} /\ r.add = <<>> /\ r.change = <<>> /\ r.later = {} /\ ~r.context
      BY <3>1 DEF NoChange
    <3>5. DOMAIN <<>> = {}
      OBVIOUS
    <3> QED
      BY <2>1, <3>3, <3>4, <3>5 DEF r, IsResult
  <2>6. CASE i.edit = "swap_format"
    <3>1. r = [NoChange EXCEPT !.change = swapped]
      BY <2>3, <2>6
    <3>2. DOMAIN swapped = {id} /\ swapped[id] = [m[id] EXCEPT !.format = i.format]
      OBVIOUS
    <3> HIDE DEF swapped
    <3>3. swapped[id] \in Beat /\ Stays(m[id], swapped[id])
      BY <1>1, <2>2, <2>6, <3>2 DEF Beat, Stays, Theirs
    <3>4. {id} \in SUBSET DOMAIN m /\ \A x \in {id} : swapped[x] \in Beat /\ Stays(m[x], swapped[x])
      BY <2>1, <3>3
    <3> HIDE DEF r
    <3>5. IsResult(r, m)
      BY <3>1, <3>2, <3>4, RowsChangeOnly
    <3>6. r.gone = {} /\ r.add = <<>> /\ r.later = {} /\ ~r.context
      BY <3>1 DEF NoChange
    <3> QED
      BY <3>5, <3>6 DEF r
  <2>7. CASE i.edit = "move" /\ i.day = 0
    <3>1. r = NoChange
      BY <2>3, <2>7
    <3> HIDE DEF r
    <3> QED
      BY <3>1, NothingIsAResult DEF r
  <2>8. CASE i.edit = "move" /\ i.day # 0
    <3>1. r = [NoChange EXCEPT !.change = moved]
      BY <2>3, <2>8
    <3>2. DOMAIN moved = {id} /\ moved[id] = [m[id] EXCEPT !.day = ClampToMonth(i.day)]
      OBVIOUS
    <3> HIDE DEF moved
    <3>3. ClampToMonth(i.day) \in Days
      BY <1>1, ClampedIsADay
    <3>4. moved[id] \in Beat /\ Stays(m[id], moved[id])
      BY <2>2, <3>2, <3>3 DEF Beat, Stays, Theirs
    <3>5. {id} \in SUBSET DOMAIN m /\ \A x \in {id} : moved[x] \in Beat /\ Stays(m[x], moved[x])
      BY <2>1, <3>4
    <3> HIDE DEF r
    <3>6. IsResult(r, m)
      BY <3>1, <3>2, <3>5, RowsChangeOnly
    <3>7. r.gone = {} /\ r.add = <<>> /\ r.later = {} /\ ~r.context
      BY <3>1 DEF NoChange
    <3> QED
      BY <3>6, <3>7 DEF r
  <2> QED
    BY <1>1, <2>4, <2>5, <2>6, <2>7, <2>8
<1> QED
  BY <1>3, <1>4

LEMMA ChosenAreNamed ==
  ASSUME NEW m, IsMonth(m), NEW i \in Sentences, i.kind = "correction"
  PROVE  /\ Named(i, m) \subseteq DOMAIN m /\ Chosen(i, m) \in Seq(Named(i, m))
         /\ Named(i, m) # {} => Chosen(i, m) # <<>>
<1> DEFINE named == Named(i, m)
           narrows == i.count # 0 /\ i.count < Cardinality(named)
           exact(b) == narrows /\ b.subject = i.subject /\ b.label = Unsaid
           key == [id \in named |-> <<IF exact(m[id]) THEN 0 ELSE 1, m[id].day, m[id].pos, id>>]
           ranked == InOrder(key)
<1>1. i.count \in Nat
  BY IntentAssumption DEF IsIntent
<1>2. named \subseteq DOMAIN m
  BY DEF Named
<1>3. Chosen(i, m) = IF narrows THEN SubSeq(ranked, 1, i.count) ELSE ranked
  BY DEF Chosen
<1> HIDE DEF named
<1>4. IsFiniteSet(named) /\ Cardinality(named) \in Nat
  BY <1>2, RowsAreFew, FS_Subset, FS_CardinalityType
<1>5. ASSUME NEW id \in named
      PROVE  key[id] \in [1..4 -> Int] /\ key[id][4] = id
  <2>1. id \in Int /\ m[id].day \in Int /\ m[id].pos \in Int
    BY <1>2, RowsAreBeats
  <2> QED
    BY <2>1
<1>6. key \in [named -> [1..4 -> Int]]
  BY <1>5
<1> HIDE DEF key, exact
<1>7. \A x, y \in named : key[x] = key[y] => x = y
  BY <1>5
<1>8. Lists(ranked, named)
  BY <1>4, <1>6, <1>7, InOrderIsRanked
<1> HIDE DEF ranked
<1>9. ranked \in Seq(named) /\ Len(ranked) = Cardinality(named)
  BY <1>4, <1>8, ListIsSeq
<1>10. CASE ~narrows
  <2>1. named # {} => Cardinality(named) # 0
    BY <1>4, FS_EmptySet
  <2> QED
    BY <1>2, <1>3, <1>9, <1>10, <2>1 DEF named
<1>11. CASE narrows
  <2> DEFINE n == i.count
             T == SubSeq(ranked, 1, n)
  <2>1. n \in 1..Len(ranked)
    BY <1>1, <1>4, <1>9, <1>11
  <2> HIDE DEF n
  <2>2. T \in Seq(named) /\ Len(T) = n
    BY <1>9, <2>1
  <2>3. Chosen(i, m) = T
    BY <1>3, <1>11 DEF n
  <2> HIDE DEF T
  <2> QED
    BY <1>2, <2>1, <2>2, <2>3 DEF named
<1> QED
  BY <1>10, <1>11

\* What moves together keeps its distance from the first, which goes to the date said.
MovedTo(i, m, id) == ClampToMonth(i.day + m[id].day - Anchor(i, m))

LEMMA CorrectionIsAResult ==
  ASSUME NEW m, IsMonth(m), NEW i \in Sentences, i.kind = "correction"
  PROVE  LET r == ApplyCorrection(i, m) IN
         /\ IsResult(r, m) /\ r.gone = {} /\ r.add = <<>> /\ r.later = {} /\ ~r.context
         /\ \/ \A id \in DOMAIN r.change : r.change[id].day = m[id].day
            \/ /\ i.day \in Int /\ Named(i, m) # {}
               /\ DOMAIN r.change = ToSet(Chosen(i, m))
               /\ \A id \in DOMAIN r.change : r.change[id].day = MovedTo(i, m, id)
<1> DEFINE named == Named(i, m)
           formatted == [id \in named |-> [m[id] EXCEPT !.format = i.format]]
           moved == [id \in ToSet(Chosen(i, m)) |-> [m[id] EXCEPT !.day = MovedTo(i, m, id)]]
           r == ApplyCorrection(i, m)
<1>1. i.format \in Formats \cup {Unsaid} /\ i.day \in Int
  BY IntentAssumption DEF IsIntent
<1>2. named \subseteq DOMAIN m /\ Chosen(i, m) \in Seq(named) /\ (named # {} => Chosen(i, m) # <<>>)
  BY ChosenAreNamed
<1>3. r = CASE named = {} \/ (i.format = Unsaid /\ i.day = 0) -> NoChange
            [] named # {} /\ i.format # Unsaid ->
                 IF Cardinality(named) > 1 THEN NoChange ELSE [NoChange EXCEPT !.change = formatted]
            [] OTHER -> [NoChange EXCEPT !.change = moved]
  BY DEF ApplyCorrection, MovedTo
<1> HIDE DEF named
<1>4. CASE r = NoChange
  <2> HIDE DEF r
  <2> QED
    BY <1>4, NothingIsAResult DEF r
<1>5. CASE i.format # Unsaid /\ r = [NoChange EXCEPT !.change = formatted]
  <2>1. DOMAIN formatted = named /\ \A id \in named : formatted[id] = [m[id] EXCEPT !.format = i.format]
    OBVIOUS
  <2> HIDE DEF formatted
  <2>2. ASSUME NEW id \in named
        PROVE  formatted[id] \in Beat /\ Stays(m[id], formatted[id]) /\ formatted[id].day = m[id].day
    <3>1. m[id] \in Beat /\ i.format \in Formats
      BY <1>1, <1>2, <1>5, RowsAreBeats
    <3> QED
      BY <2>1, <3>1 DEF Beat, Stays, Theirs
  <2>3. named \in SUBSET DOMAIN m
    BY <1>2
  <2> HIDE DEF r
  <2>4. IsResult(r, m)
    BY <1>5, <2>1, <2>2, <2>3, RowsChangeOnly
  <2>5. r.gone = {} /\ r.add = <<>> /\ r.change = formatted /\ r.later = {} /\ ~r.context
    BY <1>5 DEF NoChange
  <2> QED
    BY <2>1, <2>2, <2>4, <2>5 DEF r
<1>6. CASE named # {} /\ r = [NoChange EXCEPT !.change = moved]
  <2> DEFINE chosen == ToSet(Chosen(i, m))
  <2>1. DOMAIN moved = chosen /\ \A id \in chosen : moved[id] = [m[id] EXCEPT !.day = MovedTo(i, m, id)]
    OBVIOUS
  <2>2. chosen \subseteq named
    BY <1>2 DEF ToSet
  <2>3. Anchor(i, m) \in Int
    <3>1. Chosen(i, m)[1] \in named
      BY <1>2, <1>6
    <3> QED
      BY <1>2, <3>1, RowsAreBeats DEF Anchor
  <2> HIDE DEF moved, chosen
  <2>4. ASSUME NEW id \in chosen
        PROVE  moved[id] \in Beat /\ Stays(m[id], moved[id]) /\ moved[id].day = MovedTo(i, m, id)
    <3>1. m[id] \in Beat /\ m[id].day \in Int
      BY <1>2, <2>2, RowsAreBeats
    <3>2. MovedTo(i, m, id) \in Days
      BY <1>1, <2>3, <3>1, ClampedIsADay DEF MovedTo
    <3> QED
      BY <2>1, <3>1, <3>2 DEF Beat, Stays, Theirs
  <2>5. chosen \in SUBSET DOMAIN m
    BY <1>2, <2>2
  <2> HIDE DEF r
  <2>6. IsResult(r, m)
    BY <1>6, <2>1, <2>4, <2>5, RowsChangeOnly
  <2>7. r.gone = {} /\ r.add = <<>> /\ r.change = moved /\ r.later = {} /\ ~r.context
    BY <1>6 DEF NoChange
  <2> QED
    BY <1>1, <1>6, <2>1, <2>4, <2>6, <2>7 DEF r, named, chosen
<1> QED
  BY <1>3, <1>4, <1>5, <1>6

LEMMA IntentsAreKnown ==
  ASSUME NEW m, NEW i \in Sentences
  PROVE  /\ i.kind \in {"launch", "event", "series", "beat_spec", "cadence", "emphasis", "beat_edit", "correction"}
         /\ i.kind = "launch" => ApplyIntent(i, m) = ApplyLaunchArc(i, m)
         /\ i.kind = "event" => ApplyIntent(i, m) = ApplyEvent(i, m)
         /\ i.kind = "series" => ApplyIntent(i, m) = ApplySeries(i, m)
         /\ i.kind = "beat_spec" => ApplyIntent(i, m) = ApplyBeatSpec(i, m)
         /\ i.kind = "cadence" => ApplyIntent(i, m) = ApplyCadence(i, m)
         /\ i.kind = "emphasis" => ApplyIntent(i, m) = ApplyEmphasis(i, m)
         /\ i.kind = "beat_edit" => ApplyIntent(i, m) = ApplyBeatEdit(i, m)
         /\ i.kind = "correction" => ApplyIntent(i, m) = ApplyCorrection(i, m)
<1>1. i.kind \in {"launch", "event", "series", "beat_spec", "cadence", "emphasis", "beat_edit", "correction"}
  BY IntentAssumption DEF IsIntent
<1> QED
  BY <1>1 DEF ApplyIntent

LEMMA IntentIsAResult ==
  ASSUME NEW m, IsMonth(m), NEW i \in Sentences
  PROVE  IsResult(ApplyIntent(i, m), m)
<1>1. CASE i.kind = "launch"
  BY <1>1, IntentsAreKnown, LaunchIsAResult
<1>2. CASE i.kind = "event"
  BY <1>2, IntentsAreKnown, EventIsAResult
<1>3. CASE i.kind = "series"
  BY <1>3, IntentsAreKnown, SeriesIsAResult
<1>4. CASE i.kind = "beat_spec"
  BY <1>4, IntentsAreKnown, BeatSpecIsAResult
<1>5. CASE i.kind = "cadence"
  BY <1>5, IntentsAreKnown, CadenceIsAResult
<1>6. CASE i.kind = "emphasis"
  BY <1>6, IntentsAreKnown, EmphasisIsAResult
<1>7. CASE i.kind = "beat_edit"
  BY <1>7, IntentsAreKnown, BeatEditIsAResult
<1>8. CASE i.kind = "correction"
  BY <1>8, IntentsAreKnown, CorrectionIsAResult
<1> QED
  BY <1>1, <1>2, <1>3, <1>4, <1>5, <1>6, <1>7, <1>8, IntentsAreKnown

-----------------------------------------------------------------------------
(* An assembly leaves a month.                                             *)

LEMMA PartsAreBelow ==
  ASSUME NEW a \in Nat, NEW n \in Nat, NEW b \in Nat, n > 0, a < b * n
  PROVE  a \div n \in 0..(b - 1)
  OBVIOUS

\* n days, as many as there are to pick from or fewer, are different days.
LEMMA PickedEvenly ==
  ASSUME NEW S \in SUBSET Int, IsFiniteSet(S), NEW n \in Nat, n <= Cardinality(S)
  PROVE  LET D == PickEvenly(S, n) IN
         /\ D \in Seq(S) /\ Len(D) = n /\ DOMAIN D = 1..n /\ \A i \in 1..n : D[i] \in S
         /\ \A i, j \in 1..n : i < j => D[i] < D[j]
<1> DEFINE L == Cardinality(S)
           list == Sorted(S)
           at(i) == ((i - 1) * L) \div n + 1
           D == PickEvenly(S, n)
<1>1. Lists(list, S) /\ \A i, j \in DOMAIN list : i < j => list[i] < list[j]
  BY SortedIsRising
<1>2. L \in Nat /\ DOMAIN list = 1..L /\ Len(list) = L
  BY <1>1, ListIsSeq, FS_CardinalityType
<1>3. D = [i \in 1..n |-> list[((i - 1) * L) \div n + 1]]
  BY <1>2 DEF PickEvenly
<1> HIDE DEF L, list, D
<1>4. ASSUME NEW i \in 1..n
      PROVE  at(i) \in 1..L
  <2>1. n > 0 /\ n <= L /\ L \in Nat /\ i - 1 \in 0..(n - 1)
    BY <1>2 DEF L
  <2>2. (i - 1) * L \in Nat
    BY <2>1
  <2>3. (i - 1) * L < L * n
    <3>1. (i - 1) * L <= (n - 1) * L
      BY <2>1
    <3>2. (n - 1) * L = L * n - L
      BY <2>1
    <3> QED
      BY <2>1, <2>2, <3>1, <3>2
  <2>4. ((i - 1) * L) \div n \in 0..(L - 1)
    BY <2>1, <2>2, <2>3, PartsAreBelow
  <2> QED
    BY <2>1, <2>4
<1>5. ASSUME NEW i \in 1..n, NEW j \in 1..n, i < j
      PROVE  at(i) < at(j)
  <2> DEFINE a == (i - 1) * L
             b == (j - 1) * L
  <2>1. n > 0 /\ n <= L /\ L \in Nat /\ n \in Nat
    BY <1>2 DEF L
  <2>2. a \in Int /\ b \in Int /\ b >= a + L
    <3>1. (j - 1) * L = (i - 1) * L + (j - i) * L
      BY <2>1
    <3>2. (j - i) * L >= L
      BY <1>5, <2>1
    <3> QED
      BY <2>1, <3>1, <3>2
  <2> HIDE DEF a, b
  <2>3. b >= a + n
    BY <2>1, <2>2
  <2>4. a \div n < b \div n
    BY <2>1, <2>2, <2>3
  <2> QED
    BY <2>1, <2>2, <2>4 DEF a, b
<1> HIDE DEF at
<1>6. D = [i \in 1..n |-> list[at(i)]]
  BY <1>3 DEF at
<1>7. \A k \in 1..L : list[k] \in S
  BY <1>1, <1>2 DEF Lists, L
<1>8. D \in Seq(S) /\ Len(D) = n /\ DOMAIN D = 1..n /\ \A i \in 1..n : D[i] \in S
  <2>1. \A i \in 1..n : list[at(i)] \in S
    BY <1>4, <1>7
  <2> QED
    BY <1>6, <2>1
<1>9. \A i, j \in 1..n : i < j => D[i] < D[j]
  BY <1>1, <1>2, <1>4, <1>5, <1>6
<1> QED
  BY <1>8, <1>9 DEF D

LEMMA DatesAreDays ==
  ASSUME NEW o, IsOrder(o)
  PROVE  /\ SlotCount(o) \in 1..LastDay /\ DOMAIN Dates(o) = 1..SlotCount(o)
         /\ Dates(o) \in Seq(Days) /\ Len(Dates(o)) = SlotCount(o)
         /\ SlotCount(o) >= CadenceFloorSlots(o.floor.perWeek, o.floor.perMonth)
         /\ \A i \in 1..SlotCount(o) : Dates(o)[i] \in Days
         /\ \A i, j \in 1..SlotCount(o) : i # j => Dates(o)[i] # Dates(o)[j]
<1> DEFINE n == SlotCount(o)
           weekdays == IF IsTemplate(o) THEN <<>> ELSE o.weekdays
           S == IF Cardinality(UsualDays(n, weekdays)) < n THEN Days ELSE UsualDays(n, weekdays)
<1>1. LastDay \in Nat /\ LastDay >= 1
  BY MonthAssumption
<1>2. n \in 1..LastDay /\ n >= CadenceFloorSlots(o.floor.perWeek, o.floor.perMonth)
  <2>1. o.rate \in Nat /\ o.config \in Nat /\ o.floor.perWeek \in Nat /\ o.floor.perMonth \in Nat
    <3>1. o.rate \in Nat /\ o.config \in Nat /\ o.floor \in Floors
      BY DEF IsOrder
    <3> QED
      BY <3>1 DEF Floors
  <2>2. PostsPerWeek(o) \in Nat
    BY <2>1 DEF PostsPerWeek
  <2> DEFINE s == SlotCountFor(PostsPerWeek(o))
             f == CadenceFloorSlots(o.floor.perWeek, o.floor.perMonth)
  <2>3. s \in 1..LastDay /\ f \in 0..LastDay
    BY <2>1, <2>2, SlotsAreNumbers
  <2>4. n = IF s > f THEN s ELSE f
    BY DEF SlotCount
  <2> HIDE DEF s, f
  <2> QED
    BY <1>1, <2>3, <2>4 DEF f
<1>3. Dates(o) = PickEvenly(S, n)
  BY DEF Dates, SpreadDates
<1> HIDE DEF n
<1>4. Days \subseteq Int /\ IsFiniteSet(Days) /\ Cardinality(Days) = LastDay
  <2>1. 1 \in Int /\ LastDay \in Int
    BY <1>1
  <2>2. IsFiniteSet(1..LastDay) /\ Cardinality(1..LastDay) = IF 1 > LastDay THEN 0 ELSE LastDay - 1 + 1
    BY <2>1, FS_Interval
  <2> QED
    BY <1>1, <2>2 DEF Days
<1>5. S \subseteq Days /\ n <= Cardinality(S)
  <2> DEFINE U == UsualDays(n, weekdays)
  <2>1. U \in SUBSET Days
    BY DEF UsualDays
  <2> HIDE DEF U
  <2>2. Cardinality(U) \in Nat
    BY <1>4, <2>1, FS_Subset, FS_CardinalityType
  <2> QED
    BY <1>1, <1>2, <1>4, <2>1, <2>2 DEF U
<1> HIDE DEF S
<1>6. S \in SUBSET Int /\ IsFiniteSet(S) /\ n \in Nat
  <2>1. S \in SUBSET Days /\ S \in SUBSET Int
    BY <1>4, <1>5
  <2>2. IsFiniteSet(S)
    BY <1>4, <2>1, FS_Subset
  <2> QED
    BY <1>1, <1>2, <2>1, <2>2
<1> DEFINE D == PickEvenly(S, n)
<1>7. /\ D \in Seq(S) /\ Len(D) = n /\ DOMAIN D = 1..n
      /\ (\A i \in 1..n : D[i] \in S) /\ (\A i, j \in 1..n : i < j => D[i] < D[j])
  BY <1>5, <1>6, PickedEvenly
<1> HIDE DEF D
<1>10. D \in Seq(Days)
  BY <1>5, <1>7
<1>8. \A i \in 1..n : D[i] \in Days /\ D[i] \in Int
  BY <1>5, <1>6, <1>7
<1>9. \A i, j \in 1..n : i # j => D[i] # D[j]
  <2> SUFFICES ASSUME NEW i \in 1..n, NEW j \in 1..n, i # j PROVE D[i] # D[j]
    OBVIOUS
  <2>1. i < j \/ j < i
    BY <1>6
  <2>2. D[i] < D[j] \/ D[j] < D[i]
    BY <1>7, <2>1
  <2> QED
    BY <1>8, <2>2
<1> QED
  BY <1>2, <1>3, <1>7, <1>8, <1>9, <1>10 DEF n, D

LEMMA MiddlesOfAList ==
  ASSUME NEW S, NEW list \in Seq(S), list # <<>>, NEW m \in Nat
  PROVE  LET M == Middles(list, m)
             at == [n \in 1..m |-> ((2 * n - 1) * Len(list)) \div (2 * m) + 1]
         IN /\ DOMAIN M = 1..m
            /\ \A n \in 1..m : at[n] \in DOMAIN list /\ M[n] = list[at[n]]
            /\ m <= Len(list) => \A n, k \in 1..m : n < k => at[n] < at[k]
<1> DEFINE L == Len(list)
           at == [n \in 1..m |-> ((2 * n - 1) * L) \div (2 * m) + 1]
           M == Middles(list, m)
<1>1. L \in Nat /\ L > 0 /\ DOMAIN list = 1..L
  OBVIOUS
<1>2. M = [n \in 1..m |-> list[((2 * n - 1) * L) \div (2 * m) + 1]]
  BY DEF Middles
<1> HIDE DEF L, M
<1>3. ASSUME NEW n \in 1..m
      PROVE  at[n] \in 1..L /\ M[n] = list[at[n]]
  <2>1. m > 0 /\ m \in Nat /\ n \in 1..m /\ 2 * m \in Nat /\ 2 * m > 0
    BY <1>3
  <2>2. (2 * n - 1) * L \in Nat
    BY <1>1, <2>1
  <2>3. (2 * n - 1) * L < L * (2 * m)
    <3>1. (2 * n - 1) * L <= (2 * m - 1) * L
      BY <1>1, <2>1
    <3>2. (2 * m - 1) * L = L * (2 * m) - L
      BY <1>1, <2>1
    <3> QED
      BY <1>1, <2>1, <2>2, <3>1, <3>2
  <2>4. ((2 * n - 1) * L) \div (2 * m) \in 0..(L - 1)
    BY <1>1, <2>1, <2>2, <2>3, PartsAreBelow
  <2>5. at[n] = ((2 * n - 1) * L) \div (2 * m) + 1
    OBVIOUS
  <2>6. M[n] = list[at[n]]
    BY <1>2, <2>5
  <2> HIDE DEF at
  <2> QED
    BY <1>1, <2>4, <2>5, <2>6
<1>4. ASSUME m <= L, NEW n \in 1..m, NEW k \in 1..m, n < k
      PROVE  at[n] < at[k]
  <2> DEFINE a == (2 * n - 1) * L
             b == (2 * k - 1) * L
             c == 2 * m
  <2>1. c > 0 /\ c <= 2 * L /\ c \in Nat
    BY <1>1, <1>4
  <2>2. a \in Int /\ b \in Int /\ b >= a + 2 * L
    <3>1. (2 * k - 1) * L = (2 * n - 1) * L + (2 * (k - n)) * L
      BY <1>1
    <3>2. (2 * (k - n)) * L >= 2 * L
      BY <1>1, <1>4
    <3> QED
      BY <1>1, <3>1, <3>2
  <2>3. at[n] = a \div c + 1 /\ at[k] = b \div c + 1
    OBVIOUS
  <2> HIDE DEF a, b, c, at
  <2>4. b >= a + c
    BY <1>1, <2>1, <2>2
  <2>5. a \div c < b \div c /\ a \div c \in Int /\ b \div c \in Int
    BY <2>1, <2>2, <2>4
  <2> QED
    BY <2>3, <2>5
<1>5. DOMAIN M = 1..m
  BY <1>2
<1> HIDE DEF at
<1> QED
  BY <1>1, <1>3, <1>4, <1>5 DEF L, M, at

\* The least of some series.
First(S) == CHOOSE k \in S : \A l \in S : k <= l

LEMMA WeeklyClaimsAre ==
  ASSUME NEW n \in Nat, NEW dates, DOMAIN dates = 1..n, NEW R, NEW series \in Seq(R)
  PROVE  LET weekly == WeeklyClaims(dates, series) IN
         /\ DOMAIN weekly = 1..n
         /\ \A i \in 1..n : \/ weekly[i] = NoOne /\ \A k \in DOMAIN series : series[k].weekday # WeekdayOf(dates[i])
                            \/ weekly[i] \in DOMAIN series /\ series[weekly[i]].weekday = WeekdayOf(dates[i])
<1> DEFINE mine(i) == {k \in DOMAIN series : series[k].weekday = WeekdayOf(dates[i])}
           weekly == WeeklyClaims(dates, series)
<1>1. weekly = [i \in 1..n |-> IF mine(i) = {} THEN NoOne ELSE First(mine(i))]
  BY DEF WeeklyClaims, First
<1>2. ASSUME NEW i \in 1..n, mine(i) # {}
      PROVE  First(mine(i)) \in mine(i)
  <2>1. mine(i) \in SUBSET Nat
    OBVIOUS
  <2> HIDE DEF mine
  <2>2. \E k \in mine(i) : \A l \in mine(i) : k <= l
    BY <1>2, <2>1, LeastOfNats
  <2> QED
    BY <2>2 DEF First
<1> HIDE DEF weekly
<1> QED
  BY <1>1, <1>2 DEF weekly

LEMMA NumbersAreListed ==
  ASSUME NEW n \in Nat, NEW S \in SUBSET (1..n)
  PROVE  /\ IsFiniteSet(S) /\ Cardinality(S) \in Nat
         /\ Sorted(S) \in Seq(S) /\ Len(Sorted(S)) = Cardinality(S) /\ DOMAIN Sorted(S) = 1..Cardinality(S)
         /\ \A a, b \in DOMAIN Sorted(S) : a < b => Sorted(S)[a] < Sorted(S)[b]
         /\ \A x \in S : \E a \in DOMAIN Sorted(S) : Sorted(S)[a] = x
<1>1. IsFiniteSet(1..n)
  <2>1. 1 \in Int /\ n \in Int
    OBVIOUS
  <2> QED
    BY <2>1, FS_Interval
<1>2. IsFiniteSet(S) /\ Cardinality(S) \in Nat
  BY <1>1, FS_Subset, FS_CardinalityType
<1>3. S \in SUBSET Int
  OBVIOUS
<1>4. Lists(Sorted(S), S) /\ \A a, b \in DOMAIN Sorted(S) : a < b => Sorted(S)[a] < Sorted(S)[b]
  BY <1>2, <1>3, SortedIsRising
<1> DEFINE T == Sorted(S)
<1> HIDE DEF T
<1>5. T \in Seq(S) /\ Len(T) = Cardinality(S) /\ DOMAIN T = 1..Cardinality(S)
  BY <1>2, <1>4, ListIsSeq DEF T
<1>6. \A x \in S : \E a \in DOMAIN T : T[a] = x
  BY <1>4 DEF T, Lists
<1> QED
  BY <1>2, <1>4, <1>5, <1>6 DEF T

SeriesRow == [weekday : 0..Monthly, format : Formats \cup {Unsaid}]
SeriesList == Seq(SeriesRow)

MonthlyOf(series) == {k \in DOMAIN series : series[k].weekday = Monthly}

\* A weekly series keeps the slots it claims; a monthly one takes a slot of those left, and
\* each of them has one when there are enough.
LEMMA ClaimsAre ==
  ASSUME NEW n \in Nat, NEW dates, DOMAIN dates = 1..n, NEW series \in SeriesList
  PROVE  LET weekly == WeeklyClaims(dates, series)
             claims == Claims(dates, series)
             left == {i \in 1..n : weekly[i] = NoOne}
         IN /\ DOMAIN claims = 1..n
            /\ \A i \in 1..n : /\ weekly[i] # NoOne => claims[i] = weekly[i]
                               /\ weekly[i] = NoOne => claims[i] \in {NoOne} \cup MonthlyOf(series)
            /\ Cardinality(MonthlyOf(series)) <= Cardinality(left) =>
                 \A k \in MonthlyOf(series) : \E i \in left : claims[i] = k
<1> DEFINE weekly == WeeklyClaims(dates, series)
           left == {i \in 1..n : weekly[i] = NoOne}
           M == MonthlyOf(series)
           monthly == Sorted(M)
           free == Sorted(left)
           at == IF free = <<>> THEN <<>> ELSE Middles(free, Len(monthly))
           pick(i) == CHOOSE k \in DOMAIN at : at[k] = i /\ \A l \in 1..(k - 1) : at[l] # i
           claims == Claims(dates, series)
<1>0. DOMAIN weekly = 1..n
  BY WeeklyClaimsAre DEF SeriesList
<1>1. claims = [i \in 1..n |-> IF weekly[i] # NoOne THEN weekly[i]
                              ELSE IF \A k \in DOMAIN at : at[k] # i THEN NoOne ELSE monthly[pick(i)]]
  BY <1>0 DEF Claims, FreeOfWeekly, MonthlyOf
<1> HIDE DEF claims, weekly
<1>2. left \in SUBSET (1..n)
  OBVIOUS
<1>3. Len(series) \in Nat /\ M \in SUBSET (1..Len(series))
  BY DEF SeriesList, MonthlyOf
<1> HIDE DEF M, left
<1>4. /\ free \in Seq(left) /\ Len(free) = Cardinality(left) /\ DOMAIN free = 1..Cardinality(left) /\ Cardinality(left) \in Nat
      /\ \A a, b \in DOMAIN free : a < b => free[a] < free[b]
  BY <1>2, NumbersAreListed
<1>5. /\ monthly \in Seq(M) /\ Len(monthly) = Cardinality(M) /\ DOMAIN monthly = 1..Cardinality(M) /\ Cardinality(M) \in Nat
      /\ \A k \in M : \E a \in DOMAIN monthly : monthly[a] = k
  BY <1>3, NumbersAreListed
<1> HIDE DEF monthly, free
<1> DEFINE where == [k \in 1..Len(monthly) |-> ((2 * k - 1) * Len(free)) \div (2 * Len(monthly)) + 1]
<1>6. free # <<>> => /\ DOMAIN at = DOMAIN monthly
                     /\ \A k \in DOMAIN at : where[k] \in DOMAIN free /\ at[k] = free[where[k]]
                     /\ Len(monthly) <= Len(free) => \A k, l \in DOMAIN at : k < l => where[k] < where[l]
  <2> SUFFICES ASSUME free # <<>>
               PROVE  /\ DOMAIN at = DOMAIN monthly
                      /\ \A k \in DOMAIN at : where[k] \in DOMAIN free /\ at[k] = free[where[k]]
                      /\ Len(monthly) <= Len(free) => \A k, l \in DOMAIN at : k < l => where[k] < where[l]
    OBVIOUS
  <2>1. at = Middles(free, Len(monthly)) /\ Len(monthly) \in Nat /\ DOMAIN monthly = 1..Len(monthly)
    BY <1>5
  <2>2. free \in Seq(left) /\ free # <<>>
    BY <1>4
  <2> DEFINE z == Len(monthly)
             MM == Middles(free, z)
  <2>3. z \in Nat
    BY <2>1
  <2> HIDE DEF at, z
  <2>4. /\ DOMAIN MM = 1..z
        /\ \A k \in 1..z : where[k] \in DOMAIN free /\ MM[k] = free[where[k]]
        /\ z <= Len(free) => \A k, l \in 1..z : k < l => where[k] < where[l]
    BY <2>2, <2>3, MiddlesOfAList DEF z
  <2> HIDE DEF MM, where
  <2> QED
    BY <2>1, <2>4 DEF z, MM
<1>7. DOMAIN at \subseteq DOMAIN monthly
  <2>1. free = <<>> => DOMAIN at = {}
    OBVIOUS
  <2> HIDE DEF at
  <2> QED
    BY <1>6, <2>1
<1> HIDE DEF at, where
<1>8. ASSUME NEW i \in 1..n, \E k \in DOMAIN at : at[k] = i
      PROVE  pick(i) \in DOMAIN at /\ at[pick(i)] = i
  <2> DEFINE K == {k \in DOMAIN at : at[k] = i}
  <2>1. K \in SUBSET Nat /\ K # {}
    BY <1>5, <1>7, <1>8
  <2>2. PICK k \in K : \A l \in K : k <= l
    <3> HIDE DEF K
    <3> QED
      BY <2>1, LeastOfNats
  <2>3. \A l \in 1..(k - 1) : at[l] # i
    <3> SUFFICES ASSUME NEW l \in 1..(k - 1), at[l] = i PROVE FALSE
      OBVIOUS
    <3>1. k \in DOMAIN at /\ DOMAIN at \subseteq 1..Cardinality(M) /\ Cardinality(M) \in Nat
      BY <1>5, <1>7, <2>2
    <3>2. free # <<>> => DOMAIN at = 1..Cardinality(M)
      BY <1>5, <1>6
    <3>3. free = <<>> => DOMAIN at = {}
      BY DEF at
    <3>4. l \in DOMAIN at
      BY <3>1, <3>2, <3>3
    <3>5. l \in K /\ ~(k <= l)
      BY <3>1, <3>4
    <3> QED
      BY <2>2, <3>5
  <2> QED
    BY <2>2, <2>3
<1>9. ASSUME NEW i \in 1..n
      PROVE  /\ weekly[i] # NoOne => claims[i] = weekly[i]
             /\ weekly[i] = NoOne => claims[i] \in {NoOne} \cup M
  <2>1. CASE weekly[i] # NoOne
    BY <1>1, <2>1
  <2>2. CASE weekly[i] = NoOne /\ \A k \in DOMAIN at : at[k] # i
    BY <1>1, <2>2
  <2>3. CASE weekly[i] = NoOne /\ \E k \in DOMAIN at : at[k] = i
    <3>1. claims[i] = monthly[pick(i)]
      BY <1>1, <2>3
    <3>2. pick(i) \in DOMAIN monthly
      BY <1>7, <1>8, <2>3
    <3> HIDE DEF pick
    <3>3. monthly[pick(i)] \in M
      BY <1>5, <3>2
    <3> QED
      BY <2>3, <3>1, <3>3
  <2> QED
    BY <2>1, <2>2, <2>3
<1>10. ASSUME Cardinality(M) <= Cardinality(left), NEW k \in M
       PROVE  \E i \in left : claims[i] = k
  <2>1. PICK a \in DOMAIN monthly : monthly[a] = k
    BY <1>5
  <2>2. free # <<>> /\ Len(monthly) <= Len(free)
    BY <1>4, <1>5, <1>10, <2>1
  <2>3. a \in DOMAIN at /\ where[a] \in DOMAIN free /\ at[a] = free[where[a]]
    BY <1>6, <2>1, <2>2
  <2> DEFINE i == at[a]
  <2>4. i \in left
    BY <1>4, <2>3
  <2>5. i \in 1..n /\ weekly[i] = NoOne
    BY <2>4 DEF left
  <2>6. pick(i) \in DOMAIN at /\ at[pick(i)] = i
    BY <1>8, <2>3, <2>5
  <2> HIDE DEF pick
  <2>7. pick(i) = a
    <3> DEFINE b == pick(i)
    <3>1. b \in DOMAIN at /\ a \in DOMAIN at /\ at[b] = at[a]
      BY <2>3, <2>6
    <3> HIDE DEF b
    <3>2. a \in Int /\ b \in Int
      BY <1>5, <1>7, <3>1
    <3>3. free[where[a]] = free[where[b]] /\ where[a] \in DOMAIN free /\ where[b] \in DOMAIN free
      BY <1>6, <2>2, <3>1
    <3>4. where[a] \in Int /\ where[b] \in Int
      BY <1>4, <3>3
    <3>5. \A x \in DOMAIN free : free[x] \in Int
      <4>1. \A x \in DOMAIN free : free[x] \in left
        BY <1>4
      <4>2. \A x \in left : x \in Int
        BY <1>2
      <4> QED
        BY <4>1, <4>2
    <3>6. ~(where[a] < where[b]) /\ ~(where[b] < where[a])
      BY <1>4, <3>3, <3>5
    <3>7. ~(a < b) /\ ~(b < a)
      BY <1>6, <2>2, <3>1, <3>6
    <3> QED
      BY <3>2, <3>7 DEF b
  <2>8. claims[i] = k
    BY <1>1, <2>1, <2>3, <2>5, <2>7
  <2> QED
    BY <2>4, <2>8
<1> QED
  BY <1>1, <1>9, <1>10 DEF claims, weekly, left, M

LEMMA AssembledIsAMonth ==
  ASSUME NEW o, IsOrder(o), SlotCount(o) <= MaxBeats
  PROVE  LET A == Assembled(o)
             dates == Dates(o)
             claims == Claims(dates, o.series)
         IN /\ IsMonth(A) /\ Len(A) = SlotCount(o) /\ DOMAIN A = 1..SlotCount(o)
            /\ \A i \in DOMAIN A : A[i].day = dates[i] /\ (A[i].series <=> claims[i] # NoOne)
            /\ [i \in DOMAIN A |-> A[i].day] = dates
<1> DEFINE dates == Dates(o)
           n == Len(dates)
           formats == SpreadFormats(IF IsTemplate(o) THEN <<>> ELSE o.formats, n)
           pillars == SpreadOverPillars(o.pillars, n)
           claims == Claims(dates, o.series)
           idea == Experiments(claims, o.ideas)
           format(i) == IF claims[i] # NoOne /\ o.series[claims[i]].format # Unsaid THEN o.series[claims[i]].format
                        ELSE IF i \in DOMAIN formats THEN formats[i] ELSE "single"
           pillar(i) == IF i \in DOMAIN pillars THEN pillars[i] ELSE "General"
           basis == IF IsTemplate(o) THEN "template" ELSE "observed"
           shown(i) == ~IsTemplate(o) /\ format(i) \in DOMAIN o.formats
           posts(i) == IF shown(i) THEN o.formats[format(i)].share ELSE 0
           avg(i) == IF shown(i) THEN o.formats[format(i)].engagement ELSE 0
           own(i) == idea[i] # NoOne /\ ~IsTemplate(o)
           series(i) == claims[i] # NoOne
           row(i) == [day |-> dates[i], format |-> format(i), pillar |-> pillar(i), basis |-> basis, posts |-> posts(i),
                      avg |-> avg(i), touched |-> FALSE, own |-> own(i), series |-> series(i), pos |-> i - 1, subject |-> Unsaid, label |-> Unsaid]
           A == Assembled(o)
<1>1. A = [i \in 1..n |-> row(i)]
  BY DEF Assembled
<1>2. n = SlotCount(o) /\ n \in Nat /\ DOMAIN dates = 1..n /\ dates \in Seq(Days) /\ \A i \in 1..n : dates[i] \in Days
  BY DatesAreDays, MonthAssumption
<1>3. o.series \in SeriesList
  BY DEF IsOrder, SeriesList, SeriesRow
<1> HIDE DEF A, dates, n
<1>4. /\ DOMAIN claims = 1..n
      /\ \A i \in 1..n : claims[i] # NoOne => claims[i] \in DOMAIN o.series
  <2> DEFINE weekly == WeeklyClaims(dates, o.series)
  <2>1. \A i \in 1..n : weekly[i] = NoOne \/ weekly[i] \in DOMAIN o.series
    BY <1>2, <1>3, WeeklyClaimsAre DEF SeriesList
  <2>2. /\ DOMAIN claims = 1..n
        /\ \A i \in 1..n : /\ weekly[i] # NoOne => claims[i] = weekly[i]
                           /\ weekly[i] = NoOne => claims[i] \in {NoOne} \cup MonthlyOf(o.series)
    BY <1>2, <1>3, ClaimsAre
  <2> HIDE DEF weekly, claims
  <2> QED
    BY <2>1, <2>2 DEF MonthlyOf
<1> HIDE DEF claims, idea
<1>5. \A i \in DOMAIN formats : formats[i] \in Formats
  <2>1. \E count : formats = Spread(FormatNames, count, n)
    BY DEF SpreadFormats
  <2>2. n \in Int /\ FormatNames \in Seq(Formats) /\ ToSet(FormatNames) = Formats
    BY <1>2, NamesAreNamed
  <2> HIDE DEF formats
  <2> QED
    BY <2>1, <2>2, SpreadNames
<1>6. \A i \in DOMAIN pillars : pillars[i] \in Pillars
  <2>1. pillars = [i \in 1..n |-> "General"] \/ \E count : pillars = Spread(PillarNames, count, n)
    BY DEF SpreadOverPillars
  <2>2. n \in Int /\ PillarNames \in Seq(STRING) /\ ToSet(PillarNames) \subseteq Pillars /\ "General" \in Pillars
    BY <1>2, NamesAreNamed
  <2> HIDE DEF pillars
  <2> QED
    BY <2>1, <2>2, SpreadNames
<1> HIDE DEF formats, pillars
<1>7. ASSUME NEW i \in 1..n
      PROVE  row(i) \in Beat
  <2>1. format(i) \in Formats
    <3>1. CASE claims[i] # NoOne /\ o.series[claims[i]].format # Unsaid
      <4>1. claims[i] \in DOMAIN o.series
        BY <1>4, <3>1
      <4>2. o.series[claims[i]] \in SeriesRow
        BY <1>3, <4>1 DEF SeriesList
      <4>3. o.series[claims[i]].format \in Formats \cup {Unsaid}
        BY <4>2 DEF SeriesRow
      <4> QED
        BY <3>1, <4>3
    <3>2. CASE ~(claims[i] # NoOne /\ o.series[claims[i]].format # Unsaid)
      BY <1>5, <3>2, NamesAreNamed
    <3> QED
      BY <3>1, <3>2
  <2> HIDE DEF format
  <2>2. pillar(i) \in Pillars
    BY <1>6, NamesAreNamed
  <2> HIDE DEF pillar
  <2>3. basis \in Bases /\ i - 1 \in Nat /\ Unsaid \in Labels
    BY DEF Bases, Labels
  <2>6. posts(i) \in Nat /\ avg(i) \in Nat
    <3>1. o.formats \in [DOMAIN o.formats -> [share : Nat, engagement : Nat]]
      BY DEF IsOrder
    <3> QED
      BY <3>1
  <2>4. own(i) \in BOOLEAN /\ series(i) \in BOOLEAN /\ FALSE \in BOOLEAN
    OBVIOUS
  <2> HIDE DEF basis, posts, avg, own, series
  <2>5. dates[i] \in Days /\ Unsaid \in Subjects \cup {Unsaid}
    BY <1>2
  <2> QED
    BY <2>1, <2>2, <2>3, <2>4, <2>5, <2>6 DEF Beat
<1>8. \A i \in 1..n : row(i).pos = i - 1 /\ row(i).day = dates[i] /\ (row(i).series <=> claims[i] # NoOne)
  OBVIOUS
<1> HIDE DEF row
<1>9. DOMAIN A = 1..n /\ Len(A) = n /\ \A i \in 1..n : A[i] = row(i)
  BY <1>1, <1>2
<1>10. 1..n \subseteq Ids
  BY <1>2, ReshapeAssumption DEF Ids
<1>11. IsMonth(A)
  <2>1. DOMAIN A \subseteq Ids /\ \A i \in DOMAIN A : A[i] \in Beat
    BY <1>7, <1>9, <1>10
  <2>2. \A x, y \in DOMAIN A : x # y => A[x].pos # A[y].pos
    BY <1>2, <1>8, <1>9
  <2> QED
    BY <2>1, <2>2 DEF IsMonth
<1>12. [i \in DOMAIN A |-> A[i].day] = dates
  <2>1. dates = [i \in 1..n |-> dates[i]]
    BY <1>2
  <2> QED
    BY <1>8, <1>9, <2>1
<1> QED
  BY <1>2, <1>8, <1>9, <1>11, <1>12 DEF A, dates, claims

-----------------------------------------------------------------------------
(* What every reachable month is.                                          *)

LEMMA NothingIsNotSaid ==
  ASSUME NEW i \in Sentences
  PROVE  i # Nothing /\ i.kind # Nothing.kind
  BY IntentAssumption DEF IsIntent, Nothing

LEMMA SentencesAreTyped ==
  ASSUME DraftTypeOK, NEW i \in Sentences, Hears(i)
  PROVE  DraftTypeOK'
<1> DEFINE r == ApplyIntent(i, plan)
<1>1. IsMonth(plan) /\ filed \subseteq Int /\ said \in 0..MaxSaid /\ stated \in Floors
  BY DEF DraftTypeOK, ReshapeTypeOK
<1>2. /\ said < MaxSaid /\ Len(r.add) <= MaxBeats - Cardinality(DOMAIN plan)
      /\ plan' = IF HasOps(r) THEN WriteOps(plan, r) ELSE plan
      /\ noted' = r.context
      /\ Files(i, r)
      /\ said' = said + 1 /\ last' = i /\ stated' = Floor(i) /\ order' = Nothing
  BY DEF Hears, Sentence
<1>3. IsResult(r, plan)
  BY <1>1, IntentIsAResult
<1> HIDE DEF r
<1>4. IsMonth(plan')
  BY <1>1, <1>2, <1>3, WrittenIsMonth
<1>5. r.context \in BOOLEAN /\ r.later \subseteq Int
  BY <1>3 DEF IsResult, Results
<1>6. /\ noted' \in BOOLEAN /\ filed' \subseteq Int
      /\ went' \in {"well", "refused", "broken"} /\ counted' \in BOOLEAN
  <2>1. Whole(i, r) \subseteq Int
    BY DEF Whole
  <2> QED
    BY <1>2, <1>5, <2>1 DEF Files
<1>7. said' \in 0..MaxSaid
  BY <1>1, <1>2, ReshapeAssumption
<1>8. stated' \in Floors
  <2>1. i.kind = "cadence" => i.perWeek \in Nat /\ i.perMonth \in Nat
    BY IntentAssumption DEF IsIntent
  <2> QED
    BY <1>1, <1>2, <2>1 DEF Floor, Floors
<1> QED
  BY <1>2, <1>4, <1>6, <1>7, <1>8 DEF DraftTypeOK, ReshapeTypeOK

LEMMA CadencesAreTyped ==
  ASSUME DraftTypeOK, NEW i \in Sentences, HearsCadence(i)
  PROVE  DraftTypeOK'
<1>1. IsMonth(plan) /\ said \in 0..MaxSaid
  BY DEF DraftTypeOK, ReshapeTypeOK
<1>2. /\ said < MaxSaid /\ i.kind = "cadence" /\ stated' = Floor(i) /\ said' = said + 1 /\ last' = i
      /\ filed' = {} /\ noted' = FALSE /\ counted' = FALSE /\ order' = Nothing /\ plan' = plan
      /\ went' \in {"well", "broken"}
  BY DEF HearsCadence
<1>3. IsMonth(plan') /\ filed' \subseteq Int /\ noted' \in BOOLEAN /\ counted' \in BOOLEAN
  BY <1>1, <1>2
<1>4. said' \in 0..MaxSaid
  BY <1>1, <1>2, ReshapeAssumption
<1>5. stated' \in Floors
  <2>1. i.perWeek \in Nat /\ i.perMonth \in Nat
    BY <1>2, IntentAssumption DEF IsIntent
  <2> QED
    BY <1>2, <2>1 DEF Floor, Floors
<1> QED
  BY <1>2, <1>3, <1>4, <1>5 DEF DraftTypeOK, ReshapeTypeOK

\* An order filled in with the floor the client stated.
LEMMA OrdersAreOrders ==
  ASSUME NEW o \in Orders, NEW f \in Floors
  PROVE  IsOrder([o EXCEPT !.floor = f]) /\ [o EXCEPT !.floor = f].floor = f /\ [o EXCEPT !.floor = f] # Nothing
<1> DEFINE R(fm, ps) == [thin : BOOLEAN, rate : Nat, config : Nat, weekdays : Seq(0..6), floor : Floors,
                         formats : {fm}, pillars : {ps}, ideas : Seq(STRING), stale : Nat,
                         series : Seq([weekday : 0..Monthly, format : Formats \cup {Unsaid}])]
           q == [o EXCEPT !.floor = f]
<1>1. /\ o \in R(o.formats, o.pillars)
      /\ DOMAIN o.formats \subseteq Formats /\ o.formats \in [DOMAIN o.formats -> [share : Nat, engagement : Nat]]
      /\ DOMAIN o.pillars \subseteq ToSet(PillarNames) /\ o.pillars \in [DOMAIN o.pillars -> Nat]
  BY OrdersAssumption DEF IsOrder
<1>2. q \in R(o.formats, o.pillars) /\ q.formats = o.formats /\ q.pillars = o.pillars /\ q.floor = f
  BY <1>1
<1>3. q # Nothing
  <2>1. "thin" \in DOMAIN q /\ "thin" \notin DOMAIN Nothing
    BY <1>2 DEF Nothing
  <2> HIDE DEF q
  <2> QED
    BY <2>1
<1> HIDE DEF q
<1>4. IsOrder(q)
  BY <1>1, <1>2 DEF IsOrder
<1> QED
  BY <1>2, <1>3, <1>4 DEF q

LEMMA AssembliesAreTyped ==
  ASSUME DraftTypeOK, NEW o \in Orders, Assembles(o)
  PROVE  DraftTypeOK'
<1> DEFINE q == [o EXCEPT !.floor = stated]
<1>1. said \in 0..MaxSaid /\ stated \in Floors
  BY DEF DraftTypeOK, ReshapeTypeOK
<1>2. /\ said < MaxSaid /\ SlotCount(q) <= MaxBeats /\ plan' = Assembled(q) /\ order' = q /\ said' = said + 1
      /\ last' = Nothing /\ filed' = {} /\ noted' = FALSE /\ stated' = stated
      /\ went' = "well" /\ counted' = FALSE
  BY DEF Assembles
<1>3. IsOrder(q)
  BY <1>1, OrdersAreOrders
<1> HIDE DEF q
<1>4. IsMonth(plan')
  BY <1>2, <1>3, AssembledIsAMonth
<1>5. said' \in 0..MaxSaid
  BY <1>1, <1>2, ReshapeAssumption
<1> QED
  BY <1>1, <1>2, <1>3, <1>4, <1>5 DEF DraftTypeOK, ReshapeTypeOK

LEMMA DraftTypesInit ==
  ASSUME DraftInit
  PROVE  DraftTypeOK
<1>1. IsMonth(plan) /\ filed = {} /\ noted = FALSE /\ said = 0 /\ last = Nothing /\ stated = NoFloor /\ order = Nothing
      /\ went = "well" /\ counted = FALSE
  BY MonthsAssumption DEF DraftInit, ReshapeInit
<1>2. NoFloor \in Floors
  BY DEF NoFloor, Floors
<1>3. said \in 0..MaxSaid
  BY <1>1, ReshapeAssumption
<1>4. filed \subseteq Int /\ noted \in BOOLEAN
  BY <1>1
<1> QED
  BY <1>1, <1>2, <1>3, <1>4 DEF DraftTypeOK, ReshapeTypeOK

LEMMA DraftTypesKept ==
  ASSUME DraftTypeOK, [DraftNext]_draftVars
  PROVE  DraftTypeOK'
<1>1. ASSUME NEW i \in Sentences, Hears(i) PROVE DraftTypeOK'
  BY <1>1, SentencesAreTyped
<1>2. ASSUME NEW i \in Sentences, HearsCadence(i) PROVE DraftTypeOK'
  BY <1>2, CadencesAreTyped
<1>3. ASSUME NEW o \in Orders, Assembles(o) PROVE DraftTypeOK'
  BY <1>3, AssembliesAreTyped
<1>4. CASE UNCHANGED draftVars
  <2>1. /\ plan' = plan /\ filed' = filed /\ noted' = noted /\ said' = said /\ last' = last
        /\ stated' = stated /\ order' = order /\ went' = went /\ counted' = counted
    BY <1>4 DEF draftVars, reshapeVars
  <2> QED
    BY <2>1 DEF DraftTypeOK, ReshapeTypeOK
<1> QED
  BY <1>1, <1>2, <1>3, <1>4 DEF DraftNext

\* At any length of month, whatever is said of it and whatever its assemblies find, the draft
\* is rows on days of the month with formats, pillars and bases the schema knows, each in a
\* position of its own, and the floor and the order are what the code types them as.
THEOREM DraftTypes == DraftSpec => []DraftTypeOK
  BY DraftTypesInit, DraftTypesKept, PTL DEF DraftSpec

-----------------------------------------------------------------------------
(* What a sentence does to the rows.                                       *)

LEMMA Heard ==
  ASSUME DraftTypeOK, NEW i \in Sentences, Hears(i)
  PROVE  LET r == ApplyIntent(i, plan) IN
         /\ IsMonth(plan) /\ IsResult(r, plan) /\ Len(r.add) <= MaxBeats - Cardinality(DOMAIN plan)
         /\ DOMAIN plan' = (DOMAIN plan \ Gone(plan, r)) \cup {Free(plan)[k] : k \in DOMAIN r.add}
         /\ \A k \in DOMAIN r.add : /\ Free(plan)[k] \in Ids \ DOMAIN plan
                                    /\ plan'[Free(plan)[k]].day = r.add[k].day
                                    /\ plan'[Free(plan)[k]].label = r.add[k].label
         /\ \A k, l \in DOMAIN r.add : Free(plan)[k] = Free(plan)[l] => k = l
         /\ \A id \in DOMAIN plan \ Gone(plan, r) : plan'[id] = IF id \in DOMAIN r.change THEN r.change[id] ELSE plan[id]
         /\ last' = i /\ order' = Nothing /\ said' = said + 1 /\ said \in Int
         /\ went' = "well" => (counted' <=> r.later # {})
         /\ counted' => r.later \subseteq filed'
<1> DEFINE r == ApplyIntent(i, plan)
           free == Free(plan)
<1>1. IsMonth(plan) /\ said \in Int
  BY ReshapeAssumption DEF DraftTypeOK, ReshapeTypeOK
<1>2. IsResult(r, plan)
  BY <1>1, IntentIsAResult
<1>3. /\ Len(r.add) <= MaxBeats - Cardinality(DOMAIN plan)
      /\ plan' = IF HasOps(r) THEN WriteOps(plan, r) ELSE plan
      /\ said' = said + 1 /\ last' = i /\ order' = Nothing
      /\ went' = "well" => (counted' <=> r.later # {})
      /\ counted' => r.later \subseteq filed'
  BY DEF Hears, Sentence, Files
<1> HIDE DEF r, free
<1>4. CASE HasOps(r)
  <2> DEFINE W == WriteOps(plan, r)
  <2>1. /\ DOMAIN W = (DOMAIN plan \ Gone(plan, r)) \cup {free[k] : k \in DOMAIN r.add}
        /\ \A k \in DOMAIN r.add : free[k] \in Ids \ DOMAIN plan /\ W[free[k]] = [r.add[k] EXCEPT !.pos = Top(plan) + k]
        /\ \A k, l \in DOMAIN r.add : free[k] = free[l] => k = l
        /\ \A id \in DOMAIN plan \ Gone(plan, r) : W[id] = IF id \in DOMAIN r.change THEN r.change[id] ELSE plan[id]
    BY <1>1, <1>2, <1>3, Written DEF free
  <2>2. plan' = W
    BY <1>3, <1>4
  <2> HIDE DEF W
  <2>3. ASSUME NEW k \in DOMAIN r.add
        PROVE  W[free[k]].day = r.add[k].day /\ W[free[k]].label = r.add[k].label
    <3>1. r.add[k] \in Beat
      BY <1>2 DEF IsResult, Results
    <3> QED
      BY <2>1, <3>1 DEF Beat
  <2> QED
    BY <1>1, <1>2, <1>3, <2>1, <2>2, <2>3 DEF r, free
<1>5. CASE ~HasOps(r)
  <2>1. plan' = plan /\ r.gone = {} /\ r.add = <<>> /\ DOMAIN r.change = {}
    BY <1>3, <1>5 DEF HasOps
  <2>2. DOMAIN r.add = {} /\ Gone(plan, r) = {}
    BY <2>1 DEF Gone
  <2> QED
    BY <1>1, <1>2, <1>3, <2>1, <2>2 DEF r, free
<1> QED
  BY <1>4, <1>5

LEMMA TheirsStaysStep ==
  ASSUME DraftTypeOK, NEW i \in Sentences, Hears(i), NEW id \in DOMAIN plan
  PROVE  /\ Theirs(plan[id]) => id \in DOMAIN plan' /\ Theirs(plan'[id])
         /\ plan[id].series => id \in DOMAIN plan' /\ plan'[id].series
         /\ Says("emphasis") /\ (Theirs(plan[id]) \/ plan[id].basis = "client_input") => plan'[id] = plan[id]
<1> DEFINE r == ApplyIntent(i, plan)
<1>1. /\ IsMonth(plan) /\ IsResult(r, plan)
      /\ DOMAIN plan \ Gone(plan, r) \subseteq DOMAIN plan'
      /\ \A x \in DOMAIN plan \ Gone(plan, r) : plan'[x] = IF x \in DOMAIN r.change THEN r.change[x] ELSE plan[x]
      /\ last' = i
  BY Heard
<1> HIDE DEF r
<1>2. id \notin Gone(plan, r) => /\ id \in DOMAIN plan' /\ (Theirs(plan[id]) => Theirs(plan'[id]))
                                 /\ (plan[id].series => plan'[id].series)
  BY <1>1 DEF IsResult, Stays
<1>3. Theirs(plan[id]) \/ plan[id].series => id \notin Gone(plan, r)
  BY TierIsANumber DEF Gone
<1>4. ASSUME i.kind = "emphasis", Theirs(plan[id]) \/ plan[id].basis = "client_input"
      PROVE  plan'[id] = plan[id]
  <2>1. r.gone = {} /\ \A x \in DOMAIN r.change : ~Theirs(plan[x]) /\ plan[x].basis # "client_input"
    BY <1>1, <1>4, EmphasisIsAResult, IntentsAreKnown DEF r
  <2>2. id \notin Gone(plan, r) /\ id \notin DOMAIN r.change
    BY <1>4, <2>1 DEF Gone
  <2> QED
    BY <1>1, <2>2
<1> QED
  BY <1>1, <1>2, <1>3, <1>4 DEF Says

\* However long the client talks, no sentence removes a post that is theirs or a standing
\* series, none strips it of what protects it, and an emphasis leans only machine's choices.
THEOREM TheirsStaysHolds == DraftSpec => TheirsStays
<1> DEFINE A == last' # Nothing => \A id \in DOMAIN plan :
                  /\ Theirs(plan[id]) => id \in DOMAIN plan' /\ Theirs(plan'[id])
                  /\ plan[id].series => id \in DOMAIN plan' /\ plan'[id].series
                  /\ Says("emphasis") /\ (Theirs(plan[id]) \/ plan[id].basis = "client_input") => plan'[id] = plan[id]
<1>1. ASSUME DraftTypeOK, [DraftNext]_draftVars
      PROVE  [A]_reshapeVars
  <2>1. ASSUME NEW i \in Sentences, Hears(i) PROVE A
    BY <1>1, <2>1, TheirsStaysStep
  <2>2. ASSUME NEW i \in Sentences, HearsCadence(i) PROVE A
    <3>1. plan' = plan /\ last' = i /\ i.kind = "cadence"
      BY <2>2 DEF HearsCadence
    <3> QED
      BY <3>1 DEF Says
  <2>3. ASSUME NEW o \in Orders, Assembles(o) PROVE A
    BY <2>3 DEF Assembles
  <2>4. CASE UNCHANGED draftVars
    BY <2>4 DEF draftVars
  <2> HIDE DEF A
  <2> QED
    BY <1>1, <2>1, <2>2, <2>3, <2>4 DEF DraftNext
<1> QED
  BY <1>1, DraftTypes, PTL DEF DraftSpec, TheirsStays

\* Only a sentence of a kind says it: an assembly says nothing, what is recorded alone is a cadence.
LEMMA SaidByASentence ==
  ASSUME DraftTypeOK, [DraftNext]_draftVars, NEW kind, Says(kind), kind # "nothing"
  PROVE  \E i \in Sentences : (Hears(i) \/ (kind = "cadence" /\ HearsCadence(i))) /\ last' = i /\ i.kind = kind
<1>1. ASSUME NEW i \in Sentences, Hears(i) PROVE last' = i
  BY <1>1 DEF Hears, Sentence
<1>2. ASSUME NEW i \in Sentences, HearsCadence(i) PROVE last' = i /\ i.kind = "cadence"
  BY <1>2 DEF HearsCadence
<1>3. ASSUME NEW o \in Orders, Assembles(o) PROVE last'.kind = "nothing"
  BY <1>3 DEF Assembles, Nothing
<1>4. ASSUME UNCHANGED draftVars PROVE said' = said
  BY <1>4 DEF draftVars, reshapeVars
<1>5. said' # said /\ last'.kind = kind
  BY DEF Says
<1>6. ASSUME NEW i \in Sentences, Hears(i) \/ HearsCadence(i)
      PROVE  \E j \in Sentences : (Hears(j) \/ (kind = "cadence" /\ HearsCadence(j))) /\ last' = j /\ j.kind = kind
  <2>1. CASE Hears(i)
    <3>1. last' = i /\ i.kind = kind
      BY <1>1, <1>5, <2>1
    <3> WITNESS i \in Sentences
    <3> QED
      BY <2>1, <3>1
  <2>2. CASE HearsCadence(i)
    BY <1>2, <1>5, <2>2
  <2> QED
    BY <1>6, <2>1, <2>2
<1>7. \A o \in Orders : ~Assembles(o)
  BY <1>3, <1>5
<1>8. ~UNCHANGED draftVars
  BY <1>4, <1>5
<1> QED
  BY <1>6, <1>7, <1>8 DEF DraftNext

LEMMA AddedAreFree ==
  ASSUME DraftTypeOK, NEW i \in Sentences, Hears(i)
  PROVE  Added = {Free(plan)[k] : k \in DOMAIN ApplyIntent(i, plan).add}
<1> DEFINE r == ApplyIntent(i, plan)
           free == Free(plan)
<1>1. /\ DOMAIN plan' = (DOMAIN plan \ Gone(plan, r)) \cup {free[k] : k \in DOMAIN r.add}
      /\ \A k \in DOMAIN r.add : free[k] \in Ids \ DOMAIN plan
  BY Heard
<1> HIDE DEF r, free
<1> QED
  BY <1>1 DEF Added, r, free

LEMMA ArcStep ==
  ASSUME DraftTypeOK, NEW i \in Sentences, Hears(i), i.kind = "launch", LaunchDay(i) # 0
  PROVE  LET on(label) == {plan'[id].day : id \in {id \in Added : plan'[id].label = label}} IN
         \E launch \in Days :
           /\ on("Launch") = {launch}
           /\ \/ \E d \in 1..(launch - 1) : on("Tease") = {d}
              \/ launch = 1 /\ on("Tease") = {}
           /\ \/ \E d \in (launch + 1)..LastDay : on("Follow-up") = {d}
              \/ launch = LastDay /\ on("Follow-up") = {}
<1> DEFINE on(label) == {plan'[id].day : id \in {id \in Added : plan'[id].label = label}}
           r == ApplyIntent(i, plan)
           free == Free(plan)
<1>1. \A k \in DOMAIN r.add : plan'[free[k]].day = r.add[k].day /\ plan'[free[k]].label = r.add[k].label
  BY Heard
<1>2. Added = {free[k] : k \in DOMAIN r.add}
  BY AddedAreFree
<1>3. PICK parts \in Seq(Part) : IsPlaced(r, plan, parts) /\ IsArc(parts)
  <2>1. IsMonth(plan) /\ r = ApplyLaunchArc(i, plan)
    BY Heard, IntentsAreKnown
  <2> HIDE DEF r
  <2> QED
    BY <2>1, LaunchIsAResult
<1> HIDE DEF r, free
<1>4. /\ DOMAIN r.add = DOMAIN parts
      /\ \A k \in DOMAIN parts : r.add[k].day = parts[k].day /\ r.add[k].label = parts[k].label
  BY <1>3 DEF IsPlaced
<1>5. ASSUME NEW label
      PROVE  on(label) = {p.day : p \in {p \in ToSet(parts) : p.label = label}}
  <2> DEFINE dates == {p.day : p \in {p \in ToSet(parts) : p.label = label}}
  <2>1. ASSUME NEW d \in on(label) PROVE d \in dates
    <3>1. PICK k \in DOMAIN parts : plan'[free[k]].label = label /\ d = plan'[free[k]].day
      BY <1>2, <1>4
    <3>2. parts[k] \in ToSet(parts) /\ parts[k].label = label /\ d = parts[k].day
      BY <1>1, <1>4, <3>1 DEF ToSet
    <3> QED
      BY <3>2
  <2>2. ASSUME NEW d \in dates PROVE d \in on(label)
    <3>1. PICK p \in ToSet(parts) : p.label = label /\ d = p.day
      OBVIOUS
    <3>2. PICK k \in DOMAIN parts : p = parts[k]
      BY <3>1 DEF ToSet
    <3>3. plan'[free[k]].label = label /\ d = plan'[free[k]].day /\ free[k] \in Added
      BY <1>1, <1>2, <1>4, <3>1, <3>2
    <3> QED
      BY <3>3
  <2> QED
    BY <2>1, <2>2
<1> HIDE DEF on
<1>6. PICK t, l, f \in Int :
        /\ ToSet(parts) = (IF t \in Days THEN {ArcPart(t, "Tease", "single")} ELSE {})
                          \cup {ArcPart(l, "Launch", "reel")}
                          \cup (IF f \in Days THEN {ArcPart(f, "Follow-up", "carousel")} ELSE {})
        /\ l \in Days /\ t < l /\ f > l
        /\ (t \in Days \/ l = 1) /\ (f \in Days \/ l = LastDay)
  BY <1>3 DEF IsArc
<1>7. /\ \A x : ArcPart(x, "Tease", "single").day = x /\ ArcPart(x, "Tease", "single").label = "Tease"
      /\ \A x : ArcPart(x, "Launch", "reel").day = x /\ ArcPart(x, "Launch", "reel").label = "Launch"
      /\ \A x : ArcPart(x, "Follow-up", "carousel").day = x /\ ArcPart(x, "Follow-up", "carousel").label = "Follow-up"
  BY DEF ArcPart
<1>8. on("Launch") = {l}
  BY <1>5, <1>6, <1>7
<1>9. on("Tease") = IF t \in Days THEN {t} ELSE {}
  BY <1>5, <1>6, <1>7
<1>10. on("Follow-up") = IF f \in Days THEN {f} ELSE {}
  <2>1. {p \in ToSet(parts) : p.label = "Follow-up"} = IF f \in Days THEN {ArcPart(f, "Follow-up", "carousel")} ELSE {}
    BY <1>6, <1>7
  <2> QED
    BY <1>5, <1>7, <2>1
<1>11. LastDay \in Nat /\ Days = 1..LastDay
  BY MonthAssumption DEF Days
<1>12. (\E d \in 1..(l - 1) : on("Tease") = {d}) \/ (l = 1 /\ on("Tease") = {})
  BY <1>6, <1>9, <1>11
<1>13. (\E d \in (l + 1)..LastDay : on("Follow-up") = {d}) \/ (l = LastDay /\ on("Follow-up") = {})
  BY <1>6, <1>10, <1>11
<1> QED
  BY <1>6, <1>8, <1>12, <1>13 DEF on

\* A launch that is dated leaves an arc wherever it falls and whoever dated its parts.
THEOREM ArcIsAnArcHolds == DraftSpec => ArcIsAnArc
<1> DEFINE A == Says("launch") /\ LaunchDay(last') # 0 =>
                  LET on(label) == {plan'[id].day : id \in {id \in Added : plan'[id].label = label}} IN
                  \E launch \in Days :
                    /\ on("Launch") = {launch}
                    /\ \/ \E d \in 1..(launch - 1) : on("Tease") = {d}
                       \/ launch = 1 /\ on("Tease") = {}
                    /\ \/ \E d \in (launch + 1)..LastDay : on("Follow-up") = {d}
                       \/ launch = LastDay /\ on("Follow-up") = {}
<1>1. ASSUME DraftTypeOK, [DraftNext]_draftVars
      PROVE  [A]_reshapeVars
  <2>1. Says("launch") => \E i \in Sentences : Hears(i) /\ i.kind = "launch" /\ last' = i
    BY <1>1, SaidByASentence
  <2> QED
    BY <1>1, <2>1, ArcStep
<1> QED
  BY <1>1, DraftTypes, PTL DEF DraftSpec, ArcIsAnArc

LEMMA SeriesStep ==
  ASSUME DraftTypeOK, NEW i \in Sentences, Hears(i), i.kind = "series", NEW d \in ToSet(i.listed)
  PROVE  /\ d \in Days => \E id \in Added : plan'[id].day = d
         /\ d \notin Days => (went' = "well" => counted') /\ (counted' => d \in filed')
<1> DEFINE r == ApplyIntent(i, plan)
           free == Free(plan)
<1>1. /\ \A k \in DOMAIN r.add : plan'[free[k]].day = r.add[k].day
      /\ went' = "well" => (counted' <=> r.later # {})
      /\ counted' => r.later \subseteq filed'
  BY Heard
<1>2. Added = {free[k] : k \in DOMAIN r.add}
  BY AddedAreFree
<1>3. PICK parts \in Seq(Part) :
        /\ IsPlaced(r, plan, parts)
        /\ i.listed # <<>> =>
             \A x \in ToSet(i.listed) : IF x \in Days THEN \E k \in DOMAIN parts : parts[k].day = x ELSE x \in r.later
  <2>1. IsMonth(plan) /\ r = ApplySeries(i, plan)
    BY Heard, IntentsAreKnown
  <2> HIDE DEF r
  <2> QED
    BY <2>1, SeriesIsAResult
<1>4. i.listed # <<>>
  BY DEF ToSet
<1> HIDE DEF r, free
<1> QED
  BY <1>1, <1>2, <1>3, <1>4 DEF IsPlaced

\* However the filing after the rows goes, every date a client lists inside the month gets its
\* post; the others are counted by the receipt of a request that went well, and whatever a
\* receipt counts is among the ideas.
THEOREM SeriesIsAccountedHolds == DraftSpec => SeriesIsAccounted
<1> DEFINE A == Says("series") =>
                  \A d \in ToSet(last'.listed) :
                    /\ d \in Days => \E id \in Added : plan'[id].day = d
                    /\ d \notin Days => (went' = "well" => counted') /\ (counted' => d \in filed')
<1>1. ASSUME DraftTypeOK, [DraftNext]_draftVars
      PROVE  [A]_reshapeVars
  <2>1. Says("series") => \E i \in Sentences : Hears(i) /\ i.kind = "series" /\ last' = i
    BY <1>1, SaidByASentence
  <2> QED
    BY <1>1, <2>1, SeriesStep
<1> QED
  BY <1>1, DraftTypes, PTL DEF DraftSpec, SeriesIsAccounted

LEMMA ClampedInOrder ==
  ASSUME NEW a \in Int, NEW b \in Int, a <= b
  PROVE  ClampToMonth(a) <= ClampToMonth(b)
  BY MonthAssumption DEF ClampToMonth

LEMMA CorrectionStep ==
  ASSUME DraftTypeOK, NEW i \in Sentences, Hears(i), i.kind = "correction"
  PROVE  LET moved == {id \in DOMAIN plan : plan'[id].day # plan[id].day} IN
         /\ \A x, y \in moved : plan[x].day <= plan[y].day => plan'[x].day <= plan'[y].day
         /\ moved # {} => \E id \in Named(i, plan) : plan'[id].day = ClampToMonth(i.day)
<1> DEFINE r == ApplyIntent(i, plan)
           moved == {id \in DOMAIN plan : plan'[id].day # plan[id].day}
<1>1. /\ IsMonth(plan) /\ r = ApplyCorrection(i, plan)
      /\ \A id \in DOMAIN plan \ Gone(plan, r) : plan'[id] = IF id \in DOMAIN r.change THEN r.change[id] ELSE plan[id]
  BY Heard, IntentsAreKnown
<1> HIDE DEF r
<1>2. /\ IsResult(r, plan) /\ r.gone = {}
      /\ \/ \A id \in DOMAIN r.change : r.change[id].day = plan[id].day
         \/ /\ i.day \in Int /\ Named(i, plan) # {}
            /\ DOMAIN r.change = ToSet(Chosen(i, plan))
            /\ \A id \in DOMAIN r.change : r.change[id].day = MovedTo(i, plan, id)
  BY <1>1, CorrectionIsAResult
<1>3. \A id \in DOMAIN plan : plan'[id] = IF id \in DOMAIN r.change THEN r.change[id] ELSE plan[id]
  BY <1>1, <1>2 DEF Gone
<1>4. CASE \A id \in DOMAIN r.change : r.change[id].day = plan[id].day
  <2>1. moved = {}
    BY <1>3, <1>4
  <2> HIDE DEF moved
  <2> QED
    BY <2>1 DEF moved
<1>5. CASE /\ i.day \in Int /\ Named(i, plan) # {}
           /\ DOMAIN r.change = ToSet(Chosen(i, plan))
           /\ \A id \in DOMAIN r.change : r.change[id].day = MovedTo(i, plan, id)
  <2> DEFINE first == Chosen(i, plan)[1]
             a == Anchor(i, plan)
  <2>1. Named(i, plan) \subseteq DOMAIN plan /\ first \in Named(i, plan) /\ first \in DOMAIN r.change
    <3>1. Named(i, plan) \subseteq DOMAIN plan /\ Chosen(i, plan) \in Seq(Named(i, plan)) /\ Chosen(i, plan) # <<>>
      BY <1>1, <1>5, ChosenAreNamed
    <3>2. 1 \in DOMAIN Chosen(i, plan) /\ first \in Named(i, plan)
      BY <3>1
    <3> QED
      BY <1>5, <3>1, <3>2 DEF ToSet
  <2>2. a = plan[first].day
    BY DEF Anchor
  <2> HIDE DEF first, a
  <2>3. \A id \in DOMAIN plan : plan[id].day \in Int
    BY <1>1, RowsAreBeats
  <2>4. a \in Int /\ i.day \in Int
    BY <1>5, <2>1, <2>2, <2>3
  <2>5. moved \subseteq DOMAIN r.change \cap DOMAIN plan
    BY <1>3
  <2>6. ASSUME NEW x \in moved, NEW y \in moved, plan[x].day <= plan[y].day
        PROVE  plan'[x].day <= plan'[y].day
    <3> DEFINE p == i.day + plan[x].day - a
               q == i.day + plan[y].day - a
    <3>1. plan[x].day \in Int /\ plan[y].day \in Int
      BY <2>3, <2>5
    <3>2. p \in Int /\ q \in Int /\ p <= q
      BY <2>4, <2>6, <3>1
    <3>3. plan'[x].day = ClampToMonth(p) /\ plan'[y].day = ClampToMonth(q)
      BY <1>3, <1>5, <2>5 DEF MovedTo, a
    <3> HIDE DEF p, q
    <3> QED
      BY <3>2, <3>3, ClampedInOrder
  <2>7. plan'[first].day = ClampToMonth(i.day)
    <3>1. plan'[first].day = ClampToMonth(i.day + plan[first].day - a)
      BY <1>3, <1>5, <2>1 DEF MovedTo, a
    <3>2. i.day + plan[first].day - a = i.day
      BY <2>2, <2>4
    <3> QED
      BY <3>1, <3>2
  <2> QED
    BY <2>1, <2>6, <2>7
<1> QED
  BY <1>2, <1>4, <1>5

\* Posts corrected together keep their order, and one lands on the date the client named.
THEOREM CorrectionLandsHolds == DraftSpec => CorrectionLandsOnTheDate
<1> DEFINE A == Says("correction") =>
                  LET moved == {id \in DOMAIN plan : plan'[id].day # plan[id].day} IN
                  /\ \A x, y \in moved : plan[x].day <= plan[y].day => plan'[x].day <= plan'[y].day
                  /\ moved # {} => \E id \in Named(last', plan) : plan'[id].day = ClampToMonth(last'.day)
<1>1. ASSUME DraftTypeOK, [DraftNext]_draftVars
      PROVE  [A]_reshapeVars
  <2>1. Says("correction") => \E i \in Sentences : Hears(i) /\ i.kind = "correction" /\ last' = i
    BY <1>1, SaidByASentence
  <2> QED
    BY <1>1, <2>1, CorrectionStep
<1> QED
  BY <1>1, DraftTypes, PTL DEF DraftSpec, CorrectionLandsOnTheDate

LEMMA ImageHasAsMany ==
  ASSUME NEW n \in Nat, NEW f, NEW T, T = {f[k] : k \in 1..n}, \A a, b \in 1..n : f[a] = f[b] => a = b
  PROVE  IsFiniteSet(T) /\ Cardinality(T) = n
<1> DEFINE g == [k \in 1..n |-> f[k]]
<1>1. g \in Bijection(1..n, T)
  BY DEF Bijection, Injection, Surjection, IsInjective
<1>2. 1 \in Int /\ n \in Int
  OBVIOUS
<1>3. IsFiniteSet(1..n) /\ Cardinality(1..n) = n
  BY <1>2, FS_Interval
<1> HIDE DEF g
<1>4. IsFiniteSet(T) /\ Cardinality(T) = Cardinality(1..n)
  BY <1>1, <1>3, FS_Bijection DEF ExistsBijection
<1> QED
  BY <1>3, <1>4

LEMMA RowsComeAndGo ==
  ASSUME DraftTypeOK, NEW i \in Sentences, Hears(i)
  PROVE  LET r == ApplyIntent(i, plan) IN
         /\ Cardinality(DOMAIN plan) \in Nat /\ Cardinality(Gone(plan, r)) \in Nat /\ Len(r.add) \in Nat
         /\ Cardinality(DOMAIN plan') = Cardinality(DOMAIN plan) - Cardinality(Gone(plan, r)) + Len(r.add)
         /\ DOMAIN plan \ DOMAIN plan' = Gone(plan, r)
<1> DEFINE r == ApplyIntent(i, plan)
           free == Free(plan)
           gone == Gone(plan, r)
           new == {free[k] : k \in 1..Len(r.add)}
           kept == DOMAIN plan \ gone
<1>1. /\ IsMonth(plan) /\ IsResult(r, plan)
      /\ DOMAIN plan' = (DOMAIN plan \ gone) \cup {free[k] : k \in DOMAIN r.add}
      /\ \A k \in DOMAIN r.add : free[k] \in Ids \ DOMAIN plan
      /\ \A k, l \in DOMAIN r.add : free[k] = free[l] => k = l
  BY Heard
<1> HIDE DEF r, free
<1>2. Len(r.add) \in Nat /\ DOMAIN r.add = 1..Len(r.add) /\ r.gone \subseteq DOMAIN plan
  BY <1>1 DEF IsResult, Results
<1>3. IsFiniteSet(DOMAIN plan) /\ Cardinality(DOMAIN plan) \in Nat
  BY <1>1, RowsAreFew
<1>4. IsFiniteSet(new) /\ Cardinality(new) = Len(r.add)
  <2>1. \A a, b \in 1..Len(r.add) : free[a] = free[b] => a = b
    BY <1>1, <1>2
  <2>2. new = {free[k] : k \in 1..Len(r.add)}
    OBVIOUS
  <2> HIDE DEF new
  <2> QED
    BY <1>2, <2>1, <2>2, ImageHasAsMany
<1>5. gone \subseteq DOMAIN plan /\ new \cap DOMAIN plan = {} /\ DOMAIN plan' = kept \cup new
  BY <1>1, <1>2 DEF Gone
<1> HIDE DEF gone, new
<1>6. IsFiniteSet(gone) /\ Cardinality(gone) \in Nat
  BY <1>3, <1>5, FS_Subset, FS_CardinalityType
<1>7. IsFiniteSet(kept) /\ Cardinality(kept) = Cardinality(DOMAIN plan) - Cardinality(DOMAIN plan \cap gone)
  BY <1>3, FS_Difference
<1>8. DOMAIN plan \cap gone = gone /\ kept \cap new = {} /\ DOMAIN plan \ DOMAIN plan' = gone
  BY <1>5
<1> HIDE DEF kept
<1>9. Cardinality(kept \cup new) = Cardinality(kept) + Cardinality(new) - Cardinality(kept \cap new)
  BY <1>4, <1>7, FS_Union
<1>10. Cardinality(kept \cap new) = 0
  BY <1>8, FS_EmptySet
<1>11. Cardinality(DOMAIN plan') = Cardinality(DOMAIN plan) - Cardinality(gone) + Len(r.add)
  <2>1. Cardinality(kept) = Cardinality(DOMAIN plan) - Cardinality(gone)
    BY <1>7, <1>8
  <2>2. Cardinality(DOMAIN plan') = Cardinality(kept) + Cardinality(new) - 0
    BY <1>5, <1>9, <1>10
  <2> QED
    BY <1>2, <1>3, <1>4, <1>6, <2>1, <2>2
<1> QED
  BY <1>2, <1>3, <1>6, <1>8, <1>11 DEF r, gone

LEMMA PlacedTakeTheFair ==
  ASSUME NEW m, IsMonth(m), NEW r, NEW parts \in Seq(Part), IsPlaced(r, m, parts)
  PROVE  /\ Gone(m, r) = r.gone /\ Cardinality(r.gone) <= Len(r.add)
         /\ Cardinality(r.gone) < Len(r.add) => r.gone = Fair(m)
<1> DEFINE pool == ReplacementCandidates(m)
           size == Cardinality(Fair(m))
           n == IF Len(parts) <= size THEN Len(parts) ELSE size
<1>1. IsFiniteSet(DOMAIN m) /\ Fair(m) \subseteq DOMAIN m
  BY RowsAreFew DEF Fair
<1>2. IsFiniteSet(Fair(m)) /\ size \in Nat
  BY <1>1, FS_Subset, FS_CardinalityType
<1>3. /\ pool \in [1..size -> Fair(m)] /\ DOMAIN pool = 1..size
      /\ \A a, b \in 1..size : pool[a] = pool[b] => a = b
      /\ \A x \in Fair(m) : \E a \in 1..size : pool[a] = x
  <2>1. Lists(pool, Fair(m))
    BY CandidatesAreFair
  <2> HIDE DEF pool
  <2>2. pool \in [1..size -> Fair(m)] /\ DOMAIN pool = 1..size
    BY <2>1 DEF Lists
  <2> QED
    BY <2>1, <2>2 DEF Lists
<1> HIDE DEF pool
<1>4. /\ r.gone = {pool[k] : k \in DOMAIN parts \cap DOMAIN pool} /\ r.gone \subseteq Fair(m)
      /\ Len(r.add) = Len(parts)
  BY DEF IsPlaced, pool
<1> HIDE DEF size
<1>5. DOMAIN parts = 1..Len(parts) /\ Len(parts) \in Nat
  OBVIOUS
<1>6. n \in Nat /\ DOMAIN parts \cap DOMAIN pool = 1..n /\ n <= size /\ n <= Len(parts) /\ n \in {Len(parts), size}
  BY <1>2, <1>3, <1>5
<1> HIDE DEF n
<1>7. n < Len(parts) => n = size
  <2>1. n \in Nat /\ Len(parts) \in Nat /\ (n = Len(parts) \/ n = size)
    BY <1>5, <1>6
  <2>2. n = Len(parts) => ~(n < Len(parts))
    BY <2>1
  <2> QED
    BY <2>1, <2>2
<1>8. \A a, b \in 1..n : pool[a] = pool[b] => a = b
  BY <1>2, <1>3, <1>6
<1>9. r.gone = {pool[k] : k \in 1..n}
  BY <1>4, <1>6
<1>10. Cardinality(r.gone) = n
  BY <1>6, <1>8, <1>9, ImageHasAsMany
<1>11. Gone(m, r) = r.gone
  BY <1>4 DEF Gone, Fair
<1>12. ASSUME n < Len(parts) PROVE r.gone = Fair(m)
  <2>1. n = size
    BY <1>7, <1>12
  <2>2. \A x \in Fair(m) : x \in r.gone
    BY <1>3, <1>4, <1>6, <2>1
  <2> QED
    BY <1>4, <2>2
<1> QED
  BY <1>4, <1>6, <1>10, <1>11, <1>12

LEMMA SizeStep ==
  ASSUME DraftTypeOK, NEW i \in Sentences, Hears(i)
  PROVE  /\ i.kind \in {"launch", "event", "series"} /\ Cardinality(DOMAIN plan') > Cardinality(DOMAIN plan) =>
              \A id \in DOMAIN plan \cap DOMAIN plan' : ReplacementTier(plan[id]) = Spared \/ RemovalProtection(plan[id])
         /\ Cardinality(DOMAIN plan') < Cardinality(DOMAIN plan) =>
              i.kind = "beat_edit" /\ Cardinality(DOMAIN plan \ DOMAIN plan') = 1
<1> DEFINE r == ApplyIntent(i, plan)
           before == Cardinality(DOMAIN plan)
           after == Cardinality(DOMAIN plan')
           gone == Cardinality(Gone(plan, r))
<1>1. /\ before \in Nat /\ gone \in Nat /\ Len(r.add) \in Nat
      /\ after = before - gone + Len(r.add)
      /\ DOMAIN plan \ DOMAIN plan' = Gone(plan, r)
  BY RowsComeAndGo
<1>2. IsMonth(plan)
  BY Heard
<1>3. ASSUME NEW parts \in Seq(Part), IsPlaced(r, plan, parts)
      PROVE  /\ after >= before
             /\ after > before => \A id \in DOMAIN plan \cap DOMAIN plan' :
                                    ReplacementTier(plan[id]) = Spared \/ RemovalProtection(plan[id])
  <2>1. /\ Gone(plan, r) = r.gone /\ gone <= Len(r.add)
        /\ gone < Len(r.add) => r.gone = Fair(plan)
    BY <1>2, <1>3, PlacedTakeTheFair
  <2> HIDE DEF r, before, after, gone
  <2>2. after >= before /\ (after > before => gone < Len(r.add))
    BY <1>1, <2>1
  <2>3. ASSUME after > before, NEW id \in DOMAIN plan \cap DOMAIN plan'
        PROVE  ReplacementTier(plan[id]) = Spared \/ RemovalProtection(plan[id])
    <3>1. id \notin Fair(plan)
      BY <1>1, <2>1, <2>2, <2>3
    <3> QED
      BY <3>1 DEF Fair
  <2> QED
    BY <2>2, <2>3
<1>4. ASSUME Gone(plan, r) = {} PROVE after >= before
  <2>1. gone = 0
    BY <1>4, FS_EmptySet
  <2> HIDE DEF gone, r, before, after
  <2> QED
    BY <1>1, <2>1
<1>5. CASE i.kind \in {"launch", "event", "series"}
  <2>1. \E parts \in Seq(Part) : IsPlaced(r, plan, parts)
    BY <1>2, <1>5, IntentsAreKnown, LaunchIsAResult, EventIsAResult, SeriesIsAResult
  <2> HIDE DEF r, before, after, gone
  <2>2. /\ after >= before
        /\ after > before => \A id \in DOMAIN plan \cap DOMAIN plan' :
                                    ReplacementTier(plan[id]) = Spared \/ RemovalProtection(plan[id])
    BY <1>3, <2>1
  <2>3. after \in Int /\ before \in Int
    BY <1>1
  <2>4. ~(after < before)
    BY <2>2, <2>3
  <2> QED
    BY <2>2, <2>4 DEF before, after
<1>6. CASE i.kind \in {"beat_spec", "cadence", "emphasis", "correction"}
  <2>1. r.gone = {}
    BY <1>2, <1>6, IntentsAreKnown, BeatSpecIsAResult, CadenceIsAResult, EmphasisIsAResult, CorrectionIsAResult
  <2>2. Gone(plan, r) = {}
    BY <2>1 DEF Gone
  <2> HIDE DEF r, before, after, gone
  <2>3. ~(after < before)
    BY <1>1, <1>4, <2>2
  <2> QED
    BY <1>6, <2>3 DEF before, after
<1>7. CASE i.kind = "beat_edit"
  <2>1. r.gone = {} \/ \E id \in DOMAIN plan : r.gone = {id}
    BY <1>2, <1>7, IntentsAreKnown, BeatEditIsAResult
  <2>2. Gone(plan, r) = {} \/ \E id \in DOMAIN plan : Gone(plan, r) = {id}
    BY <2>1 DEF Gone
  <2>3. ASSUME after < before PROVE gone = 1
    <3>1. Gone(plan, r) # {}
      <4> HIDE DEF r, before, after, gone
      <4> QED
        BY <1>1, <1>4, <2>3
    <3> QED
      BY <2>2, <3>1, FS_Singleton
  <2> HIDE DEF r, before, after
  <2> QED
    BY <1>1, <1>7, <2>3 DEF before, after
<1> QED
  BY <1>5, <1>6, <1>7, IntentsAreKnown

\* The month grows only when nothing replaceable is left, and loses at most the post dropped.
THEOREM MonthKeepsItsSizeHolds == DraftSpec => MonthKeepsItsSize
<1> DEFINE A == said' # said /\ last' # Nothing =>
                  /\ last'.kind \in {"launch", "event", "series"} /\ Cardinality(DOMAIN plan') > Cardinality(DOMAIN plan) =>
                       \A id \in DOMAIN plan \cap DOMAIN plan' : ReplacementTier(plan[id]) = Spared \/ RemovalProtection(plan[id])
                  /\ Cardinality(DOMAIN plan') < Cardinality(DOMAIN plan) =>
                       last'.kind = "beat_edit" /\ Cardinality(DOMAIN plan \ DOMAIN plan') = 1
<1>1. ASSUME DraftTypeOK, [DraftNext]_draftVars
      PROVE  [A]_reshapeVars
  <2>1. ASSUME NEW i \in Sentences, Hears(i) PROVE A
    <3>1. last' = i
      BY <2>1 DEF Hears, Sentence
    <3> QED
      BY <1>1, <2>1, <3>1, SizeStep
  <2>2. ASSUME NEW i \in Sentences, HearsCadence(i) PROVE A
    <3>1. plan' = plan /\ IsMonth(plan) /\ last'.kind = "cadence"
      BY <1>1, <2>2 DEF HearsCadence, DraftTypeOK, ReshapeTypeOK
    <3>2. Cardinality(DOMAIN plan) \in Nat /\ Cardinality(DOMAIN plan') = Cardinality(DOMAIN plan)
      BY <3>1, RowsAreFew
    <3> QED
      BY <3>1, <3>2
  <2>3. ASSUME NEW o \in Orders, Assembles(o) PROVE A
    BY <2>3 DEF Assembles
  <2>4. CASE UNCHANGED draftVars
    BY <2>4 DEF draftVars
  <2> HIDE DEF A
  <2> QED
    BY <1>1, <2>1, <2>2, <2>3, <2>4 DEF DraftNext
<1> QED
  BY <1>1, DraftTypes, PTL DEF DraftSpec, MonthKeepsItsSize

LEMMA AssembledNow ==
  ASSUME DraftTypeOK, [DraftNext]_draftVars, ~UNCHANGED draftVars, Assembly
  PROVE  LET dates == Dates(order')
             n == SlotCount(order')
         IN /\ IsOrder(order') /\ order'.floor = stated /\ stated \in Floors
            /\ order'.series \in SeriesList /\ order'.ideas \in Seq(STRING)
            /\ n \in Nat /\ DOMAIN dates = 1..n /\ DOMAIN plan' = 1..n /\ Len(plan') = n
            /\ [x \in DOMAIN plan' |-> plan'[x].day] = dates
            /\ \A x \in 1..n : plan'[x].day = dates[x]
            /\ \A x \in 1..n : plan'[x].series <=> Claims(dates, order'.series)[x] # NoOne
<1>1. ASSUME NEW i \in Sentences, Hears(i) \/ HearsCadence(i) PROVE order' = Nothing
  BY <1>1 DEF Hears, HearsCadence
<1>2. PICK o \in Orders : Assembles(o)
  BY <1>1 DEF DraftNext, Assembly
<1>3. stated \in Floors
  BY DEF DraftTypeOK
<1> DEFINE now == [o EXCEPT !.floor = stated]
<1>4. IsOrder(now) /\ now.floor = stated
  BY <1>2, <1>3, OrdersAreOrders
<1>5. SlotCount(now) <= MaxBeats /\ plan' = Assembled(now) /\ order' = now
  BY <1>2 DEF Assembles
<1> HIDE DEF now
<1>6. /\ DOMAIN Assembled(now) = 1..SlotCount(now) /\ Len(Assembled(now)) = SlotCount(now)
      /\ \A x \in DOMAIN Assembled(now) : /\ Assembled(now)[x].day = Dates(now)[x]
                                          /\ Assembled(now)[x].series <=> Claims(Dates(now), now.series)[x] # NoOne
      /\ [x \in DOMAIN Assembled(now) |-> Assembled(now)[x].day] = Dates(now)
  BY <1>4, <1>5, AssembledIsAMonth
<1>7. SlotCount(now) \in Nat /\ DOMAIN Dates(now) = 1..SlotCount(now)
  BY <1>4, DatesAreDays, MonthAssumption
<1>8. now.series \in SeriesList /\ now.ideas \in Seq(STRING)
  BY <1>4 DEF IsOrder, SeriesList, SeriesRow
<1> QED
  BY <1>3, <1>4, <1>5, <1>6, <1>7, <1>8

\* The cadence the client stated outlives every sentence and assembly in between.
THEOREM FloorOutlivesAssemblyHolds == DraftSpec => FloorOutlivesAssembly
<1> DEFINE A == Assembly =>
                  /\ Cardinality(DOMAIN plan') >= CadenceFloorSlots(stated.perWeek, stated.perMonth)
                  /\ \A x, y \in DOMAIN plan' : x # y => plan'[x].day # plan'[y].day
<1>1. ASSUME DraftTypeOK, [DraftNext]_draftVars
      PROVE  [A]_draftVars
  <2> SUFFICES ASSUME ~UNCHANGED draftVars, Assembly PROVE A
    OBVIOUS
  <2> DEFINE n == SlotCount(order')
             dates == Dates(order')
  <2>1. /\ IsOrder(order') /\ order'.floor = stated
        /\ n \in Nat /\ DOMAIN plan' = 1..n /\ \A x \in 1..n : plan'[x].day = dates[x]
    BY <1>1, AssembledNow
  <2>2. /\ n >= CadenceFloorSlots(order'.floor.perWeek, order'.floor.perMonth)
        /\ \A x, y \in 1..n : x # y => dates[x] # dates[y]
    BY <2>1, DatesAreDays
  <2> HIDE DEF n, dates
  <2>3. Cardinality(1..n) = n
    BY <2>1, FS_Interval, 1 \in Int /\ n \in Int
  <2> QED
    BY <2>1, <2>2, <2>3
<1> QED
  BY <1>1, DraftTypes, PTL DEF DraftSpec, FloorOutlivesAssembly

Seated(n, dates, series, k) ==
  LET weekly == WeeklyClaims(dates, series)
      claims == Claims(dates, series)
      mine == {x \in 1..n : claims[x] = k}
      day == series[k].weekday
  IN /\ k # NoOne
     /\ day # Monthly => \A x \in mine : WeekdayOf(dates[x]) = day
     /\ mine = {} => IF day = Monthly
                     THEN Cardinality({x \in 1..n : weekly[x] = NoOne}) < Cardinality(MonthlyOf(series))
                     ELSE \A x \in 1..n : WeekdayOf(dates[x]) = day => claims[x] # NoOne

LEMMA SeriesAreSeated ==
  ASSUME NEW n \in Nat, NEW dates, DOMAIN dates = 1..n, NEW series \in SeriesList, NEW k \in DOMAIN series
  PROVE  Seated(n, dates, series, k)
<1> DEFINE weekly == WeeklyClaims(dates, series)
           claims == Claims(dates, series)
           left == {x \in 1..n : weekly[x] = NoOne}
           day == series[k].weekday
<1>1. k # NoOne /\ NoOne \notin DOMAIN series
  BY DEF NoOne, SeriesList
<1>2. \A x \in 1..n : \/ weekly[x] = NoOne /\ \A l \in DOMAIN series : series[l].weekday # WeekdayOf(dates[x])
                      \/ weekly[x] \in DOMAIN series /\ series[weekly[x]].weekday = WeekdayOf(dates[x])
  BY WeeklyClaimsAre DEF SeriesList
<1>3. /\ \A x \in 1..n : /\ weekly[x] # NoOne => claims[x] = weekly[x]
                         /\ weekly[x] = NoOne => claims[x] \in {NoOne} \cup MonthlyOf(series)
      /\ Cardinality(MonthlyOf(series)) <= Cardinality(left) =>
           \A l \in MonthlyOf(series) : \E x \in left : claims[x] = l
  BY ClaimsAre
<1> HIDE DEF weekly, claims
<1>4. Cardinality(left) \in Nat
  BY NumbersAreListed
<1>5. MonthlyOf(series) \subseteq 1..Len(series) /\ Len(series) \in Nat
  BY DEF MonthlyOf, SeriesList
<1>6. Cardinality(MonthlyOf(series)) \in Nat
  BY <1>5, NumbersAreListed
<1>7. ASSUME day # Monthly, NEW x \in 1..n, claims[x] = k
      PROVE  WeekdayOf(dates[x]) = day
  <2>1. k \notin MonthlyOf(series)
    BY <1>7 DEF MonthlyOf
  <2>2. weekly[x] # NoOne
    BY <1>1, <1>3, <1>7, <2>1
  <2> QED
    BY <1>2, <1>3, <1>7, <2>2
<1>8. ASSUME \A x \in 1..n : claims[x] # k, day = Monthly
      PROVE  Cardinality(left) < Cardinality(MonthlyOf(series))
  <2>1. k \in MonthlyOf(series)
    BY <1>8 DEF MonthlyOf
  <2>2. ~(Cardinality(MonthlyOf(series)) <= Cardinality(left))
    BY <1>3, <1>8, <2>1
  <2> QED
    BY <1>4, <1>6, <2>2
<1>9. ASSUME NEW x \in 1..n, WeekdayOf(dates[x]) = day
      PROVE  claims[x] # NoOne
  <2>1. weekly[x] \in DOMAIN series
    BY <1>2, <1>9
  <2> QED
    BY <1>1, <1>3, <2>1
<1> QED
  BY <1>1, <1>7, <1>8, <1>9 DEF weekly, claims, Seated

\* A standing series sits on its own weekday, and is missed only for want of a slot.
THEOREM SeriesSitOrAreMissedHolds == DraftSpec => SeriesSitOrAreMissed
<1> DEFINE A == Assembly =>
       LET dates == [x \in DOMAIN plan' |-> plan'[x].day]
           weekly == WeeklyClaims(dates, order'.series)
           claims == Claims(dates, order'.series)
           monthly == {k \in DOMAIN order'.series : order'.series[k].weekday = Monthly}
       IN \A k \in DOMAIN order'.series :
            LET mine == {x \in DOMAIN plan' : claims[x] = k}
                day == order'.series[k].weekday
            IN /\ \A x \in mine : plan'[x].series /\ (k \notin monthly => WeekdayOf(plan'[x].day) = day)
               /\ mine = {} => IF k \in monthly
                               THEN Cardinality({x \in DOMAIN plan' : weekly[x] = NoOne}) < Cardinality(monthly)
                               ELSE \A x \in DOMAIN plan' : WeekdayOf(plan'[x].day) = day => claims[x] # NoOne
<1>1. ASSUME DraftTypeOK, [DraftNext]_draftVars
      PROVE  [A]_draftVars
  <2> SUFFICES ASSUME ~UNCHANGED draftVars, Assembly PROVE A
    OBVIOUS
  <2> DEFINE n == SlotCount(order')
             dates == Dates(order')
             series == order'.series
             weekly == WeeklyClaims(dates, series)
             claims == Claims(dates, series)
  <2>1. /\ series \in SeriesList /\ n \in Nat /\ DOMAIN dates = 1..n /\ DOMAIN plan' = 1..n
        /\ [x \in DOMAIN plan' |-> plan'[x].day] = dates
        /\ \A x \in 1..n : plan'[x].day = dates[x]
        /\ \A x \in 1..n : plan'[x].series <=> claims[x] # NoOne
    BY <1>1, AssembledNow
  <2> HIDE DEF n, dates
  <2> SUFFICES ASSUME NEW k \in DOMAIN series
               PROVE  LET mine == {x \in DOMAIN plan' : claims[x] = k}
                          day == series[k].weekday
                      IN /\ \A x \in mine : /\ plan'[x].series
                                            /\ k \notin MonthlyOf(series) => WeekdayOf(plan'[x].day) = day
                         /\ mine = {} => IF k \in MonthlyOf(series)
                               THEN Cardinality({x \in DOMAIN plan' : weekly[x] = NoOne}) < Cardinality(MonthlyOf(series))
                               ELSE \A x \in DOMAIN plan' : WeekdayOf(plan'[x].day) = day => claims[x] # NoOne
    BY <2>1 DEF MonthlyOf
  <2> DEFINE mine == {x \in 1..n : claims[x] = k}
             day == series[k].weekday
  <2>2. /\ k # NoOne
        /\ day # Monthly => \A x \in mine : WeekdayOf(dates[x]) = day
        /\ mine = {} => IF day = Monthly
                        THEN Cardinality({x \in 1..n : weekly[x] = NoOne}) < Cardinality(MonthlyOf(series))
                        ELSE \A x \in 1..n : WeekdayOf(dates[x]) = day => claims[x] # NoOne
    <3>1. n \in Nat /\ DOMAIN dates = 1..n /\ series \in SeriesList /\ k \in DOMAIN series
      BY <2>1
    <3> HIDE DEF series
    <3>2. Seated(n, dates, series, k)
      BY <3>1, SeriesAreSeated
    <3> QED
      BY <3>2 DEF Seated
  <2>3. k \in MonthlyOf(series) <=> day = Monthly
    BY DEF MonthlyOf
  <2> HIDE DEF series, weekly, claims
  <2> QED
    BY <2>1, <2>2, <2>3
<1> QED
  BY <1>1, DraftTypes, PTL DEF DraftSpec, SeriesSitOrAreMissed

Least(a, b, c) == CHOOSE n \in {a, b, c} : \A m \in {a, b, c} : n <= m

LEMMA LeastOfThree ==
  ASSUME NEW a \in Nat, NEW b \in Nat, NEW c \in Nat
  PROVE  LET n == Least(a, b, c) IN n \in {a, b, c} /\ n \in Nat /\ n <= a /\ n <= b /\ n <= c
<1>1. \E n \in {a, b, c} : \A m \in {a, b, c} : n <= m
  <2>1. CASE a <= b /\ a <= c
    BY <2>1
  <2>2. CASE b <= a /\ b <= c
    BY <2>2
  <2>3. CASE c <= a /\ c <= b
    BY <2>3
  <2> QED
    BY <2>1, <2>2, <2>3
<1> QED
  BY <1>1 DEF Least

Fresh(ideas) == {id \in DOMAIN ideas : ideas[id] \notin RefusedIdeas}

LEMMA FreshAreRanked ==
  ASSUME NEW ideas \in Seq(STRING)
  PROVE  /\ IsFiniteSet(Fresh(ideas)) /\ Cardinality(Fresh(ideas)) \in Nat
         /\ Len(RankCandidates(ideas)) = Cardinality(Fresh(ideas))
         /\ Lists(RankCandidates(ideas), Fresh(ideas))
         /\ NoOne \notin Fresh(ideas)
<1> DEFINE rank(id) == CASE ideas[id] = "candidate" -> 0 [] ideas[id] = "proven" -> 1
                         [] ideas[id] = "measured" -> 2 [] OTHER -> 3
           S == Fresh(ideas)
           key == [id \in S |-> <<rank(id), id>>]
<1>1. S \subseteq 1..Len(ideas) /\ Len(ideas) \in Nat
  BY DEF Fresh
<1>2. IsFiniteSet(S) /\ Cardinality(S) \in Nat
  BY <1>1, NumbersAreListed
<1>3. \A id : rank(id) \in Int
  OBVIOUS
<1>4. RankCandidates(ideas) = InOrder(key)
  BY DEF RankCandidates, Fresh
<1> HIDE DEF rank
<1>5. S \subseteq Int
  BY <1>1
<1>6. key \in [S -> [1..2 -> Int]]
  BY <1>3, <1>5
<1>7. \A x, y \in S : key[x] = key[y] => x = y
  OBVIOUS
<1> HIDE DEF S, key
<1>8. Lists(InOrder(key), S)
  BY <1>2, <1>6, <1>7, InOrderIsRanked
<1>9. Len(InOrder(key)) = Cardinality(S)
  BY <1>2, <1>8, ListIsSeq
<1> QED
  BY <1>1, <1>2, <1>4, <1>8, <1>9 DEF S, NoOne

\* Who has which idea: each once, in slots that are free, as many as there is room for.
Experimented(n, claims, ideas) ==
  LET idea == Experiments(claims, ideas)
      used == {x \in 1..n : idea[x] # NoOne}
      free == {x \in 1..n : claims[x] = NoOne}
      c == Cardinality(used)
  IN /\ DOMAIN idea = 1..n
     /\ \A x \in used : idea[x] \in Fresh(ideas) /\ claims[x] = NoOne
     /\ \A x, y \in used : idea[x] = idea[y] => x = y
     /\ c \in Nat /\ Cardinality(Fresh(ideas)) \in Nat
     /\ 100 * c <= Temperature * n + 50
     /\ c < Cardinality(Fresh(ideas)) /\ 100 * (c + 1) <= Temperature * n => used = free

LEMMA ShareIsRounded ==
  ASSUME NEW p \in Nat
  PROVE  LET w == (2 * p + 100) \div 200 IN w \in Nat /\ 100 * w <= p + 50 /\ \A c \in Nat : 100 * (c + 1) <= p => c < w
  OBVIOUS

LEMMA IdeasAreSeated ==
  ASSUME NEW n \in Nat, NEW claims, DOMAIN claims = 1..n, Len(claims) = n, NEW ideas \in Seq(STRING)
  PROVE  Experimented(n, claims, ideas)
<1> DEFINE ranked == RankCandidates(ideas)
           left == {i \in 1..n : claims[i] = NoOne}
           free == FreeOfSeries(claims)
           p == Temperature * n
           wanted == (2 * p + 100) \div 200
           count == Least(wanted, Len(ranked), Len(free))
           at == Middles(free, count)
           idea == Experiments(claims, ideas)
           used == {x \in 1..n : idea[x] # NoOne}
<1>1. /\ Cardinality(Fresh(ideas)) \in Nat /\ Len(ranked) = Cardinality(Fresh(ideas))
      /\ Lists(ranked, Fresh(ideas)) /\ NoOne \notin Fresh(ideas)
  BY FreshAreRanked
<1>2. /\ IsFiniteSet(left) /\ Cardinality(left) \in Nat
      /\ free \in Seq(left) /\ Len(free) = Cardinality(left) /\ DOMAIN free = 1..Cardinality(left)
      /\ \A a, b \in DOMAIN free : a < b => free[a] < free[b]
      /\ \A x \in left : \E a \in DOMAIN free : free[a] = x
  <2>1. free = Sorted(left)
    BY DEF FreeOfSeries
  <2>2. left \in SUBSET (1..n)
    OBVIOUS
  <2> HIDE DEF free, left
  <2> QED
    BY <2>1, <2>2, NumbersAreListed
<1>3. p \in Nat
  BY WeekdayAssumption
<1>4. 2 * Temperature * Len(claims) = 2 * p
  BY WeekdayAssumption
<1>5. idea = [i \in 1..n |-> IF \E k \in 1..count : at[k] = i
                             THEN ranked[CHOOSE k \in 1..count : at[k] = i] ELSE NoOne]
  <2>1. wanted = (2 * Temperature * Len(claims) + 100) \div 200
    BY <1>4
  <2> HIDE DEF wanted, p
  <2> QED
    BY <2>1 DEF Experiments, Least
<1> HIDE DEF p
<1>6. /\ wanted \in Nat /\ 100 * wanted <= p + 50
      /\ \A c \in Nat : 100 * (c + 1) <= p => c < wanted
  BY <1>3, ShareIsRounded
<1> HIDE DEF idea, ranked, free, wanted
<1>7. /\ count \in {wanted, Len(ranked), Len(free)} /\ count \in Nat
      /\ count <= wanted /\ count <= Len(ranked) /\ count <= Len(free)
  <2>1. wanted \in Nat /\ Len(ranked) \in Nat /\ Len(free) \in Nat
    BY <1>1, <1>2, <1>6
  <2> QED
    BY <2>1, LeastOfThree
<1> HIDE DEF count
<1>8. /\ \A k \in 1..count : at[k] \in left
      /\ \A k, l \in 1..count : at[k] = at[l] => k = l
  <2>1. CASE free = <<>>
    <3>1. count = 0
      BY <1>7, <2>1
    <3> QED
      BY <3>1
  <2>2. CASE free # <<>>
    <3> DEFINE spot == [k \in 1..count |-> ((2 * k - 1) * Len(free)) \div (2 * count) + 1]
    <3>1. /\ \A k \in 1..count : spot[k] \in DOMAIN free /\ at[k] = free[spot[k]]
          /\ \A k, l \in 1..count : k < l => spot[k] < spot[l]
      BY <1>2, <1>7, <2>2, MiddlesOfAList
    <3> HIDE DEF spot, at
    <3>2. \A k \in 1..count : at[k] \in left
      <4>1. \A a \in DOMAIN free : free[a] \in left
        BY <1>2
      <4> QED
        BY <3>1, <4>1
    <3>3. ASSUME NEW k \in 1..count, NEW l \in 1..count, k < l PROVE at[k] < at[l]
      BY <1>2, <3>1, <3>3
    <3>4. \A k \in 1..count : at[k] \in Int
      BY <3>2
    <3>5. ASSUME NEW k \in 1..count, NEW l \in 1..count, at[k] = at[l] PROVE k = l
      <4>1. ~(k < l) /\ ~(l < k)
        BY <3>3, <3>4, <3>5
      <4> QED
        BY <1>7, <4>1
    <3> QED
      BY <3>2, <3>5
  <2> QED
    BY <2>1, <2>2
<1> HIDE DEF at
<1>9. \A k \in 1..count : ranked[k] \in Fresh(ideas) /\ ranked[k] # NoOne
  <2>1. ranked \in [1..Cardinality(Fresh(ideas)) -> Fresh(ideas)]
    BY <1>1 DEF Lists
  <2> QED
    BY <1>1, <1>7, <2>1
<1>10. \A k, l \in 1..count : ranked[k] = ranked[l] => k = l
  <2>1. DOMAIN ranked = 1..Cardinality(Fresh(ideas))
    BY <1>1 DEF Lists
  <2> QED
    BY <1>1, <1>7, <2>1 DEF Lists
<1>11. ASSUME NEW k \in 1..count PROVE at[k] \in 1..n /\ idea[at[k]] = ranked[k]
  BY <1>5, <1>8
<1>12. ASSUME NEW x \in used PROVE \E k \in 1..count : at[k] = x
  BY <1>5
<1>13. used = {at[k] : k \in 1..count}
  <2>1. \A k \in 1..count : at[k] \in used
    BY <1>9, <1>11
  <2> HIDE DEF used
  <2> QED
    BY <1>12, <2>1
<1>14. Cardinality(used) = count
  <2> HIDE DEF used
  <2> QED
    BY <1>7, <1>8, <1>13, ImageHasAsMany
<1>15. \A x \in used : idea[x] \in Fresh(ideas) /\ claims[x] = NoOne
  BY <1>8, <1>9, <1>11, <1>12
<1>16. ASSUME NEW x \in used, NEW y \in used, idea[x] = idea[y] PROVE x = y
  <2>1. PICK k \in 1..count, l \in 1..count : at[k] = x /\ at[l] = y
    BY <1>12
  <2>2. ranked[k] = ranked[l]
    BY <1>11, <1>16, <2>1
  <2> QED
    BY <1>10, <2>1, <2>2
<1>17. ASSUME count < Cardinality(Fresh(ideas)), 100 * (count + 1) <= p PROVE used = left
  <2>1. count = Len(free)
    BY <1>1, <1>6, <1>7, <1>17
  <2>2. used \subseteq left
    BY <1>15
  <2> HIDE DEF used, left
  <2> QED
    BY <1>2, <1>14, <2>1, <2>2, FS_Subset
<1>18. 100 * count <= p + 50
  BY <1>3, <1>6, <1>7
<1>19. DOMAIN idea = 1..n
  BY <1>5
<1> HIDE DEF used, left
<1>20. /\ Cardinality(used) \in Nat
       /\ 100 * Cardinality(used) <= p + 50
       /\ Cardinality(used) < Cardinality(Fresh(ideas)) /\ 100 * (Cardinality(used) + 1) <= p => used = left
  BY <1>7, <1>14, <1>17, <1>18
<1> QED
  BY <1>1, <1>15, <1>16, <1>19, <1>20 DEF Experimented, used, left, idea, p

LEMMA ProductsAvoidIdeas ==
  ASSUME NEW n \in Nat, NEW claims, DOMAIN claims = 1..n, NEW idea, NEW stale, NEW x \in 1..n, idea[x] # NoOne
  PROVE  Products(claims, idea, stale)[x] = NoOne
<1> DEFINE plain == {i \in DOMAIN claims : idea[i] = NoOne}
           key == [i \in plain |-> <<IF claims[i] # NoOne THEN 0 ELSE 1, i>>]
<1>1. plain \subseteq 1..n /\ x \notin plain
  OBVIOUS
<1>2. IsFiniteSet(plain)
  BY <1>1, NumbersAreListed
<1>3. key \in [plain -> [1..2 -> Int]]
  BY <1>1
<1>4. \A i, j \in plain : key[i] = key[j] => i = j
  OBVIOUS
<1> HIDE DEF plain
<1>5. Lists(InOrder(key), plain)
  <2> HIDE DEF key
  <2> QED
    BY <1>2, <1>3, <1>4, InOrderIsRanked
<1>6. \A k \in DOMAIN InOrder(key) : InOrder(key)[k] # x
  <2> HIDE DEF key
  <2> QED
    BY <1>1, <1>5 DEF Lists
<1> QED
  BY <1>6 DEF Products, plain

\* The ideas take their share, each once, and no slot another already speaks for.
THEOREM IdeasDisplaceNothingHolds == DraftSpec => IdeasDisplaceNothing
<1> DEFINE A == Assembly =>
       LET claims == Claims([x \in DOMAIN plan' |-> plan'[x].day], order'.series)
           idea == Experiments(claims, order'.ideas)
           product == Products(claims, idea, order'.stale)
           used == {x \in DOMAIN plan' : idea[x] # NoOne}
           fresh == {n \in DOMAIN order'.ideas : order'.ideas[n] \notin RefusedIdeas}
       IN /\ \A x \in used : idea[x] \in fresh /\ ~plan'[x].series /\ product[x] = NoOne
          /\ \A x, y \in used : idea[x] = idea[y] => x = y
          /\ 100 * Cardinality(used) <= Temperature * Len(plan') + 50
          /\ Cardinality(used) < Cardinality(fresh) /\ 100 * (Cardinality(used) + 1) <= Temperature * Len(plan') =>
               \A x \in DOMAIN plan' \ used : plan'[x].series
<1>1. ASSUME DraftTypeOK, [DraftNext]_draftVars
      PROVE  [A]_draftVars
  <2> SUFFICES ASSUME ~UNCHANGED draftVars, Assembly PROVE A
    OBVIOUS
  <2> DEFINE n == SlotCount(order')
             dates == Dates(order')
             ideas == order'.ideas
             claims == Claims(dates, order'.series)
             idea == Experiments(claims, ideas)
             product == Products(claims, idea, order'.stale)
             used == {x \in 1..n : idea[x] # NoOne}
  <2>1. /\ order'.series \in SeriesList /\ ideas \in Seq(STRING)
        /\ n \in Nat /\ DOMAIN dates = 1..n /\ DOMAIN plan' = 1..n /\ Len(plan') = n
        /\ [x \in DOMAIN plan' |-> plan'[x].day] = dates
        /\ \A x \in 1..n : plan'[x].series <=> claims[x] # NoOne
    BY <1>1, AssembledNow
  <2> HIDE DEF n, dates
  <2>2. DOMAIN claims = 1..n /\ Len(claims) = n
    <3> DEFINE S == {claims[i] : i \in 1..n}
    <3>1. DOMAIN claims = 1..n /\ claims = [i \in 1..n |-> claims[i]]
      BY <2>1 DEF Claims
    <3> HIDE DEF claims
    <3>2. claims \in [1..n -> S]
      BY <3>1
    <3> HIDE DEF S
    <3>3. claims \in Seq(S)
      BY <2>1, <3>2
    <3> QED
      BY <2>1, <3>1, <3>3, LenProperties
  <2> HIDE DEF claims, ideas
  <2>3. Experimented(n, claims, ideas)
    BY <2>1, <2>2, IdeasAreSeated
  <2>4. \A x \in used : product[x] = NoOne
    <3> HIDE DEF idea
    <3> QED
      BY <2>1, <2>2, ProductsAvoidIdeas
  <2>5. Fresh(ideas) = {k \in DOMAIN order'.ideas : order'.ideas[k] \notin RefusedIdeas}
    BY DEF Fresh, ideas
  <2> HIDE DEF product
  <2>6. /\ \A x \in used : idea[x] \in Fresh(ideas) /\ ~plan'[x].series /\ product[x] = NoOne
        /\ \A x, y \in used : idea[x] = idea[y] => x = y
        /\ 100 * Cardinality(used) <= Temperature * Len(plan') + 50
        /\ Cardinality(used) < Cardinality(Fresh(ideas)) /\ 100 * (Cardinality(used) + 1) <= Temperature * Len(plan') =>
             \A x \in 1..n \ used : plan'[x].series
    BY <2>1, <2>3, <2>4 DEF Experimented
  <2> QED
    BY <2>1, <2>5, <2>6 DEF product, claims, ideas
<1> QED
  BY <1>1, DraftTypes, PTL DEF DraftSpec, IdeasDisplaceNothing

LEMMA ThinnestIsLeast ==
  ASSUME NEW c \in [Days -> Nat]
  PROVE  LET t == ThinnestDay(c) IN t \in Days /\ \A e \in Days : c[t] <= c[e]
<1> DEFINE gaps(d) == {IF e < d THEN d - e ELSE e - d : e \in {e \in Days \ {d} : c[e] > 0}}
           far(d) == CHOOSE g \in gaps(d) \cup {LastDay} : \A h \in gaps(d) \cup {LastDay} : g <= h
           best(d) == <<c[d], -far(d), d>>
           key == [d \in Days |-> best(d)]
           T == InOrder(key)
           t == ThinnestDay(c)
<1>1. Days = 1..LastDay /\ LastDay \in Nat \ {0}
  BY MonthAssumption DEF Days
<1>2. IsFiniteSet(Days) /\ Cardinality(Days) = LastDay
  <2>1. 1 \in Int /\ LastDay \in Int
    BY <1>1
  <2> QED
    BY <1>1, <2>1, FS_Interval
<1>3. ASSUME NEW d \in Days PROVE far(d) \in Int
  <2> DEFINE S == gaps(d) \cup {LastDay}
  <2>1. S \in SUBSET Nat /\ S # {}
    BY <1>1
  <2>2. far(d) = CHOOSE g \in S : \A h \in S : g <= h
    OBVIOUS
  <2> HIDE DEF S, far
  <2>3. \E g \in S : \A h \in S : g <= h
    BY <2>1, LeastOfNats
  <2> DEFINE f == far(d)
  <2>4. f \in S
    BY <2>2, <2>3
  <2> HIDE DEF f
  <2>5. f \in Int
    BY <2>1, <2>4
  <2> QED
    BY <2>5 DEF f
<1>4. t = CHOOSE d \in Days : \A e \in Days \ {d} : Before(best(d), best(e))
  BY DEF ThinnestDay
<1> HIDE DEF far, t
<1>5. ASSUME NEW d \in Days PROVE -far(d) \in Int /\ c[d] \in Int /\ d \in Int
  BY <1>1, <1>3
<1>6. key \in [Days -> [1..3 -> Int]]
  <2>1. ASSUME NEW d \in Days PROVE best(d) \in [1..3 -> Int]
    BY <1>5
  <2> HIDE DEF best
  <2> QED
    BY <2>1
<1>7. \A x, y \in Days : key[x] = key[y] => x = y
  OBVIOUS
<1>8. \A x \in Days : key[x] = best(x)
  OBVIOUS
<1>9. Ranked(T, ByKey(key, Days), Days)
  <2> HIDE DEF key, best
  <2> QED
    BY <1>2, <1>6, <1>7, InOrderIsRanked
<1>10. \E d \in Days : \A e \in Days \ {d} : Before(best(d), best(e))
  <2> HIDE DEF key, best, T
  <2>1. 1 \in DOMAIN T /\ DOMAIN T = 1..LastDay
    BY <1>1, <1>2, <1>9 DEF Ranked
  <2>2. T[1] \in Days
    BY <1>9, <2>1 DEF Ranked
  <2>3. ASSUME NEW e \in Days \ {T[1]} PROVE Before(best(T[1]), best(e))
    <3>1. PICK n \in DOMAIN T : T[n] = e
      BY <1>9 DEF Ranked
    <3>2. 1 < n
      BY <1>1, <2>1, <3>1
    <3>3. <<T[1], e>> \in ByKey(key, Days)
      BY <1>9, <2>1, <3>1, <3>2 DEF Ranked
    <3>4. Before(key[T[1]], key[e])
      BY <3>3 DEF ByKey
    <3> QED
      BY <1>8, <2>2, <3>4
  <2> QED
    BY <2>2, <2>3
<1>11. t \in Days /\ \A e \in Days \ {t} : Before(best(t), best(e))
  <2> HIDE DEF best
  <2> QED
    BY <1>4, <1>10
<1>12. ASSUME NEW e \in Days PROVE c[t] <= c[e]
  <2>1. CASE e = t
    BY <1>5, <1>11, <2>1
  <2>2. CASE e # t
    <3>1. Before(best(t), best(e))
      BY <1>11, <2>2
    <3>2. PICK n \in DOMAIN best(t) : best(t)[n] < best(e)[n] /\ \A k \in 1..(n - 1) : best(t)[k] = best(e)[k]
      BY <3>1 DEF Before
    <3>3. n \in 1..3 /\ best(t)[1] = c[t] /\ best(e)[1] = c[e]
      OBVIOUS
    <3>4. CASE n = 1
      BY <1>5, <1>11, <3>2, <3>3, <3>4
    <3>5. CASE n # 1
      <4>1. 1 \in 1..(n - 1)
        BY <3>3, <3>5
      <4>2. c[t] = c[e]
        BY <3>2, <3>3, <4>1
      <4> QED
        BY <1>5, <1>11, <4>2
    <3> QED
      BY <3>4, <3>5
  <2> QED
    BY <2>1, <2>2
<1> QED
  BY <1>11, <1>12 DEF t

\* The posts on each day, round after round, each round adding one on the thinnest.
OneMore(c) == [c EXCEPT ![ThinnestDay(c)] = @ + 1]
Rounds(g, start, n) == g = [k \in 0..n |-> IF k = 0 THEN start ELSE OneMore(g[k - 1])]

LEMMA RoundsExist ==
  ASSUME NEW start, NEW n \in Nat
  PROVE  \E g : Rounds(g, start, n)
<1> DEFINE Bad == {m \in Nat : ~\E g : Rounds(g, start, m)}
<1> SUFFICES ASSUME n \in Bad PROVE FALSE
  OBVIOUS
<1>1. PICK m \in Bad : \A k \in Bad : m <= k
  <2>1. Bad \in SUBSET Nat /\ Bad # {}
    OBVIOUS
  <2> HIDE DEF Bad
  <2> QED
    BY <2>1, LeastOfNats
<1>2. m \in Nat /\ ~\E g : Rounds(g, start, m)
  OBVIOUS
<1>3. CASE m = 0
  <2> DEFINE g == [k \in 0..0 |-> start]
  <2>1. g = [k \in 0..0 |-> IF k = 0 THEN start ELSE OneMore(g[k - 1])]
    OBVIOUS
  <2> QED
    BY <1>2, <1>3, <2>1 DEF Rounds
<1>4. CASE m # 0
  <2>1. m - 1 \in Nat /\ m - 1 \notin Bad
    BY <1>1, <1>2, <1>4
  <2>2. PICK g : Rounds(g, start, m - 1)
    BY <2>1
  <2> DEFINE h == [k \in 0..m |-> IF k = m THEN OneMore(g[m - 1]) ELSE g[k]]
  <2>3. \A k \in 0..(m - 1) : g[k] = IF k = 0 THEN start ELSE OneMore(g[k - 1])
    BY <2>2 DEF Rounds
  <2>4. ASSUME NEW k \in 0..m PROVE h[k] = IF k = 0 THEN start ELSE OneMore(h[k - 1])
    <3>1. CASE k = m
      <4>1. h[k] = OneMore(g[m - 1]) /\ k # 0 /\ k - 1 = m - 1 /\ m - 1 \in 0..m /\ m - 1 # m
        BY <1>2, <1>4, <3>1
      <4>2. h[k - 1] = g[m - 1]
        BY <4>1
      <4> QED
        BY <4>1, <4>2
    <3>2. CASE k # m
      <4>1. k \in 0..(m - 1) /\ h[k] = g[k]
        BY <1>2, <3>2
      <4>2. k # 0 => k - 1 \in 0..m /\ k - 1 # m /\ h[k - 1] = g[k - 1]
        BY <1>2, <4>1
      <4> QED
        BY <2>3, <4>1, <4>2
    <3> QED
      BY <3>1, <3>2
  <2>5. h = [k \in 0..m |-> IF k = 0 THEN start ELSE OneMore(h[k - 1])]
    <3>1. DOMAIN h = 0..m /\ h = [k \in 0..m |-> h[k]]
      OBVIOUS
    <3> HIDE DEF h
    <3> QED
      BY <2>4, <3>1
  <2> HIDE DEF h
  <2> QED
    BY <1>2, <2>5 DEF Rounds
<1> QED
  BY <1>3, <1>4

Picks(after, start, n) == {p \in Days \X (1..n) : p[2] <= after[p[1]] - start[p[1]]}
Thin(after, start) == \A d, e \in Days : after[d] # start[d] /\ after[d] > 1 => after[e] > 0

RoundIs(c, start, n, k) ==
  /\ c \in [Days -> Nat]
  /\ \A d \in Days : start[d] <= c[d] /\ c[d] <= start[d] + k
  /\ IsFiniteSet(Picks(c, start, n)) /\ Cardinality(Picks(c, start, n)) = k
  /\ Thin(c, start)

LEMMA RoundKept ==
  ASSUME NEW start \in [Days -> Nat], NEW n \in Nat, NEW k \in Nat, k < n, NEW c, RoundIs(c, start, n, k)
  PROVE  RoundIs(OneMore(c), start, n, k + 1)
<1> DEFINE t == ThinnestDay(c)
           z == OneMore(c)
           new == <<t, c[t] - start[t] + 1>>
<1>1. c \in [Days -> Nat] /\ \A d \in Days : start[d] <= c[d] /\ c[d] <= start[d] + k
  BY DEF RoundIs
<1>2. t \in Days /\ \A e \in Days : c[t] <= c[e]
  BY <1>1, ThinnestIsLeast
<1>3. z \in [Days -> Nat] /\ z[t] = c[t] + 1 /\ \A d \in Days : d # t => z[d] = c[d]
  BY <1>1, <1>2 DEF OneMore
<1> HIDE DEF t, z
<1>4. \A d \in Days : c[d] \in Nat /\ start[d] \in Nat /\ z[d] \in Nat
  BY <1>1, <1>3
<1>5. ASSUME NEW d \in Days PROVE start[d] <= z[d] /\ z[d] <= start[d] + (k + 1)
  BY <1>1, <1>3, <1>4
<1>6. new \in Days \X (1..n) /\ new \notin Picks(c, start, n)
  <2>1. c[t] - start[t] + 1 \in 1..n
    BY <1>1, <1>2, <1>4
  <2>2. ~(c[t] - start[t] + 1 <= c[t] - start[t])
    BY <1>2, <1>4
  <2> QED
    BY <1>2, <2>1, <2>2 DEF Picks
<1>7. Picks(z, start, n) = Picks(c, start, n) \cup {new}
  <2>1. ASSUME NEW d \in Days, NEW j \in 1..n
        PROVE  j <= z[d] - start[d] <=> j <= c[d] - start[d] \/ <<d, j>> = new
    <3>1. CASE d = t
      <4>1. z[d] = c[d] + 1 /\ c[d] \in Nat /\ start[d] \in Nat
        BY <1>2, <1>3, <1>4, <3>1
      <4>2. <<d, j>> = new <=> j = c[d] - start[d] + 1
        BY <3>1
      <4> QED
        BY <4>1, <4>2
    <3>2. CASE d # t
      BY <1>3, <3>2
    <3> QED
      BY <3>1, <3>2
  <2>2. ASSUME NEW p \in Days \X (1..n) PROVE p \in Picks(z, start, n) <=> p \in Picks(c, start, n) \cup {new}
    <3>1. p = <<p[1], p[2]>> /\ p[1] \in Days /\ p[2] \in 1..n
      OBVIOUS
    <3> HIDE DEF new
    <3>2. p[2] <= z[p[1]] - start[p[1]] <=> p[2] <= c[p[1]] - start[p[1]] \/ p = new
      BY <2>1, <3>1
    <3> QED
      BY <3>2 DEF Picks
  <2>3. Picks(z, start, n) \subseteq Days \X (1..n) /\ Picks(c, start, n) \subseteq Days \X (1..n)
    BY DEF Picks
  <2> HIDE DEF new
  <2> QED
    BY <1>6, <2>2, <2>3
<1>8. IsFiniteSet(Picks(c, start, n)) /\ Cardinality(Picks(c, start, n)) = k
  BY DEF RoundIs
<1> HIDE DEF new
<1>9. IsFiniteSet(Picks(z, start, n)) /\ Cardinality(Picks(z, start, n)) = k + 1
  BY <1>6, <1>7, <1>8, FS_AddElement
<1>10. ASSUME NEW d \in Days, NEW e \in Days, z[d] # start[d], z[d] > 1 PROVE z[e] > 0
  <2>1. c[e] > 0
    <3>1. CASE d = t
      <4>1. c[t] \in Nat /\ c[e] \in Nat /\ c[t] <= c[e] /\ c[t] + 1 > 1
        BY <1>2, <1>3, <1>4, <1>10, <3>1
      <4> QED
        BY <4>1
    <3>2. CASE d # t
      <4>1. c[d] # start[d] /\ c[d] > 1
        BY <1>3, <1>10, <3>2
      <4> QED
        BY <4>1 DEF RoundIs, Thin
    <3> QED
      BY <3>1, <3>2
  <2> QED
    BY <1>3, <1>4, <2>1
<1> QED
  BY <1>3, <1>5, <1>9, <1>10 DEF RoundIs, Thin, z

LEMMA RoundsAre ==
  ASSUME NEW start \in [Days -> Nat], NEW n \in Nat, NEW g, Rounds(g, start, n)
  PROVE  \A k \in 0..n : RoundIs(g[k], start, n, k)
<1> DEFINE Bad == {k \in 0..n : ~RoundIs(g[k], start, n, k)}
<1> SUFFICES ASSUME Bad # {} PROVE FALSE
  OBVIOUS
<1>1. PICK k \in Bad : \A j \in Bad : k <= j
  <2>1. Bad \in SUBSET Nat
    OBVIOUS
  <2> HIDE DEF Bad
  <2> QED
    BY <2>1, LeastOfNats
<1>2. k \in 0..n /\ ~RoundIs(g[k], start, n, k)
  OBVIOUS
<1>3. \A j \in 0..n : g[j] = IF j = 0 THEN start ELSE OneMore(g[j - 1])
  BY DEF Rounds
<1>4. CASE k = 0
  <2>1. g[k] = start /\ \A d \in Days : start[d] \in Nat
    BY <1>2, <1>3, <1>4
  <2>2. Picks(start, start, n) = {}
    BY <2>1 DEF Picks
  <2>3. RoundIs(start, start, n, 0)
    BY <2>1, <2>2, FS_EmptySet DEF RoundIs, Thin
  <2> QED
    BY <1>2, <1>4, <2>1, <2>3
<1>5. CASE k # 0
  <2>1. k - 1 \in 0..n /\ k - 1 \in Nat /\ k - 1 < n /\ k - 1 + 1 = k /\ ~(k <= k - 1)
    BY <1>2, <1>5
  <2>2. RoundIs(g[k - 1], start, n, k - 1)
    BY <1>1, <2>1
  <2>3. RoundIs(OneMore(g[k - 1]), start, n, k - 1 + 1)
    BY <2>1, <2>2, RoundKept
  <2> QED
    BY <1>2, <1>3, <1>5, <2>1, <2>3
<1> QED
  BY <1>4, <1>5

\* Where n posts go: on days that get more, each once unless a day needs another, and until
\* no day is without one.
Thinned(days, start, n, after) ==
  /\ days \in Seq(Days) /\ Len(days) = n
  /\ after \in [Days -> Nat] /\ Thin(after, start)
  /\ \A k \in DOMAIN days : start[days[k]] < after[days[k]]
  /\ \A d \in Days : start[d] <= after[d] /\ (start[d] < after[d] => \E k \in DOMAIN days : days[k] = d)
  /\ \A k, l \in DOMAIN days : days[k] = days[l] /\ after[days[k]] <= 1 => k = l

LEMMA ThinnestAre ==
  ASSUME NEW m, IsMonth(m), NEW n \in Nat
  PROVE  \E after : Thinned(ThinnestDays(m, n), DayCount(m), n, after)
<1> DEFINE start == DayCount(m)
           counts == CHOOSE g : Rounds(g, start, n)
           after == counts[n]
           picks == Picks(after, start, n)
           rows == InOrder([p \in picks |-> p])
           days == ThinnestDays(m, n)
<1>1. start \in [Days -> Nat]
  BY CountsAreNumbers
<1>2. days = [k \in DOMAIN rows |-> rows[k][1]]
  BY DEF ThinnestDays, Rounds, OneMore, Picks
<1> HIDE DEF start, days
<1>3. Rounds(counts, start, n)
  BY RoundsExist
<1> HIDE DEF counts
<1>4. RoundIs(after, start, n, n)
  <2>1. n \in 0..n
    OBVIOUS
  <2> QED
    BY <1>1, <1>3, <2>1, RoundsAre
<1> HIDE DEF after
<1>5. /\ after \in [Days -> Nat] /\ Thin(after, start)
      /\ \A d \in Days : start[d] \in Nat /\ after[d] \in Nat /\ start[d] <= after[d] /\ after[d] <= start[d] + n
      /\ IsFiniteSet(picks) /\ Cardinality(picks) = n
  BY <1>1, <1>4 DEF RoundIs
<1>6. \A d \in Days, j \in 1..n : <<d, j>> \in picks <=> j <= after[d] - start[d]
  BY DEF Picks
<1>7. ASSUME NEW p \in picks PROVE p = <<p[1], p[2]>> /\ p[1] \in Days /\ p[2] \in 1..n /\ p[2] <= after[p[1]] - start[p[1]]
  BY DEF Picks
<1> HIDE DEF picks
<1>8. Lists(rows, picks)
  <2> DEFINE k == [p \in picks |-> p]
  <2>1. k \in [picks -> [1..2 -> Int]]
    <3>1. ASSUME NEW p \in picks PROVE p \in [1..2 -> Int]
      <4>1. p[1] \in Int /\ p[2] \in Int
        BY <1>7, MonthAssumption DEF Days
      <4>2. <<p[1], p[2]>> \in [1..2 -> Int]
        BY <4>1
      <4> QED
        BY <1>7, <4>2
    <3> QED
      BY <3>1
  <2>2. \A x, y \in picks : k[x] = k[y] => x = y
    OBVIOUS
  <2> HIDE DEF k
  <2>3. Lists(InOrder(k), picks)
    BY <1>5, <2>1, <2>2, InOrderIsRanked
  <2> QED
    BY <2>3 DEF k
<1> HIDE DEF rows
<1>9. /\ DOMAIN rows = 1..n /\ \A k \in 1..n : rows[k] \in picks
      /\ \A k, l \in 1..n : rows[k] = rows[l] => k = l
      /\ \A p \in picks : \E k \in 1..n : rows[k] = p
  BY <1>5, <1>8 DEF Lists
<1>10. DOMAIN days = 1..n /\ \A k \in 1..n : days[k] = rows[k][1] /\ days[k] \in Days
  BY <1>2, <1>7, <1>9
<1>11. days \in Seq(Days) /\ Len(days) = n
  <2>1. days \in [1..n -> Days]
    BY <1>2, <1>9, <1>10
  <2> QED
    BY <2>1
<1>12. ASSUME NEW k \in 1..n PROVE start[days[k]] < after[days[k]]
  <2>1. rows[k][2] \in 1..n /\ rows[k][2] <= after[days[k]] - start[days[k]]
    BY <1>7, <1>9, <1>10
  <2>2. after[days[k]] \in Nat /\ start[days[k]] \in Nat
    BY <1>5, <1>10
  <2> QED
    BY <2>1, <2>2
<1>13. ASSUME NEW d \in Days, start[d] < after[d] PROVE \E k \in 1..n : days[k] = d
  <2>1. 1 \in 1..n /\ 1 <= after[d] - start[d]
    BY <1>5, <1>13
  <2>2. <<d, 1>> \in picks
    BY <1>6, <2>1
  <2>3. PICK k \in 1..n : rows[k] = <<d, 1>>
    BY <1>9, <2>2
  <2> QED
    BY <1>10, <2>3
<1>14. ASSUME NEW k \in 1..n, NEW l \in 1..n, days[k] = days[l], after[days[k]] <= 1 PROVE k = l
  <2>1. \A x \in {k, l} : rows[x] = <<days[k], rows[x][2]>> /\ rows[x][2] \in 1..n /\ rows[x][2] <= after[days[k]] - start[days[k]]
    BY <1>7, <1>9, <1>10, <1>14
  <2>2. after[days[k]] \in Nat /\ start[days[k]] \in Nat
    BY <1>5, <1>10
  <2>3. rows[k][2] = 1 /\ rows[l][2] = 1
    BY <1>14, <2>1, <2>2
  <2>4. rows[k] = rows[l]
    BY <2>1, <2>3
  <2> QED
    BY <1>9, <2>4
<1>15. Thinned(days, start, n, after)
  <2>1. \A k \in DOMAIN days : start[days[k]] < after[days[k]]
    BY <1>10, <1>12
  <2>2. \A d \in Days : start[d] <= after[d] /\ (start[d] < after[d] => \E k \in DOMAIN days : days[k] = d)
    BY <1>5, <1>10, <1>13
  <2>3. \A k, l \in DOMAIN days : days[k] = days[l] /\ after[days[k]] <= 1 => k = l
    BY <1>10, <1>14
  <2> QED
    BY <1>5, <1>11, <2>1, <2>2, <2>3 DEF Thinned
<1> QED
  BY <1>15 DEF start, days

LEMMA CadenceAdds ==
  ASSUME NEW m, IsMonth(m), NEW i \in Sentences, i.kind = "cadence"
  PROVE  LET r == ApplyCadence(i, m)
             floor == CadenceFloorSlots(i.perWeek, i.perMonth)
             gap == floor - Cardinality(DOMAIN m)
         IN /\ floor \in Nat /\ gap \in Int
            /\ gap <= 0 => r.add = <<>>
            /\ gap > 0 => /\ DOMAIN r.add = DOMAIN ThinnestDays(m, gap)
                          /\ Len(r.add) = gap
                          /\ \A k \in DOMAIN r.add : r.add[k].day = ThinnestDays(m, gap)[k]
<1> DEFINE floor == CadenceFloorSlots(i.perWeek, i.perMonth)
           gap == floor - Cardinality(DOMAIN m)
           days == ThinnestDays(m, gap)
           formats == Spread(FormatNames, FormatCount(m), gap)
           pillars == Spread(PillarNames, PillarCount(m), gap)
           or(names, k, other) == IF k \in DOMAIN names THEN names[k] ELSE other
           row(k) == NewBeat(days[k], or(formats, k, CommonestFormat(m)), or(pillars, k, Unsaid), Unsaid, Unsaid)
           add == [k \in DOMAIN days |-> row(k)]
           r == ApplyCadence(i, m)
<1>1. i.perWeek \in Nat /\ i.perMonth \in Nat
  BY IntentAssumption DEF IsIntent
<1>2. floor \in Nat
  <2>1. floor \in 0..LastDay
    BY <1>1, SlotsAreNumbers
  <2> HIDE DEF floor
  <2> QED
    BY <2>1, MonthAssumption
<1>3. gap \in Int
  <2>1. Cardinality(DOMAIN m) \in Nat
    BY RowsAreFew
  <2> HIDE DEF floor
  <2> QED
    BY <1>2, <2>1
<1>4. r = IF gap <= 0 THEN NoChange ELSE [NoChange EXCEPT !.add = add]
  BY DEF ApplyCadence
<1> HIDE DEF floor, gap, r
<1>5. CASE gap <= 0
  <2>1. r.add = <<>>
    BY <1>4, <1>5, NothingIsAResult
  <2> QED
    BY <1>2, <1>3, <1>5, <2>1 DEF r, floor, gap
<1>6. CASE gap > 0
  <2>1. gap \in Nat
    BY <1>3, <1>6
  <2>2. PICK after : Thinned(days, DayCount(m), gap, after)
    BY <2>1, ThinnestAre
  <2>3. days \in Seq(Days) /\ Len(days) = gap
    BY <2>2 DEF Thinned
  <2> HIDE DEF days, formats, pillars
  <2>4. \A k \in DOMAIN days : row(k).day = days[k]
    BY DEF NewBeat
  <2> HIDE DEF row
  <2>5. DOMAIN add = DOMAIN days /\ \A k \in DOMAIN days : add[k].day = days[k]
    BY <2>4
  <2>6. Len(add) = gap
    <3> DEFINE S == {row(k) : k \in DOMAIN days}
    <3>1. add \in [1..gap -> S]
      BY <2>3
    <3> HIDE DEF S, add
    <3>2. add \in Seq(S) /\ DOMAIN add = 1..gap
      BY <2>1, <3>1
    <3> QED
      BY <2>1, <3>2, LenProperties
  <2> HIDE DEF add
  <2>7. r = [NoChange EXCEPT !.add = add]
    BY <1>3, <1>4, <1>6
  <2>8. r.add = add
    BY <2>7 DEF NoChange
  <2> QED
    BY <1>2, <1>3, <1>6, <2>5, <2>6, <2>8 DEF r, floor, gap, days
<1> QED
  BY <1>3, <1>5, <1>6 DEF gap, floor

LEMMA CadenceStep ==
  ASSUME DraftTypeOK, NEW i \in Sentences, Hears(i), i.kind = "cadence"
  PROVE  LET floor == CadenceFloorSlots(i.perWeek, i.perMonth)
             on(month, d) == {id \in DOMAIN month : month[id].day = d}
         IN /\ Cardinality(DOMAIN plan') = IF Cardinality(DOMAIN plan) >= floor THEN Cardinality(DOMAIN plan) ELSE floor
            /\ \A d, e \in Days : on(plan', d) # on(plan, d) /\ Cardinality(on(plan', d)) > 1 => on(plan', e) # {}
<1> DEFINE r == ApplyIntent(i, plan)
           floor == CadenceFloorSlots(i.perWeek, i.perMonth)
           before == Cardinality(DOMAIN plan)
           gap == floor - before
           free == Free(plan)
           on(d) == {id \in DOMAIN plan : plan[id].day = d}
           on2(d) == {id \in DOMAIN plan' : plan'[id].day = d}
<1>1. /\ IsMonth(plan)
      /\ DOMAIN plan' = (DOMAIN plan \ Gone(plan, r)) \cup {free[k] : k \in DOMAIN r.add}
      /\ \A k \in DOMAIN r.add : free[k] \in Ids \ DOMAIN plan /\ plan'[free[k]].day = r.add[k].day
      /\ \A id \in DOMAIN plan \ Gone(plan, r) : plan'[id] = IF id \in DOMAIN r.change THEN r.change[id] ELSE plan[id]
  BY Heard
<1>2. r = ApplyCadence(i, plan)
  BY IntentsAreKnown
<1>3. r.gone = {} /\ DOMAIN r.change = {}
  BY <1>1, <1>2, CadenceIsAResult
<1>4. /\ floor \in Nat /\ gap \in Int
      /\ gap <= 0 => r.add = <<>>
      /\ gap > 0 => /\ DOMAIN r.add = DOMAIN ThinnestDays(plan, gap)
                    /\ Len(r.add) = gap
                    /\ \A k \in DOMAIN r.add : r.add[k].day = ThinnestDays(plan, gap)[k]
  BY <1>1, <1>2, CadenceAdds
<1>5. Gone(plan, r) = {}
  BY <1>3 DEF Gone
<1>6. before \in Nat /\ Cardinality(DOMAIN plan') = before - 0 + Len(r.add)
  BY <1>5, RowsComeAndGo, FS_EmptySet
<1> HIDE DEF r, floor, free
<1>7. /\ DOMAIN plan' = DOMAIN plan \cup {free[k] : k \in DOMAIN r.add}
      /\ \A id \in DOMAIN plan : plan'[id] = plan[id]
      /\ \A k \in DOMAIN r.add : free[k] \notin DOMAIN plan /\ plan'[free[k]].day = r.add[k].day
  BY <1>1, <1>3, <1>5
<1>8. CASE gap <= 0
  <2>1. r.add = <<>> /\ Len(r.add) = 0 /\ DOMAIN r.add = {}
    BY <1>4, <1>8
  <2>2. Cardinality(DOMAIN plan') = before /\ before >= floor
    <3> HIDE DEF before
    <3> QED
      BY <1>4, <1>6, <1>8, <2>1
  <2>3. \A d : on2(d) = on(d)
    BY <1>7, <2>1
  <2> QED
    BY <2>2, <2>3 DEF floor
<1>9. CASE gap > 0
  <2> DEFINE days == ThinnestDays(plan, gap)
             start == DayCount(plan)
  <2>1. gap \in Nat
    BY <1>4, <1>9
  <2> HIDE DEF gap
  <2>2. PICK after : Thinned(days, start, gap, after)
    BY <1>1, <2>1, ThinnestAre
  <2>3. DOMAIN r.add = DOMAIN days /\ \A k \in DOMAIN days : r.add[k].day = days[k] /\ days[k] \in Days
    BY <1>4, <1>9, <2>2 DEF Thinned
  <2>4. \A d \in Days : start[d] = Cardinality(on(d)) /\ start[d] \in Nat /\ IsFiniteSet(on(d))
    <3>1. \A d \in Days : start[d] = Cardinality(on(d)) /\ start[d] \in Nat
      BY <1>1, CountsAreNumbers DEF DayCount
    <3>2. IsFiniteSet(DOMAIN plan)
      BY <1>1, RowsAreFew
    <3>3. \A d \in Days : IsFiniteSet(on(d))
      BY <3>2, FS_Subset
    <3> QED
      BY <3>1, <3>3
  <2> HIDE DEF start, days
  <2>5. \A d \in Days : on2(d) = on(d) \cup {free[k] : k \in {k \in DOMAIN days : days[k] = d}}
    BY <1>7, <2>3
  <2> HIDE DEF on, on2
  <2>6. ASSUME NEW d \in Days, on2(d) # on(d) PROVE start[d] < after[d]
    <3>1. PICK k \in DOMAIN days : days[k] = d
      BY <2>5, <2>6
    <3> QED
      BY <2>2, <3>1 DEF Thinned
  <2>7. ASSUME NEW d \in Days, on2(d) # on(d), Cardinality(on2(d)) > 1 PROVE after[d] > 1
    <3> SUFFICES ASSUME ~(after[d] > 1) PROVE FALSE
      OBVIOUS
    <3>1. start[d] < after[d] /\ after[d] \in Nat /\ start[d] \in Nat
      BY <2>2, <2>4, <2>6, <2>7 DEF Thinned
    <3>2. start[d] = 0 /\ after[d] <= 1
      BY <3>1
    <3>3. on(d) = {}
      BY <2>4, <3>2, FS_EmptySet
    <3>4. PICK k \in DOMAIN days : days[k] = d
      BY <2>5, <2>7
    <3>5. \A l \in DOMAIN days : days[l] = d => l = k
      BY <2>2, <3>2, <3>4 DEF Thinned
    <3>6. on2(d) = {free[k]}
      BY <2>5, <3>3, <3>4, <3>5
    <3>7. Cardinality(on2(d)) = 1
      BY <3>6, FS_Singleton
    <3> QED
      BY <2>7, <3>7
  <2>8. ASSUME NEW d \in Days, NEW e \in Days, on2(d) # on(d), Cardinality(on2(d)) > 1 PROVE on2(e) # {}
    <3>1. after[d] > 1 /\ after[d] # start[d]
      <4>1. start[d] < after[d] /\ after[d] > 1 /\ start[d] \in Nat /\ after[d] \in Nat
        BY <2>2, <2>4, <2>6, <2>7, <2>8 DEF Thinned
      <4> QED
        BY <4>1
    <3>2. after[e] > 0
      BY <2>2, <3>1 DEF Thinned, Thin
    <3>3. CASE start[e] > 0
      <4>1. on(e) # {}
        BY <2>4, <3>3, FS_EmptySet
      <4> QED
        BY <2>5, <4>1
    <3>4. CASE ~(start[e] > 0)
      <4>1. start[e] < after[e]
        BY <2>4, <3>2, <3>4
      <4>2. PICK k \in DOMAIN days : days[k] = e
        BY <2>2, <4>1 DEF Thinned
      <4> QED
        BY <2>5, <4>2
    <3> QED
      BY <3>3, <3>4
  <2>9. Cardinality(DOMAIN plan') = floor /\ ~(before >= floor)
    <3>1. Len(r.add) = gap
      BY <1>4, <1>9
    <3>2. gap = floor - before
      BY DEF gap
    <3> HIDE DEF before
    <3> QED
      BY <1>4, <1>6, <1>9, <3>1, <3>2
  <2> QED
    BY <2>8, <2>9 DEF on, on2, floor
<1> QED
  BY <1>4, <1>8, <1>9

\* A cadence is reached and not passed unless the request breaks off before the rows, and no day
\* is doubled while another is empty.
THEOREM CadenceIsReachedThinlyHolds == DraftSpec => CadenceIsReachedThinly
<1> DEFINE A == Says("cadence") /\ plan # <<>> /\ went' # "broken" =>
                  LET floor == CadenceFloorSlots(last'.perWeek, last'.perMonth)
                      on(month, d) == {id \in DOMAIN month : month[id].day = d} IN
                  /\ Cardinality(DOMAIN plan') = IF Cardinality(DOMAIN plan) >= floor THEN Cardinality(DOMAIN plan) ELSE floor
                  /\ \A d, e \in Days : on(plan', d) # on(plan, d) /\ Cardinality(on(plan', d)) > 1 => on(plan', e) # {}
<1>1. ASSUME DraftTypeOK, [DraftNext]_draftVars
      PROVE  [A]_reshapeVars
  <2>1. Says("cadence") => \E i \in Sentences : (Hears(i) \/ HearsCadence(i)) /\ last' = i /\ i.kind = "cadence"
    BY <1>1, SaidByASentence
  <2>2. ASSUME NEW i \in Sentences, HearsCadence(i) PROVE plan = <<>> \/ went' = "broken"
    BY <2>2 DEF HearsCadence
  <2> QED
    BY <1>1, <2>1, <2>2, CadenceStep
<1> QED
  BY <1>1, DraftTypes, PTL DEF DraftSpec, CadenceIsReachedThinly

=============================================================================
