------------------------- MODULE MonitorPage_proofs -------------------------
(***************************************************************************)
(* The monitor page for any nodes, packets and filters.  First the         *)
(* operators the panels are built from: a finite set has a sorted listing, *)
(* which holds every element once, and the counts of the bars add up to    *)
(* the number of things counted.  Then the types, the selection and the    *)
(* agreement of the panels.                                                *)
(***************************************************************************)
EXTENDS MonitorPage, FiniteSetTheorems, FunctionTheorems, WellFoundedInduction, TLAPS

-----------------------------------------------------------------------------
(* Induction, for a set instead of a predicate                             *)

LEMMA LeastNat ==
  ASSUME NEW T \in SUBSET Nat, T # {}
  PROVE  \E x \in T : \A y \in T : x <= y
<1> DEFINE R == {ss \in Nat \X Nat : ss[1] < ss[2]}
<1>1. IsWellFoundedOn(R, Nat)
  BY NatLessThanWellFounded DEF OpToRel
<1>2. \A x, y \in Nat : x < y => <<x, y>> \in R
  OBVIOUS
<1> HIDE DEF R
<1>3. PICK x \in T : \A y \in T : ~(<<y, x>> \in R)
  BY <1>1, WFMin
<1>4. ASSUME NEW y \in T PROVE x <= y
  <2>1. x \in Nat /\ y \in Nat
    OBVIOUS
  <2>2. ~(y < x)
    BY <1>2, <1>3, <2>1
  <2> QED BY <2>1, <2>2
<1> QED BY <1>4

LEMMA SetInduction ==
  ASSUME NEW S, 0 \in S, \A n \in Nat : n \in S => n + 1 \in S
  PROVE  Nat \subseteq S
<1> SUFFICES ASSUME Nat \ S # {} PROVE FALSE
  OBVIOUS
<1>1. PICK m \in Nat \ S : \A y \in Nat \ S : m <= y
  BY LeastNat
<1>2. m - 1 \in Nat /\ (m - 1) + 1 = m
  BY <1>1
<1>3. m - 1 \notin Nat \ S
  BY <1>1, <1>2
<1> QED BY <1>1, <1>2, <1>3
-----------------------------------------------------------------------------
(* Sorting                                                                 *)

\* Some element of a finite set has the least value.
LEMMA LeastExists ==
  ASSUME NEW S, IsFiniteSet(S), S # {}, NEW v, \A x \in S : v[x] \in Int
  PROVE  \E x \in S : \A y \in S : v[x] <= v[y]
<1> DEFINE Least(U) == \E x \in U : \A y \in U : v[x] <= v[y]
           G == {n \in Nat : \A U \in SUBSET S : Cardinality(U) = n => U = {} \/ Least(U)}
<1>1. 0 \in G
  <2>1. \A U \in SUBSET S : Cardinality(U) = 0 => U = {}
    BY FS_Subset, FS_EmptySet
  <2> QED BY <2>1
<1>2. ASSUME NEW n \in Nat, n \in G PROVE n + 1 \in G
  <2> SUFFICES ASSUME NEW U \in SUBSET S, Cardinality(U) = n + 1, U # {}
               PROVE  Least(U)
    OBVIOUS
  <2>1. PICK u \in U : TRUE
    OBVIOUS
  <2> DEFINE W == U \ {u}
  <2>2. IsFiniteSet(U)
    BY FS_Subset
  <2>3. W \in SUBSET S /\ Cardinality(W) = n
    <3>1. Cardinality(W) = Cardinality(U) - 1
      BY <2>2, FS_RemoveElement
    <3> QED BY <3>1
  <2>4. W = {} \/ Least(W)
    BY <1>2, <2>3
  <2>5. CASE W = {}
    <3>1. \A y \in U : y = u
      BY <2>5
    <3> QED BY <3>1
  <2>6. CASE Least(W)
    <3>1. PICK x \in W : \A y \in W : v[x] <= v[y]
      BY <2>6
    <3>2. CASE v[x] <= v[u]
      BY <3>1, <3>2
    <3>3. CASE ~(v[x] <= v[u])
      <4>1. v[u] \in Int /\ v[x] \in Int /\ \A y \in W : v[y] \in Int
        OBVIOUS
      <4>2. \A y \in W : v[u] <= v[y]
        BY <3>1, <3>3, <4>1
      <4>3. \A y \in U : v[u] <= v[y]
        BY <4>1, <4>2
      <4> QED BY <4>3
    <3> QED BY <3>2, <3>3
  <2> HIDE DEF Least, W
  <2> QED BY <2>4, <2>5, <2>6
<1>3. Cardinality(S) \in Nat
  BY FS_CardinalityType
<1>4. Cardinality(S) \in G
  <2> HIDE DEF G
  <2> QED BY <1>1, <1>2, <1>3, SetInduction
<1> QED BY <1>4

\* What sorted returns.
IsListing(s, S, v) ==
  /\ s \in [1..Cardinality(S) -> S]
  /\ \A i, j \in 1..Cardinality(S) : i # j => s[i] # s[j]
  /\ \A i, j \in 1..Cardinality(S) : i < j => v[s[i]] >= v[s[j]]

LEMMA SortedExists ==
  ASSUME NEW S, IsFiniteSet(S), NEW v, \A x \in S : v[x] \in Int
  PROVE  \E s : IsListing(s, S, v)
<1> DEFINE G == {n \in Nat : \A U \in SUBSET S : Cardinality(U) = n => \E s : IsListing(s, U, v)}
<1>1. 0 \in G
  <2> SUFFICES ASSUME NEW U \in SUBSET S, Cardinality(U) = 0 PROVE \E s : IsListing(s, U, v)
    OBVIOUS
  <2>1. 1..0 = {}
    OBVIOUS
  <2> DEFINE s == [i \in 1..0 |-> 0]
  <2>2. IsListing(s, U, v)
    BY <2>1 DEF IsListing
  <2> QED BY <2>2
<1>2. ASSUME NEW n \in Nat, n \in G PROVE n + 1 \in G
  <2> SUFFICES ASSUME NEW U \in SUBSET S, Cardinality(U) = n + 1
               PROVE  \E s : IsListing(s, U, v)
    OBVIOUS
  <2>1. IsFiniteSet(U) /\ U # {}
    BY FS_Subset, FS_EmptySet
  <2>2. PICK u \in U : \A y \in U : v[u] <= v[y]
    BY <2>1, LeastExists
  <2> DEFINE W == U \ {u}
  <2>3. W \in SUBSET S /\ Cardinality(W) = n
    <3>1. Cardinality(W) = Cardinality(U) - 1
      BY <2>1, FS_RemoveElement
    <3> QED BY <3>1
  <2>4. PICK s : IsListing(s, W, v)
    BY <1>2, <2>3
  <2>5. /\ \A i \in 1..n : s[i] \in U /\ s[i] # u
        /\ \A i, j \in 1..n : i # j => s[i] # s[j]
        /\ \A i, j \in 1..n : i < j => v[s[i]] >= v[s[j]]
    BY <2>3, <2>4 DEF IsListing
  <2> DEFINE t == [i \in 1..(n + 1) |-> IF i <= n THEN s[i] ELSE u]
  <2>6. \A i \in 1..(n + 1) : i \in 1..n \/ i = n + 1
    OBVIOUS
  <2>7. /\ \A i \in 1..n : i \in 1..(n + 1) /\ t[i] = s[i]
        /\ n + 1 \in 1..(n + 1) /\ t[n + 1] = u
    OBVIOUS
  <2>8. t \in [1..(n + 1) -> U]
    BY <2>5, <2>6
  <2> HIDE DEF t
  <2>9. \A i, j \in 1..(n + 1) : i # j => t[i] # t[j]
    BY <2>5, <2>6, <2>7
  <2>10. ASSUME NEW i \in 1..(n + 1), NEW j \in 1..(n + 1), i < j
         PROVE  v[t[i]] >= v[t[j]]
    <3>1. i \in 1..n
      BY <2>10
    <3>2. CASE j \in 1..n
      BY <2>5, <2>7, <2>10, <3>1, <3>2
    <3>3. CASE j = n + 1
      <4>1. t[i] \in U /\ t[j] = u
        BY <2>5, <2>7, <3>1, <3>3
      <4>2. v[u] <= v[t[i]] /\ v[u] \in Int /\ v[t[i]] \in Int
        BY <2>2, <4>1
      <4> QED BY <4>1, <4>2
    <3> QED BY <2>6, <3>2, <3>3
  <2>11. IsListing(t, U, v)
    BY <2>8, <2>9, <2>10 DEF IsListing
  <2> QED BY <2>11
<1>3. Cardinality(S) \in Nat
  BY FS_CardinalityType
<1>4. Cardinality(S) \in G
  <2> HIDE DEF G
  <2> QED BY <1>1, <1>2, <1>3, SetInduction
<1> QED BY <1>4

\* sorted lists every element once.
LEMMA SortedIs ==
  ASSUME NEW S, IsFiniteSet(S), NEW v, \A x \in S : v[x] \in Int
  PROVE  /\ Cardinality(S) \in Nat /\ Sorted(S, v) \in [1..Cardinality(S) -> S]
         /\ \A x \in S : \E i \in 1..Cardinality(S) : Sorted(S, v)[i] = x
<1> DEFINE n == Cardinality(S)
           s == Sorted(S, v)
<1>0. n \in Nat
  BY FS_CardinalityType
<1>1. IsListing(s, S, v)
  <2>1. PICK t : IsListing(t, S, v)
    BY SortedExists
  <2>2. t \in SetToSeqs(S) /\ \A i, j \in DOMAIN t : i < j => v[t[i]] >= v[t[j]]
    BY <2>1 DEF IsListing, SetToSeqs
  <2>3. s \in SetToSeqs(S) /\ \A i, j \in DOMAIN s : i < j => v[s[i]] >= v[s[j]]
    BY <2>2, Zenon DEF Sorted
  <2> HIDE DEF s
  <2> QED BY <2>3 DEF IsListing, SetToSeqs
<1>2. s \in Injection(1..n, S)
  <2> HIDE DEF s
  <2> QED BY <1>1 DEF IsListing, Injection, IsInjective
<1>3. Cardinality(1..n) = n
  BY <1>0, FS_Interval
<1>4. s \in Surjection(1..n, S)
  <2> HIDE DEF s
  <2> QED BY <1>2, <1>3, FS_Injection
<1>5. \A x \in S : \E i \in 1..n : s[i] = x
  <2> HIDE DEF s
  <2> QED BY <1>4 DEF Surjection
<1> QED BY <1>0, <1>1, <1>5 DEF IsListing

\* The first ones of a list.
LEMMA FirstIs ==
  ASSUME NEW S, NEW n \in Nat, NEW s \in [1..n -> S], NEW limit \in Nat
  PROVE  /\ Len(First(s, limit)) \in Nat
         /\ First(s, limit) \in [1..Len(First(s, limit)) -> S]
         /\ Len(First(s, limit)) < limit => First(s, limit) = s
<1>1. s \in Seq(S) /\ Len(s) = n
  OBVIOUS
<1> DEFINE k == IF n <= limit THEN n ELSE limit
<1>2. k \in Nat /\ k <= n /\ First(s, limit) = SubSeq(s, 1, k)
  BY <1>1 DEF First
<1>3. k < limit => k = n
  BY <1>2
<1> HIDE DEF k
<1> DEFINE t == SubSeq(s, 1, k)
<1>4. t \in Seq(S) /\ Len(t) = k /\ \A i \in 1..k : t[i] = s[i]
  BY <1>1, <1>2
<1> HIDE DEF t
<1>5. t \in [1..k -> S]
  BY <1>4
<1>6. ASSUME k = n PROVE t = s
  BY <1>4, <1>5, <1>6
<1>7. First(s, limit) = t
  BY <1>2 DEF t
<1> QED BY <1>2, <1>3, <1>4, <1>5, <1>6, <1>7

-----------------------------------------------------------------------------
(* Sums                                                                    *)

\* The recursion by which the bars are added up.
SumStep(g, f, U) ==
  IF U = {} THEN 0
  ELSE Count(g, CHOOSE x \in U : TRUE) + f[U \ {CHOOSE x \in U : TRUE}]
IsSum(g, f, B) == f = [U \in SUBSET B |-> SumStep(g, f, U)]

\* What is counted by one of the bars U.
CountedBy(g, U) == {i \in DOMAIN g : g[i] \in U}

LEMMA CountedIs ==
  ASSUME NEW g, IsFiniteSet(DOMAIN g), NEW U, NEW x \in U
  PROVE  /\ Cardinality(CountedBy(g, U)) \in Nat /\ Count(g, x) \in Nat
         /\ Cardinality(CountedBy(g, U)) = Count(g, x) + Cardinality(CountedBy(g, U \ {x}))
<1> DEFINE A == {i \in DOMAIN g : g[i] = x}
           C == CountedBy(g, U \ {x})
<1>1. A \cup C = CountedBy(g, U) /\ A \cap C = {}
  BY DEF CountedBy
<1>2. A \in SUBSET (DOMAIN g) /\ C \in SUBSET (DOMAIN g)
  BY DEF CountedBy
<1>3. IsFiniteSet(A) /\ IsFiniteSet(C)
  BY <1>2, FS_Subset
<1>4. Cardinality(A) \in Nat /\ Cardinality(C) \in Nat
  BY <1>3, FS_CardinalityType
<1>5. Cardinality(A \cup C) = Cardinality(A) + Cardinality(C) - Cardinality(A \cap C)
  BY <1>3, FS_Union
<1>6. Cardinality(A \cap C) = 0
  BY <1>1, FS_EmptySet
<1>7. Count(g, x) = Cardinality(A)
  BY DEF Count
<1> HIDE DEF A, C
<1>8. Cardinality(A \cup C) = Cardinality(A) + Cardinality(C)
  BY <1>4, <1>5, <1>6
<1>9. Cardinality(CountedBy(g, U)) = Cardinality(A) + Cardinality(C)
  BY <1>1, <1>8, Zenon
<1> QED BY <1>4, <1>7, <1>9 DEF C

\* The counts of finitely many bars add up to the number of things they count.
LEMMA TotalIs ==
  ASSUME NEW g, IsFiniteSet(DOMAIN g), NEW B, IsFiniteSet(B)
  PROVE  Total(g, B) = Cardinality(CountedBy(g, B))
<1> DEFINE f == CHOOSE h : h = [U \in SUBSET B |->
                  IF U = {} THEN 0
                  ELSE Count(g, CHOOSE x \in U : TRUE) + h[U \ {CHOOSE x \in U : TRUE}]]
           c == [U \in SUBSET B |-> Cardinality(CountedBy(g, U))]
<1>1. Total(g, B) = f[B]
  BY Zenon DEF Total, MapThenSumSet, MapThenFoldSet
<1>2. ASSUME NEW U \in SUBSET B PROVE c[U] = SumStep(g, c, U)
  <2>1. CASE U = {}
    <3>1. CountedBy(g, {}) = {}
      BY DEF CountedBy
    <3> QED BY <2>1, <3>1, FS_EmptySet DEF SumStep
  <2>2. CASE U # {}
    <3> DEFINE y == CHOOSE x \in U : TRUE
    <3>1. y \in U
      BY <2>2
    <3>2. SumStep(g, c, U) = Count(g, y) + c[U \ {y}]
      BY <2>2 DEF SumStep
    <3> HIDE DEF y
    <3>3. U \ {y} \in SUBSET B
      OBVIOUS
    <3>4. c[U \ {y}] = Cardinality(CountedBy(g, U \ {y}))
      BY <3>3
    <3> QED BY <3>1, <3>2, <3>4, CountedIs
  <2> QED BY <2>1, <2>2
<1>3. IsSum(g, c, B)
  BY <1>2 DEF IsSum
<1>0. c[B] = Cardinality(CountedBy(g, B))
  OBVIOUS
<1> HIDE DEF c
<1>4. IsSum(g, f, B)
  BY <1>3, Zenon DEF IsSum, SumStep
<1> HIDE DEF f
<1>5. \A U \in SUBSET B : f[U] = SumStep(g, f, U)
  BY <1>4, Zenon DEF IsSum
<1> DEFINE G == {n \in Nat : \A U \in SUBSET B : Cardinality(U) = n => f[U] = c[U]}
<1>6. 0 \in G
  <2> SUFFICES ASSUME NEW U \in SUBSET B, Cardinality(U) = 0 PROVE f[U] = c[U]
    OBVIOUS
  <2>1. U = {}
    BY FS_Subset, FS_EmptySet
  <2>2. SumStep(g, f, U) = 0 /\ SumStep(g, c, U) = 0
    BY <2>1 DEF SumStep
  <2> QED BY <1>2, <1>5, <2>2
<1>7. ASSUME NEW n \in Nat, n \in G PROVE n + 1 \in G
  <2> SUFFICES ASSUME NEW U \in SUBSET B, Cardinality(U) = n + 1 PROVE f[U] = c[U]
    OBVIOUS
  <2>1. IsFiniteSet(U) /\ U # {}
    BY FS_Subset, FS_EmptySet
  <2> DEFINE y == CHOOSE x \in U : TRUE
  <2>2. y \in U
    BY <2>1
  <2>3. /\ SumStep(g, c, U) = Count(g, y) + c[U \ {y}]
        /\ SumStep(g, f, U) = Count(g, y) + f[U \ {y}]
    BY <2>1 DEF SumStep
  <2> HIDE DEF y
  <2>4. U \ {y} \in SUBSET B /\ Cardinality(U \ {y}) = n
    <3>1. Cardinality(U \ {y}) = Cardinality(U) - 1
      BY <2>1, <2>2, FS_RemoveElement
    <3> QED BY <3>1
  <2>5. f[U \ {y}] = c[U \ {y}]
    BY <1>7, <2>4
  <2> QED BY <1>2, <1>5, <2>3, <2>5
<1>8. Cardinality(B) \in Nat
  BY FS_CardinalityType
<1>9. Cardinality(B) \in G
  <2> HIDE DEF G
  <2> QED BY <1>6, <1>7, <1>8, SetInduction
<1>10. f[B] = c[B]
  BY <1>9
<1> QED BY <1>1, <1>10, <1>0

\* If every thing has its bar, nothing is missing from the total.
LEMMA TotalIsAll ==
  ASSUME NEW g, IsFiniteSet(DOMAIN g), NEW B, IsFiniteSet(B),
         \A i \in DOMAIN g : g[i] \in B
  PROVE  Total(g, B) = Cardinality(DOMAIN g)
<1>1. CountedBy(g, B) = DOMAIN g
  BY DEF CountedBy
<1> QED BY <1>1, TotalIs

-----------------------------------------------------------------------------
(* Types                                                                   *)

Row == [node : Nodes, hi : BOOLEAN, vis : BOOLEAN]
IsFilter(f) == f.age \in Nat \cup {None} /\ f.type \in BreakdownRows \cup {"All"}

PageType ==
  /\ now \in Nat /\ buffer \in Seq(Observed)
  /\ nodes \in [Nodes -> Snapshots \cup {None}]
  /\ fix \in [Nodes -> Nat \cup {None}] /\ local \in Nodes \cup {None}
  /\ IsFilter(filter)
  /\ rows \in [Panels -> Seq(Row)]

\* A node that was heard, shown or ranked is known, and one that was heard
\* directly was heard at some time.
Known ==
  /\ \A i \in DOMAIN buffer : buffer[i].from # None => nodes[buffer[i].from] # None
  /\ \A p \in Panels : \A i \in DOMAIN rows[p] : nodes[rows[p][i].node] # None
  /\ \A n \in DirectNodes : nodes[n].heard # None

PageInv == PageType /\ Known /\ OneSelection

LEMMA ScopeIsFinite ==
  ASSUME PageType, NEW f
  PROVE  /\ IsFiniteSet(Scope(f)) /\ \A i \in Scope(f) : buffer[i] \in Observed
         /\ DOMAIN buffer = 1..Len(buffer) /\ Len(buffer) \in Nat
<1>1. buffer \in Seq(Observed)
  BY DEF PageType
<1>2. DOMAIN buffer = 1..Len(buffer) /\ Len(buffer) \in Nat
  BY <1>1
<1>3. IsFiniteSet(1..Len(buffer))
  BY <1>2, FS_Interval
<1>4. Scope(f) \in SUBSET (1..Len(buffer))
  BY <1>2 DEF Scope
<1> QED BY <1>1, <1>2, <1>3, <1>4, FS_Subset

\* A count is a number, and counts nothing only when nothing is there.
LEMMA CountIsNat ==
  ASSUME NEW A, IsFiniteSet(A), NEW B \in SUBSET A
  PROVE  Cardinality(B) \in Nat /\ (Cardinality(B) > 0 => B # {})
<1>1. IsFiniteSet(B)
  BY FS_Subset
<1> QED BY <1>1, FS_CardinalityType, FS_EmptySet

\* BestSnr is the value of one of the direct packets.
LEMMA BestSnrIs ==
  ASSUME PageType, NEW f, NEW n, DirectOf(f, n) # {}
  PROVE  BestSnr(f, n) \in Int
<1> DEFINE I == {j \in Scope(f) : buffer[j].from = n /\ IsDirect(buffer[j]) /\ buffer[j].snr # None}
           D == DirectOf(f, n)
           h == [i \in I |-> buffer[i].snr]
           v == [x \in D |-> -x]
<1>1. IsFiniteSet(I)
  BY ScopeIsFinite, FS_Subset
<1>2. \A i \in I : buffer[i].snr \in Int
  BY ScopeIsFinite DEF Observed
<1>3. D = {buffer[i].snr : i \in I}
  BY DEF DirectOf
<1>4. D \subseteq Int
  BY <1>2, <1>3
<1>5. h \in Surjection(I, D)
  <2> HIDE DEF I, D
  <2> QED BY <1>3 DEF Surjection
<1>6. IsFiniteSet(D)
  <2> HIDE DEF I, D, h
  <2> QED BY <1>1, <1>5, FS_Surjection
<1> HIDE DEF D
<1>7. \A x \in D : v[x] \in Int
  BY <1>4
<1>8. D # {}
  BY DEF D
<1>9. PICK x \in D : \A y \in D : v[x] <= v[y]
  <2> HIDE DEF v
  <2> QED BY <1>6, <1>7, <1>8, LeastExists
<1>10. \A y \in D : y <= x
  BY <1>4, <1>9
<1>11. BestSnr(f, n) \in D
  BY <1>10, Zenon DEF BestSnr, D
<1> QED BY <1>4, <1>11

LEMMA RankedIs ==
  ASSUME PageType, Known, NEW f, NEW panel \in Panels
  PROVE  /\ Ranked(f, panel) \subseteq Nodes
         /\ \A n \in Ranked(f, panel) : nodes[n] # None /\ ValueOf(f, panel, n) \in Int
<1>0. panel \in {"heard", "packets", "nearby", "signal", "msgs"}
  BY PageAssumption
<1>1. CASE panel = "heard"
  <2>1. Ranked(f, panel) = {n \in ScopedNodes(f) : nodes[n].heard # None}
    BY <1>1 DEF Ranked
  <2>2. \A n : ValueOf(f, panel, n) = nodes[n].heard
    BY <1>1 DEF ValueOf
  <2> QED BY <2>1, <2>2 DEF ScopedNodes, PageType, Snapshots
<1>2. CASE panel = "packets"
  <2>1. Ranked(f, panel) = {n \in Nodes : PacketsOf(f, n) > 0}
    BY <1>2 DEF Ranked
  <2>2. \A n : ValueOf(f, panel, n) = PacketsOf(f, n)
    BY <1>2 DEF ValueOf
  <2>3. ASSUME NEW n \in Ranked(f, panel) PROVE nodes[n] # None /\ ValueOf(f, panel, n) \in Int
    <3> DEFINE B == {i \in Scope(f) : buffer[i].from = n}
    <3>1. PacketsOf(f, n) = Cardinality(B)
      <4>1. {i \in DOMAIN Senders(f) : Senders(f)[i] = n} = B
        BY DEF Senders
      <4> QED BY <4>1 DEF PacketsOf, Count
    <3>2. Cardinality(B) \in Nat /\ (Cardinality(B) > 0 => B # {})
      BY ScopeIsFinite, CountIsNat
    <3>3. n \in Nodes /\ Cardinality(B) > 0
      BY <2>1, <3>1
    <3>4. PICK i \in Scope(f) : buffer[i].from = n
      BY <3>2, <3>3
    <3>5. n # None
      BY <3>3, PageAssumption
    <3> QED BY <2>2, <3>1, <3>2, <3>4, <3>5 DEF Known, Scope
  <2> QED BY <2>1, <2>3
<1>3. CASE panel = "msgs"
  <2>1. Ranked(f, panel) = {n \in Nodes : MessagesOf(f, n) > 0}
    BY <1>3 DEF Ranked
  <2>2. \A n : ValueOf(f, panel, n) = MessagesOf(f, n)
    BY <1>3 DEF ValueOf
  <2>3. ASSUME NEW n \in Ranked(f, panel) PROVE nodes[n] # None /\ ValueOf(f, panel, n) \in Int
    <3> DEFINE B == {i \in Scope(f) : buffer[i].from = n /\ buffer[i].port = "Text"}
    <3>1. MessagesOf(f, n) = Cardinality(B)
      BY DEF MessagesOf, CountOf
    <3>2. Cardinality(B) \in Nat /\ (Cardinality(B) > 0 => B # {})
      BY ScopeIsFinite, CountIsNat
    <3>3. n \in Nodes /\ Cardinality(B) > 0
      BY <2>1, <3>1
    <3>4. PICK i \in Scope(f) : buffer[i].from = n
      BY <3>2, <3>3
    <3>5. n # None
      BY <3>3, PageAssumption
    <3> QED BY <2>2, <3>1, <3>2, <3>4, <3>5 DEF Known, Scope
  <2> QED BY <2>1, <2>3
<1>4. CASE panel = "signal"
  <2>1. Ranked(f, panel) = {n \in Nodes : DirectOf(f, n) # {}}
    BY <1>4 DEF Ranked
  <2>2. \A n : ValueOf(f, panel, n) = BestSnr(f, n)
    BY <1>4 DEF ValueOf
  <2>3. ASSUME NEW n \in Ranked(f, panel) PROVE nodes[n] # None
    <3>1. n \in Nodes /\ n # None
      BY <2>1, PageAssumption
    <3>2. PICK i \in Scope(f) : buffer[i].from = n
      BY <2>1 DEF DirectOf
    <3> QED BY <3>1, <3>2 DEF Known, Scope
  <2>4. \A n \in Ranked(f, panel) : BestSnr(f, n) \in Int
    BY <2>1, BestSnrIs
  <2> QED BY <2>1, <2>2, <2>3, <2>4
<1>5. CASE panel = "nearby"
  <2>1. \A n \in Ranked(f, panel) : n \in ScopedNodes(f) /\ fix[n] # None
    <3>1. Ranked(f, panel) = IF local = None THEN {}
                             ELSE IF fix[local] = None THEN {}
                             ELSE {n \in ScopedNodes(f) : fix[n] # None /\ n # local}
      BY <1>5 DEF Ranked
    <3> QED BY <3>1
  <2>2. \A n : ValueOf(f, panel, n) = fix[n]
    BY <1>5 DEF ValueOf
  <2> QED BY <2>1, <2>2 DEF ScopedNodes, PageType
<1> QED BY <1>0, <1>1, <1>2, <1>3, <1>4, <1>5

LEMMA ItemsIs ==
  ASSUME PageType, Known, NEW f, NEW panel \in Panels
  PROVE  /\ Len(Items(f, panel)) \in Nat
         /\ Items(f, panel) \in [1..Len(Items(f, panel)) -> {n \in Nodes : nodes[n] # None}]
<1> DEFINE R == Ranked(f, panel)
           S == {n \in Nodes : nodes[n] # None}
           v == [n \in R |-> IF Descending(panel) THEN ValueOf(f, panel, n)
                             ELSE -ValueOf(f, panel, n)]
<1>1. R \subseteq S /\ \A n \in R : ValueOf(f, panel, n) \in Int
  BY RankedIs
<1>2. IsFiniteSet(R)
  <2>1. R \in SUBSET Nodes
    BY <1>1
  <2> QED BY <2>1, PageAssumption, FS_Subset
<1> HIDE DEF R, S
<1>3. \A n \in R : v[n] \in Int
  BY <1>1
<1>4. Items(f, panel) = First(Sorted(R, v), RowLimit)
  BY DEF Items, R
<1> HIDE DEF v
<1>5. Cardinality(R) \in Nat /\ Sorted(R, v) \in [1..Cardinality(R) -> R]
  BY <1>2, <1>3, SortedIs
<1>6. RowLimit \in Nat
  BY PageAssumption
<1>7. /\ Len(First(Sorted(R, v), RowLimit)) \in Nat
      /\ First(Sorted(R, v), RowLimit) \in [1..Len(First(Sorted(R, v), RowLimit)) -> R]
  BY <1>5, <1>6, FirstIs
<1> QED BY <1>1, <1>4, <1>7 DEF S

-----------------------------------------------------------------------------
(* The selection                                                           *)

\* The rows of a panel: they show known nodes, and the visible ones are
\* highlighted when they show the node n.
Follows(pool, n) ==
  /\ pool \in Seq(Row)
  /\ \A i \in DOMAIN pool : nodes[pool[i].node] # None
  /\ \A i \in DOMAIN pool : pool[i].vis => (pool[i].hi <=> pool[i].node = n)

LEMMA RowsFollow ==
  ASSUME PageInv, NEW p \in Panels
  PROVE  Follows(rows[p], selected)
BY DEF PageInv, PageType, Known, OneSelection, Follows

\* update_rows: whatever a row showed before.
LEMMA UpdateRowsFollow ==
  ASSUME PageInv, NEW f, NEW p \in Panels
  PROVE  Follows(UpdateRows(f, p), selected)
<1> DEFINE items == Items(f, p)
           pool == rows[p]
           n == IF Len(items) > Len(pool) THEN Len(items) ELSE Len(pool)
           new == UpdateRows(f, p)
<1>1. /\ Len(items) \in Nat
      /\ \A i \in 1..Len(items) : items[i] \in Nodes /\ nodes[items[i]] # None
  BY ItemsIs DEF PageInv
<1>2. /\ pool \in Seq(Row) /\ \A i \in DOMAIN pool : nodes[pool[i].node] # None
      /\ Len(pool) \in Nat /\ DOMAIN pool = 1..Len(pool)
  BY RowsFollow DEF Follows
<1>3. n \in Nat
  BY <1>1, <1>2
<1>4. new = [i \in 1..n |->
               IF i <= Len(items)
               THEN [node |-> items[i], hi |-> items[i] = selected, vis |-> TRUE]
               ELSE [pool[i] EXCEPT !.vis = FALSE]]
  BY DEF UpdateRows
<1>5. \A i \in 1..n : i \in 1..Len(items) \/ (~(i <= Len(items)) /\ i \in DOMAIN pool)
  BY <1>1, <1>2
<1> HIDE DEF items, pool, n, new
<1>6. DOMAIN new = 1..n
  BY <1>4
<1>7. ASSUME NEW i \in 1..n
      PROVE  /\ new[i] \in Row /\ nodes[new[i].node] # None
             /\ new[i].vis => (new[i].hi <=> new[i].node = selected)
  <2>1. CASE i \in 1..Len(items)
    <3>1. i <= Len(items)
      BY <1>1, <2>1
    <3>2. new[i] = [node |-> items[i], hi |-> items[i] = selected, vis |-> TRUE]
      BY <1>4, <3>1
    <3>3. /\ new[i].node = items[i] /\ new[i].vis = TRUE
          /\ new[i].hi = (items[i] = selected)
      BY <3>2
    <3>4. new[i] \in Row
      BY <1>1, <2>1, <3>2 DEF Row
    <3> QED BY <1>1, <2>1, <3>3, <3>4
  <2>2. CASE ~(i <= Len(items)) /\ i \in DOMAIN pool
    <3>1. new[i] = [pool[i] EXCEPT !.vis = FALSE]
      BY <1>4, <2>2
    <3>2. pool[i] \in Row
      BY <1>2, <2>2
    <3>3. new[i] \in Row /\ new[i].node = pool[i].node /\ new[i].vis = FALSE
      BY <3>1, <3>2 DEF Row
    <3> QED BY <1>2, <2>2, <3>3
  <2> QED BY <1>5, <2>1, <2>2
<1>8. new \in Seq(Row)
  <2>1. new = [i \in 1..n |-> new[i]]
    BY <1>4
  <2> QED BY <1>3, <1>7, <2>1
<1>9. Follows(new, selected)
  BY <1>6, <1>7, <1>8 DEF Follows
<1> QED BY <1>9 DEF new

\* _set_selected_node gives every row its highlight anew.
LEMMA SetSelectedFollow ==
  ASSUME PageInv, NEW n, SetSelected(n), NEW p \in Panels
  PROVE  Follows(rows'[p], n) /\ selected' = n /\ mapSel' = n
<1> DEFINE pool == rows[p]
           new == rows'[p]
<1>1. /\ pool \in Seq(Row) /\ \A i \in DOMAIN pool : nodes[pool[i].node] # None
      /\ Len(pool) \in Nat /\ DOMAIN pool = 1..Len(pool)
  BY RowsFollow DEF Follows
<1>2. new = [i \in DOMAIN pool |-> [pool[i] EXCEPT !.hi = pool[i].node = n]]
  BY DEF SetSelected
<1> HIDE DEF pool, new
<1>3. ASSUME NEW i \in DOMAIN pool
      PROVE  /\ new[i] \in Row /\ nodes[new[i].node] # None
             /\ new[i].hi <=> new[i].node = n
  <2>1. pool[i] \in Row
    BY <1>1
  <2>2. new[i] = [pool[i] EXCEPT !.hi = pool[i].node = n]
    BY <1>2
  <2>3. new[i] \in Row /\ new[i].node = pool[i].node
    BY <2>1, <2>2 DEF Row
  <2>4. new[i].hi = (pool[i].node = n)
    BY <2>1, <2>2 DEF Row
  <2> QED BY <1>1, <2>3, <2>4
<1>4. new \in Seq(Row) /\ DOMAIN new = DOMAIN pool
  <2>1. new = [i \in 1..Len(pool) |-> new[i]]
    BY <1>1, <1>2
  <2> QED BY <1>1, <1>3, <2>1
<1> QED BY <1>3, <1>4 DEF Follows, SetSelected, new

\* The invariant, from the rows and what does not concern them.
LEMMA PageIsKept ==
  ASSUME PageInv, now' \in Nat, buffer' \in Seq(Observed),
         nodes' \in [Nodes -> Snapshots \cup {None}],
         \A n \in Nodes : nodes[n] # None => nodes'[n] # None,
         \A n \in Nodes : nodes'[n] # None /\ nodes'[n].direct => nodes'[n].heard # None,
         \A i \in DOMAIN buffer' : buffer'[i].from # None => nodes'[buffer'[i].from] # None,
         fix' \in [Nodes -> Nat \cup {None}], local' \in Nodes \cup {None},
         IsFilter(filter)',
         rows' = [p \in Panels |-> rows'[p]], \A p \in Panels : Follows(rows'[p], selected'),
         mapSel' = selected', selected' # None => inspected' = selected'
  PROVE  PageInv'
<1>1. ASSUME NEW p \in Panels
      PROVE  /\ rows'[p] \in Seq(Row)
             /\ \A i \in DOMAIN rows'[p] : /\ rows'[p][i].node \in Nodes
                                          /\ nodes[rows'[p][i].node] # None
                                          /\ nodes'[rows'[p][i].node] # None
             /\ \A i \in DOMAIN rows'[p] :
                  rows'[p][i].vis => (rows'[p][i].hi <=> rows'[p][i].node = selected')
  <2>1. /\ rows'[p] \in Seq(Row)
        /\ \A i \in DOMAIN rows'[p] : nodes[rows'[p][i].node] # None
        /\ \A i \in DOMAIN rows'[p] :
             rows'[p][i].vis => (rows'[p][i].hi <=> rows'[p][i].node = selected')
    BY DEF Follows
  <2>2. \A i \in DOMAIN rows'[p] : rows'[p][i] \in Row
    BY <2>1
  <2>3. \A i \in DOMAIN rows'[p] : rows'[p][i].node \in Nodes
    BY <2>2 DEF Row
  <2> QED BY <2>1, <2>3
<1>2. PageType'
  BY <1>1 DEF PageType, Row
<1>3. Known'
  BY <1>1 DEF Known, DirectNodes
<1>4. OneSelection'
  BY <1>1 DEF OneSelection
<1> QED BY <1>2, <1>3, <1>4 DEF PageInv

-----------------------------------------------------------------------------
(* The invariant                                                           *)

LEMMA InitPage == Init => PageInv
<1> SUFFICES ASSUME Init PROVE PageInv
  OBVIOUS
<1>1. PageType
  <2>1. IsFilter(filter)
    BY DEF Init, IsFilter, DefaultFilter, BreakdownRows
  <2> QED BY <2>1 DEF Init, PageType
<1>2. Known
  <2>1. DOMAIN buffer = {} /\ \A p \in Panels : DOMAIN rows[p] = {}
    BY DEF Init
  <2>2. DirectNodes = {}
    BY DEF Init, DirectNodes
  <2> QED BY <2>1, <2>2 DEF Known
<1>3. OneSelection
  BY DEF Init, OneSelection
<1> QED BY <1>1, <1>2, <1>3 DEF PageInv

LEMMA LastNIs ==
  ASSUME NEW S, NEW s \in Seq(S), NEW n \in Nat
  PROVE  LastN(s, n) \in Seq(S) /\ \A i \in DOMAIN LastN(s, n) : \E j \in DOMAIN s : LastN(s, n)[i] = s[j]
<1>1. CASE Len(s) <= n
  BY <1>1 DEF LastN
<1>2. CASE ~(Len(s) <= n)
  <2> DEFINE a == Len(s) - n + 1
             t == SubSeq(s, a, Len(s))
  <2>1. a \in 1..(Len(s) + 1) /\ Len(s) \in Nat /\ DOMAIN s = 1..Len(s)
    BY <1>2
  <2>2. /\ t \in Seq(S) /\ Len(t) = n
        /\ \A i \in 1..n : a + i - 1 \in 1..Len(s) /\ t[i] = s[a + i - 1]
    BY <1>2, <2>1
  <2>3. LastN(s, n) = t
    BY <1>2 DEF LastN
  <2> HIDE DEF t, a
  <2>4. DOMAIN t = 1..n
    BY <2>2
  <2> QED BY <2>1, <2>2, <2>3, <2>4
<1> QED BY <1>1, <1>2

\* A packet: the sender is known from now on, also when the page is paused.
LEMMA PacketStep ==
  ASSUME PageInv, NEW p \in Packets, PacketArrives(p)
  PROVE  PageInv'
<1>1. p \in Observed
  BY PacketsAssumption
<1>2. /\ now \in Nat /\ buffer \in Seq(Observed) /\ nodes \in [Nodes -> Snapshots \cup {None}]
      /\ fix \in [Nodes -> Nat \cup {None}] /\ local \in Nodes \cup {None} /\ IsFilter(filter)
      /\ rows = [q \in Panels |-> rows[q]]
  BY DEF PageInv, PageType
<1>3. /\ UNCHANGED <<now, paused, fix, pins, local, filter, flipped, rows, selected,
                     mapSel, inspected>>
      /\ OnNodeUpdated(p) /\ OnPacketIngested(p)
  BY DEF PacketArrives
<1>4. /\ nodes' \in [Nodes -> Snapshots \cup {None}]
      /\ \A n \in Nodes : nodes[n] # None => nodes'[n] # None
      /\ p.from # None => nodes'[p.from] # None
      /\ \A n \in Nodes : nodes'[n] # None /\ nodes'[n].direct => nodes'[n].heard # None
  <2>0. \A n \in Nodes : nodes[n] # None /\ nodes[n].direct => nodes[n].heard # None
    BY DEF PageInv, Known, DirectNodes
  <2>1. CASE p.from = None
    <3>1. nodes' = nodes
      BY <1>3, <2>1 DEF OnNodeUpdated
    <3> QED BY <1>2, <2>0, <2>1, <3>1
  <2>2. CASE p.from # None
    <3>1. p.from \in Nodes
      BY <1>1, <2>2 DEF Observed
    <3> DEFINE old == IF nodes[p.from] = None THEN Unheard ELSE nodes[p.from]
               new == [heard |-> now, direct |-> IsDirect(p),
                       role |-> IF p.role # None THEN p.role ELSE old.role,
                       hw |-> IF p.hw # None THEN p.hw ELSE old.hw]
    <3>2. nodes' = [nodes EXCEPT ![p.from] = new]
      BY <1>3, <2>2 DEF OnNodeUpdated
    <3>3. old.role \in STRING \cup {None} /\ old.hw \in STRING \cup {None}
      BY <1>2, <3>1 DEF Unheard, Snapshots
    <3>4. IsDirect(p) \in BOOLEAN
      BY DEF IsDirect
    <3> HIDE DEF old
    <3>5. new \in Snapshots /\ new.heard = now
      BY <1>1, <1>2, <3>3, <3>4 DEF Snapshots, Observed
    <3> HIDE DEF new
    <3>6. new # None /\ now # None
      BY <1>2, <3>5, NoneAssumption, PageAssumption
    <3>7. nodes'[p.from] = new /\ \A n \in Nodes : n # p.from => nodes'[n] = nodes[n]
      BY <1>2, <3>1, <3>2
    <3>8. nodes' \in [Nodes -> Snapshots \cup {None}]
      BY <1>2, <3>2, <3>5
    <3> QED BY <2>0, <3>5, <3>6, <3>7, <3>8
  <2> QED BY <2>1, <2>2
<1>5. /\ buffer' \in Seq(Observed)
      /\ \A i \in DOMAIN buffer' : buffer'[i].from # None => nodes'[buffer'[i].from] # None
  <2>1. \A i \in DOMAIN buffer : buffer[i].from \in Nodes \cup {None}
    <3>1. \A i \in DOMAIN buffer : buffer[i] \in Observed
      BY <1>2
    <3> QED BY <3>1 DEF Observed
  <2>2. \A i \in DOMAIN buffer : buffer[i].from # None => nodes'[buffer[i].from] # None
    BY <1>4, <2>1 DEF PageInv, Known
  <2>3. CASE paused
    <3>1. buffer' = buffer
      BY <1>3, <2>3 DEF OnPacketIngested
    <3> QED BY <1>2, <2>2, <3>1
  <2>4. CASE ~paused
    <3> DEFINE x == [p EXCEPT !.at = now]
               more == Append(buffer, x)
    <3>1. x \in Observed /\ x.from = p.from
      BY <1>1, <1>2 DEF Observed
    <3>2. buffer' = LastN(more, BufMax)
      BY <1>3, <2>4 DEF OnPacketIngested
    <3> HIDE DEF x
    <3>3. /\ more \in Seq(Observed)
          /\ \A i \in DOMAIN more : more[i] = x \/ \E j \in DOMAIN buffer : more[i] = buffer[j]
      BY <1>2, <3>1
    <3> HIDE DEF more
    <3>4. BufMax \in Nat
      BY PageAssumption
    <3>5. /\ buffer' \in Seq(Observed)
          /\ \A i \in DOMAIN buffer' : \E j \in DOMAIN more : buffer'[i] = more[j]
      BY <3>2, <3>3, <3>4, LastNIs
    <3>6. \A j \in DOMAIN more : more[j].from # None => nodes'[more[j].from] # None
      BY <1>4, <2>2, <3>1, <3>3
    <3> QED BY <3>5, <3>6
  <2> QED BY <2>3, <2>4
<1>6. /\ \A q \in Panels : Follows(rows'[q], selected')
      /\ mapSel' = selected' /\ (selected' # None => inspected' = selected')
  BY <1>3, RowsFollow DEF PageInv, OneSelection
<1>7. IsFilter(filter)'
  BY <1>2, <1>3 DEF IsFilter
<1> QED BY <1>2, <1>3, <1>4, <1>5, <1>6, <1>7, PageIsKept

LEMMA PositionStep ==
  ASSUME PageInv, NEW n \in Nodes, NEW d \in Fixes, PositionArrives(n, d)
  PROVE  PageInv'
<1>1. /\ now \in Nat /\ buffer \in Seq(Observed) /\ nodes \in [Nodes -> Snapshots \cup {None}]
      /\ fix \in [Nodes -> Nat \cup {None}] /\ local \in Nodes \cup {None} /\ IsFilter(filter)
      /\ rows = [q \in Panels |-> rows[q]]
  BY DEF PageInv, PageType
<1>2. /\ UNCHANGED <<now, buffer, local, filter, rows, selected, mapSel, inspected>>
      /\ nodes' = [nodes EXCEPT ![n] = IF nodes[n] = None THEN Unheard ELSE nodes[n]]
      /\ fix' = [fix EXCEPT ![n] = d]
  BY DEF PositionArrives
<1>3. Unheard \in Snapshots /\ Unheard # None /\ Unheard.direct = FALSE
  <2>1. Unheard \in Snapshots
    BY DEF Unheard, Snapshots
  <2>2. Unheard.direct = FALSE
    BY DEF Unheard
  <2> QED BY <2>1, <2>2, NoneAssumption
<1>4. /\ nodes' \in [Nodes -> Snapshots \cup {None}]
      /\ \A m \in Nodes : nodes[m] # None => nodes'[m] # None
      /\ \A m \in Nodes : nodes'[m] = nodes[m] \/ nodes'[m] = Unheard
  BY <1>1, <1>2, <1>3
<1>5. \A m \in Nodes : nodes'[m] # None /\ nodes'[m].direct => nodes'[m].heard # None
  BY <1>3, <1>4 DEF PageInv, Known, DirectNodes
<1>6. \A i \in DOMAIN buffer' : buffer'[i].from # None => nodes'[buffer'[i].from] # None
  <2>1. \A i \in DOMAIN buffer : buffer[i] \in Observed
    BY <1>1
  <2> QED BY <1>2, <1>4, <2>1 DEF PageInv, Known, Observed
<1>7. fix' \in [Nodes -> Nat \cup {None}]
  BY <1>1, <1>2, PageAssumption
<1>8. /\ \A q \in Panels : Follows(rows'[q], selected')
      /\ mapSel' = selected' /\ (selected' # None => inspected' = selected')
  BY <1>2, RowsFollow DEF PageInv, OneSelection
<1>9. IsFilter(filter)'
  BY <1>1, <1>2 DEF IsFilter
<1> QED BY <1>1, <1>2, <1>4, <1>5, <1>6, <1>7, <1>8, <1>9, PageIsKept

\* Steps that leave packets, nodes and positions alone.
LEMMA RowsStep ==
  ASSUME PageInv, UNCHANGED <<buffer, nodes, fix>>, now' \in Nat, local' \in Nodes \cup {None},
         IsFilter(filter)', rows' = [p \in Panels |-> rows'[p]],
         \A p \in Panels : Follows(rows'[p], selected'),
         mapSel' = selected', selected' # None => inspected' = selected'
  PROVE  PageInv'
<1>1. /\ buffer \in Seq(Observed) /\ nodes \in [Nodes -> Snapshots \cup {None}]
      /\ fix \in [Nodes -> Nat \cup {None}]
  BY DEF PageInv, PageType
<1>2. /\ \A n \in Nodes : nodes[n] # None /\ nodes[n].direct => nodes[n].heard # None
      /\ \A i \in DOMAIN buffer : buffer[i].from # None => nodes[buffer[i].from] # None
  BY DEF PageInv, Known, DirectNodes
<1> QED BY <1>1, <1>2, PageIsKept

\* Steps that leave rows and selection alone as well.
LEMMA QuietStep ==
  ASSUME PageInv, UNCHANGED <<buffer, nodes, fix, filter, rows, selected, mapSel, inspected>>,
         now' \in Nat, local' \in Nodes \cup {None}
  PROVE  PageInv'
<1>1. IsFilter(filter)' /\ rows' = [p \in Panels |-> rows'[p]]
  BY DEF PageInv, PageType, IsFilter
<1>2. /\ \A q \in Panels : Follows(rows'[q], selected')
      /\ mapSel' = selected' /\ (selected' # None => inspected' = selected')
  BY RowsFollow DEF PageInv, OneSelection
<1> QED BY <1>1, <1>2, RowsStep

\* A selected node that is known is shown by the inspector.
LEMMA SelectStep ==
  ASSUME PageInv, NEW n \in Nodes, nodes[n] # None, Select(n),
         UNCHANGED <<now, buffer, nodes, fix, local, filter>>
  PROVE  PageInv'
<1>1. SetSelected(n) /\ inspected' = n
  BY DEF Select, ShowNode
<1>2. now \in Nat /\ local \in Nodes \cup {None} /\ IsFilter(filter)'
  BY DEF PageInv, PageType, IsFilter
<1>3. rows' = [p \in Panels |-> rows'[p]]
  BY <1>1 DEF SetSelected
<1>4. selected' = n /\ mapSel' = n
  BY <1>1 DEF SetSelected
<1>5. \A p \in Panels : Follows(rows'[p], selected')
  BY <1>1, <1>4, SetSelectedFollow
<1> QED BY <1>1, <1>2, <1>3, <1>4, <1>5, RowsStep

LEMMA NextPage == PageInv /\ [Next]_vars => PageInv'
<1> SUFFICES ASSUME PageInv, [Next]_vars PROVE PageInv'
  OBVIOUS
<1>0. /\ now \in Nat /\ local \in Nodes \cup {None} /\ IsFilter(filter)
      /\ rows \in [Panels -> Seq(Row)]
  BY DEF PageInv, PageType
<1>1. ASSUME NEW p \in Packets, PacketArrives(p) PROVE PageInv'
  BY <1>1, PacketStep
<1>2. ASSUME NEW n \in Nodes, NEW d \in Fixes, PositionArrives(n, d) PROVE PageInv'
  BY <1>2, PositionStep
<1>3. ASSUME NEW n \in Radios, Connected(n) PROVE PageInv'
  BY <1>0, <1>3, QuietStep, PageAssumption DEF Connected
<1>4. CASE Disconnected
  <2>1. /\ SetSelected(None) /\ local' = None
        /\ UNCHANGED <<now, buffer, nodes, fix, filter, inspected>>
    BY <1>4 DEF Disconnected
  <2>2. rows' = [p \in Panels |-> rows'[p]] /\ selected' = None /\ mapSel' = None
    BY <2>1 DEF SetSelected
  <2>3. \A p \in Panels : Follows(rows'[p], selected')
    BY <2>1, <2>2, SetSelectedFollow
  <2>4. IsFilter(filter)'
    BY <1>0, <2>1 DEF IsFilter
  <2> QED BY <1>0, <2>1, <2>2, <2>3, <2>4, RowsStep
<1>5. CASE Refresh
  <2>1. /\ rows' = [p \in Panels |-> UpdateRows(filter, p)]
        /\ UNCHANGED <<now, buffer, nodes, fix, local, filter, selected, mapSel, inspected>>
    BY <1>5 DEF Refresh
  <2>2. \A p \in Panels : Follows(rows'[p], selected')
    BY <2>1, UpdateRowsFollow
  <2>3. rows' = [p \in Panels |-> rows'[p]]
    BY <2>1
  <2>4. IsFilter(filter)' /\ mapSel' = selected' /\ (selected' # None => inspected' = selected')
    BY <1>0, <2>1 DEF IsFilter, PageInv, OneSelection
  <2> QED BY <1>0, <2>1, <2>2, <2>3, <2>4, RowsStep
<1>6. ASSUME NEW f \in Filters, FilterChanged(f) PROVE PageInv'
  <2>1. /\ rows' = [p \in Panels |-> UpdateRows(f, p)] /\ filter' = f
        /\ UNCHANGED <<now, buffer, nodes, fix, local, selected, mapSel, inspected>>
    BY <1>6 DEF FilterChanged
  <2>2. \A p \in Panels : Follows(rows'[p], selected')
    BY <2>1, UpdateRowsFollow
  <2>3. rows' = [p \in Panels |-> rows'[p]]
    BY <2>1
  <2>4. IsFilter(filter)'
    BY <2>1, FiltersAssumption DEF IsFilter, BreakdownRows
  <2>5. mapSel' = selected' /\ (selected' # None => inspected' = selected')
    BY <2>1 DEF PageInv, OneSelection
  <2> QED BY <1>0, <2>1, <2>2, <2>3, <2>4, <2>5, RowsStep
<1>7. ASSUME NEW p \in Flippable, Flip(p) PROVE PageInv'
  BY <1>0, <1>7, QuietStep DEF Flip
<1>8. ASSUME NEW p \in Panels, NEW i \in DOMAIN rows[p], ClickRow(p, i) PROVE PageInv'
  <2>1. rows[p][i] \in Row
    BY <1>0
  <2>2. rows[p][i].node \in Nodes /\ nodes[rows[p][i].node] # None
    BY <2>1 DEF Row, PageInv, Known
  <2>3. /\ Select(rows[p][i].node)
        /\ UNCHANGED <<now, buffer, nodes, fix, local, filter>>
    BY <1>8 DEF ClickRow
  <2> QED BY <2>2, <2>3, SelectStep
<1>9. ASSUME NEW n \in Nodes, ShowOnMap(n) PROVE PageInv'
  BY <1>9, SelectStep DEF ShowOnMap
<1>10. CASE TogglePause
  BY <1>0, <1>10, QuietStep DEF TogglePause
<1>11. CASE ClearLog
  BY <1>0, <1>11, QuietStep DEF ClearLog
<1>12. CASE Tick
  BY <1>0, <1>12, QuietStep DEF Tick
<1>13. CASE UNCHANGED vars
  BY <1>0, <1>13, QuietStep DEF vars
<1> QED
  BY <1>1, <1>2, <1>3, <1>4, <1>5, <1>6, <1>7, <1>8, <1>9, <1>10, <1>11, <1>12, <1>13 DEF Next

(* The page's types, and that only known nodes are counted, shown and      *)
(* selected.                                                               *)
THEOREM PageInvariant == Spec => []PageInv
BY InitPage, NextPage, PTL DEF Spec

(* MonitorPage._set_selected_node and RankingsPanel.update_rows: one node  *)
(* is selected everywhere or none is.                                      *)
THEOREM OneNodeIsSelected == Spec => []OneSelection
<1>1. PageInv => OneSelection
  BY DEF PageInv
<1> QED BY <1>1, PageInvariant, PTL

-----------------------------------------------------------------------------
(* Agreement of the panels                                                 *)

\* If every packet in scope has its bar, the bars of a panel add up.
LEMMA BarsAddUp ==
  ASSUME PageInv, NEW f, NEW g, DOMAIN g = Scope(f), NEW B, IsFiniteSet(B),
         \A i \in Scope(f) : g[i] \in B
  PROVE  Total(g, B) = Cardinality(Scope(f))
<1>1. IsFiniteSet(DOMAIN g)
  BY ScopeIsFinite DEF PageInv
<1> QED BY <1>1, TotalIsAll

\* BreakdownRow, HopBar, PercentBar: every packet has a bar the panel has.
LEMMA BreakdownRowIs ==
  ASSUME NEW p \in Observed
  PROVE  BreakdownRow(p) \in BreakdownRows
<1>1. PacketCategory(p) \in Labelled \cup {"Encrypted/Undecoded", "Unknown Port", "Other Known"}
  <2>1. p.pki \in BOOLEAN
    BY DEF Observed
  <2>2. CASE p.pki
    BY <2>2 DEF PacketCategory
  <2>3. CASE ~p.pki /\ p.port = None
    BY <2>3 DEF PacketCategory
  <2>4. CASE ~p.pki /\ p.port # None /\ p.port \in Labelled
    BY <2>4 DEF PacketCategory
  <2>5. CASE ~p.pki /\ p.port # None /\ p.port \notin Labelled
    BY <2>5 DEF PacketCategory
  <2> QED BY <2>1, <2>2, <2>3, <2>4, <2>5
<1> QED BY <1>1 DEF BreakdownRow, BreakdownRows

LEMMA HopBarIs == ASSUME NEW p \in Observed PROVE HopBar(p) \in HopBars
<1>1. p.hops \in Nat \cup {None}
  BY DEF Observed
<1> QED BY <1>1 DEF HopBar, HopBars

LEMMA PercentBarIs == ASSUME NEW p \in Observed PROVE PercentBar(p) \in PercentBars
<1>1. p.hops \in Nat \cup {None} /\ p.start \in Nat \cup {None}
  BY DEF Observed
<1>2. CASE p.hops = None \/ p.start = None
  BY <1>2 DEF PercentBar, PercentBars
<1>3. CASE p.hops # None /\ p.start # None
  <2> DEFINE h == p.hops
             s == p.start
  <2>1. h \in Nat /\ s \in Nat
    BY <1>1, <1>3
  <2>2. CASE s = 0
    BY <1>3, <2>2 DEF PercentBar, PercentBars
  <2>3. CASE s # 0
    <3>1. PercentBar(p) =
            CASE h = 0                              -> "0%"
              [] 0 < h /\ 4 * h < s                 -> "1-24%"
              [] 4 * h >= s /\ 2 * h < s            -> "25-49%"
              [] 2 * h >= s /\ 4 * h < 3 * s        -> "50-74%"
              [] 4 * h >= 3 * s /\ h < s            -> "75-99%"
              [] OTHER                              -> "100%"
      BY <1>3, <2>3 DEF PercentBar
    <3> HIDE DEF h, s
    <3>2. PercentBar(p) \in {"0%", "1-24%", "25-49%", "50-74%", "75-99%", "100%"}
      BY <2>1, <3>1
    <3> QED BY <3>2 DEF PercentBars
  <2> QED BY <2>2, <2>3
<1> QED BY <1>2, <1>3

\* While the bars fit, the node panels show them all.
LEMMA MostCommonIs ==
  ASSUME NEW g, IsFiniteSet(DOMAIN g), Len(MostCommon(g)) < BarLimit
  PROVE  Total(g, Range(MostCommon(g))) = Cardinality(DOMAIN g)
<1> DEFINE R == Range(g)
           c == [x \in R |-> Count(g, x)]
           s == Sorted(R, c)
<1>2. IsFiniteSet(R)
  <2> DEFINE h == [i \in DOMAIN g |-> g[i]]
  <2>1. h \in Surjection(DOMAIN g, R)
    BY DEF Surjection, Range
  <2> HIDE DEF h, R
  <2> QED BY <2>1, FS_Surjection
<1>3. \A x \in R : c[x] \in Int
  <2>1. ASSUME NEW x \in R PROVE Count(g, x) \in Int
    <3>1. {i \in DOMAIN g : g[i] = x} \in SUBSET (DOMAIN g)
      OBVIOUS
    <3> QED BY <3>1, CountIsNat DEF Count
  <2> QED BY <2>1
<1>4. MostCommon(g) = First(s, BarLimit)
  BY DEF MostCommon
<1> HIDE DEF c, R
<1>5. /\ Cardinality(R) \in Nat /\ s \in [1..Cardinality(R) -> R]
      /\ \A x \in R : \E i \in 1..Cardinality(R) : s[i] = x
  BY <1>2, <1>3, SortedIs
<1> HIDE DEF s
<1>6. BarLimit \in Nat
  BY PageAssumption
<1>7. MostCommon(g) = s
  BY <1>4, <1>5, <1>6, FirstIs
<1>8. Range(s) = R
  BY <1>5 DEF Range
<1>9. \A i \in DOMAIN g : g[i] \in R
  BY DEF R, Range
<1> QED BY <1>2, <1>7, <1>8, <1>9, TotalIsAll

LEMMA ScopedIsFinite == IsFiniteSet(ScopedNodes(filter))
<1>1. ScopedNodes(filter) \in SUBSET Nodes
  BY DEF ScopedNodes
<1> QED BY <1>1, PageAssumption, FS_Subset

\* The channels shown are those the packets use.
LEMMA ChannelsAddUp ==
  ASSUME PageInv
  PROVE  Total([i \in Scope(filter) |-> ChannelBar(buffer[i])], ChannelBars(filter))
           = Cardinality(Scope(filter))
<1> DEFINE g == [i \in Scope(filter) |-> ChannelBar(buffer[i])]
<1>1. g \in Surjection(Scope(filter), ChannelBars(filter))
  BY DEF Surjection, ChannelBars
<1>2. IsFiniteSet(Scope(filter))
  BY ScopeIsFinite DEF PageInv
<1>3. DOMAIN g = Scope(filter) /\ \A i \in Scope(filter) : g[i] \in ChannelBars(filter)
  BY DEF ChannelBars
<1> HIDE DEF g
<1>4. IsFiniteSet(ChannelBars(filter))
  BY <1>1, <1>2, FS_Surjection
<1>5. Total(g, ChannelBars(filter)) = Cardinality(Scope(filter))
  BY <1>3, <1>4, BarsAddUp
<1> QED BY <1>5 DEF g

\* The role panel's rows of infrastructure roles count the card's nodes.
LEMMA InfraAddsUp ==
  PageInv => Cardinality(InfraNodes(filter)) = Total(Roles(filter), InfraRoles)
<1>1. IsFiniteSet(InfraRoles)
  <2>1. InfraRoles = {"ROUTER"} \cup {"ROUTER_LATE"} \cup {"CLIENT_BASE"} \cup {"ROUTER_CLIENT"}
                     \cup {"REPEATER"}
    BY DEF InfraRoles
  <2> QED BY <2>1, FS_Singleton, FS_Union
<1>2. IsFiniteSet(DOMAIN Roles(filter))
  BY ScopedIsFinite DEF Roles
<1>3. "UNKNOWN" \notin InfraRoles /\ None \notin InfraRoles
  BY NoneAssumption DEF InfraRoles
<1>4. CountedBy(Roles(filter), InfraRoles) = InfraNodes(filter)
  BY <1>3 DEF CountedBy, Roles, RoleBar, InfraNodes
<1> QED BY <1>1, <1>2, <1>4, TotalIs

\* The packets ranking counts every packet that names its sender.
LEMMA SendersAddUp ==
  ASSUME PageInv
  PROVE  Total(Senders(filter), Ranked(filter, "packets")) + Count(Senders(filter), None)
           = Cardinality(Scope(filter))
<1> DEFINE g == Senders(filter)
           R == Ranked(filter, "packets")
           N == {i \in DOMAIN g : g[i] = None}
           K == CountedBy(g, R)
<1>1. /\ IsFiniteSet(Scope(filter)) /\ \A i \in Scope(filter) : buffer[i] \in Observed
      /\ DOMAIN g = Scope(filter) /\ \A i \in Scope(filter) : g[i] = buffer[i].from
  BY ScopeIsFinite DEF PageInv, Senders
<1>2. R = {n \in Nodes : PacketsOf(filter, n) > 0}
  BY DEF Ranked
<1> HIDE DEF g, R
<1>3. IsFiniteSet(R)
  <2>1. R \in SUBSET Nodes
    BY <1>2
  <2> QED BY <2>1, PageAssumption, FS_Subset
<1>4. Total(g, R) = Cardinality(K)
  BY <1>1, <1>3, TotalIs
<1>5. K \cap N = {}
  BY <1>2, PageAssumption DEF CountedBy
<1>6. K \cup N = Scope(filter)
  <2>1. K \subseteq Scope(filter) /\ N \subseteq Scope(filter)
    BY <1>1 DEF CountedBy
  <2>2. ASSUME NEW i \in Scope(filter), g[i] # None PROVE i \in K
    <3> DEFINE A == {j \in DOMAIN g : g[j] = g[i]}
    <3>1. g[i] \in Nodes
      BY <1>1, <2>2 DEF Observed
    <3>2. A \in SUBSET Scope(filter) /\ A # {}
      BY <1>1
    <3>3. IsFiniteSet(A) /\ Cardinality(A) \in Nat
      BY <1>1, <3>2, FS_Subset, CountIsNat
    <3>4. Cardinality(A) # 0
      BY <3>2, <3>3, FS_EmptySet
    <3>5. PacketsOf(filter, g[i]) = Cardinality(A)
      BY DEF PacketsOf, Count, g
    <3> HIDE DEF A
    <3>6. g[i] \in R
      BY <1>2, <3>1, <3>3, <3>4, <3>5
    <3> QED BY <1>1, <3>6 DEF CountedBy
  <2> QED BY <1>1, <2>1, <2>2
<1>7. K \in SUBSET Scope(filter) /\ N \in SUBSET Scope(filter)
  BY <1>6
<1>8. /\ IsFiniteSet(K) /\ Cardinality(K) \in Nat
      /\ IsFiniteSet(N) /\ Cardinality(N) \in Nat
  BY <1>1, <1>7, FS_Subset, CountIsNat
<1>9. Cardinality(K \cup N) = Cardinality(K) + Cardinality(N) - Cardinality(K \cap N)
  BY <1>8, FS_Union
<1>10. Cardinality(K \cap N) = 0
  BY <1>5, FS_EmptySet
<1>11. Count(g, None) = Cardinality(N)
  BY DEF Count
<1> HIDE DEF K, N
<1>12. Cardinality(K \cup N) = Cardinality(K) + Cardinality(N)
  BY <1>8, <1>9, <1>10
<1>13. Cardinality(Scope(filter)) = Total(g, R) + Count(g, None)
  BY <1>4, <1>6, <1>11, <1>12
<1> QED BY <1>13 DEF g, R

\* Under a type filter every packet in scope is of that row.
LEMMA TypeIsRow ==
  ASSUME PageInv, filter.type # "All"
  PROVE  Breakdown(filter, filter.type) = Cardinality(Scope(filter))
<1>1. filter.type \in BreakdownRows
  BY DEF PageInv, PageType, IsFilter
<1>2. ASSUME NEW i \in Scope(filter) PROVE BreakdownRow(buffer[i]) = filter.type
  <2>1. MatchesType(buffer[i], filter.type)
    BY <1>2 DEF Scope, InScope
  <2>2. CASE filter.type = "Unknown/Encrypted"
    BY <2>1, <2>2 DEF MatchesType, BreakdownRow
  <2>3. CASE filter.type # "Unknown/Encrypted"
    <3>1. PacketCategory(buffer[i]) = filter.type
      BY <2>1, <2>3 DEF MatchesType
    <3>2. filter.type \notin {"Unknown Port", "Encrypted/Undecoded"}
      BY <1>1 DEF BreakdownRows, Labelled
    <3> QED BY <3>1, <3>2 DEF BreakdownRow
  <2> QED BY <2>2, <2>3
<1>3. {i \in Scope(filter) : BreakdownRow(buffer[i]) = filter.type} = Scope(filter)
  BY <1>2
<1> QED BY <1>3 DEF Breakdown, CountOf

LEMMA ActiveIsHeard ==
  ASSUME PageInv, filter.age # None
  PROVE  ActiveNodes(filter) = Ranked(filter, "heard")
<1>1. filter.age \in Nat /\ now \in Nat
  BY DEF PageInv, PageType, IsFilter
<1>2. \A n \in ScopedNodes(filter) :
        nodes[n].heard # None => nodes[n].heard \in Nat /\ nodes[n].heard >= now - filter.age
  BY <1>1 DEF PageInv, PageType, ScopedNodes, Snapshots
<1>3. Ranked(filter, "heard") = {n \in ScopedNodes(filter) : nodes[n].heard # None}
  BY DEF Ranked
<1>4. ASSUME NEW n \in ScopedNodes(filter), nodes[n].heard # None
      PROVE  now - nodes[n].heard <= IF filter.age = None THEN 1 ELSE filter.age
  BY <1>1, <1>2, <1>4
<1> QED BY <1>3, <1>4 DEF ActiveNodes

LEMMA PanelsDoAgree == PageInv => PanelsAgree
<1> SUFFICES ASSUME PageInv PROVE PanelsAgree
  OBVIOUS
<1> DEFINE S == Scope(filter)
           total == Cardinality(S)
<1>0. \A i \in S : buffer[i] \in Observed
  BY ScopeIsFinite DEF PageInv
<1>1. Total([i \in S |-> BreakdownRow(buffer[i])], BreakdownRows) = total
  <2>1. IsFiniteSet(BreakdownRows)
    <3>1. BreakdownRows = {"Text"} \cup {"Position"} \cup {"Node Info"} \cup {"Other Known"}
                          \cup {"Unknown/Encrypted"}
      BY DEF BreakdownRows, Labelled
    <3> QED BY <3>1, FS_Singleton, FS_Union
  <2> DEFINE g == [i \in S |-> BreakdownRow(buffer[i])]
  <2>2. DOMAIN g = S /\ \A i \in S : g[i] \in BreakdownRows
    BY <1>0, BreakdownRowIs
  <2> HIDE DEF g
  <2>3. Total(g, BreakdownRows) = total
    BY <2>1, <2>2, BarsAddUp
  <2> QED BY <2>3 DEF g
<1>2. Total([i \in S |-> HopBar(buffer[i])], HopBars) = total
  <2>1. IsFiniteSet(HopBars)
    <3>0. 0 \in Int /\ 5 \in Int
      OBVIOUS
    <3>1. IsFiniteSet(0..5) /\ IsFiniteSet({None})
      BY <3>0, FS_Interval, FS_Singleton
    <3>2. IsFiniteSet((0..5) \cup {None})
      BY <3>1, FS_Union
    <3> QED BY <3>2 DEF HopBars
  <2> DEFINE g == [i \in S |-> HopBar(buffer[i])]
  <2>2. DOMAIN g = S /\ \A i \in S : g[i] \in HopBars
    BY <1>0, HopBarIs
  <2> HIDE DEF g
  <2>3. Total(g, HopBars) = total
    BY <2>1, <2>2, BarsAddUp
  <2> QED BY <2>3 DEF g
<1>3. Total([i \in S |-> PercentBar(buffer[i])], PercentBars) = total
  <2>1. IsFiniteSet(PercentBars)
    <3>1. PercentBars = {"0%"} \cup {"1-24%"} \cup {"25-49%"} \cup {"50-74%"} \cup {"75-99%"}
                        \cup {"100%"} \cup {"Unknown"}
      BY DEF PercentBars
    <3> QED BY <3>1, FS_Singleton, FS_Union
  <2> DEFINE g == [i \in S |-> PercentBar(buffer[i])]
  <2>2. DOMAIN g = S /\ \A i \in S : g[i] \in PercentBars
    BY <1>0, PercentBarIs
  <2> HIDE DEF g
  <2>3. Total(g, PercentBars) = total
    BY <2>1, <2>2, BarsAddUp
  <2> QED BY <2>3 DEF g
<1>4. /\ DOMAIN Roles(filter) = ScopedNodes(filter)
      /\ DOMAIN Hardware(filter) = ScopedNodes(filter)
  BY DEF Roles, Hardware
<1>5. /\ Len(MostCommon(Roles(filter))) < BarLimit =>
           Total(Roles(filter), Range(MostCommon(Roles(filter)))) = Cardinality(ScopedNodes(filter))
      /\ Len(MostCommon(Hardware(filter))) < BarLimit =>
           Total(Hardware(filter), Range(MostCommon(Hardware(filter))))
             = Cardinality(ScopedNodes(filter))
  BY <1>4, ScopedIsFinite, MostCommonIs
<1>6. \A n \in DirectNodes : nodes[n].heard # None
  BY DEF PageInv, Known
<1> QED
  BY <1>1, <1>2, <1>3, <1>5, <1>6, ChannelsAddUp, InfraAddsUp, SendersAddUp, TypeIsRow,
     ActiveIsHeard DEF PanelsAgree

(* _refresh_rankings and the panels it feeds: every statistic is about the *)
(* same packets and nodes.                                                 *)
THEOREM StatisticsAgree == Spec => []PanelsAgree
BY PanelsDoAgree, PageInvariant, PTL
=============================================================================
