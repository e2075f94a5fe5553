-------------------------- MODULE MapPacks_proofs --------------------------
(***************************************************************************)
(* The offline basemap, for any packs, request threads, cache size and     *)
(* geometry.  First the lists: what Kept keeps and in which order (by      *)
(* induction on the length), that discovery's sort has a result (by        *)
(* induction on the number of packs), and that the candidates of a tile    *)
(* are the packs that cover it, the better one first.  Then the invariant: *)
(* page and server agree, a request stands at a candidate before which     *)
(* none has data, a cache entry is true of its pack and of the style under *)
(* which it can still be found.  Last the other user of the packs: the     *)
(* queue of setup regions is driven.                                       *)
(***************************************************************************)
EXTENDS TileServer, Provisioning, SequenceTheorems, FiniteSetTheorems,
        WellFoundedInduction, TLAPS

-----------------------------------------------------------------------------
(* Induction, for a set instead of a predicate                             *)

LEMMA LeastNat ==
  ASSUME NEW T \in SUBSET Nat, T # {}
  PROVE  \E x \in T : \A y \in T : x <= y
<1> DEFINE R == {ss \in Nat \X Nat : ss[1] < ss[2]}
<1>1. IsWellFoundedOn(R, Nat)
  BY NatLessThanWellFounded DEF OpToRel
<1>2. \A x, y \in Nat : x < y => <<x, y>> \in R
  OBVIOUS
<1> HIDE DEF R
<1>3. PICK x \in T : \A y \in T : ~(<<y, x>> \in R)
  BY <1>1, WFMin
<1>4. ASSUME NEW y \in T PROVE x <= y
  <2>1. x \in Nat /\ y \in Nat
    OBVIOUS
  <2>2. ~(y < x)
    BY <1>2, <1>3, <2>1
  <2> QED BY <2>1, <2>2
<1> QED BY <1>4

LEMMA SetInduction ==
  ASSUME NEW S, 0 \in S, \A n \in Nat : n \in S => n + 1 \in S
  PROVE  Nat \subseteq S
<1> SUFFICES ASSUME Nat \ S # {} PROVE FALSE
  OBVIOUS
<1>1. PICK m \in Nat \ S : \A y \in Nat \ S : m <= y
  BY LeastNat
<1>2. m - 1 \in Nat /\ (m - 1) + 1 = m
  BY <1>1
<1>3. m - 1 \notin Nat \ S
  BY <1>1, <1>2
<1> QED BY <1>1, <1>2, <1>3

-----------------------------------------------------------------------------
(* Kept: what a list comprehension keeps, and in which order               *)

KeptStep(f, s, S, n) ==
  IF n = 0 THEN <<>>
  ELSE IF s[n] \in S THEN Append(f[n - 1], s[n]) ELSE f[n - 1]
IsKept(f, s, S) == f = [n \in 0..Len(s) |-> KeptStep(f, s, S, n)]

LEMMA KeptExists ==
  ASSUME NEW s, NEW S, Len(s) \in Nat
  PROVE  \E f : IsKept(f, s, S)
<1> DEFINE Good(n) == \E f : f = [k \in 0..n |-> KeptStep(f, s, S, k)]
           G == {n \in Nat : Good(n)}
<1>1. 0 \in G
  <2> DEFINE f == [k \in 0..0 |-> <<>>]
  <2>1. f = [k \in 0..0 |-> KeptStep(f, s, S, k)]
    BY DEF KeptStep
  <2> QED BY <2>1
<1>2. ASSUME NEW n \in Nat, n \in G PROVE n + 1 \in G
  <2>1. PICK f : f = [k \in 0..n |-> KeptStep(f, s, S, k)]
    BY <1>2
  <2> DEFINE last == KeptStep(f, s, S, n + 1)
             g == [k \in 0..(n + 1) |-> IF k = n + 1 THEN last ELSE f[k]]
  <2>2. ASSUME NEW k \in 0..(n + 1) PROVE g[k] = KeptStep(g, s, S, k)
    <3>1. CASE k = 0
      <4>1. 0 \in 0..n /\ f[0] = KeptStep(f, s, S, 0)
        BY <2>1
      <4> QED BY <3>1, <4>1 DEF KeptStep
    <3>2. CASE k # 0
      <4>1. k - 1 \in 0..n /\ k - 1 \in 0..(n + 1) /\ k - 1 # n + 1
        BY <3>2
      <4>2. g[k - 1] = f[k - 1]
        BY <4>1
      <4>3. g[k] = KeptStep(f, s, S, k)
        <5>1. CASE k = n + 1
          BY <5>1
        <5>2. CASE k # n + 1
          <6>1. k \in 0..n
            BY <5>2
          <6>2. f[k] = KeptStep(f, s, S, k)
            BY <2>1, <6>1
          <6> QED BY <5>2, <6>2
        <5> QED BY <5>1, <5>2
      <4> HIDE DEF g
      <4> QED BY <3>2, <4>2, <4>3 DEF KeptStep
    <3> QED BY <3>1, <3>2
  <2>3. g = [k \in 0..(n + 1) |-> g[k]]
    OBVIOUS
  <2> HIDE DEF g
  <2>4. g = [k \in 0..(n + 1) |-> KeptStep(g, s, S, k)]
    BY <2>2, <2>3
  <2> QED BY <2>4
<1> HIDE DEF G
<1>3. Len(s) \in G
  BY <1>1, <1>2, SetInduction
<1> QED BY <1>3 DEF G, IsKept

\* k keeps, of the first n members of s, those in S, in the order of s.
KeepsSome(k, s, S, n) ==
  /\ \A i \in 1..Len(k) : k[i] \in S /\ \E a \in 1..n : s[a] = k[i]
  /\ \A a \in 1..n : s[a] \in S => \E i \in 1..Len(k) : k[i] = s[a]
  /\ \A i, j \in 1..Len(k) : i < j => \E a, b \in 1..n : a < b /\ s[a] = k[i] /\ s[b] = k[j]

LEMMA KeepsNext ==
  ASSUME NEW T, NEW s \in Seq(T), NEW S, NEW n \in Nat, n + 1 <= Len(s),
         NEW k \in Seq(T), KeepsSome(k, s, S, n)
  PROVE  /\ s[n + 1] \in S => /\ Append(k, s[n + 1]) \in Seq(T)
                              /\ KeepsSome(Append(k, s[n + 1]), s, S, n + 1)
         /\ s[n + 1] \notin S => KeepsSome(k, s, S, n + 1)
<1>0. Len(s) \in Nat /\ Len(k) \in Nat /\ DOMAIN s = 1..Len(s) /\ s[n + 1] \in T
  OBVIOUS
<1>1. \A a \in 1..n : a \in 1..(n + 1)
  OBVIOUS
<1>2. \A a \in 1..(n + 1) : a \in 1..n \/ a = n + 1
  OBVIOUS
<1>3. ASSUME s[n + 1] \notin S PROVE KeepsSome(k, s, S, n + 1)
  BY <1>1, <1>2, <1>3 DEF KeepsSome
<1>4. ASSUME s[n + 1] \in S
      PROVE  /\ Append(k, s[n + 1]) \in Seq(T)
             /\ KeepsSome(Append(k, s[n + 1]), s, S, n + 1)
  <2> DEFINE x == s[n + 1]
             q == Append(k, x)
  <2>1. /\ q \in Seq(T) /\ Len(q) = Len(k) + 1
        /\ \A i \in 1..Len(k) : q[i] = k[i]
        /\ q[Len(k) + 1] = x
    BY <1>0
  <2>2. x \in S /\ x = s[n + 1] /\ n + 1 \in 1..(n + 1)
    BY <1>4
  <2> HIDE DEF q, x
  <2>3. \A i \in 1..Len(q) : i \in 1..Len(k) \/ i = Len(k) + 1
    BY <1>0, <2>1
  <2>4. \A i \in 1..Len(k) : i \in 1..Len(q)
    BY <1>0, <2>1
  <2>5. Len(k) + 1 \in 1..Len(q)
    BY <1>0, <2>1
  <2>6. ASSUME NEW i \in 1..Len(q) PROVE q[i] \in S /\ \E a \in 1..(n + 1) : s[a] = q[i]
    <3>1. CASE i \in 1..Len(k)
      <4>1. PICK a \in 1..n : s[a] = k[i]
        BY <3>1 DEF KeepsSome
      <4>2. k[i] \in S /\ q[i] = k[i] /\ a \in 1..(n + 1)
        BY <1>1, <2>1, <3>1 DEF KeepsSome
      <4> QED BY <4>1, <4>2
    <3>2. CASE i = Len(k) + 1
      BY <2>1, <2>2, <3>2
    <3> QED BY <2>3, <3>1, <3>2
  <2>7. ASSUME NEW a \in 1..(n + 1), s[a] \in S PROVE \E i \in 1..Len(q) : q[i] = s[a]
    BY <1>2, <2>1, <2>2, <2>4, <2>5, <2>7 DEF KeepsSome
  <2>8. ASSUME NEW i \in 1..Len(q), NEW j \in 1..Len(q), i < j
        PROVE  \E a, b \in 1..(n + 1) : a < b /\ s[a] = q[i] /\ s[b] = q[j]
    <3>1. i \in 1..Len(k)
      BY <1>0, <2>1, <2>8
    <3>2. CASE j \in 1..Len(k)
      <4>1. PICK a \in 1..n, b \in 1..n : a < b /\ s[a] = k[i] /\ s[b] = k[j]
        BY <2>8, <3>1, <3>2 DEF KeepsSome
      <4> QED BY <1>1, <2>1, <3>1, <3>2, <4>1
    <3>3. CASE j = Len(k) + 1
      <4>1. PICK a \in 1..n : s[a] = k[i]
        BY <3>1 DEF KeepsSome
      <4>2. a \in 1..(n + 1) /\ a < n + 1
        OBVIOUS
      <4> QED BY <2>1, <2>2, <3>1, <3>3, <4>1, <4>2
    <3> QED BY <2>3, <3>2, <3>3
  <2>9. KeepsSome(q, s, S, n + 1)
    BY <2>6, <2>7, <2>8 DEF KeepsSome
  <2> QED BY <2>1, <2>9 DEF q, x
<1> QED BY <1>3, <1>4

LEMMA KeptKeeps ==
  ASSUME NEW T, NEW s \in Seq(T), NEW S
  PROVE  Kept(s, S) \in Seq(T) /\ KeepsSome(Kept(s, S), s, S, Len(s))
<1> DEFINE f == CHOOSE g : g = [n \in 0..Len(s) |->
                  IF n = 0 THEN <<>>
                  ELSE IF s[n] \in S THEN Append(g[n - 1], s[n]) ELSE g[n - 1]]
<1>0. Len(s) \in Nat
  OBVIOUS
<1>1. Kept(s, S) = f[Len(s)]
  BY Zenon DEF Kept
<1>2. IsKept(f, s, S)
  <2>1. \E g : IsKept(g, s, S)
    BY <1>0, KeptExists
  <2> QED BY <2>1, Zenon DEF KeptStep, IsKept
<1> HIDE DEF f
<1>3. \A n \in 0..Len(s) : f[n] = KeptStep(f, s, S, n)
  BY <1>2, Zenon DEF IsKept
<1> DEFINE G == {n \in Nat : n <= Len(s) => f[n] \in Seq(T) /\ KeepsSome(f[n], s, S, n)}
<1>4. 0 \in G
  <2>1. f[0] = <<>>
    BY <1>0, <1>3 DEF KeptStep
  <2> DEFINE e == <<>>
  <2>2. e \in Seq(T) /\ Len(e) = 0
    OBVIOUS
  <2>3. f[0] \in Seq(T) /\ Len(f[0]) = 0
    BY <2>1, <2>2
  <2>4. KeepsSome(f[0], s, S, 0)
    BY <2>3 DEF KeepsSome
  <2> QED BY <2>3, <2>4
<1>5. ASSUME NEW n \in Nat, n \in G PROVE n + 1 \in G
  <2> SUFFICES ASSUME n + 1 <= Len(s)
               PROVE  f[n + 1] \in Seq(T) /\ KeepsSome(f[n + 1], s, S, n + 1)
    OBVIOUS
  <2>1. f[n] \in Seq(T) /\ KeepsSome(f[n], s, S, n)
    BY <1>0, <1>5
  <2>2. n + 1 \in 0..Len(s) /\ n + 1 # 0 /\ (n + 1) - 1 = n
    BY <1>0
  <2>3. f[n + 1] = IF s[n + 1] \in S THEN Append(f[n], s[n + 1]) ELSE f[n]
    BY <1>3, <2>2 DEF KeptStep
  <2>4. /\ s[n + 1] \in S => /\ Append(f[n], s[n + 1]) \in Seq(T)
                             /\ KeepsSome(Append(f[n], s[n + 1]), s, S, n + 1)
        /\ s[n + 1] \notin S => KeepsSome(f[n], s, S, n + 1)
    BY <2>1, KeepsNext
  <2> QED BY <2>1, <2>3, <2>4
<1>6. Len(s) \in G
  <2> HIDE DEF G
  <2> QED BY <1>0, <1>4, <1>5, SetInduction
<1> QED BY <1>0, <1>1, <1>6

-----------------------------------------------------------------------------
(* Packs in the order in which they are listed, served and tried           *)

LEMMA ConcatIs ==
  ASSUME NEW T, NEW s \in Seq(T), NEW t \in Seq(T)
  PROVE  /\ s \o t \in Seq(T) /\ Len(s \o t) = Len(s) + Len(t)
         /\ Len(s) \in Nat /\ Len(t) \in Nat
         /\ \A i \in 1..Len(s) : i \in 1..Len(s \o t) /\ (s \o t)[i] = s[i]
         /\ \A i \in 1..Len(t) : Len(s) + i \in 1..Len(s \o t) /\ (s \o t)[Len(s) + i] = t[i]
         /\ \A i \in 1..Len(s \o t) : i \in 1..Len(s) \/ i - Len(s) \in 1..Len(t)
<1>1. /\ s \o t \in Seq(T) /\ Len(s \o t) = Len(s) + Len(t)
      /\ Len(s) \in Nat /\ Len(t) \in Nat
  OBVIOUS
<1>2. /\ \A i \in 1..Len(s) : (s \o t)[i] = s[i]
      /\ \A i \in 1..Len(t) : (s \o t)[Len(s) + i] = t[i]
  OBVIOUS
<1> QED BY <1>1, <1>2

(* The order of discovery, on paths.                                       *)
ListedFirst(p, q) == ListedBefore(Listed(p), Listed(q))
InOrder(s) ==
  /\ s \in Seq(PackSet)
  /\ \A i, j \in 1..Len(s) : i < j => ListedFirst(s[i], s[j])

LEMMA ListedIs ==
  ASSUME NEW f \in Files
  PROVE  /\ Listed(f.path) = LoadPack(f) /\ LoadPack(f).path = f.path
         /\ LoadPack(f).priority \in Int /\ LoadPack(f).maxZoom \in Int
         /\ LoadPack(f).stem \in Int /\ LoadPack(f).path \in Int
<1>1. /\ f.state = "good" /\ f.path \in Int /\ f.stem \in Int
      /\ f.priority \in Int \cup {None} /\ f.maxZoom \in Int \cup {None}
  BY FilesAssumption
<1>2. Manifest(f.path) = f
  BY FilesAssumption DEF Manifest
<1>3. Listed(f.path) = LoadPack(f)
  BY <1>2 DEF Listed
<1>4. LoadPack(f) = [path |-> f.path, stem |-> f.stem, priority |-> OrElse(f.priority, 0),
                     maxZoom |-> OrElse(f.maxZoom, 0), size |-> f.size]
  BY <1>1 DEF LoadPack
<1>5. OrElse(f.priority, 0) \in Int /\ OrElse(f.maxZoom, 0) \in Int
  BY <1>1 DEF OrElse
<1> QED BY <1>1, <1>3, <1>4, <1>5

LEMMA ListedFirstIsStrict ==
  ASSUME NEW p \in PackSet
  PROVE  ~ListedFirst(p, p)
<1>1. PICK f \in Files : f.path = p
  BY DEF PackSet
<1>2. /\ Listed(p).priority \in Int /\ Listed(p).maxZoom \in Int
      /\ Listed(p).stem \in Int /\ Listed(p).path \in Int
  BY <1>1, ListedIs
<1> QED BY <1>2 DEF ListedFirst, ListedBefore, SameKey

(* show_offline_pack: the chosen pack first, the others as listed.         *)
InServing(s, p) ==
  /\ s \in Seq(PackSet) /\ Len(s) \in Nat
  /\ \A i, j \in 1..Len(s) : i < j => s[j] # p /\ (s[i] = p \/ ListedFirst(s[i], s[j]))

LEMMA ServingIs ==
  ASSUME NEW all, InOrder(all), NEW p, p \in ToSet(all)
  PROVE  /\ Serving(p, all) # <<>> /\ Serving(p, all)[1] = p
         /\ InServing(Serving(p, all), p)
         /\ ToSet(Serving(p, all)) = {q \in ToSet(all) : q = p \/ StemOf(q) # StemOf(p)}
<1> DEFINE S == {q \in PackSet : StemOf(q) # StemOf(p)}
           k == Kept(all, S)
           h == <<p>>
<1>0. all \in Seq(PackSet) /\ Len(all) \in Nat /\ DOMAIN all = 1..Len(all)
  BY DEF InOrder
<1>1. p \in PackSet /\ \A i \in 1..Len(all) : all[i] \in PackSet
  BY <1>0 DEF ToSet
<1>2. h \in Seq(PackSet) /\ Len(h) = 1 /\ h[1] = p
  BY <1>1
<1>3. k \in Seq(PackSet) /\ KeepsSome(k, all, S, Len(all))
  BY <1>0, KeptKeeps
<1> DEFINE s == h \o k
<1>4. Serving(p, all) = s
  BY DEF Serving
<1> HIDE DEF h, k
<1>5. /\ s \in Seq(PackSet) /\ Len(s) = 1 + Len(k) /\ Len(k) \in Nat
      /\ s[1] = p
      /\ \A i \in 1..Len(k) : s[1 + i] = k[i]
  <2>0. h \in Seq(PackSet) /\ k \in Seq(PackSet)
    BY <1>2, <1>3
  <2>1. /\ s \in Seq(PackSet) /\ Len(s) = Len(h) + Len(k)
        /\ Len(h) \in Nat /\ Len(k) \in Nat
        /\ \A i \in 1..Len(h) : i \in 1..Len(s) /\ s[i] = h[i]
        /\ \A i \in 1..Len(k) : Len(h) + i \in 1..Len(s) /\ s[Len(h) + i] = k[i]
        /\ \A i \in 1..Len(s) : i \in 1..Len(h) \/ i - Len(h) \in 1..Len(k)
    BY <2>0, ConcatIs
  <2>2. 1 \in 1..Len(h)
    BY <1>2
  <2> HIDE DEF s
  <2> QED BY <1>2, <2>1, <2>2
<1> HIDE DEF s
<1>6. ASSUME NEW i \in 1..Len(s), i # 1
      PROVE  /\ i - 1 \in 1..Len(k) /\ s[i] = k[i - 1] /\ s[i] # p
             /\ StemOf(s[i]) # StemOf(p) /\ \E a \in 1..Len(all) : all[a] = s[i]
  <2>1. i - 1 \in 1..Len(k) /\ 1 + (i - 1) = i
    BY <1>5, <1>6
  <2>2. s[i] = k[i - 1]
    BY <1>5, <2>1
  <2>3. k[i - 1] \in S /\ \E a \in 1..Len(all) : all[a] = k[i - 1]
    BY <1>3, <2>1 DEF KeepsSome
  <2> QED BY <2>1, <2>2, <2>3
<1>7. ASSUME NEW i \in 1..Len(s), NEW j \in 1..Len(s), i < j
      PROVE  s[j] # p /\ (s[i] = p \/ ListedFirst(s[i], s[j]))
  <2>1. j # 1 /\ i \in Nat /\ j \in Nat
    BY <1>5, <1>7
  <2>2. CASE i = 1
    BY <1>5, <1>6, <2>1, <2>2
  <2>3. CASE i # 1
    <3>1. PICK a \in 1..Len(all), b \in 1..Len(all) :
            a < b /\ all[a] = k[i - 1] /\ all[b] = k[j - 1]
      <4>1. i - 1 \in 1..Len(k) /\ j - 1 \in 1..Len(k) /\ i - 1 < j - 1
        BY <1>6, <1>7, <2>1, <2>3
      <4> QED BY <1>3, <4>1 DEF KeepsSome
    <3>2. ListedFirst(all[a], all[b])
      BY <3>1 DEF InOrder
    <3> QED BY <1>6, <2>1, <2>3, <3>1, <3>2
  <2> QED BY <2>2, <2>3
<1>8. InServing(s, p)
  BY <1>5, <1>7 DEF InServing
<1>9. DOMAIN s = 1..Len(s) /\ 1 \in 1..Len(s)
  BY <1>5
<1>10. ASSUME NEW x \in ToSet(s)
       PROVE  x \in ToSet(all) /\ (x = p \/ StemOf(x) # StemOf(p))
  <2>1. PICK i \in 1..Len(s) : s[i] = x
    BY <1>9 DEF ToSet
  <2>2. CASE i = 1
    BY <1>5, <2>1, <2>2
  <2>3. CASE i # 1
    BY <1>0, <1>6, <2>1, <2>3 DEF ToSet
  <2> QED BY <2>2, <2>3
<1>11. ASSUME NEW x \in ToSet(all), x = p \/ StemOf(x) # StemOf(p) PROVE x \in ToSet(s)
  <2>1. PICK a \in 1..Len(all) : all[a] = x
    BY <1>0 DEF ToSet
  <2>2. CASE x = p
    BY <1>5, <1>9, <2>2 DEF ToSet
  <2>3. CASE x # p
    <3>1. all[a] \in S
      BY <1>1, <1>11, <2>1, <2>3
    <3>2. PICK i \in 1..Len(k) : k[i] = x
      BY <1>3, <2>1, <3>1 DEF KeepsSome
    <3>3. 1 + i \in 1..Len(s) /\ s[1 + i] = x
      BY <1>5, <3>2
    <3> QED BY <1>9, <3>3 DEF ToSet
  <2> QED BY <2>2, <2>3
<1>12. s # <<>>
  BY <1>5
<1> QED BY <1>4, <1>5, <1>8, <1>10, <1>11, <1>12

(* packs_for: what the request tries is every pack that covers the tile,   *)
(* the better one first.                                                   *)
LEMMA PacksForIs ==
  ASSUME NEW s, s = served, InServing(s, s[1])
  PROVE  /\ PacksFor(s) \in Seq(PackSet) /\ Len(PacksFor(s)) \in Nat
         /\ ToSet(PacksFor(s)) = {q \in ToSet(s) : CoversTile(q)}
         /\ \A i, j \in 1..Len(PacksFor(s)) : i < j => Before(PacksFor(s)[i], PacksFor(s)[j])
<1> DEFINE k == Kept(s, Containing)
           l == Kept(s, Overlapping)
           c == k \o l
<1>0. s \in Seq(PackSet) /\ Len(s) \in Nat /\ DOMAIN s = 1..Len(s)
  BY DEF InServing
<1>1. /\ k \in Seq(PackSet) /\ KeepsSome(k, s, Containing, Len(s))
      /\ l \in Seq(PackSet) /\ KeepsSome(l, s, Overlapping, Len(s))
  BY <1>0, KeptKeeps
<1>2. PacksFor(s) = c
  BY DEF PacksFor
<1> HIDE DEF k, l
<1>3. /\ c \in Seq(PackSet) /\ Len(c) = Len(k) + Len(l)
      /\ Len(k) \in Nat /\ Len(l) \in Nat
      /\ \A i \in 1..Len(k) : i \in 1..Len(c) /\ c[i] = k[i]
      /\ \A i \in 1..Len(l) : Len(k) + i \in 1..Len(c) /\ c[Len(k) + i] = l[i]
      /\ \A i \in 1..Len(c) : i \in 1..Len(k) \/ i - Len(k) \in 1..Len(l)
  BY <1>1, ConcatIs
<1> HIDE DEF c
<1>4. \A q \in Containing : Rank(q) = 0 /\ CoversTile(q) /\ q \in PackSet
  BY DEF Containing, Rank, CoversTile, ContainsTile
<1>5. \A q \in Overlapping : Rank(q) = 1 /\ CoversTile(q) /\ q \in PackSet
  BY DEF Overlapping, Rank
<1>6. ASSUME NEW i \in 1..Len(c), i \notin 1..Len(k)
      PROVE  i - Len(k) \in 1..Len(l) /\ c[i] = l[i - Len(k)]
  <2>1. i - Len(k) \in 1..Len(l) /\ Len(k) + (i - Len(k)) = i
    BY <1>3, <1>6
  <2> QED BY <1>3, <2>1
<1>7. ASSUME NEW i \in 1..Len(k)
      PROVE  c[i] \in Containing /\ \E a \in 1..Len(s) : s[a] = c[i]
  <2>1. c[i] = k[i]
    BY <1>3
  <2>2. k[i] \in Containing /\ \E a \in 1..Len(s) : s[a] = k[i]
    BY <1>1 DEF KeepsSome
  <2> QED BY <2>1, <2>2
<1>8. ASSUME NEW i \in 1..Len(c), i \notin 1..Len(k)
      PROVE  c[i] \in Overlapping /\ \E a \in 1..Len(s) : s[a] = c[i]
  BY <1>1, <1>6, <1>8 DEF KeepsSome
<1>9. ASSUME NEW x \in PackSet, NEW y \in PackSet, NEW a \in 1..Len(s), NEW b \in 1..Len(s),
             a < b, s[a] = x, s[b] = y, Rank(x) = Rank(y)
      PROVE  Before(x, y)
  <2>1. y # served[1] /\ (x = served[1] \/ ListedFirst(x, y))
    <3>1. s[b] # s[1] /\ (s[a] = s[1] \/ ListedFirst(s[a], s[b]))
      BY <1>0, <1>9 DEF InServing
    <3> QED BY <1>9, <3>1
  <2>2. Rank(x) = Rank(y)
    BY <1>9
  <2> QED BY <2>1, <2>2 DEF Before, ListedFirst
<1>10. ASSUME NEW i \in 1..Len(c), NEW j \in 1..Len(c), i < j PROVE Before(c[i], c[j])
  <2>1. CASE j \in 1..Len(k)
    <3>1. i \in 1..Len(k)
      BY <1>3, <1>10, <2>1
    <3>2. PICK a \in 1..Len(s), b \in 1..Len(s) : a < b /\ s[a] = k[i] /\ s[b] = k[j]
      BY <1>1, <1>10, <2>1, <3>1 DEF KeepsSome
    <3>3. c[i] \in Containing /\ c[j] \in Containing /\ c[i] = k[i] /\ c[j] = k[j]
      BY <1>3, <1>7, <2>1, <3>1
    <3> QED BY <1>4, <1>9, <3>2, <3>3
  <2>2. CASE j \notin 1..Len(k) /\ i \in 1..Len(k)
    <3>1. Rank(c[i]) = 0 /\ Rank(c[j]) = 1
      BY <1>4, <1>5, <1>7, <1>8, <2>2
    <3> QED BY <3>1 DEF Before
  <2>3. CASE j \notin 1..Len(k) /\ i \notin 1..Len(k)
    <3>1. /\ i - Len(k) \in 1..Len(l) /\ j - Len(k) \in 1..Len(l)
          /\ c[i] = l[i - Len(k)] /\ c[j] = l[j - Len(k)]
      BY <1>6, <2>3
    <3>2. i - Len(k) < j - Len(k)
      BY <1>3, <1>10
    <3>3. PICK a \in 1..Len(s), b \in 1..Len(s) :
            a < b /\ s[a] = l[i - Len(k)] /\ s[b] = l[j - Len(k)]
      BY <1>1, <3>1, <3>2 DEF KeepsSome
    <3>4. c[i] \in Overlapping /\ c[j] \in Overlapping
      BY <1>8, <2>3
    <3> QED BY <1>5, <1>9, <3>1, <3>3, <3>4
  <2> QED BY <2>1, <2>2, <2>3
<1>11. DOMAIN c = 1..Len(c)
  BY <1>3
<1>12. ASSUME NEW x \in ToSet(c) PROVE x \in ToSet(s) /\ CoversTile(x)
  <2>1. PICK i \in 1..Len(c) : c[i] = x
    BY <1>11 DEF ToSet
  <2>2. CoversTile(x) /\ \E a \in 1..Len(s) : s[a] = x
    BY <1>4, <1>5, <1>7, <1>8, <2>1
  <2> QED BY <1>0, <2>2 DEF ToSet
<1>13. ASSUME NEW x \in ToSet(s), CoversTile(x) PROVE x \in ToSet(c)
  <2>1. PICK a \in 1..Len(s) : s[a] = x
    BY <1>0 DEF ToSet
  <2>2. x \in Containing \/ x \in Overlapping
    BY <1>0, <1>13, <2>1 DEF Containing, Overlapping
  <2>3. CASE x \in Containing
    <3>1. PICK i \in 1..Len(k) : k[i] = x
      BY <1>1, <2>1, <2>3 DEF KeepsSome
    <3>2. i \in 1..Len(c) /\ c[i] = x
      BY <1>3, <3>1
    <3> QED BY <1>11, <3>2 DEF ToSet
  <2>4. CASE x \in Overlapping
    <3>1. PICK i \in 1..Len(l) : l[i] = x
      BY <1>1, <2>1, <2>4 DEF KeepsSome
    <3>2. Len(k) + i \in 1..Len(c) /\ c[Len(k) + i] = x
      BY <1>3, <3>1
    <3> QED BY <1>11, <3>2 DEF ToSet
  <2> QED BY <2>2, <2>3, <2>4
<1> QED BY <1>2, <1>3, <1>10, <1>12, <1>13

LEMMA BeforeIsStrict ==
  ASSUME NEW p \in PackSet
  PROVE  ~Before(p, p)
<1>1. Rank(p) \in Int
  BY DEF Rank
<1> QED BY <1>1, ListedFirstIsStrict DEF Before, ListedFirst

-----------------------------------------------------------------------------
(* Discovery: the sort of discover_packs has a result, for any packs       *)

Loaded == {LoadPack(f) : f \in Files}

LEMMA LoadedIsOrdered ==
  /\ IsFiniteSet(Loaded)
  /\ \A p, q \in Loaded : p # q => ListedBefore(p, q) \/ ListedBefore(q, p)
  /\ \A p, q, r \in Loaded : ListedBefore(p, q) /\ ListedBefore(q, r) => ListedBefore(p, r)
<1>1. ASSUME NEW p \in Loaded
      PROVE  /\ p.priority \in Int /\ p.maxZoom \in Int /\ p.stem \in Int /\ p.path \in Int
             /\ p = Listed(p.path)
  <2>1. PICK f \in Files : p = LoadPack(f)
    BY DEF Loaded
  <2> QED BY <2>1, ListedIs
<1>2. \A p, q \in Loaded : p # q => p.path # q.path
  BY <1>1
<1>3. \A p, q \in Loaded : p # q => ListedBefore(p, q) \/ ListedBefore(q, p)
  BY <1>1, <1>2 DEF ListedBefore, SameKey
<1>4. \A p, q, r \in Loaded : ListedBefore(p, q) /\ ListedBefore(q, r) => ListedBefore(p, r)
  BY <1>1 DEF ListedBefore, SameKey
<1>5. IsFiniteSet(Loaded)
  <2> DEFINE load == [f \in Files |-> LoadPack(f)]
  <2>1. load \in Surjection(Files, Loaded)
    BY DEF Surjection, Loaded
  <2> HIDE DEF load
  <2> QED BY <2>1, FilesAssumption, FS_Surjection
<1> QED BY <1>3, <1>4, <1>5

\* s lists S, first to last.
Lists(s, S, n) ==
  /\ s \in [1..n -> S]
  /\ \A i, j \in 1..n : i < j => ListedBefore(s[i], s[j])
  /\ \A q \in S : \E i \in 1..n : s[i] = q

LEMMA ListsLast ==
  ASSUME NEW S \in SUBSET Loaded, NEW n \in Nat, NEW m \in S, NEW t,
         Lists(t, S \ {m}, n), \A q \in S \ {m} : ListedBefore(q, m)
  PROVE  \E s : Lists(s, S, n + 1)
<1> DEFINE s == [i \in 1..(n + 1) |-> IF i = n + 1 THEN m ELSE t[i]]
<1>1. \A i \in 1..(n + 1) : i \in 1..n \/ i = n + 1
  OBVIOUS
<1>2. \A i \in 1..n : i \in 1..(n + 1) /\ i # n + 1 /\ i < n + 1
  OBVIOUS
<1>3. n + 1 \in 1..(n + 1)
  OBVIOUS
<1>4. s[n + 1] = m /\ \A i \in 1..n : s[i] = t[i] /\ t[i] \in S \ {m}
  BY <1>2, <1>3 DEF Lists
<1>5. s \in [1..(n + 1) -> S]
  <2>1. \A i \in 1..(n + 1) : (IF i = n + 1 THEN m ELSE t[i]) \in S
    BY <1>1, <1>4
  <2> QED BY <2>1
<1> HIDE DEF s
<1>6. ASSUME NEW i \in 1..(n + 1), NEW j \in 1..(n + 1), i < j
      PROVE  ListedBefore(s[i], s[j])
  <2>1. i \in 1..n
    BY <1>6
  <2>2. CASE j = n + 1
    BY <1>4, <2>1, <2>2
  <2>3. CASE j \in 1..n
    BY <1>4, <1>6, <2>1, <2>3 DEF Lists
  <2> QED BY <1>1, <2>2, <2>3
<1>7. ASSUME NEW q \in S PROVE \E i \in 1..(n + 1) : s[i] = q
  <2>1. CASE q = m
    BY <1>3, <1>4, <2>1
  <2>2. CASE q # m
    <3>1. PICK i \in 1..n : t[i] = q
      BY <2>2 DEF Lists
    <3> QED BY <1>2, <1>4, <3>1
  <2> QED BY <2>1, <2>2
<1> QED BY <1>5, <1>6, <1>7 DEF Lists

LEMMA ListingExists ==
  ASSUME NEW S \in SUBSET Loaded
  PROVE  \E s : Lists(s, S, Cardinality(S))
<1> DEFINE Good(n) == \A R \in SUBSET Loaded : Cardinality(R) = n => \E s : Lists(s, R, n)
           G == {n \in Nat : Good(n)}
<1>0. \A R \in SUBSET Loaded : IsFiniteSet(R) /\ Cardinality(R) \in Nat
  BY LoadedIsOrdered, FS_Subset, FS_CardinalityType
<1>1. 0 \in G
  <2> SUFFICES ASSUME NEW R \in SUBSET Loaded, Cardinality(R) = 0 PROVE \E s : Lists(s, R, 0)
    OBVIOUS
  <2>1. R = {}
    BY <1>0, FS_EmptySet
  <2> DEFINE s == [i \in 1..0 |-> i]
  <2>2. s \in [1..0 -> R] /\ \A i \in 1..0 : FALSE
    OBVIOUS
  <2> HIDE DEF s
  <2>3. Lists(s, R, 0)
    BY <2>1, <2>2 DEF Lists
  <2> QED BY <2>3
<1>2. ASSUME NEW n \in Nat, n \in G PROVE n + 1 \in G
  <2> SUFFICES ASSUME NEW R \in SUBSET Loaded, Cardinality(R) = n + 1
               PROVE  \E s : Lists(s, R, n + 1)
    OBVIOUS
  <2>1. ASSUME NEW x \in R PROVE \E s : Lists(s, R \ {x}, n)
    <3>1. R \ {x} \in SUBSET Loaded
      OBVIOUS
    <3>2. Cardinality(R \ {x}) = n
      BY <1>0, FS_RemoveElement
    <3> QED BY <1>2, <3>1, <3>2
  <2>2. PICK x : x \in R
    <3>1. R # {}
      BY <1>0, FS_EmptySet
    <3> QED BY <3>1
  <2>3. PICK t : Lists(t, R \ {x}, n)
    BY <2>1, <2>2
  <2>4. CASE \A q \in R \ {x} : ListedBefore(q, x)
    BY <2>2, <2>3, <2>4, ListsLast
  <2>5. CASE \E q \in R \ {x} : ~ListedBefore(q, x)
    <3>1. PICK q \in R \ {x} : ~ListedBefore(q, x)
      BY <2>5
    <3>2. PICK a \in 1..n : t[a] = q
      BY <2>3 DEF Lists
    <3> DEFINE m == t[n]
    <3>3. n \in 1..n /\ m \in R \ {x}
      BY <2>3, <3>2 DEF Lists
    <3>4. ASSUME NEW r \in R \ {x}, r # m PROVE ListedBefore(r, m)
      <4>1. PICK i \in 1..n : t[i] = r
        BY <2>3 DEF Lists
      <4>2. i < n
        BY <3>4, <4>1
      <4> QED BY <2>3, <3>3, <4>1, <4>2 DEF Lists
    <3> HIDE DEF m
    <3>5. ListedBefore(x, m)
      <4>1. ListedBefore(x, q)
        BY <2>2, <3>1, LoadedIsOrdered
      <4>2. CASE q = m
        BY <4>1, <4>2
      <4>3. CASE q # m
        <5>1. ListedBefore(q, m)
          BY <3>4, <4>3
        <5> QED BY <2>2, <3>3, <4>1, <5>1, LoadedIsOrdered
      <4> QED BY <4>2, <4>3
    <3>6. \A r \in R \ {m} : ListedBefore(r, m)
      BY <3>4, <3>5
    <3>7. PICK u : Lists(u, R \ {m}, n)
      BY <2>1, <3>3
    <3> QED BY <3>3, <3>6, <3>7, ListsLast
  <2> QED BY <2>4, <2>5
<1>3. Cardinality(S) \in G
  <2> HIDE DEF G
  <2> QED BY <1>0, <1>1, <1>2, SetInduction
<1> QED BY <1>3

LEMMA DiscoverySorts ==
  ASSUME NEW files, Usable(files) \subseteq Loaded
  PROVE  InOrder(Paths(DiscoverPacks(files)))
<1> DEFINE U == Usable(files)
           n == Cardinality(U)
           d == DiscoverPacks(files)
<1>0. n \in Nat
  BY LoadedIsOrdered, FS_Subset, FS_CardinalityType
<1>1. PICK s : Lists(s, U, n)
  BY ListingExists
<1>2. s \in Listings(U)
  BY <1>1 DEF Lists, Listings
<1>3. d \in Listings(U)
  BY <1>2 DEF DiscoverPacks
<1>4. d \in [1..n -> U] /\ \A i, j \in 1..n : i < j => ListedBefore(d[i], d[j])
  BY <1>3 DEF Listings
<1> HIDE DEF d, n, U
<1>5. Paths(d) = [i \in 1..n |-> d[i].path]
  BY <1>4 DEF Paths
<1>6. ASSUME NEW i \in 1..n PROVE d[i].path \in PackSet /\ Listed(d[i].path) = d[i]
  <2>1. d[i] \in Loaded
    BY <1>4 DEF U
  <2>2. PICK f \in Files : d[i] = LoadPack(f)
    BY <2>1 DEF Loaded
  <2> QED BY <2>2, ListedIs DEF PackSet
<1> DEFINE t == [i \in 1..n |-> d[i].path]
<1>7. t \in Seq(PackSet) /\ Len(t) = n /\ \A i \in 1..n : t[i] = d[i].path
  BY <1>0, <1>6
<1> HIDE DEF t
<1>8. InOrder(t)
  BY <1>4, <1>6, <1>7 DEF InOrder, ListedFirst
<1> QED BY <1>5, <1>8 DEF t, d

(* Whatever is lost, what discovery lists are packs of Files.              *)
LEMMA UsableAreLoaded ==
  ASSUME NEW d \in Damages
  PROVE  Usable({Damaged(f, d) : f \in Files}) \subseteq Loaded
<1> DEFINE g(f) == Damaged(f, d)
<1>2. ASSUME NEW f \in Files, LoadPack(g(f)) # None PROVE LoadPack(g(f)) \in Loaded
  <2>1. CASE f.path \in DOMAIN d
    <3> DEFINE h == [f EXCEPT !.state = d[f.path]]
    <3>1. f \in [path: Int, stem: Int, state: FileStates, priority: Int \cup {None},
                 maxZoom: Int \cup {None}, size: Int \cup {None}]
      BY FilesAssumption
    <3>2. h.state = d[f.path]
      BY <3>1
    <3>3. d[f.path] # "good"
      BY <2>1, FilesAssumption
    <3>4. LoadPack(h) = None
      BY <3>2, <3>3 DEF LoadPack
    <3> QED BY <1>2, <2>1, <3>4 DEF Damaged
  <2>2. CASE f.path \notin DOMAIN d
    BY <2>2 DEF Loaded, Damaged
  <2> QED BY <2>1, <2>2
<1> DEFINE F == {g(f) : f \in Files}
<1>3. Usable(F) \subseteq Loaded
  <2> SUFFICES ASSUME NEW u \in Usable(F) PROVE u \in Loaded
    OBVIOUS
  <2>1. u # None /\ \E h \in F : u = LoadPack(h)
    BY DEF Usable
  <2>2. PICK f \in Files : u = LoadPack(g(f))
    BY <2>1
  <2> QED BY <1>2, <2>1, <2>2
<1> QED BY <1>3

LEMMA FilesAreLoaded == Usable(Files) \subseteq Loaded
BY DEF Usable, Loaded

-----------------------------------------------------------------------------
(* The invariant                                                           *)

IsSequence(s) == \E S : s \in Seq(S)

(* The packs a request tries, in order.                                    *)
Candidates == PacksFor(served)

(* Page and server: what is served is a pack of the saved stem before the  *)
(* others of the listing, and a page that is not ready shows nothing and will be  *)
(* told the right layer.                                                   *)
PageInv ==
  /\ InOrder(installed)
  /\ served # <<>> => /\ served[1] \in ToSet(installed) /\ saved = StemOf(served[1])
                      /\ served = Serving(served[1], installed)
  /\ gui \in {"idle", "clear"} /\ (gui = "clear" => ready /\ served # <<>>)
  /\ IsSequence(pending)
  /\ ~ready => layer = "online" /\ shown = None
  /\ ready /\ ~orphaned => (layer = "offline" <=> served # <<>>)
  /\ ~ready /\ ~orphaned /\ served = <<>> =>
       pending = <<>> \/ pending[Len(pending)] = "online"
  /\ style \in Themes /\ theme \in Themes /\ (served # <<>> => style = theme)

(* left are the candidates from the k-th on; those before have no data.    *)
Reached(left, k) ==
  /\ k \in 1..Len(Candidates) /\ left \in Seq(PackSet)
  /\ Len(left) = (Len(Candidates) - k) + 1
  /\ \A i \in 1..Len(left) : left[i] = Candidates[(k - 1) + i]
  /\ \A i \in 1..(k - 1) : Candidates[i] \notin data

(* A request: it is a request of the server that runs; a render that no    *)
(* style change overtook has the style of the server, and one that was     *)
(* overtaken once has a key that is not looked up before the next clear.   *)
(* Which candidate it has reached is known when no two of them are twins.  *)
Shaped(r) ==
  /\ r.at = "lookup" => r = [at |-> "lookup", left |-> r.left, current |-> r.current]
  /\ r.at = "render" => r = [at |-> "render", left |-> r.left, key |-> r.key,
                             changes |-> r.changes, current |-> r.current]
  /\ r.at = "put" => r = [at |-> "put", left |-> r.left, key |-> r.key, changes |-> r.changes,
                          rendered |-> r.rendered, current |-> r.current]
RequestInv(r) ==
  /\ Shaped(r)
  /\ r.at \in {"idle", "lookup", "render", "put"}
  /\ r.at # "idle" => /\ served # <<>> /\ ready /\ r.left \in Seq(PackSet)
                      /\ Twins \/ \E k : Reached(r.left, k)
  /\ r.at \in {"render", "put"} =>
       /\ r.left # <<>>
       /\ r.changes \in 0..2 /\ r.key \in Themes
       /\ r.changes = 0 => r.key = style
       /\ r.changes = 1 => r.key # style
       /\ gui = "idle" /\ r.current => r.changes = 0
  /\ r.at = "put" => r.rendered \in Themes /\ (r.changes = 0 => r.rendered = style)
RequestsInv ==
  /\ reqs = [t \in Threads |-> reqs[t]]
  /\ \A t \in Threads : RequestInv(reqs[t])

(* An entry of the cache: an image is of the style under which it can be   *)
(* found.  Without twins the candidate of the entry's stem is the pack the *)
(* entry is about: "no data" is true and not about the last candidate; an  *)
(* image is of that pack, which has data or is the last one.               *)
LastCandidate(p) == p = Candidates[Len(Candidates)]
About(e, p) ==
  /\ e.value = NoData => p \notin data /\ ~LastCandidate(p)
  /\ e.value # NoData => e.value.pack = p /\ (p \in data \/ LastCandidate(p))
EntryInv(e) ==
  /\ Twins \/ \A i \in 1..Len(Candidates) :
                StemOf(Candidates[i]) = e.stem => About(e, Candidates[i])
  /\ e.value # NoData /\ gui = "idle" /\ e.style = style /\ ~e.value.tainted =>
       e.value.style = style
CacheInv == IsSequence(cache) /\ \A e \in ToSet(cache) : EntryInv(e)

(* The tile on the page.                                                   *)
BestAt(p, k) ==
  /\ k \in 1..Len(Candidates) /\ p = Candidates[k]
  /\ \A i \in 1..(k - 1) : Candidates[i] \notin data
  /\ p \in data \/ k = Len(Candidates)
ShownInv ==
  shown \in Image /\ served # <<>> =>
    /\ Twins \/ \E k : BestAt(shown.pack, k)
    /\ gui = "idle" /\ ~shown.tainted => shown.style = style

TilesInv == PageInv /\ RequestsInv /\ CacheInv /\ ShownInv

LEMMA CandidatesIs ==
  ASSUME PageInv, served # <<>>
  PROVE  /\ Candidates \in Seq(PackSet) /\ Len(Candidates) \in Nat
         /\ ToSet(Candidates) = Able
         /\ \A i, j \in 1..Len(Candidates) : i < j => Before(Candidates[i], Candidates[j])
         /\ \A i, j \in 1..Len(Candidates) : i # j => Candidates[i] # Candidates[j]
         /\ saved = StemOf(served[1])
<1>1. /\ InOrder(installed) /\ served[1] \in ToSet(installed)
      /\ served = Serving(served[1], installed) /\ saved = StemOf(served[1])
  BY DEF PageInv
<1> DEFINE c == served[1]
<1>2. /\ InServing(served, c)
      /\ ToSet(served) = {q \in ToSet(installed) : q = c \/ StemOf(q) # StemOf(c)}
  <2> HIDE DEF c
  <2>1. c \in ToSet(installed) /\ served = Serving(c, installed)
    BY <1>1 DEF c
  <2>2. /\ InServing(Serving(c, installed), c)
        /\ ToSet(Serving(c, installed)) =
             {q \in ToSet(installed) : q = c \/ StemOf(q) # StemOf(c)}
    BY <1>1, <2>1, ServingIs
  <2> QED BY <2>1, <2>2
<1>3. /\ Candidates \in Seq(PackSet) /\ Len(Candidates) \in Nat
      /\ ToSet(Candidates) = {q \in ToSet(served) : CoversTile(q)}
      /\ \A i, j \in 1..Len(Candidates) : i < j => Before(Candidates[i], Candidates[j])
  BY <1>2, PacksForIs DEF Candidates
<1>4. \A i \in 1..Len(Candidates) : Candidates[i] \in PackSet
  BY <1>3
<1>5. ASSUME NEW i \in 1..Len(Candidates), NEW j \in 1..Len(Candidates), i # j
      PROVE  Candidates[i] # Candidates[j]
  <2>1. i < j \/ j < i
    BY <1>3, <1>5
  <2>2. ~Before(Candidates[i], Candidates[i])
    BY <1>4, BeforeIsStrict
  <2> QED BY <1>3, <2>1, <2>2
<1>6. ToSet(Candidates) = Able
  BY <1>2, <1>3 DEF Able
<1> QED BY <1>1, <1>3, <1>5, <1>6

(* Candidates of one stem are twins.                                       *)
LEMMA StemIsCandidate ==
  ASSUME PageInv, served # <<>>, ~Twins, NEW i \in 1..Len(Candidates),
         NEW j \in 1..Len(Candidates), StemOf(Candidates[i]) = StemOf(Candidates[j])
  PROVE  i = j
<1>1. /\ Candidates \in Seq(PackSet) /\ ToSet(Candidates) = Able
      /\ (i # j => Candidates[i] # Candidates[j])
  BY CandidatesIs
<1>2. Candidates[i] \in Able /\ Candidates[j] \in Able
  <2>1. DOMAIN Candidates = 1..Len(Candidates)
    BY <1>1
  <2> QED BY <1>1, <2>1 DEF ToSet
<1>3. \A q \in Able : q \in ToSet(served) /\ CoversTile(q)
  <2>1. InOrder(installed) /\ served[1] \in ToSet(installed)
        /\ served = Serving(served[1], installed)
    BY DEF PageInv
  <2> DEFINE c == served[1]
  <2> HIDE DEF c
  <2>2. c \in ToSet(installed) /\ served = Serving(c, installed)
    BY <2>1 DEF c
  <2>3. ToSet(Serving(c, installed)) =
          {q \in ToSet(installed) : q = c \/ StemOf(q) # StemOf(c)}
    BY <2>1, <2>2, ServingIs
  <2> QED BY <2>2, <2>3 DEF Able, c
<1> QED BY <1>1, <1>2, <1>3 DEF Twins

LEMMA EmptyIsSequence == IsSequence(<<>>) /\ ToSet(<<>>) = {}
<1>1. <<>> \in Seq({})
  OBVIOUS
<1>2. DOMAIN <<>> = {}
  BY <1>1
<1> QED BY <1>1, <1>2 DEF IsSequence, ToSet

LEMMA AppendIs ==
  ASSUME NEW s, IsSequence(s), NEW x
  PROVE  /\ IsSequence(Append(s, x)) /\ Append(s, x) # <<>>
         /\ Len(Append(s, x)) = Len(s) + 1 /\ Len(s) \in Nat
         /\ Append(s, x)[Len(s) + 1] = x
         /\ ToSet(Append(s, x)) = ToSet(s) \cup {x}
<1>1. PICK S : s \in Seq(S)
  BY DEF IsSequence
<1> DEFINE T == S \cup {x}
           q == Append(s, x)
<1>2. s \in Seq(T) /\ x \in T
  BY <1>1
<1> HIDE DEF T
<1>3. /\ q \in Seq(T) /\ Len(q) = Len(s) + 1 /\ Len(s) \in Nat /\ q[Len(s) + 1] = x
      /\ \A i \in 1..Len(s) : q[i] = s[i]
  BY <1>2
<1> HIDE DEF q
<1>4. DOMAIN q = 1..(Len(s) + 1) /\ DOMAIN s = 1..Len(s)
  BY <1>2, <1>3
<1>5. \A i \in 1..(Len(s) + 1) : i \in 1..Len(s) \/ i = Len(s) + 1
  BY <1>3
<1>6. ToSet(q) \subseteq ToSet(s) \cup {x}
  BY <1>3, <1>4, <1>5 DEF ToSet
<1>7. ASSUME NEW y \in ToSet(s) PROVE y \in ToSet(q)
  <2>1. PICK i \in 1..Len(s) : s[i] = y
    BY <1>4 DEF ToSet
  <2>2. i \in 1..(Len(s) + 1) /\ q[i] = y
    BY <1>3, <2>1
  <2> QED BY <1>4, <2>2 DEF ToSet
<1>8. x \in ToSet(q)
  <2>1. Len(s) + 1 \in DOMAIN q
    BY <1>3, <1>4
  <2> QED BY <1>3, <2>1 DEF ToSet
<1>9. q # <<>>
  BY <1>3
<1> QED BY <1>3, <1>6, <1>7, <1>8, <1>9 DEF q, IsSequence

-----------------------------------------------------------------------------
(* The cache                                                               *)

LEMMA KeptIs ==
  ASSUME NEW s, IsSequence(s), NEW S
  PROVE  /\ IsSequence(Kept(s, S)) /\ ToSet(Kept(s, S)) \subseteq ToSet(s) \cap S
         /\ Kept(s, S) # <<>> => Kept(s, S)[1] \in ToSet(s) \cap S
<1> DEFINE k == Kept(s, S)
<1>1. PICK T : s \in Seq(T)
  BY DEF IsSequence
<1>2. k \in Seq(T) /\ KeepsSome(k, s, S, Len(s))
  BY <1>1, KeptKeeps
<1> HIDE DEF k
<1>3. DOMAIN s = 1..Len(s) /\ DOMAIN k = 1..Len(k) /\ Len(k) \in Nat
  BY <1>1, <1>2
<1>4. \A i \in 1..Len(k) : k[i] \in ToSet(s) \cap S
  BY <1>2, <1>3 DEF KeepsSome, ToSet
<1>5. k # <<>> => 1 \in 1..Len(k)
  BY <1>2, <1>3
<1>6. ToSet(k) \subseteq ToSet(s) \cap S
  BY <1>3, <1>4 DEF ToSet
<1> QED BY <1>2, <1>4, <1>5, <1>6 DEF k, IsSequence

LEMMA LookupIs ==
  ASSUME NEW p, NEW s, IsSequence(cache), Lookup(p, s) # <<>>
  PROVE  /\ Lookup(p, s)[1] \in ToSet(cache)
         /\ Lookup(p, s)[1].stem = StemOf(p) /\ Lookup(p, s)[1].style = s
<1>1. Lookup(p, s)[1] \in Entries(p, s)
  BY KeptIs DEF Lookup
<1> QED BY <1>1 DEF Entries

LEMMA TouchedIs ==
  ASSUME NEW p, NEW s, IsSequence(cache)
  PROVE  IsSequence(Touched(p, s)) /\ ToSet(Touched(p, s)) \subseteq ToSet(cache)
<1> DEFINE k == Others(p, s)
           l == Lookup(p, s)
           c == k \o l
<1>1. /\ IsSequence(k) /\ ToSet(k) \subseteq ToSet(cache)
      /\ IsSequence(l) /\ ToSet(l) \subseteq ToSet(cache)
  BY KeptIs DEF Others, Lookup
<1>2. Touched(p, s) = c
  BY DEF Touched
<1> HIDE DEF k, l
<1>3. PICK K : k \in Seq(K)
  BY <1>1 DEF IsSequence
<1>4. PICK L : l \in Seq(L)
  BY <1>1 DEF IsSequence
<1> DEFINE T == K \cup L
<1>5. k \in Seq(T) /\ l \in Seq(T)
  BY <1>3, <1>4
<1> HIDE DEF T
<1>6. /\ c \in Seq(T) /\ Len(c) = Len(k) + Len(l)
      /\ Len(k) \in Nat /\ Len(l) \in Nat
      /\ \A i \in 1..Len(k) : i \in 1..Len(c) /\ c[i] = k[i]
      /\ \A i \in 1..Len(l) : Len(k) + i \in 1..Len(c) /\ c[Len(k) + i] = l[i]
      /\ \A i \in 1..Len(c) : i \in 1..Len(k) \/ i - Len(k) \in 1..Len(l)
  BY <1>5, ConcatIs
<1> HIDE DEF c
<1>7. DOMAIN k = 1..Len(k) /\ DOMAIN l = 1..Len(l) /\ DOMAIN c = 1..Len(c)
  BY <1>5, <1>6
<1>8. ASSUME NEW x \in ToSet(c) PROVE x \in ToSet(k) \cup ToSet(l)
  <2>1. PICK i \in 1..Len(c) : c[i] = x
    BY <1>7 DEF ToSet
  <2>2. CASE i \in 1..Len(k)
    BY <1>6, <1>7, <2>1, <2>2 DEF ToSet
  <2>3. CASE i - Len(k) \in 1..Len(l)
    <3>1. Len(k) + (i - Len(k)) = i
      BY <1>6
    <3>2. x = l[i - Len(k)]
      BY <1>6, <2>1, <2>3, <3>1
    <3> QED BY <1>7, <2>3, <3>2 DEF ToSet
  <2> QED BY <1>6, <2>2, <2>3
<1> QED BY <1>1, <1>2, <1>6, <1>8 DEF IsSequence

LEMMA PutIs ==
  ASSUME NEW p, NEW s, NEW v, IsSequence(cache), Put(p, s, v)
  PROVE  /\ IsSequence(cache')
         /\ \A e \in ToSet(cache') :
              e \in ToSet(cache) \/ e = [stem |-> StemOf(p), style |-> s, value |-> v]
<1> DEFINE x == [stem |-> StemOf(p), style |-> s, value |-> v]
           g == Append(Others(p, s), x)
           over == Len(g) - Capacity
<1>1. IsSequence(Others(p, s)) /\ ToSet(Others(p, s)) \subseteq ToSet(cache)
  BY KeptIs DEF Others
<1>2. IsSequence(g) /\ ToSet(g) \subseteq ToSet(cache) \cup {x}
  BY <1>1, AppendIs
<1>3. cache' = IF over > 0 THEN SubSeq(g, over + 1, Len(g)) ELSE g
  BY DEF Put
<1> HIDE DEF x, g
<1>4. CASE over > 0
  <2>1. PICK T : g \in Seq(T)
    BY <1>2 DEF IsSequence
  <2>2. Len(g) \in Nat /\ over \in Int /\ DOMAIN g = 1..Len(g) /\ over + 1 <= Len(g)
    BY <2>1, CapacityAssumption
  <2> HIDE DEF over
  <2> DEFINE q == SubSeq(g, over + 1, Len(g))
             n == Len(g) - over
  <2>3. n \in Nat /\ q \in Seq(T) /\ DOMAIN q = 1..n /\ \A i \in 1..n : q[i] = g[over + i]
    BY <1>4, <2>1, <2>2
  <2>4. \A i \in 1..n : over + i \in 1..Len(g)
    BY <1>4, <2>2
  <2> HIDE DEF q
  <2>5. ToSet(q) \subseteq ToSet(g)
    BY <2>2, <2>3, <2>4 DEF ToSet
  <2>6. cache' = q
    BY <1>3, <1>4 DEF q
  <2> QED BY <1>2, <2>3, <2>5, <2>6 DEF IsSequence, x
<1>5. CASE ~(over > 0)
  BY <1>2, <1>3, <1>5 DEF x
<1> QED BY <1>4, <1>5

-----------------------------------------------------------------------------
(* Steps                                                                   *)

LEMMA SameCandidates ==
  ASSUME UNCHANGED <<fit, served>>
  PROVE  Candidates' = Candidates /\ Twins' = Twins
<1>1. Candidates' = Candidates
  BY DEF Candidates, PacksFor, Containing, Overlapping, ContainsTile, CoversTile
<1>2. Twins' = Twins
  BY DEF Twins, CoversTile
<1> QED BY <1>1, <1>2

(* Requests of a stopped server concern nobody: the threads start afresh.  *)
LEMMA RetireIs ==
  ASSUME Retire, cache' = <<>>
  PROVE  RequestsInv' /\ CacheInv'
<1>1. reqs' = [t \in Threads |-> reqs'[t]]
  BY DEF Retire
<1>2. ASSUME NEW t \in Threads PROVE reqs'[t].at = "idle"
  BY DEF Retire, Idle
<1>3. ASSUME NEW t \in Threads PROVE RequestInv(reqs[t])'
  BY <1>2 DEF RequestInv, Shaped
<1>4. CacheInv'
  <2>1. IsSequence(cache') /\ ToSet(cache') = {}
    BY EmptyIsSequence
  <2> QED BY <2>1 DEF CacheInv
<1> QED BY <1>1, <1>3, <1>4 DEF RequestsInv

LEMMA NoneIsNoImage ==
  None \notin Image /\ NoData \notin Image /\ NotFound \notin Image /\ Failed \notin Image
BY AnswersAssumption DEF Outcome

(* An order of discovery stays one.                                        *)
LEMMA InOrderStays ==
  ASSUME InOrder(installed), UNCHANGED installed
  PROVE  InOrder(installed)'
BY DEF InOrder, ListedFirst, Listed

(* MapBridge._run                                                          *)
LEMMA RunIs ==
  ASSUME NEW kind \in {"online", "offline"}, Run(kind), PageInv
  PROVE  /\ ready => layer' = kind /\ shown' = None /\ UNCHANGED pending
         /\ ~ready => /\ UNCHANGED <<layer, shown>> /\ layer = "online" /\ shown = None
                      /\ pending' # <<>> /\ pending'[Len(pending')] = kind
         /\ IsSequence(pending')
<1>1. CASE ready
  BY <1>1 DEF Run, Display, PageInv
<1>2. CASE ~ready
  <2>1. pending' = Append(pending, kind) /\ UNCHANGED <<layer, shown>> /\ IsSequence(pending)
    BY <1>2 DEF Run, PageInv
  <2>2. /\ IsSequence(pending') /\ pending' # <<>>
        /\ Len(pending') = Len(pending) + 1 /\ pending'[Len(pending) + 1] = kind
    BY <2>1, AppendIs
  <2>3. layer = "online" /\ shown = None
    BY <1>2 DEF PageInv
  <2> QED BY <1>2, <2>1, <2>2, <2>3
<1> QED BY <1>1, <1>2

LEMMA ShowOnlineKeeps == TilesInv /\ ShowOnline => TilesInv'
<1> SUFFICES ASSUME TilesInv, ShowOnline PROVE TilesInv'
  OBVIOUS
<1>1. /\ gui = "idle" /\ served' = <<>> /\ cache' = <<>> /\ orphaned' = FALSE /\ Retire
      /\ Run("online") /\ UNCHANGED <<geo, theme, gui, style, ready>>
  BY DEF ShowOnline, GuiMay
<1>2. UNCHANGED <<fit, data, installed>>
  BY <1>1 DEF geo
<1>3. PageInv
  BY DEF TilesInv
<1>4. /\ ready => layer' = "online" /\ shown' = None
      /\ ~ready => /\ layer' = "online" /\ shown' = None
                   /\ pending'[Len(pending')] = "online"
      /\ IsSequence(pending')
  BY <1>1, <1>3, RunIs
<1>5. InOrder(installed)'
  BY <1>2, <1>3, InOrderStays DEF PageInv
<1>6. PageInv'
  BY <1>1, <1>3, <1>4, <1>5 DEF PageInv
<1>7. ShownInv'
  BY <1>1 DEF ShownInv
<1> QED BY <1>1, <1>6, <1>7, RetireIs DEF TilesInv

LEMMA ShowOfflineKeeps == TilesInv /\ (\E p \in PackSet : ShowOffline(p)) => TilesInv'
<1> SUFFICES ASSUME TilesInv, NEW p \in PackSet, ShowOffline(p) PROVE TilesInv'
  OBVIOUS
<1>1. /\ gui = "idle" /\ p \in ToSet(installed) /\ served' = Serving(p, installed)
      /\ style' = theme /\ cache' = <<>> /\ orphaned' = FALSE /\ saved' = StemOf(p)
      /\ Retire /\ Run("offline") /\ UNCHANGED <<geo, theme, gui, ready>>
  BY DEF ShowOffline, GuiMay
<1>2. UNCHANGED <<fit, data, installed>>
  BY <1>1 DEF geo
<1>3. PageInv
  BY DEF TilesInv
<1>4. /\ ready => layer' = "offline" /\ shown' = None
      /\ ~ready => layer' = "online" /\ shown' = None
      /\ IsSequence(pending') /\ shown' = None
  BY <1>1, <1>3, RunIs
<1>5. InOrder(installed)' /\ InOrder(installed)
  BY <1>2, <1>3, InOrderStays DEF PageInv
<1>6. served' # <<>> /\ served'[1] = p
  BY <1>1, <1>5, ServingIs
<1>7. p \in ToSet(installed') /\ served' = Serving(p, installed')
  BY <1>1, <1>2
<1>8. PageInv'
  <2>1. (/\ served[1] \in ToSet(installed) /\ saved = StemOf(served[1])
         /\ served = Serving(served[1], installed))'
    BY <1>1, <1>6, <1>7
  <2> QED BY <1>1, <1>3, <1>4, <1>5, <1>6, <2>1 DEF PageInv
<1>9. ShownInv'
  BY <1>4, NoneIsNoImage DEF ShownInv
<1> QED BY <1>1, <1>8, <1>9, RetireIs DEF TilesInv

LEMMA RestartKeeps == TilesInv /\ (Restart \/ RestartWithoutTools) => TilesInv'
<1> SUFFICES ASSUME TilesInv, Restart \/ RestartWithoutTools PROVE TilesInv'
  OBVIOUS
<1>1. PageInv
  BY DEF TilesInv
<1>2. /\ cache' = <<>> /\ ready' = FALSE /\ layer' = "online" /\ shown' = None
      /\ orphaned' = FALSE /\ Retire /\ UNCHANGED <<theme, gui>> /\ gui = "idle"
  BY DEF Restart, RestartWithoutTools
<1>3. ShownInv'
  BY <1>2, NoneIsNoImage DEF ShownInv
<1>4. CASE Restart
  <2>0. installed' \in AtStart
    BY <1>4 DEF Restart
  <2>1. PICK d \in Damages : installed' = Paths(DiscoverPacks({Damaged(f, d) : f \in Files}))
    BY <2>0 DEF AtStart
  <2>2. InOrder(installed')
    BY <2>1, UsableAreLoaded, DiscoverySorts
  <2>3. InOrder(installed)'
    BY <2>2 DEF InOrder, ListedFirst, Listed
  <2> DEFINE found == OfStem(saved, installed')
             p == found[1]
  <2>4. CASE found # <<>>
    <3>0. p \in ToSet(installed') /\ StemOf(p) = saved
      <4>1. IsSequence(installed')
        BY <2>2 DEF InOrder, IsSequence
      <4>2. p \in ToSet(installed') \cap {q \in PackSet : StemOf(q) = saved}
        BY <2>4, <4>1, KeptIs DEF OfStem
      <4> QED BY <4>2
    <3>1. /\ served' = Serving(p, installed') /\ style' = theme
          /\ pending' = <<"offline">> /\ UNCHANGED saved
      BY <1>4, <2>4 DEF Restart
    <3> HIDE DEF found, p
    <3>2. served' # <<>> /\ served'[1] = p
      BY <2>2, <3>0, <3>1, ServingIs
    <3>3. IsSequence(pending')
      <4>1. <<"offline">> \in Seq({"offline"})
        OBVIOUS
      <4> QED BY <3>1, <4>1 DEF IsSequence
    <3>4. (/\ served[1] \in ToSet(installed) /\ saved = StemOf(served[1])
           /\ served = Serving(served[1], installed))'
      <4>1. saved' = StemOf(served'[1])
        BY <3>0, <3>1, <3>2
      <4>2. served'[1] \in ToSet(installed') /\ served' = Serving(served'[1], installed')
        BY <3>0, <3>1, <3>2
      <4> QED BY <4>1, <4>2
    <3>5. PageInv'
      BY <1>1, <1>2, <2>3, <3>1, <3>2, <3>3, <3>4 DEF PageInv
    <3> QED BY <1>2, <1>3, <3>5, RetireIs DEF TilesInv
  <2>5. CASE found = <<>>
    <3>1. served' = <<>> /\ pending' = <<>> /\ UNCHANGED style
      BY <1>4, <2>5 DEF Restart
    <3>2. IsSequence(pending')
      BY <3>1, EmptyIsSequence
    <3>3. PageInv'
      BY <1>1, <1>2, <2>3, <3>1, <3>2 DEF PageInv
    <3> QED BY <1>2, <1>3, <3>3, RetireIs DEF TilesInv
  <2> QED BY <2>4, <2>5
<1>5. CASE RestartWithoutTools
  <2>1. served' = <<>> /\ pending' = <<>> /\ installed' = <<>> /\ UNCHANGED style
    BY <1>5 DEF RestartWithoutTools
  <2>2. IsSequence(pending')
    BY <2>1, EmptyIsSequence
  <2>3. InOrder(installed)'
    <3> DEFINE e == <<>>
    <3>1. e \in Seq(PackSet) /\ Len(e) = 0
      OBVIOUS
    <3>2. installed' = e
      BY <2>1
    <3> HIDE DEF e
    <3> QED BY <3>1, <3>2 DEF InOrder
  <2>4. PageInv'
    BY <1>1, <1>2, <2>1, <2>2, <2>3 DEF PageInv
  <2> QED BY <1>2, <1>3, <2>4, RetireIs DEF TilesInv
<1> QED BY <1>4, <1>5

LEMMA ServerStartFailsKeeps == TilesInv /\ ServerStartFails => TilesInv'
<1> SUFFICES ASSUME TilesInv, ServerStartFails PROVE TilesInv'
  OBVIOUS
<1>1. /\ gui = "idle" /\ served' = <<>> /\ cache' = <<>> /\ Retire
      /\ orphaned' = (orphaned \/ layer = "offline" \/ pending # <<>>)
      /\ UNCHANGED <<geo, saved, theme, gui, style, ready, pending, layer, shown>>
  BY DEF ServerStartFails, GuiMay
<1>2. UNCHANGED <<fit, data, installed>>
  BY <1>1 DEF geo
<1>3. PageInv
  BY DEF TilesInv
<1>4. InOrder(installed)' /\ IsSequence(pending')
  BY <1>1, <1>2, <1>3, InOrderStays DEF PageInv
<1>5. PageInv'
  BY <1>1, <1>3, <1>4 DEF PageInv
<1>6. ShownInv'
  BY <1>1 DEF ShownInv
<1> QED BY <1>1, <1>5, <1>6, RetireIs DEF TilesInv

(* Requests go on as they were when nothing they depend on changes.        *)
LEMMA RequestStays ==
  ASSUME NEW t \in Threads, RequestInv(reqs[t]), reqs'[t] = reqs[t],
         UNCHANGED <<fit, data, served, style, gui, ready>>
  PROVE  RequestInv(reqs[t])'
<1>1. Candidates' = Candidates /\ Twins' = Twins
  BY SameCandidates
<1> QED BY <1>1 DEF RequestInv, Shaped, Reached

LEMMA EntriesStay ==
  ASSUME CacheInv, IsSequence(cache'), ToSet(cache') \subseteq ToSet(cache),
         UNCHANGED <<fit, data, served, style, gui>>
  PROVE  CacheInv'
<1>1. Candidates' = Candidates /\ Twins' = Twins
  BY SameCandidates
<1>2. ASSUME NEW e \in ToSet(cache') PROVE EntryInv(e)'
  <2>1. EntryInv(e)
    BY <1>2 DEF CacheInv
  <2> QED BY <1>1, <2>1 DEF EntryInv, About, LastCandidate
<1> QED BY <1>2 DEF CacheInv

LEMMA ShownStays ==
  ASSUME ShownInv, UNCHANGED <<fit, data, served, style, gui, shown>>
  PROVE  ShownInv'
<1>1. Candidates' = Candidates /\ Twins' = Twins
  BY SameCandidates
<1> QED BY <1>1 DEF ShownInv, BestAt

LEMMA PageStays ==
  ASSUME PageInv, ready \/ shown' = None,
         UNCHANGED <<geo, saved, theme, gui, server, page>>
  PROVE  PageInv' /\ UNCHANGED <<fit, data, served, style, gui, ready>>
<1>1. UNCHANGED <<fit, data, installed, served, style, ready, pending, layer, orphaned>>
  BY DEF geo, server, page
<1>2. InOrder(installed)' /\ IsSequence(pending')
  BY <1>1, InOrderStays DEF PageInv
<1> QED BY <1>1, <1>2 DEF PageInv

LEMMA ThemeChangedOnlineKeeps == TilesInv /\ ThemeChangedOnline => TilesInv'
<1> SUFFICES ASSUME TilesInv, ThemeChangedOnline PROVE TilesInv'
  OBVIOUS
<1>1. /\ served = <<>> /\ theme' \in Themes
      /\ UNCHANGED <<geo, saved, gui, server, cache, reqs, page, shown>>
  BY DEF ThemeChangedOnline
<1>2. /\ UNCHANGED <<fit, data, installed, served, style, ready, pending, layer, orphaned>>
  BY <1>1 DEF geo, server, page
<1>3. PageInv'
  <2>1. InOrder(installed)' /\ IsSequence(pending')
    BY <1>2, InOrderStays DEF PageInv, TilesInv
  <2> QED BY <1>1, <1>2, <2>1 DEF PageInv, TilesInv
<1>4. RequestsInv'
  BY <1>1, <1>2, RequestStays DEF RequestsInv, TilesInv
<1>5. CacheInv'
  BY <1>1, <1>2, EntriesStay DEF CacheInv, TilesInv
<1>6. ShownInv'
  BY <1>1, <1>2, ShownStays DEF TilesInv
<1> QED BY <1>3, <1>4, <1>5, <1>6 DEF TilesInv

(* A record with one field replaced, for the three shapes of a request.    *)
LEMMA StaleIs ==
  ASSUME NEW r, Shaped(r), r.at \in {"lookup", "render", "put"}
  PROVE  /\ Shaped(Stale(r)) /\ Stale(r).at = r.at /\ Stale(r).left = r.left
         /\ Stale(r).current = FALSE
         /\ r.at # "lookup" => Stale(r).key = r.key /\ Stale(r).changes = r.changes
         /\ r.at = "put" => Stale(r).rendered = r.rendered
<1>0. PICK no : no = FALSE
  OBVIOUS
<1>1. Stale(r) = [r EXCEPT !.current = no]
  BY <1>0 DEF Stale
<1>2. CASE r.at = "lookup"
  <2>1. r = [at |-> "lookup", left |-> r.left, current |-> r.current]
    BY <1>2 DEF Shaped
  <2>2. Stale(r) = [at |-> "lookup", left |-> r.left, current |-> no]
    BY <1>1, <2>1
  <2> QED BY <1>0, <1>2, <2>2 DEF Shaped
<1>3. CASE r.at = "render"
  <2>1. r = [at |-> "render", left |-> r.left, key |-> r.key, changes |-> r.changes,
             current |-> r.current]
    BY <1>3 DEF Shaped
  <2>2. Stale(r) = [at |-> "render", left |-> r.left, key |-> r.key, changes |-> r.changes,
                    current |-> no]
    BY <1>1, <2>1
  <2> QED BY <1>0, <1>3, <2>2 DEF Shaped
<1>4. CASE r.at = "put"
  <2>1. r = [at |-> "put", left |-> r.left, key |-> r.key, changes |-> r.changes,
             rendered |-> r.rendered, current |-> r.current]
    BY <1>4 DEF Shaped
  <2>2. Stale(r) = [at |-> "put", left |-> r.left, key |-> r.key, changes |-> r.changes,
                    rendered |-> r.rendered, current |-> no]
    BY <1>1, <2>1
  <2> QED BY <1>0, <1>4, <2>2 DEF Shaped
<1> QED BY <1>2, <1>3, <1>4

LEMMA OvertakenIs ==
  ASSUME NEW r, Shaped(r), r.at \in {"render", "put"}, NEW v, v = [r EXCEPT !.changes = @ + 1]
  PROVE  /\ Shaped(v) /\ v.at = r.at /\ v.left = r.left /\ v.key = r.key
         /\ v.changes = r.changes + 1 /\ v.current = r.current
         /\ r.at = "put" => v.rendered = r.rendered
<1>1. CASE r.at = "render"
  <2>1. r = [at |-> "render", left |-> r.left, key |-> r.key, changes |-> r.changes,
             current |-> r.current]
    BY <1>1 DEF Shaped
  <2>2. v = [at |-> "render", left |-> r.left, key |-> r.key, changes |-> r.changes + 1,
             current |-> r.current]
    BY <2>1
  <2> QED BY <1>1, <2>2 DEF Shaped
<1>2. CASE r.at = "put"
  <2>1. r = [at |-> "put", left |-> r.left, key |-> r.key, changes |-> r.changes,
             rendered |-> r.rendered, current |-> r.current]
    BY <1>2 DEF Shaped
  <2>2. v = [at |-> "put", left |-> r.left, key |-> r.key, changes |-> r.changes + 1,
             rendered |-> r.rendered, current |-> r.current]
    BY <2>1
  <2> QED BY <1>2, <2>2 DEF Shaped
<1> QED BY <1>1, <1>2

(* set_style, first half: what is in flight has been overtaken once more.  *)
LEMMA ThemeChangedKeeps == TilesInv /\ ThemeChanged => TilesInv'
<1> SUFFICES ASSUME TilesInv, ThemeChanged PROVE TilesInv'
  OBVIOUS
<1> DEFINE hit(r) == r.at \in {"render", "put"} /\ r.changes < 2
<1>1. /\ ready /\ gui = "idle" /\ served # <<>> /\ theme' \in Themes /\ theme' # theme
      /\ style' = theme' /\ gui' = "clear"
      /\ reqs' = [t \in Threads |-> IF hit(reqs[t]) THEN [reqs[t] EXCEPT !.changes = @ + 1]
                                    ELSE reqs[t]]
      /\ UNCHANGED <<geo, saved, served, cache, page, shown>>
  BY DEF ThemeChanged
<1>2. UNCHANGED <<fit, data, installed, served, ready, pending, layer, orphaned>>
  BY <1>1 DEF geo, page
<1>3. Candidates' = Candidates /\ Twins' = Twins
  BY <1>2, SameCandidates
<1>4. PageInv /\ RequestsInv /\ CacheInv /\ ShownInv
  BY DEF TilesInv
<1>5. PageInv'
  <2>1. InOrder(installed)' /\ IsSequence(pending')
    BY <1>2, <1>4, InOrderStays DEF PageInv
  <2> QED BY <1>1, <1>2, <1>4, <2>1 DEF PageInv
<1>6. ASSUME NEW t \in Threads PROVE RequestInv(reqs[t])'
  <2>1. RequestInv(reqs[t])
    BY <1>4 DEF RequestsInv
  <2>2. CASE hit(reqs[t])
    <3>1. reqs'[t] = [reqs[t] EXCEPT !.changes = @ + 1]
      BY <1>1, <2>2
    <3>2. Shaped(reqs[t]) /\ reqs[t].at \in {"render", "put"}
      BY <2>1, <2>2 DEF RequestInv
    <3>3. /\ Shaped(reqs'[t]) /\ reqs'[t].at = reqs[t].at /\ reqs'[t].left = reqs[t].left
          /\ reqs'[t].key = reqs[t].key /\ reqs'[t].changes = reqs[t].changes + 1
          /\ reqs[t].at = "put" => reqs'[t].rendered = reqs[t].rendered
      BY <3>1, <3>2, OvertakenIs
    <3>4. /\ reqs[t].changes \in 0..1 /\ reqs[t].key \in Themes
          /\ reqs[t].changes = 0 => reqs[t].key = style
      BY <2>1, <2>2 DEF RequestInv
    <3>5. style = theme
      BY <1>1, <1>4 DEF PageInv
    <3>6. /\ reqs'[t].changes \in 0..2 /\ reqs'[t].changes # 0
          /\ reqs'[t].changes = 1 => reqs'[t].key # style'
      BY <1>1, <3>3, <3>4, <3>5
    <3>7. (/\ reqs[t].left \in Seq(PackSet) /\ reqs[t].left # <<>>
           /\ Twins \/ \E k : Reached(reqs[t].left, k))'
      BY <1>2, <1>3, <2>1, <3>2, <3>3 DEF RequestInv, Reached
    <3>8. Shaped(reqs[t])'
      BY <3>3 DEF Shaped
    <3> QED BY <1>1, <1>2, <2>1, <3>2, <3>3, <3>4, <3>6, <3>7, <3>8 DEF RequestInv
  <2>3. CASE ~hit(reqs[t])
    <3>1. reqs'[t] = reqs[t]
      BY <1>1, <2>3
    <3>2. CASE reqs[t].at \in {"render", "put"}
      <4>1. reqs[t].changes = 2
        BY <2>1, <2>3, <3>2 DEF RequestInv
      <4> QED BY <1>1, <1>2, <1>3, <2>1, <3>1, <4>1 DEF RequestInv, Shaped, Reached
    <3>3. CASE reqs[t].at \notin {"render", "put"}
      BY <1>1, <1>2, <1>3, <2>1, <3>1, <3>3 DEF RequestInv, Shaped, Reached
    <3> QED BY <3>2, <3>3
  <2> QED BY <2>2, <2>3
<1>7. RequestsInv'
  <2>1. reqs' = [t \in Threads |-> reqs'[t]]
    BY <1>1
  <2> QED BY <1>6, <2>1 DEF RequestsInv
<1>8. CacheInv'
  <2>1. ASSUME NEW e \in ToSet(cache') PROVE EntryInv(e)'
    <3>1. EntryInv(e)
      BY <1>1, <1>4 DEF CacheInv
    <3> QED BY <1>1, <1>2, <1>3, <3>1 DEF EntryInv, About, LastCandidate
  <2>2. IsSequence(cache')
    BY <1>1, <1>4 DEF CacheInv
  <2> QED BY <2>1, <2>2 DEF CacheInv
<1>9. ShownInv'
  BY <1>1, <1>2, <1>3, <1>4 DEF ShownInv, BestAt
<1> QED BY <1>5, <1>7, <1>8, <1>9 DEF TilesInv

(* set_style, second half: nothing in flight reaches the page any more.    *)
LEMMA StyleClearedKeeps == TilesInv /\ StyleCleared => TilesInv'
<1> SUFFICES ASSUME TilesInv, StyleCleared PROVE TilesInv'
  OBVIOUS
<1>1. /\ gui = "clear" /\ gui' = "idle" /\ cache' = <<>>
      /\ reqs' = [t \in Threads |-> Stale(reqs[t])] /\ Run("offline")
      /\ UNCHANGED <<geo, saved, theme, server, ready, orphaned>>
  BY DEF StyleCleared
<1>2. UNCHANGED <<fit, data, installed, served, style>>
  BY <1>1 DEF geo, server
<1>3. Candidates' = Candidates /\ Twins' = Twins
  BY <1>2, SameCandidates
<1>4. PageInv /\ RequestsInv /\ ready /\ served # <<>>
  BY <1>1 DEF TilesInv, PageInv
<1>5. layer' = "offline" /\ shown' = None /\ IsSequence(pending')
  BY <1>1, <1>4, RunIs
<1>6. PageInv'
  <2>1. InOrder(installed)'
    BY <1>2, <1>4, InOrderStays DEF PageInv
  <2> QED BY <1>1, <1>2, <1>4, <1>5, <2>1 DEF PageInv
<1>7. ASSUME NEW t \in Threads PROVE RequestInv(reqs[t])'
  <2>1. RequestInv(reqs[t]) /\ reqs'[t] = Stale(reqs[t])
    BY <1>1, <1>4 DEF RequestsInv
  <2>2. CASE reqs[t].at = "idle"
    <3>1. reqs'[t].at = "idle"
      BY <2>1, <2>2 DEF Stale
    <3> QED BY <3>1 DEF RequestInv, Shaped
  <2>3. CASE reqs[t].at # "idle"
    <3>1. Shaped(reqs[t]) /\ reqs[t].at \in {"lookup", "render", "put"}
      BY <2>1, <2>3 DEF RequestInv
    <3>2. /\ Shaped(reqs'[t]) /\ reqs'[t].at = reqs[t].at /\ reqs'[t].left = reqs[t].left
          /\ reqs'[t].current = FALSE
          /\ reqs[t].at # "lookup" => reqs'[t].key = reqs[t].key
                                      /\ reqs'[t].changes = reqs[t].changes
          /\ reqs[t].at = "put" => reqs'[t].rendered = reqs[t].rendered
      BY <2>1, <3>1, StaleIs
    <3>3. (/\ reqs[t].left \in Seq(PackSet)
           /\ reqs[t].at # "lookup" => reqs[t].left # <<>>
           /\ Twins \/ \E k : Reached(reqs[t].left, k))'
      BY <1>2, <1>3, <2>1, <2>3, <3>1, <3>2 DEF RequestInv, Reached
    <3>4. Shaped(reqs[t])'
      BY <3>2 DEF Shaped
    <3> QED BY <1>1, <1>2, <1>4, <2>1, <3>1, <3>2, <3>3, <3>4 DEF RequestInv
  <2> QED BY <2>2, <2>3
<1>8. RequestsInv'
  <2>1. reqs' = [t \in Threads |-> reqs'[t]]
    BY <1>1
  <2> QED BY <1>7, <2>1 DEF RequestsInv
<1>9. CacheInv'
  <2>1. IsSequence(cache') /\ ToSet(cache') = {}
    BY <1>1, EmptyIsSequence
  <2> QED BY <2>1 DEF CacheInv
<1>10. ShownInv'
  BY <1>5, NoneIsNoImage DEF ShownInv
<1> QED BY <1>6, <1>8, <1>9, <1>10 DEF TilesInv

(* mapReady: the buffered calls end in the layer that is served.           *)
LEMMA MapReadyKeeps == TilesInv /\ MapReady => TilesInv'
<1> SUFFICES ASSUME TilesInv, MapReady PROVE TilesInv'
  OBVIOUS
<1>1. /\ ~ready /\ gui = "idle" /\ ready' = TRUE /\ pending' = <<>> /\ shown' = None
      /\ reqs' = [t \in Threads |-> Stale(reqs[t])]
      /\ layer' = IF served # <<>> THEN "offline"
                  ELSE IF pending # <<>> THEN pending[Len(pending)] ELSE layer
      /\ UNCHANGED <<geo, saved, theme, gui, server, cache, orphaned>>
  BY DEF MapReady, Last
<1>2. UNCHANGED <<fit, data, installed, served, style>>
  BY <1>1 DEF geo, server
<1>3. PageInv /\ RequestsInv /\ CacheInv
  BY DEF TilesInv
<1>4. PageInv'
  <2>1. InOrder(installed)'
    BY <1>2, <1>3, InOrderStays DEF PageInv
  <2>2. IsSequence(pending')
    BY <1>1, EmptyIsSequence
  <2>3. /\ served # <<>> => layer' = "offline"
        /\ served = <<>> /\ ~orphaned => layer' = "online"
    BY <1>1, <1>3 DEF PageInv
  <2> QED BY <1>1, <1>2, <1>3, <2>1, <2>2, <2>3 DEF PageInv
<1>5. ASSUME NEW t \in Threads PROVE RequestInv(reqs[t])'
  <2>1. reqs[t].at = "idle"
    BY <1>1, <1>3 DEF RequestsInv, RequestInv
  <2>2. reqs'[t].at = "idle"
    BY <1>1, <2>1 DEF Stale
  <2> QED BY <2>2 DEF RequestInv, Shaped
<1>6. RequestsInv'
  <2>1. reqs' = [t \in Threads |-> reqs'[t]]
    BY <1>1
  <2> QED BY <1>5, <2>1 DEF RequestsInv
<1>7. CacheInv'
  BY <1>1, <1>2, <1>3, EntriesStay DEF CacheInv
<1>8. ShownInv'
  BY <1>1, NoneIsNoImage DEF ShownInv
<1> QED BY <1>4, <1>6, <1>7, <1>8 DEF TilesInv

LEMMA PanKeeps == TilesInv /\ Pan => TilesInv'
<1> SUFFICES ASSUME TilesInv, Pan PROVE TilesInv'
  OBVIOUS
<1>1. /\ shown' = None
      /\ UNCHANGED <<geo, saved, theme, gui, server, cache, reqs, page>>
  BY DEF Pan
<1>2. PageInv' /\ UNCHANGED <<fit, data, served, style, gui, ready>>
  BY <1>1, PageStays DEF TilesInv
<1>3. RequestsInv'
  BY <1>1, <1>2, RequestStays DEF RequestsInv, TilesInv
<1>4. CacheInv'
  BY <1>1, <1>2, EntriesStay DEF CacheInv, TilesInv
<1>5. ShownInv'
  BY <1>1, NoneIsNoImage DEF ShownInv
<1> QED BY <1>2, <1>3, <1>4, <1>5 DEF TilesInv

-----------------------------------------------------------------------------
(* Request threads                                                         *)

LEMMA ReachedIs ==
  ASSUME PageInv, served # <<>>, NEW left, NEW k, Reached(left, k)
  PROVE  /\ left # <<>> /\ Head(left) = Candidates[k] /\ Head(left) \in PackSet
         /\ Len(left) = 1 <=> k = Len(Candidates)
         /\ k # Len(Candidates) /\ Candidates[k] \notin data => Reached(Tail(left), k + 1)
<1> DEFINE n == Len(Candidates)
<1>1. /\ Candidates \in Seq(PackSet) /\ n \in Nat
  BY CandidatesIs
<1>2. /\ k \in 1..n /\ left \in Seq(PackSet) /\ Len(left) = (n - k) + 1
      /\ \A i \in 1..Len(left) : left[i] = Candidates[(k - 1) + i]
      /\ \A i \in 1..(k - 1) : Candidates[i] \notin data
  BY DEF Reached
<1>n. \A m : Reached(Tail(left), m) <=>
        /\ m \in 1..n /\ Tail(left) \in Seq(PackSet) /\ Len(Tail(left)) = (n - m) + 1
        /\ \A i \in 1..Len(Tail(left)) : Tail(left)[i] = Candidates[(m - 1) + i]
        /\ \A i \in 1..(m - 1) : Candidates[i] \notin data
  BY DEF Reached
<1> HIDE DEF n
<1>3. 1 \in 1..Len(left) /\ (k - 1) + 1 = k
  BY <1>1, <1>2
<1>4. left # <<>> /\ Head(left) = left[1]
  BY <1>2, <1>3
<1>5. left[1] = Candidates[k]
  BY <1>2, <1>3
<1>6. left[1] \in PackSet
  BY <1>2, <1>3
<1>7. Len(left) = 1 <=> k = n
  BY <1>1, <1>2
<1>8. ASSUME k # n, Candidates[k] \notin data PROVE Reached(Tail(left), k + 1)
  <2> DEFINE r == Tail(left)
  <2>1. r \in Seq(PackSet) /\ Len(r) = Len(left) - 1
    BY <1>2, <1>4
  <2>2. \A i \in 1..Len(r) : r[i] = left[i + 1] /\ i + 1 \in 1..Len(left)
    BY <1>2, <1>4, <2>1
  <2> HIDE DEF r
  <2>3. k + 1 \in 1..n /\ Len(r) = (n - (k + 1)) + 1
    BY <1>1, <1>2, <1>8, <2>1
  <2>4. ASSUME NEW i \in 1..Len(r) PROVE r[i] = Candidates[((k + 1) - 1) + i]
    <3>1. left[i + 1] = Candidates[(k - 1) + (i + 1)]
      BY <1>2, <2>2
    <3>2. (k - 1) + (i + 1) = ((k + 1) - 1) + i
      BY <1>2
    <3> QED BY <2>2, <3>1, <3>2
  <2>5. ASSUME NEW i \in 1..((k + 1) - 1) PROVE Candidates[i] \notin data
    <3>1. i \in 1..(k - 1) \/ i = k
      BY <1>2
    <3> QED BY <1>2, <1>8, <3>1
  <2>6. /\ k + 1 \in 1..n /\ Tail(left) \in Seq(PackSet)
        /\ Len(Tail(left)) = (n - (k + 1)) + 1
        /\ \A i \in 1..Len(Tail(left)) : Tail(left)[i] = Candidates[((k + 1) - 1) + i]
        /\ \A i \in 1..((k + 1) - 1) : Candidates[i] \notin data
    BY <2>1, <2>3, <2>4, <2>5 DEF r
  <2> QED BY <1>n, <2>6
<1> QED BY <1>4, <1>5, <1>6, <1>7, <1>8 DEF n

(* Thread t's request becomes v.                                           *)
Becomes(t, v) ==
  /\ reqs' = [u \in Threads |-> reqs'[u]] /\ reqs'[t] = v
  /\ \A u \in Threads \ {t} : reqs'[u] = reqs[u]

LEMMA RequestBecomes ==
  ASSUME RequestsInv, NEW t \in Threads, NEW v, Becomes(t, v), RequestInv(v),
         UNCHANGED <<fit, data, served, style, gui, ready>>
  PROVE  RequestsInv'
<1>1. Candidates' = Candidates /\ Twins' = Twins
  BY SameCandidates
<1>2. ASSUME NEW u \in Threads PROVE RequestInv(reqs[u])'
  <2>1. CASE u = t
    <3>1. reqs'[u] = v
      BY <2>1 DEF Becomes
    <3> QED BY <1>1, <3>1 DEF RequestInv, Shaped, Reached
  <2>2. CASE u # t
    <3>1. reqs'[u] = reqs[u] /\ RequestInv(reqs[u])
      BY <2>2 DEF Becomes, RequestsInv
    <3> QED BY <3>1, RequestStays
  <2> QED BY <2>1, <2>2
<1> QED BY <1>2 DEF Becomes, RequestsInv

LEMMA AnswerKeeps ==
  ASSUME ShownInv, RequestsInv, NEW t \in Threads, NEW w, Answer(t, w),
         UNCHANGED <<fit, data, served, style, gui, ready>>,
         w \in Image => /\ Twins \/ \E k : BestAt(w.pack, k)
                        /\ gui = "idle" /\ reqs[t].current /\ ~w.tainted => w.style = style
  PROVE  RequestsInv' /\ ShownInv'
<1>1. Becomes(t, Idle)
  BY DEF Answer, RequestsInv, Becomes
<1>2. RequestInv(Idle)
  BY DEF RequestInv, Shaped, Idle
<1>3. RequestsInv'
  BY <1>1, <1>2, RequestBecomes
<1>4. CASE reqs[t].current
  <2>1. shown' = w
    BY <1>4 DEF Answer
  <2>2. Candidates' = Candidates /\ Twins' = Twins
    BY SameCandidates
  <2> QED BY <1>3, <1>4, <2>1, <2>2 DEF ShownInv, BestAt
<1>5. CASE ~reqs[t].current
  <2>1. shown' = shown
    BY <1>5 DEF Answer
  <2> QED BY <1>3, <2>1, ShownStays
<1> QED BY <1>4, <1>5

LEMMA RequestKeeps ==
  ASSUME TilesInv, NEW t \in Threads, Request(t)
  PROVE  TilesInv'
<1>1. /\ layer = "offline" /\ served # <<>>
      /\ UNCHANGED <<geo, saved, theme, gui, server, cache, page>>
  BY DEF Request
<1>2. PageInv /\ RequestsInv /\ CacheInv /\ ShownInv /\ ready
  BY <1>1 DEF TilesInv, PageInv
<1>3. PageInv' /\ UNCHANGED <<fit, data, served, style, gui, ready>>
  BY <1>1, <1>2, PageStays
<1>4. CacheInv'
  BY <1>1, <1>2, <1>3, EntriesStay DEF CacheInv
<1>5. CASE Candidates = <<>>
  <2>1. shown' = NotFound /\ UNCHANGED reqs
    BY <1>5 DEF Request, Candidates
  <2>2. ShownInv'
    BY <2>1, NoneIsNoImage DEF ShownInv
  <2>3. RequestsInv'
    BY <1>2, <1>3, <2>1, RequestStays DEF RequestsInv
  <2> QED BY <1>3, <1>4, <2>2, <2>3 DEF TilesInv
<1>6. CASE Candidates # <<>>
  <2>0. PICK yes : yes = TRUE
    OBVIOUS
  <2> DEFINE v == [at |-> "lookup", left |-> Candidates, current |-> yes]
  <2>1. reqs' = [reqs EXCEPT ![t] = v] /\ UNCHANGED shown
    BY <1>6, <2>0 DEF Request, Candidates
  <2>2. Becomes(t, v)
    BY <1>2, <2>1 DEF RequestsInv, Becomes
  <2>3. Candidates \in Seq(PackSet) /\ Len(Candidates) \in Nat
    BY <1>1, <1>2, CandidatesIs
  <2>4. Reached(Candidates, 1)
    <3>1. 1 \in 1..Len(Candidates)
      BY <1>6, <2>3
    <3>2. /\ \A i \in 1..Len(Candidates) : (1 - 1) + i = i
          /\ Len(Candidates) = (Len(Candidates) - 1) + 1
          /\ \A i \in 1..(1 - 1) : FALSE
      BY <2>3
    <3> QED BY <2>3, <3>1, <3>2 DEF Reached
  <2>5. RequestInv(v)
    BY <1>1, <1>2, <2>3, <2>4 DEF RequestInv, Shaped
  <2> HIDE DEF v
  <2>6. RequestsInv'
    BY <1>2, <1>3, <2>2, <2>5, RequestBecomes
  <2>7. ShownInv'
    BY <1>2, <1>3, <2>1, ShownStays
  <2> QED BY <1>3, <1>4, <2>6, <2>7 DEF TilesInv
<1> QED BY <1>5, <1>6

(* The next candidate, when this one has no data and is not the last.      *)
LEMMA NextCandidateKeeps ==
  ASSUME PageInv, RequestsInv, NEW t \in Threads, reqs[t].at # "idle", reqs[t].left # <<>>,
         Twins \/ \E k : /\ Reached(reqs[t].left, k)
                        /\ k # Len(Candidates) /\ Candidates[k] \notin data,
         NextCandidate(t), UNCHANGED <<fit, data, served, style, gui, ready>>
  PROVE  RequestsInv'
<1>1. served # <<>> /\ ready /\ reqs[t].left \in Seq(PackSet)
  BY DEF RequestsInv, RequestInv
<1> DEFINE v == [at |-> "lookup", left |-> Tail(reqs[t].left), current |-> reqs[t].current]
<1>2. Becomes(t, v)
  BY DEF NextCandidate, RequestsInv, Becomes
<1>3. Twins \/ \E k : Reached(Tail(reqs[t].left), k)
  <2>1. CASE ~Twins
    <3>1. PICK k : /\ Reached(reqs[t].left, k)
                   /\ k # Len(Candidates) /\ Candidates[k] \notin data
      BY <2>1
    <3>2. Reached(Tail(reqs[t].left), k + 1)
      BY <1>1, <3>1, ReachedIs
    <3> QED BY <3>2
  <2> QED BY <2>1
<1>4. Tail(reqs[t].left) \in Seq(PackSet)
  BY <1>1
<1>5. RequestInv(v)
  BY <1>1, <1>3, <1>4 DEF RequestInv, Shaped
<1> HIDE DEF v
<1> QED BY <1>2, <1>5, RequestBecomes

LEMMA LookUpKeeps ==
  ASSUME TilesInv, NEW t \in Threads, LookUp(t)
  PROVE  TilesInv'
<1>1. reqs[t].at = "lookup" /\ UNCHANGED <<geo, saved, theme, gui, server, page>>
  BY DEF LookUp
<1>2. PageInv /\ RequestsInv /\ CacheInv /\ ShownInv /\ RequestInv(reqs[t])
  BY DEF TilesInv, RequestsInv
<1>3. /\ ready /\ served # <<>> /\ reqs[t].left \in Seq(PackSet)
      /\ Twins \/ \E k : Reached(reqs[t].left, k)
  BY <1>1, <1>2 DEF RequestInv
<1>4. PageInv' /\ UNCHANGED <<fit, data, served, style, gui, ready>>
  BY <1>1, <1>2, <1>3, PageStays
<1>5. CASE reqs[t].left = <<>>
  <2>1. Answer(t, Failed) /\ UNCHANGED cache
    BY <1>5 DEF LookUp
  <2>2. RequestsInv' /\ ShownInv'
    BY <1>2, <1>4, <2>1, AnswerKeeps, NoneIsNoImage
  <2>3. CacheInv'
    BY <1>2, <1>4, <2>1, EntriesStay DEF CacheInv
  <2> QED BY <1>4, <2>2, <2>3 DEF TilesInv
<1>6. CASE reqs[t].left # <<>>
  <2> DEFINE p == Candidate(t)
             found == Lookup(p, style)
             e == found[1]
  <2>1. ASSUME ~Twins
        PROVE  \E k \in 1..Len(Candidates) : Reached(reqs[t].left, k) /\ p = Candidates[k]
    <3>1. PICK k : Reached(reqs[t].left, k)
      BY <1>3, <2>1
    <3>2. k \in 1..Len(Candidates)
      BY <3>1 DEF Reached
    <3> QED BY <1>2, <1>3, <3>1, <3>2, ReachedIs DEF Candidate
  <2>2. /\ cache' = Touched(p, style)
        /\ found = <<>> => /\ UNCHANGED shown
                           /\ reqs' = [reqs EXCEPT ![t] =
                                [at |-> "render", left |-> reqs[t].left, key |-> style,
                                 changes |-> 0, current |-> reqs[t].current]]
        /\ found # <<>> /\ e.value = NoData => NextCandidate(t) /\ UNCHANGED shown
        /\ found # <<>> /\ e.value # NoData => Answer(t, e.value)
    BY <1>6 DEF LookUp
  <2> HIDE DEF p
  <2>3. CacheInv'
    <3>1. IsSequence(cache') /\ ToSet(cache') \subseteq ToSet(cache)
      BY <1>2, <2>2, TouchedIs DEF CacheInv
    <3> QED BY <1>2, <1>4, <3>1, EntriesStay
  <2>4. CASE found = <<>>
    <3> DEFINE v == [at |-> "render", left |-> reqs[t].left, key |-> style, changes |-> 0,
                     current |-> reqs[t].current]
    <3>1. reqs' = [reqs EXCEPT ![t] = v] /\ UNCHANGED shown
      BY <2>2, <2>4
    <3>2. Becomes(t, v)
      BY <1>2, <3>1 DEF RequestsInv, Becomes
    <3>3. style \in Themes
      BY <1>2 DEF PageInv
    <3>4. RequestInv(v)
      BY <1>3, <1>6, <3>3 DEF RequestInv, Shaped
    <3> HIDE DEF v
    <3>5. RequestsInv'
      BY <1>2, <1>4, <3>2, <3>4, RequestBecomes
    <3>6. ShownInv'
      BY <1>2, <1>4, <3>1, ShownStays
    <3> QED BY <1>4, <2>3, <3>5, <3>6 DEF TilesInv
  <2>5. ASSUME found # <<>>
        PROVE  /\ e.stem = StemOf(p) /\ e.style = style /\ EntryInv(e)
    <3>1. e \in ToSet(cache) /\ e.stem = StemOf(p) /\ e.style = style
      BY <1>2, <2>5, LookupIs DEF CacheInv
    <3> QED BY <1>2, <3>1 DEF CacheInv
  <2> HIDE DEF found, e
  <2>6. ASSUME found # <<>>, ~Twins, NEW k \in 1..Len(Candidates), p = Candidates[k]
        PROVE  About(e, Candidates[k])
    BY <2>5, <2>6 DEF EntryInv
  <2>7. CASE found # <<>> /\ e.value = NoData
    <3>1. Twins \/ \E k : /\ Reached(reqs[t].left, k)
                         /\ k # Len(Candidates) /\ Candidates[k] \notin data
      <4>1. CASE ~Twins
        <5>1. PICK k \in 1..Len(Candidates) : Reached(reqs[t].left, k) /\ p = Candidates[k]
          BY <2>1, <4>1
        <5>2. About(e, Candidates[k])
          BY <2>6, <2>7, <4>1, <5>1
        <5> QED BY <2>7, <5>1, <5>2 DEF About, LastCandidate
      <4> QED BY <4>1
    <3>2. RequestsInv'
      BY <1>1, <1>2, <1>4, <1>6, <2>2, <2>7, <3>1, NextCandidateKeeps
    <3>3. ShownInv'
      BY <1>2, <1>4, <2>2, <2>7, ShownStays
    <3> QED BY <1>4, <2>3, <3>2, <3>3 DEF TilesInv
  <2>8. CASE found # <<>> /\ e.value # NoData
    <3> DEFINE w == e.value
    <3>1. gui = "idle" /\ ~w.tainted => w.style = style
      BY <2>5, <2>8 DEF EntryInv
    <3>2. Twins \/ \E k : BestAt(w.pack, k)
      <4>1. CASE ~Twins
        <5>1. PICK k \in 1..Len(Candidates) : Reached(reqs[t].left, k) /\ p = Candidates[k]
          BY <2>1, <4>1
        <5>2. /\ w.pack = Candidates[k]
              /\ Candidates[k] \in data \/ Candidates[k] = Candidates[Len(Candidates)]
          BY <2>6, <2>8, <4>1, <5>1 DEF About, LastCandidate
        <5>3. Candidates[k] \in data \/ k = Len(Candidates)
          <6>1. Len(Candidates) \in 1..Len(Candidates)
            BY <1>2, <1>3, CandidatesIs
          <6> QED BY <1>2, <1>3, <5>2, <6>1, CandidatesIs
        <5>4. BestAt(w.pack, k)
          BY <5>1, <5>2, <5>3 DEF BestAt, Reached
        <5> QED BY <5>4
      <4> QED BY <4>1
    <3>3. Answer(t, w)
      BY <2>2, <2>8
    <3> HIDE DEF w
    <3>4. RequestsInv' /\ ShownInv'
      BY <1>2, <1>4, <3>1, <3>2, <3>3, AnswerKeeps
    <3> QED BY <1>4, <2>3, <3>4 DEF TilesInv
  <2> QED BY <2>4, <2>7, <2>8
<1> QED BY <1>5, <1>6

LEMMA RenderKeeps ==
  ASSUME TilesInv, NEW t \in Threads, Render(t)
  PROVE  TilesInv'
<1>1. reqs[t].at = "render" /\ UNCHANGED <<geo, saved, theme, gui, server, cache, page, shown>>
  BY DEF Render
<1>2. PageInv /\ RequestsInv /\ CacheInv /\ ShownInv /\ RequestInv(reqs[t])
  BY DEF TilesInv, RequestsInv
<1>3. ready /\ style \in Themes
  BY <1>1, <1>2 DEF RequestInv, PageInv
<1>4. PageInv' /\ UNCHANGED <<fit, data, served, style, gui, ready>>
  BY <1>1, <1>2, <1>3, PageStays
<1> DEFINE v == [at |-> "put", left |-> reqs[t].left, key |-> reqs[t].key,
                 changes |-> reqs[t].changes, rendered |-> style,
                 current |-> reqs[t].current]
<1>5. Becomes(t, v)
  BY <1>2 DEF Render, RequestsInv, Becomes
<1>6. RequestInv(v)
  BY <1>1, <1>2, <1>3 DEF RequestInv, Shaped
<1> HIDE DEF v
<1>7. RequestsInv'
  BY <1>2, <1>4, <1>5, <1>6, RequestBecomes
<1>8. CacheInv' /\ ShownInv'
  BY <1>1, <1>2, <1>4, EntriesStay, ShownStays DEF CacheInv
<1> QED BY <1>4, <1>7, <1>8 DEF TilesInv

LEMMA StoreKeeps ==
  ASSUME TilesInv, NEW t \in Threads, Store(t)
  PROVE  TilesInv'
<1> DEFINE r == reqs[t]
           p == Candidate(t)
           image == [pack |-> p, style |-> r.rendered, tainted |-> r.changes > 1]
<1>1. r.at = "put" /\ UNCHANGED <<geo, saved, theme, gui, server, page>>
  BY DEF Store
<1>2. PageInv /\ RequestsInv /\ CacheInv /\ ShownInv /\ RequestInv(r)
  BY DEF TilesInv, RequestsInv
<1>3. /\ ready /\ served # <<>> /\ r.left \in Seq(PackSet) /\ r.left # <<>>
      /\ Twins \/ \E k : Reached(r.left, k)
  BY <1>1, <1>2 DEF RequestInv
<1>4. PageInv' /\ UNCHANGED <<fit, data, served, style, gui, ready>>
  BY <1>1, <1>2, <1>3, PageStays
<1>5. p \in PackSet
  BY <1>3 DEF Candidate
<1>6. ASSUME ~Twins
      PROVE  \E k \in 1..Len(Candidates) :
               /\ Reached(r.left, k) /\ p = Candidates[k]
               /\ IsLast(t) <=> k = Len(Candidates)
  <2>1. PICK k : Reached(r.left, k)
    BY <1>3, <1>6
  <2>2. k \in 1..Len(Candidates)
    BY <2>1 DEF Reached
  <2> QED BY <1>2, <1>3, <2>1, <2>2, ReachedIs DEF Candidate, IsLast
<1>7. /\ IsLast(t) \/ p \in data => Put(p, r.key, image) /\ Answer(t, image)
      /\ ~IsLast(t) /\ p \notin data =>
           Put(p, r.key, NoData) /\ NextCandidate(t) /\ UNCHANGED shown
  BY DEF Store, IsEmptyRender
<1>8. /\ r.changes \in 0..2 /\ r.rendered \in Themes
      /\ r.changes = 0 => r.rendered = style
      /\ r.changes = 1 => r.key # style
      /\ gui = "idle" /\ r.current => r.changes = 0
  BY <1>1, <1>2 DEF RequestInv
<1> HIDE DEF p
<1>9. image.pack = p /\ image.style = r.rendered /\ (image.tainted <=> r.changes > 1)
  OBVIOUS
<1>10. image \in Image
  <2>1. (r.changes > 1) \in BOOLEAN
    OBVIOUS
  <2> HIDE DEF r
  <2> QED BY <1>5, <1>8, <2>1, Zenon DEF Image
<1> HIDE DEF r, image
<1>11. Candidates' = Candidates /\ Twins' = Twins
  BY <1>4, SameCandidates
<1>12. ASSUME NEW x, Put(p, r.key, x), NEW y, y = [stem |-> StemOf(p), style |-> r.key,
                                                  value |-> x], EntryInv(y)
       PROVE  CacheInv'
  <2>1. IsSequence(cache') /\ \A e \in ToSet(cache') : e \in ToSet(cache) \/ e = y
    BY <1>2, <1>12, PutIs DEF CacheInv
  <2>2. ASSUME NEW e \in ToSet(cache') PROVE EntryInv(e)'
    <3>1. EntryInv(e)
      BY <1>2, <1>12, <2>1 DEF CacheInv
    <3> QED BY <1>4, <1>11, <3>1 DEF EntryInv, About, LastCandidate
  <2> QED BY <2>1, <2>2 DEF CacheInv
<1>15. ASSUME ~Twins, NEW y, y.stem = StemOf(p), About(y, p), NEW i \in 1..Len(Candidates),
              StemOf(Candidates[i]) = y.stem
       PROVE  About(y, Candidates[i])
  <2>1. PICK k \in 1..Len(Candidates) : p = Candidates[k]
    BY <1>6, <1>15
  <2>2. i = k
    BY <1>2, <1>3, <1>15, <2>1, StemIsCandidate
  <2> QED BY <1>15, <2>1, <2>2
<1>13. CASE IsLast(t) \/ p \in data
  <2>1. ASSUME ~Twins PROVE (p \in data \/ LastCandidate(p)) /\ \E k : BestAt(p, k)
    <3>1. PICK k \in 1..Len(Candidates) : /\ Reached(r.left, k) /\ p = Candidates[k]
                                          /\ IsLast(t) <=> k = Len(Candidates)
      BY <1>6, <2>1
    <3>2. p \in data \/ k = Len(Candidates)
      BY <1>13, <3>1
    <3>3. BestAt(p, k)
      BY <3>1, <3>2 DEF BestAt, Reached
    <3> QED BY <3>1, <3>2, <3>3 DEF LastCandidate
  <2>3. image # NoData
    BY <1>10, NoneIsNoImage
  <2> DEFINE y == [stem |-> StemOf(p), style |-> r.key, value |-> image]
  <2>4. y.stem = StemOf(p) /\ y.style = r.key /\ y.value = image
    OBVIOUS
  <2>5. EntryInv(y)
    <3>1. gui = "idle" /\ r.key = style /\ ~image.tainted => image.style = style
      BY <1>8, <1>9
    <3> HIDE DEF y
    <3>2. ~Twins => About(y, p)
      BY <1>9, <2>1, <2>3, <2>4 DEF About
    <3>3. Twins \/ \A i \in 1..Len(Candidates) :
                     StemOf(Candidates[i]) = y.stem => About(y, Candidates[i])
      BY <1>15, <2>4, <3>2
    <3> QED BY <2>3, <2>4, <3>1, <3>3 DEF EntryInv
  <2>6. CacheInv'
    BY <1>7, <1>12, <1>13, <2>5
  <2>7. gui = "idle" /\ r.current /\ ~image.tainted => image.style = style
    BY <1>8, <1>9
  <2>8. RequestsInv' /\ ShownInv'
    <3>1. Answer(t, image)
      BY <1>7, <1>13
    <3>2. /\ Twins \/ \E j : BestAt(image.pack, j)
          /\ gui = "idle" /\ reqs[t].current /\ ~image.tainted => image.style = style
      BY <1>9, <2>1, <2>7 DEF r
    <3> QED BY <1>2, <1>4, <3>1, <3>2, AnswerKeeps
  <2> QED BY <1>4, <2>6, <2>8 DEF TilesInv
<1>14. CASE ~IsLast(t) /\ p \notin data
  <2>1. ASSUME ~Twins
        PROVE  /\ ~LastCandidate(p)
               /\ \E k : Reached(r.left, k) /\ k # Len(Candidates) /\ Candidates[k] \notin data
    <3>1. PICK k \in 1..Len(Candidates) : /\ Reached(r.left, k) /\ p = Candidates[k]
                                          /\ IsLast(t) <=> k = Len(Candidates)
      BY <1>6, <2>1
    <3>2. k # Len(Candidates) /\ Candidates[k] \notin data
      BY <1>14, <3>1
    <3>3. Len(Candidates) \in 1..Len(Candidates)
      BY <1>2, <1>3, CandidatesIs
    <3>4. ~LastCandidate(p)
      BY <1>2, <1>3, <3>1, <3>2, <3>3, CandidatesIs DEF LastCandidate
    <3> QED BY <3>1, <3>2, <3>4
  <2> DEFINE y == [stem |-> StemOf(p), style |-> r.key, value |-> NoData]
  <2>2. y.stem = StemOf(p) /\ y.style = r.key /\ y.value = NoData
    OBVIOUS
  <2>3. EntryInv(y)
    <3> HIDE DEF y
    <3>1. ~Twins => About(y, p)
      BY <1>14, <2>1, <2>2 DEF About
    <3>2. Twins \/ \A i \in 1..Len(Candidates) :
                     StemOf(Candidates[i]) = y.stem => About(y, Candidates[i])
      BY <1>15, <2>2, <3>1
    <3> QED BY <2>2, <3>2 DEF EntryInv
  <2>4. CacheInv'
    BY <1>7, <1>12, <1>14, <2>3
  <2>5. RequestsInv'
    <3>1. NextCandidate(t) /\ reqs[t].at # "idle" /\ reqs[t].left # <<>>
      BY <1>1, <1>3, <1>7, <1>14 DEF r
    <3>2. Twins \/ \E k : /\ Reached(reqs[t].left, k)
                         /\ k # Len(Candidates) /\ Candidates[k] \notin data
      BY <2>1 DEF r
    <3> QED BY <1>2, <1>4, <3>1, <3>2, NextCandidateKeeps
  <2>6. ShownInv'
    BY <1>2, <1>4, <1>7, <1>14, ShownStays
  <2> QED BY <1>4, <2>4, <2>5, <2>6 DEF TilesInv
<1> QED BY <1>13, <1>14

LEMMA RenderFailedKeeps ==
  ASSUME TilesInv, NEW t \in Threads, RenderFailed(t)
  PROVE  TilesInv'
<1>1. /\ reqs[t].at = "put" /\ Answer(t, Failed)
      /\ UNCHANGED <<geo, saved, theme, gui, server, cache, page>>
  BY DEF RenderFailed
<1>2. PageInv /\ RequestsInv /\ CacheInv /\ ShownInv /\ RequestInv(reqs[t])
  BY DEF TilesInv, RequestsInv
<1>3. ready
  BY <1>1, <1>2 DEF RequestInv
<1>4. PageInv' /\ UNCHANGED <<fit, data, served, style, gui, ready>>
  BY <1>1, <1>2, <1>3, PageStays
<1>5. RequestsInv' /\ ShownInv'
  BY <1>1, <1>2, <1>4, AnswerKeeps, NoneIsNoImage
<1>6. CacheInv'
  BY <1>1, <1>2, <1>4, EntriesStay DEF CacheInv
<1> QED BY <1>4, <1>5, <1>6 DEF TilesInv

-----------------------------------------------------------------------------
(* The theorems                                                            *)

LEMMA TilesInit == Init => TilesInv
<1> SUFFICES ASSUME Init PROVE TilesInv
  OBVIOUS
<1>1. /\ installed = Paths(DiscoverPacks(Files)) /\ served = <<>> /\ cache = <<>>
      /\ theme \in Themes /\ style = "dark" /\ gui = "idle" /\ ready = FALSE
      /\ pending = <<>> /\ layer = "online" /\ shown = None /\ orphaned = FALSE
      /\ reqs = [t \in Threads |-> Idle]
  BY DEF Init
<1>2. InOrder(installed)
  BY <1>1, FilesAreLoaded, DiscoverySorts
<1>3. IsSequence(pending) /\ IsSequence(cache) /\ ToSet(cache) = {}
  BY <1>1, EmptyIsSequence
<1>4. PageInv
  BY <1>1, <1>2, <1>3 DEF PageInv, Themes
<1>5. ASSUME NEW t \in Threads PROVE RequestInv(reqs[t])
  BY <1>1 DEF RequestInv, Shaped, Idle
<1>6. RequestsInv
  BY <1>1, <1>5 DEF RequestsInv
<1> QED BY <1>1, <1>3, <1>4, <1>6 DEF TilesInv, CacheInv, ShownInv

LEMMA TilesStep == TilesInv /\ [Next]_vars => TilesInv'
<1> SUFFICES ASSUME TilesInv, [Next]_vars PROVE TilesInv'
  OBVIOUS
<1>1. CASE \E t \in Threads : Request(t) \/ LookUp(t) \/ Render(t) \/ Store(t) \/ RenderFailed(t)
  BY <1>1, RequestKeeps, LookUpKeeps, RenderKeeps, StoreKeeps, RenderFailedKeeps
<1>2. CASE UNCHANGED vars
  <2>1. /\ UNCHANGED <<geo, saved, theme, gui, server, cache, reqs, page, shown>>
    BY <1>2 DEF vars, geo, server, page
  <2>2. PageInv' /\ UNCHANGED <<fit, data, served, style, gui, ready>>
    <3>1. ready \/ shown' = None
      BY <2>1 DEF TilesInv, PageInv
    <3> QED BY <2>1, <3>1, PageStays DEF TilesInv
  <2>3. RequestsInv'
    BY <2>1, <2>2, RequestStays DEF RequestsInv, TilesInv
  <2>4. CacheInv'
    BY <2>1, <2>2, EntriesStay DEF CacheInv, TilesInv
  <2>5. ShownInv'
    BY <2>1, <2>2, ShownStays DEF TilesInv
  <2> QED BY <2>2, <2>3, <2>4, <2>5 DEF TilesInv
<1> QED BY <1>1, <1>2, ShowOfflineKeeps, ShowOnlineKeeps, ServerStartFailsKeeps,
           ThemeChangedOnlineKeeps, ThemeChangedKeeps, StyleClearedKeeps, MapReadyKeeps,
           PanKeeps, RestartKeeps DEF Next

LEMMA TilesAlways == Spec => []TilesInv
BY TilesInit, TilesStep, PTL DEF Spec

(* The tile on the page is in the style of the saved theme (set_style      *)
(* against the two reads of self.style in render), unless two style        *)
(* changes overtook its render.                                            *)
THEOREM TilesHaveTheTheme == Spec => []ShownIsTheme
<1>1. TilesInv => ShownIsTheme
  BY DEF TilesInv, ShownInv, PageInv, ShownIsTheme
<1> QED BY <1>1, TilesAlways, PTL

(* The page's layer has a server behind it and is what the user chose      *)
(* (show_offline_pack, mapReady, _restore_basemap_source).                 *)
THEOREM LayerIsServed == Spec => []PageIsServed
<1>1. TilesInv => PageIsServed
  BY CandidatesIs DEF TilesInv, PageInv, PageIsServed
<1> QED BY <1>1, TilesAlways, PTL

(* A request runs out of candidates, and render raises "No pack rendered", *)
(* only when two packs of one stem are among them, for any packs whose     *)
(* paths differ.                                                           *)
THEOREM SomePackAnswers == Spec => []LastIsServed
<1>1. TilesInv => LastIsServed
  <2> SUFFICES ASSUME TilesInv, NEW t \in Threads, reqs[t].at = "lookup",
                      reqs[t].left = <<>>, ~Twins
               PROVE  FALSE
    BY DEF LastIsServed
  <2>1. PageInv /\ RequestInv(reqs[t])
    BY DEF TilesInv, RequestsInv
  <2> QED BY <2>1, ReachedIs DEF RequestInv
<1> QED BY <1>1, TilesAlways, PTL

(* A tile comes from the best pack (packs_for, discover_packs), whatever   *)
(* was cached, evicted or skipped before, unless twins are served.         *)
THEOREM TilesComeFromTheBest == Spec => []ShownIsBest
<1>1. TilesInv => ShownIsBest
  <2> SUFFICES ASSUME TilesInv, shown \in Image, served # <<>>, ~Twins
               PROVE  Best(shown.pack)
    BY DEF ShownIsBest
  <2>1. PageInv
    BY DEF TilesInv
  <2>2. PICK k : BestAt(shown.pack, k)
    BY DEF TilesInv, ShownInv
  <2> DEFINE p == shown.pack
             n == Len(Candidates)
             able == Able
  <2>3. /\ Candidates \in Seq(PackSet) /\ n \in Nat /\ ToSet(Candidates) = able
        /\ \A i, j \in 1..n : i < j => Before(Candidates[i], Candidates[j])
    BY <2>1, CandidatesIs
  <2>4. /\ k \in 1..n /\ p = Candidates[k] /\ (p \in data \/ k = n)
        /\ \A i \in 1..(k - 1) : Candidates[i] \notin data
    BY <2>2 DEF BestAt
  <2>5. DOMAIN Candidates = 1..n
    BY <2>3
  <2>6. \A q \in able : \E i \in 1..n : Candidates[i] = q
    BY <2>3, <2>5 DEF ToSet
  <2>7. p \in able
    BY <2>3, <2>4, <2>5 DEF ToSet
  <2> HIDE DEF p, n, able
  <2>8. ASSUME NEW q \in able \cap data PROVE p \in data /\ (p = q \/ Before(p, q))
    <3>1. PICK i \in 1..n : Candidates[i] = q
      BY <2>6
    <3>2. ~(i < k)
      <4>1. i < k => i \in 1..(k - 1)
        BY <2>3, <2>4
      <4> QED BY <2>4, <3>1, <4>1
    <3>3. CASE i = k
      BY <2>4, <3>1, <3>3
    <3>4. CASE i > k
      <4>1. k # n /\ k < i
        BY <2>3, <2>4, <3>4
      <4> QED BY <2>3, <2>4, <3>1, <4>1
    <3> QED BY <2>3, <2>4, <3>2, <3>3, <3>4
  <2>9. ASSUME able \cap data = {}, NEW q \in able PROVE p = q \/ Before(q, p)
    <3>1. PICK i \in 1..n : Candidates[i] = q
      BY <2>6
    <3>2. k = n
      BY <2>4, <2>7, <2>9
    <3>3. i = k \/ i < k
      BY <2>3, <3>2
    <3> QED BY <2>3, <2>4, <3>1, <3>3
  <2> QED BY <2>7, <2>8, <2>9 DEF Best, able, p
<1> QED BY <1>1, TilesAlways, PTL

-----------------------------------------------------------------------------
(***************************************************************************)
(* The setup of packs, the other component that builds on MapPacks.  Its   *)
(* queue of setup regions is driven, for all bounds.  The property is      *)
(* inductive once the two queues are known to be sequences, whatever they  *)
(* hold: a driver moves from the inbox to the worker to the reports, and   *)
(* the report that uses it up puts the next one into the inbox.            *)
(***************************************************************************)
(* The operations and the reports that move the setup queue on.            *)
Queued == \E i \in DOMAIN inbox : inbox[i].kind \in Provisions
Reported == \E i \in DOMAIN reports : reports[i][1] \in Provisions
Working == at # "idle" /\ op.kind \in Provisions

LEMMA AppendKeeps ==
  ASSUME NEW s, NEW x, IsSequence(s)
  PROVE  /\ IsSequence(Append(s, x))
         /\ \A i \in DOMAIN s : i \in DOMAIN Append(s, x) /\ Append(s, x)[i] = s[i]
         /\ \E i \in DOMAIN Append(s, x) : Append(s, x)[i] = x
<1>1. PICK S : s \in Seq(S)
  BY DEF IsSequence
<1> DEFINE T == S \cup {x}
<1>2. s \in Seq(T) /\ x \in T
  BY <1>1
<1> HIDE DEF T
<1>3. Append(s, x) \in Seq(T)
  BY <1>2
<1>4. Len(Append(s, x)) = Len(s) + 1 /\ Len(s) \in Nat /\ DOMAIN s = 1..Len(s)
  BY <1>2
<1>5. DOMAIN Append(s, x) = 1..(Len(s) + 1)
  BY <1>3, <1>4
<1>6. /\ \A i \in 1..Len(s) : Append(s, x)[i] = s[i]
      /\ Append(s, x)[Len(s) + 1] = x
  BY <1>2
<1> QED BY <1>3, <1>4, <1>5, <1>6 DEF IsSequence

LEMMA TailKeeps ==
  ASSUME NEW s, IsSequence(s), s # <<>>
  PROVE  /\ IsSequence(Tail(s)) /\ Head(s) = s[1]
         /\ \A i \in DOMAIN s : s[i] = Head(s) \/ \E j \in DOMAIN Tail(s) : Tail(s)[j] = s[i]
<1>1. PICK S : s \in Seq(S)
  BY DEF IsSequence
<1>2. /\ Tail(s) \in Seq(S) /\ Head(s) = s[1]
      /\ Len(s) \in Nat /\ Len(s) >= 1 /\ DOMAIN s = 1..Len(s)
      /\ Len(Tail(s)) = Len(s) - 1
  BY <1>1
<1>3. DOMAIN Tail(s) = 1..(Len(s) - 1)
  BY <1>2
<1>4. \A j \in 1..(Len(s) - 1) : Tail(s)[j] = s[j + 1]
  BY <1>1, <1>2
<1>5. ASSUME NEW i \in DOMAIN s, i # 1
      PROVE  \E j \in DOMAIN Tail(s) : Tail(s)[j] = s[i]
  <2>1. i - 1 \in DOMAIN Tail(s) /\ (i - 1) + 1 = i
    BY <1>2, <1>3, <1>5
  <2> QED BY <1>3, <1>4, <2>1
<1> QED BY <1>2, <1>5 DEF IsSequence

DrivenInv == IsSequence(inbox) /\ IsSequence(reports) /\ QueueIsDriven

(* ProvisionNext leaves the queue driven.                                  *)
LEMMA NextIsDriven ==
  ASSUME IsSequence(inbox), NEW regions, ProvisionNext(regions)
  PROVE  /\ IsSequence(inbox')
         /\ queue' = <<>> \/ stalled' \/ Queued'
<1>1. CASE regions = <<>>
  BY <1>1 DEF ProvisionNext
<1>2. CASE regions # <<>> /\ tools = "all"
  <2> DEFINE o == SetupOperation(Head(regions))
  <2>1. inbox' = Append(inbox, o) /\ o.kind \in Provisions
    BY <1>2 DEF ProvisionNext, ProvisionMapPack, SetupOperation,
                Provisions, Operations
  <2> HIDE DEF o
  <2> QED BY <2>1, AppendKeeps DEF Queued
<1>3. CASE regions # <<>> /\ tools # "all"
  BY <1>3 DEF ProvisionNext, ProvisionMapPack
<1> QED BY <1>1, <1>2, <1>3

(* Report passes the driver on from the worker to the window.              *)
LEMMA ReportPasses ==
  ASSUME IsSequence(reports), NEW success, Report(success)
  PROVE  /\ IsSequence(reports')
         /\ window = "open" /\ (Working \/ Reported) => Reported'
<1>1. CASE window = "open"
  <2> DEFINE r == <<op.kind, success>>
  <2>1. reports' = Append(reports, r) /\ r[1] = op.kind
    BY <1>1 DEF Report
  <2> HIDE DEF r
  <2>2. /\ IsSequence(reports')
        /\ \A i \in DOMAIN reports : i \in DOMAIN reports' /\ reports'[i] = reports[i]
        /\ \E i \in DOMAIN reports' : reports'[i] = r
    BY <2>1, AppendKeeps
  <2> QED BY <2>1, <2>2 DEF Working, Reported
<1>2. CASE window # "open"
  <2>1. reports' = <<>>
    BY <1>2 DEF Report
  <2>2. <<>> \in Seq({})
    OBVIOUS
  <2> QED BY <1>2, <2>1, <2>2 DEF IsSequence
<1> QED BY <1>1, <1>2

LEMMA DrivenStep == DrivenInv /\ [SetupNext]_setupVars => DrivenInv'
<1> SUFFICES ASSUME DrivenInv, [SetupNext]_setupVars PROVE DrivenInv'
  OBVIOUS
<1> USE DEF DrivenInv, dialog, process, history
<1>0. QueueIsDriven = (queue # <<>> /\ window = "open" /\ ~stalled
                       => Working \/ Queued \/ Reported)
  BY DEF QueueIsDriven, Working, Queued, Reported
<1>00. QueueIsDriven' = (queue' # <<>> /\ window' = "open" /\ ~stalled'
                         => Working' \/ Queued' \/ Reported')
  BY DEF QueueIsDriven, Working, Queued, Reported
<1>same. ASSUME UNCHANGED <<queue, inbox, at, op, reports, window, stalled>>
         PROVE  DrivenInv'
  BY <1>same, <1>0, <1>00 DEF Working, Queued, Reported
<1>1. CASE \/ \E force \in BOOLEAN : OpenWizard(force)
           \/ \E r \in Region : AddRegion(r)
           \/ WizardStep \/ CancelWizard \/ ToolEnds \/ ToolsChange
  BY <1>1, <1>same DEF OpenWizard, WizardStep, CancelWizard,
                       AddRegion, ToolEnds, ToolsChange
<1>2. CASE FinishWizard
  <2>1. /\ UNCHANGED <<at, op, reports, window>>
        /\ UNCHANGED <<queue, inbox, stalled>> \/ \E regions : ProvisionNext(regions)
    BY <1>2 DEF FinishWizard
  <2>2. CASE UNCHANGED <<queue, inbox, stalled>>
    BY <2>1, <2>2, <1>same
  <2>3. CASE \E regions : ProvisionNext(regions)
    <3>1. IsSequence(inbox') /\ (queue' = <<>> \/ stalled' \/ Queued')
      BY <2>3, NextIsDriven
    <3> QED BY <2>1, <3>1, <1>00
  <2> QED BY <2>1, <2>2, <2>3
<1>3. ASSUME NEW o, inbox' = Append(inbox, o),
             UNCHANGED <<queue, at, op, reports, window, stalled>>
      PROVE  DrivenInv'
  <2>1. IsSequence(inbox') /\ (Queued => Queued')
    BY <1>3, AppendKeeps DEF Queued
  <2>2. (Working' <=> Working) /\ (Reported' <=> Reported)
    BY <1>3 DEF Working, Reported
  <2> QED BY <1>3, <2>1, <2>2, <1>0, <1>00
<1>4. CASE \E kind \in {"cut", "preview"} : CutPack(kind)
  BY <1>4, <1>3, <1>same DEF CutPack
<1>5. CASE VerifyDirectory
  BY <1>5, <1>3, <1>same DEF VerifyDirectory
<1>6. CASE HandleReport
  <2>1. /\ window = "open" /\ reports # <<>> /\ reports' = Tail(reports)
        /\ UNCHANGED <<at, op, window>>
    BY <1>6 DEF HandleReport
  <2>2. /\ IsSequence(reports')
        /\ \A i \in DOMAIN reports :
             reports[i] = Head(reports) \/ \E j \in DOMAIN reports' : reports'[j] = reports[i]
    BY <2>1, TailKeeps
  <2>3. CASE Head(reports)[1] \in Provisions
    <3>1. (queue' = <<>> /\ UNCHANGED <<inbox, stalled>>) \/ ProvisionNext(queue)
      BY <1>6, <2>3 DEF HandleReport
    <3>2. IsSequence(inbox') /\ (queue' = <<>> \/ stalled' \/ Queued')
      BY <3>1, NextIsDriven
    <3> QED BY <2>2, <3>2, <1>00
  <2>4. CASE Head(reports)[1] \notin Provisions
    <3>1. UNCHANGED <<queue, inbox, stalled>>
      BY <1>6, <2>4 DEF HandleReport
    <3>2. Reported => Reported'
      BY <2>2, <2>4 DEF Reported
    <3>3. (Working' <=> Working) /\ (Queued' <=> Queued)
      BY <2>1, <3>1 DEF Working, Queued
    <3> QED BY <2>1, <2>2, <3>1, <3>2, <3>3, <1>0, <1>00
  <2> QED BY <2>3, <2>4
<1>7. CASE Begin
  <2>1. /\ at = "idle" /\ inbox # <<>> /\ op' = Head(inbox) /\ inbox' = Tail(inbox)
        /\ at' # "idle" /\ UNCHANGED <<queue, reports, window, stalled>>
    BY <1>7 DEF Begin
  <2>2. /\ IsSequence(inbox')
        /\ \A i \in DOMAIN inbox :
             inbox[i] = Head(inbox) \/ \E j \in DOMAIN inbox' : inbox'[j] = inbox[i]
    BY <2>1, TailKeeps
  <2>3. Queued => Working' \/ Queued'
    BY <2>1, <2>2 DEF Queued, Working
  <2>4. (Reported' <=> Reported) /\ ~Working
    BY <2>1 DEF Reported, Working
  <2> QED BY <2>1, <2>2, <2>3, <2>4, <1>0, <1>00
<1>8. ASSUME NEW success, Report(success), UNCHANGED <<queue, inbox, window, stalled>>
      PROVE  DrivenInv'
  <2>1. IsSequence(reports') /\ (window = "open" /\ (Working \/ Reported) => Reported')
    BY <1>8, ReportPasses
  <2>2. Queued' <=> Queued
    BY <1>8 DEF Queued
  <2> QED BY <1>8, <2>1, <2>2, <1>0, <1>00
<1>9. ASSUME at # "idle", at' # "idle", UNCHANGED <<queue, inbox, op, reports, window, stalled>>
      PROVE  DrivenInv'
  BY <1>9, <1>0, <1>00 DEF Working, Queued, Reported
<1>10. CASE CannotBuild
  BY <1>10, <1>8 DEF CannotBuild
<1>11. CASE Launch
  BY <1>11, <1>9 DEF Launch
<1>12. CASE OnStart
  BY <1>12, <1>9 DEF OnStart
<1>13. CASE BuildDone
  <2>1. /\ at = "running" /\ UNCHANGED <<queue, inbox, window, stalled>>
        /\ \/ Report(FALSE) \/ Report(TRUE)
           \/ at' = "verify" /\ UNCHANGED <<op, reports>>
    BY <1>13 DEF BuildDone
  <2> QED BY <2>1, <1>8, <1>9
<1>14. CASE VerifyDone \/ StagedVerified
  <2>1. UNCHANGED <<queue, inbox, window, stalled>> /\ \E b : Report(b)
    BY <1>14 DEF VerifyDone, StagedVerified, Verified
  <2> QED BY <2>1, <1>8
<1>15. CASE Close
  <2>1. window' = "closing" /\ reports' = <<>> /\ UNCHANGED inbox
    BY <1>15 DEF Close
  <2>2. <<>> \in Seq({})
    OBVIOUS
  <2> QED BY <2>1, <2>2, <1>00 DEF IsSequence
<1>16. CASE ThreadEnds
  BY <1>16, <1>00 DEF ThreadEnds
<1>17. CASE UNCHANGED setupVars
  BY <1>17, <1>same DEF setupVars
<1> QED BY <1>1, <1>2, <1>4, <1>5, <1>6, <1>7, <1>10, <1>11, <1>12, <1>13, <1>14, <1>15,
           <1>16, <1>17 DEF SetupNext, WorkerStep

(* While setup regions wait, a provision is queued, running or about to be *)
(* reported (_on_orcmaps_completed), whatever the user starts in between,  *)
(* unless a region was refused without a report.                           *)
THEOREM SetupQueueIsDriven == SetupSpec => []QueueIsDriven
<1>1. SetupInit => DrivenInv
  <2> SUFFICES ASSUME SetupInit PROVE DrivenInv
    OBVIOUS
  <2>1. inbox = <<>> /\ reports = <<>> /\ queue = <<>>
    BY DEF SetupInit
  <2>2. <<>> \in Seq({})
    OBVIOUS
  <2> QED BY <2>1, <2>2 DEF DrivenInv, IsSequence, QueueIsDriven
<1>2. DrivenInv => QueueIsDriven
  BY DEF DrivenInv
<1> QED BY <1>1, <1>2, DrivenStep, PTL DEF SetupSpec
=============================================================================
