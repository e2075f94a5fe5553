-------------------------- MODULE Ingestor_proofs --------------------------
(***************************************************************************)
(* The packet ingestor and the node rows it feeds, for any set of nodes,   *)
(* packets and node lists, any window, table and queue size.  Three        *)
(* strengthenings, one per history the properties compare with:            *)
(* Observed follows an observation through memory and queue to its row,    *)
(* Counted follows the counters the same way (a write pending for a node   *)
(* may be older than its snapshot, the last one is not), and Deduplicated  *)
(* says which part of the recorded keys the duplicate table still holds.   *)
(***************************************************************************)
EXTENDS Ingestor, Integers, SequenceTheorems, WellFoundedInduction, TLAPS
-----------------------------------------------------------------------------
(* Sequences of writes                                                     *)

\* The members of a sequence of writes, and the nodes among them.
Elements(s) == {s[i] : i \in DOMAIN s}
NodesIn(S) == {e.n : e \in {x \in S : x.kind = "node"}}

\* The entries of the write queue.
Entries == [kind : {"node"}, n : Nodes, snap : Snapshots]
           \cup {Other(k) : k \in {"position", "telemetry", "packet"}}

LEMMA ConcatElements ==
  ASSUME NEW S, NEW s \in Seq(S), NEW t \in Seq(S)
  PROVE  /\ s \o t \in Seq(S)
         /\ Len(s \o t) = Len(s) + Len(t)
         /\ Elements(s \o t) = Elements(s) \cup Elements(t)
<1>1. /\ s \o t \in Seq(S) /\ Len(s \o t) = Len(s) + Len(t)
      /\ DOMAIN (s \o t) = 1..(Len(s) + Len(t))
      /\ \A i \in 1..Len(s) : (s \o t)[i] = s[i]
      /\ \A i \in 1..Len(t) : (s \o t)[Len(s) + i] = t[i]
      /\ DOMAIN s = 1..Len(s) /\ DOMAIN t = 1..Len(t)
      /\ Len(s) \in Nat /\ Len(t) \in Nat
  OBVIOUS
<1>2. ASSUME NEW i \in 1..(Len(s) + Len(t)) PROVE (s \o t)[i] \in Elements(s) \cup Elements(t)
  <2>1. CASE i <= Len(s)
    BY <1>1, <2>1 DEF Elements
  <2>2. CASE i > Len(s)
    <3>1. i - Len(s) \in 1..Len(t) /\ i = Len(s) + (i - Len(s))
      BY <1>1, <2>2
    <3>2. (s \o t)[i] = t[i - Len(s)]
      BY <1>1, <3>1
    <3> QED BY <1>1, <3>1, <3>2 DEF Elements
  <2> QED BY <1>1, <2>1, <2>2
<1>3. Elements(s \o t) \subseteq Elements(s) \cup Elements(t)
  BY <1>1, <1>2 DEF Elements
<1>4. Elements(s) \subseteq Elements(s \o t)
  BY <1>1 DEF Elements
<1>5. Elements(t) \subseteq Elements(s \o t)
  <2> SUFFICES ASSUME NEW i \in 1..Len(t) PROVE t[i] \in Elements(s \o t)
    BY <1>1 DEF Elements
  <2>1. Len(s) + i \in 1..(Len(s) + Len(t)) /\ (s \o t)[Len(s) + i] = t[i]
    BY <1>1
  <2> QED BY <1>1, <2>1 DEF Elements
<1> QED BY <1>1, <1>3, <1>4, <1>5

LEMMA SingleElements ==
  ASSUME NEW S, NEW x \in S
  PROVE  <<x>> \in Seq(S) /\ Len(<<x>>) = 1 /\ Elements(<<x>>) = {x}
BY DEF Elements

LEMMA EmptyElements == \A S : <<>> \in Seq(S) /\ Len(<<>>) = 0 /\ Elements(<<>>) = {}
BY DEF Elements

\* A sequence cut in two.
LEMMA CutElements ==
  ASSUME NEW S, NEW s \in Seq(S), NEW m \in 0..Len(s)
  PROVE  /\ SubSeq(s, 1, m) \in Seq(S) /\ Len(SubSeq(s, 1, m)) = m
         /\ SubSeq(s, m + 1, Len(s)) \in Seq(S)
         /\ Elements(SubSeq(s, 1, m)) \cup Elements(SubSeq(s, m + 1, Len(s))) = Elements(s)
<1>0. Len(s) \in Nat /\ DOMAIN s = 1..Len(s) /\ m \in Nat /\ m <= Len(s)
      /\ \A i \in 1..Len(s) : s[i] \in S
  OBVIOUS
<1>1. /\ SubSeq(s, 1, m) = [i \in 1..m |-> s[i]]
  BY <1>0
<1>2. SubSeq(s, m + 1, Len(s)) = [i \in 1..(Len(s) - m) |-> s[i + m]]
  BY <1>0
<1>3. SubSeq(s, 1, m) \in Seq(S) /\ Len(SubSeq(s, 1, m)) = m
  BY <1>0, <1>1, IsASeq
<1>4. SubSeq(s, m + 1, Len(s)) \in Seq(S)
  BY <1>0, <1>2, IsASeq
<1>5. Elements(SubSeq(s, 1, m)) = {s[i] : i \in 1..m}
  BY <1>1 DEF Elements
<1>6. Elements(SubSeq(s, m + 1, Len(s))) = {s[i + m] : i \in 1..(Len(s) - m)}
  BY <1>2 DEF Elements
<1>7. \A i \in 1..Len(s) : i \in 1..m \/ (i - m \in 1..(Len(s) - m) /\ (i - m) + m = i)
  BY <1>0
<1>8. \A i \in 1..(Len(s) - m) : i + m \in 1..Len(s)
  BY <1>0
<1>9. \A i \in 1..m : i \in 1..Len(s)
  BY <1>0
<1>10. Elements(s) \subseteq {s[i] : i \in 1..m} \cup {s[i + m] : i \in 1..(Len(s) - m)}
  BY <1>0, <1>7 DEF Elements
<1>11. {s[i] : i \in 1..m} \cup {s[i + m] : i \in 1..(Len(s) - m)} \subseteq Elements(s)
  BY <1>0, <1>8, <1>9 DEF Elements
<1> QED BY <1>3, <1>4, <1>5, <1>6, <1>10, <1>11

LEMMA TailElements ==
  ASSUME NEW S, NEW s \in Seq(S), s # <<>>
  PROVE  /\ Tail(s) \in Seq(S) /\ Len(Tail(s)) = Len(s) - 1 /\ Head(s) \in S
         /\ Elements(s) = Elements(Tail(s)) \cup {Head(s)}
<1>1. /\ Tail(s) \in Seq(S) /\ Len(Tail(s)) = Len(s) - 1 /\ Head(s) \in S
      /\ Head(s) = s[1] /\ \A i \in 1..Len(Tail(s)) : Tail(s)[i] = s[i + 1]
      /\ Len(s) \in Nat \ {0} /\ DOMAIN s = 1..Len(s)
      /\ DOMAIN Tail(s) = 1..(Len(s) - 1)
  BY HeadTailProperties, EmptySeq, LenProperties
<1>2. Elements(s) \subseteq Elements(Tail(s)) \cup {Head(s)}
  <2> SUFFICES ASSUME NEW i \in 1..Len(s) PROVE s[i] \in Elements(Tail(s)) \cup {Head(s)}
    BY <1>1 DEF Elements
  <2>1. CASE i = 1
    BY <1>1, <2>1
  <2>2. CASE i # 1
    <3>1. i - 1 \in 1..(Len(s) - 1) /\ (i - 1) + 1 = i
      BY <1>1, <2>2
    <3>2. Tail(s)[i - 1] = s[i]
      BY <1>1, <3>1
    <3> QED BY <1>1, <3>1, <3>2 DEF Elements
  <2> QED BY <2>1, <2>2
<1>3. Elements(Tail(s)) \cup {Head(s)} \subseteq Elements(s)
  <2>1. \A i \in 1..(Len(s) - 1) : i + 1 \in 1..Len(s)
    BY <1>1
  <2>2. 1 \in 1..Len(s)
    BY <1>1
  <2> QED BY <1>1, <2>1, <2>2 DEF Elements
<1> QED BY <1>1, <1>2, <1>3

\* The natural numbers by induction, for a set instead of a predicate.
LEMMA LeastNat ==
  ASSUME NEW T \in SUBSET Nat, T # {}
  PROVE  \E x \in T : \A y \in T : x <= y
<1> DEFINE R == {ss \in Nat \X Nat : ss[1] < ss[2]}
<1>1. IsWellFoundedOn(R, Nat)
  BY NatLessThanWellFounded DEF OpToRel
<1>2. \A x, y \in Nat : x < y => <<x, y>> \in R
  OBVIOUS
<1> HIDE DEF R
<1>3. PICK x \in T : \A y \in T : ~(<<y, x>> \in R)
  BY <1>1, WFMin
<1>4. ASSUME NEW y \in T PROVE x <= y
  <2>1. x \in Nat /\ y \in Nat
    OBVIOUS
  <2>2. ~(y < x)
    BY <1>2, <1>3, <2>1
  <2> QED BY <2>1, <2>2
<1> QED BY <1>4

LEMMA SetInduction ==
  ASSUME NEW S, 0 \in S, \A n \in Nat : n \in S => n + 1 \in S
  PROVE  Nat \subseteq S
<1> SUFFICES ASSUME Nat \ S # {} PROVE FALSE
  OBVIOUS
<1>1. PICK m \in Nat \ S : \A y \in Nat \ S : m <= y
  BY LeastNat
<1>2. m - 1 \in Nat /\ (m - 1) + 1 = m
  BY <1>1
<1>3. m - 1 \notin Nat \ S
  BY <1>1, <1>2
<1> QED BY <1>1, <1>2, <1>3
-----------------------------------------------------------------------------
(* Types                                                                   *)

IngestType ==
  /\ now \in Nat /\ wall \in Nat /\ running \in BOOLEAN /\ blind \in BOOLEAN
  /\ nodes \in [Nodes -> Snapshots \cup {None}]
  /\ rows \in [Nodes -> Snapshots \cup {None}]
  /\ queue \in Seq(Entries) /\ Len(queue) <= QueueMax
  /\ heard \in [Nodes -> [Counters -> Nat]]
  /\ base \in [Nodes -> [Counters -> Int]]
  /\ seenObs \in SUBSET [n : Nodes, at : Nat, obs : Observations]

\* A snapshot or row with an id.
Knows(s) == s # None /\ s.id # None

LEMMA NewSnapshotType ==
  /\ NewSnapshot \in Snapshots /\ NewSnapshot.last = NoObs
  /\ \A k \in Counters : NewSnapshot.cnt[k] = 0
BY DEF NewSnapshot, Snapshots, Ids, Names, Zero, Observations

LEMMA UpdateNodeFacts ==
  ASSUME IngestType, NEW p \in RawPackets, p.from \in Nodes
  PROVE  /\ UpdateNode(p) \in Snapshots
         /\ UpdateNode(p).heard = wall
         /\ UpdateNode(p).last = Observation(p)
         /\ \A k \in Counters : UpdateNode(p).cnt[k] =
              (IF nodes[p.from] = None THEN 0 ELSE nodes[p.from].cnt[k])
                + (IF Counts(p, k) THEN 1 ELSE 0)
         /\ Knows(nodes[p.from]) => Knows(UpdateNode(p))
<1> DEFINE fresh == [NewSnapshot EXCEPT !.id = p.fromId]
           old == IF nodes[p.from] = None THEN fresh ELSE nodes[p.from]
           id == IF p.user = None THEN old.id ELSE OrElse(old.id, OrElse(p.userId, p.fromId))
<1>0. /\ p.fromId \in Ids /\ p.userId \in Ids /\ p.user \in Names
      /\ Observation(p) \in Observations
  BY DEF Ids, Names, Observations
<1>1. fresh \in Snapshots /\ \A k \in Counters : fresh.cnt[k] = 0
  BY <1>0, NewSnapshotType DEF Snapshots
<1> HIDE DEF fresh
<1>2. old \in Snapshots
  BY <1>1 DEF IngestType
<1>3. wall \in Nat
  BY DEF IngestType
<1>4. UpdateNode(p) = [id |-> id, name |-> OrElse(p.user, old.name),
                       heard |-> wall, cnt |-> Raise(old.cnt, p), last |-> Observation(p)]
  BY DEF UpdateNode, fresh
<1>5. old.cnt \in [Counters -> Nat] /\ old.name \in Names /\ old.id \in Ids
  <2> HIDE DEF old
  <2> QED BY <1>2 DEF Snapshots
<1>6. Raise(old.cnt, p) \in [Counters -> Nat]
  BY <1>5 DEF Raise
<1>7. \A k \in Counters : Raise(old.cnt, p)[k] = old.cnt[k] + (IF Counts(p, k) THEN 1 ELSE 0)
  BY <1>5 DEF Raise
<1>8. id \in Ids /\ OrElse(p.user, old.name) \in Names
  BY <1>0, <1>5 DEF OrElse
<1>9. \A k \in Counters : old.cnt[k] =
        IF nodes[p.from] = None THEN 0 ELSE nodes[p.from].cnt[k]
  BY <1>1
<1>10. Knows(nodes[p.from]) => id # None
  BY DEF Knows, OrElse
<1> HIDE DEF old, id
<1>11. UpdateNode(p) \in Snapshots
  BY <1>0, <1>3, <1>4, <1>6, <1>8 DEF Snapshots
<1>12. UpdateNode(p).id = id /\ UpdateNode(p) # None
  BY <1>4, <1>11, NoneAssumption
<1> QED BY <1>4, <1>7, <1>9, <1>10, <1>11, <1>12 DEF Knows

\* An entry of a NodeDB list raises no counter and touches no observation.
LEMMA SeedFromEntryFacts ==
  ASSUME NEW old \in Snapshots \cup {None}, NEW list \in NodeDBs, NEW i \in DOMAIN list
  PROVE  LET new == SeedFromEntry(old, list[i])
         IN  /\ new \in Snapshots
             /\ old = None => new.last = NoObs /\ \A k \in Counters : new.cnt[k] = 0
             /\ old # None => /\ new.last = old.last /\ new.cnt = old.cnt
                              /\ old.heard # None => new.heard = old.heard
             /\ Knows(old) => Knows(new)
<1> DEFINE node == IF old = None THEN NewSnapshot ELSE old
<1> DEFINE e == list[i]
<1>1. node \in Snapshots
  BY NewSnapshotType
<1>2. e.id \in Ids /\ e.name \in Names /\ e.lastHeard \in Nat \cup {None}
  BY InputAssumption DEF Ids, Names
<1>3. SeedFromEntry(old, e) =
        [node EXCEPT !.id = OrElse(e.id, @), !.name = OrElse(e.name, @),
                     !.heard = OrElse(@, e.lastHeard)]
  BY DEF SeedFromEntry
<1>4. /\ old = None => node = NewSnapshot
      /\ old # None => node = old
  OBVIOUS
<1> HIDE DEF node, e
<1>5. /\ SeedFromEntry(old, e) \in Snapshots
      /\ SeedFromEntry(old, e).last = node.last
      /\ SeedFromEntry(old, e).cnt = node.cnt
      /\ node.heard # None => SeedFromEntry(old, e).heard = node.heard
      /\ node.id # None => SeedFromEntry(old, e).id # None
  BY <1>1, <1>2, <1>3 DEF Snapshots, OrElse
<1> QED BY <1>4, <1>5, NewSnapshotType, NoneAssumption DEF e, Knows

LEMMA UpsertFacts ==
  ASSUME NEW row \in Snapshots \cup {None}, NEW snap \in Snapshots
  PROVE  /\ Upsert(row, snap) \in Snapshots
         /\ \A k \in Counters : Upsert(row, snap).cnt[k] >= snap.cnt[k]
         /\ row = None => Upsert(row, snap) = snap
         /\ row # None =>
              /\ \A k \in Counters : Upsert(row, snap).cnt[k] >= row.cnt[k]
              /\ row.heard # None => /\ Upsert(row, snap).heard # None
                                     /\ Upsert(row, snap).heard >= row.heard
              /\ row.name # None => Upsert(row, snap).name # None
              /\ Upsert(row, snap).id = snap.id
              /\ \/ /\ Upsert(row, snap).heard = snap.heard
                    /\ Upsert(row, snap).last = snap.last
                 \/ /\ Upsert(row, snap).heard = row.heard
                    /\ Upsert(row, snap).last = row.last
<1>0. /\ snap.id \in Ids /\ snap.name \in Names /\ snap.heard \in Nat \cup {None}
      /\ snap.cnt \in [Counters -> Nat] /\ snap.last \in Observations
  BY DEF Snapshots
<1>1. CASE row = None
  BY <1>0, <1>1 DEF Upsert
<1>2. CASE row # None
  <2>0. /\ row.name \in Names /\ row.heard \in Nat \cup {None}
        /\ row.cnt \in [Counters -> Nat] /\ row.last \in Observations
    BY <1>2 DEF Snapshots
  <2> DEFINE new == Upsert(row, snap)
  <2>1. new = [id    |-> snap.id,
               name  |-> OrElse(snap.name, row.name),
               heard |-> IF Newer(row, snap) THEN snap.heard ELSE row.heard,
               cnt   |-> [k \in Counters |-> MaxOf(snap.cnt[k], row.cnt[k])],
               last  |-> IF Newer(row, snap) THEN snap.last ELSE row.last]
    BY <1>2 DEF Upsert
  <2> HIDE DEF new
  <2>2. /\ new.cnt \in [Counters -> Nat]
        /\ \A k \in Counters : new.cnt[k] >= snap.cnt[k] /\ new.cnt[k] >= row.cnt[k]
    BY <1>0, <2>0, <2>1 DEF MaxOf
  <2>3. /\ new.id = snap.id /\ new.name \in Names /\ new.heard \in Nat \cup {None}
        /\ new.last \in Observations
    BY <1>0, <2>0, <2>1 DEF OrElse
  <2>4. new \in Snapshots
    BY <1>0, <2>1, <2>2, <2>3 DEF Snapshots
  <2>5. row.heard # None => new.heard # None /\ new.heard >= row.heard
    BY <1>0, <2>0, <2>1, NoneAssumption DEF Newer
  <2>6. row.name # None => new.name # None
    BY <2>1 DEF OrElse
  <2> QED BY <1>2, <2>1, <2>2, <2>3, <2>4, <2>5, <2>6 DEF new
<1> QED BY <1>1, <1>2

\* The writes of one packet.
LEMMA WritesOfFacts ==
  ASSUME NEW p \in RawPackets, NEW snap, p.from # None => snap \in Snapshots
  PROVE  LET ws == WritesOf(p, snap)
         IN  /\ ws \in Seq(Entries)
             /\ \A e \in Elements(ws) : e.kind = "node" =>
                  p.from # None /\ e.n = p.from /\ e.snap = snap
             /\ p.from # None => NodeWrite(p.from, snap) \in Elements(ws)
<1> DEFINE a == IF p.from = None THEN <<>> ELSE <<NodeWrite(p.from, snap)>>
           port == CoercePortnum(p.portnum)
           b == CASE port = "position"  -> PositionWrites(p)
                  [] port = "telemetry" -> TelemetryWrites(p, snap)
                  [] OTHER -> <<>>
           c == <<Other("packet")>>
<1>1. /\ Other("position") \in Entries /\ Other("telemetry") \in Entries
      /\ Other("packet") \in Entries
      /\ \A k \in {"position", "telemetry", "packet"} : Other(k).kind # "node"
  BY DEF Entries, Other
<1>2. p.from # None => NodeWrite(p.from, snap) \in Entries
  BY InputAssumption DEF NodeWrite, Entries
<1>3. /\ NodeWrite(p.from, snap).kind = "node" /\ NodeWrite(p.from, snap).n = p.from
      /\ NodeWrite(p.from, snap).snap = snap
  BY DEF NodeWrite
<1> DEFINE Fine(s) == /\ s \in Seq(Entries)
                      /\ \A e \in Elements(s) : e.kind = "node" =>
                           p.from # None /\ e = NodeWrite(p.from, snap)
<1>4. Fine(<<>>)
  BY EmptyElements
<1>5. Fine(a) /\ (p.from # None => NodeWrite(p.from, snap) \in Elements(a))
  BY <1>2, <1>4, SingleElements
<1>6. Fine(PositionWrites(p))
  BY <1>1, <1>4, SingleElements DEF PositionWrites
<1>7. Fine(TelemetryWrites(p, snap))
  <2>1. CASE p.from # None /\ p.payload # "absent"
    <3> DEFINE s == <<Other("telemetry"), NodeWrite(p.from, snap)>>
    <3>1. TelemetryWrites(p, snap) = s
      BY <2>1 DEF TelemetryWrites
    <3>2. s \in Seq(Entries) /\ Elements(s) = {Other("telemetry"), NodeWrite(p.from, snap)}
      BY <1>1, <1>2, <2>1 DEF Elements
    <3> QED BY <1>1, <2>1, <3>1, <3>2
  <2>2. CASE ~(p.from # None /\ p.payload # "absent")
    BY <1>4, <2>2 DEF TelemetryWrites
  <2> QED BY <2>1, <2>2
<1>8. b \in {PositionWrites(p), TelemetryWrites(p, snap), <<>>}
  <2>1. CASE port = "position"
    <3> HIDE DEF port
    <3> QED BY <2>1, Zenon
  <2>2. CASE port # "position" /\ port = "telemetry"
    <3> HIDE DEF port
    <3> QED BY <2>2, Zenon
  <2>3. CASE port # "position" /\ port # "telemetry"
    <3> HIDE DEF port
    <3> QED BY <2>3, Zenon
  <2> QED BY <2>1, <2>2, <2>3
<1>9. Fine(b)
  BY <1>4, <1>6, <1>7, <1>8
<1>10. Fine(c)
  BY <1>1, SingleElements
<1>11. WritesOf(p, snap) = (a \o b) \o c
  BY DEF WritesOf
<1> HIDE DEF a, b, c
<1>12. a \in Seq(Entries) /\ b \in Seq(Entries) /\ c \in Seq(Entries)
  BY <1>5, <1>9, <1>10
<1>13. a \o b \in Seq(Entries) /\ Elements(a \o b) = Elements(a) \cup Elements(b)
  BY <1>12, ConcatElements
<1>14. /\ (a \o b) \o c \in Seq(Entries)
       /\ Elements((a \o b) \o c) = Elements(a \o b) \cup Elements(c)
  <2> DEFINE d == a \o b
  <2>1. d \in Seq(Entries)
    BY <1>13
  <2> HIDE DEF d
  <2>2. d \o c \in Seq(Entries) /\ Elements(d \o c) = Elements(d) \cup Elements(c)
    BY <1>12, <2>1, ConcatElements
  <2> QED BY <2>2 DEF d
<1> QED BY <1>3, <1>5, <1>9, <1>10, <1>11, <1>13, <1>14

\* What the entries of a list have written when its first m entries are done.
Written(list, m, s) ==
  /\ s \in Seq(Entries)
  /\ \A e \in Elements(s) : e.kind = "node" =>
       \E j \in 1..m : e = NodeWrite(list[j].num, SeedFromEntry(nodes[list[j].num], list[j]))
  /\ \A j \in 1..m :
       NodeWrite(list[j].num, SeedFromEntry(nodes[list[j].num], list[j])) \in Elements(s)

LEMMA EntryWritten ==
  ASSUME IngestType, NEW list \in NodeDBs, NEW m \in Nat, m + 1 \in DOMAIN list,
         NEW s, Written(list, m, s)
  PROVE  Written(list, m + 1, s \o EntryWrites(list[m + 1]))
<1> DEFINE e == list[m + 1]
           w == NodeWrite(e.num, SeedFromEntry(nodes[e.num], e))
           t == IF e.fix THEN <<Other("position")>> ELSE <<>>
<1>1. e.num \in Nodes
  BY InputAssumption
<1>2. SeedFromEntry(nodes[e.num], e) \in Snapshots
  BY <1>1, SeedFromEntryFacts DEF IngestType
<1>3. w \in Entries
  BY <1>1, <1>2 DEF NodeWrite, Entries
<1>4. Other("position") \in Entries /\ Other("position").kind # "node"
  BY DEF Entries, Other
<1>5. t \in Seq(Entries) /\ \A x \in Elements(t) : x.kind # "node"
  BY <1>4, SingleElements, EmptyElements
<1>6. EntryWrites(e) = <<w>> \o t
  BY DEF EntryWrites
<1> HIDE DEF t, w
<1>7. <<w>> \in Seq(Entries) /\ Elements(<<w>>) = {w}
  BY <1>3, SingleElements
<1>8. /\ <<w>> \o t \in Seq(Entries)
      /\ Elements(<<w>> \o t) = {w} \cup Elements(t)
  <2> DEFINE u == <<w>>
  <2>0. u \in Seq(Entries)
    BY <1>7
  <2> HIDE DEF u
  <2>1. u \o t \in Seq(Entries) /\ Elements(u \o t) = Elements(u) \cup Elements(t)
    BY <1>5, <2>0, ConcatElements
  <2> QED BY <1>7, <2>1 DEF u
<1> DEFINE v == EntryWrites(e)
<1>9. v \in Seq(Entries) /\ Elements(v) = {w} \cup Elements(t)
  BY <1>6, <1>8
<1> HIDE DEF v
<1>10. s \o v \in Seq(Entries) /\ Elements(s \o v) = Elements(s) \cup Elements(v)
  BY <1>9, ConcatElements DEF Written
<1>11. \A j \in 1..(m + 1) : j \in 1..m \/ j = m + 1
  OBVIOUS
<1>12. m + 1 \in 1..(m + 1) /\ \A j \in 1..m : j \in 1..(m + 1)
  OBVIOUS
<1>13. ASSUME NEW x \in Elements(s \o v), x.kind = "node"
       PROVE  \E j \in 1..(m + 1) :
                x = NodeWrite(list[j].num, SeedFromEntry(nodes[list[j].num], list[j]))
  <2>1. x \in Elements(s) \/ x = w
    BY <1>5, <1>9, <1>10, <1>13
  <2> QED BY <1>12, <1>13, <2>1 DEF Written, w
<1>14. ASSUME NEW j \in 1..(m + 1)
       PROVE  NodeWrite(list[j].num, SeedFromEntry(nodes[list[j].num], list[j]))
                \in Elements(s \o v)
  BY <1>9, <1>10, <1>11 DEF Written, w
<1>15. Written(list, m + 1, s \o v)
  BY <1>10, <1>13, <1>14 DEF Written
<1> QED BY <1>15 DEF v

\* The writes of a list are those of its entries, one node write for each.
LEMMA NodeDBWritesFacts ==
  ASSUME IngestType, NEW list \in NodeDBs
  PROVE  Written(list, Len(list), NodeDBWrites(list))
<1> DEFINE L == Len(list)
           Def(g, m) == g = [i \in 0..m |-> IF i = 0 THEN <<>>
                                            ELSE g[i - 1] \o EntryWrites(list[i])]
           S == {m \in Nat : m <= L => \E g : Def(g, m)}
<1>0. L \in Nat /\ DOMAIN list = 1..L
  BY InputAssumption
<1> HIDE DEF L
<1>1. 0 \in S
  <2> DEFINE g == [i \in 0..0 |-> <<>>]
  <2>1. Def(g, 0)
    OBVIOUS
  <2> HIDE DEF Def
  <2> QED BY <2>1
<1>2. ASSUME NEW m \in Nat, m \in S PROVE m + 1 \in S
  <2> SUFFICES ASSUME m + 1 <= L PROVE \E h : Def(h, m + 1)
    <3> HIDE DEF Def
    <3> QED OBVIOUS
  <2>1. PICK g : Def(g, m)
    <3> HIDE DEF Def
    <3>1. m <= L
      BY <1>0
    <3> QED BY <1>2, <3>1
  <2> DEFINE h == [i \in 0..(m + 1) |-> IF i = m + 1 THEN g[m] \o EntryWrites(list[m + 1])
                                        ELSE g[i]]
  <2>2. \A i \in 0..m : h[i] = g[i]
    OBVIOUS
  <2>3. h[m + 1] = h[m] \o EntryWrites(list[m + 1])
    <3>1. m + 1 \in 0..(m + 1) /\ m \in 0..m
      OBVIOUS
    <3>2. h[m + 1] = g[m] \o EntryWrites(list[m + 1]) /\ h[m] = g[m]
      BY <2>2, <3>1
    <3> HIDE DEF h
    <3> QED BY <3>2
  <2>4. ASSUME NEW i \in 0..(m + 1)
        PROVE  h[i] = IF i = 0 THEN <<>> ELSE h[i - 1] \o EntryWrites(list[i])
    <3>1. CASE i = m + 1
      <4>1. i # 0 /\ i - 1 = m
        BY <3>1
      <4> HIDE DEF h
      <4> QED BY <2>3, <3>1, <4>1
    <3>2. CASE i # m + 1
      <4>1. i \in 0..m /\ (i # 0 => i - 1 \in 0..m)
        BY <3>2
      <4>2. g[i] = IF i = 0 THEN <<>> ELSE g[i - 1] \o EntryWrites(list[i])
        BY <2>1, <4>1
      <4> HIDE DEF h
      <4> QED BY <2>2, <4>1, <4>2
    <3> QED BY <3>1, <3>2
  <2>5. DOMAIN h = 0..(m + 1) /\ h = [i \in 0..(m + 1) |-> h[i]]
    OBVIOUS
  <2> HIDE DEF h
  <2>6. Def(h, m + 1)
    BY <2>4, <2>5
  <2> HIDE DEF Def
  <2> QED BY <2>6
<1>3. Nat \subseteq S
  <2> HIDE DEF S
  <2> QED BY <1>1, <1>2, SetInduction
<1>4. \E g : Def(g, L)
  <2> HIDE DEF Def
  <2> QED BY <1>0, <1>3
<1>5. PICK g : Def(g, L) /\ NodeDBWrites(list) = g[L]
  BY <1>4 DEF NodeDBWrites, L
<1>6. /\ g[0] = <<>>
      /\ \A m \in Nat : m + 1 <= L => g[m + 1] = g[m] \o EntryWrites(list[m + 1])
  <2>1. 0 \in 0..L /\ g[0] = <<>>
    BY <1>0, <1>5
  <2>2. ASSUME NEW m \in Nat, m + 1 <= L
        PROVE  g[m + 1] = g[m] \o EntryWrites(list[m + 1])
    <3>1. m + 1 \in 0..L /\ m + 1 # 0 /\ (m + 1) - 1 = m
      BY <1>0, <2>2
    <3> QED BY <1>5, <3>1
  <2> QED BY <2>1, <2>2
<1> DEFINE T == {m \in Nat : m <= L => Written(list, m, g[m])}
<1>7. 0 \in T
  <2>1. 1..0 = {}
    OBVIOUS
  <2>2. Written(list, 0, <<>>)
    BY <2>1, EmptyElements DEF Written
  <2> QED BY <1>6, <2>2
<1>8. ASSUME NEW m \in Nat, m \in T PROVE m + 1 \in T
  <2> SUFFICES ASSUME m + 1 <= L PROVE Written(list, m + 1, g[m + 1])
    BY <1>8
  <2>1. Written(list, m, g[m]) /\ m + 1 \in DOMAIN list
    BY <1>0, <1>8
  <2> QED BY <1>6, <2>1, EntryWritten
<1>9. Nat \subseteq T
  <2> HIDE DEF T
  <2> QED BY <1>7, <1>8, SetInduction
<1> QED BY <1>0, <1>5, <1>9 DEF L

\* The queue takes a first part of the writes and refuses the rest.
LEMMA EnqueueFacts ==
  ASSUME IngestType, NEW ws \in Seq(Entries), Enqueue(ws)
  PROVE  /\ queue' \in Seq(Entries) /\ Len(queue') <= QueueMax
         /\ \E I, O \in SUBSET Elements(ws) :
              /\ I \cup O = Elements(ws)
              /\ Elements(queue') = Elements(queue) \cup I
              /\ stale' = (stale \ NodesIn(I)) \cup (NodesIn(O) \ NodesIn(I))
<1> DEFINE m == IF Len(ws) <= QueueMax - Len(queue) THEN Len(ws) ELSE QueueMax - Len(queue)
           in == SubSeq(ws, 1, m)
           out == SubSeq(ws, m + 1, Len(ws))
<1>0. /\ queue \in Seq(Entries) /\ Len(queue) \in Nat /\ Len(queue) <= QueueMax
      /\ QueueMax \in Nat /\ Len(ws) \in Nat
  BY IngestorAssumption DEF IngestType
<1>1. m \in 0..Len(ws) /\ Len(queue) + m <= QueueMax
  BY <1>0
<1>2. Accepted(ws) = in
  BY DEF Accepted
<1>3. /\ queue' = queue \o in
      /\ stale' = (stale \ NodesOf(in))
                    \cup (NodesOf(SubSeq(ws, Len(in) + 1, Len(ws))) \ NodesOf(in))
  BY <1>2 DEF Enqueue
<1> HIDE DEF m
<1>4. /\ in \in Seq(Entries) /\ Len(in) = m /\ out \in Seq(Entries)
      /\ Elements(in) \cup Elements(out) = Elements(ws)
  BY <1>1, CutElements
<1>5. stale' = (stale \ NodesOf(in)) \cup (NodesOf(out) \ NodesOf(in))
  BY <1>3, <1>4
<1> HIDE DEF in, out
<1>6. /\ queue' \in Seq(Entries) /\ Len(queue') = Len(queue) + m
      /\ Elements(queue') = Elements(queue) \cup Elements(in)
  <2>1. /\ queue \o in \in Seq(Entries) /\ Len(queue \o in) = Len(queue) + Len(in)
        /\ Elements(queue \o in) = Elements(queue) \cup Elements(in)
    BY <1>0, <1>4, ConcatElements
  <2> QED BY <1>3, <1>4, <2>1
<1>7. \A s : NodesOf(s) = NodesIn(Elements(s))
  BY DEF NodesOf, NodesIn, Elements
<1>8. Elements(in) \in SUBSET Elements(ws) /\ Elements(out) \in SUBSET Elements(ws)
  BY <1>4
<1> QED BY <1>0, <1>1, <1>4, <1>5, <1>6, <1>7, <1>8

LEMMA InitIngest == Init => IngestType
<1> SUFFICES ASSUME Init PROVE IngestType
  OBVIOUS
<1>1. Zero \in [Counters -> Nat] /\ Zero \in [Counters -> Int]
  BY DEF Zero
<1>2. queue = <<>> /\ queue \in Seq(Entries) /\ Len(queue) = 0
  BY DEF Init
<1>3. nodes \in [Nodes -> Snapshots \cup {None}] /\ rows \in [Nodes -> Snapshots \cup {None}]
  BY DEF Init
<1>4. heard \in [Nodes -> [Counters -> Nat]] /\ base \in [Nodes -> [Counters -> Int]]
  BY <1>1 DEF Init
<1>5. now \in Nat /\ wall \in Nat /\ running \in BOOLEAN /\ blind \in BOOLEAN /\ seenObs = {}
  BY DEF Init
<1>6. 0 <= QueueMax
  BY IngestorAssumption
<1> QED BY <1>2, <1>3, <1>4, <1>5, <1>6 DEF IngestType

\* What seed_from_store makes of a row.
LEMMA SeedFromRowFacts ==
  ASSUME NEW row \in Snapshots \cup {None}
  PROVE  /\ SeedFromRow(row) \in Snapshots \cup {None}
         /\ row = None <=> SeedFromRow(row) = None
         /\ row # None => /\ SeedFromRow(row).last = row.last
                          /\ SeedFromRow(row).heard = row.heard
                          /\ SeedFromRow(row).id = row.id
                          /\ \A k \in Counters : SeedFromRow(row).cnt[k] = row.cnt[k]
<1>1. CASE row = None
  BY <1>1 DEF SeedFromRow
<1>2. CASE row # None
  <2> DEFINE new == SeedFromRow(row)
  <2>1. /\ row.id \in Ids /\ row.name \in Names /\ row.heard \in Nat \cup {None}
        /\ row.cnt \in [Counters -> Nat] /\ row.last \in Observations
    BY <1>2 DEF Snapshots
  <2>2. new = [id |-> row.id, name |-> row.name, heard |-> row.heard, last |-> row.last,
               cnt |-> [k \in Counters |-> MaxOf(0, row.cnt[k])]]
    BY <1>2 DEF SeedFromRow
  <2> HIDE DEF new
  <2>3. new.cnt \in [Counters -> Nat] /\ \A k \in Counters : new.cnt[k] = row.cnt[k]
    BY <2>1, <2>2 DEF MaxOf
  <2>4. new \in Snapshots
    BY <2>1, <2>2, <2>3 DEF Snapshots
  <2> QED BY <1>2, <2>2, <2>3, <2>4, NoneAssumption DEF new
<1> QED BY <1>1, <1>2

\* A new packet: what it does to the snapshots and which entries it queues.
LEMMA IngestNewFacts ==
  ASSUME IngestType, NEW p \in RawPackets, IngestNew(p)
  PROVE  \/ UNCHANGED <<nodes, queue, stale, heard, seenObs, rows, base, running, wall, now, blind>>
         \/ /\ p.from = None
            /\ UNCHANGED <<nodes, heard, seenObs, rows, base, running, wall, now, blind>>
            /\ \E ws \in Seq(Entries) : /\ Enqueue(ws)
                                        /\ \A e \in Elements(ws) : e.kind # "node"
         \/ \E snap \in Snapshots :
              /\ p.from \in Nodes /\ snap = UpdateNode(p)
              /\ nodes' = [nodes EXCEPT ![p.from] = snap]
              /\ heard' = [heard EXCEPT ![p.from] =
                    [k \in Counters |-> IF IsOf(p, k) THEN @[k] + 1 ELSE @[k]]]
              /\ seenObs' = seenObs \cup {[n |-> p.from, at |-> wall, obs |-> snap.last]}
              /\ UNCHANGED <<rows, base, running, wall, now, blind>>
              /\ \E ws \in Seq(Entries) :
                   /\ Enqueue(ws)
                   /\ \A e \in Elements(ws) : e.kind = "node" =>
                        e.n = p.from /\ e.snap = snap
                   /\ \E e \in Elements(ws) : e.kind = "node" /\ e.n = p.from
<1> DEFINE snap == UpdateNode(p)
           ws == WritesOf(p, snap)
<1>0. UNCHANGED <<rows, base, running, wall, now, blind>>
  BY DEF IngestNew
<1>1. CASE ~p.ok
  BY <1>0, <1>1 DEF IngestNew
<1>2. CASE p.ok /\ p.from = None
  <2>1. /\ UNCHANGED <<nodes, heard, seenObs>> /\ Enqueue(ws)
    BY <1>2 DEF IngestNew
  <2>2. /\ ws \in Seq(Entries) /\ \A e \in Elements(ws) : e.kind # "node"
    BY <1>2, WritesOfFacts
  <2> HIDE DEF ws
  <2> QED BY <1>0, <1>2, <2>1, <2>2
<1>3. CASE p.ok /\ p.from # None
  <2>1. p.from \in Nodes /\ snap \in Snapshots
    BY <1>3, InputAssumption, UpdateNodeFacts
  <2>2. /\ nodes' = [nodes EXCEPT ![p.from] = snap]
        /\ heard' = [heard EXCEPT ![p.from] =
               [k \in Counters |-> IF IsOf(p, k) THEN @[k] + 1 ELSE @[k]]]
        /\ seenObs' = seenObs \cup {[n |-> p.from, at |-> wall, obs |-> snap.last]}
        /\ Enqueue(ws)
    BY <1>3 DEF IngestNew
  <2>3. /\ ws \in Seq(Entries)
        /\ \A e \in Elements(ws) : e.kind = "node" => e.n = p.from /\ e.snap = snap
        /\ NodeWrite(p.from, snap) \in Elements(ws)
    BY <1>3, <2>1, WritesOfFacts
  <2>4. \E e \in Elements(ws) : e.kind = "node" /\ e.n = p.from
    BY <2>3 DEF NodeWrite
  <2>5. \E w \in Seq(Entries) :
           /\ Enqueue(w)
           /\ \A e \in Elements(w) : e.kind = "node" => e.n = p.from /\ e.snap = snap
           /\ \E e \in Elements(w) : e.kind = "node" /\ e.n = p.from
    <3> HIDE DEF ws, snap
    <3> QED BY <2>2, <2>3, <2>4
  <2>6. PICK s \in Snapshots : s = UpdateNode(p)
    BY <2>1
  <2> HIDE DEF ws
  <2> QED BY <1>0, <2>1, <2>2, <2>5, <2>6
<1> QED BY <1>1, <1>2, <1>3

\* A NodeDB list: counters and observations of the snapshots stay as they are.
LEMMA SeedFromNodeDBFacts ==
  ASSUME IngestType, NEW list \in NodeDBs, SeedFromNodeDB(list)
  PROVE  /\ UNCHANGED <<heard, seenObs, rows, base, running, wall, now, blind>>
         /\ nodes' \in [Nodes -> Snapshots \cup {None}]
         /\ \A n \in Nodes :
              \/ nodes'[n] = nodes[n]
              \/ \E i \in DOMAIN list : n = list[i].num
                                        /\ nodes'[n] = SeedFromEntry(nodes[n], list[i])
         /\ \A i \in DOMAIN list :
              nodes'[list[i].num] = SeedFromEntry(nodes[list[i].num], list[i])
         /\ \E ws \in Seq(Entries) :
              /\ Enqueue(ws)
              /\ \A e \in Elements(ws) : e.kind = "node" =>
                   \E i \in DOMAIN list :
                     e.n = list[i].num /\ e.snap = SeedFromEntry(nodes[e.n], list[i])
              /\ \A i \in DOMAIN list :
                   \E e \in Elements(ws) : e.kind = "node" /\ e.n = list[i].num
<1> DEFINE ws == NodeDBWrites(list)
           f == [n \in Nodes |->
                   LET mine == {i \in DOMAIN list : list[i].num = n}
                   IN  IF mine = {} THEN nodes[n]
                       ELSE SeedFromEntry(nodes[n], list[CHOOSE i \in mine : TRUE])]
<1>1. /\ UNCHANGED <<heard, seenObs, rows, base, running, wall, now, blind>>
      /\ nodes' = f /\ Enqueue(ws)
  BY DEF SeedFromNodeDB
<1>2. DOMAIN list = 1..Len(list)
  BY InputAssumption
<1>3. ASSUME NEW n \in Nodes
      PROVE  \/ f[n] = nodes[n]
             \/ \E i \in DOMAIN list : n = list[i].num
                                       /\ f[n] = SeedFromEntry(nodes[n], list[i])
  <2> DEFINE mine == {i \in DOMAIN list : list[i].num = n}
  <2>1. CASE mine = {}
    BY <2>1
  <2>2. CASE mine # {}
    <3>1. PICK i \in mine : i = CHOOSE j \in mine : TRUE
      BY <2>2
    <3>2. f[n] = SeedFromEntry(nodes[n], list[i])
      BY <2>2, <3>1
    <3> HIDE DEF f
    <3> QED BY <3>1, <3>2
  <2> QED BY <2>1, <2>2
<1>9. ASSUME NEW i \in DOMAIN list
      PROVE  f[list[i].num] = SeedFromEntry(nodes[list[i].num], list[i])
  <2> DEFINE mine == {j \in DOMAIN list : list[j].num = list[i].num}
  <2>1. list[i].num \in Nodes /\ mine = {i}
    BY InputAssumption
  <2>2. (CHOOSE j \in mine : TRUE) = i
    BY <2>1
  <2> QED BY <2>1, <2>2
<1>4. f \in [Nodes -> Snapshots \cup {None}]
  <2>1. ASSUME NEW n \in Nodes PROVE f[n] \in Snapshots \cup {None}
    <3>0. nodes[n] \in Snapshots \cup {None}
      BY DEF IngestType
    <3> HIDE DEF f
    <3>1. CASE f[n] = nodes[n]
      BY <3>0, <3>1
    <3>2. ASSUME NEW i \in DOMAIN list, f[n] = SeedFromEntry(nodes[n], list[i])
          PROVE  f[n] \in Snapshots
      BY <3>0, <3>2, SeedFromEntryFacts
    <3> QED BY <1>3, <3>1, <3>2
  <2> QED BY <2>1
<1> HIDE DEF f
<1>5. Written(list, Len(list), ws)
  BY NodeDBWritesFacts
<1> HIDE DEF ws
<1>6. \A e \in Elements(ws) : e.kind = "node" =>
        \E i \in DOMAIN list :
          e.n = list[i].num /\ e.snap = SeedFromEntry(nodes[e.n], list[i])
  BY <1>2, <1>5 DEF Written, NodeWrite
<1>7. \A i \in DOMAIN list : \E e \in Elements(ws) : e.kind = "node" /\ e.n = list[i].num
  <2> SUFFICES ASSUME NEW i \in DOMAIN list
               PROVE  \E e \in Elements(ws) : e.kind = "node" /\ e.n = list[i].num
    OBVIOUS
  <2>1. PICK e \in Elements(ws) :
          e = NodeWrite(list[i].num, SeedFromEntry(nodes[list[i].num], list[i]))
    BY <1>2, <1>5 DEF Written
  <2> QED BY <2>1 DEF NodeWrite
<1>8. ws \in Seq(Entries)
  BY <1>5 DEF Written
<1> QED BY <1>1, <1>3, <1>4, <1>6, <1>7, <1>8, <1>9

\* The writer's upsert of the entry at the head of the queue.
LEMMA WriteOneFacts ==
  ASSUME IngestType, WriteOne
  PROVE  /\ UNCHANGED <<nodes, heard, seenObs, base, running, wall, now, blind, stale>>
         /\ queue' \in Seq(Entries) /\ Len(queue') <= QueueMax
         /\ Elements(queue) = Elements(queue') \cup {Head(queue)}
         /\ \/ rows' = rows /\ Head(queue).kind # "node"
            \/ /\ Head(queue).n \in Nodes /\ Head(queue).snap \in Snapshots
               /\ Head(queue).kind = "node"
               /\ rows' = [rows EXCEPT ![Head(queue).n] =
                             Upsert(rows[Head(queue).n], Head(queue).snap)]
<1>1. /\ queue \in Seq(Entries) /\ queue # <<>> /\ queue' = Tail(queue)
      /\ Len(queue) <= QueueMax /\ QueueMax \in Nat
      /\ UNCHANGED <<nodes, heard, seenObs, base, running, wall, now, blind, stale>>
  BY IngestorAssumption DEF WriteOne, IngestType
<1>2. /\ queue' \in Seq(Entries) /\ Len(queue') = Len(queue) - 1 /\ Head(queue) \in Entries
      /\ Elements(queue) = Elements(queue') \cup {Head(queue)}
  BY <1>1, TailElements
<1>3. Len(queue') <= QueueMax
  <2>1. Len(queue) \in Nat
    BY <1>1
  <2> QED BY <1>1, <1>2, <2>1
<1>4. CASE Head(queue).kind = "node"
  <2>1. Head(queue).n \in Nodes /\ Head(queue).snap \in Snapshots
    BY <1>2, <1>4 DEF Entries, Other
  <2>2. rows' = [rows EXCEPT ![Head(queue).n] =
                   Upsert(rows[Head(queue).n], Head(queue).snap)]
    BY <1>4, <2>1 DEF WriteOne, IngestType
  <2> QED BY <1>1, <1>2, <1>3, <1>4, <2>1, <2>2
<1>5. CASE Head(queue).kind # "node"
  <2>1. rows' = rows
    BY <1>5 DEF WriteOne
  <2> QED BY <1>1, <1>2, <1>3, <1>5, <2>1
<1> QED BY <1>4, <1>5

LEMMA NextIngest == IngestType /\ [Next]_vars => IngestType'
<1> SUFFICES ASSUME IngestType, [Next]_vars PROVE IngestType'
  OBVIOUS
<1>1. ASSUME NEW readable \in BOOLEAN, Start(readable) PROVE IngestType'
  <2>1. nodes' \in [Nodes -> Snapshots \cup {None}]
    BY <1>1, SeedFromRowFacts DEF Start, IngestType
  <2>2. \A n \in Nodes, k \in Counters : RowCount(n, k) \in Nat
    BY DEF RowCount, IngestType, Snapshots
  <2>3. base' \in [Nodes -> [Counters -> Int]]
    BY <1>1, <2>2 DEF Start, IngestType
  <2> QED BY <1>1, <2>1, <2>3 DEF Start, IngestType
<1>2. ASSUME NEW p \in RawPackets, IngestDuplicate(p) PROVE IngestType'
  BY <1>2 DEF IngestDuplicate, IngestType
<1>3. ASSUME NEW p \in RawPackets, IngestNew(p) PROVE IngestType'
  <2>1. CASE UNCHANGED <<nodes, queue, stale, heard, seenObs, rows, base, running, wall, now, blind>>
    BY <2>1 DEF IngestType
  <2>2. CASE /\ UNCHANGED <<nodes, heard, seenObs, rows, base, running, wall, now, blind>>
             /\ \E ws \in Seq(Entries) : Enqueue(ws)
    <3>1. queue' \in Seq(Entries) /\ Len(queue') <= QueueMax
      BY <2>2, EnqueueFacts
    <3> QED BY <2>2, <3>1 DEF IngestType
  <2>3. ASSUME NEW snap \in Snapshots, p.from \in Nodes,
               nodes' = [nodes EXCEPT ![p.from] = snap],
               heard' = [heard EXCEPT ![p.from] =
                    [k \in Counters |-> IF IsOf(p, k) THEN @[k] + 1 ELSE @[k]]],
               seenObs' = seenObs \cup {[n |-> p.from, at |-> wall, obs |-> snap.last]},
               UNCHANGED <<rows, base, running, wall, now, blind>>,
               NEW ws \in Seq(Entries), Enqueue(ws)
        PROVE  IngestType'
    <3>1. queue' \in Seq(Entries) /\ Len(queue') <= QueueMax
      BY <2>3, EnqueueFacts
    <3>2. nodes' \in [Nodes -> Snapshots \cup {None}]
      BY <2>3 DEF IngestType
    <3>3. heard' \in [Nodes -> [Counters -> Nat]]
      BY <2>3 DEF IngestType
    <3>4. seenObs' \in SUBSET [n : Nodes, at : Nat, obs : Observations]
      BY <2>3 DEF IngestType, Snapshots
    <3> QED BY <2>3, <3>1, <3>2, <3>3, <3>4 DEF IngestType
  <2> QED BY <1>3, <2>1, <2>2, <2>3, IngestNewFacts
<1>4. ASSUME NEW list \in NodeDBs, SeedFromNodeDB(list) PROVE IngestType'
  <2>1. queue' \in Seq(Entries) /\ Len(queue') <= QueueMax
    BY <1>4, SeedFromNodeDBFacts, EnqueueFacts
  <2> QED BY <1>4, <2>1, SeedFromNodeDBFacts DEF IngestType
<1>5. ASSUME WriteOne PROVE IngestType'
  <2>1. rows' \in [Nodes -> Snapshots \cup {None}]
    <3> DEFINE w == Head(queue)
    <3>1. CASE rows' = rows
      BY <3>1 DEF IngestType
    <3>2. CASE /\ w.n \in Nodes /\ w.snap \in Snapshots
               /\ rows' = [rows EXCEPT ![w.n] = Upsert(rows[w.n], w.snap)]
      <4> HIDE DEF w
      <4>1. Upsert(rows[w.n], w.snap) \in Snapshots
        BY <3>2, UpsertFacts DEF IngestType
      <4> QED BY <3>2, <4>1 DEF IngestType
    <3> QED BY <1>5, <3>1, <3>2, WriteOneFacts
  <2> QED BY <1>5, <2>1, WriteOneFacts DEF IngestType
<1>6. ASSUME Crash PROVE IngestType'
  <2>1. queue' = <<>> /\ queue' \in Seq(Entries) /\ Len(queue') = 0 /\ 0 <= QueueMax
    BY <1>6, IngestorAssumption DEF Crash
  <2> QED BY <1>6, <2>1 DEF Crash, IngestType
<1>7. ASSUME Tick \/ SetClockBack PROVE IngestType'
  BY <1>7 DEF Tick, SetClockBack, IngestType
<1>8. CASE UNCHANGED vars
  BY <1>8 DEF vars, IngestType
<1> QED BY <1>1, <1>2, <1>3, <1>4, <1>5, <1>6, <1>7, <1>8 DEF Next

-----------------------------------------------------------------------------
(* Ids                                                                     *)

WritesTo(e, n) == e.kind = "node" /\ e.n = n

\* An id a session could read or has heard is known to every later write and to
\* memory: it passes from the row through the queue, in its order, to the snapshot.
Named ==
  /\ ~running => queue = <<>>
  /\ running /\ ~blind => \A n \in Nodes :
       /\ Knows(rows[n]) =>
            /\ Knows(nodes[n])
            /\ \A i \in DOMAIN queue : WritesTo(queue[i], n) => queue[i].snap.id # None
       /\ \A i \in DOMAIN queue : WritesTo(queue[i], n) /\ queue[i].snap.id # None =>
            /\ Knows(nodes[n])
            /\ \A j \in DOMAIN queue :
                 i < j /\ WritesTo(queue[j], n) => queue[j].snap.id # None

\* Enqueue appends: an entry keeps its place, or is one of the new ones behind.
LEMMA EnqueuePlaces ==
  ASSUME IngestType, NEW ws \in Seq(Entries), Enqueue(ws)
  PROVE  /\ DOMAIN queue = 1..Len(queue) /\ Len(queue) \in Nat /\ DOMAIN queue' \subseteq Nat
         /\ \A i \in DOMAIN queue' :
              \/ i \in DOMAIN queue /\ queue'[i] = queue[i]
              \/ i > Len(queue) /\ queue'[i] \in Elements(ws)
<1> DEFINE m == IF Len(ws) <= QueueMax - Len(queue) THEN Len(ws) ELSE QueueMax - Len(queue)
           in == SubSeq(ws, 1, m)
<1>0. /\ queue \in Seq(Entries) /\ Len(queue) \in Nat /\ Len(queue) <= QueueMax
      /\ DOMAIN queue = 1..Len(queue) /\ QueueMax \in Nat
      /\ Len(ws) \in Nat /\ DOMAIN ws = 1..Len(ws)
  BY IngestorAssumption DEF IngestType
<1>1. m \in 0..Len(ws)
  BY <1>0
<1>2. queue' = queue \o in
  BY DEF Enqueue, Accepted
<1> HIDE DEF m
<1>3. /\ in \in Seq(Entries) /\ Len(in) = m /\ \A i \in 1..m : in[i] = ws[i]
  BY <1>0, <1>1, CutElements
<1> HIDE DEF in
<1>4. /\ DOMAIN queue' = 1..(Len(queue) + m)
      /\ \A i \in 1..Len(queue) : queue'[i] = queue[i]
      /\ \A i \in 1..m : queue'[Len(queue) + i] = in[i]
  <2>1. queue \in Seq(Entries) /\ in \in Seq(Entries)
    BY <1>0, <1>3
  <2>2. /\ DOMAIN (queue \o in) = 1..(Len(queue) + Len(in))
        /\ \A i \in 1..Len(queue) : (queue \o in)[i] = queue[i]
        /\ \A i \in 1..Len(in) : (queue \o in)[Len(queue) + i] = in[i]
    BY <2>1
  <2> QED BY <1>2, <1>3, <2>2
<1>5. ASSUME NEW i \in DOMAIN queue', i \notin 1..Len(queue)
      PROVE  i > Len(queue) /\ queue'[i] \in Elements(ws)
  <2>1. i - Len(queue) \in 1..m /\ i = Len(queue) + (i - Len(queue)) /\ i > Len(queue)
    BY <1>0, <1>1, <1>4, <1>5
  <2>2. queue'[i] = ws[i - Len(queue)] /\ i - Len(queue) \in DOMAIN ws
    BY <1>0, <1>1, <1>3, <1>4, <2>1
  <2> QED BY <2>1, <2>2 DEF Elements
<1> QED BY <1>0, <1>1, <1>4, <1>5

\* Queued writes know the ids that memory knows.
LEMMA NamedQueued ==
  ASSUME IngestType, Named, running, UNCHANGED <<rows, running, blind>>,
         \A n \in Nodes : Knows(nodes[n]) => Knows(nodes'[n]),
         NEW ws \in Seq(Entries), Enqueue(ws),
         \A e \in Elements(ws), n \in Nodes :
           WritesTo(e, n) => (e.snap.id # None <=> Knows(nodes'[n]))
  PROVE  Named'
<1> SUFFICES ASSUME ~blind, NEW n \in Nodes
    PROVE  /\ Knows(rows[n]) =>
                /\ Knows(nodes'[n])
                /\ \A i \in DOMAIN queue' : WritesTo(queue'[i], n) => queue'[i].snap.id # None
           /\ \A i \in DOMAIN queue' : WritesTo(queue'[i], n) /\ queue'[i].snap.id # None =>
                /\ Knows(nodes'[n])
                /\ \A j \in DOMAIN queue' :
                     i < j /\ WritesTo(queue'[j], n) => queue'[j].snap.id # None
  BY DEF Named, Knows, WritesTo
<1>1. /\ DOMAIN queue = 1..Len(queue) /\ Len(queue) \in Nat /\ DOMAIN queue' \subseteq Nat
      /\ \A i \in DOMAIN queue' :
           \/ i \in DOMAIN queue /\ queue'[i] = queue[i]
           \/ i > Len(queue) /\ queue'[i] \in Elements(ws)
  BY EnqueuePlaces
<1>2. /\ Knows(rows[n]) =>
            /\ Knows(nodes[n])
            /\ \A i \in DOMAIN queue : WritesTo(queue[i], n) => queue[i].snap.id # None
      /\ \A i \in DOMAIN queue : WritesTo(queue[i], n) /\ queue[i].snap.id # None =>
            /\ Knows(nodes[n])
            /\ \A j \in DOMAIN queue :
                 i < j /\ WritesTo(queue[j], n) => queue[j].snap.id # None
  BY DEF Named
<1>3. ASSUME Knows(nodes'[n]), NEW i \in DOMAIN queue', WritesTo(queue'[i], n),
             i \in DOMAIN queue => queue[i].snap.id # None
      PROVE  queue'[i].snap.id # None
  BY <1>1, <1>3
<1>4. ASSUME NEW i \in DOMAIN queue', WritesTo(queue'[i], n), queue'[i].snap.id # None
      PROVE  /\ Knows(nodes'[n])
             /\ \A j \in DOMAIN queue' :
                  i < j /\ WritesTo(queue'[j], n) => queue'[j].snap.id # None
  <2>1. CASE i \in DOMAIN queue /\ queue'[i] = queue[i]
    <3>1. Knows(nodes'[n])
      BY <1>2, <1>4, <2>1
    <3>2. ASSUME NEW j \in DOMAIN queue', i < j, WritesTo(queue'[j], n)
          PROVE  queue'[j].snap.id # None
      BY <1>1, <1>2, <1>3, <1>4, <2>1, <3>1, <3>2
    <3> QED BY <3>1, <3>2
  <2>2. CASE i > Len(queue) /\ queue'[i] \in Elements(ws)
    <3>1. Knows(nodes'[n])
      BY <1>4, <2>2
    <3>2. ASSUME NEW j \in DOMAIN queue', i < j, WritesTo(queue'[j], n)
          PROVE  queue'[j].snap.id # None
      <4>1. j \notin DOMAIN queue
        BY <1>1, <2>2, <3>2
      <4> QED BY <1>3, <3>1, <3>2, <4>1
    <3> QED BY <3>1, <3>2
  <2> QED BY <1>1, <2>1, <2>2
<1>5. ASSUME Knows(rows[n])
      PROVE  /\ Knows(nodes'[n])
             /\ \A i \in DOMAIN queue' : WritesTo(queue'[i], n) => queue'[i].snap.id # None
  <2>1. Knows(nodes'[n])
    BY <1>2, <1>5
  <2>2. ASSUME NEW i \in DOMAIN queue', WritesTo(queue'[i], n)
        PROVE  queue'[i].snap.id # None
    BY <1>1, <1>2, <1>3, <1>5, <2>1, <2>2
  <2> QED BY <2>1, <2>2
<1> QED BY <1>4, <1>5

LEMMA InitNamed == Init => Named
BY DEF Init, Named

LEMMA NextNamed == IngestType /\ Named /\ [Next]_vars => Named'
<1> SUFFICES ASSUME IngestType, Named, [Next]_vars PROVE Named'
  OBVIOUS
<1>0. /\ nodes \in [Nodes -> Snapshots \cup {None}]
      /\ rows \in [Nodes -> Snapshots \cup {None}] /\ running \in BOOLEAN /\ blind \in BOOLEAN
  BY DEF IngestType
<1>1. ASSUME NEW readable \in BOOLEAN, Start(readable) PROVE Named'
  <2>1. /\ running' /\ queue' = <<>> /\ rows' = rows
        /\ nodes' = [n \in Nodes |-> IF readable THEN SeedFromRow(rows[n]) ELSE None]
        /\ ~blind' => readable \/ \A n \in Nodes : rows[n] = None
    BY <1>1 DEF Start, Named
  <2>2. ASSUME ~blind', NEW n \in Nodes, Knows(rows[n]) PROVE Knows(nodes'[n])
    <3>1. nodes'[n] = SeedFromRow(rows[n])
      BY <2>1, <2>2 DEF Knows
    <3> QED BY <1>0, <2>2, <3>1, SeedFromRowFacts DEF Knows
  <2> QED BY <2>1, <2>2 DEF Named, Knows
<1>2. ASSUME NEW p \in RawPackets, IngestDuplicate(p) PROVE Named'
  BY <1>2 DEF IngestDuplicate, Named, Knows, WritesTo
<1>3. ASSUME NEW p \in RawPackets, IngestNew(p) PROVE Named'
  <2>0. running
    BY <1>3 DEF IngestNew
  <2>1. CASE UNCHANGED <<nodes, queue, stale, heard, seenObs, rows, base, running, wall, now,
                         blind>>
    BY <2>1 DEF Named, Knows, WritesTo
  <2>2. ASSUME UNCHANGED <<nodes, heard, seenObs, rows, base, running, wall, now, blind>>,
               NEW ws \in Seq(Entries), Enqueue(ws),
               \A e \in Elements(ws) : e.kind # "node"
        PROVE  Named'
    BY <2>0, <2>2, NamedQueued DEF Knows, WritesTo
  <2>3. ASSUME NEW snap \in Snapshots, p.from \in Nodes, snap = UpdateNode(p),
               nodes' = [nodes EXCEPT ![p.from] = snap],
               UNCHANGED <<rows, base, running, wall, now, blind>>,
               NEW ws \in Seq(Entries), Enqueue(ws),
               \A e \in Elements(ws) : e.kind = "node" => e.n = p.from /\ e.snap = snap
        PROVE  Named'
    <3>1. nodes'[p.from] = snap /\ \A n \in Nodes \ {p.from} : nodes'[n] = nodes[n]
      BY <1>0, <2>3
    <3>2. \A n \in Nodes : Knows(nodes[n]) => Knows(nodes'[n])
      BY <2>3, <3>1, UpdateNodeFacts
    <3>3. \A e \in Elements(ws), n \in Nodes :
            WritesTo(e, n) => (e.snap.id # None <=> Knows(nodes'[n]))
      BY <2>3, <3>1, NoneAssumption DEF Knows, WritesTo
    <3> QED BY <2>0, <2>3, <3>2, <3>3, NamedQueued
  <2> QED BY <1>3, <2>1, <2>2, <2>3, IngestNewFacts
<1>4. ASSUME NEW list \in NodeDBs, SeedFromNodeDB(list) PROVE Named'
  <2>0. running
    BY <1>4 DEF SeedFromNodeDB
  <2>1. /\ UNCHANGED <<rows, running, blind>>
        /\ \A n \in Nodes :
              \/ nodes'[n] = nodes[n]
              \/ \E i \in DOMAIN list : n = list[i].num
                                        /\ nodes'[n] = SeedFromEntry(nodes[n], list[i])
        /\ \A i \in DOMAIN list :
              nodes'[list[i].num] = SeedFromEntry(nodes[list[i].num], list[i])
    BY <1>4, SeedFromNodeDBFacts
  <2>2. PICK ws \in Seq(Entries) :
          /\ Enqueue(ws)
          /\ \A e \in Elements(ws) : e.kind = "node" =>
               \E i \in DOMAIN list :
                 e.n = list[i].num /\ e.snap = SeedFromEntry(nodes[e.n], list[i])
    BY <1>4, SeedFromNodeDBFacts
  <2>3. \A n \in Nodes, i \in DOMAIN list :
          /\ SeedFromEntry(nodes[n], list[i]) \in Snapshots
          /\ Knows(nodes[n]) => Knows(SeedFromEntry(nodes[n], list[i]))
    BY <1>0, SeedFromEntryFacts
  <2>4. \A n \in Nodes : Knows(nodes[n]) => Knows(nodes'[n])
    BY <2>1, <2>3
  <2>5. ASSUME NEW e \in Elements(ws), NEW n \in Nodes, WritesTo(e, n)
        PROVE  e.snap.id # None <=> Knows(nodes'[n])
    <3>1. PICK i \in DOMAIN list :
            e.n = list[i].num /\ e.snap = SeedFromEntry(nodes[e.n], list[i])
      BY <2>2, <2>5 DEF WritesTo
    <3>2. e.snap = nodes'[n] /\ e.snap \in Snapshots
      BY <2>1, <2>3, <2>5, <3>1 DEF WritesTo
    <3> QED BY <3>2, NoneAssumption DEF Knows
  <2> QED BY <2>0, <2>1, <2>2, <2>4, <2>5, NamedQueued
<1>5. ASSUME WriteOne PROVE Named'
  <2> DEFINE w == Head(queue)
  <2>1. UNCHANGED <<nodes, running, blind>> /\ queue # <<>> /\ queue' = Tail(queue)
    BY <1>5, WriteOneFacts DEF WriteOne
  <2>2. running
    BY <2>1 DEF Named
  <2>3. /\ w = queue[1] /\ 1 \in DOMAIN queue
        /\ DOMAIN queue' \subseteq Nat
        /\ \A i \in DOMAIN queue' : i + 1 \in DOMAIN queue /\ 1 < i + 1
                                    /\ queue'[i] = queue[i + 1]
        /\ \A i, j \in DOMAIN queue' : i < j => i + 1 < j + 1
    <3>1. queue \in Seq(Entries) /\ Len(queue) \in Nat \ {0} /\ DOMAIN queue = 1..Len(queue)
      BY <2>1, EmptySeq, LenProperties DEF IngestType
    <3>2. /\ DOMAIN queue' = 1..(Len(queue) - 1) /\ w = queue[1]
          /\ \A i \in 1..(Len(queue) - 1) : queue'[i] = queue[i + 1]
      BY <2>1, <3>1, HeadTailProperties
    <3> QED BY <3>1, <3>2
  <2> HIDE DEF w
  <2>4. ASSUME ~blind, NEW n \in Nodes
        PROVE  /\ Knows(rows'[n]) =>
                    /\ Knows(nodes[n])
                    /\ \A i \in DOMAIN queue' :
                         WritesTo(queue'[i], n) => queue'[i].snap.id # None
               /\ \A i \in DOMAIN queue' : WritesTo(queue'[i], n) /\ queue'[i].snap.id # None =>
                    /\ Knows(nodes[n])
                    /\ \A j \in DOMAIN queue' :
                         i < j /\ WritesTo(queue'[j], n) => queue'[j].snap.id # None
    <3>1. /\ Knows(rows[n]) =>
              /\ Knows(nodes[n])
              /\ \A i \in DOMAIN queue : WritesTo(queue[i], n) => queue[i].snap.id # None
          /\ \A i \in DOMAIN queue : WritesTo(queue[i], n) /\ queue[i].snap.id # None =>
              /\ Knows(nodes[n])
              /\ \A j \in DOMAIN queue :
                   i < j /\ WritesTo(queue[j], n) => queue[j].snap.id # None
      BY <2>2, <2>4 DEF Named
    <3>2. ASSUME NEW i \in DOMAIN queue', WritesTo(queue'[i], n), queue'[i].snap.id # None
          PROVE  /\ Knows(nodes[n])
                 /\ \A j \in DOMAIN queue' :
                      i < j /\ WritesTo(queue'[j], n) => queue'[j].snap.id # None
      <4>1. i + 1 \in DOMAIN queue /\ queue'[i] = queue[i + 1]
        BY <2>3
      <4>2. ASSUME NEW j \in DOMAIN queue', i < j, WritesTo(queue'[j], n)
            PROVE  queue'[j].snap.id # None
        <5>1. j + 1 \in DOMAIN queue /\ queue'[j] = queue[j + 1] /\ i + 1 < j + 1
          BY <2>3, <4>2
        <5> QED BY <3>1, <3>2, <4>1, <4>2, <5>1
      <4> QED BY <3>1, <3>2, <4>1, <4>2
    <3>3. ASSUME Knows(rows[n]), NEW i \in DOMAIN queue', WritesTo(queue'[i], n)
          PROVE  queue'[i].snap.id # None
      BY <2>3, <3>1, <3>3
    <3>4. CASE rows'[n] = rows[n]
      BY <3>1, <3>2, <3>3, <3>4 DEF Knows
    <3>5. CASE rows'[n] # rows[n]
      <4>1. /\ w.kind = "node" /\ w.n \in Nodes /\ w.snap \in Snapshots
            /\ rows' = [rows EXCEPT ![w.n] = Upsert(rows[w.n], w.snap)]
        BY <1>5, <3>5, WriteOneFacts DEF w
      <4>2. w.n = n /\ rows'[n] = Upsert(rows[n], w.snap)
        BY <1>0, <3>5, <4>1
      <4>3. rows'[n].id = w.snap.id
        BY <1>0, <4>1, <4>2, UpsertFacts
      <4>4. WritesTo(queue[1], n) /\ queue[1].snap.id = w.snap.id
        BY <2>3, <4>1, <4>2 DEF WritesTo
      <4>5. ASSUME Knows(rows'[n])
            PROVE  /\ Knows(nodes[n])
                   /\ \A i \in DOMAIN queue' :
                        WritesTo(queue'[i], n) => queue'[i].snap.id # None
        <5>1. queue[1].snap.id # None
          BY <4>3, <4>4, <4>5 DEF Knows
        <5>2. ASSUME NEW i \in DOMAIN queue', WritesTo(queue'[i], n)
              PROVE  queue'[i].snap.id # None
          <6>1. i + 1 \in DOMAIN queue /\ queue'[i] = queue[i + 1] /\ 1 < i + 1
            BY <2>3
          <6> QED BY <2>3, <3>1, <4>4, <5>1, <5>2, <6>1
        <5> QED BY <2>3, <3>1, <4>4, <5>1, <5>2
      <4> QED BY <3>2, <4>5
    <3> QED BY <3>4, <3>5
  <2> QED BY <2>1, <2>2, <2>4 DEF Named, Knows, WritesTo
<1>6. ASSUME Crash PROVE Named'
  BY <1>6 DEF Crash, Named
<1>7. CASE Tick \/ SetClockBack \/ UNCHANGED vars
  BY <1>7 DEF Tick, SetClockBack, vars, Named, Knows, WritesTo
<1> QED BY <1>1, <1>2, <1>3, <1>4, <1>5, <1>6, <1>7 DEF Next

(***************************************************************************)
(* The rows of the nodes table only grow (_write_node's upsert), for every *)
(* set of nodes, packets and NodeDB lists: no write, crash, blind start or *)
(* dropped write ever takes a counter, a time or a name back.  The upsert  *)
(* overwrites the id, also by NULL; an id is kept all the same, because    *)
(* every later write knows it, unless the session could not read the rows. *)
(***************************************************************************)
THEOREM MemoryGrows == Spec => RowsGrow
<1> DEFINE Grows == \A n \in Nodes : rows[n] # None =>
       /\ rows'[n] # None
       /\ \A k \in Counters : rows'[n].cnt[k] >= rows[n].cnt[k]
       /\ rows[n].heard # None => rows'[n].heard # None /\ rows'[n].heard >= rows[n].heard
       /\ rows[n].name # None => rows'[n].name # None
       /\ rows[n].id # None => rows'[n].id # None \/ blind
<1>1. IngestType /\ Named /\ [Next]_vars => [Grows]_rows
  <2> SUFFICES ASSUME IngestType, Named, [Next]_vars, rows' # rows PROVE Grows
    OBVIOUS
  <2>1. WriteOne
    <3>1. \A p \in RawPackets : IngestNew(p) => rows' = rows
      BY DEF IngestNew
    <3> QED BY <3>1 DEF Next, Start, IngestDuplicate, SeedFromNodeDB, Crash, Tick,
                        SetClockBack, vars
  <2> DEFINE w == Head(queue)
  <2>2. /\ w.n \in Nodes /\ w.snap \in Snapshots /\ w.kind = "node"
        /\ rows' = [rows EXCEPT ![w.n] = Upsert(rows[w.n], w.snap)]
    BY <2>1, WriteOneFacts
  <2>6. w = queue[1] /\ 1 \in DOMAIN queue /\ running
    <3>1. queue # <<>> /\ queue \in Seq(Entries)
      BY <2>1 DEF WriteOne, IngestType
    <3>2. Len(queue) \in Nat \ {0} /\ DOMAIN queue = 1..Len(queue) /\ w = queue[1]
      BY <3>1, EmptySeq, LenProperties, HeadTailProperties
    <3> QED BY <3>1, <3>2 DEF Named
  <2> HIDE DEF w
  <2> SUFFICES ASSUME NEW n \in Nodes, rows[n] # None
               PROVE  /\ rows'[n] # None
                      /\ \A k \in Counters : rows'[n].cnt[k] >= rows[n].cnt[k]
                      /\ rows[n].heard # None =>
                           rows'[n].heard # None /\ rows'[n].heard >= rows[n].heard
                      /\ rows[n].name # None => rows'[n].name # None
                      /\ rows[n].id # None => rows'[n].id # None \/ blind
    OBVIOUS
  <2>3. rows[n] \in Snapshots
    BY DEF IngestType
  <2>4. CASE n = w.n
    <3>1. rows'[n] = Upsert(rows[n], w.snap)
      BY <2>2, <2>4 DEF IngestType
    <3>2. rows[n].id # None /\ ~blind => w.snap.id # None
      BY <2>2, <2>4, <2>6 DEF Named, Knows, WritesTo
    <3> QED BY <2>2, <2>3, <3>1, <3>2, UpsertFacts, NoneAssumption
  <2>5. CASE n # w.n
    <3>1. rows'[n] = rows[n]
      BY <2>2, <2>5 DEF IngestType
    <3>2. rows[n].cnt \in [Counters -> Nat] /\ rows[n].heard \in Nat \cup {None}
      BY <2>3 DEF Snapshots
    <3> QED BY <3>1, <3>2
  <2> QED BY <2>4, <2>5
<1> QED BY <1>1, InitIngest, NextIngest, InitNamed, NextNamed, PTL DEF Spec, RowsGrow
-----------------------------------------------------------------------------
(* Observations                                                            *)

\* The last_* fields of a snapshot describe a packet heard at its time.
Seen(n, s, obs) == s.last # NoObs => [n |-> n, at |-> s.heard, obs |-> s.last] \in obs

\* So it is in memory, in the table and in the queue between them.
Observed ==
  /\ \A n \in Nodes : nodes[n] # None => Seen(n, nodes[n], seenObs)
  /\ \A n \in Nodes : rows[n] # None => Seen(n, rows[n], seenObs)
  /\ \A e \in Elements(queue) : e.kind = "node" => Seen(e.n, e.snap, seenObs)

\* A time supplied by the radio reaches only snapshots that hold no packet.
LEMMA SeenSeeded ==
  ASSUME IngestType, NEW n \in Nodes, nodes[n] # None => Seen(n, nodes[n], seenObs),
         NEW list \in NodeDBs, NEW i \in DOMAIN list
  PROVE  Seen(n, SeedFromEntry(nodes[n], list[i]), seenObs)
<1> DEFINE old == nodes[n]
           new == SeedFromEntry(old, list[i])
<1>1. old \in Snapshots \cup {None}
  BY DEF IngestType
<1>2. /\ new \in Snapshots
      /\ old = None => new.last = NoObs
      /\ old # None => new.last = old.last /\ (old.heard # None => new.heard = old.heard)
  BY <1>1, SeedFromEntryFacts
<1>3. CASE old # None /\ old.last # NoObs
  <2>1. [n |-> n, at |-> old.heard, obs |-> old.last] \in seenObs
    BY <1>3 DEF Seen
  <2>2. old.heard \in Nat
    BY <2>1 DEF IngestType
  <2>3. old.heard # None
    BY <2>2, NoneAssumption
  <2> QED BY <1>2, <1>3, <2>1, <2>3 DEF Seen
<1> QED BY <1>2, <1>3 DEF Seen

LEMMA NextObserved == IngestType /\ Observed /\ [Next]_vars => Observed'
<1> SUFFICES ASSUME IngestType, Observed, [Next]_vars PROVE Observed'
  OBVIOUS
<1>0. /\ nodes \in [Nodes -> Snapshots \cup {None}]
      /\ rows \in [Nodes -> Snapshots \cup {None}]
  BY DEF IngestType
<1>1. ASSUME NEW readable \in BOOLEAN, Start(readable) PROVE Observed'
  <2>1. UNCHANGED <<rows, queue, seenObs>>
    BY <1>1 DEF Start
  <2>2. ASSUME NEW n \in Nodes, nodes'[n] # None PROVE Seen(n, nodes'[n], seenObs')
    <3>1. nodes'[n] = SeedFromRow(rows[n]) /\ rows[n] # None
      BY <1>0, <1>1, <2>2, SeedFromRowFacts DEF Start
    <3>2. nodes'[n].last = rows[n].last /\ nodes'[n].heard = rows[n].heard
      BY <1>0, <3>1, SeedFromRowFacts
    <3> QED BY <2>1, <3>1, <3>2 DEF Observed, Seen
  <2> QED BY <2>1, <2>2 DEF Observed, Seen
<1>2. ASSUME NEW p \in RawPackets, IngestDuplicate(p) PROVE Observed'
  BY <1>2 DEF IngestDuplicate, Observed, Seen
<1>3. ASSUME NEW p \in RawPackets, IngestNew(p) PROVE Observed'
  <2>1. CASE UNCHANGED <<nodes, queue, stale, heard, seenObs, rows, base, running, wall, now, blind>>
    BY <2>1 DEF Observed, Seen
  <2>2. ASSUME UNCHANGED <<nodes, heard, seenObs, rows, base, running, wall, now, blind>>,
               NEW ws \in Seq(Entries), Enqueue(ws),
               \A e \in Elements(ws) : e.kind # "node"
        PROVE  Observed'
    <3>1. \A e \in Elements(queue') : e.kind = "node" => e \in Elements(queue)
      BY <2>2, EnqueueFacts
    <3> QED BY <2>2, <3>1 DEF Observed, Seen
  <2>3. ASSUME NEW snap \in Snapshots, p.from \in Nodes, snap = UpdateNode(p),
               nodes' = [nodes EXCEPT ![p.from] = snap],
               seenObs' = seenObs \cup {[n |-> p.from, at |-> wall, obs |-> snap.last]},
               UNCHANGED <<rows, base, running, wall, now, blind>>,
               NEW ws \in Seq(Entries), Enqueue(ws),
               \A e \in Elements(ws) : e.kind = "node" => e.n = p.from /\ e.snap = snap
        PROVE  Observed'
    <3>1. snap.heard = wall
      BY <2>3, UpdateNodeFacts
    <3>2. Seen(p.from, snap, seenObs')
      BY <2>3, <3>1 DEF Seen
    <3>3. \A n, s : Seen(n, s, seenObs) => Seen(n, s, seenObs')
      BY <2>3 DEF Seen
    <3>4. \A n \in Nodes : nodes'[n] # None => Seen(n, nodes'[n], seenObs')
      BY <1>0, <2>3, <3>2, <3>3 DEF Observed
    <3>5. \A e \in Elements(queue') : e.kind = "node" => Seen(e.n, e.snap, seenObs')
      <4> SUFFICES ASSUME NEW e \in Elements(queue'), e.kind = "node"
                   PROVE  Seen(e.n, e.snap, seenObs')
        OBVIOUS
      <4>1. e \in Elements(queue) \/ e \in Elements(ws)
        BY <2>3, EnqueueFacts
      <4> QED BY <2>3, <3>2, <3>3, <4>1 DEF Observed
    <3>6. \A n \in Nodes : rows'[n] # None => Seen(n, rows'[n], seenObs')
      BY <2>3, <3>3 DEF Observed
    <3> QED BY <3>4, <3>5, <3>6 DEF Observed, Seen
  <2> QED BY <1>3, <2>1, <2>2, <2>3, IngestNewFacts
<1>4. ASSUME NEW list \in NodeDBs, SeedFromNodeDB(list) PROVE Observed'
  <2>1. /\ UNCHANGED <<seenObs, rows>>
        /\ \A n \in Nodes :
              \/ nodes'[n] = nodes[n]
              \/ \E i \in DOMAIN list : nodes'[n] = SeedFromEntry(nodes[n], list[i])
    BY <1>4, SeedFromNodeDBFacts
  <2>2. PICK ws \in Seq(Entries) :
          /\ Enqueue(ws)
          /\ \A e \in Elements(ws) : e.kind = "node" =>
               \E i \in DOMAIN list :
                 e.n = list[i].num /\ e.snap = SeedFromEntry(nodes[e.n], list[i])
    BY <1>4, SeedFromNodeDBFacts
  <2>3. \A n \in Nodes, i \in DOMAIN list : Seen(n, SeedFromEntry(nodes[n], list[i]), seenObs)
    BY SeenSeeded DEF Observed
  <2>4. \A n \in Nodes : nodes'[n] # None => Seen(n, nodes'[n], seenObs)
    BY <2>1, <2>3 DEF Observed
  <2>5. ASSUME NEW e \in Elements(queue'), e.kind = "node" PROVE Seen(e.n, e.snap, seenObs)
    <3>1. CASE e \in Elements(queue)
      BY <2>5, <3>1 DEF Observed
    <3>2. CASE e \in Elements(ws)
      <4>1. PICK i \in DOMAIN list :
              e.n = list[i].num /\ e.snap = SeedFromEntry(nodes[e.n], list[i])
        BY <2>2, <2>5, <3>2
      <4>2. e.n \in Nodes
        BY <4>1, InputAssumption
      <4> QED BY <2>3, <4>1, <4>2
    <3> QED BY <2>2, <3>1, <3>2, EnqueueFacts
  <2> QED BY <2>1, <2>4, <2>5 DEF Observed, Seen
<1>5. ASSUME WriteOne PROVE Observed'
  <2> DEFINE w == Head(queue)
  <2>1. /\ UNCHANGED <<nodes, seenObs>>
        /\ Elements(queue) = Elements(queue') \cup {w}
    BY <1>5, WriteOneFacts
  <2>2. CASE rows' = rows
    BY <2>1, <2>2 DEF Observed, Seen
  <2>3. CASE /\ w.n \in Nodes /\ w.snap \in Snapshots /\ w.kind = "node"
             /\ rows' = [rows EXCEPT ![w.n] = Upsert(rows[w.n], w.snap)]
    <3>0. Seen(w.n, w.snap, seenObs)
      BY <2>1, <2>3 DEF Observed
    <3> HIDE DEF w
    <3>1. Seen(w.n, Upsert(rows[w.n], w.snap), seenObs)
      <4>1. CASE rows[w.n] = None
        BY <2>3, <3>0, <4>1, UpsertFacts, <1>0
      <4>2. CASE rows[w.n] # None
        <5>1. Seen(w.n, rows[w.n], seenObs)
          BY <2>3, <4>2 DEF Observed
        <5> QED BY <1>0, <2>3, <3>0, <4>2, <5>1, UpsertFacts DEF Seen
      <4> QED BY <4>1, <4>2
    <3>2. \A n \in Nodes : rows'[n] # None => Seen(n, rows'[n], seenObs)
      BY <1>0, <2>3, <3>1 DEF Observed
    <3> QED BY <2>1, <3>2 DEF Observed, Seen
  <2> QED BY <1>5, <2>2, <2>3, WriteOneFacts
<1>6. ASSUME Crash PROVE Observed'
  <2>1. /\ UNCHANGED <<rows, seenObs>> /\ Elements(queue') = {}
        /\ \A n \in Nodes : nodes'[n] = None
    BY <1>6, EmptyElements DEF Crash
  <2> QED BY <2>1 DEF Observed, Seen
<1>7. CASE Tick \/ SetClockBack \/ UNCHANGED vars
  BY <1>7 DEF Tick, SetClockBack, vars, Observed, Seen
<1> QED BY <1>1, <1>2, <1>3, <1>4, <1>5, <1>6, <1>7 DEF Next

(***************************************************************************)
(* The last_* fields of a row describe one packet, the one heard at the    *)
(* row's last_heard, for every set of nodes, packets and lists: the        *)
(* snapshots, the queued writes and the rows keep observation and time     *)
(* together, and a time the radio's NodeDB supplies reaches only a         *)
(* snapshot that holds no observation (_update_node, seed_from_nodedb,     *)
(* _write_node).                                                           *)
(***************************************************************************)
THEOREM RowsAreObservations == Spec => []RowIsOneObservation
<1>1. Init => Observed
  <2> SUFFICES ASSUME Init PROVE Observed
    OBVIOUS
  <2>1. /\ \A n \in Nodes : nodes[n] = None /\ rows[n] = None
        /\ Elements(queue) = {}
    BY EmptyElements DEF Init
  <2> QED BY <2>1 DEF Observed
<1>2. Observed => RowIsOneObservation
  BY DEF Observed, RowIsOneObservation, Seen
<1> QED BY <1>1, <1>2, InitIngest, NextIngest, NextObserved, PTL DEF Spec
-----------------------------------------------------------------------------
(* Counters                                                                *)

AtLeast(s, t) == \A k \in Counters : s.cnt[k] >= t.cnt[k]

\* The row of n holds the counters of the snapshot, or a queued write does.
Covered(n, snap, row, q) ==
  \/ row # None /\ AtLeast(row, snap)
  \/ \E e \in Elements(q) : e.kind = "node" /\ e.n = n /\ AtLeast(e.snap, snap)

\* What has been counted is what the snapshot says beyond its start-up value.
Counted ==
  running => \A n \in Nodes :
    /\ nodes[n] = None => \A k \in Counters : base[n][k] = heard[n][k]
    /\ nodes[n] # None =>
         /\ \A k \in Counters : nodes[n].cnt[k] + base[n][k] = heard[n][k]
         /\ n \notin stale => Covered(n, nodes[n], rows[n], queue)

\* _update_node raises a counter for exactly the kinds a packet is of.
LEMMA CountsIsOf ==
  ASSUME NEW p \in RawPackets, NEW k \in Counters
  PROVE  Counts(p, k) <=> IsOf(p, k)
<1> DEFINE port == CoercePortnum(p.portnum)
<1>1. port \in {"text", "position", "telemetry", "nodeinfo", None}
  <2>1. CASE p.portnum \in {"TEXT_MESSAGE_APP", "1"}
    BY <2>1, Zenon DEF CoercePortnum
  <2>2. CASE p.portnum \in {"POSITION_APP", "3"}
    BY <2>2, Zenon DEF CoercePortnum
  <2>3. CASE p.portnum \in {"TELEMETRY_APP", "67"}
    BY <2>3, Zenon DEF CoercePortnum
  <2>4. CASE p.portnum = "NODEINFO_APP"
    BY <2>4, Zenon DEF CoercePortnum
  <2>5. CASE p.portnum \notin {"TEXT_MESSAGE_APP", "1", "POSITION_APP", "3",
                               "TELEMETRY_APP", "67", "NODEINFO_APP"}
    BY <2>5, Zenon DEF CoercePortnum
  <2> QED BY <2>1, <2>2, <2>3, <2>4, <2>5
<1>2. p.via \in {None, "mqtt", "rf"} /\ None \notin Counters
  BY InputAssumption, NoneAssumption
<1>3. Counts(p, k) <=> k = "packet" \/ k = port \/ k = p.via
  BY DEF Counts
<1>4. /\ k = "packet" => IsOf(p, k)
      /\ k \in {"mqtt", "rf"} => (IsOf(p, k) <=> p.via = k)
      /\ k \in {"text", "position", "telemetry"} => (IsOf(p, k) <=> port = k)
  <2> HIDE DEF port
  <2>1. CASE k = "packet"
    BY <2>1 DEF IsOf
  <2>2. CASE k \in {"mqtt", "rf"}
    BY <2>2 DEF IsOf
  <2>3. CASE k \in {"text", "position", "telemetry"}
    <3>1. IsOf(p, k) <=> CoercePortnum(p.portnum) = k
      BY <2>3 DEF IsOf
    <3> QED BY <2>3, <3>1 DEF port
  <2> QED BY <2>1, <2>2, <2>3 DEF Counters
<1> HIDE DEF port
<1> QED BY <1>1, <1>2, <1>3, <1>4 DEF Counters

\* What was covered stays covered while writes are queued behind.
LEMMA CoveredQueued ==
  ASSUME NEW n, NEW snap, NEW row, NEW q, NEW r, Elements(q) \subseteq Elements(r),
         Covered(n, snap, row, q)
  PROVE  Covered(n, snap, row, r)
BY DEF Covered

LEMMA AtLeastItself ==
  ASSUME NEW s \in Snapshots, NEW t \in Snapshots, s.cnt = t.cnt
  PROVE  AtLeast(s, t)
BY DEF AtLeast, Snapshots

LEMMA SeededCounts ==
  ASSUME NEW old \in Snapshots \cup {None}, NEW list \in NodeDBs, NEW i \in DOMAIN list
  PROVE  /\ SeedFromEntry(old, list[i]) \in Snapshots
         /\ old = None => \A k \in Counters : SeedFromEntry(old, list[i]).cnt[k] = 0
         /\ old # None => SeedFromEntry(old, list[i]).cnt = old.cnt
BY SeedFromEntryFacts

LEMMA NextCounted == IngestType /\ IngestType' /\ Counted /\ [Next]_vars => Counted'
<1> SUFFICES ASSUME IngestType, IngestType', Counted, [Next]_vars PROVE Counted'
  OBVIOUS
<1>0. /\ nodes \in [Nodes -> Snapshots \cup {None}]
      /\ rows \in [Nodes -> Snapshots \cup {None}]
      /\ heard \in [Nodes -> [Counters -> Nat]]
      /\ base \in [Nodes -> [Counters -> Int]]
      /\ \A s \in Snapshots : s.cnt \in [Counters -> Nat] /\ s # None
  BY NoneAssumption DEF IngestType, Snapshots
<1>1. ASSUME NEW readable \in BOOLEAN, Start(readable) PROVE Counted'
  <2>1. /\ UNCHANGED <<rows, queue, heard>>
        /\ nodes' = [n \in Nodes |-> IF readable THEN SeedFromRow(rows[n]) ELSE None]
        /\ base' = [n \in Nodes |-> [k \in Counters |->
                      heard[n][k] - (IF readable THEN RowCount(n, k) ELSE 0)]]
    BY <1>1 DEF Start
  <2>2. ASSUME NEW n \in Nodes, nodes'[n] = None, NEW k \in Counters
        PROVE  base'[n][k] = heard'[n][k]
    <3>1. CASE readable
      <4>1. rows[n] = None
        BY <1>0, <2>1, <2>2, <3>1, SeedFromRowFacts
      <4> QED BY <1>0, <2>1, <3>1, <4>1 DEF RowCount
    <3>2. CASE ~readable
      BY <1>0, <2>1, <3>2
    <3> QED BY <3>1, <3>2
  <2>3. ASSUME NEW n \in Nodes, nodes'[n] # None
        PROVE  /\ \A k \in Counters : nodes'[n].cnt[k] + base'[n][k] = heard'[n][k]
               /\ Covered(n, nodes'[n], rows'[n], queue')
    <3>1. readable /\ nodes'[n] = SeedFromRow(rows[n])
      BY <2>1, <2>3
    <3>2. rows[n] # None /\ rows[n] \in Snapshots
      BY <1>0, <2>3, <3>1, SeedFromRowFacts
    <3>3. \A k \in Counters : nodes'[n].cnt[k] = rows[n].cnt[k]
      BY <1>0, <3>1, <3>2, SeedFromRowFacts
    <3>4. \A k \in Counters : base'[n][k] = heard[n][k] - rows[n].cnt[k]
      BY <2>1, <3>1, <3>2 DEF RowCount
    <3>5. \A k \in Counters : rows[n].cnt[k] \in Nat /\ heard[n][k] \in Nat
      BY <1>0, <3>2
    <3>6. \A k \in Counters : nodes'[n].cnt[k] + base'[n][k] = heard'[n][k]
      BY <2>1, <3>3, <3>4, <3>5
    <3>7. Covered(n, nodes'[n], rows'[n], queue')
      BY <2>1, <3>2, <3>3, <3>5 DEF Covered, AtLeast
    <3> QED BY <3>6, <3>7
  <2> QED BY <2>2, <2>3 DEF Counted
<1>2. ASSUME NEW p \in RawPackets, IngestDuplicate(p) PROVE Counted'
  BY <1>2 DEF IngestDuplicate, Counted
<1>3. ASSUME NEW p \in RawPackets, IngestNew(p) PROVE Counted'
  <2>0. running
    BY <1>3 DEF IngestNew
  <2>1. CASE UNCHANGED <<nodes, queue, stale, heard, seenObs, rows, base, running, wall, now, blind>>
    BY <2>1 DEF Counted
  <2>2. ASSUME UNCHANGED <<nodes, heard, seenObs, rows, base, running, wall, now, blind>>,
               NEW ws \in Seq(Entries), Enqueue(ws),
               \A e \in Elements(ws) : e.kind # "node"
        PROVE  Counted'
    <3>1. PICK I \in SUBSET Elements(ws), O \in SUBSET Elements(ws) :
             /\ Elements(queue') = Elements(queue) \cup I
             /\ stale' = (stale \ NodesIn(I)) \cup (NodesIn(O) \ NodesIn(I))
      BY <2>2, EnqueueFacts
    <3>2. NodesIn(I) = {} /\ NodesIn(O) = {}
      BY <2>2 DEF NodesIn
    <3>3. stale' = stale
      BY <3>1, <3>2
    <3>4. \A n \in Nodes : Covered(n, nodes[n], rows[n], queue) =>
                           Covered(n, nodes[n], rows[n], queue')
      BY <3>1, CoveredQueued
    <3> QED BY <2>2, <3>3, <3>4 DEF Counted
  <2>3. ASSUME NEW snap \in Snapshots, p.from \in Nodes, snap = UpdateNode(p),
               nodes' = [nodes EXCEPT ![p.from] = snap],
               heard' = [heard EXCEPT ![p.from] =
                    [k \in Counters |-> IF IsOf(p, k) THEN @[k] + 1 ELSE @[k]]],
               UNCHANGED <<rows, base, running, wall, now, blind>>,
               NEW ws \in Seq(Entries), Enqueue(ws),
               \A e \in Elements(ws) : e.kind = "node" => e.n = p.from /\ e.snap = snap,
               \E e \in Elements(ws) : e.kind = "node" /\ e.n = p.from
        PROVE  Counted'
    <3> DEFINE f == p.from
    <3>1. PICK I \in SUBSET Elements(ws), O \in SUBSET Elements(ws) :
             /\ I \cup O = Elements(ws)
             /\ Elements(queue') = Elements(queue) \cup I
             /\ stale' = (stale \ NodesIn(I)) \cup (NodesIn(O) \ NodesIn(I))
      BY <2>3, EnqueueFacts
    <3>2. NodesIn(I) \subseteq {f} /\ f \in NodesIn(I) \cup NodesIn(O)
      BY <2>3, <3>1 DEF NodesIn
    <3>3. ASSUME f \notin stale' PROVE Covered(f, nodes'[f], rows'[f], queue')
      <4>1. f \in NodesIn(I)
        BY <3>1, <3>2, <3>3
      <4>2. PICK e \in I : e.kind = "node" /\ e.n = f
        BY <4>1 DEF NodesIn
      <4>3. e.snap = snap /\ nodes'[f] = snap /\ AtLeast(snap, snap)
        BY <1>0, <2>3, <4>2, AtLeastItself
      <4> QED BY <3>1, <4>2, <4>3 DEF Covered
    <3>4. ASSUME NEW k \in Counters PROVE nodes'[f].cnt[k] + base'[f][k] = heard'[f][k]
      <4>1. nodes'[f] = snap
        BY <1>0, <2>3
      <4>2. snap.cnt[k] = (IF nodes[f] = None THEN 0 ELSE nodes[f].cnt[k])
                           + (IF Counts(p, k) THEN 1 ELSE 0)
        BY <2>3, UpdateNodeFacts
      <4>3. heard'[f][k] = heard[f][k] + (IF IsOf(p, k) THEN 1 ELSE 0)
        BY <1>0, <2>3
      <4>4. Counts(p, k) <=> IsOf(p, k)
        BY CountsIsOf
      <4>5. (IF nodes[f] = None THEN 0 ELSE nodes[f].cnt[k]) + base[f][k] = heard[f][k]
        <5>1. CASE nodes[f] = None
          BY <1>0, <2>0, <2>3, <5>1 DEF Counted
        <5>2. CASE nodes[f] # None
          BY <2>0, <2>3, <5>2 DEF Counted
        <5> QED BY <5>1, <5>2
      <4>6. /\ base'[f] = base[f] /\ base[f][k] \in Int /\ heard[f][k] \in Nat
            /\ (IF nodes[f] = None THEN 0 ELSE nodes[f].cnt[k]) \in Nat
        BY <1>0, <2>3
      <4> QED BY <4>1, <4>2, <4>3, <4>4, <4>5, <4>6
    <3>5. ASSUME NEW n \in Nodes, n # f
          PROVE  /\ nodes'[n] = nodes[n] /\ heard'[n] = heard[n]
                 /\ n \notin stale' => n \notin stale
                 /\ Covered(n, nodes[n], rows[n], queue) =>
                      Covered(n, nodes'[n], rows'[n], queue')
      <4>1. nodes'[n] = nodes[n] /\ heard'[n] = heard[n]
        BY <1>0, <2>3, <3>5
      <4>2. n \notin NodesIn(I)
        BY <3>2, <3>5
      <4> QED BY <2>3, <3>1, <4>1, <4>2, CoveredQueued
    <3>6. nodes'[f] # None
      BY <1>0, <2>3
    <3> HIDE DEF f
    <3> QED BY <2>0, <2>3, <3>3, <3>4, <3>5, <3>6 DEF Counted
  <2> QED BY <1>3, <2>1, <2>2, <2>3, IngestNewFacts
<1>4. ASSUME NEW list \in NodeDBs, SeedFromNodeDB(list) PROVE Counted'
  <2>0. running
    BY <1>4 DEF SeedFromNodeDB
  <2>1. /\ UNCHANGED <<heard, rows, base, running>>
        /\ nodes' \in [Nodes -> Snapshots \cup {None}]
        /\ \A n \in Nodes :
              \/ nodes'[n] = nodes[n]
              \/ \E i \in DOMAIN list : n = list[i].num
                                        /\ nodes'[n] = SeedFromEntry(nodes[n], list[i])
    BY <1>4, SeedFromNodeDBFacts
  <2>2. PICK ws \in Seq(Entries) :
          /\ Enqueue(ws)
          /\ \A e \in Elements(ws) : e.kind = "node" =>
               \E i \in DOMAIN list :
                 e.n = list[i].num /\ e.snap = SeedFromEntry(nodes[e.n], list[i])
          /\ \A i \in DOMAIN list :
               \E e \in Elements(ws) : e.kind = "node" /\ e.n = list[i].num
    BY <1>4, SeedFromNodeDBFacts
  <2>3. PICK I \in SUBSET Elements(ws), O \in SUBSET Elements(ws) :
           /\ I \cup O = Elements(ws)
           /\ Elements(queue') = Elements(queue) \cup I
           /\ stale' = (stale \ NodesIn(I)) \cup (NodesIn(O) \ NodesIn(I))
    BY <2>2, EnqueueFacts
  <2>4. ASSUME NEW n \in Nodes, nodes'[n] # None, n \in NodesIn(I)
        PROVE  Covered(n, nodes'[n], rows'[n], queue')
    <3>1. PICK e \in I : e.kind = "node" /\ e.n = n
      BY <2>4 DEF NodesIn
    <3>2. PICK i \in DOMAIN list : e.snap = SeedFromEntry(nodes[n], list[i])
      BY <2>2, <3>1
    <3>3. /\ e.snap \in Snapshots
          /\ nodes[n] = None => \A k \in Counters : e.snap.cnt[k] = 0
          /\ nodes[n] # None => e.snap.cnt = nodes[n].cnt
      <4>1. nodes[n] \in Snapshots \cup {None}
        BY <1>0
      <4> DEFINE x == SeedFromEntry(nodes[n], list[i])
      <4>2. /\ x \in Snapshots
            /\ nodes[n] = None => \A k \in Counters : x.cnt[k] = 0
            /\ nodes[n] # None => x.cnt = nodes[n].cnt
        BY <3>2, <4>1, SeededCounts
      <4>3. e.snap = x
        BY <3>2
      <4> HIDE DEF x
      <4> QED BY <4>2, <4>3
    <3>4. /\ nodes'[n] \in Snapshots
          /\ nodes[n] = None => \A k \in Counters : nodes'[n].cnt[k] = 0
          /\ nodes[n] # None => nodes'[n].cnt = nodes[n].cnt
      <4>1. nodes[n] \in Snapshots \cup {None}
        BY <1>0
      <4>2. CASE nodes'[n] = nodes[n]
        BY <2>4, <4>1, <4>2
      <4>3. ASSUME NEW j \in DOMAIN list, nodes'[n] = SeedFromEntry(nodes[n], list[j])
            PROVE  /\ nodes'[n] \in Snapshots
                   /\ nodes[n] = None => \A k \in Counters : nodes'[n].cnt[k] = 0
                   /\ nodes[n] # None => nodes'[n].cnt = nodes[n].cnt
        BY <4>1, <4>3, SeededCounts
      <4> QED BY <2>1, <4>2, <4>3
    <3>5. AtLeast(e.snap, nodes'[n])
      BY <1>0, <3>3, <3>4 DEF AtLeast
    <3> QED BY <2>3, <3>1, <3>5 DEF Covered
  <2>5. ASSUME NEW n \in Nodes, nodes'[n] = None PROVE nodes[n] = None
    BY <1>0, <2>1, <2>5, SeedFromEntryFacts
  <2>6. ASSUME NEW n \in Nodes, nodes'[n] # None
        PROVE  \A k \in Counters : nodes'[n].cnt[k] + base'[n][k] = heard'[n][k]
    <3>1. CASE nodes'[n] = nodes[n]
      BY <2>0, <2>1, <2>6, <3>1 DEF Counted
    <3>2. ASSUME NEW i \in DOMAIN list, nodes'[n] = SeedFromEntry(nodes[n], list[i])
          PROVE  \A k \in Counters : nodes'[n].cnt[k] + base'[n][k] = heard'[n][k]
      <4>1. CASE nodes[n] = None
        <5>1. \A k \in Counters : nodes'[n].cnt[k] = 0 /\ base[n][k] = heard[n][k]
          <6>1. nodes[n] \in Snapshots \cup {None}
            BY <1>0
          <6>2. \A k \in Counters : SeedFromEntry(nodes[n], list[i]).cnt[k] = 0
            BY <3>2, <4>1, <6>1, SeededCounts
          <6> QED BY <2>0, <3>2, <4>1, <6>2 DEF Counted
        <5> QED BY <1>0, <2>1, <5>1
      <4>2. CASE nodes[n] # None
        <5>1. nodes'[n].cnt = nodes[n].cnt
          BY <1>0, <3>2, <4>2, SeedFromEntryFacts
        <5> QED BY <2>0, <2>1, <4>2, <5>1 DEF Counted
      <4> QED BY <4>1, <4>2
    <3> QED BY <2>1, <3>1, <3>2
  <2>7. ASSUME NEW n \in Nodes, nodes'[n] # None, n \notin stale'
        PROVE  Covered(n, nodes'[n], rows'[n], queue')
    <3>1. CASE n \in NodesIn(I)
      BY <2>4, <2>7, <3>1
    <3>2. CASE n \notin NodesIn(I)
      <4>1. n \notin stale /\ n \notin NodesIn(O)
        BY <2>3, <2>7, <3>2
      <4>2. \A i \in DOMAIN list : list[i].num # n
        BY <2>2, <2>3, <3>2, <4>1 DEF NodesIn
      <4>3. nodes'[n] = nodes[n]
        BY <2>1, <4>2
      <4>4. Covered(n, nodes[n], rows[n], queue)
        BY <2>0, <2>7, <4>1, <4>3 DEF Counted
      <4> QED BY <2>1, <2>3, <4>3, <4>4, CoveredQueued
    <3> QED BY <3>1, <3>2
  <2> QED BY <2>0, <2>1, <2>5, <2>6, <2>7 DEF Counted
<1>5. ASSUME WriteOne PROVE Counted'
  <2> DEFINE w == Head(queue)
  <2>1. /\ UNCHANGED <<nodes, heard, base, running, stale>>
        /\ Elements(queue) = Elements(queue') \cup {w}
        /\ \/ rows' = rows /\ w.kind # "node"
           \/ /\ w.n \in Nodes /\ w.snap \in Snapshots /\ w.kind = "node"
              /\ rows' = [rows EXCEPT ![w.n] = Upsert(rows[w.n], w.snap)]
    BY <1>5, WriteOneFacts
  <2> HIDE DEF w
  <2>2. ASSUME NEW n \in Nodes, nodes[n] # None, Covered(n, nodes[n], rows[n], queue)
        PROVE  Covered(n, nodes[n], rows'[n], queue')
    <3>0. nodes[n].cnt \in [Counters -> Nat]
      BY <1>0, <2>2
    <3>1. CASE rows' = rows /\ w.kind # "node"
      BY <2>1, <2>2, <3>1 DEF Covered
    <3>2. CASE w.n \in Nodes /\ n # w.n /\ rows' = [rows EXCEPT ![w.n] = Upsert(rows[w.n], w.snap)]
      BY <1>0, <2>1, <2>2, <3>2 DEF Covered
    <3>3. CASE /\ w.n = n /\ w.snap \in Snapshots
               /\ rows' = [rows EXCEPT ![w.n] = Upsert(rows[w.n], w.snap)]
      <4> DEFINE new == Upsert(rows[n], w.snap)
      <4>1. rows'[n] = new
        BY <1>0, <3>3
      <4>2. /\ new \in Snapshots /\ new # None
            /\ \A k \in Counters : new.cnt[k] >= w.snap.cnt[k]
            /\ rows[n] # None => \A k \in Counters : new.cnt[k] >= rows[n].cnt[k]
        BY <1>0, <3>3, UpsertFacts
      <4> HIDE DEF new
      <4>3. /\ \A k \in Counters : new.cnt[k] \in Nat /\ w.snap.cnt[k] \in Nat
            /\ rows[n] # None => \A k \in Counters : rows[n].cnt[k] \in Nat
        BY <1>0, <3>3, <4>2
      <4>4. CASE rows[n] # None /\ AtLeast(rows[n], nodes[n])
        <5>1. AtLeast(new, nodes[n])
          BY <3>0, <4>2, <4>3, <4>4 DEF AtLeast
        <5> QED BY <4>1, <4>2, <5>1 DEF Covered
      <4>5. CASE AtLeast(w.snap, nodes[n])
        <5>1. AtLeast(new, nodes[n])
          BY <3>0, <4>2, <4>3, <4>5 DEF AtLeast
        <5> QED BY <4>1, <4>2, <5>1 DEF Covered
      <4>6. ASSUME NEW e \in Elements(queue'), e.kind = "node", e.n = n, AtLeast(e.snap, nodes[n])
            PROVE  Covered(n, nodes[n], rows'[n], queue')
        BY <4>6 DEF Covered
      <4> QED BY <2>1, <2>2, <4>4, <4>5, <4>6 DEF Covered
    <3> QED BY <2>1, <3>1, <3>2, <3>3
  <2> QED BY <2>1, <2>2 DEF Counted
<1>6. CASE Crash
  BY <1>6 DEF Crash, Counted
<1>7. CASE Tick \/ SetClockBack \/ UNCHANGED vars
  BY <1>7 DEF Tick, SetClockBack, vars, Counted
<1> QED BY <1>1, <1>2, <1>3, <1>4, <1>5, <1>6, <1>7 DEF Next

(***************************************************************************)
(* The counters are exact, for every set of nodes, packets and lists and   *)
(* for every queue limit: a snapshot's counters are the row's at start-up  *)
(* plus every packet counted since, and the row has caught up with them    *)
(* once no write for the node is queued or was refused (_update_node,      *)
(* seed_from_store, _write_node).                                          *)
(***************************************************************************)
THEOREM CountersAreExact == Spec => []ExactCounters
<1>1. Init => Counted
  BY DEF Init, Counted
<1>2. Counted => ExactCounters
  <2> SUFFICES ASSUME Counted, running, NEW n \in Nodes, nodes[n] # None
               PROVE  /\ \A k \in Counters : nodes[n].cnt[k] + base[n][k] = heard[n][k]
                      /\ n \notin NodesOf(queue) \cup stale =>
                           /\ rows[n] # None
                           /\ \A k \in Counters : rows[n].cnt[k] >= nodes[n].cnt[k]
    BY DEF ExactCounters
  <2>1. \A e \in Elements(queue) : e.kind = "node" => e.n \in NodesOf(queue)
    BY DEF Elements, NodesOf
  <2> QED BY <2>1 DEF Counted, Covered, AtLeast
<1> QED BY <1>1, <1>2, InitIngest, NextIngest, NextCounted, PTL DEF Spec
-----------------------------------------------------------------------------
(* The duplicate table                                                     *)

IsSeq(s) == s \in Seq(Elements(s))

LEMMA SeqFacts ==
  ASSUME NEW s, IsSeq(s)
  PROVE  Len(s) \in Nat /\ DOMAIN s = 1..Len(s)
BY DEF IsSeq

LEMMA SeqAppend ==
  ASSUME NEW s, IsSeq(s), NEW e
  PROVE  /\ IsSeq(Append(s, e)) /\ Len(Append(s, e)) = Len(s) + 1
         /\ \A i \in 1..Len(s) : Append(s, e)[i] = s[i]
         /\ Append(s, e)[Len(s) + 1] = e
<1> DEFINE T == Elements(s) \cup {e}
           t == Append(s, e)
<1>1. s \in Seq(T) /\ e \in T
  <2>1. /\ Len(s) \in Nat /\ DOMAIN s = 1..Len(s) /\ \A i \in 1..Len(s) : s[i] \in T
        /\ s = [i \in 1..Len(s) |-> s[i]]
    BY DEF IsSeq, Elements
  <2>2. [i \in 1..Len(s) |-> s[i]] \in Seq(T)
    <3> HIDE DEF T
    <3> QED BY <2>1, IsASeq
  <2> QED BY <2>1, <2>2
<1> HIDE DEF T
<1>2. /\ t \in Seq(T) /\ Len(t) = Len(s) + 1 /\ Len(s) \in Nat
      /\ \A i \in 1..Len(s) : t[i] = s[i]
      /\ t[Len(s) + 1] = e
      /\ DOMAIN t = 1..(Len(s) + 1) /\ t = [i \in 1..(Len(s) + 1) |-> t[i]]
  <2>1. t \in Seq(T) /\ Len(t) = Len(s) + 1 /\ Len(s) \in Nat
    BY <1>1
  <2>2. \A i \in 1..Len(s) : t[i] = s[i]
    BY <1>1, AppendProperties
  <2>3. t[Len(s) + 1] = e
    BY <1>1, AppendProperties
  <2>4. DOMAIN t = 1..(Len(s) + 1)
    BY <2>1, LenProperties
  <2>5. t = [i \in 1..(Len(s) + 1) |-> t[i]]
    <3> HIDE DEF t
    <3> QED BY <2>1, <2>4
  <2> QED BY <2>1, <2>2, <2>3, <2>4, <2>5
<1>3. \A i \in 1..(Len(s) + 1) : t[i] \in Elements(t)
  BY <1>2 DEF Elements
<1> HIDE DEF t
<1>4. [i \in 1..(Len(s) + 1) |-> t[i]] \in Seq(Elements(t))
  BY <1>2, <1>3, IsASeq
<1> QED BY <1>2, <1>4 DEF IsSeq, t

\* The sequence from its a-th member on.
LEMMA SeqRest ==
  ASSUME NEW s, IsSeq(s), NEW a \in 1..(Len(s) + 1)
  PROVE  LET t == SubSeq(s, a, Len(s))
         IN  /\ IsSeq(t) /\ Len(t) = Len(s) + 1 - a
             /\ \A i \in 1..(Len(s) + 1 - a) : t[i] = s[a + i - 1]
<1> DEFINE t == SubSeq(s, a, Len(s))
           m == Len(s) + 1 - a
<1>1. Len(s) \in Nat /\ a \in Nat /\ 1 <= a /\ a <= Len(s) + 1 /\ m \in Nat
  BY SeqFacts
<1>2. t = [i \in 1..m |-> s[a + i - 1]]
  <2>1. t = [i \in 1..(1 + Len(s) - a) |-> s[i + a - 1]]
    BY <1>1
  <2>2. \A i \in 1..m : i + a - 1 = a + i - 1
    BY <1>1
  <2>3. 1 + Len(s) - a = m
    BY <1>1
  <2> QED BY <2>1, <2>2, <2>3
<1>3. \A i \in 1..m : t[i] = s[a + i - 1]
  BY <1>2
<1>4. DOMAIN t = 1..m /\ t = [i \in 1..m |-> t[i]] /\ \A i \in 1..m : t[i] \in Elements(t)
  BY <1>2 DEF Elements
<1> HIDE DEF t, m
<1>5. [i \in 1..m |-> t[i]] \in Seq(Elements(t)) /\ Len([i \in 1..m |-> t[i]]) = m
  BY <1>1, <1>4, IsASeq
<1> QED BY <1>3, <1>4, <1>5 DEF IsSeq, t, m

\* The newest entries that the size limit always leaves.
Keep == DedupLimit + 1 - DedupDrop

\* The table d holds the newest entries of the log l, in order; what it has
\* lost by time t has expired or was cut by the size limit.
Table(d, l, t) ==
  /\ IsSeq(d) /\ IsSeq(l) /\ Len(d) <= Len(l) /\ Len(d) <= DedupLimit
  /\ \A i \in 1..Len(l) : l[i].at \in Nat /\ l[i].at <= t
  /\ \A i, j \in 1..Len(l) : i <= j => l[i].at <= l[j].at
  /\ \A i \in 1..Len(d) : /\ d[i].key = l[Len(l) - Len(d) + i].key
                          /\ d[i].expiry = l[Len(l) - Len(d) + i].at + TTL
  /\ \A i \in 1..Len(l) : i <= Len(l) - Len(d) =>
       t >= l[i].at + TTL \/ Len(l) - i >= Keep
  /\ \A i, j \in 1..Len(l) : i < j /\ l[i].key = l[j].key =>
       l[j].at >= l[i].at + TTL \/ j - i > Keep

LEMMA Limits ==
  /\ TTL \in Nat \ {0} /\ DedupLimit \in Nat /\ DedupDrop \in Nat
  /\ 1 <= DedupDrop /\ DedupDrop <= DedupLimit
  /\ Keep \in Nat /\ 1 <= Keep /\ Keep <= DedupLimit
BY IngestorAssumption DEF Keep

\* _prune_dedup takes away expired entries only, and all of them.
LEMMA PruneFacts ==
  ASSUME NEW d, NEW l, now \in Nat, Table(d, l, now)
  PROVE  /\ Table(PruneDedup(d), l, now)
         /\ \A i \in 1..Len(PruneDedup(d)) : PruneDedup(d)[i].expiry > now
<1> DEFINE L == Len(l)
           m == Len(d)
           live == {i \in DOMAIN d : d[i].expiry > now}
<1>0. /\ L \in Nat /\ m \in Nat /\ m <= L /\ DOMAIN d = 1..m /\ DOMAIN l = 1..L
      /\ TTL \in Nat
  BY SeqFacts, Limits DEF Table
<1>1. \A i \in 1..m : /\ d[i].expiry = l[L - m + i].at + TTL /\ L - m + i \in 1..L
                      /\ l[L - m + i].at \in Nat
  BY <1>0 DEF Table
<1>2. CASE live = {}
  <2>1. PruneDedup(d) = <<>> /\ IsSeq(<<>>) /\ Len(<<>>) = 0
    BY <1>2, EmptyElements DEF PruneDedup, IsSeq
  <2>2. \A i \in 1..m : ~(l[L - m + i].at + TTL > now)
    BY <1>0, <1>1, <1>2
  <2>3. ASSUME NEW i \in 1..L PROVE now >= l[i].at + TTL \/ L - i >= Keep
    <3>1. CASE i <= L - m
      BY <3>1 DEF Table
    <3>2. CASE i > L - m
      <4>1. i - (L - m) \in 1..m /\ L - m + (i - (L - m)) = i
        BY <1>0, <3>2
      <4>2. ~(l[i].at + TTL > now) /\ l[i].at \in Nat
        BY <1>1, <2>2, <4>1
      <4> QED BY <1>0, <4>2
    <3> QED BY <1>0, <3>1, <3>2
  <2>4. Table(<<>>, l, now)
    BY <1>0, <2>1, <2>3, Limits DEF Table
  <2> QED BY <2>1, <2>4
<1>3. CASE live # {}
  <2>1. live \in SUBSET Nat
    BY <1>0
  <2>2. \E i \in live : \A j \in live : i <= j
    <3> HIDE DEF live
    <3> QED BY <1>3, <2>1, LeastNat
  <2>3. PICK c \in live : /\ \A j \in live : c <= j
                          /\ PruneDedup(d) = SubSeq(d, c, m)
    BY <1>3, <2>2 DEF PruneDedup
  <2>4. c \in 1..m /\ d[c].expiry > now
    BY <1>0
  <2> DEFINE p == PruneDedup(d)
  <2>5. /\ IsSeq(p) /\ Len(p) = m + 1 - c
        /\ \A i \in 1..(m + 1 - c) : p[i] = d[c + i - 1]
    <3>1. c \in 1..(m + 1) /\ IsSeq(d)
      BY <1>0, <2>4 DEF Table
    <3> QED BY <2>3, <3>1, SeqRest
  <2> HIDE DEF p, live
  <2>6. \A i \in 1..(m + 1 - c) : /\ c + i - 1 \in 1..m
                                  /\ L - Len(p) + i = L - m + (c + i - 1)
    BY <1>0, <2>4, <2>5
  <2>7. ASSUME NEW i \in 1..Len(p)
        PROVE  /\ p[i].key = l[L - Len(p) + i].key
               /\ p[i].expiry = l[L - Len(p) + i].at + TTL
    <3>1. i \in 1..(m + 1 - c)
      BY <2>5
    <3>2. \A j \in 1..m : /\ d[j].key = l[L - m + j].key
                          /\ d[j].expiry = l[L - m + j].at + TTL
      BY DEF Table
    <3>3. c + i - 1 \in 1..m /\ L - Len(p) + i = L - m + (c + i - 1) /\ p[i] = d[c + i - 1]
      BY <2>5, <2>6, <3>1
    <3> HIDE DEF L, m
    <3> QED BY <3>2, <3>3
  <2>8. ASSUME NEW i \in 1..Len(p) PROVE p[i].expiry > now
    <3>1. /\ L - m + c \in 1..L /\ L - m + (c + i - 1) \in 1..L
          /\ L - m + c <= L - m + (c + i - 1)
      BY <1>0, <2>4, <2>5, <2>6
    <3>2. l[L - m + c].at <= l[L - m + (c + i - 1)].at
      BY <3>1 DEF Table
    <3>3. d[c].expiry = l[L - m + c].at + TTL /\ l[L - m + c].at \in Nat
      BY <1>1, <2>4
    <3>4. p[i].expiry = l[L - m + (c + i - 1)].at + TTL
      BY <2>5, <2>6, <2>7
    <3>5. l[L - m + (c + i - 1)].at \in Nat
      BY <3>1 DEF Table
    <3> DEFINE u == l[L - m + c].at
               w == l[L - m + (c + i - 1)].at
    <3>6. u \in Nat /\ w \in Nat /\ u <= w /\ u + TTL > now
      BY <2>4, <3>2, <3>3, <3>5
    <3>7. p[i].expiry = w + TTL
      BY <3>4
    <3> HIDE DEF u, w
    <3>8. w + TTL > now
      BY <1>0, <3>6
    <3> QED BY <3>7, <3>8
  <2>9. ASSUME NEW i \in 1..L, i <= L - Len(p) PROVE now >= l[i].at + TTL \/ L - i >= Keep
    <3>1. CASE i <= L - m
      BY <3>1 DEF Table
    <3>2. CASE i > L - m
      <4>1. i - (L - m) \in 1..m /\ L - m + (i - (L - m)) = i /\ i - (L - m) < c
        BY <1>0, <2>4, <2>5, <2>9, <3>2
      <4>2. i - (L - m) \notin live
        BY <2>1, <2>3, <4>1
      <4>3. ~(d[i - (L - m)].expiry > now)
        BY <1>0, <4>1, <4>2 DEF live
      <4>4. d[i - (L - m)].expiry = l[i].at + TTL /\ l[i].at \in Nat
        BY <1>1, <4>1
      <4> QED BY <1>0, <4>3, <4>4
    <3> QED BY <1>0, <3>1, <3>2
  <2>10. Len(p) <= L /\ Len(p) <= DedupLimit
    <3>1. m <= DedupLimit
      BY DEF Table
    <3> QED BY <1>0, <2>4, <2>5, <3>1, Limits
  <2>11. Table(p, l, now)
    BY <2>5, <2>7, <2>9, <2>10 DEF Table
  <2> QED BY <2>8, <2>11 DEF p
<1> QED BY <1>2, <1>3

\* A key the table does not hold is recorded.
LEMMA RememberFacts ==
  ASSUME NEW d, NEW l, now \in Nat, Table(d, l, now), NEW key, ~IsDuplicate(d, key)
  PROVE  Table(Remember(d, key), Append(l, [key |-> key, at |-> now]), now)
<1> DEFINE L == Len(l)
           m == Len(d)
           n == Append(l, [key |-> key, at |-> now])
           e == Append(d, [key |-> key, expiry |-> now + TTL])
           r == Remember(d, key)
<1>0. /\ IsSeq(d) /\ IsSeq(l) /\ L \in Nat /\ m \in Nat /\ m <= L /\ m <= DedupLimit
      /\ DOMAIN d = 1..m
  BY SeqFacts DEF Table
<1>1. /\ IsSeq(n) /\ Len(n) = L + 1 /\ \A i \in 1..L : n[i] = l[i]
      /\ n[L + 1] = [key |-> key, at |-> now]
  BY <1>0, SeqAppend
<1>2. /\ IsSeq(e) /\ Len(e) = m + 1 /\ \A i \in 1..m : e[i] = d[i]
      /\ e[m + 1] = [key |-> key, expiry |-> now + TTL]
  BY <1>0, SeqAppend
<1> DEFINE a == IF m + 1 > DedupLimit THEN DedupDrop + 1 ELSE 1
<1>3. /\ a \in 1..(m + 1)
      /\ a = 1 \/ (m + 1) + 1 - a = Keep
      /\ (m + 1) + 1 - a <= DedupLimit
  BY <1>0, Limits DEF Keep
<1>4. /\ IsSeq(r) /\ Len(r) = (m + 1) + 1 - a
      /\ \A i \in 1..Len(r) : r[i] = e[a + i - 1]
  <2>1. CASE m + 1 > DedupLimit
    <3>1. r = SubSeq(e, a, Len(e))
      BY <1>2, <2>1 DEF Remember
    <3>2. a \in 1..(Len(e) + 1)
      BY <1>0, <1>2, <1>3
    <3> HIDE DEF e, r, a
    <3> QED BY <1>2, <3>1, <3>2, SeqRest
  <2>2. CASE ~(m + 1 > DedupLimit)
    <3>1. r = e /\ a = 1
      BY <1>2, <2>2 DEF Remember
    <3> HIDE DEF e, r, a
    <3> QED BY <1>0, <1>2, <3>1
  <2> QED BY <2>1, <2>2
<1> HIDE DEF n, e, r, a
<1>5. \A i \in 1..(L + 1) : i \in 1..L \/ i = L + 1
  BY <1>0
<1>6. \A i \in 1..(L + 1) : n[i].at \in Nat /\ n[i].at <= now
  <2>1. \A i \in 1..L : n[i].at \in Nat /\ n[i].at <= now
    BY <1>1 DEF Table
  <2>2. n[L + 1].at \in Nat /\ n[L + 1].at <= now
    BY <1>1
  <2> QED BY <1>5, <2>1, <2>2
<1>7. \A i, j \in 1..(L + 1) : i <= j => n[i].at <= n[j].at
  <2> SUFFICES ASSUME NEW i \in 1..(L + 1), NEW j \in 1..(L + 1), i <= j
               PROVE  n[i].at <= n[j].at
    OBVIOUS
  <2>1. CASE j = L + 1
    BY <1>1, <1>6, <2>1
  <2>2. CASE j \in 1..L
    <3>1. i \in 1..L
      BY <1>0, <2>2
    <3> QED BY <1>1, <2>2, <3>1 DEF Table
  <2> QED BY <1>5, <2>1, <2>2
<1>8. ASSUME NEW i \in 1..(m + 1)
      PROVE  e[i].key = n[L - m + i].key /\ e[i].expiry = n[L - m + i].at + TTL
  <2>1. CASE i = m + 1
    <3>1. L - m + i = L + 1
      BY <1>0, <2>1
    <3> QED BY <1>1, <1>2, <2>1, <3>1
  <2>2. CASE i \in 1..m
    <3>1. L - m + i \in 1..L
      BY <1>0, <2>2
    <3> QED BY <1>1, <1>2, <2>2, <3>1 DEF Table
  <2> QED BY <1>0, <2>1, <2>2
<1>9. ASSUME NEW i \in 1..Len(r)
      PROVE  /\ r[i].key = n[(L + 1) - Len(r) + i].key
             /\ r[i].expiry = n[(L + 1) - Len(r) + i].at + TTL
  <2>1. a + i - 1 \in 1..(m + 1) /\ L - m + (a + i - 1) = (L + 1) - Len(r) + i
    BY <1>0, <1>3, <1>4
  <2> QED BY <1>4, <1>8, <2>1
<1>10. ASSUME NEW i \in 1..L, i <= L - m
       PROVE  now >= n[i].at + TTL \/ L - i >= Keep
  BY <1>1, <1>10 DEF Table
<1>11. ASSUME NEW i \in 1..(L + 1), i <= (L + 1) - Len(r)
       PROVE  now >= n[i].at + TTL \/ (L + 1) - i >= Keep
  <2>1. CASE a = 1
    <3>1. i \in 1..L /\ i <= L - m
      BY <1>0, <1>4, <1>11, <2>1
    <3> QED BY <1>0, <1>10, <3>1, Limits
  <2>2. CASE (m + 1) + 1 - a = Keep
    BY <1>0, <1>4, <1>11, <2>2, Limits
  <2> QED BY <1>3, <2>1, <2>2
<1>12. ASSUME NEW i \in 1..(L + 1), NEW j \in 1..(L + 1), i < j, n[i].key = n[j].key
       PROVE  n[j].at >= n[i].at + TTL \/ j - i > Keep
  <2>1. CASE j \in 1..L
    <3>1. i \in 1..L
      BY <1>0, <1>12, <2>1
    <3> QED BY <1>1, <1>12, <2>1, <3>1 DEF Table
  <2>2. CASE j = L + 1
    <3>1. i \in 1..L /\ l[i].key = key /\ n[j].at = now
      BY <1>0, <1>1, <1>12, <2>2
    <3>2. CASE i <= L - m
      <4>1. now >= n[i].at + TTL \/ L - i >= Keep
        BY <1>10, <3>1, <3>2
      <4>2. L - i >= Keep => j - i > Keep
        BY <1>0, <2>2, <3>1, Limits
      <4> QED BY <3>1, <4>1, <4>2
    <3>3. CASE i > L - m
      <4>1. i - (L - m) \in 1..m /\ L - m + (i - (L - m)) = i
        BY <1>0, <3>1, <3>3
      <4>2. d[i - (L - m)].key = key
        BY <3>1, <4>1 DEF Table
      <4> QED BY <1>0, <4>1, <4>2 DEF IsDuplicate
    <3> QED BY <1>0, <3>1, <3>2, <3>3
  <2> QED BY <1>5, <2>1, <2>2
<1>13. Len(r) <= L + 1 /\ Len(r) <= DedupLimit
  BY <1>0, <1>3, <1>4
<1>14. Table(r, n, now)
  BY <1>1, <1>4, <1>6, <1>7, <1>9, <1>11, <1>12, <1>13 DEF Table
<1> QED BY <1>14 DEF r, n

LEMMA EmptyTable == \A t : Table(<<>>, <<>>, t)
<1>1. IsSeq(<<>>) /\ Len(<<>>) = 0 /\ 1..0 = {}
  BY EmptyElements DEF IsSeq
<1> QED BY <1>1, Limits DEF Table

\* Time passes: more of what the table lost has expired.
LEMMA TableLater ==
  ASSUME NEW d, NEW l, NEW t \in Nat, Table(d, l, t)
  PROVE  Table(d, l, t + 1)
BY Limits DEF Table

\* A packet that was just ignored repeats a recent one.
IgnoredIsRecent ==
  ignored # None => \E i \in DOMAIN log : log[i].key = ignored /\ now < log[i].at + TTL

Deduplicated == now \in Nat /\ Table(dedup, log, now) /\ IgnoredIsRecent

LEMMA NextDeduplicated == Deduplicated /\ [Next]_vars => Deduplicated'
<1> SUFFICES ASSUME Deduplicated, [Next]_vars PROVE Deduplicated'
  OBVIOUS
<1>0. now \in Nat /\ Table(dedup, log, now)
  BY DEF Deduplicated
<1>1. CASE UNCHANGED <<now, dedup, log, ignored>>
  BY <1>1 DEF Deduplicated, IgnoredIsRecent
<1>2. CASE UNCHANGED <<now, dedup, log>> /\ ignored' = None
  BY <1>0, <1>2 DEF Deduplicated, IgnoredIsRecent
<1>3. CASE (\E readable \in BOOLEAN : Start(readable)) \/ Crash
  <2>1. dedup' = <<>> /\ log' = <<>> /\ ignored' = None /\ now' = now
    BY <1>3 DEF Start, Crash
  <2> QED BY <1>0, <2>1, EmptyTable DEF Deduplicated, IgnoredIsRecent
<1>4. ASSUME NEW p \in RawPackets, IngestDuplicate(p) PROVE Deduplicated'
  <2> DEFINE d == PruneDedup(dedup)
             key == DedupKey(p)
  <2>1. IsDuplicate(d, key) /\ dedup' = d /\ ignored' = key /\ UNCHANGED <<now, log>>
    BY <1>4 DEF IngestDuplicate
  <2>2. Table(d, log, now) /\ \A i \in 1..Len(d) : d[i].expiry > now
    BY <1>0, PruneFacts
  <2> HIDE DEF d, key
  <2>3. /\ Len(d) \in Nat /\ Len(log) \in Nat /\ Len(d) <= Len(log)
        /\ DOMAIN d = 1..Len(d) /\ DOMAIN log = 1..Len(log)
    BY <2>2, SeqFacts DEF Table
  <2>4. PICK i \in 1..Len(d) : d[i].key = key
    BY <2>1, <2>3 DEF IsDuplicate
  <2>5. Len(log) - Len(d) + i \in DOMAIN log
    BY <2>3
  <2>6. /\ log[Len(log) - Len(d) + i].key = key
        /\ now < log[Len(log) - Len(d) + i].at + TTL
    <3>1. d[i].expiry = log[Len(log) - Len(d) + i].at + TTL
      BY <2>2 DEF Table
    <3>2. log[Len(log) - Len(d) + i].at \in Nat
      BY <2>2, <2>3, <2>5 DEF Table
    <3> QED BY <1>0, <2>2, <2>4, <3>1, <3>2, Limits DEF Table
  <2> QED BY <1>0, <2>1, <2>2, <2>5, <2>6 DEF Deduplicated, IgnoredIsRecent
<1>5. ASSUME NEW p \in RawPackets, IngestNew(p) PROVE Deduplicated'
  <2> DEFINE d == PruneDedup(dedup)
             key == DedupKey(p)
  <2>0. CASE key = None
    <3>1. UNCHANGED <<now, dedup, log>> /\ ignored' = None
      BY <1>5, <2>0 DEF IngestNew
    <3> QED BY <1>2, <3>1
  <2> SUFFICES ASSUME key # None PROVE Deduplicated'
    BY <2>0
  <2>1. /\ ~IsDuplicate(d, key) /\ dedup' = Remember(d, key)
        /\ log' = Append(log, [key |-> key, at |-> now])
        /\ ignored' = None /\ now' = now
    BY <1>5 DEF IngestNew
  <2>2. Table(d, log, now)
    BY <1>0, PruneFacts
  <2> HIDE DEF d, key
  <2>3. Table(dedup', log', now)
    BY <1>0, <2>1, <2>2, RememberFacts
  <2> QED BY <1>0, <2>1, <2>3 DEF Deduplicated, IgnoredIsRecent
<1>6. CASE Tick
  <2>1. now' = now + 1 /\ UNCHANGED <<dedup, log>> /\ ignored' = None
    BY <1>6 DEF Tick
  <2> QED BY <1>0, <2>1, TableLater DEF Deduplicated, IgnoredIsRecent
<1>7. CASE (\E list \in NodeDBs : SeedFromNodeDB(list)) \/ WriteOne \/ SetClockBack
  <2>1. UNCHANGED <<now, dedup, log>> /\ ignored' = None
    BY <1>7 DEF SeedFromNodeDB, WriteOne, SetClockBack
  <2> QED BY <1>2, <2>1
<1>8. CASE UNCHANGED vars
  BY <1>1, <1>8 DEF vars
<1> QED BY <1>3, <1>4, <1>5, <1>6, <1>7, <1>8 DEF Next

(***************************************************************************)
(* A packet is counted once per window, for every window length and every  *)
(* size of the duplicate table (_is_duplicate, _prune_dedup): the table is *)
(* always the newest part of what was recorded, and what it lost has       *)
(* expired or is older than the DedupLimit + 1 - DedupDrop newest keys.    *)
(* It rests on the monotonic clock: the expiries ascend.                   *)
(***************************************************************************)
THEOREM PacketsCountOnce == Spec => []CountedOnce
<1>1. Init => Deduplicated
  BY EmptyTable DEF Init, Deduplicated, IgnoredIsRecent
<1>2. Deduplicated => CountedOnce
  <2> SUFFICES ASSUME Deduplicated PROVE CountedOnce
    OBVIOUS
  <2>1. DOMAIN log = 1..Len(log)
    BY SeqFacts DEF Deduplicated, Table
  <2>2. \A i, j \in DOMAIN log : i < j /\ log[i].key = log[j].key =>
          log[j].at >= log[i].at + TTL \/ j - i > DedupLimit + 1 - DedupDrop
    BY <2>1 DEF Deduplicated, Table, Keep
  <2> QED BY <2>2 DEF CountedOnce, Deduplicated, IgnoredIsRecent
<1> QED BY <1>1, <1>2, NextDeduplicated, PTL DEF Spec
=============================================================================
