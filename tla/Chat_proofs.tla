----------------------------- MODULE Chat_proofs -----------------------------
(***************************************************************************)
(* Chat, for any channels, nodes, queue sizes and numbers of messages: the *)
(* bubbles are the open conversation, the rows catch up with the view, and *)
(* the sidebar highlights what is open.                                    *)
(*                                                                         *)
(* The invariant ties three pieces of state together.  The view: Thread is *)
(* a recursive function, and its equations for one message more and for a  *)
(* changed status (proved by induction on the length) say that the bubbles *)
(* may be updated in place.  The store: every message shown whose writes   *)
(* were taken has a row, stored or queued, which the writes queued behind  *)
(* it turn into that message.  The sidebar: a highlighted row is what the  *)
(* view has open.                                                          *)
(***************************************************************************)
EXTENDS Chat, Integers, SequenceTheorems, WellFoundedInduction, TLAPS

\* The natural numbers by induction, for a set instead of a predicate.
LEMMA LeastNat ==
  ASSUME NEW T \in SUBSET Nat, T # {}
  PROVE  \E x \in T : \A y \in T : x <= y
<1> DEFINE R == {ss \in Nat \X Nat : ss[1] < ss[2]}
<1>1. IsWellFoundedOn(R, Nat)
  BY NatLessThanWellFounded DEF OpToRel
<1>2. \A x, y \in Nat : x < y => <<x, y>> \in R
  OBVIOUS
<1> HIDE DEF R
<1>3. PICK x \in T : \A y \in T : ~(<<y, x>> \in R)
  BY <1>1, WFMin
<1>4. ASSUME NEW y \in T PROVE x <= y
  <2>1. x \in Nat /\ y \in Nat
    OBVIOUS
  <2>2. ~(y < x)
    BY <1>2, <1>3, <2>1
  <2> QED BY <2>1, <2>2
<1> QED BY <1>4

LEMMA SetInduction ==
  ASSUME NEW S, 0 \in S, \A n \in Nat : n \in S => n + 1 \in S
  PROVE  Nat \subseteq S
<1> SUFFICES ASSUME Nat \ S # {} PROVE FALSE
  OBVIOUS
<1>1. PICK m \in Nat \ S : \A y \in Nat \ S : m <= y
  BY LeastNat
<1>2. m - 1 \in Nat /\ (m - 1) + 1 = m
  BY <1>1
<1>3. m - 1 \notin Nat \ S
  BY <1>1, <1>2
<1> QED BY <1>1, <1>2, <1>3

-----------------------------------------------------------------------------
(* Types                                                                   *)

Statuses == {"sending", "accepted", "failed", "received"}
PacketIds == Nat \cup {None}
Message == [id: Nat, at: Nat, chan: Channels, dm: Nodes \cup {None}, status: Statuses,
            packet: PacketIds]
RowWrites == [kind: {"row"}, msg: Message]
StatusWrites == [kind: {"status"}, id: Nat, packet: PacketIds, status: Statuses]
Writes == RowWrites \cup StatusWrites
Signals ==
  [kind: {"connected", "seeded", "disconnected"}] \cup [kind: {"channels"}, channels: Seq(Channels)]
    \cup [kind: {"received"}, msg: Message] \cup StatusWrites
Conversations == ({"channel"} \X Channels) \cup ({"dm"} \X Nodes)
Sidebars ==
  [channels: Seq(Channels), chanRow: Channels \cup {None}, dms: SUBSET Nodes,
   dmRow: Nodes \cup {None}, local: {None, Local}]
Counts == [messages: Nat, connects: Nat, restarts: Nat]

ChatType ==
  /\ sends \in Seq([id: Nat, text: Texts]) /\ inbox \in Seq(Signals)
  /\ sidebar \in Sidebars /\ current \in Conversations \cup {None}
  /\ messages \in Seq(Message) /\ bubbles \in Seq(Message)
  /\ writes \in Seq(Writes) /\ rows \in Seq(Message)
  /\ count \in Counts /\ notice \in BOOLEAN

LEMMA StampedType ==
  ASSUME NEW m \in Message, NEW packet \in PacketIds, NEW status \in Statuses
  PROVE  /\ Stamped(m, packet, status) \in Message
         /\ Stamped(m, packet, status).id = m.id
         /\ KeyFor(Stamped(m, packet, status)) = KeyFor(m)
BY DEF Stamped, Message, KeyFor

LEMMA SettleType ==
  ASSUME NEW ms \in Seq(Message), NEW id, NEW packet \in PacketIds, NEW status \in Statuses
  PROVE  /\ Settle(ms, id, packet, status) \in Seq(Message)
         /\ Len(Settle(ms, id, packet, status)) = Len(ms)
         /\ DOMAIN Settle(ms, id, packet, status) = 1..Len(ms)
         /\ \A i \in 1..Len(ms) : Settle(ms, id, packet, status)[i] =
                 IF ms[i].id = id THEN Stamped(ms[i], packet, status) ELSE ms[i]
<1> DEFINE e(i) == IF ms[i].id = id THEN Stamped(ms[i], packet, status) ELSE ms[i]
           t == [i \in 1..Len(ms) |-> e(i)]
<1>1. DOMAIN ms = 1..Len(ms) /\ Len(ms) \in Nat
  BY LenProperties
<1>2. ASSUME NEW i \in 1..Len(ms) PROVE e(i) \in Message
  <2>1. ms[i] \in Message
    BY <1>1
  <2> QED
    BY <2>1, StampedType
<1>3. Settle(ms, id, packet, status) = t
  BY <1>1 DEF Settle
<1> HIDE DEF e
<1>4. t \in Seq(Message) /\ Len(t) = Len(ms)
  BY <1>1, <1>2
<1>5. DOMAIN t = 1..Len(ms) /\ \A i \in 1..Len(ms) : t[i] = e(i)
  OBVIOUS
<1> HIDE DEF t
<1>6. \A i \in 1..Len(ms) : Settle(ms, id, packet, status)[i] = e(i)
  BY <1>3, <1>5
<1> QED
  BY <1>3, <1>4, <1>5, <1>6 DEF e

LEMMA KeyIsConversation ==
  ASSUME NEW m \in Message
  PROVE  KeyFor(m) \in Conversations
BY DEF KeyFor, Message, Conversations

-----------------------------------------------------------------------------
(* Conversations.  Thread is a recursive function on the length; here are  *)
(* the equations by which it follows the message list.                     *)

PickStep(f, ms, key, n) ==
  IF n = 0 THEN <<>>
  ELSE IF KeyFor(ms[n]) = key THEN Append(f[n - 1], ms[n]) ELSE f[n - 1]
IsPick(f, ms, key) == f = [n \in 0..Len(ms) |-> PickStep(f, ms, key, n)]

LEMMA PickExists ==
  ASSUME NEW ms \in Seq(Message), NEW key
  PROVE  \E f : IsPick(f, ms, key)
<1> DEFINE Good(n) == \E f : f = [k \in 0..n |-> PickStep(f, ms, key, k)]
           S == {n \in Nat : Good(n)}
<1>1. 0 \in S
  <2> DEFINE f == [k \in 0..0 |-> <<>>]
  <2>1. f = [k \in 0..0 |-> PickStep(f, ms, key, k)]
    BY DEF PickStep
  <2> QED
    BY <2>1
<1>2. ASSUME NEW n \in Nat, n \in S PROVE n + 1 \in S
  <2>1. PICK f : f = [k \in 0..n |-> PickStep(f, ms, key, k)]
    BY <1>2
  <2> DEFINE last == PickStep(f, ms, key, n + 1)
             g == [k \in 0..(n + 1) |-> IF k = n + 1 THEN last ELSE f[k]]
  <2>2. ASSUME NEW k \in 0..(n + 1) PROVE g[k] = PickStep(g, ms, key, k)
    <3>1. CASE k = 0
      <4>1. 0 \in 0..n /\ f[0] = PickStep(f, ms, key, 0)
        BY <2>1
      <4> QED
        BY <3>1, <4>1 DEF PickStep
    <3>2. CASE k # 0
      <4>1. k - 1 \in 0..n /\ k - 1 \in 0..(n + 1) /\ k - 1 # n + 1
        BY <3>2
      <4>2. g[k - 1] = f[k - 1]
        BY <4>1
      <4>3. g[k] = PickStep(f, ms, key, k)
        <5>1. CASE k = n + 1
          BY <5>1
        <5>2. CASE k # n + 1
          <6>1. k \in 0..n
            BY <5>2
          <6>2. f[k] = PickStep(f, ms, key, k)
            BY <2>1, <6>1
          <6> QED
            BY <5>2, <6>2
        <5> QED
          BY <5>1, <5>2
      <4> HIDE DEF g
      <4> QED
        BY <3>2, <4>2, <4>3 DEF PickStep
    <3> QED
      BY <3>1, <3>2
  <2>3. g = [k \in 0..(n + 1) |-> g[k]]
    OBVIOUS
  <2> HIDE DEF g
  <2>4. g = [k \in 0..(n + 1) |-> PickStep(g, ms, key, k)]
    BY <2>2, <2>3
  <2> QED
    BY <2>4
<1> HIDE DEF S
<1>3. Len(ms) \in S
  <2>1. Len(ms) \in Nat
    BY LenProperties
  <2> QED
    BY <1>1, <1>2, <2>1, SetInduction
<1> QED
  BY <1>3 DEF S, IsPick

(* Two pickings of lists that agree up to n agree up to n.                 *)
LEMMA PickUnique ==
  ASSUME NEW ms \in Seq(Message), NEW ns \in Seq(Message), NEW key, NEW f, NEW g,
         IsPick(f, ms, key), IsPick(g, ns, key), Len(ms) <= Len(ns),
         \A i \in 1..Len(ms) : ms[i] = ns[i]
  PROVE  /\ f[0] = <<>>
         /\ \A n \in 0..Len(ms) : f[n] = g[n] /\ f[n] \in Seq(Message)
<1>0. Len(ms) \in Nat /\ Len(ns) \in Nat /\ DOMAIN ms = 1..Len(ms)
  BY LenProperties
<1>1. /\ \A n \in 0..Len(ms) : f[n] = PickStep(f, ms, key, n)
      /\ \A n \in 0..Len(ns) : g[n] = PickStep(g, ns, key, n)
  BY Zenon DEF IsPick
<1> DEFINE S == {n \in Nat : n <= Len(ms) => f[n] = g[n] /\ f[n] \in Seq(Message)}
<1>2. f[0] = <<>> /\ g[0] = <<>> /\ 0 \in S
  <2>1. 0 \in 0..Len(ms) /\ 0 \in 0..Len(ns)
    BY <1>0
  <2>2. f[0] = <<>> /\ g[0] = <<>>
    BY <1>1, <2>1 DEF PickStep
  <2>3. <<>> \in Seq(Message)
    OBVIOUS
  <2>4. f[0] = g[0] /\ f[0] \in Seq(Message)
    BY <2>2, <2>3
  <2> QED
    BY <2>2, <2>4
<1>3. ASSUME NEW n \in Nat, n \in S PROVE n + 1 \in S
  <2>1. SUFFICES ASSUME n + 1 <= Len(ms) PROVE f[n + 1] = g[n + 1] /\ f[n + 1] \in Seq(Message)
    OBVIOUS
  <2>2. /\ n + 1 \in 0..Len(ms) /\ n + 1 \in 0..Len(ns) /\ n + 1 \in 1..Len(ms) /\ n + 1 # 0
        /\ (n + 1) - 1 = n /\ n <= Len(ms)
    BY <1>0, <2>1
  <2>3. f[n] = g[n] /\ f[n] \in Seq(Message)
    BY <1>3, <2>2
  <2>4. ms[n + 1] = ns[n + 1] /\ ms[n + 1] \in Message
    BY <1>0, <2>2
  <2>5. Append(f[n], ms[n + 1]) \in Seq(Message)
    BY <2>3, <2>4
  <2>6. f[n + 1] = PickStep(f, ms, key, n + 1) /\ g[n + 1] = PickStep(g, ns, key, n + 1)
    BY <1>1, <2>2
  <2> QED
    BY <2>2, <2>3, <2>4, <2>5, <2>6 DEF PickStep
<1>4. Nat \subseteq S
  <2> HIDE DEF S
  <2> QED
    BY <1>2, <1>3, SetInduction
<1> QED
  BY <1>0, <1>2, <1>4

LEMMA ThreadIs ==
  ASSUME NEW ms \in Seq(Message), NEW key, NEW f, IsPick(f, ms, key)
  PROVE  Thread(ms, key) = f[Len(ms)]
<1> DEFINE c == CHOOSE p : p = [n \in 0..Len(ms) |->
                  IF n = 0 THEN <<>>
                  ELSE IF KeyFor(ms[n]) = key THEN Append(p[n - 1], ms[n]) ELSE p[n - 1]]
<1>1. IsPick(c, ms, key)
  BY PickExists, Zenon DEF IsPick, PickStep
<1>2. Thread(ms, key) = c[Len(ms)]
  BY Zenon DEF Thread
<1> HIDE DEF c
<1>3. Len(ms) \in Nat
  BY LenProperties
<1>4. c[Len(ms)] = f[Len(ms)]
  BY <1>1, <1>3, PickUnique
<1> QED
  BY <1>2, <1>4

LEMMA ThreadType ==
  ASSUME NEW ms \in Seq(Message), NEW key
  PROVE  Thread(ms, key) \in Seq(Message)
<1>1. PICK f : IsPick(f, ms, key)
  BY PickExists
<1>2. Len(ms) \in Nat
  BY LenProperties
<1> QED
  BY <1>1, <1>2, ThreadIs, PickUnique

(* Nothing has been said yet, or to nobody.                                *)
LEMMA ThreadEmpty ==
  ASSUME NEW key
  PROVE  Thread(<<>>, key) = <<>>
<1> DEFINE e == <<>>
<1>1. e \in Seq(Message) /\ Len(e) = 0
  OBVIOUS
<1> HIDE DEF e
<1>2. PICK f : IsPick(f, e, key)
  BY <1>1, PickExists
<1>3. Thread(e, key) = f[0]
  BY <1>1, <1>2, ThreadIs
<1>4. f[0] = <<>>
  <2>1. \A i \in 1..Len(e) : e[i] = e[i]
    OBVIOUS
  <2>2. Len(e) <= Len(e)
    BY <1>1
  <2> QED
    BY <1>1, <1>2, <2>1, <2>2, PickUnique
<1> QED
  BY <1>3, <1>4 DEF e

LEMMA ThreadOfNone ==
  ASSUME NEW ms \in Seq(Message)
  PROVE  Thread(ms, None) = <<>>
<1> DEFINE f == [n \in 0..Len(ms) |-> <<>>]
<1>0. Len(ms) \in Nat /\ DOMAIN ms = 1..Len(ms)
  BY LenProperties
<1>1. ASSUME NEW n \in 0..Len(ms) PROVE f[n] = PickStep(f, ms, None, n)
  <2>1. CASE n = 0
    BY <2>1 DEF PickStep
  <2>2. CASE n # 0
    <3>1. n \in 1..Len(ms) /\ n - 1 \in 0..Len(ms)
      BY <1>0, <2>2
    <3>2. ms[n] \in Message
      BY <1>0, <3>1
    <3>3. KeyFor(ms[n]) # None
      BY <3>2, KeyIsConversation, ChatConstants DEF Conversations
    <3> QED
      BY <2>2, <3>1, <3>3 DEF PickStep
  <2> QED
    BY <2>1, <2>2
<1>2. IsPick(f, ms, None)
  BY <1>1 DEF IsPick
<1>3. f[Len(ms)] = <<>>
  BY <1>0
<1> HIDE DEF f
<1> QED
  BY <1>2, <1>3, ThreadIs

(* add_message: a new message joins its conversation at the end.           *)
LEMMA ThreadAppend ==
  ASSUME NEW ms \in Seq(Message), NEW m \in Message, NEW key
  PROVE  Thread(Append(ms, m), key) =
           IF KeyFor(m) = key THEN Append(Thread(ms, key), m) ELSE Thread(ms, key)
<1> DEFINE ns == Append(ms, m)
<1>0. /\ Len(ms) \in Nat /\ ns \in Seq(Message) /\ Len(ns) = Len(ms) + 1
      /\ \A i \in 1..Len(ms) : ms[i] = ns[i]
      /\ ns[Len(ms) + 1] = m
  BY AppendProperties, LenProperties
<1> HIDE DEF ns
<1>1. PICK f : IsPick(f, ms, key)
  BY PickExists
<1>2. PICK g : IsPick(g, ns, key)
  BY <1>0, PickExists
<1>3. f[Len(ms)] = g[Len(ms)]
  <2>1. Len(ms) <= Len(ns) /\ Len(ms) \in 0..Len(ms)
    BY <1>0
  <2>2. \A n \in 0..Len(ms) : f[n] = g[n]
    BY <1>0, <1>1, <1>2, <2>1, PickUnique
  <2> QED
    BY <2>1, <2>2
<1>4. g[Len(ms) + 1] = PickStep(g, ns, key, Len(ms) + 1)
  <2>1. Len(ms) + 1 \in 0..Len(ns)
    BY <1>0
  <2> QED
    BY <1>2, <2>1 DEF IsPick
<1>5. g[Len(ms) + 1] = IF KeyFor(m) = key THEN Append(g[Len(ms)], m) ELSE g[Len(ms)]
  <2>1. Len(ms) + 1 # 0 /\ (Len(ms) + 1) - 1 = Len(ms)
    BY <1>0
  <2> QED
    BY <1>0, <1>4, <2>1 DEF PickStep
<1>6. Thread(ms, key) = f[Len(ms)]
  BY <1>1, ThreadIs
<1>7. Thread(ns, key) = g[Len(ms) + 1]
  BY <1>0, <1>2, ThreadIs
<1> QED
  BY <1>3, <1>5, <1>6, <1>7 DEF ns

(* update_message_status, on a list that grows and on a conversation.      *)
Told(m, id, packet, status) == IF m.id = id THEN Stamped(m, packet, status) ELSE m

LEMMA SettleFacts ==
  ASSUME NEW ms \in Seq(Message), NEW id, NEW packet \in PacketIds, NEW status \in Statuses
  PROVE  /\ Settle(ms, id, packet, status) \in Seq(Message)
         /\ Len(Settle(ms, id, packet, status)) = Len(ms)
         /\ \A i \in 1..Len(ms) :
              /\ Settle(ms, id, packet, status)[i] = Told(ms[i], id, packet, status)
              /\ KeyFor(Settle(ms, id, packet, status)[i]) = KeyFor(ms[i])
<1>1. DOMAIN ms = 1..Len(ms)
  BY LenProperties
<1>2. ASSUME NEW i \in 1..Len(ms) PROVE KeyFor(Told(ms[i], id, packet, status)) = KeyFor(ms[i])
  <2>1. ms[i] \in Message
    BY <1>1
  <2> QED
    BY <2>1, StampedType DEF Told
<1>3. /\ Settle(ms, id, packet, status) \in Seq(Message)
      /\ Len(Settle(ms, id, packet, status)) = Len(ms)
      /\ \A i \in 1..Len(ms) : Settle(ms, id, packet, status)[i] = Told(ms[i], id, packet, status)
  BY SettleType DEF Told
<1> QED
  BY <1>2, <1>3

LEMMA SettleEmpty ==
  ASSUME NEW id, NEW packet, NEW status
  PROVE  Settle(<<>>, id, packet, status) = <<>>
BY DEF Settle

LEMMA SettleAppend ==
  ASSUME NEW ms \in Seq(Message), NEW m \in Message,
         NEW id, NEW packet \in PacketIds, NEW status \in Statuses
  PROVE  Settle(Append(ms, m), id, packet, status)
           = Append(Settle(ms, id, packet, status), Told(m, id, packet, status))
<1> DEFINE ns == Append(ms, m)
           a == Settle(ns, id, packet, status)
           b == Settle(ms, id, packet, status)
           t == Told(m, id, packet, status)
           c == Append(b, t)
<1>0. /\ Len(ms) \in Nat /\ ns \in Seq(Message) /\ Len(ns) = Len(ms) + 1
      /\ \A i \in 1..Len(ms) : ns[i] = ms[i]
      /\ ns[Len(ms) + 1] = m
  BY AppendProperties, LenProperties
<1> HIDE DEF ns
<1>1. /\ a \in Seq(Message) /\ Len(a) = Len(ms) + 1
      /\ \A i \in 1..(Len(ms) + 1) : a[i] = Told(ns[i], id, packet, status)
  BY <1>0, SettleFacts
<1>2. /\ b \in Seq(Message) /\ Len(b) = Len(ms)
      /\ \A i \in 1..Len(ms) : b[i] = Told(ms[i], id, packet, status)
  BY SettleFacts
<1>3. t \in Message
  BY StampedType DEF Told
<1> HIDE DEF a, b, t
<1>4. /\ c \in Seq(Message) /\ Len(c) = Len(ms) + 1
      /\ \A i \in 1..Len(ms) : c[i] = b[i]
      /\ c[Len(ms) + 1] = t
  BY <1>2, <1>3, AppendProperties
<1> HIDE DEF c
<1>5. ASSUME NEW i \in 1..(Len(ms) + 1) PROVE a[i] = c[i]
  <2>1. CASE i \in 1..Len(ms)
    BY <1>0, <1>1, <1>2, <1>4, <2>1
  <2>2. CASE i = Len(ms) + 1
    BY <1>0, <1>1, <1>4, <2>2 DEF t
  <2> QED
    BY <1>0, <2>1, <2>2
<1>6. a = c
  BY <1>1, <1>4, <1>5, SeqEqual
<1> QED
  BY <1>6 DEF a, b, c, t, ns

LEMMA ThreadSettle ==
  ASSUME NEW ms \in Seq(Message), NEW key,
         NEW id, NEW packet \in PacketIds, NEW status \in Statuses
  PROVE  Thread(Settle(ms, id, packet, status), key)
           = Settle(Thread(ms, key), id, packet, status)
<1> DEFINE ns == Settle(ms, id, packet, status)
<1>0. /\ Len(ms) \in Nat /\ DOMAIN ms = 1..Len(ms) /\ ns \in Seq(Message) /\ Len(ns) = Len(ms)
      /\ \A i \in 1..Len(ms) : /\ ns[i] = Told(ms[i], id, packet, status)
                               /\ KeyFor(ns[i]) = KeyFor(ms[i])
  BY SettleFacts, LenProperties
<1> HIDE DEF ns
<1>1. PICK f : IsPick(f, ms, key)
  BY PickExists
<1>2. f[0] = <<>> /\ \A n \in 0..Len(ms) : f[n] \in Seq(Message)
  BY <1>0, <1>1, PickUnique
<1>3. \A n \in 0..Len(ms) : f[n] = PickStep(f, ms, key, n)
  BY <1>1, Zenon DEF IsPick
<1> DEFINE h == [n \in 0..Len(ms) |-> Settle(f[n], id, packet, status)]
<1>4. ASSUME NEW n \in 0..Len(ms) PROVE h[n] = PickStep(h, ns, key, n)
  <2>1. CASE n = 0
    <3>1. h[n] = <<>>
      BY <1>2, <2>1, SettleEmpty
    <3> QED
      BY <2>1, <3>1 DEF PickStep
  <2>2. CASE n # 0
    <3>1. n \in 1..Len(ms) /\ n - 1 \in 0..Len(ms)
      BY <1>0, <2>2
    <3>2. ms[n] \in Message /\ f[n - 1] \in Seq(Message)
      BY <1>0, <1>2, <3>1
    <3>3. h[n] = Settle(f[n], id, packet, status) /\ h[n - 1] = Settle(f[n - 1], id, packet, status)
      BY <3>1
    <3> HIDE DEF h
    <3>4. f[n] = IF KeyFor(ms[n]) = key THEN Append(f[n - 1], ms[n]) ELSE f[n - 1]
      BY <1>3, <2>2 DEF PickStep
    <3>5. Settle(Append(f[n - 1], ms[n]), id, packet, status)
            = Append(h[n - 1], Told(ms[n], id, packet, status))
      BY <3>2, <3>3, SettleAppend
    <3>6. ns[n] = Told(ms[n], id, packet, status) /\ KeyFor(ns[n]) = KeyFor(ms[n])
      BY <1>0, <3>1
    <3>7. h[n] = IF KeyFor(ns[n]) = key THEN Append(h[n - 1], ns[n]) ELSE h[n - 1]
      BY <3>3, <3>4, <3>5, <3>6, Zenon
    <3> QED
      BY <2>2, <3>7 DEF PickStep
  <2> QED
    BY <2>1, <2>2
<1>5. IsPick(h, ns, key)
  <2>1. h = [n \in 0..Len(ms) |-> h[n]]
    OBVIOUS
  <2> HIDE DEF h
  <2> QED
    BY <1>0, <1>4, <2>1 DEF IsPick
<1>6. h[Len(ms)] = Settle(f[Len(ms)], id, packet, status)
  BY <1>0
<1> HIDE DEF h
<1>7. Thread(ns, key) = h[Len(ms)] /\ Thread(ms, key) = f[Len(ms)]
  BY <1>0, <1>1, <1>5, ThreadIs
<1> QED
  BY <1>6, <1>7 DEF ns

(* A suffix, place by place.                                               *)
Ends(s, t) ==
  Len(s) <= Len(t) /\ \A i \in 1..Len(s) : s[i] = t[Len(t) - Len(s) + i]

LEMMA SuffixIs ==
  ASSUME NEW s \in Seq(Message), NEW t \in Seq(Message), Ends(s, t)
  PROVE  IsSuffix(s, t)
<1> DEFINE r == Reverse(s)
           q == Reverse(t)
<1>0. Len(s) \in Nat /\ Len(t) \in Nat /\ Len(s) <= Len(t)
      /\ DOMAIN s = 1..Len(s) /\ DOMAIN t = 1..Len(t)
  BY LenProperties DEF Ends
<1>1. /\ r \in Seq(Message) /\ Len(r) = Len(s)
      /\ \A i \in 1..Len(s) : r[i] = s[(Len(s) - i) + 1]
  <2>1. \A i \in 1..Len(s) : s[(Len(s) - i) + 1] \in Message
    BY <1>0
  <2> QED
    BY <1>0, <2>1 DEF Reverse
<1>2. /\ q \in Seq(Message) /\ Len(q) = Len(t)
      /\ \A i \in 1..Len(t) : q[i] = t[(Len(t) - i) + 1]
  <2>1. \A i \in 1..Len(t) : t[(Len(t) - i) + 1] \in Message
    BY <1>0
  <2> QED
    BY <1>0, <2>1 DEF Reverse
<1> HIDE DEF r, q
<1>3. ASSUME NEW i \in 1..Len(s) PROVE r[i] = q[i]
  <2>1. /\ (Len(s) - i) + 1 \in 1..Len(s) /\ i \in 1..Len(t)
        /\ Len(t) - Len(s) + ((Len(s) - i) + 1) = (Len(t) - i) + 1
    BY <1>0
  <2> QED
    BY <1>1, <1>2, <2>1 DEF Ends
<1> DEFINE r1 == SubSeq(r, 1, Len(r))
           q1 == SubSeq(q, 1, Len(r))
<1>4. /\ r1 \in Seq(Message) /\ Len(r1) = Len(s) /\ \A i \in 1..Len(s) : r1[i] = r[i]
  BY <1>0, <1>1
<1>5. /\ q1 \in Seq(Message) /\ Len(q1) = Len(s) /\ \A i \in 1..Len(s) : q1[i] = q[i]
  BY <1>0, <1>1, <1>2
<1> HIDE DEF r1, q1
<1>6. r1 = q1
  BY <1>3, <1>4, <1>5, SeqEqual
<1> QED
  BY <1>0, <1>1, <1>2, <1>6 DEF IsSuffix, IsPrefix, r1, q1, r, q

-----------------------------------------------------------------------------
(* The view                                                                *)

ViewInv ==
  /\ current \in Conversations \cup {None} /\ notice \in BOOLEAN
  /\ messages \in Seq(Message) /\ bubbles \in Seq(Message)
  /\ IF notice THEN Ends(bubbles, Thread(messages, current))
               ELSE bubbles = Thread(messages, current)

LEMMA ViewSame ==
  ASSUME ViewInv, UNCHANGED view
  PROVE  ViewInv'
BY DEF ViewInv, view

LEMMA ViewShows ==
  ASSUME ViewInv, NEW key \in Conversations, Show(key)
  PROVE  ViewInv'
<1>1. messages' = messages /\ current' = key /\ bubbles' = Thread(messages', key) /\ notice' = FALSE
  BY DEF Show, RebuildBubbles
<1>2. messages' \in Seq(Message)
  BY <1>1 DEF ViewInv
<1>3. bubbles' \in Seq(Message)
  BY <1>1, <1>2, ThreadType
<1>4. notice' \in BOOLEAN /\ ~notice'
  BY <1>1
<1> QED
  BY <1>1, <1>2, <1>3, <1>4 DEF ViewInv

LEMMA EndsAppend ==
  ASSUME NEW s \in Seq(Message), NEW t \in Seq(Message), NEW m \in Message, Ends(s, t)
  PROVE  Ends(Append(s, m), Append(t, m))
<1> DEFINE a == Append(s, m)
           b == Append(t, m)
<1>1. /\ a \in Seq(Message) /\ Len(a) = Len(s) + 1 /\ a[Len(s) + 1] = m
      /\ \A i \in 1..Len(s) : a[i] = s[i]
  BY AppendProperties
<1>2. /\ b \in Seq(Message) /\ Len(b) = Len(t) + 1 /\ b[Len(t) + 1] = m
      /\ \A i \in 1..Len(t) : b[i] = t[i]
  BY AppendProperties
<1>3. Len(s) \in Nat /\ Len(t) \in Nat /\ Len(s) <= Len(t)
  BY LenProperties DEF Ends
<1> HIDE DEF a, b
<1>4. ASSUME NEW i \in 1..Len(a) PROVE a[i] = b[Len(b) - Len(a) + i]
  <2>1. Len(b) - Len(a) + i = Len(t) - Len(s) + i
    BY <1>1, <1>2, <1>3
  <2>2. CASE i \in 1..Len(s)
    <3>1. Len(t) - Len(s) + i \in 1..Len(t)
      BY <1>3, <2>2
    <3>2. s[i] = t[Len(t) - Len(s) + i]
      BY <2>2 DEF Ends
    <3> QED
      BY <1>1, <1>2, <2>1, <2>2, <3>1, <3>2
  <2>3. CASE i = Len(s) + 1
    <3>1. Len(t) - Len(s) + i = Len(t) + 1
      BY <1>3, <2>3
    <3> QED
      BY <1>1, <1>2, <2>1, <2>3, <3>1
  <2> QED
    BY <1>1, <1>3, <2>2, <2>3
<1>5. Ends(a, b)
  BY <1>1, <1>2, <1>3, <1>4 DEF Ends
<1> QED
  BY <1>5 DEF a, b

LEMMA EndsSettle ==
  ASSUME NEW s \in Seq(Message), NEW t \in Seq(Message), Ends(s, t),
         NEW id, NEW packet \in PacketIds, NEW status \in Statuses
  PROVE  Ends(Settle(s, id, packet, status), Settle(t, id, packet, status))
<1> DEFINE a == Settle(s, id, packet, status)
           b == Settle(t, id, packet, status)
<1>1. Len(a) = Len(s) /\ \A i \in 1..Len(s) : a[i] = Told(s[i], id, packet, status)
  BY SettleFacts
<1>2. Len(b) = Len(t) /\ \A i \in 1..Len(t) : b[i] = Told(t[i], id, packet, status)
  BY SettleFacts
<1>3. Len(s) \in Nat /\ Len(t) \in Nat /\ Len(s) <= Len(t)
  BY LenProperties DEF Ends
<1> HIDE DEF a, b
<1>4. ASSUME NEW i \in 1..Len(s) PROVE a[i] = b[Len(t) - Len(s) + i]
  <2>1. Len(t) - Len(s) + i \in 1..Len(t)
    BY <1>3
  <2>2. s[i] = t[Len(t) - Len(s) + i]
    BY DEF Ends
  <2> QED
    BY <1>1, <1>2, <2>1, <2>2
<1> QED
  BY <1>1, <1>2, <1>3, <1>4 DEF Ends, a, b

LEMMA ViewAdds ==
  ASSUME ViewInv, NEW m \in Message, add_message(m)
  PROVE  ViewInv'
<1> DEFINE t == Thread(messages, current)
<1>1. /\ messages' = Append(messages, m) /\ current' = current /\ notice' = notice
      /\ bubbles' = IF KeyFor(m) = current THEN Append(bubbles, m) ELSE bubbles
  BY DEF add_message
<1>2. messages \in Seq(Message) /\ bubbles \in Seq(Message)
  BY DEF ViewInv
<1>3. t \in Seq(Message)
  BY <1>2, ThreadType
<1>4. Thread(messages', current') = IF KeyFor(m) = current THEN Append(t, m) ELSE t
  BY <1>1, <1>2, ThreadAppend
<1>5. IF notice THEN Ends(bubbles, t) ELSE bubbles = t
  BY DEF ViewInv
<1> HIDE DEF t
<1>6. messages' \in Seq(Message) /\ bubbles' \in Seq(Message)
  <2>1. Append(messages, m) \in Seq(Message) /\ Append(bubbles, m) \in Seq(Message)
    BY <1>2
  <2> QED
    BY <1>1, <1>2, <2>1
<1>7. Ends(bubbles, t) => Ends(Append(bubbles, m), Append(t, m))
  BY <1>2, <1>3, EndsAppend
<1>8. IF notice' THEN Ends(bubbles', Thread(messages', current'))
                 ELSE bubbles' = Thread(messages', current')
  BY <1>1, <1>4, <1>5, <1>7
<1>9. current' \in Conversations \cup {None} /\ notice' \in BOOLEAN
  BY <1>1 DEF ViewInv
<1> QED
  BY <1>6, <1>8, <1>9 DEF ViewInv

LEMMA ViewSettles ==
  ASSUME ViewInv, NEW id, NEW packet \in PacketIds, NEW status \in Statuses,
         update_message_status(id, packet, status)
  PROVE  ViewInv'
<1> DEFINE t == Thread(messages, current)
<1>1. /\ messages' = Settle(messages, id, packet, status) /\ current' = current /\ notice' = notice
      /\ bubbles' = Settle(bubbles, id, packet, status)
  BY DEF update_message_status, Settle
<1>2. messages \in Seq(Message) /\ bubbles \in Seq(Message)
  BY DEF ViewInv
<1>3. t \in Seq(Message)
  BY <1>2, ThreadType
<1>4. Thread(messages', current') = Settle(t, id, packet, status)
  BY <1>1, <1>2, ThreadSettle
<1>5. IF notice THEN Ends(bubbles, t) ELSE bubbles = t
  BY DEF ViewInv
<1> HIDE DEF t
<1>6. messages' \in Seq(Message) /\ bubbles' \in Seq(Message)
  BY <1>1, <1>2, SettleType
<1>7. Ends(bubbles, t) => Ends(bubbles', Settle(t, id, packet, status))
  BY <1>1, <1>2, <1>3, EndsSettle
<1>8. IF notice' THEN Ends(bubbles', Thread(messages', current'))
                 ELSE bubbles' = Thread(messages', current')
  BY <1>1, <1>4, <1>5, <1>7
<1>9. current' \in Conversations \cup {None} /\ notice' \in BOOLEAN
  BY <1>1 DEF ViewInv
<1> QED
  BY <1>6, <1>8, <1>9 DEF ViewInv

LEMMA ViewCleared ==
  ASSUME ViewInv, set_no_channels_message
  PROVE  ViewInv'
<1>1. bubbles' = <<>> /\ notice' = TRUE /\ current' = current /\ messages' = messages
  BY DEF set_no_channels_message
<1>2. bubbles' \in Seq(Message) /\ Len(bubbles') = 0
  BY <1>1
<1>3. Thread(messages', current') \in Seq(Message)
  BY <1>1, ThreadType DEF ViewInv
<1>4. Len(Thread(messages', current')) \in Nat
  BY <1>3
<1>5. Ends(bubbles', Thread(messages', current'))
  BY <1>2, <1>4 DEF Ends
<1>6. notice' \in BOOLEAN /\ notice'
  BY <1>1
<1> QED
  BY <1>1, <1>2, <1>5, <1>6 DEF ViewInv

LEMMA ViewLoads ==
  ASSUME NEW ms \in Seq(Message), load_history(ms)
  PROVE  ViewInv'
<1>1. bubbles' = <<>> /\ notice' = FALSE /\ current' = None /\ messages' = ms
  BY DEF load_history
<1>2. Thread(messages', current') = <<>>
  BY <1>1, ThreadOfNone
<1>3. bubbles' \in Seq(Message)
  BY <1>1
<1>4. notice' \in BOOLEAN /\ ~notice'
  BY <1>1
<1> QED
  BY <1>1, <1>2, <1>3, <1>4 DEF ViewInv

-----------------------------------------------------------------------------
(* The store.  A message of the view has a row, stored or queued, that the *)
(* writes behind it turn into that message.                                *)

Applied(v, w) ==
  IF w.kind = "status" /\ w.id = v.id THEN Stamped(v, w.packet, w.status) ELSE v

\* c is v after each of the writes behind place p.
Leads(ws, p, v, m) ==
  \E c \in [p..Len(ws) -> Message] :
    /\ c[p] = v /\ c[Len(ws)] = m
    /\ \A k \in (p + 1)..Len(ws) : c[k] = Applied(c[k - 1], ws[k])

Kept(ws, rs, m) ==
  \/ \E r \in DOMAIN rs : Leads(ws, 0, rs[r], m)
  \/ \E k \in DOMAIN ws : ws[k].kind = "row" /\ Leads(ws, k, ws[k].msg, m)

LEMMA WriteKinds ==
  ASSUME NEW w \in Writes
  PROVE  \/ w.kind = "row" /\ w.msg \in Message /\ \A v : Applied(v, w) = v
         \/ /\ w.kind = "status" /\ w.id \in Nat /\ w.packet \in PacketIds /\ w.status \in Statuses
            /\ \A v : Applied(v, w) = Told(v, w.id, w.packet, w.status)
<1>1. CASE w \in RowWrites
  <2>1. w.kind = "row" /\ w.msg \in Message
    BY <1>1 DEF RowWrites
  <2> QED
    BY <2>1 DEF Applied
<1>2. CASE w \in StatusWrites
  <2>1. w.kind = "status" /\ w.id \in Nat /\ w.packet \in PacketIds /\ w.status \in Statuses
    BY <1>2 DEF StatusWrites
  <2> QED
    BY <2>1 DEF Applied, Told
<1> QED
  BY <1>1, <1>2 DEF Writes

LEMMA AppliedType ==
  ASSUME NEW v \in Message, NEW w \in Writes
  PROVE  Applied(v, w) \in Message
BY WriteKinds, StampedType DEF Told

LEMMA LeadsStart ==
  ASSUME NEW ws, Len(ws) \in Nat, NEW v \in Message
  PROVE  Leads(ws, Len(ws), v, v)
<1> DEFINE n == Len(ws)
           c == [k \in n..n |-> v]
<1>1. c \in [n..n -> Message] /\ c[n] = v /\ \A k \in (n + 1)..n : c[k] = Applied(c[k - 1], ws[k])
  OBVIOUS
<1> HIDE DEF c
<1> QED
  BY <1>1 DEF Leads

LEMMA LeadsAppend ==
  ASSUME NEW ws \in Seq(Writes), NEW p \in 0..Len(ws), NEW v, NEW m \in Message, NEW w \in Writes,
         Leads(ws, p, v, m)
  PROVE  Leads(Append(ws, w), p, v, Applied(m, w))
<1> DEFINE ns == Append(ws, w)
           n == Len(ws)
<1>0. n \in Nat /\ Len(ns) = n + 1 /\ ns[n + 1] = w /\ \A i \in 1..n : ns[i] = ws[i]
  BY AppendProperties, LenProperties
<1> HIDE DEF ns
<1>1. PICK c \in [p..n -> Message] :
        /\ c[p] = v /\ c[n] = m
        /\ \A k \in (p + 1)..n : c[k] = Applied(c[k - 1], ws[k])
  BY DEF Leads
<1>2. Applied(m, w) \in Message
  BY AppliedType
<1> DEFINE d == [k \in p..(n + 1) |-> IF k = n + 1 THEN Applied(m, w) ELSE c[k]]
<1>3. d \in [p..(n + 1) -> Message]
  BY <1>0, <1>2
<1>4. d[p] = v /\ d[n + 1] = Applied(m, w)
  <2>1. p \in p..(n + 1) /\ p # n + 1 /\ n + 1 \in p..(n + 1)
    BY <1>0
  <2> QED
    BY <1>1, <2>1
<1>5. ASSUME NEW k \in (p + 1)..(n + 1) PROVE d[k] = Applied(d[k - 1], ns[k])
  <2>1. k - 1 \in p..(n + 1) /\ k - 1 # n + 1 /\ k \in p..(n + 1)
    BY <1>0
  <2>2. d[k - 1] = c[k - 1]
    BY <2>1
  <2>3. CASE k = n + 1
    <3>1. k - 1 = n
      BY <1>0, <2>3
    <3> QED
      BY <1>0, <1>1, <1>4, <2>2, <2>3, <3>1
  <2>4. CASE k # n + 1
    <3>1. k \in (p + 1)..n /\ k \in 1..n
      BY <1>0, <2>4
    <3>2. d[k] = c[k]
      BY <2>1, <2>4
    <3> HIDE DEF d
    <3> QED
      BY <1>0, <1>1, <2>2, <3>1, <3>2
  <2> QED
    BY <2>3, <2>4
<1> HIDE DEF d, n
<1>6. Leads(ns, p, v, Applied(m, w))
  BY <1>0, <1>3, <1>4, <1>5 DEF Leads
<1> QED
  BY <1>6 DEF ns

\* The first write is done: places move down by one.
LEMMA LeadsTail ==
  ASSUME NEW ws \in Seq(Writes), ws # <<>>, NEW p \in 1..Len(ws), NEW v, NEW m, Leads(ws, p, v, m)
  PROVE  Leads(Tail(ws), p - 1, v, m)
<1> DEFINE ns == Tail(ws)
           n == Len(ws)
<1>0. n \in Nat /\ Len(ns) = n - 1 /\ \A i \in 1..(n - 1) : ns[i] = ws[i + 1]
  BY HeadTailProperties, LenProperties
<1> HIDE DEF ns
<1>1. PICK c \in [p..n -> Message] :
        /\ c[p] = v /\ c[n] = m
        /\ \A k \in (p + 1)..n : c[k] = Applied(c[k - 1], ws[k])
  BY DEF Leads
<1> DEFINE d == [k \in (p - 1)..(n - 1) |-> c[k + 1]]
<1>2. \A k \in (p - 1)..(n - 1) : k + 1 \in p..n
  BY <1>0
<1>3. d \in [(p - 1)..(n - 1) -> Message]
  BY <1>2
<1>4. d[p - 1] = v /\ d[n - 1] = m
  <2>1. /\ p - 1 \in (p - 1)..(n - 1) /\ n - 1 \in (p - 1)..(n - 1)
        /\ (p - 1) + 1 = p /\ (n - 1) + 1 = n
    BY <1>0
  <2> QED
    BY <1>1, <2>1
<1>5. ASSUME NEW k \in ((p - 1) + 1)..(n - 1) PROVE d[k] = Applied(d[k - 1], ns[k])
  <2>1. /\ k - 1 \in (p - 1)..(n - 1) /\ k \in (p - 1)..(n - 1) /\ k + 1 \in (p + 1)..n
        /\ k \in 1..(n - 1) /\ (k - 1) + 1 = k /\ (k + 1) - 1 = k
    BY <1>0
  <2>2. d[k - 1] = c[k] /\ d[k] = c[k + 1]
    BY <2>1
  <2>3. c[k + 1] = Applied(c[k], ws[k + 1])
    BY <1>1, <2>1
  <2> QED
    BY <1>0, <2>1, <2>2, <2>3
<1> HIDE DEF d, n
<1>6. Leads(ns, p - 1, v, m)
  BY <1>0, <1>3, <1>4, <1>5 DEF Leads
<1> QED
  BY <1>6 DEF ns

\* The first write is done to the row it may concern.
LEMMA LeadsFirst ==
  ASSUME NEW ws \in Seq(Writes), ws # <<>>, NEW v, NEW m, Leads(ws, 0, v, m)
  PROVE  Leads(Tail(ws), 0, Applied(v, Head(ws)), m)
<1> DEFINE n == Len(ws)
<1>0. n \in Nat /\ n >= 1 /\ Head(ws) = ws[1]
  <2>1. Len(ws) # 0 /\ Len(ws) \in Nat
    BY EmptySeq, LenProperties
  <2> QED
    BY <2>1
<1>1. PICK c \in [0..n -> Message] :
        /\ c[0] = v /\ c[n] = m
        /\ \A k \in (0 + 1)..n : c[k] = Applied(c[k - 1], ws[k])
  BY DEF Leads
<1>2. c[1] = Applied(v, Head(ws))
  <2>1. 1 \in (0 + 1)..n /\ 1 - 1 = 0
    BY <1>0
  <2> QED
    BY <1>0, <1>1, <2>1
<1> DEFINE d == [k \in 1..n |-> c[k]]
<1>3. /\ d \in [1..n -> Message] /\ d[1] = Applied(v, Head(ws)) /\ d[n] = m
      /\ \A k \in (1 + 1)..n : d[k] = Applied(d[k - 1], ws[k])
  BY <1>0, <1>1, <1>2
<1> HIDE DEF d
<1>4. Leads(ws, 1, Applied(v, Head(ws)), m)
  BY <1>3 DEF Leads
<1>5. Leads(Tail(ws), 1 - 1, Applied(v, Head(ws)), m)
  <2>1. 1 \in 1..Len(ws)
    BY <1>0
  <2> QED
    BY <1>4, <2>1, LeadsTail
<1> QED
  BY <1>5

LEMMA KeptAppend ==
  ASSUME NEW ws \in Seq(Writes), NEW rs \in Seq(Message), NEW w \in Writes, NEW m \in Message,
         Kept(ws, rs, m)
  PROVE  Kept(Append(ws, w), rs, Applied(m, w))
<1> DEFINE ns == Append(ws, w)
<1>0. /\ Len(ws) \in Nat /\ \A i \in 1..Len(ws) : ns[i] = ws[i]
      /\ DOMAIN ws = 1..Len(ws) /\ DOMAIN ns = 1..(Len(ws) + 1)
  <2>1. ns \in Seq(Writes) /\ Len(ns) = Len(ws) + 1 /\ \A i \in 1..Len(ws) : ns[i] = ws[i]
    BY AppendProperties
  <2> QED
    BY <2>1, LenProperties
<1>1. ASSUME NEW p \in 0..Len(ws), NEW v, Leads(ws, p, v, m)
      PROVE  Leads(ns, p, v, Applied(m, w))
  BY <1>1, LeadsAppend
<1> HIDE DEF ns
<1>2. CASE \E r \in DOMAIN rs : Leads(ws, 0, rs[r], m)
  <2>1. 0 \in 0..Len(ws)
    BY <1>0
  <2>2. \E r \in DOMAIN rs : Leads(ns, 0, rs[r], Applied(m, w))
    BY <1>1, <1>2, <2>1
  <2> QED
    BY <2>2 DEF Kept, ns
<1>3. CASE \E k \in DOMAIN ws : ws[k].kind = "row" /\ Leads(ws, k, ws[k].msg, m)
  <2>1. PICK k \in 1..Len(ws) : ws[k].kind = "row" /\ Leads(ws, k, ws[k].msg, m)
    BY <1>0, <1>3
  <2>2. k \in 0..Len(ws) /\ k \in DOMAIN ns /\ ns[k] = ws[k]
    BY <1>0, <2>1
  <2>3. Leads(ns, k, ns[k].msg, Applied(m, w))
    BY <1>1, <2>1, <2>2
  <2> QED
    BY <2>1, <2>2, <2>3 DEF Kept, ns
<1> QED
  BY <1>2, <1>3 DEF Kept

LEMMA KeptNew ==
  ASSUME NEW ws \in Seq(Writes), NEW rs, NEW m \in Message,
         NEW w \in Writes, w.kind = "row", w.msg = m
  PROVE  Kept(Append(ws, w), rs, m)
<1> DEFINE ns == Append(ws, w)
           n == Len(ws) + 1
<1>0. n \in Nat /\ n \in DOMAIN ns /\ ns[n] = w /\ Len(ns) = n
  <2>1. ns \in Seq(Writes) /\ Len(ns) = Len(ws) + 1 /\ ns[Len(ws) + 1] = w
    BY AppendProperties
  <2>2. DOMAIN ns = 1..(Len(ws) + 1) /\ Len(ws) \in Nat
    BY <2>1, LenProperties
  <2> QED
    BY <2>1, <2>2
<1> HIDE DEF ns, n
<1>1. Leads(ns, Len(ns), m, m)
  BY <1>0, LeadsStart
<1>2. Leads(ns, n, ns[n].msg, m)
  BY <1>0, <1>1
<1> QED
  BY <1>0, <1>2 DEF Kept, ns

LEMMA KeptRow ==
  ASSUME NEW rs \in Seq(Message), NEW r \in DOMAIN rs
  PROVE  Kept(<<>>, rs, rs[r])
<1> DEFINE e == <<>>
<1>1. Len(e) = 0 /\ rs[r] \in Message
  BY LenProperties
<1> HIDE DEF e
<1>2. Leads(e, 0, rs[r], rs[r])
  BY <1>1, LeadsStart
<1> QED
  BY <1>2 DEF Kept, e

LEMMA KeptDone ==
  ASSUME NEW rs, NEW m, Kept(<<>>, rs, m)
  PROVE  m \in Range(rs)
<1>1. PICK r \in DOMAIN rs : Leads(<<>>, 0, rs[r], m)
  BY DEF Kept
<1>2. rs[r] = m
  BY <1>1 DEF Leads
<1> QED
  BY <1>2 DEF Range

LEMMA ApplyFacts ==
  ASSUME NEW rs \in Seq(Message), NEW w \in Writes
  PROVE  /\ Apply(rs, w) \in Seq(Message) /\ DOMAIN rs \subseteq DOMAIN Apply(rs, w)
         /\ \A r \in DOMAIN rs : Apply(rs, w)[r] = Applied(rs[r], w)
         /\ w.kind = "row" => \E r \in DOMAIN Apply(rs, w) : Apply(rs, w)[r] = w.msg
<1> DEFINE q == Apply(rs, w)
<1> SUFFICES /\ q \in Seq(Message) /\ DOMAIN rs \subseteq DOMAIN q
             /\ \A r \in DOMAIN rs : q[r] = Applied(rs[r], w)
             /\ w.kind = "row" => \E r \in DOMAIN q : q[r] = w.msg
  OBVIOUS
<1>0. DOMAIN rs = 1..Len(rs) /\ Len(rs) \in Nat
  BY LenProperties
<1>1. CASE w.kind = "row" /\ w.msg \in Message /\ \A v : Applied(v, w) = v
  <2>1. q = Append(rs, w.msg)
    BY <1>1 DEF Apply
  <2>2. /\ q \in Seq(Message) /\ Len(q) = Len(rs) + 1 /\ q[Len(rs) + 1] = w.msg
        /\ \A i \in 1..Len(rs) : q[i] = rs[i]
    BY <1>1, <2>1, AppendProperties
  <2>3. DOMAIN q = 1..(Len(rs) + 1)
    BY <2>2, LenProperties
  <2> HIDE DEF q
  <2>4. Len(rs) + 1 \in DOMAIN q /\ DOMAIN rs \subseteq DOMAIN q
    BY <1>0, <2>3
  <2> QED
    BY <1>0, <1>1, <2>2, <2>4
<1>2. CASE /\ w.kind = "status" /\ w.id \in Nat /\ w.packet \in PacketIds /\ w.status \in Statuses
           /\ \A v : Applied(v, w) = Told(v, w.id, w.packet, w.status)
  <2>1. q = Settle(rs, w.id, w.packet, w.status)
    BY <1>2 DEF Apply
  <2>2. /\ q \in Seq(Message) /\ Len(q) = Len(rs)
        /\ \A i \in 1..Len(rs) : q[i] = Told(rs[i], w.id, w.packet, w.status)
    BY <1>2, <2>1, SettleFacts
  <2>3. DOMAIN q = 1..Len(rs)
    BY <2>2, LenProperties
  <2> HIDE DEF q
  <2> QED
    BY <1>0, <1>2, <2>2, <2>3
<1> QED
  BY <1>1, <1>2, WriteKinds

LEMMA KeptWritten ==
  ASSUME NEW ws \in Seq(Writes), ws # <<>>, NEW rs \in Seq(Message), NEW m, Kept(ws, rs, m)
  PROVE  Kept(Tail(ws), Apply(rs, Head(ws)), m)
<1> DEFINE w == Head(ws)
           ns == Tail(ws)
           q == Apply(rs, w)
<1>0. /\ Len(ws) \in Nat /\ DOMAIN ws = 1..Len(ws) /\ w = ws[1] /\ w \in Writes
      /\ DOMAIN rs = 1..Len(rs) /\ Len(rs) \in Nat
      /\ ns \in Seq(Writes) /\ DOMAIN ns = 1..(Len(ws) - 1)
      /\ \A i \in 1..(Len(ws) - 1) : ns[i] = ws[i + 1]
  <2>1. /\ w \in Writes /\ ns \in Seq(Writes) /\ Len(ns) = Len(ws) - 1
        /\ \A i \in 1..Len(ns) : ns[i] = ws[i + 1]
    BY HeadTailProperties
  <2>2. DOMAIN ns = 1..Len(ns)
    BY <2>1, LenProperties
  <2> QED
    BY <2>1, <2>2, LenProperties
<1>1. /\ q \in Seq(Message) /\ DOMAIN rs \subseteq DOMAIN q
      /\ \A r \in DOMAIN rs : q[r] = Applied(rs[r], w)
      /\ w.kind = "row" => \E r \in DOMAIN q : q[r] = w.msg
  BY <1>0, ApplyFacts
<1> HIDE DEF q
<1>2. CASE \E r \in DOMAIN rs : Leads(ws, 0, rs[r], m)
  <2>1. PICK r \in DOMAIN rs : Leads(ws, 0, rs[r], m)
    BY <1>2
  <2>2. Leads(ns, 0, Applied(rs[r], w), m)
    BY <2>1, LeadsFirst
  <2> HIDE DEF ns, w
  <2>3. Leads(ns, 0, q[r], m) /\ r \in DOMAIN q
    BY <1>1, <2>2
  <2> QED
    BY <1>1, <2>3 DEF Kept, q, ns, w
<1>3. CASE \E k \in DOMAIN ws : ws[k].kind = "row" /\ Leads(ws, k, ws[k].msg, m)
  <2>1. PICK k \in 1..Len(ws) : ws[k].kind = "row" /\ Leads(ws, k, ws[k].msg, m)
    BY <1>0, <1>3
  <2>2. Leads(ns, k - 1, ws[k].msg, m)
    BY <2>1, LeadsTail
  <2> HIDE DEF ns
  <2>3. CASE k = 1
    <3>1. PICK r \in DOMAIN q : q[r] = ws[k].msg
      BY <1>0, <1>1, <2>1, <2>3
    <3>2. Leads(ns, 0, q[r], m)
      BY <2>2, <2>3, <3>1
    <3> HIDE DEF w
    <3> QED
      BY <1>1, <3>2 DEF Kept, q, ns, w
  <2>4. CASE k # 1
    <3>1. k - 1 \in 1..(Len(ws) - 1) /\ (k - 1) + 1 = k
      BY <1>0, <2>1, <2>4
    <3>2. k - 1 \in DOMAIN ns /\ ns[k - 1] = ws[k]
      BY <1>0, <3>1
    <3>3. ns[k - 1].kind = "row" /\ Leads(ns, k - 1, ns[k - 1].msg, m)
      BY <2>1, <2>2, <3>2
    <3>4. Kept(ns, q, m)
      BY <3>2, <3>3 DEF Kept
    <3> QED
      BY <1>1, <3>4 DEF q, ns
  <2> QED
    BY <2>3, <2>4
<1> QED
  BY <1>2, <1>3 DEF Kept

-----------------------------------------------------------------------------
(* The invariant                                                           *)

LinkType ==
  /\ sends \in Seq([id: Nat, text: Texts]) /\ inbox \in Seq(Signals) /\ count \in Counts

StoreInv ==
  /\ writes \in Seq(Writes) /\ rows \in Seq(Message)
  /\ \A i \in DOMAIN messages : messages[i].id \notin refused => Kept(writes, rows, messages[i])

SideInv == sidebar \in Sidebars /\ SidebarAgrees

ChatInv == LinkType /\ ViewInv /\ StoreInv /\ SideInv

LEMMA StoreSame ==
  ASSUME StoreInv, UNCHANGED <<messages, writes, rows, refused>>
  PROVE  StoreInv'
BY DEF StoreInv

LEMMA SideSame ==
  ASSUME SideInv, UNCHANGED <<sidebar, current, jumped>>
  PROVE  SideInv'
BY DEF SideInv, SidebarAgrees

LEMMA Emptied == \A S : <<>> \in Seq(S)
OBVIOUS

LEMMA ChatInit == Init => ChatInv
<1> SUFFICES ASSUME Init PROVE ChatInv
  OBVIOUS
<1>1. LinkType
  <2>1. count \in Counts
    BY DEF Init, Counts
  <2>2. sends \in Seq([id: Nat, text: Texts]) /\ inbox \in Seq(Signals)
    BY Emptied, Zenon DEF Init
  <2> QED
    BY <2>1, <2>2 DEF LinkType
<1>2. ViewInv
  <2>1. messages \in Seq(Message) /\ bubbles \in Seq(Message)
    BY Emptied, Zenon DEF Init
  <2>2. current = None /\ ~notice /\ notice \in BOOLEAN
    BY DEF Init
  <2>3. bubbles = Thread(messages, current)
    BY ThreadEmpty, Zenon DEF Init
  <2> QED
    BY <2>1, <2>2, <2>3 DEF ViewInv
<1>3. StoreInv
  <2>1. writes \in Seq(Writes) /\ rows \in Seq(Message)
    BY Emptied, Zenon DEF Init
  <2>2. DOMAIN messages = {}
    BY DEF Init
  <2> QED
    BY <2>1, <2>2 DEF StoreInv
<1>4. SideInv
  <2>1. sidebar = EmptySidebar
    BY DEF Init
  <2>2. EmptySidebar \in Sidebars
    BY Emptied DEF EmptySidebar, Sidebars
  <2> QED
    BY <2>1, <2>2 DEF SideInv, SidebarAgrees, EmptySidebar
<1> QED
  BY <1>1, <1>2, <1>3, <1>4 DEF ChatInv

(* The worker and the radio.                                               *)
LEMMA InboxGrows ==
  ASSUME LinkType, NEW list \in Seq(Signals), Emit(list)
  PROVE  inbox' \in Seq(Signals)
BY DEF LinkType, Emit

LEMMA InboxTaken ==
  ASSUME LinkType, NEW kind, Next1(kind)
  PROVE  Head(inbox) \in Signals /\ inbox' \in Seq(Signals)
BY DEF LinkType, Next1

LEMMA SignalTypes ==
  /\ \A kind \in {"connected", "seeded", "disconnected"} : [kind |-> kind] \in Signals
  /\ \A cs \in Seq(Channels) : [kind |-> "channels", channels |-> cs] \in Signals
  /\ \A m \in Message : [kind |-> "received", msg |-> m] \in Signals
  /\ \A id \in Nat, packet \in PacketIds, status \in Statuses :
       [kind |-> "status", id |-> id, packet |-> packet, status |-> status] \in Signals
BY DEF Signals, StatusWrites

LEMMA SignalParts ==
  ASSUME NEW s \in Signals
  PROVE  /\ s.kind = "channels" => s.channels \in Seq(Channels)
         /\ s.kind = "received" => s.msg \in Message
         /\ s.kind = "status" => s.id \in Nat /\ s.packet \in PacketIds /\ s.status \in Statuses
<1>1. CASE s \in [kind: {"connected", "seeded", "disconnected"}]
  BY <1>1
<1>2. CASE s \in [kind: {"channels"}, channels: Seq(Channels)]
  BY <1>2
<1>3. CASE s \in [kind: {"received"}, msg: Message]
  BY <1>3
<1>4. CASE s \in StatusWrites
  BY <1>4 DEF StatusWrites
<1> QED
  BY <1>1, <1>2, <1>3, <1>4 DEF Signals

LEMMA CountGrows ==
  ASSUME count \in Counts
  PROVE  /\ [count EXCEPT !.connects = @ + 1] \in Counts
         /\ [count EXCEPT !.messages = @ + 1] \in Counts
         /\ [count EXCEPT !.restarts = @ + 1] \in Counts
BY DEF Counts

LEMMA ChatLink ==
  ASSUME ChatInv,
         \/ \E cs \in ChannelLists : Connects(cs)
         \/ Drops \/ WorkerSends
         \/ \E n \in Nodes \ {Local}, c \in Channels, direct \in BOOLEAN, at \in 0..MaxMessages :
              TextReceived(n, c, direct, at)
  PROVE  ChatInv'
<1>0. LinkType /\ ViewInv /\ StoreInv /\ SideInv
  BY DEF ChatInv
<1>1. UNCHANGED <<sidebar, view, store, jumped>>
  BY DEF Connects, Drops, WorkerSends, TextReceived
<1>2. ViewInv' /\ StoreInv' /\ SideInv'
  BY <1>0, <1>1, ViewSame, StoreSame, SideSame DEF view, store
<1>3. CASE \E cs \in ChannelLists : Connects(cs)
  <2>1. PICK cs \in ChannelLists : Connects(cs)
    BY <1>3
  <2> DEFINE a == [kind |-> "connected"]
             b == [kind |-> "channels", channels |-> cs]
             c == [kind |-> "seeded"]
  <2>2. a \in Signals /\ b \in Signals /\ c \in Signals
    BY SignalTypes, ChatConstants
  <2>3. Emit(<<a, b, c>>) /\ sends' = sends /\ count' = [count EXCEPT !.connects = @ + 1]
    BY <2>1 DEF Connects
  <2> HIDE DEF a, b, c
  <2>4. <<a, b, c>> \in Seq(Signals)
    BY <2>2
  <2>5. inbox' \in Seq(Signals)
    BY <1>0, <2>3, <2>4, InboxGrows
  <2>6. LinkType'
    BY <1>0, <2>3, <2>5, CountGrows DEF LinkType
  <2> QED
    BY <1>2, <2>6 DEF ChatInv
<1>4. CASE Drops
  <2> DEFINE a == [kind |-> "disconnected"]
  <2>1. a \in Signals
    BY SignalTypes
  <2>2. Emit(<<a>>) /\ sends' = sends /\ count' = count
    BY <1>4 DEF Drops
  <2> HIDE DEF a
  <2>3. <<a>> \in Seq(Signals)
    BY <2>1
  <2>4. inbox' \in Seq(Signals)
    BY <1>0, <2>2, <2>3, InboxGrows
  <2>5. LinkType'
    BY <1>0, <2>2, <2>4 DEF LinkType
  <2> QED
    BY <1>2, <2>5 DEF ChatInv
<1>5. CASE WorkerSends
  <2>1. Head(sends) \in [id: Nat, text: Texts] /\ sends' \in Seq([id: Nat, text: Texts])
    <3>1. sends # <<>> /\ sends' = Tail(sends)
      BY <1>5 DEF WorkerSends
    <3>2. sends \in Seq([id: Nat, text: Texts])
      BY <1>0 DEF LinkType
    <3> QED
      BY <3>1, <3>2, HeadTailProperties
  <2>2. inbox' \in Seq(Signals)
    <3> DEFINE s == Head(sends)
    <3>1. \A o \in Outcomes(s.text, s.id) : o[1] \in PacketIds /\ o[2] \in Statuses
      BY <2>1 DEF Outcomes, PacketIds, Statuses
    <3>2. \/ inbox' = inbox
          \/ \E o \in Outcomes(s.text, s.id) :
               Emit(<<[kind |-> "status", id |-> s.id, packet |-> o[1], status |-> o[2]]>>)
      BY <1>5 DEF WorkerSends
    <3>3. ASSUME NEW o \in Outcomes(s.text, s.id),
                 Emit(<<[kind |-> "status", id |-> s.id, packet |-> o[1], status |-> o[2]]>>)
          PROVE  inbox' \in Seq(Signals)
      <4> DEFINE a == [kind |-> "status", id |-> s.id, packet |-> o[1], status |-> o[2]]
      <4>1. a \in Signals
        BY <2>1, <3>1, SignalTypes
      <4>2. Emit(<<a>>)
        BY <3>3
      <4> HIDE DEF a
      <4>3. <<a>> \in Seq(Signals)
        BY <4>1
      <4> QED
        BY <1>0, <4>2, <4>3, InboxGrows
    <3> QED
      BY <1>0, <3>2, <3>3 DEF LinkType
  <2>3. count' = count
    BY <1>5 DEF WorkerSends
  <2>4. LinkType'
    BY <1>0, <2>1, <2>2, <2>3 DEF LinkType
  <2> QED
    BY <1>2, <2>4 DEF ChatInv
<1>6. CASE \E n \in Nodes \ {Local}, c \in Channels, direct \in BOOLEAN, at \in 0..MaxMessages :
             TextReceived(n, c, direct, at)
  <2>1. PICK n \in Nodes \ {Local}, c \in Channels, direct \in BOOLEAN, at \in 0..MaxMessages :
             TextReceived(n, c, direct, at)
    BY <1>6
  <2> DEFINE id == count.messages + 1
             m == [id |-> id, at |-> at, chan |-> IF direct THEN 0 ELSE c,
                   dm |-> IF direct THEN n ELSE None, status |-> "received", packet |-> id]
             a == [kind |-> "received", msg |-> m]
  <2>2. id \in Nat
    BY <1>0 DEF LinkType, Counts
  <2>3. m \in Message
    BY <2>2, ChatConstants DEF Message, Statuses, PacketIds
  <2>4. Emit(<<a>>) /\ sends' = sends /\ count' = [count EXCEPT !.messages = @ + 1]
    BY <2>1 DEF TextReceived
  <2> HIDE DEF id, m
  <2>5. a \in Signals
    BY <2>3, SignalTypes
  <2> HIDE DEF a
  <2>6. <<a>> \in Seq(Signals)
    BY <2>5
  <2>7. inbox' \in Seq(Signals)
    BY <1>0, <2>4, <2>6, InboxGrows
  <2>8. LinkType'
    BY <1>0, <2>4, <2>7, CountGrows DEF LinkType
  <2> QED
    BY <1>2, <2>8 DEF ChatInv
<1> QED
  BY <1>3, <1>4, <1>5, <1>6

(* The sidebar's lists.                                                    *)
LEMMA Highlights ==
  ASSUME NEW sb \in Sidebars
  PROVE  /\ \A c \in Channels : /\ OnChannelRow(sb, c) \in Sidebars
                                /\ OnChannelRow(sb, c).chanRow = c
                                /\ OnChannelRow(sb, c).dmRow = None
         /\ \A n \in Nodes : /\ OnDmRow(sb, n) \in Sidebars
                             /\ OnDmRow(sb, n).dmRow = n
                             /\ OnDmRow(sb, n).chanRow = None
BY DEF OnChannelRow, OnDmRow, Sidebars

LEMMA SideShowsChannel ==
  ASSUME NEW sb \in Sidebars, NEW c \in Channels, sidebar' = OnChannelRow(sb, c),
         current' = <<"channel", c>>
  PROVE  SideInv'
BY Highlights, ChatConstants DEF SideInv, SidebarAgrees

LEMMA SideShowsDm ==
  ASSUME NEW sb \in Sidebars, NEW n \in Nodes, sidebar' = OnDmRow(sb, n), current' = <<"dm", n>>
  PROVE  SideInv'
BY Highlights, ChatConstants DEF SideInv, SidebarAgrees

(* A refresh of the direct messages restores a highlight with its thread   *)
(* or removes it.                                                          *)
LEMMA ChatRefreshes ==
  ASSUME ViewInv, StoreInv, SideInv, RefreshDms(Nodes), UNCHANGED store
  PROVE  ViewInv' /\ StoreInv' /\ SideInv'
<1> DEFINE cleared == [sidebar EXCEPT !.dms = Nodes \ {sidebar.local}, !.dmRow = None]
<1>1. sidebar \in Sidebars /\ SidebarAgrees
  BY DEF SideInv
<1>2. /\ cleared \in Sidebars /\ cleared.dmRow = None /\ cleared.chanRow = sidebar.chanRow
  BY <1>1 DEF Sidebars
<1>3. /\ sidebar' = IF Restores(sidebar, Nodes) THEN OnDmRow(cleared, sidebar.dmRow) ELSE cleared
  BY DEF RefreshDms, SetDmNodes
<1> HIDE DEF cleared
<1>4. CASE Restores(sidebar, Nodes)
  <2>1. sidebar.dmRow \in Nodes
    BY <1>4 DEF Restores
  <2>2. Show(<<"dm", sidebar.dmRow>>) /\ sidebar' = OnDmRow(cleared, sidebar.dmRow)
    BY <1>3, <1>4 DEF RefreshDms
  <2>3. <<"dm", sidebar.dmRow>> \in Conversations
    BY <2>1 DEF Conversations
  <2>4. ViewInv'
    BY <2>2, <2>3, ViewShows
  <2>5. current' = <<"dm", sidebar.dmRow>> /\ messages' = messages
    BY <2>2 DEF Show, RebuildBubbles
  <2>6. SideInv'
    BY <1>2, <2>1, <2>2, <2>5, SideShowsDm
  <2>7. StoreInv'
    BY <2>5, StoreSame DEF store
  <2> QED
    BY <2>4, <2>6, <2>7
<1>5. CASE ~Restores(sidebar, Nodes)
  <2>1. UNCHANGED <<view, jumped>> /\ sidebar' = cleared
    BY <1>3, <1>5 DEF RefreshDms
  <2>2. ViewInv' /\ StoreInv'
    BY <2>1, ViewSame, StoreSame DEF view, store
  <2>3. SideInv'
    BY <1>1, <1>2, <2>1 DEF SideInv, SidebarAgrees, view
  <2> QED
    BY <2>2, <2>3
<1> QED
  BY <1>4, <1>5

(* A message that joins the view, with its row on the way to the store.    *)
LEMMA StoreAdds ==
  ASSUME ViewInv, StoreInv, NEW m \in Message, add_message(m), save_message(m)
  PROVE  StoreInv'
<1> DEFINE w == [kind |-> "row", msg |-> m]
<1>0. /\ w \in Writes /\ w.kind = "row" /\ w.msg = m /\ \A v : Applied(v, w) = v
  BY DEF Writes, RowWrites, Applied
<1>1. messages \in Seq(Message) /\ writes \in Seq(Writes) /\ rows \in Seq(Message)
  BY DEF ViewInv, StoreInv
<1>2. /\ messages' = Append(messages, m) /\ rows' = rows
      /\ \/ writes' = Append(writes, w) /\ refused' = refused
         \/ writes' = writes /\ refused' = refused \cup {m.id}
  BY DEF add_message, save_message, Enqueue
<1> HIDE DEF w
<1>3. /\ Len(messages) \in Nat /\ DOMAIN messages = 1..Len(messages)
      /\ DOMAIN messages' = 1..(Len(messages) + 1)
      /\ \A i \in 1..Len(messages) : messages'[i] = messages[i] /\ messages[i] \in Message
      /\ messages'[Len(messages) + 1] = m
  <2>1. /\ messages' \in Seq(Message) /\ Len(messages') = Len(messages) + 1
        /\ \A i \in 1..Len(messages) : messages'[i] = messages[i]
        /\ messages'[Len(messages) + 1] = m
    BY <1>1, <1>2, AppendProperties
  <2>2. /\ DOMAIN messages' = 1..Len(messages') /\ DOMAIN messages = 1..Len(messages)
        /\ Len(messages) \in Nat
    BY <1>1, <2>1, LenProperties
  <2> QED
    BY <1>1, <2>1, <2>2
<1>4. writes' \in Seq(Writes)
  <2>1. Append(writes, w) \in Seq(Writes)
    BY <1>0, <1>1
  <2> QED
    BY <1>1, <1>2, <2>1
<1>5. ASSUME NEW i \in DOMAIN messages', messages'[i].id \notin refused'
      PROVE  Kept(writes', rows', messages'[i])
  <2>1. CASE i \in 1..Len(messages)
    <3>1. messages'[i] = messages[i] /\ messages[i] \in Message /\ messages[i].id \notin refused
      BY <1>2, <1>3, <1>5, <2>1
    <3>2. Kept(writes, rows, messages[i])
      BY <1>3, <2>1, <3>1 DEF StoreInv
    <3>3. Kept(Append(writes, w), rows, messages[i])
      BY <1>0, <1>1, <3>1, <3>2, KeptAppend
    <3> QED
      BY <1>2, <3>1, <3>2, <3>3
  <2>2. CASE i = Len(messages) + 1
    <3>1. messages'[i] = m
      BY <1>3, <2>2
    <3>2. writes' = Append(writes, w)
      BY <1>2, <1>5, <3>1
    <3> QED
      BY <1>0, <1>1, <3>1, <3>2, KeptNew
  <2> QED
    BY <1>3, <1>5, <2>1, <2>2
<1> QED
  BY <1>1, <1>2, <1>4, <1>5 DEF StoreInv

(* A status, in the view and on the way to the store.                      *)
LEMMA StoreSettles ==
  ASSUME ViewInv, StoreInv, NEW id \in Nat, NEW packet \in PacketIds, NEW status \in Statuses,
         update_message_status(id, packet, status), update_stored_status(id, packet, status)
  PROVE  StoreInv'
<1> DEFINE w == [kind |-> "status", id |-> id, packet |-> packet, status |-> status]
<1>0. /\ w \in Writes /\ \A v : Applied(v, w) = Told(v, id, packet, status)
  BY DEF Writes, StatusWrites, Applied, Told
<1>1. messages \in Seq(Message) /\ writes \in Seq(Writes) /\ rows \in Seq(Message)
  BY DEF ViewInv, StoreInv
<1>2. /\ messages' = Settle(messages, id, packet, status) /\ rows' = rows
      /\ \/ writes' = Append(writes, w) /\ refused' = refused
         \/ writes' = writes /\ refused' = refused \cup {id}
  BY DEF update_message_status, update_stored_status, Enqueue
<1> HIDE DEF w
<1>3. /\ DOMAIN messages = 1..Len(messages) /\ DOMAIN messages' = 1..Len(messages)
      /\ \A i \in 1..Len(messages) : /\ messages'[i] = Told(messages[i], id, packet, status)
                                     /\ messages[i] \in Message
  <2>1. /\ messages' \in Seq(Message) /\ Len(messages') = Len(messages)
        /\ \A i \in 1..Len(messages) : messages'[i] = Told(messages[i], id, packet, status)
    BY <1>1, <1>2, SettleFacts
  <2>2. DOMAIN messages' = 1..Len(messages') /\ DOMAIN messages = 1..Len(messages)
    BY <1>1, <2>1, LenProperties
  <2> QED
    BY <1>1, <2>1, <2>2
<1>4. writes' \in Seq(Writes)
  <2>1. Append(writes, w) \in Seq(Writes)
    BY <1>0, <1>1
  <2> QED
    BY <1>1, <1>2, <2>1
<1>5. ASSUME NEW i \in DOMAIN messages', messages'[i].id \notin refused'
      PROVE  Kept(writes', rows', messages'[i])
  <2>1. /\ i \in DOMAIN messages /\ messages[i] \in Message
        /\ messages'[i] = Told(messages[i], id, packet, status)
    BY <1>3, <1>5
  <2>2. messages'[i].id = messages[i].id
    BY <2>1, StampedType DEF Told
  <2>3. messages[i].id \notin refused
    BY <1>2, <1>5, <2>2
  <2>4. Kept(writes, rows, messages[i])
    BY <2>1, <2>3 DEF StoreInv
  <2>5. CASE writes' = Append(writes, w)
    <3>1. Kept(Append(writes, w), rows, Applied(messages[i], w))
      BY <1>0, <1>1, <2>1, <2>4, KeptAppend
    <3> QED
      BY <1>0, <1>2, <2>1, <2>5, <3>1
  <2>6. CASE writes' = writes /\ refused' = refused \cup {id}
    <3>1. messages'[i] = messages[i]
      BY <1>5, <2>1, <2>2, <2>6 DEF Told
    <3> QED
      BY <1>2, <2>4, <2>6, <3>1
  <2> QED
    BY <1>2, <2>5, <2>6
<1> QED
  BY <1>1, <1>2, <1>4, <1>5 DEF StoreInv

LEMMA ChatDelivers ==
  ASSUME ChatInv, Deliver
  PROVE  ChatInv'
<1>0. LinkType /\ ViewInv /\ StoreInv /\ SideInv
  BY DEF ChatInv
<1>1. PICK kind : Next1(kind)
  BY DEF Deliver, OnConnected, OnChannelsUpdated, OnNodedbSeeded, OnDisconnected,
         OnMessageReceived, OnMessageStatus
<1>2. Head(inbox) \in Signals /\ inbox' \in Seq(Signals)
  BY <1>0, <1>1, InboxTaken
<1>3. sends' = sends /\ count' = count
  BY DEF Deliver, OnConnected, OnChannelsUpdated, OnNodedbSeeded, OnDisconnected,
         OnMessageReceived, OnMessageStatus
<1>4. LinkType'
  BY <1>0, <1>2, <1>3 DEF LinkType
<1>5. CASE OnConnected
  <2>1. /\ UNCHANGED <<view, store, jumped>> /\ sidebar' = [sidebar EXCEPT !.local = Local]
    BY <1>5 DEF OnConnected
  <2>2. ViewInv' /\ StoreInv'
    BY <1>0, <2>1, ViewSame, StoreSame DEF view, store
  <2>3. SideInv'
    <3>1. /\ sidebar' \in Sidebars /\ sidebar'.chanRow = sidebar.chanRow
          /\ sidebar'.dmRow = sidebar.dmRow
      BY <1>0, <2>1 DEF SideInv, Sidebars
    <3> QED
      BY <1>0, <2>1, <3>1 DEF SideInv, SidebarAgrees, view
  <2> QED
    BY <1>4, <2>2, <2>3 DEF ChatInv
<1>6. CASE OnChannelsUpdated
  <2> DEFINE cs == Head(inbox).channels
             cleared == [sidebar EXCEPT !.channels = cs, !.chanRow = None]
  <2>1. Head(inbox).kind = "channels" /\ UNCHANGED store
    BY <1>6 DEF OnChannelsUpdated, Next1
  <2>2. cs \in Seq(Channels)
    BY <1>2, <2>1, SignalParts
  <2>3. sidebar' = IF cs = <<>> THEN cleared ELSE OnChannelRow(cleared, cs[1])
    BY <1>6 DEF OnChannelsUpdated, SetChannels
  <2>4. /\ cs = <<>> => set_no_channels_message /\ UNCHANGED jumped
        /\ cs # <<>> => Show(<<"channel", cs[1]>>)
    BY <1>6 DEF OnChannelsUpdated
  <2> HIDE DEF cs
  <2>5. /\ cleared \in Sidebars /\ cleared.chanRow = None /\ cleared.dmRow = sidebar.dmRow
    BY <1>0, <2>2 DEF SideInv, Sidebars
  <2> HIDE DEF cleared
  <2>6. CASE cs = <<>>
    <3>1. /\ set_no_channels_message /\ UNCHANGED <<jumped, current, messages>> /\ sidebar' = cleared
      BY <2>3, <2>4, <2>6 DEF set_no_channels_message
    <3>2. ViewInv'
      BY <1>0, <3>1, ViewCleared
    <3>3. StoreInv'
      BY <1>0, <2>1, <3>1, StoreSame DEF store
    <3>4. SideInv'
      BY <1>0, <2>5, <3>1 DEF SideInv, SidebarAgrees
    <3> QED
      BY <1>4, <3>2, <3>3, <3>4 DEF ChatInv
  <2>7. CASE cs # <<>>
    <3>1. cs[1] \in Channels
      BY <2>2, <2>7
    <3>2. /\ Show(<<"channel", cs[1]>>) /\ sidebar' = OnChannelRow(cleared, cs[1])
          /\ messages' = messages /\ current' = <<"channel", cs[1]>>
      BY <2>3, <2>4, <2>7 DEF Show, RebuildBubbles
    <3>3. <<"channel", cs[1]>> \in Conversations
      BY <3>1 DEF Conversations
    <3>4. ViewInv'
      BY <1>0, <3>2, <3>3, ViewShows
    <3>5. StoreInv'
      BY <1>0, <2>1, <3>2, StoreSame DEF store
    <3>6. SideInv'
      BY <2>5, <3>1, <3>2, SideShowsChannel
    <3> QED
      BY <1>4, <3>4, <3>5, <3>6 DEF ChatInv
  <2> QED
    BY <2>6, <2>7
<1>7. CASE OnNodedbSeeded
  <2>1. RefreshDms(Nodes) /\ UNCHANGED store
    BY <1>7 DEF OnNodedbSeeded
  <2>2. ViewInv' /\ StoreInv' /\ SideInv'
    BY <1>0, <2>1, ChatRefreshes
  <2> QED
    BY <1>4, <2>2 DEF ChatInv
<1>8. CASE OnDisconnected
  <2>1. UNCHANGED <<view, store, jumped>> /\ sidebar' = EmptySidebar
    BY <1>8 DEF OnDisconnected
  <2>2. ViewInv' /\ StoreInv'
    BY <1>0, <2>1, ViewSame, StoreSame DEF view, store
  <2>3. EmptySidebar \in Sidebars
    BY Emptied DEF EmptySidebar, Sidebars
  <2>4. SideInv'
    BY <2>1, <2>3 DEF SideInv, SidebarAgrees, EmptySidebar
  <2> QED
    BY <1>4, <2>2, <2>4 DEF ChatInv
<1>9. CASE OnMessageReceived
  <2> DEFINE m == Head(inbox).msg
  <2>1. Head(inbox).kind = "received" /\ add_message(m) /\ save_message(m)
        /\ UNCHANGED <<sidebar, jumped>>
    BY <1>9 DEF OnMessageReceived, Next1
  <2>2. m \in Message
    BY <1>2, <2>1, SignalParts
  <2> HIDE DEF m
  <2>3. ViewInv' /\ StoreInv'
    BY <1>0, <2>1, <2>2, ViewAdds, StoreAdds
  <2>4. SideInv'
    BY <1>0, <2>1, SideSame DEF add_message
  <2> QED
    BY <1>4, <2>3, <2>4 DEF ChatInv
<1>10. CASE OnMessageStatus
  <2> DEFINE s == Head(inbox)
  <2>1. s.kind = "status" /\ update_message_status(s.id, s.packet, s.status)
        /\ update_stored_status(s.id, s.packet, s.status) /\ UNCHANGED <<sidebar, jumped>>
    BY <1>10 DEF OnMessageStatus, Next1
  <2>2. s.id \in Nat /\ s.packet \in PacketIds /\ s.status \in Statuses
    BY <1>2, <2>1, SignalParts
  <2> HIDE DEF s
  <2>3. ViewInv' /\ StoreInv'
    BY <1>0, <2>1, <2>2, ViewSettles, StoreSettles
  <2>4. SideInv'
    BY <1>0, <2>1, SideSame DEF update_message_status
  <2> QED
    BY <1>4, <2>3, <2>4 DEF ChatInv
<1> QED
  BY <1>5, <1>6, <1>7, <1>8, <1>9, <1>10 DEF Deliver

LEMMA ChatUser ==
  ASSUME ChatInv, User
  PROVE  ChatInv'
<1>0. LinkType /\ ViewInv /\ StoreInv /\ SideInv /\ sidebar \in Sidebars
  BY DEF ChatInv, SideInv
<1>1. ASSUME NEW c \in Channels, PickChannel(c) PROVE ChatInv'
  <2>1. /\ UNCHANGED <<link, store, count>> /\ Show(<<"channel", c>>)
        /\ sidebar' = OnChannelRow(sidebar, c)
    BY <1>1 DEF PickChannel
  <2>2. messages' = messages /\ current' = <<"channel", c>>
    BY <2>1 DEF Show, RebuildBubbles
  <2>3. <<"channel", c>> \in Conversations
    BY DEF Conversations
  <2>4. ViewInv'
    BY <1>0, <2>1, <2>3, ViewShows
  <2>5. StoreInv' /\ LinkType'
    BY <1>0, <2>1, <2>2, StoreSame DEF store, link, LinkType
  <2>6. SideInv'
    BY <1>0, <2>1, <2>2, SideShowsChannel
  <2> QED
    BY <2>4, <2>5, <2>6 DEF ChatInv
<1>2. ASSUME NEW n \in Nodes, PickDm(n) \/ MessageNode(n) PROVE ChatInv'
  <2>1. UNCHANGED <<link, store, count>> /\ Show(<<"dm", n>>)
    BY <1>2 DEF PickDm, MessageNode
  <2>2. messages' = messages /\ current' = <<"dm", n>>
    BY <2>1 DEF Show, RebuildBubbles
  <2>3. <<"dm", n>> \in Conversations
    BY DEF Conversations
  <2>4. ViewInv'
    BY <1>0, <2>1, <2>3, ViewShows
  <2>5. StoreInv' /\ LinkType'
    BY <1>0, <2>1, <2>2, StoreSame DEF store, link, LinkType
  <2>6. CASE PickDm(n)
    <3>1. sidebar' = OnDmRow(sidebar, n)
      BY <2>6 DEF PickDm
    <3>2. SideInv'
      BY <1>0, <2>2, <3>1, SideShowsDm
    <3> QED
      BY <2>4, <2>5, <3>2 DEF ChatInv
  <2>7. CASE MessageNode(n)
    <3>1. jumped' /\ sidebar' = sidebar
      BY <2>7 DEF MessageNode
    <3>2. SideInv'
      BY <1>0, <3>1 DEF SideInv, SidebarAgrees
    <3> QED
      BY <2>4, <2>5, <3>2 DEF ChatInv
  <2> QED
    BY <1>2, <2>6, <2>7
<1>3. ASSUME NEW raw \in Texts, Send(raw) PROVE ChatInv'
  <2> DEFINE t == normalize_outgoing_text(raw)
             id == count.messages + 1
             m == [id |-> id, at |-> id,
                   chan |-> IF current[1] = "dm" THEN 0 ELSE current[2],
                   dm |-> IF current[1] = "dm" THEN current[2] ELSE None,
                   status |-> "sending", packet |-> None]
             call == [id |-> id, text |-> t]
  <2>1. /\ add_message(m) /\ save_message(m) /\ sends' = Append(sends, call)
        /\ count' = [count EXCEPT !.messages = @ + 1] /\ current # None
        /\ UNCHANGED <<inbox, sidebar, jumped>>
    BY <1>3 DEF Send
  <2>2. id \in Nat
    BY <1>0 DEF LinkType, Counts
  <2>3. t \in Texts
    <3>1. 0 \in 0..1
      OBVIOUS
    <3> QED
      BY <3>1 DEF normalize_outgoing_text, Texts
  <2>4. m \in Message
    <3>1. current \in Conversations
      BY <1>0, <2>1 DEF ViewInv
    <3>2. \/ current[1] = "channel" /\ current[2] \in Channels
          \/ current[1] = "dm" /\ current[2] \in Nodes
      BY <3>1 DEF Conversations
    <3> QED
      BY <2>2, <3>2, ChatConstants DEF Message, Statuses, PacketIds
  <2> HIDE DEF m, id, t
  <2>5. call \in [id: Nat, text: Texts]
    BY <2>2, <2>3
  <2> HIDE DEF call
  <2>6. sends' \in Seq([id: Nat, text: Texts])
    <3> DEFINE C == [id: Nat, text: Texts]
    <3>1. sends \in Seq(C) /\ call \in C
      BY <1>0, <2>5 DEF LinkType
    <3> HIDE DEF C
    <3>2. sends' \in Seq(C)
      BY <2>1, <3>1
    <3> QED
      BY <3>2 DEF C
  <2>7. LinkType'
    BY <1>0, <2>1, <2>6, CountGrows DEF LinkType
  <2>8. ViewInv' /\ StoreInv'
    BY <1>0, <2>1, <2>4, ViewAdds, StoreAdds
  <2>9. SideInv'
    BY <1>0, <2>1, SideSame DEF add_message
  <2> QED
    BY <2>7, <2>8, <2>9 DEF ChatInv
<1> QED
  BY <1>1, <1>2, <1>3 DEF User

LEMMA ChatFlushes ==
  ASSUME ChatInv, FlushNodeUpdates
  PROVE  ChatInv'
<1>0. LinkType /\ ViewInv /\ StoreInv /\ SideInv
  BY DEF ChatInv
<1>1. RefreshDms(Nodes) /\ UNCHANGED <<link, store, count>>
  BY DEF FlushNodeUpdates
<1>2. ViewInv' /\ StoreInv' /\ SideInv'
  BY <1>0, <1>1, ChatRefreshes
<1>3. LinkType'
  BY <1>0, <1>1 DEF LinkType, link
<1> QED
  BY <1>2, <1>3 DEF ChatInv

LEMMA ChatWrites ==
  ASSUME ChatInv, StoreWrites
  PROVE  ChatInv'
<1>0. LinkType /\ ViewInv /\ StoreInv /\ SideInv
  BY DEF ChatInv
<1>1. /\ writes # <<>> /\ rows' = Apply(rows, Head(writes)) /\ writes' = Tail(writes)
      /\ UNCHANGED <<link, sidebar, view, count, jumped, refused>>
  BY DEF StoreWrites
<1>2. writes \in Seq(Writes) /\ rows \in Seq(Message)
  BY <1>0 DEF StoreInv
<1>3. Head(writes) \in Writes /\ writes' \in Seq(Writes)
  BY <1>1, <1>2
<1>4. rows' \in Seq(Message)
  BY <1>1, <1>2, <1>3, ApplyFacts
<1>5. ASSUME NEW i \in DOMAIN messages, messages[i].id \notin refused
      PROVE  Kept(writes', rows', messages[i])
  <2>1. Kept(writes, rows, messages[i])
    BY <1>0, <1>5 DEF StoreInv
  <2> QED
    BY <1>1, <1>2, <2>1, KeptWritten
<1>6. StoreInv'
  BY <1>1, <1>3, <1>4, <1>5 DEF StoreInv, view
<1>7. LinkType' /\ ViewInv' /\ SideInv'
  BY <1>0, <1>1, ViewSame, SideSame DEF LinkType, link, view
<1> QED
  BY <1>6, <1>7 DEF ChatInv

LEMMA HistoryFacts ==
  ASSUME NEW rs \in Seq(Message), NEW rank \in Ranks(rs)
  PROVE  /\ read_messages(rs, rank) \in Seq(Message)
         /\ \A i \in DOMAIN read_messages(rs, rank) :
              \E r \in DOMAIN rs : read_messages(rs, rank)[i] = rs[r]
<1> DEFINE skip == IF Len(rs) > HistoryLimit THEN Len(rs) - HistoryLimit ELSE 0
           h == [k \in 1..(Len(rs) - skip) |-> rs[rank[k + skip]]]
<1>0. Len(rs) \in Nat /\ DOMAIN rs = 1..Len(rs) /\ HistoryLimit \in Nat
  BY LenProperties, ChatConstants
<1>1. skip \in Nat /\ Len(rs) - skip \in Nat /\ skip <= Len(rs)
  BY <1>0
<1>2. rank \in [DOMAIN rs -> DOMAIN rs]
  BY DEF Ranks, Bijection, Injection
<1>3. read_messages(rs, rank) = h
  BY DEF read_messages
<1> HIDE DEF skip
<1>4. ASSUME NEW k \in 1..(Len(rs) - skip)
      PROVE  rank[k + skip] \in DOMAIN rs /\ rs[rank[k + skip]] \in Message
  <2>1. k + skip \in DOMAIN rs
    BY <1>0, <1>1
  <2>2. rank[k + skip] \in DOMAIN rs
    BY <1>2, <2>1
  <2> QED
    BY <1>0, <2>2
<1>5. h \in Seq(Message)
  <2> DEFINE e(k) == rs[rank[k + skip]]
             n == Len(rs) - skip
  <2>1. n \in Nat /\ \A k \in 1..n : e(k) \in Message
    BY <1>1, <1>4
  <2>2. h = [k \in 1..n |-> e(k)]
    OBVIOUS
  <2> HIDE DEF e, n
  <2>3. [k \in 1..n |-> e(k)] \in Seq(Message)
    BY <2>1
  <2> QED
    BY <2>2, <2>3
<1>6. \A i \in DOMAIN h : \E r \in DOMAIN rs : h[i] = rs[r]
  BY <1>4
<1> HIDE DEF h
<1> QED
  BY <1>3, <1>5, <1>6

LEMMA ChatRestarts ==
  ASSUME ChatInv, Restart
  PROVE  ChatInv'
<1>0. LinkType /\ rows \in Seq(Message)
  BY DEF ChatInv, StoreInv
<1>1. PICK rank \in Ranks(rows) : load_history(read_messages(rows, rank))
  BY DEF Restart
<1>2. /\ writes' = <<>> /\ rows' = rows /\ sends' = <<>> /\ inbox' = <<>>
      /\ sidebar' = EmptySidebar /\ count' = [count EXCEPT !.restarts = @ + 1]
  BY DEF Restart
<1> DEFINE h == read_messages(rows, rank)
<1>3. h \in Seq(Message) /\ \A i \in DOMAIN h : \E r \in DOMAIN rows : h[i] = rows[r]
  BY <1>0, HistoryFacts
<1>4. messages' = h
  BY <1>1 DEF load_history
<1>5. ViewInv'
  BY <1>1, <1>3, ViewLoads
<1> HIDE DEF h
<1>6. ASSUME NEW i \in DOMAIN messages' PROVE Kept(writes', rows', messages'[i])
  <2>1. PICK r \in DOMAIN rows : messages'[i] = rows[r]
    BY <1>3, <1>4, <1>6
  <2>2. Kept(<<>>, rows, rows[r])
    BY <1>0, KeptRow
  <2> QED
    BY <1>2, <2>1, <2>2
<1>7. writes' \in Seq(Writes) /\ sends' \in Seq([id: Nat, text: Texts]) /\ inbox' \in Seq(Signals)
  BY <1>2, Emptied, Zenon
<1>8. StoreInv'
  BY <1>0, <1>2, <1>6, <1>7 DEF StoreInv
<1>9. LinkType'
  BY <1>0, <1>2, <1>7, CountGrows DEF LinkType
<1>10. SideInv'
  <2>1. EmptySidebar \in Sidebars
    BY Emptied DEF EmptySidebar, Sidebars
  <2> QED
    BY <1>2, <2>1 DEF SideInv, SidebarAgrees, EmptySidebar
<1> QED
  BY <1>5, <1>8, <1>9, <1>10 DEF ChatInv

(* The chat in every reachable state.                                      *)
THEOREM ChatInvariant == Spec => []ChatInv
<1>1. ChatInv /\ [Next]_vars => ChatInv'
  <2> SUFFICES ASSUME ChatInv, [Next]_vars PROVE ChatInv'
    OBVIOUS
  <2>1. CASE UNCHANGED vars
    <3>1. LinkType /\ ViewInv /\ StoreInv /\ SideInv
      BY DEF ChatInv
    <3>2. UNCHANGED <<view, messages, writes, rows, refused, sidebar, current, jumped>>
      BY <2>1 DEF vars, view
    <3>3. ViewInv' /\ StoreInv' /\ SideInv'
      BY <3>1, <3>2, ViewSame, StoreSame, SideSame
    <3>4. LinkType'
      BY <2>1, <3>1 DEF vars, LinkType
    <3> QED
      BY <3>3, <3>4 DEF ChatInv
  <2>2. CASE Next
    BY <2>2, ChatLink, ChatDelivers, ChatUser, ChatFlushes, ChatWrites, ChatRestarts DEF Next
  <2> QED
    BY <2>1, <2>2
<1> QED
  BY <1>1, ChatInit, PTL DEF Spec

(* Every queue, message, row and highlight of the chat is well typed.      *)
THEOREM ChatIsTyped == Spec => []ChatType
<1>1. ChatInv => ChatType
  BY DEF ChatInv, LinkType, ViewInv, StoreInv, SideInv, ChatType
<1> QED
  BY <1>1, ChatInvariant, PTL

(* ChatView: the bubbles laid out are the messages of the open             *)
(* conversation, with the status that arrived last, whatever conversation  *)
(* was open when it arrived.                                               *)
THEOREM BubblesFollow == Spec => []BubblesAreThread
<1>1. ChatInv => BubblesAreThread
  <2> SUFFICES ASSUME ViewInv PROVE BubblesAreThread
    BY DEF ChatInv
  <2>1. Thread(messages, current) \in Seq(Message) /\ bubbles \in Seq(Message)
    BY ThreadType DEF ViewInv
  <2> QED
    BY <2>1, SuffixIs DEF ViewInv, BubblesAreThread
<1> QED
  BY <1>1, ChatInvariant, PTL

(* MonitorStore.save_message and update_message_status: once the writer    *)
(* has caught up, each message whose writes were taken is a row as the     *)
(* view shows it, also when rows, statuses and restarts cross.             *)
THEOREM RowsCatchUp == Spec => []RowsFollowView
<1>1. ChatInv => RowsFollowView
  <2> SUFFICES ASSUME StoreInv PROVE RowsFollowView
    BY DEF ChatInv
  <2> QED
    BY KeptDone DEF StoreInv, RowsFollowView
<1> QED
  BY <1>1, ChatInvariant, PTL

(* ChannelList: one row at most is highlighted in the two lists, and it is *)
(* the conversation that is open.                                          *)
THEOREM SidebarIsRight == Spec => []SidebarAgrees
<1>1. ChatInv => SidebarAgrees
  BY DEF ChatInv, SideInv
<1> QED
  BY <1>1, ChatInvariant, PTL
=============================================================================
