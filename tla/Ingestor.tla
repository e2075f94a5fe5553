------------------------------ MODULE Ingestor ------------------------------
(***************************************************************************)
(* PacketIngestor (services/packet_ingestor.py) with the part of           *)
(* MonitorStore it feeds: the node rows that outlive the process.          *)
(*                                                                         *)
(* Everything of the ingestor runs on the GUI thread, one handler at a     *)
(* time: ingest_raw for every packet dict the radio's thread queues,       *)
(* seed_from_nodedb after a connection, seed_from_store once at start-up.  *)
(* The database writer drains its queue on a thread of its own, the        *)
(* process may die between any two steps, and the wall clock (unlike the   *)
(* monotonic one that times the duplicate window) may be set back.         *)
(***************************************************************************)
EXTENDS Naturals, Sequences, FiniteSets

CONSTANTS
  Nodes,        \* node numbers
  None,         \* Python's None and SQL's NULL
  RawPackets,   \* the packet dicts the radio may deliver
  NodeDBs,      \* the node lists a radio may hold: sequences of dicts
  TTL,          \* _DEDUP_TTL_S
  Bucket,       \* width of the fallback fingerprint's time bucket
  DedupLimit,   \* size above which the duplicate table is cut (5000) ...
  DedupDrop,    \* ... and the number of its oldest entries cut (2500)
  QueueMax,     \* bound of the store's write queue
  MaxTime,      \* bound on the monotonic clock
  MaxEvents,    \* bound on new packets and NodeDB lists together
  MaxStarts     \* bound on process starts

ASSUME IngestorAssumption ==
  /\ None \notin Nodes
  /\ TTL \in Nat \ {0} /\ Bucket \in Nat \ {0}
  /\ DedupDrop \in 1..DedupLimit /\ DedupLimit \in Nat
  /\ QueueMax \in Nat
  /\ MaxTime \in Nat /\ MaxEvents \in Nat /\ MaxStarts \in Nat

\* What the radio library may hand over: a sender it knows or none, a transport
\* it names or not, and lists of node entries, one for each node.
ASSUME InputAssumption ==
  /\ \A p \in RawPackets : /\ p.from \in Nodes \cup {None}
                            /\ p.via \in {None, "mqtt", "rf"}
  /\ \A list \in NodeDBs :
       /\ Len(list) \in Nat /\ DOMAIN list = 1..Len(list)
       /\ \A i \in DOMAIN list : /\ list[i].num \in Nodes
                                  /\ list[i].lastHeard \in Nat \cup {None}
       /\ \A i, j \in DOMAIN list : list[i].num = list[j].num => i = j

VARIABLES
  now,      \* time.monotonic()
  wall,     \* datetime.now(), in the same unit
  running,  \* the process is up
  starts,   \* process starts so far (bounds the model)
  events,   \* packets and lists taken so far (bounds the model)
  dedup,    \* _dedup: an OrderedDict as a sequence of [key, expiry]
  nodes,    \* _nodes: the in-memory snapshots, None for an unknown node
  queue,    \* the store's write queue
  rows,     \* the nodes table
  log,      \* history: keys recorded this session, with their times
  ignored,  \* history: the key of the packet the last step ignored, or None
  heard,    \* history: packets of each kind ever counted, per node
  base,     \* history: how many of them the rows did not hold at start-up
  seenObs,  \* history: every (node, wall time, observation) of a packet
  stale,    \* history: nodes whose latest snapshot the full queue dropped
  blind     \* history: this session could not read the rows there were

vars == <<now, wall, running, starts, events, dedup, nodes, queue, rows, log, ignored,
          heard, base, seenObs, stale, blind>>

Counters == {"packet", "text", "position", "telemetry", "mqtt", "rf"}
Zero == [k \in Counters |-> 0]
NoObs == [snr |-> None, hops |-> None, hopStart |-> None, via |-> None]
MaxOf(a, b) == IF a >= b THEN a ELSE b
OrElse(a, b) == IF a # None THEN a ELSE b
-----------------------------------------------------------------------------
(* Normalisation: what a raw dict becomes.                                 *)

\* _coerce_portnum: the library delivers enum names, tests and old versions
\* numbers, both of them in the same field.
CoercePortnum(raw) ==
  CASE raw \in {"TEXT_MESSAGE_APP", "1"} -> "text"
    [] raw \in {"POSITION_APP", "3"}     -> "position"
    [] raw \in {"TELEMETRY_APP", "67"}   -> "telemetry"
    [] raw = "NODEINFO_APP"              -> "nodeinfo"
    [] OTHER                             -> None

\* compute_hops_used: a hop start of 0 is old firmware, not a direct contact.
ComputeHopsUsed(start, limit) ==
  IF start = None \/ limit = None \/ start = 0 THEN None
  ELSE IF limit > start THEN None ELSE start - limit

\* _dedup_key: sender and id when both are known (an id of 0 counts), else a
\* fingerprint that changes with the five-second bucket, or None when the payload
\* cannot be hashed.
DedupKey(p) ==
  IF p.from # None /\ p.id # None
  THEN [from |-> p.from, id |-> p.id, port |-> CoercePortnum(p.portnum),
        channel |-> p.channel, body |-> None, bucket |-> None]
  ELSE IF p.body = None THEN None
  ELSE [from |-> p.from, id |-> None, port |-> CoercePortnum(p.portnum),
        channel |-> p.channel, body |-> p.body, bucket |-> now \div Bucket]

\* _normalize: the observation a NetworkPacket carries.
Observation(p) ==
  [snr |-> p.snr, hops |-> ComputeHopsUsed(p.hopStart, p.hopLimit),
   hopStart |-> p.hopStart, via |-> p.via]
-----------------------------------------------------------------------------
(* The duplicate table.                                                    *)

\* _prune_dedup: expiries ascend, so it stops at the first one still valid.
PruneDedup(d) ==
  LET live == {i \in DOMAIN d : d[i].expiry > now}
  IN  IF live = {} THEN <<>>
      ELSE SubSeq(d, CHOOSE i \in live : \A j \in live : i <= j, Len(d))

\* The table after a new key: cut by its oldest entries when it is too large.
DropNewest(d, key) ==
  LET e == Append(d, [key |-> key, expiry |-> now + TTL])
  IN  IF Len(e) > DedupLimit THEN SubSeq(e, 1, Len(e) - DedupDrop) ELSE e

Remember(d, key) ==
  LET e == Append(d, [key |-> key, expiry |-> now + TTL])
  IN  IF Len(e) > DedupLimit THEN SubSeq(e, DedupDrop + 1, Len(e)) ELSE e

IsDuplicate(d, key) == \E i \in DOMAIN d : d[i].key = key
-----------------------------------------------------------------------------
(* Node snapshots.                                                         *)

Names == {p.user : p \in RawPackets} \cup {None}
         \cup UNION {{list[i].name : i \in DOMAIN list} : list \in NodeDBs}
Ids == {p.fromId : p \in RawPackets} \cup {p.userId : p \in RawPackets} \cup {None}
       \cup UNION {{list[i].id : i \in DOMAIN list} : list \in NodeDBs}
Observations == {Observation(p) : p \in RawPackets} \cup {NoObs}

\* NodeSnapshot, and a row of the nodes table.
Snapshots == [id : Ids, name : Names, heard : Nat \cup {None}, cnt : [Counters -> Nat],
              last : Observations]

ASSUME NoneAssumption == None \notin Nat \cup Counters /\ None \notin Snapshots

NewSnapshot == [id |-> None, name |-> None, heard |-> None, cnt |-> Zero, last |-> NoObs]

\* The counters one packet raises: the transport is three-valued, and a packet
\* that does not say how it came is neither MQTT nor confirmed RF.
UnknownIsRF(p, k) ==
  \/ k = "packet" \/ k = CoercePortnum(p.portnum)
  \/ k = (IF p.via = None THEN "rf" ELSE p.via)
Counts(p, k) ==
  \/ k = "packet"
  \/ k = CoercePortnum(p.portnum)
  \/ k = p.via

Raise(cnt, p) == [k \in Counters |-> IF Counts(p, k) THEN cnt[k] + 1 ELSE cnt[k]]

\* History: the kinds a packet really is of, for the properties to compare with.
IsOf(p, k) ==
  CASE k = "packet"       -> TRUE
    [] k \in {"mqtt", "rf"} -> p.via = k
    [] OTHER              -> CoercePortnum(p.portnum) = k

\* _update_node, under the lock: one snapshot is changed and copied.
UpdateNode(p) ==
  LET old == IF nodes[p.from] = None THEN [NewSnapshot EXCEPT !.id = p.fromId]
             ELSE nodes[p.from]
  IN  [id    |-> IF p.user = None THEN old.id
                 ELSE OrElse(old.id, OrElse(p.userId, p.fromId)),
       name  |-> OrElse(p.user, old.name),
       heard |-> wall,
       cnt   |-> Raise(old.cnt, p),
       last  |-> Observation(p)]

\* _merge_telemetry_into_node: the reading itself is not persisted, but the
\* snapshot is written and announced once more.
NodeWrite(n, snap) == [kind |-> "node", n |-> n, snap |-> snap]
Other(kind) == [kind |-> kind, n |-> None, snap |-> None]

\* The writes one packet causes, in the order of ingest_raw: the node, then what
\* the port adds, then the packet. An anonymous position or telemetry packet and
\* one without a usable payload add nothing.
PositionWrites(p) ==
  IF p.from # None /\ p.payload = "valid" THEN <<Other("position")>> ELSE <<>>

TelemetryWrites(p, snap) ==
  IF p.from # None /\ p.payload # "absent"
  THEN <<Other("telemetry"), NodeWrite(p.from, snap)>> ELSE <<>>

WritesOf(p, snap) ==
  LET port == CoercePortnum(p.portnum)
  IN  (IF p.from = None THEN <<>> ELSE <<NodeWrite(p.from, snap)>>)
      \o (CASE port = "position"  -> PositionWrites(p)
            [] port = "telemetry" -> TelemetryWrites(p, snap)
            [] OTHER -> <<>>)
      \o <<Other("packet")>>

\* MonitorStore._enqueue, once per write: what finds the queue full is dropped.
Accepted(ws) == SubSeq(ws, 1, IF Len(ws) <= QueueMax - Len(queue) THEN Len(ws)
                              ELSE QueueMax - Len(queue))

NodesOf(ws) == {ws[i].n : i \in {j \in DOMAIN ws : ws[j].kind = "node"}}

Enqueue(ws) ==
  LET in == Accepted(ws)
      out == SubSeq(ws, Len(in) + 1, Len(ws))
  IN  /\ queue' = queue \o in
      /\ stale' = (stale \ NodesOf(in)) \cup (NodesOf(out) \ NodesOf(in))
-----------------------------------------------------------------------------
Init ==
  /\ now = 0 /\ wall = 1
  /\ running = FALSE /\ starts = 0 /\ events = 0
  /\ dedup = <<>> /\ queue = <<>>
  /\ nodes = [n \in Nodes |-> None]
  /\ rows = [n \in Nodes |-> None]
  /\ log = <<>> /\ ignored = None
  /\ heard = [n \in Nodes |-> Zero]
  /\ base = [n \in Nodes |-> Zero]
  /\ seenObs = {} /\ stale = {} /\ blind = FALSE

\* seed_from_store for one row into a process that has heard nothing yet: the
\* counters are maxima, everything else fills what is missing.
SeedFromRow(row) ==
  IF row = None THEN None
  ELSE [id |-> row.id, name |-> row.name, heard |-> row.heard, last |-> row.last,
        cnt |-> [k \in Counters |-> MaxOf(0, row.cnt[k])]]

RowCount(n, k) == IF rows[n] = None THEN 0 ELSE rows[n].cnt[k]

\* MainWindow.__init__: read_nodes, then seed_from_store, before any packet.
\* read_nodes answers an error with an empty list; the session is then blind to
\* the rows, which it does not know to be there.
Start(readable) ==
  /\ ~running /\ starts < MaxStarts
  /\ running' = TRUE /\ starts' = starts + 1
  /\ nodes' = [n \in Nodes |-> IF readable THEN SeedFromRow(rows[n]) ELSE None]
  /\ base' = [n \in Nodes |-> [k \in Counters |->
                heard[n][k] - (IF readable THEN RowCount(n, k) ELSE 0)]]
  /\ dedup' = <<>> /\ log' = <<>> /\ ignored' = None /\ stale' = {}
  /\ blind' = (~readable /\ \E n \in Nodes : rows[n] # None)
  /\ UNCHANGED <<now, wall, events, queue, rows, heard, seenObs>>

\* ingest_raw for a packet the duplicate table knows.
IngestDuplicate(p) ==
  LET d == PruneDedup(dedup)
      key == DedupKey(p)
  IN  /\ running
      /\ key # None /\ IsDuplicate(d, key)
      /\ dedup' = d
      /\ ignored' = key
      /\ UNCHANGED <<now, wall, running, starts, events, nodes, queue, rows, log, heard,
                     base, seenObs, stale, blind>>

\* ingest_raw for a packet it does not know, or that has no key. The key is
\* recorded before the dict is normalised, so one that cannot be normalised
\* leaves only its key.
IngestNew(p) ==
  LET d == PruneDedup(dedup)
      key == DedupKey(p)
      snap == UpdateNode(p)
  IN  /\ running /\ events < MaxEvents /\ events' = events + 1
      /\ IF key = None
         THEN UNCHANGED <<dedup, log>>
         ELSE /\ ~IsDuplicate(d, key)
              /\ dedup' = Remember(d, key)
              /\ log' = Append(log, [key |-> key, at |-> now])
      /\ ignored' = None
      /\ IF ~p.ok
         THEN UNCHANGED <<nodes, queue, stale, heard, seenObs>>
         ELSE /\ IF p.from = None
                 THEN UNCHANGED <<nodes, heard, seenObs>>
                 ELSE /\ nodes' = [nodes EXCEPT ![p.from] = snap]
                      /\ heard' = [heard EXCEPT ![p.from] =
                           [k \in Counters |-> IF IsOf(p, k) THEN @[k] + 1 ELSE @[k]]]
                      /\ seenObs' = seenObs \cup
                           {[n |-> p.from, at |-> wall, obs |-> snap.last]}
              /\ Enqueue(WritesOf(p, snap))
      /\ UNCHANGED <<now, wall, running, starts, rows, base, blind>>

\* seed_from_nodedb for one entry of the radio's list: its names overwrite, the
\* radio's last-heard time is taken only by a node that has none.
SeedFromEntry(old, e) ==
  LET node == IF old = None THEN NewSnapshot ELSE old
  IN  [node EXCEPT !.id    = OrElse(e.id, @),
                   !.name  = OrElse(e.name, @),
                   !.heard = OrElse(@, e.lastHeard)]

EntryWrites(e) ==
  <<NodeWrite(e.num, SeedFromEntry(nodes[e.num], e))>>
  \o (IF e.fix THEN <<Other("position")>> ELSE <<>>)

\* The writes of a list, entry by entry.
NodeDBWrites(list) ==
  LET ws[i \in 0..Len(list)] ==
        IF i = 0 THEN <<>> ELSE ws[i - 1] \o EntryWrites(list[i])
  IN  ws[Len(list)]

\* seed_from_nodedb on a list. It runs to its end on the GUI thread.
SeedFromNodeDB(list) ==
  /\ running /\ events < MaxEvents /\ events' = events + 1
  /\ ignored' = None
  /\ nodes' = [n \in Nodes |->
                 LET mine == {i \in DOMAIN list : list[i].num = n}
                 IN  IF mine = {} THEN nodes[n]
                     ELSE SeedFromEntry(nodes[n], list[CHOOSE i \in mine : TRUE])]
  /\ Enqueue(NodeDBWrites(list))
  /\ UNCHANGED <<now, wall, running, starts, dedup, rows, log, heard,
                 base, seenObs, blind>>

\* MonitorStore._write_node: an upsert. Counters and last_heard are maxima that
\* survive a NULL on one side, names keep what a NULL would erase, the observation
\* moves only together with last_heard, and the id is overwritten, by a NULL too.
Newer(row, snap) ==
  snap.heard # None /\ (IF row.heard = None THEN TRUE ELSE snap.heard >= row.heard)

UpsertOverwrites(row, snap) ==
  IF row = None THEN snap
  ELSE [snap EXCEPT !.name = OrElse(@, row.name)]
UpsertMixes(row, snap) ==
  IF row = None THEN snap
  ELSE [row EXCEPT !.id = snap.id, !.name = OrElse(snap.name, @),
                   !.heard = IF Newer(row, snap) THEN snap.heard ELSE @,
                   !.cnt = [k \in Counters |-> MaxOf(snap.cnt[k], @[k])],
                   !.last = snap.last]
Upsert(row, snap) ==
  IF row = None THEN snap
  ELSE [id    |-> snap.id,
        name  |-> OrElse(snap.name, row.name),
        heard |-> IF Newer(row, snap) THEN snap.heard ELSE row.heard,
        cnt   |-> [k \in Counters |-> MaxOf(snap.cnt[k], row.cnt[k])],
        last  |-> IF Newer(row, snap) THEN snap.last ELSE row.last]

\* The writer takes one entry. (Its batches, retries and drops are the subject
\* of MonitorStore.tla; inserts into the other tables touch no node row.)
WriteOne ==
  /\ ignored' = None
  /\ queue # <<>>
  /\ queue' = Tail(queue)
  /\ LET w == Head(queue)
     IN  rows' = IF w.kind = "node"
                 THEN [rows EXCEPT ![w.n] = Upsert(@, w.snap)] ELSE rows
  /\ UNCHANGED <<now, wall, running, starts, events, dedup, nodes, log, heard,
                 base, seenObs, stale, blind>>

\* The process dies: memory and whatever the writer has not committed are gone.
Crash ==
  /\ running /\ starts < MaxStarts
  /\ running' = FALSE
  /\ nodes' = [n \in Nodes |-> None]
  /\ dedup' = <<>> /\ queue' = <<>> /\ log' = <<>> /\ ignored' = None
  /\ stale' = {}
  /\ UNCHANGED <<now, wall, starts, events, rows, heard, base, seenObs, blind>>

Tick ==
  /\ ignored' = None
  /\ now < MaxTime
  /\ now' = now + 1
  /\ wall' = wall + 1
  /\ UNCHANGED <<running, starts, events, dedup, nodes, queue, rows, log, heard,
                 base, seenObs, stale, blind>>

\* The wall clock is set back (a time synchronisation, or the user), once.
SetClockBack ==
  /\ ignored' = None
  /\ wall = now + 1 /\ wall > 1
  /\ wall' = wall - 1
  /\ UNCHANGED <<now, running, starts, events, dedup, nodes, queue, rows, log,
                 heard, base, seenObs, stale, blind>>

Next ==
  \/ \E readable \in BOOLEAN : Start(readable)
  \/ \E p \in RawPackets : IngestDuplicate(p)
  \/ \E p \in RawPackets : IngestNew(p)
  \/ \E list \in NodeDBs : SeedFromNodeDB(list)
  \/ WriteOne
  \/ Crash
  \/ Tick
  \/ SetClockBack

Spec == Init /\ [][Next]_vars
-----------------------------------------------------------------------------
(* Properties                                                              *)

\* A packet is counted once per window and never swallowed without reason. Of two
\* packets recorded under one key, the second came a full TTL later or after so
\* many others that the size limit cut the first; and a packet that was ignored
\* repeats one recorded less than a TTL ago, and has a key. (_is_duplicate: the size limit
\* always leaves the newest DedupLimit + 1 - DedupDrop keys.)
CountedOnce ==
  /\ \A i, j \in DOMAIN log :
       i < j /\ log[i].key = log[j].key =>
         \/ log[j].at >= log[i].at + TTL
         \/ j - i > DedupLimit + 1 - DedupDrop
  /\ ignored # None =>
       \E i \in DOMAIN log : log[i].key = ignored /\ now < log[i].at + TTL

\* A snapshot's counters are what its rows held when the process started plus
\* every packet counted since: nothing is counted twice across a restart, no
\* counter is left behind by the seed, a packet of unknown transport is never
\* confirmed RF. And the row agrees with the snapshot once no write is pending
\* or dropped, unless the session started blind.
ExactCounters ==
  running =>
    \A n \in Nodes : nodes[n] # None =>
      /\ \A k \in Counters : nodes[n].cnt[k] + base[n][k] = heard[n][k]
      /\ n \notin NodesOf(queue) \cup stale =>
           /\ rows[n] # None
           /\ \A k \in Counters : rows[n].cnt[k] >= nodes[n].cnt[k]

\* The last_* fields of a row describe one packet, the one heard at the row's
\* last_heard, also when the wall clock was set back between two packets and
\* when the radio's NodeDB supplied the time.
RowIsOneObservation ==
  \A n \in Nodes :
    rows[n] # None /\ rows[n].last # NoObs =>
      [n |-> n, at |-> rows[n].heard, obs |-> rows[n].last] \in seenObs

\* What the database remembers of a node never shrinks: no counter, time or
\* name is lost by any later write, whatever crashes, blind starts and dropped
\* writes came between. The id is overwritten and yet kept, because memory always
\* knows it by then; only a session that could not read the rows loses it.
RowsGrow ==
  [][\A n \in Nodes : rows[n] # None =>
       /\ rows'[n] # None
       /\ \A k \in Counters : rows'[n].cnt[k] >= rows[n].cnt[k]
       /\ rows[n].heard # None => rows'[n].heard # None /\ rows'[n].heard >= rows[n].heard
       /\ rows[n].name # None => rows'[n].name # None
       /\ rows[n].id # None => rows'[n].id # None \/ blind]_rows
=============================================================================
