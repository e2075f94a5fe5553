----------------------------- MODULE MonitorPage -----------------------------
(***************************************************************************)
(* The Network Monitor page (ui/monitor/): the packet buffer and the packet *)
(* log, the filter bar, the five ranking panels with their pooled rows, the *)
(* breakdown, channel and hop panels, and the selection they share with the *)
(* map and the inspector.  All of it runs on the GUI thread: the ingestor's *)
(* signals arrive while the user clicks, and the panels are rebuilt only on *)
(* a two-second timer, so what is clicked may be older than what is known.  *)
(***************************************************************************)
EXTENDS Integers, Sequences, FiniteSets, SequencesExt

CONSTANTS
  Nodes,      \* node numbers
  None,
  Radios,     \* the nodes that may be the local radio
  Packets,    \* the packets the ingestor may announce
  Fixes,      \* the distances (from the local radio) a position may have
  Filters,    \* the settings of the filter bar the user may choose
  Panels,     \* the ranking panels, among heard, packets, nearby, signal, msgs
  Flippable,  \* the panels whose order the user may turn round
  BufMax,     \* maxlen of _recent_packets (10 000)
  LogMax,     \* _MAX_ROWS of the packet log (20 000)
  RowLimit,   \* rows a panel may show (50)
  BarLimit,   \* roles and hardware models a panel may show (10)
  MaxTime,    \* bound on time
  MaxPackets  \* bound on packets

ASSUME PageAssumption ==
  /\ IsFiniteSet(Nodes) /\ Radios \subseteq Nodes
  /\ None \notin Nodes \cup Int \cup STRING
  /\ Fixes \subseteq Nat
  /\ Panels \subseteq {"heard", "packets", "nearby", "signal", "msgs"}
  /\ Flippable \subseteq Panels
  /\ {BufMax, RowLimit, BarLimit} \subseteq Nat \ {0}

\* NetworkPacket, with what it tells about its sender and when it was observed.
Observed == [from : Nodes \cup {None}, port : STRING \cup {None}, pki : BOOLEAN,
             via : {"rf", "mqtt", None}, hops : Nat \cup {None}, start : Nat \cup {None},
             snr : Int \cup {None}, channel : Nat \cup {None},
             role : STRING \cup {None}, hw : STRING \cup {None}, at : Nat]
ASSUME PacketsAssumption == Packets \subseteq Observed

\* NodeSnapshot
Snapshots == [heard : Nat \cup {None}, direct : BOOLEAN,
              role : STRING \cup {None}, hw : STRING \cup {None}]
\* The roles the Infrastructure card counts.
InfraRoles == {"ROUTER", "ROUTER_LATE", "CLIENT_BASE", "ROUTER_CLIENT", "REPEATER"}
ASSUME NoneAssumption == None \notin Snapshots \cup InfraRoles

VARIABLES
  now,       \* wall time, in units of the age filter
  paused,    \* the header's pause button
  buffer,    \* _recent_packets: packets with the time they were observed
  taken,     \* _session_pkts
  logged,    \* rows of the packet log
  nodes,     \* _nodes: when each was last heard, if ever, whether its last packet
             \* was direct, and its role and hardware as far as it told them
  fix,       \* _positions, as the distance from the local radio
  pins,      \* nodes with a marker on the map
  local,     \* _local_node_num
  filter,    \* _active_filter
  flipped,   \* panels whose order is turned round
  rows,      \* per panel its pool of rows: node, highlight, visibility
  selected,  \* _selected_node_num
  mapSel,    \* the marker the map highlights
  inspected  \* the node the inspector shows

vars == <<now, paused, buffer, taken, logged, nodes, fix, pins, local, filter,
          flipped, rows, selected, mapSel, inspected>>

LastN(s, n) == IF Len(s) <= n THEN s ELSE SubSeq(s, Len(s) - n + 1, Len(s))
DefaultFilter == [age |-> 1, source |-> "All observed", type |-> "All"]
-----------------------------------------------------------------------------
(* Classification and filtering.                                           *)

\* Port numbers with a row of their own, as many as the properties tell apart.
Labelled == {"Text", "Position", "Node Info"}

\* packet_category: an encrypted packet has no known port, whatever it says.
PacketCategory(p) ==
  CASE p.pki                               -> "Encrypted/Undecoded"
    [] ~p.pki /\ p.port = None             -> "Unknown Port"
    [] ~p.pki /\ p.port \in Labelled       -> p.port
    [] OTHER                               -> "Other Known"

\* The rows of the breakdown panel, two of the classifier's answers in one.
BreakdownRowIgnoresPki(p) ==
  IF p.port = None THEN "Unknown/Encrypted"
  ELSE IF p.port \in Labelled THEN p.port ELSE "Other Known"
BreakdownRow(p) ==
  IF PacketCategory(p) \in {"Unknown Port", "Encrypted/Undecoded"}
  THEN "Unknown/Encrypted" ELSE PacketCategory(p)

BreakdownRows == Labelled \cup {"Other Known", "Unknown/Encrypted"}

\* The types the filter bar offers are the rows of the panel.
ASSUME FiltersAssumption ==
  \A f \in Filters : /\ f.age \in Nat \cup {None}
                     /\ f.type \in BreakdownRows \cup {"All"}

\* _matches_packet_type
MatchesType(p, type) ==
  IF type = "Unknown/Encrypted"
  THEN PacketCategory(p) \in {"Unknown Port", "Encrypted/Undecoded"}
  ELSE PacketCategory(p) = type

MatchesSource(p, source) ==
  CASE source = "RF only"           -> p.via = "rf"
    [] source = "MQTT-path"         -> p.via = "mqtt"
    [] source = "Unknown transport" -> p.via = None
    [] OTHER                        -> TRUE

\* The packets and nodes _refresh_rankings works on: age limits both, source and
\* type only packets.
InScope(f, p) ==
  /\ f.age # None => p.at >= now - f.age
  /\ MatchesSource(p, f.source)
  /\ f.type # "All" => MatchesType(p, f.type)

Scope(f) == {i \in DOMAIN buffer : InScope(f, buffer[i])}

ScopedNodes(f) ==
  {n \in Nodes : /\ nodes[n] # None
                 /\ f.age # None =>
                      nodes[n].heard # None /\ nodes[n].heard >= now - f.age}
-----------------------------------------------------------------------------
(* Statistics over the packets in scope.                                   *)

CountOf(f, P(_)) == Cardinality({i \in Scope(f) : P(buffer[i])})

\* Counter: how often x is a value of g.
Count(g, x) == Cardinality({i \in DOMAIN g : g[i] = x})

\* sorted with reverse=True, the values being those of v. The order of equals is
\* the dict's.
Sorted(S, v) ==
  CHOOSE s \in SetToSeqs(S) : \A i, j \in DOMAIN s : i < j => v[s[i]] >= v[s[j]]
First(s, limit) == SubSeq(s, 1, IF Len(s) <= limit THEN Len(s) ELSE limit)

\* is_direct_rf: no hop used, a trustworthy start, and not over MQTT.
IsDirect(p) == p.hops = 0 /\ p.start # None /\ p.start > 0 /\ p.via # "mqtt"

Senders(f) == [i \in Scope(f) |-> buffer[i].from]
PacketsOf(f, n) == Count(Senders(f), n)
MessagesOf(f, n) == CountOf(f, LAMBDA p : p.from = n /\ p.port = "Text")
DirectOf(f, n) ==
  {buffer[i].snr : i \in {j \in Scope(f) :
     buffer[j].from = n /\ IsDirect(buffer[j]) /\ buffer[j].snr # None}}
BestSnr(f, n) == CHOOSE s \in DirectOf(f, n) : \A t \in DirectOf(f, n) : t <= s

\* HopPanels.update_data and PercentHopsPanel.update_packets, ChannelsPanel and
\* PacketBreakdownPanel: the bar that counts a packet. The hop bars are numbers, 5
\* is "5+" and None is "?".
HopBar(p) == IF p.hops = None THEN None ELSE IF p.hops >= 5 THEN 5 ELSE p.hops
PercentBar(p) ==
  IF p.hops = None \/ p.start = None THEN "Unknown"
  ELSE IF p.start = 0 THEN "Unknown"
  ELSE CASE p.hops = 0               -> "0%"
         [] 0 < p.hops /\ 4 * p.hops < p.start -> "1-24%"
         [] 4 * p.hops >= p.start /\ 2 * p.hops < p.start -> "25-49%"
         [] 2 * p.hops >= p.start /\ 4 * p.hops < 3 * p.start -> "50-74%"
         [] 4 * p.hops >= 3 * p.start /\ p.hops < p.start -> "75-99%"
         [] OTHER                    -> "100%"

\* A packet that names no channel counts for the primary one.
ChannelBar(p) == IF p.channel = None THEN 0 ELSE p.channel
ChannelBars(f) == {ChannelBar(buffer[i]) : i \in Scope(f)}

Breakdown(f, row) == CountOf(f, LAMBDA p : BreakdownRow(p) = row)
HopBars == 0..5 \cup {None}
PercentBars == {"0%", "1-24%", "25-49%", "50-74%", "75-99%", "100%", "Unknown"}

\* RolesPanel and HardwarePanel: the bar of each node, and the bars that are shown,
\* the longest first (Counter.most_common).
RoleBar(n) == IF nodes[n].role = None THEN "UNKNOWN" ELSE nodes[n].role
HardwareBar(n) == IF nodes[n].hw = None THEN "Unknown" ELSE nodes[n].hw
Roles(f) == [n \in ScopedNodes(f) |-> RoleBar(n)]
Hardware(f) == [n \in ScopedNodes(f) |-> HardwareBar(n)]
MostCommon(g) == First(Sorted(Range(g), [x \in Range(g) |-> Count(g, x)]), BarLimit)

\* The cards over the nodes. Direct and Total look at all of them; without an age
\* filter Active means within the hour.
DirectNodes == {n \in Nodes : nodes[n] # None /\ nodes[n].direct}
ActiveNodes(f) ==
  {n \in ScopedNodes(f) :
     /\ nodes[n].heard # None
     /\ now - nodes[n].heard <= IF f.age = None THEN 1 ELSE f.age}
InfraNodes(f) == {n \in ScopedNodes(f) : nodes[n].role \in InfraRoles}

\* The nodes a panel ranks and the value it ranks them by.
Ranked(f, panel) ==
  CASE panel = "heard"   -> {n \in ScopedNodes(f) : nodes[n].heard # None}
    [] panel = "packets" -> {n \in Nodes : PacketsOf(f, n) > 0}
    [] panel = "msgs"    -> {n \in Nodes : MessagesOf(f, n) > 0}
    [] panel = "signal"  -> {n \in Nodes : DirectOf(f, n) # {}}
    [] panel = "nearby"  ->
         IF local = None THEN {}
         ELSE IF fix[local] = None THEN {}
         ELSE {n \in ScopedNodes(f) : fix[n] # None /\ n # local}

ValueOf(f, panel, n) ==
  CASE panel = "heard"   -> nodes[n].heard
    [] panel = "packets" -> PacketsOf(f, n)
    [] panel = "msgs"    -> MessagesOf(f, n)
    [] panel = "signal"  -> BestSnr(f, n)
    [] panel = "nearby"  -> fix[n]

\* Four panels show the largest first and the nearby panel the smallest; the
\* title turns the order round.
Descending(panel) == (panel = "nearby") = (panel \in flipped)

Items(f, panel) ==
  LET v == [n \in Ranked(f, panel) |->
              IF Descending(panel) THEN ValueOf(f, panel, n) ELSE -ValueOf(f, panel, n)]
  IN  First(Sorted(Ranked(f, panel), v), RowLimit)
-----------------------------------------------------------------------------
(* Panels and their rows.                                                  *)

\* RankingsPanel.update_rows: the pool grows but never shrinks, each row in use
\* gets a node and its highlight anew, the others are hidden and keep theirs.
UpdateRowsKeepsHighlight(f, panel) ==
  LET items == Items(f, panel)
      pool == rows[panel]
      n == IF Len(items) > Len(pool) THEN Len(items) ELSE Len(pool)
  IN  [i \in 1..n |->
         IF i <= Len(items)
         THEN [node |-> items[i], vis |-> TRUE,
               hi |-> IF i <= Len(pool) THEN pool[i].hi ELSE items[i] = selected]
         ELSE [pool[i] EXCEPT !.vis = FALSE]]
UpdateRows(f, panel) ==
  LET items == Items(f, panel)
      pool == rows[panel]
      n == IF Len(items) > Len(pool) THEN Len(items) ELSE Len(pool)
  IN  [i \in 1..n |->
         IF i <= Len(items)
         THEN [node |-> items[i], hi |-> items[i] = selected, vis |-> TRUE]
         ELSE [pool[i] EXCEPT !.vis = FALSE]]

\* _set_selected_node: the map and every row of every panel.
SetSelected(n) ==
  /\ selected' = n
  /\ mapSel' = n
  /\ rows' = [p \in Panels |-> [i \in DOMAIN rows[p] |->
                [rows[p][i] EXCEPT !.hi = rows[p][i].node = n]]]

\* NodeInspector.show_node
ShowNode(n) == inspected' = n

\* _on_ranking_node_selected: the inspector follows only to a node it knows.
Select(n) ==
  /\ IF nodes[n] # None THEN ShowNode(n) ELSE UNCHANGED inspected
  /\ SetSelected(n)
-----------------------------------------------------------------------------
Init ==
  /\ now = 0 /\ paused = FALSE
  /\ buffer = <<>> /\ taken = 0 /\ logged = 0
  /\ nodes = [n \in Nodes |-> None]
  /\ fix = [n \in Nodes |-> None]
  /\ pins = {} /\ local = None
  /\ filter = DefaultFilter /\ flipped = {}
  /\ rows = [p \in Panels |-> <<>>]
  /\ selected = None /\ mapSel = None /\ inspected = None

\* One packet through ingest_raw's signals: node_updated (never paused), then
\* packet_ingested. A node unheard in this session may be seeded the same way.
Unheard == [heard |-> None, direct |-> FALSE, role |-> None, hw |-> None]

OnNodeUpdated(p) ==
  nodes' = IF p.from = None THEN nodes
           ELSE [nodes EXCEPT ![p.from] =
                   LET old == IF @ = None THEN Unheard ELSE @
                   IN  [heard |-> now, direct |-> IsDirect(p),
                        role |-> IF p.role # None THEN p.role ELSE old.role,
                        hw |-> IF p.hw # None THEN p.hw ELSE old.hw]]

OnPacketIngested(p) ==
  IF paused THEN UNCHANGED <<buffer, taken, logged>>
  ELSE /\ taken' = taken + 1
       /\ buffer' = LastN(Append(buffer, [p EXCEPT !.at = now]), BufMax)
       /\ logged' = IF logged >= LogMax THEN LogMax ELSE logged + 1

PacketArrives(p) ==
  /\ taken < MaxPackets
  /\ OnNodeUpdated(p)
  /\ OnPacketIngested(p)
  /\ UNCHANGED <<now, paused, fix, pins, local, filter, flipped, rows, selected,
                 mapSel, inspected>>

\* on_position_updated: it follows the node_updated of the same packet or seed.
PositionArrives(n, d) ==
  /\ nodes' = [nodes EXCEPT ![n] = IF @ = None THEN Unheard ELSE @]
  /\ fix' = [fix EXCEPT ![n] = d]
  /\ pins' = pins \cup {n}
  /\ UNCHANGED <<now, paused, buffer, taken, logged, local, filter, flipped, rows,
                 selected, mapSel, inspected>>

\* MainWindow._on_connected and _on_disconnected, as far as this page sees them:
\* a lost connection clears the map and the selection, not the positions.
Connected(n) ==
  /\ local = None /\ local' = n
  /\ UNCHANGED <<now, paused, buffer, taken, logged, nodes, fix, pins, filter,
                 flipped, rows, selected, mapSel, inspected>>

Disconnected ==
  /\ local' = None
  /\ pins' = {}
  /\ SetSelected(None)
  /\ UNCHANGED <<now, paused, buffer, taken, logged, nodes, fix, filter, flipped,
                 inspected>>

\* _refresh_rankings, on its timer.
Refresh ==
  /\ rows' = [p \in Panels |-> UpdateRows(filter, p)]
  /\ UNCHANGED <<now, paused, buffer, taken, logged, nodes, fix, pins, local,
                 filter, flipped, selected, mapSel, inspected>>

\* _on_filter_changed: the panels are rebuilt at once, under the new filter.
\* (The reset button blocks the combos' signals and comes here once.)
FilterChanged(f) ==
  /\ filter # f /\ filter' = f
  /\ rows' = [p \in Panels |-> UpdateRows(f, p)]
  /\ UNCHANGED <<now, paused, buffer, taken, logged, nodes, fix, pins, local,
                 flipped, selected, mapSel, inspected>>

\* A title is clicked: the order changes at the next refresh.
Flip(p) ==
  /\ flipped' = IF p \in flipped THEN flipped \ {p} ELSE flipped \cup {p}
  /\ UNCHANGED <<now, paused, buffer, taken, logged, nodes, fix, pins, local, filter,
                 rows, selected, mapSel, inspected>>

\* A visible row is clicked: it selects the node the row shows.
ClickRow(p, i) ==
  /\ rows[p][i].vis
  /\ Select(rows[p][i].node)
  /\ UNCHANGED <<now, paused, buffer, taken, logged, nodes, fix, pins, local,
                 filter, flipped>>

\* A marker is clicked, or another page asks to show a node: focus_node_on_map
\* moves the map only to a node with a position, and selects in any case.
ShowOnMap(n) ==
  /\ nodes[n] # None
  /\ Select(n)
  /\ UNCHANGED <<now, paused, buffer, taken, logged, nodes, fix, pins, local,
                 filter, flipped>>

TogglePause ==
  /\ paused' = ~paused
  /\ UNCHANGED <<now, buffer, taken, logged, nodes, fix, pins, local, filter,
                 flipped, rows, selected, mapSel, inspected>>

ClearLog ==
  /\ logged # 0 /\ logged' = 0
  /\ UNCHANGED <<now, paused, buffer, taken, nodes, fix, pins, local, filter,
                 flipped, rows, selected, mapSel, inspected>>

Tick ==
  /\ now < MaxTime /\ now' = now + 1
  /\ UNCHANGED <<paused, buffer, taken, logged, nodes, fix, pins, local, filter,
                 flipped, rows, selected, mapSel, inspected>>

Next ==
  \/ \E p \in Packets : PacketArrives(p)
  \/ \E n \in Nodes, d \in Fixes : PositionArrives(n, d)
  \/ \E n \in Radios : Connected(n)
  \/ Disconnected
  \/ Refresh
  \/ \E f \in Filters : FilterChanged(f)
  \/ \E p \in Flippable : Flip(p)
  \/ \E p \in Panels : \E i \in DOMAIN rows[p] : ClickRow(p, i)
  \/ \E n \in Nodes : ShowOnMap(n)
  \/ TogglePause
  \/ ClearLog
  \/ Tick

Spec == Init /\ [][Next]_vars
-----------------------------------------------------------------------------
(* Properties                                                              *)

\* The bars of a panel, added up.
Total(g, bars) == MapThenSumSet(LAMBDA x : Count(g, x), bars)

\* Every statistic is about the same packets and nodes. The bars of the breakdown,
\* of the hops used, of their percentages and of the channels each add up to the
\* packets in scope, those of the roles and the hardware to the nodes in scope, the
\* packets ranking to those that name a sender; the Active card counts the nodes of
\* the Last Heard ranking, the Direct card only nodes that were heard, the
\* Infrastructure card what the role panel shows for it; and under a type filter
\* the breakdown shows that type alone: the filter's categories and the panel's
\* never drift apart, also for encrypted packets that carry a port number.
PanelsAgree ==
  LET total == Cardinality(Scope(filter))
      scoped == Cardinality(ScopedNodes(filter))
      Bars(bar(_)) == [i \in Scope(filter) |-> bar(buffer[i])]
      NodeSum(g) == Total(g, Range(MostCommon(g)))
  IN  /\ Total(Bars(BreakdownRow), BreakdownRows) = total
      /\ Total(Bars(HopBar), HopBars) = total
      /\ Total(Bars(PercentBar), PercentBars) = total
      /\ Total(Bars(ChannelBar), ChannelBars(filter)) = total
      /\ Len(MostCommon(Roles(filter))) < BarLimit => NodeSum(Roles(filter)) = scoped
      /\ Len(MostCommon(Hardware(filter))) < BarLimit => NodeSum(Hardware(filter)) = scoped
      /\ filter.age # None => ActiveNodes(filter) = Ranked(filter, "heard")
      /\ \A n \in DirectNodes : nodes[n].heard # None
      /\ Cardinality(InfraNodes(filter)) =
           Total(Roles(filter), InfraRoles)
      /\ Total(Senders(filter), Ranked(filter, "packets")) + Count(Senders(filter), None) = total
      /\ filter.type # "All" => Breakdown(filter, filter.type) = total

\* One node is selected everywhere or none is: among the visible rows of all
\* panels exactly those of the selected node are highlighted, although rows are
\* reused for other nodes at every refresh, the map highlights the same node,
\* and the inspector shows it.
OneSelection ==
  /\ \A p \in Panels : \A i \in DOMAIN rows[p] :
       rows[p][i].vis => (rows[p][i].hi <=> rows[p][i].node = selected)
  /\ mapSel = selected
  /\ selected # None => inspected = selected
=============================================================================
