-------------------------------- MODULE Chat --------------------------------
(***************************************************************************)
(* Chat: the sidebar (channel and direct-message lists), the chat view and *)
(* its composer, the window's handlers between them, the worker's send     *)
(* slots and text callback, and the messages table.                        *)
(*                                                                         *)
(* Three threads meet here.  The window owns the sidebar, the view and the *)
(* composer; the worker owns the radio and runs the sends the window has   *)
(* queued; the store's writer applies the queued rows.  Signals to the     *)
(* window travel in order through its event queue.  What the link and the  *)
(* writer do beyond what chat needs is in Connection and MonitorStore.     *)
(*                                                                         *)
(* A message is a record; its text is abstracted to its length in bytes    *)
(* and the white space around it, which is all that the checks look at.    *)
(***************************************************************************)
EXTENDS Naturals, Sequences, FiniteSets, SequencesExt

CONSTANTS
    Channels,       \* channel indexes
    ChannelLists,   \* the lists of active channels a radio may report
    Nodes,          \* the nodes the ingestor knows
    Local,          \* the connected radio's own node number
    None,           \* Python's None
    MaxBytes,       \* MAX_MESSAGE_BYTES
    HistoryLimit,   \* read_messages' limit
    QueueLimit,     \* the store's queue size
    MaxMessages,    \* bound: messages created, sent or received
    MaxConnects,    \* bound: connections made
    MaxRestarts,    \* bound: restarts of the program
    MaxQueue        \* bound: signals waiting for the window

ASSUME ChatConstants ==
    /\ Local \in Nodes /\ None \notin Nodes \cup Channels
    /\ 0 \in Channels /\ ChannelLists \subseteq Seq(Channels)
    /\ None \notin ({"channel"} \X Channels) \cup ({"dm"} \X Nodes)
    /\ {MaxBytes, HistoryLimit, QueueLimit} \subseteq Nat \ {0}

VARIABLES
    up,             \* worker: state CONNECTED with an interface
    sends,          \* send calls queued for the worker
    inbox,          \* signals queued for the window
    connected,      \* window: _is_connected
    canSend,        \* composer enabled
    sidebar,        \* channel list: its rows and the two highlighted ones
    current,        \* chat view: _current_key
    messages,       \* chat view: _messages_by_key, in order of arrival
    bubbles,        \* chat view: the messages laid out
    notice,         \* the "no active channels" text replaced the bubbles
    writes, rows,   \* store: queued writes, rows of the messages table
    count,          \* messages created, connections made, restarts
    jumped,         \* history: the thread was last opened from outside the sidebar
    loaded, refused \* history: ids read at start-up; ids a full queue refused

vars == <<up, sends, inbox, connected, canSend, sidebar, current,
          messages, bubbles, notice, writes, rows, count, jumped, loaded, refused>>

link == <<up, sends, inbox>>
view == <<current, messages, bubbles, notice>>
store == <<writes, rows, refused>>
-----------------------------------------------------------------------------
(* Messages and conversations *)

\* A raw text: bytes of its body, bytes of white space around it.
Texts == [body: 0..(MaxBytes + 1), pad: 0..1]

normalize_outgoing_text(t) == [t EXCEPT !.pad = 0]
Bytes(t) == t.body + t.pad

KeyFor(m) == IF m.dm # None THEN <<"dm", m.dm>> ELSE <<"channel", m.chan>>

\* The messages of one conversation, in order of arrival.
Thread(ms, key) ==
    LET pick[n \in 0..Len(ms)] ==
          IF n = 0 THEN <<>>
          ELSE IF KeyFor(ms[n]) = key THEN Append(pick[n - 1], ms[n]) ELSE pick[n - 1]
    IN  pick[Len(ms)]

\* A status update keeps a packet id it does not bring.
Stamped(m, packet, status) ==
    [m EXCEPT !.status = status, !.packet = IF packet = None THEN @ ELSE packet]

SettleForgetsHistory(ms, id, packet, status) == ms

\* update_message_status: the first message with that local id.
Settle(ms, id, packet, status) ==
    [i \in DOMAIN ms |-> IF ms[i].id = id THEN Stamped(ms[i], packet, status) ELSE ms[i]]
-----------------------------------------------------------------------------
(* The store, as chat sees it: writes in order, refused when the queue is  *)
(* full, lost with the process.                                            *)

Enqueue(id, w) ==
    /\ IF Len(writes) < QueueLimit
       THEN writes' = Append(writes, w) /\ refused' = refused
       ELSE writes' = writes /\ refused' = refused \cup {id}
    /\ UNCHANGED rows

save_message(m) == Enqueue(m.id, [kind |-> "row", msg |-> m])

update_stored_status(id, packet, status) ==
    Enqueue(id, [kind |-> "status", id |-> id, packet |-> packet, status |-> status])

ApplyStatusOnly(rs, w) ==
    IF w.kind = "row" THEN Append(rs, w.msg)
    ELSE [i \in DOMAIN rs |-> IF rs[i].id = w.id
                              THEN [rs[i] EXCEPT !.status = w.status] ELSE rs[i]]

\* INSERT OR IGNORE; UPDATE ... WHERE local_id.
Apply(rs, w) ==
    IF w.kind = "row" THEN Append(rs, w.msg)
    ELSE Settle(rs, w.id, w.packet, w.status)

StoreWrites ==
    /\ writes # <<>>
    /\ rows' = Apply(rows, Head(writes))
    /\ writes' = Tail(writes)
    /\ UNCHANGED <<link, connected, canSend, sidebar, view, count,
                   jumped, loaded, refused>>

\* read_messages: the newest HistoryLimit rows, oldest first; a rank is the
\* order of the rows by time and, at one time, by rowid.
Ranks(rs) ==
    {p \in Bijection(DOMAIN rs, DOMAIN rs):
        \A i, j \in DOMAIN rs: i < j =>
            rs[p[i]].at < rs[p[j]].at \/ (rs[p[i]].at = rs[p[j]].at /\ p[i] < p[j])}

read_messages(rs, rank) ==
    LET skip == IF Len(rs) > HistoryLimit THEN Len(rs) - HistoryLimit ELSE 0
    IN  [k \in 1..(Len(rs) - skip) |-> rs[rank[k + skip]]]
-----------------------------------------------------------------------------
(* The chat view *)

RebuildBubbles(key) ==
    /\ current' = key
    /\ bubbles' = Thread(messages', key)
    /\ notice' = FALSE

\* set_channel and set_dm_target.
Show(key) == messages' = messages /\ RebuildBubbles(key)

add_message(m) ==
    /\ messages' = Append(messages, m)
    /\ bubbles' = IF KeyFor(m) = current THEN Append(bubbles, m) ELSE bubbles
    /\ UNCHANGED <<current, notice>>

update_message_status(id, packet, status) ==
    /\ messages' = Settle(messages, id, packet, status)
    /\ bubbles' = [i \in DOMAIN bubbles |->
                     IF bubbles[i].id = id THEN Stamped(bubbles[i], packet, status)
                     ELSE bubbles[i]]
    /\ UNCHANGED <<current, notice>>

set_no_channels_message ==
    /\ bubbles' = <<>> /\ notice' = TRUE
    /\ UNCHANGED <<current, messages>>

load_history(ms) ==
    /\ messages' = ms
    /\ current' = None /\ bubbles' = <<>> /\ notice' = FALSE
-----------------------------------------------------------------------------
(* The sidebar.  A list emits a selection only when its highlighted row    *)
(* changes to a valid one; each list then clears the other's highlight.    *)

EmptySidebar == [channels |-> <<>>, chanRow |-> None, dms |-> {}, dmRow |-> None, local |-> None]

OnChannelRowKeepsDm(sb, c) == [sb EXCEPT !.chanRow = c]

OnChannelRow(sb, c) == [sb EXCEPT !.chanRow = c, !.dmRow = None]

OnDmRow(sb, n) == [sb EXCEPT !.dmRow = n, !.chanRow = None]

\* set_channels: the rows are replaced and the first one is highlighted.
SetChannels(sb, cs) ==
    LET cleared == [sb EXCEPT !.channels = cs, !.chanRow = None]
    IN  IF cs = <<>> THEN cleared ELSE OnChannelRow(cleared, cs[1])

\* set_dm_nodes: the rows are replaced with signals blocked, so the old
\* highlight is gone; highlighting it again is a change of row and emits.
Restores(sb, ns) == sb.dmRow # None /\ sb.dmRow \in ns \ {sb.local}
SetDmNodes(sb, ns) ==
    LET cleared == [sb EXCEPT !.dms = ns \ {sb.local}, !.dmRow = None]
    IN  IF Restores(sb, ns) THEN OnDmRow(cleared, sb.dmRow) ELSE cleared

\* The window refreshes the direct-message list from the ingestor; a restored
\* highlight opens that node's thread through dm_target_selected.
RefreshDms(ns) ==
    /\ sidebar' = SetDmNodes(sidebar, ns)
    /\ IF Restores(sidebar, ns)
       THEN /\ Show(<<"dm", sidebar.dmRow>>)
            /\ canSend' = connected /\ jumped' = FALSE
       ELSE UNCHANGED <<view, canSend, jumped>>
-----------------------------------------------------------------------------
(* The worker *)

Emit(signals) == inbox' = inbox \o signals

\* The end of a connect: state, channels, node database, in this order.
Connects(cs) ==
    /\ ~up /\ count.connects < MaxConnects /\ Len(inbox) + 3 <= MaxQueue
    /\ up' = TRUE
    /\ count' = [count EXCEPT !.connects = @ + 1]
    /\ Emit(<<[kind |-> "connected"], [kind |-> "channels", channels |-> cs],
              [kind |-> "seeded"]>>)
    /\ UNCHANGED <<sends, connected, canSend, sidebar, view, store,
                   jumped, loaded>>

\* A loss, or a disconnect the user asked for.
Drops ==
    /\ up /\ Len(inbox) < MaxQueue
    /\ up' = FALSE
    /\ Emit(<<[kind |-> "disconnected"]>>)
    /\ UNCHANGED <<sends, connected, canSend, sidebar, view, store,
                   count, jumped, loaded>>

\* _on_text_received: a text sent to one node is filed under its sender (the
\* channel it came on is not looked at again).  rxTime may be behind.
TextReceived(sender, chan, direct, at) ==
    /\ up /\ count.messages < MaxMessages /\ Len(inbox) < MaxQueue
    /\ LET id == count.messages + 1
       IN  /\ at \in {0, id}
           /\ Emit(<<[kind |-> "received",
                      msg |-> [id |-> id, at |-> at, chan |-> IF direct THEN 0 ELSE chan,
                               dm |-> IF direct THEN sender ELSE None,
                               status |-> "received", packet |-> id]]>>)
    /\ count' = [count EXCEPT !.messages = @ + 1]
    /\ UNCHANGED <<up, sends, connected, canSend, sidebar, view, store,
                   jumped, loaded>>

\* _prepare_outgoing: what may be handed to the radio.
Sendable(t) ==
    LET n == normalize_outgoing_text(t)
    IN  up /\ n.body # 0 /\ Bytes(n) <= MaxBytes

OutcomesSilent(t, id) ==
    IF Sendable(t)
    THEN {<<id, "accepted">>, <<None, "accepted">>, <<None, "failed">>}
    ELSE {}

\* _dispatch_text: the radio takes the text, with or without telling the
\* packet id, or sendText raises.
Outcomes(t, id) ==
    IF Sendable(t)
    THEN {<<id, "accepted">>, <<None, "accepted">>, <<None, "failed">>}
    ELSE {<<None, "failed">>}

\* send_channel_text, send_direct_text.
WorkerSends ==
    /\ sends # <<>>
    /\ LET s == Head(sends)
           outs == Outcomes(s.text, s.id)
       IN  IF outs = {} THEN inbox' = inbox
           ELSE \E o \in outs: Emit(<<[kind |-> "status", id |-> s.id, packet |-> o[1],
                                       status |-> o[2]]>>)
    /\ sends' = Tail(sends)
    /\ UNCHANGED <<up, connected, canSend, sidebar, view, store, count,
                   jumped, loaded>>
-----------------------------------------------------------------------------
(* The window: signals from the worker *)

Next1(kind) == inbox # <<>> /\ Head(inbox).kind = kind /\ inbox' = Tail(inbox)

OnConnected ==
    /\ Next1("connected")
    /\ connected' = TRUE
    /\ sidebar' = [sidebar EXCEPT !.local = Local]
    /\ UNCHANGED <<up, sends, canSend, view, store, count, jumped, loaded>>

OnChannelsUpdated ==
    /\ Next1("channels")
    /\ LET cs == Head(inbox).channels
       IN  /\ sidebar' = SetChannels(sidebar, cs)
           /\ IF cs = <<>>
              THEN set_no_channels_message /\ UNCHANGED <<canSend, jumped>>
              ELSE /\ Show(<<"channel", cs[1]>>)
                   /\ canSend' = TRUE /\ jumped' = FALSE
    /\ UNCHANGED <<up, sends, connected, store, count, loaded>>

OnNodedbSeeded ==
    /\ Next1("seeded")
    /\ RefreshDms(Nodes)
    /\ UNCHANGED <<up, sends, connected, store, count, loaded>>

OnDisconnected ==
    /\ Next1("disconnected")
    /\ connected' = FALSE /\ canSend' = FALSE
    /\ sidebar' = EmptySidebar
    /\ UNCHANGED <<up, sends, view, store, count, jumped, loaded>>

OnMessageReceived ==
    /\ Next1("received")
    /\ add_message(Head(inbox).msg)
    /\ save_message(Head(inbox).msg)
    /\ UNCHANGED <<up, sends, connected, canSend, sidebar, count, jumped,
                   loaded>>

OnMessageStatus ==
    /\ Next1("status")
    /\ LET s == Head(inbox)
       IN  /\ update_message_status(s.id, s.packet, s.status)
           /\ update_stored_status(s.id, s.packet, s.status)
    /\ UNCHANGED <<up, sends, connected, canSend, sidebar, count, jumped,
                   loaded>>

Deliver ==
    OnConnected \/ OnChannelsUpdated \/ OnNodedbSeeded \/ OnDisconnected
        \/ OnMessageReceived \/ OnMessageStatus
-----------------------------------------------------------------------------
(* The window: the user and the timers *)

PickChannel(c) ==
    /\ c \in Range(sidebar.channels) /\ c # sidebar.chanRow
    /\ sidebar' = OnChannelRow(sidebar, c)
    /\ Show(<<"channel", c>>)
    /\ canSend' = connected /\ jumped' = FALSE
    /\ UNCHANGED <<link, connected, store, count, loaded>>

PickDm(n) ==
    /\ n \in sidebar.dms /\ n # sidebar.dmRow
    /\ sidebar' = OnDmRow(sidebar, n)
    /\ Show(<<"dm", n>>)
    /\ canSend' = connected /\ jumped' = FALSE
    /\ UNCHANGED <<link, connected, store, count, loaded>>

\* _on_node_message_requested: the nodes page opens a thread; the sidebar is
\* not told.
MessageNode(n) ==
    /\ Show(<<"dm", n>>)
    /\ canSend' = connected /\ jumped' = TRUE
    /\ UNCHANGED <<link, connected, sidebar, store, count, loaded>>

\* The composer's _do_send, the view's _on_send, and the window's _on_send
\* or _on_send_dm: a bubble and a row at once, then the queued call.
Send(raw) ==
    /\ canSend /\ current # None /\ count.messages < MaxMessages
    /\ LET t == normalize_outgoing_text(raw)
           id == count.messages + 1
           m == [id |-> id, at |-> id,
                 chan |-> IF current[1] = "dm" THEN 0 ELSE current[2],
                 dm |-> IF current[1] = "dm" THEN current[2] ELSE None,
                 status |-> "sending", packet |-> None]
       IN  /\ t.body # 0 /\ Bytes(t) <= MaxBytes
           /\ add_message(m)
           /\ save_message(m)
           /\ sends' = Append(sends, [id |-> id, text |-> t])
    /\ count' = [count EXCEPT !.messages = @ + 1]
    /\ UNCHANGED <<up, inbox, connected, canSend, sidebar, jumped, loaded>>

\* _flush_node_updates: the timer fires and, as packets come at any time, one
\* has marked the nodes dirty since it last did.
FlushNodeUpdates ==
    /\ RefreshDms(Nodes)
    /\ UNCHANGED <<link, connected, store, count, loaded>>

\* The program ends and is started again.  Queued sends and signals die with
\* it.  An orderly close waits for the writer, so it ends the program with no
\* write queued; a crash may come at any time and loses those that are.
Restart ==
    /\ count.restarts < MaxRestarts
    /\ \E rank \in Ranks(rows):
         LET history == read_messages(rows, rank)
         IN  load_history(history) /\ loaded' = {m.id: m \in Range(history)}
    /\ writes' = <<>>
    /\ up' = FALSE /\ sends' = <<>> /\ inbox' = <<>>
    /\ connected' = FALSE /\ canSend' = FALSE
    /\ sidebar' = EmptySidebar
    /\ count' = [count EXCEPT !.restarts = @ + 1]
    /\ jumped' = FALSE
    /\ UNCHANGED <<rows, refused>>
-----------------------------------------------------------------------------
Init ==
    /\ up = FALSE /\ sends = <<>> /\ inbox = <<>>
    /\ connected = FALSE /\ canSend = FALSE
    /\ sidebar = EmptySidebar
    /\ current = None /\ messages = <<>> /\ bubbles = <<>> /\ notice = FALSE
    /\ writes = <<>> /\ rows = <<>>
    /\ count = [messages |-> 0, connects |-> 0, restarts |-> 0]
    /\ jumped = FALSE /\ loaded = {} /\ refused = {}

User ==
    \/ \E c \in Channels: PickChannel(c)
    \/ \E n \in Nodes: PickDm(n) \/ MessageNode(n)
    \/ \E t \in Texts: Send(t)

Next ==
    \/ \E cs \in ChannelLists: Connects(cs)
    \/ Drops
    \/ \E n \in Nodes \ {Local}, c \in Channels, direct \in BOOLEAN, at \in 0..MaxMessages:
          TextReceived(n, c, direct, at)
    \/ WorkerSends
    \/ Deliver
    \/ User
    \/ FlushNodeUpdates
    \/ StoreWrites
    \/ Restart

\* The worker's and the window's event loops run what is queued for them.
Spec == Init /\ [][Next]_vars /\ WF_vars(WorkerSends) /\ WF_vars(Deliver)
-----------------------------------------------------------------------------
(* Properties *)

\* The bubbles laid out are the messages of the open conversation, in order
\* and with their latest delivery status, whatever was open when the status
\* arrived; only the no-channels text may have cleared the older ones.
BubblesAreThread ==
    IF notice THEN IsSuffix(bubbles, Thread(messages, current))
    ELSE bubbles = Thread(messages, current)

\* Once the writer has caught up, every message of this run of the program
\* whose writes were all taken is a row with the status and the packet id the
\* view shows, so that the next start shows the same conversation.
RowsFollowView ==
    writes = <<>> =>
        \A i \in DOMAIN messages:
            messages[i].id \notin refused => messages[i] \in Range(rows)

\* The two lists never highlight a row each, and a highlighted row is the
\* open conversation, unless a thread was opened from the nodes page since
\* the sidebar last reported a selection.
SidebarAgrees ==
    /\ sidebar.chanRow = None \/ sidebar.dmRow = None
    /\ ~jumped /\ sidebar.chanRow # None => current = <<"channel", sidebar.chanRow>>
    /\ ~jumped /\ sidebar.dmRow # None => current = <<"dm", sidebar.dmRow>>

\* A message shown as being sent does not stay so: the worker answers every
\* queued send, also one that it cannot make any more.  (Messages read back
\* at start-up are excepted: nothing answers for them.)
Sending(id) ==
    \E i \in DOMAIN messages:
        messages[i].id = id /\ messages[i].status = "sending" /\ id \notin loaded
SendingEnds == \A id \in 1..MaxMessages: Sending(id) ~> ~Sending(id)
=============================================================================
