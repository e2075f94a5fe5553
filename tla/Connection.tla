----------------------------- MODULE Connection -----------------------------
(***************************************************************************)
(* One radio connection, as three threads see it:                          *)
(*  - the GUI thread: the connection bar, the main window's handlers, the  *)
(*    ConnectionSupervisor and the hand-over of the USB port to firmware   *)
(*    tools.  It posts commands to the worker and handles signals one at a *)
(*    time, in the order in which they were emitted;                       *)
(*  - the worker QThread: MeshtasticWorker's slots, one at a time; opening *)
(*    or closing an interface and a BLE scan block it;                     *)
(*  - the radio library's publishing thread (external), which calls        *)
(*    _on_connection_established and _on_connection_lost at any moment,    *)
(*    while the worker is inside a slot too.                               *)
(* Delays are abstract: a timer that runs may fire at any time.            *)
(***************************************************************************)
EXTENDS Integers, Sequences, FiniteSets

CONSTANTS
  Radios,       \* what a ConnectionProfile can point at
  UsbRadios,    \* the ones reached over a serial port
  Interfaces,   \* identities of interface objects; unused ones are recycled
  None,         \* no radio, no interface, no callback
  LastDelay,    \* index of the last entry of _BACKOFF_SECONDS
  MaxCommands,  \* bound: the user and the library pause beyond this backlog
  MaxSignals,   \* bound: the library pauses beyond this backlog
  MaxEvents,    \* bound: events the library has queued for publication
  SetupFails    \* TRUE if _on_connection_established may raise

ASSUME RadiosAssumption == UsbRadios \subseteq Radios /\ None \notin Radios
ASSUME InterfacesAssumption ==
  /\ None \notin Interfaces /\ IsFiniteSet(Interfaces)
  /\ Cardinality(Interfaces) > 1
ASSUME BoundsAssumption ==
  /\ LastDelay \in Nat /\ MaxCommands \in Nat /\ MaxSignals \in Nat \ {0}
  /\ MaxEvents \in Nat /\ SetupFails \in BOOLEAN

\* An event of the library, and where a handler of one can be.
Events == [kind : {"established", "lost"}, interface : Interfaces]
Callbacks == [kind : {"established", "connected", "lost", "disconnected"},
              interface : Interfaces]
ASSUME NoneAssumption == None \notin Callbacks

VARIABLES
  commands,       \* slots queued on the worker thread
  signals,        \* signals queued on the GUI thread
  worker,         \* where the worker thread is inside a slot
  state,          \* MeshtasticWorker._state
  interface,      \* MeshtasticWorker._interface
  making,         \* the interface whose constructor is running
  target,         \* the radio of the last connect slot that went ahead
  subscribed,     \* MeshtasticWorker._subscribed
  link,           \* the library's side of each interface object
  events,         \* events waiting on the publishing thread
  callback,       \* the handler that passed _is_active_interface: its next step
  bar,            \* the state the connection bar shows
  snapshot,       \* the USB radio MainWindow._device_snapshot is of, or None
  profile,        \* ConnectionSupervisor._profile
  active,         \* ConnectionSupervisor._active
  was_connected,  \* ConnectionSupervisor._was_connected
  attempt,        \* ConnectionSupervisor._attempt, up to LastDelay
  timer,          \* the retry timer is running
  usb,            \* hand-over of the port: "no", "requested" or "running"
  flash_port,     \* MainWindow._flash_port
  closing,        \* closeEvent has shut the controller down
  missed          \* history: what nobody has followed up on the interface in
                  \* use: kinds of events that overtook the connect slot, and
                  \* "set-up" if reading the configuration raised

queueVars == <<commands, signals>>
workerVars == <<worker, state, interface, making, target, subscribed>>
libraryVars == <<link, events, callback, missed>>
supervisorVars == <<profile, active, was_connected, attempt, timer>>
windowVars == <<bar, snapshot, usb, flash_port, closing>>
vars == <<queueVars, workerVars, libraryVars, supervisorVars, windowVars>>

Idle == {"DISCONNECTED", "ERROR"}

Init ==
  /\ commands = <<>> /\ signals = <<>>
  /\ worker = "ready" /\ state = "DISCONNECTED"
  /\ interface = None /\ making = None /\ target = None /\ subscribed = FALSE
  /\ link = [i \in Interfaces |-> "closed"] /\ events = <<>> /\ callback = None
  /\ bar = "DISCONNECTED" /\ snapshot = None
  /\ profile = None /\ active = FALSE /\ was_connected = FALSE
  /\ attempt = 0 /\ timer = FALSE
  /\ usb = "no" /\ flash_port = None /\ closing = FALSE
  /\ missed = {}

Command(op, radio) == [op |-> op, radio |-> radio]
Post(op) == commands' = Append(commands, Command(op, None))
PostConnect(radio) == commands' = Append(commands, Command("connect", radio))

\* _set_state and the other emits: queued for the GUI thread, which handles no
\* signal any more once the window closes.
StateSignal(s) == [kind |-> "state", arg |-> s]
Connected(radio) == [kind |-> "connected", arg |-> radio]
Disconnected(reason) == [kind |-> "disconnected", arg |-> reason]
Error(code) == [kind |-> "error", arg |-> code]
Emit(s) == signals' = IF closing THEN <<>> ELSE signals \o s

-----------------------------------------------------------------------------
(* GUI thread: the user                                                    *)

Room == Len(commands) < MaxCommands

\* Fault variant: cancel() leaves the timer running.
CancelKeepsTimer ==
  /\ active' = FALSE /\ was_connected' = FALSE
  /\ UNCHANGED <<profile, attempt, timer>>

\* ConnectionSupervisor.cancel()
Cancel ==
  /\ active' = FALSE /\ was_connected' = FALSE /\ timer' = FALSE
  /\ UNCHANGED <<profile, attempt>>

\* Connect is enabled unless the bar shows a busy or connected state.
UserConnect(radio) ==
  /\ ~closing /\ Room /\ bar \in Idle
  /\ profile' = radio
  /\ PostConnect(radio)
  /\ UNCHANGED <<signals, workerVars, libraryVars, active, was_connected,
                 attempt, timer, bar, snapshot, usb, flash_port, closing>>

UserScan ==
  /\ ~closing /\ Room /\ bar \in Idle
  /\ Post("scan")
  /\ UNCHANGED <<signals, workerVars, libraryVars, supervisorVars, windowVars>>

\* Disconnect is enabled in the others.
UserDisconnect ==
  /\ ~closing /\ Room /\ bar \notin Idle
  /\ Cancel
  /\ Post("disconnect")
 
  /\ UNCHANGED <<signals, workerVars, libraryVars, bar, snapshot, usb,
                 flash_port, closing>>

\* A node action, a send or a device setting: a slot that needs the radio.
UserRequest ==
  /\ ~closing /\ Room
  /\ Post("request")
  /\ UNCHANGED <<signals, workerVars, libraryVars, supervisorVars, windowVars>>

\* Flash, probe, flash backup: remember the port, cancel, disconnect.
UserFirmware ==
  /\ ~closing /\ Room
  /\ usb = "no" /\ bar = "CONNECTED" /\ snapshot # None
  /\ flash_port' = snapshot
  /\ usb' = "requested"
  /\ Cancel
  /\ Post("disconnect")
 
  /\ UNCHANGED <<signals, workerVars, libraryVars, bar, snapshot, closing>>

\* _on_firmware_completed: connect to the port again, after a while.
FirmwareCompleted ==
  /\ ~closing /\ usb = "running"
  /\ usb' = "no" /\ flash_port' = None
  /\ PostConnect(flash_port)
  /\ UNCHANGED <<signals, workerVars, libraryVars, supervisorVars, bar, snapshot,
                 closing>>

\* closeEvent, MeshtasticController.shutdown(): queue the shutdown slot, quit
\* the thread's event loop and wait for it, at most five seconds.
Close ==
  /\ ~closing
  /\ closing' = TRUE
  /\ signals' = <<>>
  /\ Post("shutdown")
  /\ UNCHANGED <<workerVars, libraryVars, supervisorVars, bar, snapshot, usb,
                 flash_port>>

-----------------------------------------------------------------------------
(* GUI thread: signals and the retry timer                                 *)

Receive(kind) ==
  /\ signals # <<>> /\ Head(signals).kind = kind
  /\ signals' = Tail(signals)

\* MainWindow._on_state_changed
OnStateChanged ==
  /\ Receive("state")
  /\ bar' = Head(signals).arg
  /\ UNCHANGED <<commands, workerVars, libraryVars, supervisorVars, snapshot,
                 usb, flash_port, closing>>

\* A snapshot has a serial port if the radio is on USB.
OnUsb(radio) == IF radio \in UsbRadios THEN radio ELSE None

\* Fault variant: success does not end the retry sequence.
OnConnectedKeepsRetrying ==
  /\ Receive("connected")
  /\ attempt' = 0 /\ was_connected' = TRUE
  /\ snapshot' = OnUsb(Head(signals).arg)
  /\ UNCHANGED <<commands, workerVars, libraryVars, profile, active, timer, bar,
                 usb, flash_port, closing>>

\* ConnectionSupervisor._on_connected, MainWindow._on_connected and, right
\* behind it, _on_device_controls_updated.
OnConnected ==
  /\ Receive("connected")
  /\ timer' = FALSE /\ active' = FALSE /\ attempt' = 0 /\ was_connected' = TRUE
  /\ snapshot' = OnUsb(Head(signals).arg)
  /\ UNCHANGED <<commands, workerVars, libraryVars, profile, bar, usb,
                 flash_port, closing>>

\* ConnectionSupervisor._on_disconnected and MainWindow._on_disconnected: a
\* firmware operation that waits for the port starts at any such signal.
OnDisconnected ==
  /\ Receive("disconnected")
  /\ IF Head(signals).arg = "user" THEN Cancel ELSE UNCHANGED supervisorVars
  /\ snapshot' = None
  /\ usb' = IF usb = "requested" THEN "running" ELSE usb
  /\ UNCHANGED <<commands, workerVars, libraryVars, bar, flash_port, closing>>

\* The index into _BACKOFF_SECONDS after a failed attempt.
LongerDelay(n) == IF n < LastDelay THEN n + 1 ELSE LastDelay

\* Fault variant: the timer is not started.
ScheduleWithoutTimer(n) ==
  /\ attempt' = n
  /\ active' = TRUE /\ UNCHANGED timer
  /\ Post("reconnecting")

\* _schedule_retry with the backoff index n.
ScheduleRetry(n) ==
  /\ attempt' = n
  /\ active' = TRUE /\ timer' = TRUE
  /\ Post("reconnecting")

\* ConnectionSupervisor._on_error: any error while a retry sequence is active
\* counts as a failed attempt; otherwise only a lost connection matters.
OnError ==
  /\ Receive("error")
  /\ IF active
     THEN ScheduleRetry(LongerDelay(attempt))
     ELSE IF Head(signals).arg = "lost" /\ was_connected /\ profile # None
     THEN ScheduleRetry(0)
     ELSE UNCHANGED <<attempt, active, timer, commands>>
  /\ UNCHANGED <<workerVars, libraryVars, profile, was_connected, windowVars>>

\* _attempt_reconnect
AttemptReconnect ==
  /\ ~closing /\ timer
  /\ timer' = FALSE
  /\ IF active /\ profile # None THEN PostConnect(profile) ELSE UNCHANGED commands
  /\ UNCHANGED <<signals, workerVars, libraryVars, profile, active,
                 was_connected, attempt, windowVars>>

OnSignal == OnStateChanged \/ OnConnected \/ OnDisconnected \/ OnError

-----------------------------------------------------------------------------
(* Worker thread                                                           *)

\* The event loop calls the next slot; the bound on signals holds it back.
Slot(op) ==
  /\ worker = "ready" /\ commands # <<>> /\ Head(commands).op = op
  /\ Len(signals) < MaxSignals
  /\ commands' = Tail(commands)

SetState(s) == state' = s /\ Emit(<<StateSignal(s)>>)

\* Fault variant: the object is forgotten and left open.
InterfaceLeftOpen == link

\* _close_interface: forget the object, then close it.
WithoutInterface ==
  [i \in Interfaces |-> IF i = interface THEN "closed" ELSE link[i]]

\* An object identity that nothing refers to any more.
Fresh(i) == /\ link[i] = "closed" /\ interface # i
            /\ \A n \in DOMAIN events : events[n].interface # i
            /\ callback # None => callback.interface # i

\* Fault variant: a lost connection has to be disconnected first.
ConnectableAtRest == state \in {"DISCONNECTED", "RECONNECTING"}

Connectable == state \in {"DISCONNECTED", "ERROR", "RECONNECTING"}

\* connect_ble, connect_tcp, connect_serial: close the old interface and call
\* the constructor of a new one ...
ConnectBegin ==
  /\ Slot("connect") /\ Connectable
  /\ target' = Head(commands).radio
  /\ interface' = None
  /\ \E i \in Interfaces :
       /\ Fresh(i)
       /\ making' = i
       /\ link' = [WithoutInterface EXCEPT ![i] = "syncing"]
  /\ subscribed' = TRUE
  /\ SetState("CONNECTING")
  /\ worker' = "opening"
  /\ missed' = {}
  /\ UNCHANGED <<events, callback, supervisorVars, windowVars>>

\* ... which returns an object ...
ConnectOpened ==
  /\ worker = "opening"
  /\ interface' = making /\ making' = None
  /\ worker' = "opened"
  /\ UNCHANGED <<queueVars, state, target, subscribed, libraryVars,
                 supervisorVars, windowVars>>

ConnectSyncing ==
  /\ worker = "opened"
  /\ SetState("SYNCING")
  /\ worker' = "ready"
  /\ UNCHANGED <<commands, interface, making, target, subscribed, libraryVars,
                 supervisorVars, windowVars>>

\* ... or raises.  The except branches only forget the object they never got:
\* a constructor that raises is taken to have closed what it had opened.
ConnectFailed ==
  /\ worker = "opening"
  /\ interface' = None /\ making' = None
  /\ link' = [link EXCEPT ![making] = "closed"]
  /\ state' = "DISCONNECTED"
  /\ Emit(<<StateSignal("ERROR"), StateSignal("DISCONNECTED"), Error("other")>>)
  /\ worker' = "ready"
  /\ missed' = {}
  /\ UNCHANGED <<commands, target, subscribed, events, callback, supervisorVars,
                 windowVars>>

\* A connect in any other state is ignored, without a signal.
ConnectIgnored ==
  /\ Slot("connect") /\ ~Connectable
  /\ UNCHANGED <<signals, workerVars, libraryVars, supervisorVars, windowVars>>

\* A target that cannot be opened at all (a URL for a host, a bad port number)
\* is refused before anything changes.
ConnectRefused ==
  /\ Slot("connect") /\ Connectable
  /\ Emit(<<Error("other")>>)
  /\ UNCHANGED <<workerVars, libraryVars, supervisorVars, windowVars>>

\* scan_ble
ScanBegin ==
  /\ Slot("scan")
  /\ SetState("SCANNING")
  /\ worker' = "scanning"
  /\ UNCHANGED <<interface, making, target, subscribed, libraryVars,
                 supervisorVars, windowVars>>

ScanEnd ==
  /\ worker = "scanning"
  /\ state' = "DISCONNECTED"
  /\ \E failure \in {<<>>, <<Error("other")>>} :
       Emit(<<StateSignal("DISCONNECTED")>> \o failure)
  /\ worker' = "ready"
  /\ UNCHANGED <<commands, interface, making, target, subscribed, libraryVars,
                 supervisorVars, windowVars>>

\* disconnect
DisconnectBegin ==
  /\ Slot("disconnect") /\ state # "DISCONNECTED"
  /\ SetState("DISCONNECTING")
  /\ interface' = None /\ link' = WithoutInterface
  /\ worker' = "closing"
  /\ missed' = {}
  /\ UNCHANGED <<making, target, subscribed, events, callback, supervisorVars,
                 windowVars>>

DisconnectEnd ==
  /\ worker = "closing"
  /\ state' = "DISCONNECTED"
  /\ Emit(<<StateSignal("DISCONNECTED"), Disconnected("user")>>)
  /\ worker' = "ready"
  /\ UNCHANGED <<commands, interface, making, target, subscribed, libraryVars,
                 supervisorVars, windowVars>>

DisconnectIgnored ==
  /\ Slot("disconnect") /\ state = "DISCONNECTED"
  /\ UNCHANGED <<signals, workerVars, libraryVars, supervisorVars, windowVars>>

\* enter_reconnecting reads the state and then sets it; a callback may run in
\* between.
ReconnectingBegin ==
  /\ Slot("reconnecting")
  /\ worker' = IF state \in {"CONNECTING", "SYNCING", "CONNECTED"}
               THEN "ready" ELSE "announcing"
  /\ UNCHANGED <<signals, state, interface, making, target, subscribed,
                 libraryVars, supervisorVars, windowVars>>

ReconnectingEnd ==
  /\ worker = "announcing"
  /\ SetState("RECONNECTING")
  /\ worker' = "ready"
  /\ UNCHANGED <<commands, interface, making, target, subscribed, libraryVars,
                 supervisorVars, windowVars>>

\* _require_connection or _prepare_outgoing refuses, or the radio does.
Request ==
  /\ Slot("request")
  /\ \/ Emit(<<Error("other")>>)
     \/ state = "CONNECTED" /\ interface # None /\ Emit(<<>>)
  /\ UNCHANGED <<workerVars, libraryVars, supervisorVars, windowVars>>

\* shutdown
WorkerShutdown ==
  /\ Slot("shutdown")
  /\ interface' = None /\ link' = WithoutInterface
  /\ subscribed' = FALSE
  /\ missed' = {}
  /\ UNCHANGED <<signals, worker, state, making, target, events, callback,
                 supervisorVars, windowVars>>

\* QThread.quit() ends the event loop between two slots; how many of the queued
\* slots, shutdown among them, still run is up to Qt's dispatcher.
WorkerQuit ==
  /\ closing /\ worker = "ready"
  /\ worker' = "ended"
  /\ UNCHANGED <<queueVars, state, interface, making, target, subscribed,
                 libraryVars, supervisorVars, windowVars>>

WorkerStep ==
  \/ ConnectBegin \/ ConnectOpened \/ ConnectSyncing \/ ConnectFailed
  \/ ConnectIgnored \/ ConnectRefused \/ ScanBegin \/ ScanEnd
  \/ DisconnectBegin \/ DisconnectEnd \/ DisconnectIgnored
  \/ ReconnectingBegin \/ ReconnectingEnd \/ Request
  \/ WorkerShutdown \/ WorkerQuit

-----------------------------------------------------------------------------
(* The radio library and its publishing thread                             *)

Open(i) == link[i] \in {"syncing", "up", "rebooting"}

\* The library reports on an object while it is open: once how the sync ended
\* and, as far as the bounds allow, later losses and recoveries.
Reports(i) ==
  \/ link[i] = "syncing"
  \/ Len(events) < MaxEvents /\ Len(signals) < MaxSignals /\ Room

Publish(kind, i) == events' = Append(events, [kind |-> kind, interface |-> i])

\* The configuration has been downloaded, for the first time or again after a
\* soft reboot.
LinkUp(i) ==
  /\ link[i] \in {"syncing", "rebooting"} /\ Reports(i)
  /\ link' = [link EXCEPT ![i] = "up"]
  /\ Publish("established", i)
  /\ UNCHANGED <<queueVars, workerVars, callback, missed, supervisorVars, windowVars>>

\* The transport has failed, or the radio reboots and syncs again.
LinkDown(i) ==
  /\ Open(i) /\ Reports(i)
  /\ \E after \in {"failed", "rebooting"} : link' = [link EXCEPT ![i] = after]
  /\ Publish("lost", i)
  /\ UNCHANGED <<queueVars, workerVars, callback, missed, supervisorVars, windowVars>>

\* The connect slot has not come as far as SYNCING with this interface.
Overtakes(i) == i = making \/ (worker = "opened" /\ i = interface)

\* The callback is entered: events of another interface are dropped, and so
\* are those of an interface that the connect slot has not stored yet.
CallbackBegin ==
  /\ callback = None /\ events # <<>>
  /\ events' = Tail(events)
  /\ callback' = IF subscribed /\ interface = Head(events).interface
                 THEN Head(events) ELSE None
  /\ missed' = IF Overtakes(Head(events).interface)
               THEN missed \cup {Head(events).kind} ELSE missed
  /\ UNCHANGED <<queueVars, workerVars, link, supervisorVars, windowVars>>

Handling(kind) == callback # None /\ callback.kind = kind

\* The callback goes on, or returns.
Continue(kind) == callback' = [callback EXCEPT !.kind = kind]

\* _on_connection_established reads the configuration and sets the state.  The
\* assignment and the emit of _set_state are two steps, and the worker may set
\* the state in between.
Established ==
  /\ Handling("established")
  /\ state' = "CONNECTED"
  /\ Continue("connected")
  /\ missed' = {}
  /\ UNCHANGED <<queueVars, worker, interface, making, target, subscribed, link,
                 events, supervisorVars, windowVars>>

EstablishedReport ==
  /\ Handling("connected")
  /\ \E failure \in IF SetupFails THEN {<<>>, <<Error("other")>>} ELSE {<<>>} :
       Emit(<<StateSignal("CONNECTED"), Connected(target)>> \o failure)
  /\ callback' = None
  /\ UNCHANGED <<commands, workerVars, link, events, missed, supervisorVars,
                 windowVars>>

\* Reading the configuration raised: only the error is reported.
EstablishedFailed ==
  /\ SetupFails
  /\ Handling("established")
  /\ Emit(<<Error("other")>>)
  /\ callback' = None
  /\ missed' = missed \cup {"set-up"}
  /\ UNCHANGED <<commands, workerVars, link, events, supervisorVars, windowVars>>

\* _on_connection_lost leaves the interface alone.
ConnectionLost ==
  /\ Handling("lost")
  /\ state' = "ERROR"
  /\ Continue("disconnected")
  /\ UNCHANGED <<queueVars, worker, interface, making, target, subscribed, link,
                 events, missed, supervisorVars, windowVars>>

LostReport ==
  /\ Handling("disconnected")
  /\ Emit(<<StateSignal("ERROR"), Disconnected("lost"), Error("lost")>>)
  /\ callback' = None
  /\ UNCHANGED <<commands, workerVars, link, events, missed, supervisorVars,
                 windowVars>>

LibraryStep ==
  \/ CallbackBegin \/ Established \/ EstablishedReport \/ EstablishedFailed
  \/ ConnectionLost \/ LostReport

UserStep ==
  \/ \E r \in Radios : UserConnect(r)
  \/ UserScan \/ UserDisconnect \/ UserRequest \/ UserFirmware

Next ==
  \/ UserStep \/ FirmwareCompleted \/ Close
  \/ OnSignal \/ AttemptReconnect
  \/ WorkerStep
  \/ \E i \in Interfaces : LinkUp(i) \/ LinkDown(i)
  \/ LibraryStep

Spec == Init /\ [][Next]_vars

\* Event loops, running slots and timers go on, and the library says how a
\* sync ended; the user owes nothing.
Fairness ==
  /\ WF_vars(OnSignal) /\ WF_vars(AttemptReconnect)
  /\ WF_vars(WorkerStep) /\ WF_vars(LibraryStep)
  /\ WF_vars(\E i \in Interfaces :
               link[i] = "syncing" /\ (LinkUp(i) \/ LinkDown(i)))
FairSpec == Spec /\ Fairness

-----------------------------------------------------------------------------
(* Properties                                                              *)

(***************************************************************************)
(* No interface object is ever leaked open: whatever order of connects,    *)
(* failures, scans, disconnects and the final shutdown, an open link is    *)
(* the one the worker holds or is just constructing (a serial port or a    *)
(* BLE link has room for one).                                             *)
(***************************************************************************)
OneInterface == \A i \in Interfaces : Open(i) => i \in {interface, making}

\* The window is open and nothing is queued or running on any thread.
Settled == /\ commands = <<>> /\ signals = <<>> /\ events = <<>>
           /\ worker = "ready" /\ callback = None /\ ~closing

(***************************************************************************)
(* A radio that is gone can be connected to again: when the transport of   *)
(* the interface the worker holds has failed and everything has settled,   *)
(* the loss has left a state in which the connect slots go ahead, although *)
(* nothing ever closes the dead interface before the next connect and late *)
(* events of other interfaces may have set the state too.  The exception   *)
(* is a loss that overtook the connect slot, which the worker drops or     *)
(* overwrites with SYNCING (connect_serial and _is_active_interface).      *)
(***************************************************************************)
LossIsNoticed ==
  Settled /\ interface # None /\ link[interface] = "failed" /\ "lost" \notin missed
    => Connectable

(***************************************************************************)
(* The supervisor retries only what has worked: a retry sequence, and a    *)
(* running timer, imply a connection that succeeded since the user last    *)
(* disconnected, and a profile to retry.                                   *)
(***************************************************************************)
RetryAfterSuccess ==
  /\ timer => active
  /\ active => was_connected /\ profile # None

(***************************************************************************)
(* A connection that stands is left alone: once the signals of a           *)
(* connection (or of a soft reboot's recovery) are handled, no retry is    *)
(* pending that would tear it down.                                        *)
(***************************************************************************)
NoRetryWhileUp == (Settled /\ state = "CONNECTED") => ~active /\ ~timer

\* The sequence is over, or its timer is about to fire.
Retried == ~active \/ timer \/ closing

(***************************************************************************)
(* The supervisor keeps retrying: a retry that was sent to the worker ends *)
(* with a connection or with the next retry scheduled, whatever fails, is  *)
(* refused or is ignored meanwhile, unless the user scans for ever.  Two   *)
(* exceptions, in which the worker stays in SYNCING and ignores every      *)
(* later retry without a signal: an event overtook the connect slot, or    *)
(* _on_connection_established could not read the configuration.            *)
(***************************************************************************)
RetryGoesOn ==
  \/ []<>(worker = "scanning")
  \/ (active /\ ~timer) ~> (Retried \/ missed # {})
=============================================================================
