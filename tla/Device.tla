------------------------------- MODULE Device -------------------------------
(***************************************************************************)
(* The Device page at work: configuration calls, profile backup and        *)
(* restore on the radio worker's thread; firmware discovery, preparation   *)
(* and esptool on the firmware thread; the window, which hands the USB     *)
(* port from one to the other and back; and the serial console.            *)
(*                                                                         *)
(* Each thread runs its queued calls in order and answers with signals     *)
(* that wait for the window.  Connections are over USB (the page is off    *)
(* for any other).  What esptool, the library and the radios do is         *)
(* external: it may fail at every step.                                    *)
(***************************************************************************)
EXTENDS Firmware, Settings

CONSTANTS
    Radios, Ports,
    Serial,         \* [Radios -> USB serial number or None]
    Catalog,        \* the releases GitHub lists, newest first
    Prereleases,    \* the channel choices: are pre-releases wanted?
    Scenarios       \* at: where the radios are plugged in at first; choice: the
                    \* enumeration value they hold; and the bounds. connects:
                    \* connects, disconnects and scans the user asks for; edits:
                    \* configuration calls, before any firmware request;
                    \* requests: firmware requests, less two for each of those
                    \* calls; moves: radios plugged or unplugged

ASSUME DeviceConstants ==
    /\ None \notin Radios \cup Ports
    /\ Serial \in [Radios -> Nat \cup {None}]
    /\ \A r, q \in Radios: Serial[r] = Serial[q] /\ Serial[r] # None => r = q
    /\ \A s \in Scenarios:
         /\ s.at \in [Radios -> Ports \cup {None}]
         /\ \A r, q \in Radios: s.at[r] = s.at[q] /\ s.at[r] # None => r = q
         /\ {s.choice, s.connects, s.edits, s.requests, s.moves} \subseteq Nat

VARIABLES
    at, chip, config,   \* radios: port, firmware in flash, stored configuration
    link, idle,         \* worker: open interface, is its state DISCONNECTED?
    calls, slot,        \* worker: queued calls, restore under way
    copy,               \* library: its copy of the radio's configuration
    file,               \* the profile backup on disk
    signals, results,   \* signals for the window, from the worker and the firmware thread
    win,                \* window and page
    timers, dials,      \* single-shot timers: operations to start, ports to connect
    jobs, tool,         \* firmware thread: queued calls, the esptool operation under way
    console,            \* port the serial console holds
    count,              \* what is left of the bounds
    drift,              \* history: a write failed or a reset was sent in this connection
    hidden              \* history: a scan hid an open interface, no loss or disconnect since

radios == <<at, chip, config>>
worker == <<link, idle, calls, slot, copy, file, drift, hidden>>
workerRest == <<link, idle, slot, copy, file, drift, hidden>>
firmware == <<jobs, tool>>
vars == <<radios, worker, signals, results, win, timers, dials, firmware, console, count>>

Ops == {"flash", "probe", "backup"}

\* A bundle the page has; a firmware operation that waits, with the radio the
\* page shows and the one a dialog named; one that runs, with the radio the
\* last identity check saw on its port; a connection.
Bundles == [target: Radios, late: BOOLEAN]
Waits == [op: Ops, full: BOOLEAN, radio: Radios, named: Radios, serial: Nat \cup {None},
          bundle: Bundles \cup {None}]
Runs == [op: Ops, port: Ports, radio: Radios, named: Radios, serial: Nat \cup {None},
         bundle: Bundles \cup {None}, checked: Radios, loader: BOOLEAN, rest: Seq(Commands)]
Links == [radio: Radios, port: Ports]
ASSUME NoneAssumption == None \notin Waits \cup Runs \cup Links

NoPending == [op \in Ops \cup {"console"} |-> None]

\* The copy goes with the interface.
NoCopy == [plain |-> 0, choice |-> 0, secret |-> 0, name |-> 0, key |-> 0]

Held(port) == (link # None /\ link.port = port) \/ console = port

Erased == [f \in DOMAIN NoCopy |-> 0]
-----------------------------------------------------------------------------
(* The radios *)

Plug(r, p) ==
    /\ count.moves > 0
    /\ at[r] = None /\ On(at, p) = {}
    /\ at' = [at EXCEPT ![r] = p]
    /\ count' = [count EXCEPT !.moves = @ - 1]
    /\ UNCHANGED <<chip, config, worker, signals, results, win, timers, dials, firmware,
                   console>>

Unplug(r) ==
    /\ count.moves > 0
    /\ at[r] # None /\ ~(link # None /\ link.radio = r)
    /\ at' = [at EXCEPT ![r] = None]
    /\ count' = [count EXCEPT !.moves = @ - 1]
    /\ UNCHANGED <<chip, config, worker, signals, results, win, timers, dials, firmware,
                   console>>

\* The connection is lost: a reboot, a cable.
Loses ==
    /\ link # None
    /\ link' = None /\ idle' = FALSE /\ copy' = NoCopy /\ drift' = FALSE /\ hidden' = FALSE
    /\ signals' = Append(signals, [kind |-> "down"])
    /\ UNCHANGED <<radios, calls, slot, file, results, win, timers, dials, firmware, console,
                   count>>
-----------------------------------------------------------------------------
(* The radio worker *)

\* _emit_device_controls: a snapshot of the library's copy; the state CONNECTED
\* is in the same queue before the first one of a connection.
Snapshot(l, c, first) ==
    [kind |-> "snapshot", radio |-> l.radio, port |-> l.port, serial |-> Serial[l.radio],
     shown |-> Shown(c), first |-> first]

Profile(op, ok) == [kind |-> "profile", op |-> op, ok |-> ok]

IsCall(kind) ==
    /\ slot = <<>> /\ calls # <<>> /\ Head(calls).kind = kind
    /\ calls' = Tail(calls)
    /\ UNCHANGED <<at, chip, results, win, timers, dials, firmware, console, count>>

\* disconnect: answers with a signal, except in the state DISCONNECTED.
CallDisconnect ==
    /\ IsCall("disconnect")
    /\ IF idle THEN UNCHANGED <<link, idle, copy, drift, hidden, signals>>
       ELSE /\ link' = None /\ idle' = TRUE
            /\ copy' = NoCopy /\ drift' = FALSE /\ hidden' = FALSE
            /\ signals' = Append(signals, [kind |-> "down"])
    /\ UNCHANGED <<config, slot, file>>

\* connect_serial: a no-op unless the state allows it; an interface a scan hid
\* is closed without a signal.  It may fail, and it does on an empty or busy
\* port.
CallConnect ==
    /\ IsCall("connect")
    /\ LET p == Head(calls).port
           busy == console = p \/ (tool # None /\ tool.port = p)
       IN  IF link # None /\ ~idle THEN UNCHANGED <<link, idle, copy, drift, signals>>
           ELSE \/ \E r \in On(at, p):
                     /\ chip[r].whole /\ ~busy
                     /\ link' = [radio |-> r, port |-> p] /\ idle' = FALSE
                     /\ copy' = config[r] /\ drift' = FALSE
                     /\ signals' = Append(signals, Snapshot(link', copy', TRUE))
                \/ /\ link' = None /\ idle' = TRUE /\ copy' = NoCopy /\ drift' = FALSE
                   /\ signals' = signals
    /\ UNCHANGED <<config, slot, file, hidden>>

\* scan_ble: SCANNING, then DISCONNECTED, whatever is connected.
CallScan ==
    /\ IsCall("scan")
    /\ idle' = TRUE /\ hidden' = (hidden \/ link # None)
    /\ signals' = Append(signals, [kind |-> "scanning"])
    /\ UNCHANGED <<config, link, slot, copy, file, drift>>

\* _require_connection.
Connected == link # None /\ ~idle

\* apply_device_section and update_channel: edit the copy, write the section,
\* report and emit a snapshot.  A refused value or a failed write ends in an
\* error, and the copy stays edited.
CallSave ==
    /\ IsCall("save")
    /\ LET c == Head(calls)
           edited == Edited(copy, c.section, c.changes)
       IN  IF ~Connected
           THEN UNCHANGED <<config, copy, drift, signals>>
           ELSE /\ copy' = edited
                /\ \/ /\ ~Refused(c.section, c.changes)
                      /\ config' = [config EXCEPT ![link.radio] = WriteSection(@, edited, c.section)]
                      /\ signals' = Append(signals, Snapshot(link, edited, FALSE))
                      /\ UNCHANGED drift
                   \/ /\ drift' = TRUE
                      /\ UNCHANGED <<config, signals>>
    /\ UNCHANGED <<link, idle, hidden, slot, file>>

CallRefresh ==
    /\ IsCall("refresh")
    /\ signals' = IF ~Connected THEN signals
                  ELSE Append(signals, Snapshot(link, copy, FALSE))
    /\ UNCHANGED <<config, link, idle, hidden, slot, copy, file, drift>>

\* factory_reset and the other one-shot commands: the radio's configuration is
\* erased or kept; the library's copy does not follow.
CallReset ==
    /\ IsCall("reset")
    /\ IF ~Connected THEN UNCHANGED <<config, drift>>
       ELSE /\ \/ config' = [config EXCEPT ![link.radio] = Erased]
               \/ config' = config
            /\ drift' = TRUE
    /\ UNCHANGED <<link, idle, hidden, slot, copy, file, signals>>

\* backup_device_profile: export_profile reads the library's copy.
CallBackup ==
    /\ IsCall("backup")
    /\ \/ /\ Connected
          /\ file' = copy /\ signals' = Append(signals, Profile("backup", TRUE))
       \/ file' = file /\ signals' = Append(signals, Profile("backup", FALSE))
    /\ UNCHANGED <<config, link, idle, hidden, slot, copy, drift>>

\* restore_device_profile, up to its first write: not connected, or the file
\* or the safety backup is refused.
CallRestore ==
    /\ IsCall("restore")
    /\ \/ /\ Connected
          /\ slot' = RestorePlan /\ signals' = signals
       \/ slot' = slot /\ signals' = Append(signals, Profile("restore", FALSE))
    /\ UNCHANGED <<config, link, idle, hidden, copy, file, drift>>

\* One section of a restore: copied into the library's copy, then written.
RestoreStep ==
    /\ slot # <<>>
    /\ \/ /\ link # None
          /\ copy' = WriteSection(copy, file, Head(slot))
          /\ config' = [config EXCEPT ![link.radio] = WriteSection(@, copy', Head(slot))]
          /\ slot' = Tail(slot)
          /\ signals' = IF slot' = <<>>
                        THEN signals \o <<Profile("restore", TRUE), Snapshot(link, copy', FALSE)>>
                        ELSE signals
          /\ drift' = drift
       \/ /\ copy' = IF link = None THEN copy ELSE WriteSection(copy, file, Head(slot))
          /\ slot' = <<>> /\ drift' = (link # None)
          /\ signals' = Append(signals, Profile("restore", FALSE))
          /\ config' = config
    /\ UNCHANGED <<at, chip, link, idle, hidden, calls, file, results, win, timers, dials, firmware,
                   console, count>>

Worker ==
    CallDisconnect \/ CallConnect \/ CallScan \/ CallSave \/ CallRefresh \/ CallReset
        \/ CallBackup \/ CallRestore \/ RestoreStep
-----------------------------------------------------------------------------
(* The firmware thread *)

Completed(op, ok) == [kind |-> "completed", op |-> op, ok |-> ok]

IsJob(ops) ==
    /\ tool = None /\ jobs # <<>> /\ Head(jobs).op \in ops
    /\ jobs' = Tail(jobs)
    /\ UNCHANGED <<radios, worker, signals, win, timers, dials, console, count>>

Discover ==
    /\ IsJob({"discover"})
    /\ LET j == Head(jobs)
           tag == DiscoverRelease(Catalog, j.radio, j.pre)
       IN  \/ /\ tag # None
              /\ results' = Append(results, [kind |-> "release", tag |-> tag])
           \/ results' = Append(results, Completed("discover", FALSE))
    /\ tool' = tool

Prepare ==
    /\ IsJob({"prepare"})
    /\ LET j == Head(jobs)
       IN  \E cached, fetched \in Archives, metadata \in Radios \cup {None}:
             LET b == PrepareBundle(j.tag, j.radio, Download(cached, fetched), metadata)
             IN  results' = IF b = None THEN Append(results, Completed("prepare", FALSE))
                            ELSE Append(results, [kind |-> "bundle", bundle |-> b])
    /\ tool' = tool

\* flash, probe and backup: the USB identity is checked (and, for a flash, the
\* files) before esptool is run; never again on that port.
StartOp ==
    /\ IsJob(Ops)
    /\ LET j == Head(jobs)
       IN  \/ /\ j.port # None /\ VerifyUsb(at, Serial, j.port, j.serial)
              /\ \E changed \in SUBSET Images:
                   j.op = "flash" => j.bundle # None /\ ValidateBundle(changed)
              /\ \E r \in On(at, j.port):
                   tool' = [op |-> j.op, port |-> j.port, radio |-> j.radio, named |-> j.named,
                            serial |-> j.serial, bundle |-> j.bundle, checked |-> r,
                            loader |-> FALSE, rest |-> Plan(j.op, j.full)]
              /\ results' = results
           \/ /\ results' = Append(results, Completed(j.op, FALSE))
              /\ tool' = None

Ends(ok) == tool' = None /\ results' = Append(results, Completed(tool.op, ok))

\* A radio in reset comes back on its port, on another one, or not in time.
Reappears(r) ==
    {[at EXCEPT ![r] = p]: p \in {q \in Ports: On(at, q) \subseteq {r}} \cup {None}}

\* _bootloader_port: chip-id on the port, whatever radio is on it by now; if
\* that fails and a retry is due, 1200-baud entry and chip-id wherever a radio
\* with the right identity turns up.
IdentifyChip ==
    /\ tool # None /\ ~tool.loader
    /\ \/ /\ ~Held(tool.port) /\ On(at, tool.port) # {}
          /\ tool' = [tool EXCEPT !.loader = TRUE]
          /\ UNCHANGED <<at, results>>
       \/ /\ RetriesEntry(tool.op, tool.bundle # None)
          /\ \/ at' = at
             \/ \E r \in On(at, tool.port): ~Held(tool.port) /\ at' \in Reappears(r)
          /\ LET p == BootloaderPort(at', Serial, tool.port, tool.serial)
             IN  IF p = None \/ Held(p) THEN Ends(FALSE)
                 ELSE /\ \E q \in On(at', p):
                           tool' = [tool EXCEPT !.port = p, !.checked = q, !.loader = TRUE]
                      /\ results' = results
       \/ Ends(FALSE) /\ at' = at
    /\ UNCHANGED <<chip, config, worker, signals, win, timers, dials, jobs, console, count>>

\* A write command changes the firmware of radio r; erase-flash takes its
\* settings and keys with it.
WritesTo(r, command, image) ==
    /\ chip' = [chip EXCEPT ![r] = image]
    /\ config' = IF command = "erase-flash" THEN [config EXCEPT ![r] = Erased] ELSE config

\* The next esptool command works, on whatever radio is on the port, or ends
\* the operation half way or before it began.
RunTool ==
    /\ tool # None /\ tool.loader
    /\ LET command == Head(tool.rest)
           last == Len(tool.rest) = 1
           half == [built |-> None, whole |-> FALSE]
           done == IF last THEN [built |-> tool.bundle.target, whole |-> TRUE] ELSE half
       IN  \/ /\ \E r \in On(at, tool.port):
                   IF command \in Writes THEN WritesTo(r, command, done)
                   ELSE UNCHANGED <<chip, config>>
              /\ IF last THEN Ends(TRUE)
                 ELSE tool' = [tool EXCEPT !.rest = Tail(@)] /\ results' = results
           \/ /\ \/ UNCHANGED <<chip, config>>
                 \/ \E r \in On(at, tool.port): command \in Writes /\ WritesTo(r, command, half)
              /\ Ends(FALSE)
    /\ UNCHANGED <<at, worker, signals, win, timers, dials, jobs, console, count>>

FirmwareThread == Discover \/ Prepare \/ StartOp \/ IdentifyChip \/ RunTool
-----------------------------------------------------------------------------
(* The window: signals *)

\* DevicePage.set_connected.
SetConnected(w, yes) ==
    LET switched == {"discover", "probe", "backup", "save profile", "load profile"}
    IN  IF yes
        THEN [w EXCEPT !.on = @ \cup switched \cup (IF console = None THEN {"console"} ELSE {})]
        ELSE [w EXCEPT !.snap = None, !.on = @ \ (switched \cup {"console", "flash"})]

\* set_snapshot forgets the release, the bundle and the backup made for
\* whatever radio was there before.
SetSnapshot(w, s) ==
    [SetConnected(w, TRUE) EXCEPT !.connected = @ \/ s.first, !.snap = s,
                                  !.release = None, !.bundle = None, !.backedUp = FALSE,
                                  !.on = @ \ {"download", "flash"}]

IsSignal(kind) ==
    /\ signals # <<>> /\ Head(signals).kind = kind
    /\ signals' = Tail(signals)
    /\ UNCHANGED <<radios, worker, results, dials, firmware, console, count>>

OnSnapshot ==
    /\ IsSignal("snapshot")
    /\ win' = SetSnapshot(win, Head(signals))
    /\ UNCHANGED timers

\* _on_state_changed: the page keeps its snapshot.
OnScanning ==
    /\ IsSignal("scanning")
    /\ win' = [win EXCEPT !.connected = FALSE]
    /\ UNCHANGED timers

\* _on_disconnected: whatever waits for the port is started half a second
\* later, one operation per signal.
Waiting(w) ==
    IF w.pending.flash # None THEN {"flash"}
    ELSE IF w.pending.probe # None THEN {"probe"}
    ELSE IF w.pending.backup # None THEN {"backup"}
    ELSE IF w.pending.console # None THEN {"console"} ELSE {}

OnDown ==
    /\ IsSignal("down")
    /\ LET w == [SetConnected(win, FALSE) EXCEPT !.connected = FALSE]
       IN  IF Waiting(w) = {} THEN win' = w /\ timers' = timers
           ELSE \E op \in Waiting(w):
                  /\ win' = [w EXCEPT !.pending[op] = None]
                  /\ timers' = Append(timers, w.pending[op])

OnProfile ==
    /\ IsSignal("profile")
    /\ win' = [win EXCEPT !.backedUp = @ \/ (Head(signals).op = "backup" /\ Head(signals).ok),
                          !.on = IF win.connected THEN @ \cup {"save profile", "load profile"}
                                 ELSE @ \ {"save profile", "load profile"}]
    /\ UNCHANGED timers

IsResult(kind) ==
    /\ results # <<>> /\ Head(results).kind = kind
    /\ results' = Tail(results)
    /\ UNCHANGED <<radios, worker, signals, timers, firmware, console, count>>

\* DevicePage.firmware_completed: the buttons that are on again.
Reenabled(op, ok) ==
    CASE op = "discover" -> {"discover"}
      [] op = "prepare" -> IF ~ok /\ win.release # None THEN {"download"} ELSE {}
      [] op = "flash" -> IF ~ok /\ win.bundle # None THEN {"flash"} ELSE {}
      [] OTHER -> IF win.snap # None THEN {op} ELSE {}

\* release_found and bundle_ready carry the completed signal that follows them.
OnRelease ==
    /\ IsResult("release")
    /\ win' = [win EXCEPT !.release = Head(results).tag,
                          !.on = @ \cup {"download"} \cup Reenabled("discover", TRUE)]
    /\ UNCHANGED dials

\* set_firmware_bundle takes the bundle whatever radio is connected by now.
OnBundle ==
    /\ IsResult("bundle")
    /\ LET b == Head(results).bundle
       IN  win' = [win EXCEPT !.bundle =
                     [target |-> b.target,
                      late |-> \/ win.snap = None \/ win.snap.radio # b.target
                               \/ win.dialog # None /\ win.dialog.radio # b.target],
                   !.on = @ \cup {"flash"}]
    /\ UNCHANGED dials

HandsBackSuccess(op, ok) == op \in Ops /\ ok /\ win.flashPort # None

\* _on_firmware_completed: the port goes back to the radio connection.
HandsBack(op, ok) == op \in Ops /\ win.flashPort # None

OnCompleted ==
    /\ IsResult("completed")
    /\ LET r == Head(results)
           w == [win EXCEPT !.on = (@ \ (Ops \cap {r.op})) \cup Reenabled(r.op, r.ok)]
       IN  IF HandsBack(r.op, r.ok)
           THEN win' = [w EXCEPT !.flashPort = None] /\ dials' = dials \cup {win.flashPort}
           ELSE win' = w /\ dials' = dials

Deliver ==
    OnSnapshot \/ OnScanning \/ OnDown \/ OnProfile \/ OnRelease \/ OnBundle \/ OnCompleted
-----------------------------------------------------------------------------
(* The window: timers *)

\* The port is read when the timer fires.
StartTimer ==
    /\ timers # <<>>
    /\ LET t == Head(timers)
       IN  IF t.op = "console"
           THEN IF Held(t.port) \/ On(at, t.port) = {} \/ (tool # None /\ tool.port = t.port)
                THEN /\ calls' = Append(calls, [kind |-> "connect", port |-> t.port])
                     /\ UNCHANGED <<console, jobs>>
                ELSE console' = t.port /\ UNCHANGED <<calls, jobs>>
           ELSE /\ jobs' = Append(jobs, [op |-> t.op, full |-> t.full, radio |-> t.radio,
                                          named |-> t.named, serial |-> t.serial,
                                          bundle |-> t.bundle, port |-> win.flashPort])
                /\ UNCHANGED <<calls, console>>
    /\ timers' = Tail(timers)
    /\ UNCHANGED <<radios, workerRest, signals, results, win, dials, tool, count>>

DialTimer ==
    /\ \E p \in dials:
         /\ dials' = dials \ {p}
         /\ calls' = Append(calls, [kind |-> "connect", port |-> p])
    /\ UNCHANGED <<radios, workerRest, signals, results, win, timers, firmware, console, count>>
-----------------------------------------------------------------------------
(* The window: the user *)

UserRest ==
    UNCHANGED <<radios, workerRest, signals, results, timers, dials, firmware, console>>

UserCall(c) == calls' = Append(calls, c) /\ UserRest

Dials == count.connects > 0 /\ count' = [count EXCEPT !.connects = @ - 1]

AskConnect(p) ==
    /\ ~win.connected /\ Dials
    /\ UserCall([kind |-> "connect", port |-> p]) /\ win' = win

\* The scan button is on like the connect button; a scan may be behind a
\* connect that has not been reported yet.
AskScan ==
    /\ ~win.connected /\ Dials
    /\ UserCall([kind |-> "scan"]) /\ win' = win

AskDisconnect ==
    /\ win.connected /\ Dials
    /\ UserCall([kind |-> "disconnect"]) /\ win' = win

Edits ==
    /\ win.snap # None /\ count.edits > 0
    /\ count' = [count EXCEPT !.edits = @ - 1, !.requests = @ - 2]

\* _save_current_section and _save_channel.
AskSave(section) ==
    /\ Edits
    /\ \E ch \in ChangesFor(win.snap.shown, section):
         UserCall([kind |-> "save", section |-> section, changes |-> ch])
    /\ win' = win

\* The Refresh button, and the confirmed one-shot commands.
AskPlain(kind) ==
    /\ Edits
    /\ UserCall([kind |-> kind])
    /\ win' = win

AskBackupProfile ==
    /\ Edits /\ "save profile" \in win.on
    /\ UserCall([kind |-> "backup"])
    /\ win' = [win EXCEPT !.on = @ \ {"save profile"}]

AskRestoreProfile ==
    /\ Edits /\ "load profile" \in win.on
    /\ UserCall([kind |-> "restore"])
    /\ win' = [win EXCEPT !.on = @ \ {"load profile"}]

\* The page passes the USB identity of its snapshot along with each request.
Asks(button) ==
    /\ win.snap # None /\ button \in win.on
    /\ count.requests > 0
    /\ count' = [count EXCEPT !.requests = @ - 1, !.edits = 0]

\* _release_for_firmware and its callers: unless the window knows of no
\* connected radio, remember the port and the operation, and give the port up.
ReleaseForFirmware(op, full, bundle, named) ==
    LET w == [win EXCEPT !.on = @ \ {op}, !.dialog = None]
    IN  IF win.connected /\ win.snap # None
        THEN /\ win' = [w EXCEPT !.flashPort = win.snap.port,
                          !.pending[op] = [op |-> op, full |-> full, radio |-> win.snap.radio,
                                           named |-> named, serial |-> win.snap.serial,
                                           bundle |-> bundle]]
             /\ UserCall([kind |-> "disconnect"])
        ELSE win' = w /\ calls' = calls /\ UserRest

\* _confirm_flash, up to its last dialog.  Signals, results and timers are
\* served while a dialog is open.
AskFlash(full) ==
    /\ Asks("flash") /\ win.bundle # None
    /\ win' = [win EXCEPT !.dialog = [full |-> full, radio |-> win.snap.radio,
                                      last |-> ~full \/ win.backedUp]]
    /\ calls' = calls /\ UserRest

\* A full install without a profile backup takes one more confirmation; the
\* phrase is made of the snapshot that is there by then, if there is one.
AskAgain ==
    /\ win.dialog # None /\ ~win.dialog.last
    /\ win' = IF win.snap = None THEN [win EXCEPT !.dialog = None]
              ELSE [win EXCEPT !.dialog = [@ EXCEPT !.last = TRUE, !.radio = win.snap.radio]]
    /\ calls' = calls /\ count' = count /\ UserRest

\* The bundle and the USB identity are read after the answer.
ConfirmFlash ==
    /\ win.dialog # None /\ win.dialog.last
    /\ ReleaseForFirmware("flash", win.dialog.full, win.bundle, win.dialog.radio)
    /\ count' = count

CancelFlash ==
    /\ win.dialog # None
    /\ win' = [win EXCEPT !.dialog = None]
    /\ calls' = calls /\ count' = count /\ UserRest

AskProbe ==
    /\ Asks("probe")
    /\ ReleaseForFirmware("probe", FALSE, None, win.snap.radio)

AskRawBackup ==
    /\ Asks("backup")
    /\ ReleaseForFirmware("backup", FALSE, None, win.snap.radio)

AskConsole ==
    /\ Asks("console")
    /\ LET w == [win EXCEPT !.on = @ \ {"console"}]
       IN  IF win.connected
           THEN /\ win' = [w EXCEPT !.pending.console = [op |-> "console",
                                                         port |-> win.snap.port]]
                /\ UserCall([kind |-> "disconnect"])
           ELSE win' = w /\ calls' = calls /\ UserRest

StopConsole ==
    /\ console # None
    /\ console' = None /\ dials' = dials \cup {console}
    /\ UNCHANGED <<radios, worker, signals, results, win, timers, firmware, count>>

UserJob(j) ==
    /\ jobs' = Append(jobs, j)
    /\ UNCHANGED <<radios, worker, signals, results, timers, dials, tool, console>>

AskDiscover(pre) ==
    /\ Asks("discover")
    /\ win' = [win EXCEPT !.on = @ \ {"discover"}]
    /\ UserJob([op |-> "discover", radio |-> win.snap.radio, pre |-> pre])

AskPrepare ==
    /\ Asks("download") /\ win.release # None
    /\ win' = [win EXCEPT !.on = @ \ {"download"}]
    /\ UserJob([op |-> "prepare", radio |-> win.snap.radio, tag |-> win.release])

\* The dialogs are modal.
User ==
    \/ /\ win.dialog = None
       /\ \/ \E p \in Ports: AskConnect(p)
          \/ AskScan \/ AskDisconnect
          \/ \E s \in Sections: AskSave(s)
          \/ \E k \in {"refresh", "reset"}: AskPlain(k)
          \/ AskBackupProfile \/ AskRestoreProfile
          \/ \E full \in BOOLEAN: AskFlash(full)
          \/ AskProbe \/ AskRawBackup
          \/ AskConsole \/ StopConsole
          \/ \E pre \in Prereleases: AskDiscover(pre)
          \/ AskPrepare
    \/ AskAgain \/ ConfirmFlash \/ CancelFlash
-----------------------------------------------------------------------------
Init ==
    /\ chip = [r \in Radios |-> [built |-> r, whole |-> TRUE]]
    /\ \E s \in Scenarios:
         /\ at = s.at
         /\ config = [r \in Radios |-> [plain |-> 0, choice |-> s.choice, secret |-> 2,
                                        name |-> 0, key |-> 0]]
         /\ count = [connects |-> s.connects, edits |-> s.edits, requests |-> s.requests,
                     moves |-> s.moves]
    /\ link = None /\ idle = TRUE /\ calls = <<>> /\ slot = <<>>
    /\ copy = NoCopy
    /\ file = [f \in DOMAIN NoCopy |-> 1]    \* a profile saved some other day
    /\ drift = FALSE /\ hidden = FALSE
    /\ signals = <<>> /\ results = <<>> /\ timers = <<>> /\ dials = {}
    /\ jobs = <<>> /\ tool = None /\ console = None
    /\ win = [connected |-> FALSE, snap |-> None, flashPort |-> None, pending |-> NoPending,
              release |-> None, bundle |-> None, backedUp |-> FALSE, dialog |-> None,
              on |-> {}]

Next ==
    \/ \E r \in Radios: (\E p \in Ports: Plug(r, p)) \/ Unplug(r)
    \/ Loses
    \/ Worker
    \/ FirmwareThread
    \/ Deliver
    \/ StartTimer \/ DialTimer
    \/ User

Spec == Init /\ [][Next]_vars
-----------------------------------------------------------------------------
(* Properties *)

\* esptool writes only to the radio the page showed when the user confirmed
\* (if its USB serial number is known), what it writes was built for that
\* radio's target, and the dialog had named that radio: also when radios are
\* unplugged and exchanged, the port changes on entering the bootloader, or
\* several operations wait for the port.  Two things are excepted.  A radio
\* that took the place of the checked one after the check is written to: the
\* code looks at the identity once, then talks to the port.  And the page takes
\* a bundle that was still being prepared for another radio than it shows.
FlashIsRight ==
    [][\A r \in Radios: chip'[r] # chip[r] =>
          /\ tool.serial = None \/ r = tool.radio \/ r # tool.checked
          /\ \/ tool.bundle.target = tool.radio /\ tool.named = tool.radio
             \/ tool.bundle.late]_chip

\* The USB port taken for a firmware operation is never forgotten: as long as
\* the window keeps it, an operation waits for a disconnect that is under way,
\* for its timer or its turn, is running, or has a result to deliver.  Excepted
\* is a connection that a Bluetooth scan hid: the worker then takes itself for
\* disconnected and drops the disconnect without a signal, so the operation
\* waits, with its port, for the next loss or disconnect.
PortIsOwed ==
    win.flashPort # None =>
        \/ /\ \E op \in Ops: win.pending[op] # None
           /\ \/ \E i \in DOMAIN calls: calls[i].kind = "disconnect"
              \/ \E i \in DOMAIN signals: signals[i].kind = "down"
              \/ hidden
        \/ \E i \in DOMAIN timers: timers[i].op \in Ops
        \/ \E i \in DOMAIN jobs: jobs[i].op \in Ops
        \/ tool # None
        \/ \E i \in DOMAIN results: results[i].kind = "completed" /\ results[i].op \in Ops

\* While nothing is on its way, the settings the page shows are the ones the
\* radio holds, unless a write failed or a reset was sent in this connection
\* (after which the page shows the library's copy).
PageShowsRadio ==
    (win.snap # None /\ link # None /\ ~drift /\ signals = <<>> /\ slot = <<>>) =>
        win.snap.shown = Shown(config[link.radio])

\* A stored secret changes only by a save that brought a replacement, by a
\* restored profile, by a reset, or by a full install that erases the flash,
\* never because its control was left empty and never by an update.  (What a
\* failed save left in the library's copy goes out with the next one.)
SecretsSurvive ==
    [][\A r \in Radios: config'[r].secret # config[r].secret =>
          \/ slot # <<>> \/ drift
          \/ calls' # calls /\ Head(calls).kind = "reset"
          \/ calls' # calls /\ Head(calls).kind = "save" /\ Head(calls).changes.secret # Blank
          \/ tool # None /\ tool.op = "flash" /\ Head(tool.rest) = "erase-flash"]_config
=============================================================================
