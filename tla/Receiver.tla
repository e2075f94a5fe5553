------------------------------ MODULE Receiver ------------------------------
(***************************************************************************)
(* The SDR receivers and everything in OrcMesh that wants one: the         *)
(* Spectrum page's capture, the SIGINT page's capture (which can record)   *)
(* and the SIGINT page's band scan.  Each has a worker thread that blocks  *)
(* inside its start slot while it reads from a tool process (rtl_sdr or    *)
(* rtl_power); start is queued to that thread, while stop, stop_recording  *)
(* and arm_recording are called directly on the GUI thread and race with   *)
(* it.  A lease per dongle (acquire_sdr, release_sdr) keeps the features   *)
(* apart.  The samples are abstract: a chunk arrives or it does not.       *)
(***************************************************************************)
EXTENDS Integers, Sequences, FiniteSets

CONSTANTS
  Devices,      \* indices of the attached dongles
  Default,      \* device 0, the only one the Spectrum page uses
  None,         \* no owner, no sidecar
  MaxChunks,    \* bound: chunks written to one recording
  MaxInbox,     \* bound: the user pauses while a worker has more queued starts
  MaxPending    \* bound: the user pauses while more signals are queued and
                \* more workers are between idling and reading

ASSUME DevicesAssumption == Default \in Devices
ASSUME NoneAssumption == None \notin {"spectrum", "capture", "scan"}
ASSUME BoundsAssumption == {MaxInbox, MaxChunks} \subseteq Nat \ {0} /\ MaxPending \in Nat

VARIABLES
  owners,     \* _sdr_owners: who holds the lease of each dongle
  inbox,      \* queued start slots of each worker: the device they ask for
  pc,         \* where each worker thread is inside its start slot
  running,    \* SdrWorker._running, ScanWorker._running
  device,     \* _device: the dongle a worker claimed last
  handle,     \* _proc is not None
  proc,       \* the tool process a worker started last
  recorder,   \* SdrWorker._recorder is not None (the SIGINT capture's)
  armed,      \* SdrWorker._record_to is set
  take,       \* the last recording: chunks in the file, IqRecorder._samples,
              \* and the count in the sidecar or None
  shows,      \* the page's flag (_running, _capturing, _scanning): says Stop
  recording,  \* SigintPage._recording
  signals,    \* signals queued on the GUI thread
  closed,     \* both pages have been shut down
  leaked,     \* history: leases a worker walked away from
  requested   \* history: the user asked for the recording that is not open yet

gui == <<shows, recording, closed, requested>>
tool == <<handle, proc>>
lease == <<owners, leaked>>
disk == <<recorder, armed, take>>
vars == <<owners, inbox, pc, running, device, handle, proc, recorder, armed,
          take, shows, recording, signals, closed, leaked, requested>>

Workers == {"spectrum", "capture", "scan"}
(* The worker is inside its slot with a tool process it started.           *)
Busy == {"opened", "loop", "write", "count"}
Alive == {"up", "asked"}
NoTake == [file |-> 0, samples |-> 0, sidecar |-> None]

Init ==
  /\ owners = [d \in Devices |-> None]
  /\ inbox = [w \in Workers |-> <<>>]
  /\ pc = [w \in Workers |-> "idle"]
  /\ running = [w \in Workers |-> FALSE]
  /\ device = [w \in Workers |-> Default]
  /\ handle = [w \in Workers |-> FALSE]
  /\ proc = [w \in Workers |-> "none"]
  /\ recorder = FALSE /\ armed = FALSE /\ take = NoTake
  /\ shows = [w \in Workers |-> FALSE]
  /\ recording = FALSE /\ signals = <<>> /\ closed = FALSE
  /\ leaked = {} /\ requested = FALSE

(***************************************************************************)
(* The lease                                                               *)
(***************************************************************************)
(* Fault variant: the lease is granted whoever holds it.                   *)
MayAlwaysAcquire(w, d) == d \in Devices

MayAcquire(w, d) == owners[d] \in {None, w}

AcquireSdr(w, d) ==
  /\ MayAcquire(w, d)
  /\ owners' = [owners EXCEPT ![d] = w]
  /\ leaked' = leaked \ {<<w, d>>}

(* Fault variant: the lease is kept.                                       *)
KeepSdr(w) == owners' = owners

(* Releasing someone else's lease does nothing.                            *)
ReleaseSdr(w) ==
  owners' = IF owners[device[w]] = w THEN [owners EXCEPT ![device[w]] = None]
                                     ELSE owners

Goto(w, place) == pc' = [pc EXCEPT ![w] = place]
Emit(list) == signals' = IF closed THEN <<>> ELSE signals \o list

(***************************************************************************)
(* Worker threads: SdrWorker and ScanWorker                                *)
(***************************************************************************)
(* The next queued start slot.  It returns at once when a capture is said  *)
(* to be running, and with an error when the dongle is taken.              *)
Start(w) ==
  /\ pc[w] = "idle" /\ inbox[w] # <<>>
  /\ inbox' = [inbox EXCEPT ![w] = Tail(@)]
  /\ LET d == Head(inbox[w]) IN
     \/ /\ running[w]
        /\ UNCHANGED <<owners, leaked, device, pc, signals>>
     \/ /\ ~running[w]
        /\ device' = [device EXCEPT ![w] = d]
        /\ \/ /\ AcquireSdr(w, d)
              /\ Goto(w, "claimed")
              /\ UNCHANGED signals
           \/ /\ ~MayAcquire(w, d)
              /\ Emit(<<<<w, "ended">>>>)
              /\ UNCHANGED <<owners, leaked, pc>>
  /\ UNCHANGED <<running, tool, disk, gui>>

(* Fault variant: the missing tool is not reported.                        *)
ToolMissingSilent(w) ==
  /\ pc[w] = "idle" /\ inbox[w] # <<>> /\ ~running[w]
  /\ inbox' = [inbox EXCEPT ![w] = Tail(@)]
  /\ UNCHANGED <<pc, running, device, signals, tool, lease, disk, gui>>

(* The tool is not installed (any more): an error before anything changes. *)
ToolMissing(w) ==
  /\ pc[w] = "idle" /\ inbox[w] # <<>> /\ ~running[w]
  /\ inbox' = [inbox EXCEPT ![w] = Tail(@)]
  /\ Emit(<<<<w, "ended">>>>)
  /\ UNCHANGED <<pc, running, device, tool, lease, disk, gui>>

Spawn(w) ==
  /\ pc[w] = "claimed"
  /\ handle' = [handle EXCEPT ![w] = TRUE]
  /\ proc' = [proc EXCEPT ![w] = "up"]
  /\ Goto(w, "opened")
  /\ UNCHANGED <<inbox, running, device, signals, lease, disk, gui>>

(* Popen raises: the error is reported, the lease is not given back.       *)
SpawnFailed(w) ==
  /\ pc[w] = "claimed"
  /\ leaked' = leaked \cup {<<w, device[w]>>}
  /\ Goto(w, "idle")
  /\ Emit(<<<<w, "ended">>>>)
  /\ UNCHANGED <<owners, inbox, running, device, tool, disk, gui>>

(* IqRecorder(): the file of an earlier recording is truncated.            *)
NewRecorder == recorder' = TRUE /\ take' = NoTake

(* Open the recorder if one is armed, then enter the read loop.            *)
OpenRecorder(w) ==
  IF w = "capture" /\ armed
  THEN /\ \/ NewRecorder /\ UNCHANGED signals
          \/ Emit(<<<<w, "recorded">>>>) /\ UNCHANGED <<recorder, take>>
       /\ requested' = FALSE
  ELSE UNCHANGED <<recorder, take, signals, requested>>

EnterLoop(w) ==
  /\ pc[w] = "opened"
  /\ OpenRecorder(w)
  /\ running' = [running EXCEPT ![w] = TRUE]
  /\ Goto(w, "loop")
  /\ UNCHANGED <<inbox, device, armed, shows, recording, closed, tool, lease>>

(* A chunk arrives and _tee reads self._recorder into a local; without a   *)
(* recorder a chunk only becomes a row on the screen.                      *)
ReadChunk(w) ==
  /\ pc[w] = "loop" /\ running[w] /\ proc[w] \in Alive
  /\ w = "capture" /\ recorder /\ take.file < MaxChunks
  /\ Goto(w, "write")
  /\ UNCHANGED <<inbox, running, device, signals, tool, lease, disk, gui>>

(* Fault variant: the samples are counted before they are written.         *)
RecorderCountsFirst(w) ==
  /\ pc[w] = "write" /\ recorder
  /\ take' = [take EXCEPT !.samples = @ + 1]
  /\ Goto(w, "count")
  /\ UNCHANGED <<inbox, running, device, recorder, armed, signals, tool, lease, gui>>

(* IqRecorder.write: the samples go to the file and are then counted (no   *)
(* page sets a size limit); the GUI thread may close the file in between.  *)
RecorderWritten(w) ==
  /\ pc[w] = "write" /\ recorder
  /\ take' = [take EXCEPT !.file = @ + 1]
  /\ Goto(w, "count")
  /\ UNCHANGED <<inbox, running, device, recorder, armed, signals, tool, lease, gui>>

RecorderCounted(w) ==
  /\ pc[w] = "count"
  /\ take' = [take EXCEPT !.samples = @ + 1]
  /\ Goto(w, "loop")
  /\ UNCHANGED <<inbox, running, device, recorder, armed, signals, tool, lease, gui>>

(* The write raises CaptureError: the disk is full, or the GUI thread has  *)
(* closed the recorder since _tee read it.  No sidecar is written.         *)
RecorderFailed(w) ==
  /\ pc[w] = "write"
  /\ recorder' = FALSE
  /\ Emit(<<<<w, "recorded">>>>)
  /\ Goto(w, "loop")
  /\ UNCHANGED <<inbox, running, device, armed, take, tool, lease, gui>>

(* The GUI thread closed the file between the check of _closed and the     *)
(* write, which raises ValueError: nothing catches it, the slot is left    *)
(* with _running, _proc and the lease as they are.                         *)
SlotRaises(w) ==
  /\ pc[w] = "write" /\ ~recorder
  /\ leaked' = leaked \cup {<<w, device[w]>>}
  /\ Goto(w, "idle")
  /\ UNCHANGED <<owners, inbox, running, device, signals, tool, disk, gui>>

(* The read returns nothing: the tool has ended.                           *)
LeaveLoop(w) ==
  /\ pc[w] = "loop" /\ proc[w] \notin Alive
  /\ Goto(w, "close")
  /\ UNCHANGED <<inbox, running, device, signals, tool, lease, disk, gui>>

(* _running is only looked at when a read has returned a chunk.            *)
LeaveLoopStopped(w) ==
  /\ pc[w] = "loop" /\ ~running[w] /\ proc[w] \in Alive
  /\ Goto(w, "close")
  /\ UNCHANGED <<inbox, running, device, signals, tool, lease, disk, gui>>

(* Fault variant: the recording is left open.                              *)
AbandonRecording(w) == UNCHANGED <<recorder, take, signals>>

(* IqRecorder.close: the file is closed and its sidecar written.           *)
CloseRecorder == recorder' = FALSE /\ take' = [take EXCEPT !.sidecar = take.samples]

FinishRecording(w) ==
  IF w = "capture" /\ recorder
  THEN CloseRecorder /\ Emit(<<<<w, "recorded">>>>)
  ELSE UNCHANGED <<recorder, take, signals>>

(* _close: the recording, the field and the lease go before the process.   *)
Close(w) ==
  /\ pc[w] = "close"
  /\ FinishRecording(w)
  /\ handle' = [handle EXCEPT ![w] = FALSE]
  /\ ReleaseSdr(w)
  /\ Goto(w, "reap")
  /\ UNCHANGED <<inbox, running, device, proc, armed, leaked, gui>>

(* The rest of _close: terminate, wait, kill, wait.                        *)
Torn(w) == proc' = [proc EXCEPT ![w] = "down"]

(* The tool is gone or torn down; then "stopped" or "error", which the pages *)
(* treat alike.  When the tool ended by itself _running stays TRUE.        *)
Reap(w) ==
  /\ pc[w] = "reap"
  /\ \/ proc[w] \notin Alive /\ UNCHANGED proc
     \/ proc[w] \in Alive /\ Torn(w)
  /\ Emit(<<<<w, "ended">>>>)
  /\ Goto(w, "idle")
  /\ UNCHANGED <<inbox, running, device, handle, lease, disk, gui>>

(* The tool process ends by itself or because it was told to (external).   *)
ToolExits(w) ==
  /\ proc[w] \in Alive
  /\ proc' = [proc EXCEPT ![w] = "down"]
  /\ UNCHANGED <<inbox, pc, running, device, handle, signals, lease, disk, gui>>

(***************************************************************************)
(* GUI thread: SpectrumPage, SigintPage and the controllers                *)
(***************************************************************************)
InTransit == {w \in Workers : pc[w] \notin {"idle", "loop"}}
UserMay ==
  /\ ~closed
  /\ Len(signals) + Cardinality(InTransit) <= MaxPending
  /\ \A w \in Workers : Len(inbox[w]) < MaxInbox

(* Fault variant: stop() only clears the flag.                             *)
StopFlagOnly(W) ==
  /\ running' = [w \in Workers |-> running[w] /\ w \notin W]
  /\ proc' = proc

(* stop() of the workers in W, on the GUI thread: clear the flag and       *)
(* terminate the process if the field shows one.                           *)
StopWorkers(W) ==
  /\ running' = [w \in Workers |-> running[w] /\ w \notin W]
  /\ proc' = [w \in Workers |-> IF w \in W /\ handle[w] /\ proc[w] = "up"
                                THEN "asked" ELSE proc[w]]

QueueStart(w, d) == inbox' = [inbox EXCEPT ![w] = Append(@, d)]

(* SpectrumPage._on_start_stop                                             *)
SpectrumClicked ==
  /\ UserMay
  /\ IF shows["spectrum"]
     THEN /\ StopWorkers({"spectrum"}) /\ UNCHANGED inbox
     ELSE /\ QueueStart("spectrum", Default) /\ UNCHANGED <<running, proc>>
  /\ shows' = [shows EXCEPT !["spectrum"] = ~@]
  /\ UNCHANGED <<pc, device, handle, signals, lease, disk, recording, closed,
                 requested>>

(* Stopping the capture also ends the page's claim to be recording.        *)
CaptureStopped ==
  /\ UserMay /\ shows["capture"]
  /\ StopWorkers({"capture"})
  /\ shows' = [shows EXCEPT !["capture"] = FALSE]
  /\ recording' = FALSE
  /\ UNCHANGED <<inbox, pc, device, handle, signals, lease, disk, closed, requested>>

(* Starting the capture asks a scan of the same page to stop first.        *)
CaptureStarted ==
  /\ UserMay /\ ~shows["capture"]
  /\ StopWorkers(IF shows["scan"] THEN {"scan"} ELSE {})
  /\ shows' = [shows EXCEPT !["scan"] = FALSE, !["capture"] = TRUE]
  /\ \E d \in Devices : QueueStart("capture", d)
  /\ UNCHANGED <<pc, device, handle, signals, lease, disk, recording, closed,
                 requested>>

ScanClicked ==
  /\ UserMay
  /\ \/ /\ shows["scan"]
        /\ StopWorkers({"scan"})
        /\ shows' = [shows EXCEPT !["scan"] = FALSE]
        /\ UNCHANGED <<inbox, recording>>
     \/ /\ ~shows["scan"]
        /\ StopWorkers(IF shows["capture"] THEN {"capture"} ELSE {})
        /\ shows' = [shows EXCEPT !["capture"] = FALSE, !["scan"] = TRUE]
        /\ recording' = (recording /\ ~shows["capture"])
        /\ \E d \in Devices : QueueStart("scan", d)
  /\ UNCHANGED <<pc, device, handle, signals, lease, disk, closed, requested>>

(* _on_record_clicked: a capture that runs is stopped, the path is armed   *)
(* and a capture is started, which opens the recorder.                     *)
RecordStarted ==
  /\ UserMay /\ ~recording
  /\ StopWorkers({w \in {"capture", "scan"} : shows[w]})
  /\ armed' = TRUE
  /\ requested' = TRUE
  /\ shows' = [shows EXCEPT !["scan"] = FALSE, !["capture"] = TRUE]
  /\ recording' = TRUE
  /\ \E d \in Devices : QueueStart("capture", d)
  /\ UNCHANGED <<pc, device, handle, signals, lease, recorder, take, closed>>

(* stop_recording is a direct call: the GUI thread closes the recorder     *)
(* while the worker may be inside _tee.  Its signal is delivered at once.  *)
RecordStopped ==
  /\ UserMay /\ recording
  /\ IF recorder THEN CloseRecorder ELSE UNCHANGED <<recorder, take>>
  /\ recording' = FALSE
  /\ UNCHANGED <<inbox, pc, running, device, armed, shows, signals, tool, lease,
                 closed, requested>>

(* The pages' handlers of stopped and error.                               *)
HandleEnded ==
  /\ signals # <<>> /\ Head(signals)[2] = "ended"
  /\ shows' = [shows EXCEPT ![Head(signals)[1]] = FALSE]
  /\ signals' = Tail(signals)
  /\ UNCHANGED <<inbox, pc, running, device, tool, lease, disk, recording, closed,
                 requested>>

(* The SIGINT page's handlers of recording_finished and recording_failed.  *)
HandleRecorded ==
  /\ signals # <<>> /\ Head(signals)[2] = "recorded"
  /\ recording' = FALSE
  /\ signals' = Tail(signals)
  /\ UNCHANGED <<inbox, pc, running, device, tool, lease, disk, shows, closed,
                 requested>>

(* shutdown() of both pages: stop every worker and quit its thread.        *)
Shutdown ==
  /\ ~closed
  /\ closed' = TRUE
  /\ StopWorkers(Workers)
  /\ shows' = [w \in Workers |-> FALSE]
  /\ signals' = <<>>
  /\ UNCHANGED <<inbox, pc, device, handle, lease, disk, recording, requested>>

(* The thread's event loop ends when no slot runs; what it had queued may  *)
(* be lost.                                                                *)
ThreadQuits(w) ==
  /\ closed /\ pc[w] = "idle" /\ inbox[w] # <<>>
  /\ inbox' = [inbox EXCEPT ![w] = <<>>]
  /\ UNCHANGED <<pc, running, device, signals, tool, lease, disk, gui>>

WorkerSteps(w) ==
  \/ Start(w) \/ ToolMissing(w) \/ Spawn(w) \/ SpawnFailed(w) \/ EnterLoop(w)
  \/ RecorderWritten(w) \/ RecorderCounted(w) \/ RecorderFailed(w) \/ SlotRaises(w)
  \/ LeaveLoop(w) \/ Close(w) \/ Reap(w)

User ==
  \/ SpectrumClicked \/ CaptureStopped \/ CaptureStarted \/ ScanClicked
  \/ RecordStarted \/ RecordStopped \/ Shutdown

Next ==
  \/ User \/ HandleEnded \/ HandleRecorded
  \/ \E w \in Workers : \/ WorkerSteps(w) \/ ReadChunk(w) \/ LeaveLoopStopped(w)
                       \/ ToolExits(w) \/ ThreadQuits(w)

(* Threads run, queued signals are handled, and a tool that was told to    *)
(* terminate ends; data may stop arriving and the user owes nothing.       *)
Fairness ==
  /\ WF_vars(HandleEnded \/ HandleRecorded)
  /\ \A w \in Workers :
       /\ WF_vars(WorkerSteps(w))
       /\ WF_vars(proc[w] = "asked" /\ ToolExits(w))

Spec == Init /\ [][Next]_vars /\ Fairness

(***************************************************************************)
(* Properties                                                              *)
(***************************************************************************)
(* A worker that reads from a dongle holds its lease, so no two features   *)
(* read from one dongle (acquire_sdr's comment), even though a refused     *)
(* start has already overwritten _device.  A worker in "reap" is excepted: *)
(* _close gives the lease back before it waits for the tool to end, so     *)
(* another feature may open the dongle while the first one's tool holds it.*)
LeaseCoversReading ==
  \A w \in Workers : pc[w] \in Busy \cup {"claimed", "close"} => owners[device[w]] = w

(* A lease is held only by a worker that is using the dongle, apart from   *)
(* the two paths that walk away from it: Popen failing and a slot that     *)
(* raises.                                                                 *)
LeaseIsUsed ==
  \A d \in Devices, w \in Workers :
    owners[d] = w => \/ device[w] = d /\ pc[w] \in Busy \cup {"claimed", "close"}
                     \/ <<w, d>> \in leaked

(* A recording that is open has a capture loop feeding it: when the worker *)
(* has torn its tool down, the file is closed and its sidecar written.     *)
RecordingHasCapture ==
  recorder => pc["capture"] \in Busy \cup {"close"}

(* A sidecar never promises samples its file does not hold, and misses at  *)
(* most the chunk that was being written when the recording was stopped.   *)
SidecarIsTrue ==
  take.sidecar # None => take.file - 1 <= take.sidecar /\ take.sidecar <= take.file

(* When nothing is queued and no worker is between two states, a page that *)
(* offers Stop has a capture running, or its worker's _running was left    *)
(* TRUE by a tool that ended (or a slot that raised) and start is ignored. *)
Settled ==
  signals = <<>> /\ \A w \in Workers : inbox[w] = <<>> /\ pc[w] \in {"idle", "loop"}
NoGhostCapture ==
  Settled => \A w \in Workers : shows[w] => pc[w] = "loop" \/ running[w]

(* Once stop() has cleared the flag of a worker in its read loop, the tool *)
(* ends and the worker is ready for the next start.                        *)
StopTakesEffect ==
  \A w \in Workers :
    (pc[w] = "loop" /\ ~running[w]) ~> (pc[w] = "idle" /\ proc[w] \notin Alive)
=============================================================================
