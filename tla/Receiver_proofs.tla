--------------------------- MODULE Receiver_proofs ---------------------------
(***************************************************************************)
(* The leases of the receivers, their recordings and the claims of their   *)
(* pages, for any set of dongles.  For the leases the inductive            *)
(* invariant joins both directions of the claim: a worker that uses a      *)
(* dongle owns it, and an owner uses it or has walked away from it.        *)
(* Neither is inductive alone: taking a lease is safe because its owner,   *)
(* if any, is known, and giving one back is complete because a worker owns *)
(* at most the dongle it uses and those it has leaked.                     *)
(***************************************************************************)
EXTENDS Receiver, SequenceTheorems, TLAPS

(* A worker is in these places from taking the lease to giving it back.    *)
InUse == Busy \cup {"claimed", "close"}
Places == InUse \cup {"idle", "reap"}

LeaseTypes ==
  /\ owners \in [Devices -> Workers \cup {None}]
  /\ device \in [Workers -> Devices]
  /\ pc \in [Workers -> Places]
  /\ inbox \in [Workers -> Seq(Devices)]

LeaseInv == LeaseTypes /\ LeaseCoversReading /\ LeaseIsUsed

(* A step that touches no lease and no dongle, and that moves workers only *)
(* within the places of use or outside them, keeps the invariant.          *)
LEMMA Quiet ==
  ASSUME LeaseInv,
         owners' = owners, leaked' = leaked, device' = device,
         pc' \in [Workers -> Places], inbox' \in [Workers -> Seq(Devices)],
         \A v \in Workers : pc'[v] \in InUse <=> pc[v] \in InUse
  PROVE  LeaseInv'
  BY DEF LeaseInv, LeaseTypes, LeaseCoversReading, LeaseIsUsed, InUse

(* Init: nobody owns a dongle.                                             *)
LEMMA LeaseInit == Init => LeaseInv
<1> SUFFICES ASSUME Init PROVE LeaseInv
  OBVIOUS
<1>1. LeaseTypes
  BY DevicesAssumption DEF Init, LeaseTypes, Places
<1>2. LeaseCoversReading
  BY DEF Init, LeaseCoversReading, Busy
<1>3. LeaseIsUsed
  BY NoneAssumption DEF Init, LeaseIsUsed, Workers
<1> QED
  BY <1>1, <1>2, <1>3 DEF LeaseInv

(* SdrWorker.start and ScanWorker.start: a lease is taken only from nobody *)
(* or from the same worker, and a refusal changes only what device says of *)
(* a worker that uses none.                                                *)
LEMMA LeaseStart ==
  ASSUME LeaseInv, NEW w \in Workers, Start(w)
  PROVE  LeaseInv'
<1> DEFINE d == Head(inbox[w])
<1>1. /\ d \in Devices /\ pc[w] = "idle" /\ pc[w] \notin InUse
      /\ inbox' \in [Workers -> Seq(Devices)]
  BY DEF LeaseInv, LeaseTypes, Start, InUse, Busy
<1>2. CASE running[w]
  <2>1. UNCHANGED <<owners, leaked, device, pc>>
    BY <1>2 DEF Start
  <2> QED
    BY <2>1, <1>1, Quiet DEF LeaseInv, LeaseTypes
<1>3. CASE ~running[w] /\ AcquireSdr(w, d) /\ Goto(w, "claimed")
  <2>1. device' = [device EXCEPT ![w] = d]
    BY <1>3 DEF Start
  <2>2. LeaseTypes'
    BY <1>1, <1>3, <2>1 DEF LeaseInv, LeaseTypes, AcquireSdr, Goto, Places, InUse
  <2>3. LeaseCoversReading'
    BY <1>1, <1>3, <2>1, NoneAssumption
    DEF LeaseInv, LeaseTypes, LeaseCoversReading, AcquireSdr, MayAcquire, Goto,
        InUse, Workers
  <2>4. LeaseIsUsed'
    BY <1>1, <1>3, <2>1, NoneAssumption
    DEF LeaseInv, LeaseTypes, LeaseIsUsed, AcquireSdr, MayAcquire, Goto, InUse,
        Workers
  <2> QED
    BY <2>2, <2>3, <2>4 DEF LeaseInv
<1>4. CASE ~running[w] /\ UNCHANGED <<owners, leaked, pc>>
  <2>1. device' = [device EXCEPT ![w] = d]
    BY <1>4 DEF Start
  <2>2. LeaseTypes'
    BY <1>1, <1>4, <2>1 DEF LeaseInv, LeaseTypes
  <2>3. LeaseCoversReading'
    BY <1>1, <1>4, <2>1 DEF LeaseInv, LeaseTypes, LeaseCoversReading, InUse
  <2>4. LeaseIsUsed'
    BY <1>1, <1>4, <2>1 DEF LeaseInv, LeaseTypes, LeaseIsUsed, InUse
  <2> QED
    BY <2>2, <2>3, <2>4 DEF LeaseInv
<1> QED
  BY <1>2, <1>3, <1>4 DEF Start

(* The two ways to walk away from a lease are recorded in leaked.          *)
LEMMA LeaseLeaks ==
  ASSUME LeaseInv, NEW w \in Workers, SpawnFailed(w) \/ SlotRaises(w)
  PROVE  LeaseInv'
<1>1. /\ owners' = owners /\ device' = device /\ inbox' = inbox
      /\ leaked' = leaked \cup {<<w, device[w]>>}
      /\ pc' = [pc EXCEPT ![w] = "idle"]
  BY DEF SpawnFailed, SlotRaises, Goto, gui
<1>2. LeaseTypes'
  BY <1>1 DEF LeaseInv, LeaseTypes, Places
<1>3. LeaseCoversReading'
  BY <1>1 DEF LeaseInv, LeaseTypes, LeaseCoversReading, Busy
<1>4. LeaseIsUsed'
  BY <1>1 DEF LeaseInv, LeaseTypes, LeaseIsUsed, Busy
<1> QED
  BY <1>2, <1>3, <1>4 DEF LeaseInv

(* _close gives back the one lease the worker uses.                        *)
LEMMA LeaseClose ==
  ASSUME LeaseInv, NEW w \in Workers, Close(w)
  PROVE  LeaseInv'
<1>1. /\ device' = device /\ inbox' = inbox /\ leaked' = leaked
      /\ pc[w] = "close" /\ pc' = [pc EXCEPT ![w] = "reap"]
      /\ owners' = [owners EXCEPT ![device[w]] = None]
  BY DEF Close, Goto, ReleaseSdr, gui, LeaseInv, LeaseCoversReading, LeaseTypes
<1>2. LeaseTypes'
  BY <1>1 DEF LeaseInv, LeaseTypes, Places
<1>3. LeaseCoversReading'
  BY <1>1 DEF LeaseInv, LeaseTypes, LeaseCoversReading, Busy
<1>4. LeaseIsUsed'
  BY <1>1, NoneAssumption DEF LeaseInv, LeaseTypes, LeaseIsUsed, Workers
<1> QED
  BY <1>2, <1>3, <1>4 DEF LeaseInv

(* A worker's other steps move it within its use of the dongle, or after.  *)
LEMMA LeaseWorks ==
  ASSUME LeaseInv, NEW w \in Workers,
         \/ Spawn(w) \/ EnterLoop(w) \/ ReadChunk(w) \/ RecorderWritten(w)
         \/ RecorderCounted(w) \/ RecorderFailed(w) \/ LeaveLoop(w)
         \/ LeaveLoopStopped(w) \/ Reap(w)
  PROVE  LeaseInv'
<1>1. owners' = owners /\ leaked' = leaked /\ device' = device /\ inbox' = inbox
  BY DEF Spawn, EnterLoop, ReadChunk, RecorderWritten, RecorderCounted,
         RecorderFailed, LeaveLoop, LeaveLoopStopped, Reap, lease
<1>2. \E p \in Places : /\ pc' = [pc EXCEPT ![w] = p]
                        /\ p \in InUse <=> pc[w] \in InUse
  BY DEF Spawn, EnterLoop, ReadChunk, RecorderWritten, RecorderCounted,
         RecorderFailed, LeaveLoop, LeaveLoopStopped, Reap, Goto, Places, InUse, Busy
<1>3. PICK p \in Places : /\ pc' = [pc EXCEPT ![w] = p]
                          /\ p \in InUse <=> pc[w] \in InUse
  BY <1>2
<1>4. /\ pc' \in [Workers -> Places]
      /\ \A v \in Workers : pc'[v] \in InUse <=> pc[v] \in InUse
  BY <1>3 DEF LeaseInv, LeaseTypes
<1> QED
  BY <1>1, <1>4, Quiet DEF LeaseInv, LeaseTypes

(* Everything else only queues, drops or handles messages, or ends tools.  *)
LEMMA LeaseQueues ==
  ASSUME LeaseInv,
         \/ User \/ HandleEnded \/ HandleRecorded
         \/ \E w \in Workers : ToolMissing(w) \/ ToolExits(w) \/ ThreadQuits(w)
  PROVE  LeaseInv'
<1>1. UNCHANGED <<owners, leaked, device, pc>>
  BY DEF User, SpectrumClicked, CaptureStopped, CaptureStarted, ScanClicked,
         RecordStarted, RecordStopped, Shutdown, HandleEnded, HandleRecorded,
         ToolMissing, ToolExits, ThreadQuits, lease
<1>2. inbox' \in [Workers -> Seq(Devices)]
  <2>1. CASE User
    <3>1. \/ inbox' = inbox
          \/ \E v \in Workers, d \in Devices : QueueStart(v, d)
      BY <2>1, DevicesAssumption
      DEF User, SpectrumClicked, CaptureStopped, CaptureStarted, ScanClicked,
          RecordStarted, RecordStopped, Shutdown, Workers
    <3>2. ASSUME NEW v \in Workers, NEW d \in Devices, QueueStart(v, d)
          PROVE  inbox' \in [Workers -> Seq(Devices)]
      <4>1. Append(inbox[v], d) \in Seq(Devices)
        BY DEF LeaseInv, LeaseTypes
      <4> QED
        BY <3>2, <4>1 DEF QueueStart, LeaseInv, LeaseTypes
    <3> QED
      BY <3>1, <3>2 DEF LeaseInv, LeaseTypes
  <2>2. CASE HandleEnded \/ HandleRecorded
    BY <2>2 DEF HandleEnded, HandleRecorded, LeaseInv, LeaseTypes
  <2>3. CASE \E w \in Workers : ToolMissing(w) \/ ToolExits(w) \/ ThreadQuits(w)
    <3>1. PICK w \in Workers : ToolMissing(w) \/ ToolExits(w) \/ ThreadQuits(w)
      BY <2>3
    <3>2. CASE ToolMissing(w)
      <4>1. Tail(inbox[w]) \in Seq(Devices)
        BY <3>2 DEF ToolMissing, LeaseInv, LeaseTypes
      <4> QED
        BY <3>2, <4>1 DEF ToolMissing, LeaseInv, LeaseTypes
    <3>3. CASE ToolExits(w) \/ ThreadQuits(w)
      <4>1. <<>> \in Seq(Devices)
        OBVIOUS
      <4> QED
        BY <3>3, <4>1 DEF ToolExits, ThreadQuits, LeaseInv, LeaseTypes
    <3> QED
      BY <3>1, <3>2, <3>3
  <2> QED
    BY <2>1, <2>2, <2>3
<1> QED
  BY <1>1, <1>2, Quiet DEF LeaseInv, LeaseTypes

(* A worker that reads from a dongle holds its lease, and every lease that *)
(* is held is used or was walked away from, for any number of dongles.     *)
THEOREM LeaseInvariant == Spec => []LeaseInv
<1>1. LeaseInv /\ [Next]_vars => LeaseInv'
  <2> SUFFICES ASSUME LeaseInv, [Next]_vars PROVE LeaseInv'
    OBVIOUS
  <2>1. CASE UNCHANGED vars
    BY <2>1, Quiet DEF vars, LeaseInv, LeaseTypes
  <2>2. CASE Next
    BY <2>2, LeaseStart, LeaseLeaks, LeaseClose, LeaseWorks, LeaseQueues
    DEF Next, WorkerSteps
  <2> QED
    BY <2>1, <2>2
<1> QED
  BY <1>1, LeaseInit, PTL DEF Spec

(* acquire_sdr: no feature reads from a dongle it does not hold.           *)
THEOREM ReadersHoldLeases == Spec => []LeaseCoversReading
<1>1. LeaseInv => LeaseCoversReading
  BY DEF LeaseInv
<1> QED
  BY <1>1, LeaseInvariant, PTL

(* release_sdr: leases leak on the two recorded paths only.                *)
THEOREM LeasesAreReturned == Spec => []LeaseIsUsed
<1>1. LeaseInv => LeaseIsUsed
  BY DEF LeaseInv
<1> QED
  BY <1>1, LeaseInvariant, PTL

-----------------------------------------------------------------------------
(* Recordings.  A sidecar is true because the file is ahead of the count   *)
(* only while the worker is between writing a chunk and counting it, only  *)
(* the SIGINT capture ever is, and an open recorder has no sidecar yet.    *)
Recorders == {"write", "count"}

TakeInv ==
  /\ take \in [file : Nat, samples : Nat, sidecar : Nat \cup {None}]
  /\ take.file = take.samples + (IF pc["capture"] = "count" THEN 1 ELSE 0)
  /\ recorder => take.sidecar = None

RecordInv ==
  /\ pc \in [Workers -> Places]
  /\ \A v \in Workers : pc[v] \in Recorders => v = "capture"
  /\ TakeInv /\ SidecarIsTrue /\ RecordingHasCapture

(* A step that leaves recorder and files alone, and moves a worker neither *)
(* to nor from the counting of a chunk nor away from an open recorder.     *)
LEMMA RecordQuiet ==
  ASSUME RecordInv, recorder' = recorder, take' = take,
         NEW w \in Workers, NEW p \in Places, pc' = [pc EXCEPT ![w] = p],
         pc[w] # "count", p # "count", p = "write" => w = "capture",
         w = "capture" /\ recorder => p \in Busy \cup {"close"}
  PROVE  RecordInv'
<1>1. "capture" \in Workers
  BY DEF Workers
<1>2. pc'["capture"] = "count" <=> pc["capture"] = "count"
  BY <1>1 DEF RecordInv
<1>3. pc' \in [Workers -> Places]
  BY DEF RecordInv
<1>4. \A v \in Workers : pc'[v] \in Recorders => v = "capture"
  BY DEF RecordInv, Recorders
<1>5. TakeInv' /\ SidecarIsTrue'
  BY <1>2 DEF RecordInv, TakeInv, SidecarIsTrue
<1>6. RecordingHasCapture'
  BY <1>1 DEF RecordInv, RecordingHasCapture
<1> QED
  BY <1>3, <1>4, <1>5, <1>6 DEF RecordInv

(* Init: there is no recording.                                            *)
LEMMA RecordInit == Init => RecordInv
  BY DEF Init, RecordInv, TakeInv, SidecarIsTrue, RecordingHasCapture, NoTake,
         Places, Recorders, Workers

(* Steps of a worker that do not touch the recorder.                       *)
LEMMA RecordWorks ==
  ASSUME RecordInv, NEW w \in Workers,
         \/ Start(w) \/ Spawn(w) \/ SpawnFailed(w) \/ ReadChunk(w)
         \/ SlotRaises(w) \/ LeaveLoop(w) \/ LeaveLoopStopped(w) \/ Reap(w)
  PROVE  RecordInv'
<1>1. recorder' = recorder /\ take' = take
  BY DEF Start, Spawn, SpawnFailed, ReadChunk, SlotRaises, LeaveLoop,
         LeaveLoopStopped, Reap, disk
<1>2. \E p \in Places : /\ pc' = [pc EXCEPT ![w] = p]
                        /\ pc[w] # "count" /\ p # "count"
                        /\ p = "write" => w = "capture"
                        /\ w = "capture" /\ recorder => p \in Busy \cup {"close"}
  BY DEF Start, Spawn, SpawnFailed, ReadChunk, SlotRaises, LeaveLoop,
         LeaveLoopStopped, Reap, Goto, Places, InUse, Busy, RecordInv,
         RecordingHasCapture
<1> QED
  BY <1>1, <1>2, RecordQuiet

(* The armed recorder is opened before the loop, over an earlier file.     *)
LEMMA RecordOpens ==
  ASSUME RecordInv, NEW w \in Workers, EnterLoop(w)
  PROVE  RecordInv'
<1>1. /\ pc[w] = "opened" /\ pc' = [pc EXCEPT ![w] = "loop"]
      /\ "loop" \in Places /\ "loop" \in Busy
  BY DEF EnterLoop, Goto, Places, InUse, Busy
<1>2. CASE recorder' = recorder /\ take' = take
  BY <1>1, <1>2, RecordQuiet
<1>3. CASE w = "capture" /\ NewRecorder
  <2>1. /\ pc' \in [Workers -> Places] /\ pc'["capture"] = "loop"
        /\ \A v \in Workers : pc'[v] \in Recorders => v = "capture"
    BY <1>1, <1>3 DEF RecordInv, Recorders
  <2>2. TakeInv' /\ SidecarIsTrue' /\ RecordingHasCapture'
    BY <1>3, <2>1 DEF NewRecorder, NoTake, TakeInv, SidecarIsTrue,
                      RecordingHasCapture, Busy
  <2> QED
    BY <2>1, <2>2 DEF RecordInv
<1> QED
  BY <1>2, <1>3 DEF EnterLoop, OpenRecorder

(* A chunk is written, then counted; only the capture gets here.           *)
LEMMA RecordChunks ==
  ASSUME RecordInv, NEW w \in Workers, RecorderWritten(w) \/ RecorderCounted(w)
  PROVE  RecordInv'
<1>1. w = "capture"
  BY DEF RecordInv, RecorderWritten, RecorderCounted, Recorders
<1>2. CASE RecorderWritten(w)
  <2>1. /\ pc' \in [Workers -> Places] /\ pc'["capture"] = "count"
        /\ pc["capture"] = "write" /\ recorder /\ recorder' = recorder
        /\ \A v \in Workers : pc'[v] \in Recorders => v = "capture"
    BY <1>1, <1>2 DEF RecordInv, Recorders, RecorderWritten, Goto, Places, InUse, Busy
  <2>2. TakeInv' /\ SidecarIsTrue' /\ RecordingHasCapture'
    BY <1>2, <2>1 DEF RecordInv, RecorderWritten, TakeInv, SidecarIsTrue,
                      RecordingHasCapture, Busy
  <2> QED
    BY <2>1, <2>2 DEF RecordInv
<1>3. CASE RecorderCounted(w)
  <2>1. /\ pc' \in [Workers -> Places] /\ pc'["capture"] = "loop"
        /\ pc["capture"] = "count" /\ recorder' = recorder
        /\ \A v \in Workers : pc'[v] \in Recorders => v = "capture"
    BY <1>1, <1>3 DEF RecordInv, Recorders, RecorderCounted, Goto, Places, InUse, Busy
  <2>2. TakeInv' /\ SidecarIsTrue' /\ RecordingHasCapture'
    BY <1>3, <2>1 DEF RecordInv, RecorderCounted, TakeInv, SidecarIsTrue,
                      RecordingHasCapture, Busy
  <2> QED
    BY <2>1, <2>2 DEF RecordInv
<1> QED
  BY <1>2, <1>3

(* The recorder goes without a sidecar, because a write raised.            *)
LEMMA RecordFails ==
  ASSUME RecordInv, NEW w \in Workers, RecorderFailed(w)
  PROVE  RecordInv'
<1>1. /\ w = "capture" /\ pc["capture"] = "write"
      /\ pc' = [pc EXCEPT !["capture"] = "loop"]
      /\ recorder' = FALSE /\ take' = take
  BY DEF RecordInv, RecorderFailed, Goto, Recorders
<1>2. /\ pc' \in [Workers -> Places] /\ pc'["capture"] = "loop"
      /\ \A v \in Workers : pc'[v] \in Recorders => v = "capture"
  BY <1>1 DEF RecordInv, Recorders, Places, InUse, Busy
<1>3. TakeInv' /\ SidecarIsTrue' /\ RecordingHasCapture'
  BY <1>1, <1>2 DEF RecordInv, TakeInv, SidecarIsTrue, RecordingHasCapture
<1> QED
  BY <1>2, <1>3 DEF RecordInv

(* IqRecorder.close, whichever thread calls it: the sidecar gets the count *)
(* of the moment, which is the file's or one chunk behind it.              *)
LEMMA RecordCloses ==
  ASSUME RecordInv, CloseRecorder, recorder, pc' \in [Workers -> Places],
         pc'["capture"] = "count" <=> pc["capture"] = "count",
         \A v \in Workers : pc'[v] \in Recorders => v = "capture"
  PROVE  RecordInv'
<1>1. recorder' = FALSE /\ take' = [take EXCEPT !.sidecar = take.samples]
  BY DEF CloseRecorder
<1>2. TakeInv' /\ SidecarIsTrue' /\ RecordingHasCapture'
  BY <1>1 DEF RecordInv, TakeInv, SidecarIsTrue, RecordingHasCapture
<1> QED
  BY <1>2 DEF RecordInv

(* _close finishes the recording before anything else.                     *)
LEMMA RecordClose ==
  ASSUME RecordInv, NEW w \in Workers, Close(w)
  PROVE  RecordInv'
<1>1. /\ pc[w] = "close" /\ pc' = [pc EXCEPT ![w] = "reap"] /\ "reap" \in Places
  BY DEF Close, Goto, Places
<1>2. CASE w = "capture" /\ recorder
  <2>1. CloseRecorder
    BY <1>2 DEF Close, FinishRecording
  <2>2. /\ pc' \in [Workers -> Places]
        /\ pc'["capture"] = "count" <=> pc["capture"] = "count"
        /\ \A v \in Workers : pc'[v] \in Recorders => v = "capture"
    BY <1>1, <1>2 DEF RecordInv, Recorders
  <2> QED
    BY <1>2, <2>1, <2>2, RecordCloses
<1>3. CASE ~(w = "capture" /\ recorder)
  <2>1. recorder' = recorder /\ take' = take
    BY <1>3 DEF Close, FinishRecording
  <2> QED
    BY <1>1, <1>3, <2>1, RecordQuiet
<1> QED
  BY <1>2, <1>3

(* The GUI thread touches the recording only by stop_recording.            *)
LEMMA RecordStops ==
  ASSUME RecordInv,
         \/ User \/ HandleEnded \/ HandleRecorded
         \/ \E w \in Workers : ToolMissing(w) \/ ToolExits(w) \/ ThreadQuits(w)
  PROVE  RecordInv'
<1>1. pc' = pc
  BY DEF User, SpectrumClicked, CaptureStopped, CaptureStarted, ScanClicked,
         RecordStarted, RecordStopped, Shutdown, HandleEnded, HandleRecorded,
         ToolMissing, ToolExits, ThreadQuits
<1>2. \/ recorder /\ CloseRecorder
      \/ recorder' = recorder /\ take' = take
  BY DEF User, SpectrumClicked, CaptureStopped, CaptureStarted, ScanClicked,
         RecordStarted, RecordStopped, Shutdown, HandleEnded, HandleRecorded,
         ToolMissing, ToolExits, ThreadQuits, disk
<1>3. CASE recorder /\ CloseRecorder
  BY <1>1, <1>3, RecordCloses DEF RecordInv
<1>4. CASE recorder' = recorder /\ take' = take
  BY <1>1, <1>4 DEF RecordInv, TakeInv, SidecarIsTrue, RecordingHasCapture
<1> QED
  BY <1>2, <1>3, <1>4

(* Recordings in every reachable state.                                    *)
THEOREM RecordInvariant == Spec => []RecordInv
<1>1. RecordInv /\ [Next]_vars => RecordInv'
  <2> SUFFICES ASSUME RecordInv, [Next]_vars PROVE RecordInv'
    OBVIOUS
  <2>1. CASE UNCHANGED vars
    BY <2>1 DEF vars, RecordInv, TakeInv, SidecarIsTrue, RecordingHasCapture
  <2>2. CASE Next
    BY <2>2, RecordWorks, RecordOpens, RecordChunks, RecordFails, RecordClose,
       RecordStops
    DEF Next, WorkerSteps
  <2> QED
    BY <2>1, <2>2
<1> QED
  BY <1>1, RecordInit, PTL DEF Spec

(* IqRecorder: a sidecar never promises samples the file does not hold.    *)
THEOREM SidecarsAreTrue == Spec => []SidecarIsTrue
<1>1. RecordInv => SidecarIsTrue
  BY DEF RecordInv
<1> QED
  BY <1>1, RecordInvariant, PTL

(* SdrWorker._close: no recording outlives its capture.                    *)
THEOREM RecordingsEnd == Spec => []RecordingHasCapture
<1>1. RecordInv => RecordingHasCapture
  BY DEF RecordInv
<1> QED
  BY <1>1, RecordInvariant, PTL

-----------------------------------------------------------------------------
(* Ghost captures.  A page that offers Stop has a reason to: its start is  *)
(* queued, its worker says it runs, is on its way into or out of the loop, *)
(* or has a signal under way that ends the claim.  Stopping clears the     *)
(* flag only together with the claim, or with a new start in the queue.    *)
Notices == Workers \X {"ended", "recorded"}
Ended(w) == \E i \in DOMAIN signals : signals[i] = <<w, "ended">>
Explained(w) ==
  inbox[w] # <<>> \/ running[w] \/ pc[w] \in {"claimed", "opened", "close", "reap"} \/ Ended(w)

GhostTypes ==
  /\ pc \in [Workers -> Places] /\ running \in [Workers -> BOOLEAN]
  /\ shows \in [Workers -> BOOLEAN] /\ inbox \in [Workers -> Seq(Devices)]
  /\ signals \in Seq(Notices) /\ closed \in BOOLEAN

GhostInv ==
  /\ GhostTypes
  /\ closed => \A v \in Workers : ~shows[v]
  /\ \A v \in Workers : shows[v] => Explained(v)

(* What a longer queue holds.                                              *)
LEMMA QueueGrows ==
  ASSUME NEW S, NEW q \in Seq(S), NEW t \in Seq(S)
  PROVE  /\ q \o t \in Seq(S) /\ Len(q) \in Nat /\ Len(t) \in Nat
         /\ DOMAIN q = 1..Len(q) /\ DOMAIN (q \o t) = 1..(Len(q) + Len(t))
         /\ \A i \in 1..Len(q) : (q \o t)[i] = q[i]
         /\ \A i \in 1..Len(t) : (q \o t)[Len(q) + i] = t[i]
<1>1. /\ q \o t \in Seq(S) /\ Len(q) \in Nat /\ Len(t) \in Nat
      /\ DOMAIN q = 1..Len(q) /\ DOMAIN (q \o t) = 1..(Len(q) + Len(t))
      /\ \A i \in 1..Len(q) : (q \o t)[i] = q[i]
  OBVIOUS
<1>2. ASSUME NEW i \in 1..Len(t)
      PROVE  (q \o t)[Len(q) + i] = t[i]
  <2>1. \A j \in 1 .. Len(q) + Len(t) : (q \o t)[j] = IF j <= Len(q) THEN q[j] ELSE t[j - Len(q)]
    BY ConcatProperties, Zenon
  <2>2. PICK k \in 1 .. Len(q) + Len(t) : k = Len(q) + i /\ ~(k <= Len(q)) /\ k - Len(q) = i
    BY <1>1
  <2>3. (q \o t)[k] = IF k <= Len(q) THEN q[k] ELSE t[k - Len(q)]
    BY <2>1, Zenon
  <2>4. (q \o t)[k] = t[k - Len(q)]
    BY <2>2, <2>3, Zenon
  <2> QED
    BY <2>2, <2>4
<1> QED
  BY <1>1, <1>2

(* Emit keeps what is queued, and adds its signal unless nobody listens.   *)
LEMMA EmitFacts ==
  ASSUME GhostTypes, NEW w \in Workers, NEW kind \in {"ended", "recorded"}, Emit(<<<<w, kind>>>>)
  PROVE  /\ signals' \in Seq(Notices)
         /\ ~closed => /\ \A v \in Workers : Ended(v) => Ended(v)'
                       /\ kind = "ended" => Ended(w)'
<1> DEFINE n == <<w, kind>>
           s == <<n>>
<1>1. n \in Notices
  BY DEF Notices
<1>2. signals' = IF closed THEN <<>> ELSE signals \o s
  BY DEF Emit
<1>3. kind = "ended" => n = <<w, "ended">>
  OBVIOUS
<1>4. signals \in Seq(Notices)
  BY DEF GhostTypes
<1> HIDE DEF n
<1>5. s \in Seq(Notices) /\ Len(s) = 1 /\ s[1] = n
  BY <1>1
<1> HIDE DEF s
<1>6. CASE closed
  BY <1>2, <1>6
<1>7. CASE ~closed
  <2>1. /\ signals' = signals \o s /\ signals' \in Seq(Notices)
        /\ DOMAIN signals' = 1..Len(signals) + 1 /\ DOMAIN signals = 1..Len(signals)
        /\ Len(signals) \in Nat
        /\ \A i \in 1..Len(signals) : signals'[i] = signals[i]
        /\ signals'[Len(signals) + 1] = n
    <3>1. signals' = signals \o s
      BY <1>2, <1>7
    <3>2. /\ signals \o s \in Seq(Notices) /\ Len(signals) \in Nat
          /\ DOMAIN signals = 1..Len(signals) /\ DOMAIN (signals \o s) = 1..(Len(signals) + 1)
          /\ \A i \in 1..Len(signals) : (signals \o s)[i] = signals[i]
          /\ \A i \in 1..1 : (signals \o s)[Len(signals) + i] = s[i]
      <4>1. /\ signals \o s \in Seq(Notices) /\ Len(signals) \in Nat
            /\ DOMAIN signals = 1..Len(signals)
            /\ DOMAIN (signals \o s) = 1..(Len(signals) + Len(s))
            /\ \A i \in 1..Len(signals) : (signals \o s)[i] = signals[i]
            /\ \A i \in 1..Len(s) : (signals \o s)[Len(signals) + i] = s[i]
        <5>1. s \in Seq(Notices)
          BY <1>5
        <5> QED
          BY <1>4, <5>1, QueueGrows
      <4> QED
        BY <1>5, <4>1, Zenon
    <3>3. 1 \in 1..1
      OBVIOUS
    <3> QED
      BY <1>5, <3>1, <3>2, <3>3, Zenon
  <2>2. \A v \in Workers : Ended(v) => Ended(v)'
    BY <2>1 DEF Ended
  <2>3. ASSUME kind = "ended" PROVE Ended(w)'
    <3>1. n = <<w, "ended">>
      BY <1>3, <2>3
    <3>2. Len(signals) + 1 \in DOMAIN signals' /\ signals'[Len(signals) + 1] = <<w, "ended">>
      BY <2>1, <3>1
    <3> QED
      BY <3>2 DEF Ended
  <2> QED
    BY <2>1, <2>2, <2>3
<1> QED
  BY <1>6, <1>7

(* A step that takes no claim and no reason away.                          *)
LEMMA GhostQuiet ==
  ASSUME GhostInv, GhostTypes', closed' = closed,
         \A v \in Workers : shows'[v] => shows[v],
         ~closed => \A v \in Workers : Explained(v) => Explained(v)'
  PROVE  GhostInv'
  BY DEF GhostInv

LEMMA GhostInit == Init => GhostInv
<1> SUFFICES ASSUME Init PROVE GhostInv
  OBVIOUS
<1>1. /\ pc \in [Workers -> Places] /\ inbox \in [Workers -> Seq(Devices)]
      /\ signals \in Seq(Notices)
  BY DEF Init, Places
<1>2. /\ running \in [Workers -> BOOLEAN] /\ shows \in [Workers -> BOOLEAN] /\ closed \in BOOLEAN
      /\ \A v \in Workers : ~shows[v]
  BY DEF Init
<1> QED
  BY <1>1, <1>2 DEF GhostInv, GhostTypes

(* A queued start is taken up: the worker already runs, enters, or says no.*)
LEMMA GhostStart ==
  ASSUME GhostInv, NEW w \in Workers, Start(w) \/ ToolMissing(w)
  PROVE  GhostInv'
<1>0. GhostTypes
  BY DEF GhostInv
<1>1. /\ inbox' = [inbox EXCEPT ![w] = Tail(@)] /\ inbox[w] # <<>>
      /\ UNCHANGED <<running, shows, closed>> /\ pc[w] = "idle"
  BY DEF Start, ToolMissing, gui
<1>2. inbox' \in [Workers -> Seq(Devices)]
  <2>1. Tail(inbox[w]) \in Seq(Devices)
    BY <1>0, <1>1 DEF GhostTypes
  <2> QED
    BY <1>0, <1>1, <2>1 DEF GhostTypes
<1>3. \A v \in Workers : v # w => inbox'[v] = inbox[v]
  BY <1>0, <1>1 DEF GhostTypes
<1>4. CASE running[w] /\ UNCHANGED <<pc, signals>>
  <2>1. GhostTypes'
    BY <1>0, <1>1, <1>2, <1>4 DEF GhostTypes
  <2>2. \A v \in Workers : Explained(v) => Explained(v)'
    BY <1>1, <1>3, <1>4 DEF Explained, Ended
  <2> QED
    BY <1>1, <2>1, <2>2, GhostQuiet
<1>5. CASE Goto(w, "claimed") /\ UNCHANGED signals
  <2>1. pc' \in [Workers -> Places] /\ pc'[w] = "claimed" /\ \A v \in Workers : v # w => pc'[v] = pc[v]
    BY <1>0, <1>5 DEF GhostTypes, Goto, Places, InUse
  <2>2. GhostTypes'
    BY <1>0, <1>1, <1>2, <1>5, <2>1 DEF GhostTypes
  <2>3. \A v \in Workers : Explained(v) => Explained(v)'
    BY <1>1, <1>3, <1>5, <2>1 DEF Explained, Ended
  <2> QED
    BY <1>1, <2>2, <2>3, GhostQuiet
<1>6. CASE Emit(<<<<w, "ended">>>>) /\ UNCHANGED pc
  <2>1. /\ signals' \in Seq(Notices)
        /\ ~closed => (\A v \in Workers : Ended(v) => Ended(v)') /\ Ended(w)'
    BY <1>0, <1>6, EmitFacts
  <2>2. GhostTypes'
    BY <1>0, <1>1, <1>2, <1>6, <2>1 DEF GhostTypes
  <2>3. ~closed => \A v \in Workers : Explained(v) => Explained(v)'
    BY <1>1, <1>3, <1>6, <2>1 DEF Explained
  <2> QED
    BY <1>1, <2>2, <2>3, GhostQuiet
<1> QED
  BY <1>4, <1>5, <1>6 DEF Start, ToolMissing

(* Steps that move a worker without a word: into the loop and within it,   *)
(* and out of it towards _close.                                           *)
LEMMA GhostWorks ==
  ASSUME GhostInv, NEW w \in Workers,
         \/ Spawn(w) \/ ReadChunk(w) \/ RecorderWritten(w) \/ RecorderCounted(w)
         \/ SlotRaises(w) \/ LeaveLoop(w) \/ LeaveLoopStopped(w) \/ ToolExits(w)
  PROVE  GhostInv'
<1>0. GhostTypes
  BY DEF GhostInv
<1>1. UNCHANGED <<running, shows, closed, inbox, signals>>
  BY DEF Spawn, ReadChunk, RecorderWritten, RecorderCounted, SlotRaises, LeaveLoop,
         LeaveLoopStopped, ToolExits, gui
<1>2. PICK p \in Places : /\ pc' = [pc EXCEPT ![w] = p]
                          /\ pc[w] \in {"claimed", "opened", "close", "reap"}
                               => p \in {"claimed", "opened", "close", "reap"}
  <2>1. ToolExits(w) => pc' = [pc EXCEPT ![w] = pc[w]] /\ pc[w] \in Places
    BY <1>0 DEF ToolExits, GhostTypes
  <2> QED
    BY <2>1 DEF Spawn, ReadChunk, RecorderWritten, RecorderCounted, SlotRaises, LeaveLoop,
         LeaveLoopStopped, Goto, Places, InUse, Busy
<1>3. /\ pc' \in [Workers -> Places] /\ pc'[w] = p
      /\ \A v \in Workers : v # w => pc'[v] = pc[v]
  BY <1>0, <1>2 DEF GhostTypes
<1>4. GhostTypes'
  BY <1>0, <1>1, <1>3 DEF GhostTypes
<1>5. \A v \in Workers : Explained(v) => Explained(v)'
  BY <1>1, <1>2, <1>3 DEF Explained, Ended
<1> QED
  BY <1>1, <1>4, <1>5, GhostQuiet

(* The worker says that it runs.                                           *)
LEMMA GhostEnters ==
  ASSUME GhostInv, NEW w \in Workers, EnterLoop(w)
  PROVE  GhostInv'
<1>0. GhostTypes
  BY DEF GhostInv
<1>1. /\ UNCHANGED <<shows, closed, inbox>> /\ running' = [running EXCEPT ![w] = TRUE]
      /\ pc' = [pc EXCEPT ![w] = "loop"]
  BY DEF EnterLoop, Goto
<1>2. /\ pc' \in [Workers -> Places] /\ running' \in [Workers -> BOOLEAN] /\ running'[w]
      /\ \A v \in Workers : v # w => pc'[v] = pc[v] /\ running'[v] = running[v]
  BY <1>0, <1>1 DEF GhostTypes, Places, InUse, Busy
<1>3. /\ signals' \in Seq(Notices)
      /\ ~closed => \A v \in Workers : Ended(v) => Ended(v)'
  <2>1. CASE UNCHANGED signals
    BY <1>0, <2>1 DEF GhostTypes, Ended
  <2>2. CASE Emit(<<<<w, "recorded">>>>)
    BY <1>0, <2>2, EmitFacts
  <2> QED
    BY <2>1, <2>2 DEF EnterLoop, OpenRecorder
<1>4. GhostTypes'
  BY <1>0, <1>1, <1>2, <1>3 DEF GhostTypes
<1>5. ~closed => \A v \in Workers : Explained(v) => Explained(v)'
  BY <1>1, <1>2, <1>3 DEF Explained
<1> QED
  BY <1>1, <1>4, <1>5, GhostQuiet

(* Steps that report: the page will hear of the end of every slot that     *)
(* leaves through an error or through _close.                              *)
LEMMA GhostReports ==
  ASSUME GhostInv, NEW w \in Workers,
         SpawnFailed(w) \/ RecorderFailed(w) \/ Close(w) \/ Reap(w)
  PROVE  GhostInv'
<1>0. GhostTypes
  BY DEF GhostInv
<1>1. UNCHANGED <<running, shows, closed, inbox>>
  BY DEF SpawnFailed, RecorderFailed, Close, Reap, gui
<1>2. PICK p \in Places : /\ pc' = [pc EXCEPT ![w] = p]
                          /\ pc[w] \in {"claimed", "opened", "close", "reap"}
                               => p = "reap" \/ Emit(<<<<w, "ended">>>>)
  BY DEF SpawnFailed, RecorderFailed, Close, Reap, Goto, Places, InUse, Busy
<1>3. /\ pc' \in [Workers -> Places] /\ pc'[w] = p
      /\ \A v \in Workers : v # w => pc'[v] = pc[v]
  BY <1>0, <1>2 DEF GhostTypes
<1>4. /\ signals' \in Seq(Notices)
      /\ ~closed => \A v \in Workers : Ended(v) => Ended(v)'
      /\ ~closed /\ Emit(<<<<w, "ended">>>>) => Ended(w)'
  <2>1. CASE UNCHANGED signals /\ ~Emit(<<<<w, "ended">>>>)
    BY <1>0, <2>1 DEF GhostTypes, Ended
  <2>2. CASE Emit(<<<<w, "recorded">>>>) /\ ~Emit(<<<<w, "ended">>>>)
    BY <1>0, <2>2, EmitFacts
  <2>3. CASE Emit(<<<<w, "ended">>>>)
    BY <1>0, <2>3, EmitFacts
  <2> QED
    BY <2>1, <2>2, <2>3 DEF SpawnFailed, RecorderFailed, Close, Reap, FinishRecording
<1>5. GhostTypes'
  BY <1>0, <1>1, <1>3, <1>4 DEF GhostTypes
<1>6. ~closed => \A v \in Workers : Explained(v) => Explained(v)'
  BY <1>1, <1>2, <1>3, <1>4 DEF Explained
<1> QED
  BY <1>1, <1>5, <1>6, GhostQuiet

(* The queue after its first signal: what else was in it still is.         *)
LEMMA QueueShrinks ==
  ASSUME NEW S, NEW q \in Seq(S), q # <<>>
  PROVE  /\ Head(q) \in S /\ Tail(q) \in Seq(S)
         /\ \A j \in DOMAIN q : q[j] # Head(q) => \E i \in DOMAIN Tail(q) : Tail(q)[i] = q[j]
<1>1. /\ Head(q) \in S /\ Tail(q) \in Seq(S) /\ Len(Tail(q)) = Len(q) - 1
      /\ \A i \in 1..Len(Tail(q)) : Tail(q)[i] = q[i + 1]
  BY HeadTailProperties, Zenon
<1>2. /\ Len(q) \in Nat /\ DOMAIN q = 1..Len(q) /\ DOMAIN Tail(q) = 1..Len(Tail(q))
      /\ Head(q) = q[1]
  BY <1>1
<1>3. ASSUME NEW j \in DOMAIN q, q[j] # Head(q)
      PROVE  \E i \in DOMAIN Tail(q) : Tail(q)[i] = q[j]
  <2>1. j \in 1..Len(q) /\ j # 1
    BY <1>2, <1>3
  <2>2. PICK i \in 1..Len(Tail(q)) : i + 1 = j
    <3>1. j - 1 \in 1..Len(Tail(q)) /\ (j - 1) + 1 = j
      BY <1>1, <1>2, <2>1
    <3> QED
      BY <3>1
  <2>3. Tail(q)[i] = q[i + 1]
    BY <1>1, Zenon
  <2> QED
    BY <1>2, <2>2, <2>3
<1> QED
  BY <1>1, <1>3

(* A page hears of an end: its claim goes, and only its claim.             *)
LEMMA GhostHandles ==
  ASSUME GhostInv, HandleEnded \/ HandleRecorded
  PROVE  GhostInv'
<1>0. GhostTypes
  BY DEF GhostInv
<1>1. /\ UNCHANGED <<inbox, pc, running, closed>> /\ signals # <<>> /\ signals' = Tail(signals)
  BY DEF HandleEnded, HandleRecorded
<1>2. signals \in Seq(Notices)
  BY <1>0 DEF GhostTypes
<1>3. /\ Head(signals) \in Notices /\ Tail(signals) \in Seq(Notices)
      /\ \A j \in DOMAIN signals : signals[j] # Head(signals)
            => \E i \in DOMAIN Tail(signals) : Tail(signals)[i] = signals[j]
  BY <1>1, <1>2, QueueShrinks
<1>4. PICK w \in Workers, kind \in {"ended", "recorded"} : Head(signals) = <<w, kind>>
  BY <1>3 DEF Notices
<1>5. \A v \in Workers : <<v, "ended">> # Head(signals) /\ Ended(v) => Ended(v)'
  BY <1>1, <1>3, Zenon DEF Ended
<1>6. CASE kind = "ended"
  <2>1. Head(signals)[1] = w /\ Head(signals)[2] = "ended"
    BY <1>4, <1>6
  <2>2. shows' = [shows EXCEPT ![w] = FALSE]
    BY <2>1 DEF HandleEnded, HandleRecorded
  <2>3. /\ shows' \in [Workers -> BOOLEAN] /\ ~shows'[w]
        /\ \A v \in Workers : v # w => shows'[v] = shows[v]
    BY <1>0, <2>2 DEF GhostTypes
  <2>4. \A v \in Workers : v # w => <<v, "ended">> # Head(signals)
    BY <1>4
  <2>5. GhostTypes'
    BY <1>0, <1>1, <1>3, <2>3 DEF GhostTypes
  <2>6. \A v \in Workers : shows'[v] => shows[v] /\ Explained(v)'
    BY <1>1, <1>5, <2>3, <2>4 DEF Explained, GhostInv
  <2> QED
    BY <1>1, <2>5, <2>6 DEF GhostInv
<1>7. CASE kind = "recorded"
  <2>1. Head(signals)[2] = "recorded"
    BY <1>4, <1>7
  <2>2. shows' = shows
    BY <2>1 DEF HandleEnded, HandleRecorded
  <2>3. \A v \in Workers : <<v, "ended">> # Head(signals)
    BY <1>4, <1>7
  <2>4. GhostTypes'
    BY <1>0, <1>1, <1>3, <2>2 DEF GhostTypes
  <2>5. \A v \in Workers : Explained(v) => Explained(v)'
    BY <1>1, <1>5, <2>3 DEF Explained
  <2> QED
    BY <1>1, <2>2, <2>4, <2>5, GhostQuiet
<1> QED
  BY <1>4, <1>6, <1>7

(* What a queued start does to the inboxes.                                *)
LEMMA StartQueued ==
  ASSUME GhostTypes, NEW v \in Workers, NEW d \in Devices, QueueStart(v, d)
  PROVE  /\ inbox' \in [Workers -> Seq(Devices)] /\ inbox'[v] # <<>>
         /\ \A u \in Workers : inbox[u] # <<>> => inbox'[u] # <<>>
<1>1. inbox[v] \in Seq(Devices)
  BY DEF GhostTypes
<1>2. Append(inbox[v], d) \in Seq(Devices) /\ Append(inbox[v], d) # <<>>
  BY <1>1, AppendProperties, Zenon
<1> QED
  BY <1>2 DEF QueueStart, GhostTypes

(* The user: a page that says Stop after a click said it before and lost   *)
(* nothing, or its start is queued.                                        *)
LEMMA GhostClicks ==
  ASSUME GhostInv, closed' = closed, ~closed, UNCHANGED <<pc, signals>>,
         NEW W \in SUBSET Workers,
         running' = [w \in Workers |-> running[w] /\ w \notin W],
         shows' \in [Workers -> BOOLEAN],
         inbox' = inbox \/ \E u \in Workers, d \in Devices : QueueStart(u, d),
         \A v \in Workers : shows'[v] => (shows[v] /\ v \notin W)
                                         \/ \E d \in Devices : QueueStart(v, d)
  PROVE  GhostInv'
<1>0. GhostTypes
  BY DEF GhostInv
<1>1. running' \in [Workers -> BOOLEAN] /\ \A v \in Workers : v \notin W => running'[v] = running[v]
  BY <1>0 DEF GhostTypes
<1>2. /\ inbox' \in [Workers -> Seq(Devices)]
      /\ \A u \in Workers : inbox[u] # <<>> => inbox'[u] # <<>>
  BY <1>0, StartQueued DEF GhostTypes
<1>3. GhostTypes'
  BY <1>0, <1>1, <1>2 DEF GhostTypes
<1>4. ASSUME NEW v \in Workers, shows'[v] PROVE Explained(v)'
  <2>1. CASE shows[v] /\ v \notin W
    BY <1>1, <1>2, <2>1 DEF Explained, Ended, GhostInv
  <2>2. CASE \E d \in Devices : QueueStart(v, d)
    BY <1>0, <2>2, StartQueued DEF Explained
  <2> QED
    BY <1>4, <2>1, <2>2
<1> QED
  BY <1>3, <1>4 DEF GhostInv

LEMMA GhostUser ==
  ASSUME GhostInv, User
  PROVE  GhostInv'
<1>0. GhostTypes /\ shows \in [Workers -> BOOLEAN] /\ running \in [Workers -> BOOLEAN]
  BY DEF GhostInv, GhostTypes
<1>1. CASE SpectrumClicked
  <2>1. /\ closed' = closed /\ ~closed /\ UNCHANGED <<pc, signals>>
        /\ shows' = [shows EXCEPT !["spectrum"] = ~@]
    BY <1>1 DEF SpectrumClicked, UserMay
  <2>2. shows' \in [Workers -> BOOLEAN] /\ \A v \in Workers : v # "spectrum" => shows'[v] = shows[v]
    BY <1>0, <2>1 DEF Workers
  <2>3. CASE shows["spectrum"]
    <3>1. ~shows'["spectrum"]
      BY <1>0, <2>1, <2>3 DEF Workers
    <3>2. /\ running' = [w \in Workers |-> running[w] /\ w \notin {"spectrum"}] /\ inbox' = inbox
      BY <1>1, <2>3 DEF SpectrumClicked, StopWorkers
    <3>3. {"spectrum"} \in SUBSET Workers
      BY DEF Workers
    <3> QED
      BY <2>1, <2>2, <3>1, <3>2, <3>3, GhostClicks
  <2>4. CASE ~shows["spectrum"]
    <3>1. QueueStart("spectrum", Default) /\ running' = running
      BY <1>1, <2>4 DEF SpectrumClicked
    <3>2. running' = [w \in Workers |-> running[w] /\ w \notin {}]
      BY <1>0, <3>1
    <3>3. {} \in SUBSET Workers /\ "spectrum" \in Workers
      BY DEF Workers
    <3>4. \A v \in Workers : shows'[v] => (shows[v] /\ v \notin {})
                                            \/ \E d \in Devices : QueueStart(v, d)
      BY <2>2, <3>1, DevicesAssumption
    <3>5. \E u \in Workers, d \in Devices : QueueStart(u, d)
      BY <3>1, <3>3, DevicesAssumption
    <3> QED
      BY <2>1, <2>2, <3>2, <3>3, <3>4, <3>5, GhostClicks
  <2> QED
    BY <2>3, <2>4
<1>2. CASE CaptureStopped
  <2>1. /\ closed' = closed /\ ~closed /\ UNCHANGED <<pc, signals>> /\ inbox' = inbox
        /\ shows' = [shows EXCEPT !["capture"] = FALSE]
        /\ running' = [w \in Workers |-> running[w] /\ w \notin {"capture"}]
    BY <1>2 DEF CaptureStopped, UserMay, StopWorkers
  <2>2. /\ shows' \in [Workers -> BOOLEAN]
        /\ \A v \in Workers : shows'[v] => shows[v] /\ v \notin {"capture"}
        /\ {"capture"} \in SUBSET Workers
    BY <1>0, <2>1 DEF Workers
  <2> QED
    BY <2>1, <2>2, GhostClicks
<1>3. CASE CaptureStarted \/ RecordStarted
  <2>1. /\ closed' = closed /\ ~closed /\ UNCHANGED <<pc, signals>>
        /\ shows' = [shows EXCEPT !["scan"] = FALSE, !["capture"] = TRUE]
    BY <1>3 DEF CaptureStarted, RecordStarted, UserMay
  <2>2. PICK d \in Devices : QueueStart("capture", d)
    BY <1>3 DEF CaptureStarted, RecordStarted
  <2>3. PICK W \in SUBSET {"capture", "scan"} :
               running' = [w \in Workers |-> running[w] /\ w \notin W]
    <3>1. PICK W \in SUBSET {"capture", "scan"} : StopWorkers(W)
      <4> DEFINE A == IF shows["scan"] THEN {"scan"} ELSE {}
                 B == {w \in {"capture", "scan"} : shows[w]}
      <4>1. A \in SUBSET {"capture", "scan"} /\ B \in SUBSET {"capture", "scan"}
        OBVIOUS
      <4>2. StopWorkers(A) \/ StopWorkers(B)
        BY <1>3, Zenon DEF CaptureStarted, RecordStarted
      <4> HIDE DEF A, B
      <4> QED
        BY <4>1, <4>2
    <3> QED
      BY <3>1 DEF StopWorkers
  <2>4. /\ shows' \in [Workers -> BOOLEAN] /\ W \in SUBSET Workers
        /\ \A v \in Workers : shows'[v] => (shows[v] /\ v \notin W) \/ v = "capture"
    BY <1>0, <2>1 DEF Workers
  <2>5. "capture" \in Workers
    BY DEF Workers
  <2> QED
    BY <2>1, <2>2, <2>3, <2>4, <2>5, GhostClicks
<1>4. CASE ScanClicked
  <2>1. closed' = closed /\ ~closed /\ UNCHANGED <<pc, signals>>
    BY <1>4 DEF ScanClicked, UserMay
  <2>2. CASE shows["scan"]
    <3>1. /\ shows' = [shows EXCEPT !["scan"] = FALSE] /\ inbox' = inbox
          /\ running' = [w \in Workers |-> running[w] /\ w \notin {"scan"}]
      BY <1>4, <2>2 DEF ScanClicked, StopWorkers
    <3>2. /\ shows' \in [Workers -> BOOLEAN]
          /\ \A v \in Workers : shows'[v] => shows[v] /\ v \notin {"scan"}
          /\ {"scan"} \in SUBSET Workers
      BY <1>0, <3>1 DEF Workers
    <3> QED
      BY <2>1, <3>1, <3>2, GhostClicks
  <2>3. CASE ~shows["scan"]
    <3>1. PICK d \in Devices : QueueStart("scan", d)
      BY <1>4, <2>3 DEF ScanClicked
    <3>2. shows' = [shows EXCEPT !["capture"] = FALSE, !["scan"] = TRUE]
      BY <1>4, <2>3 DEF ScanClicked
    <3>3. PICK W \in SUBSET {"capture"} : running' = [w \in Workers |-> running[w] /\ w \notin W]
      <4>1. (IF shows["capture"] THEN {"capture"} ELSE {}) \in SUBSET {"capture"}
        OBVIOUS
      <4> QED
        BY <1>4, <2>3, <4>1 DEF ScanClicked, StopWorkers
    <3>4. /\ shows' \in [Workers -> BOOLEAN] /\ W \in SUBSET Workers
          /\ \A v \in Workers : shows'[v] => (shows[v] /\ v \notin W) \/ v = "scan"
      BY <1>0, <3>2 DEF Workers
    <3>5. "scan" \in Workers
      BY DEF Workers
    <3> QED
      BY <2>1, <3>1, <3>3, <3>4, <3>5, GhostClicks
  <2> QED
    BY <2>2, <2>3
<1>5. CASE RecordStopped
  BY <1>5 DEF RecordStopped, GhostInv, GhostTypes, Explained, Ended
<1>6. CASE Shutdown
  <2>1. /\ closed' /\ shows' = [w \in Workers |-> FALSE] /\ signals' = <<>>
        /\ running' = [w \in Workers |-> running[w] /\ w \notin Workers]
        /\ UNCHANGED <<inbox, pc>>
    BY <1>6 DEF Shutdown, StopWorkers
  <2>2. /\ closed' \in BOOLEAN /\ shows' \in [Workers -> BOOLEAN] /\ running' \in [Workers -> BOOLEAN]
        /\ \A v \in Workers : ~shows'[v]
    BY <1>0, <1>6, <2>1 DEF Shutdown
  <2>3. signals' \in Seq(Notices)
    BY <2>1
  <2> QED
    BY <1>0, <2>1, <2>2, <2>3 DEF GhostInv, GhostTypes
<1> QED
  BY <1>1, <1>2, <1>3, <1>4, <1>5, <1>6 DEF User

(* What a quitting thread drops, no page waits for any more.               *)
LEMMA GhostQuits ==
  ASSUME GhostInv, NEW w \in Workers, ThreadQuits(w)
  PROVE  GhostInv'
<1>1. <<>> \in Seq(Devices)
  OBVIOUS
<1>2. /\ inbox' = [inbox EXCEPT ![w] = <<>>] /\ closed
      /\ UNCHANGED <<pc, running, signals, shows, closed>>
  BY DEF ThreadQuits, gui
<1>3. GhostTypes'
  BY <1>1, <1>2 DEF GhostInv, GhostTypes
<1> QED
  BY <1>2, <1>3, GhostQuiet

(* Every claim of a page has a reason, in every reachable state.           *)
THEOREM GhostInvariant == Spec => []GhostInv
<1>1. GhostInv /\ [Next]_vars => GhostInv'
  <2> SUFFICES ASSUME GhostInv, [Next]_vars PROVE GhostInv'
    OBVIOUS
  <2>1. CASE UNCHANGED vars
    BY <2>1 DEF vars, GhostInv, GhostTypes, Explained, Ended
  <2>2. CASE Next
    BY <2>2, GhostStart, GhostWorks, GhostEnters, GhostReports, GhostHandles, GhostUser, GhostQuits
    DEF Next, WorkerSteps
  <2> QED
    BY <2>1, <2>2
<1> QED
  BY <1>1, GhostInit, PTL DEF Spec

(* SpectrumPage, SigintPage: once everything queued has been handled, a    *)
(* page that offers Stop has a worker that runs or says it does, whatever  *)
(* the order of clicks, tool failures and late signals.                    *)
THEOREM NoGhostsRemain == Spec => []NoGhostCapture
<1>1. GhostInv => NoGhostCapture
  BY DEF GhostInv, GhostTypes, NoGhostCapture, Settled, Explained, Ended
<1> QED
  BY <1>1, GhostInvariant, PTL
=============================================================================
