-------------------------- MODULE Connection_proofs --------------------------
(***************************************************************************)
(* Theorems about Connection, for all radios, interfaces and bounds.       *)
(***************************************************************************)
EXTENDS Connection, SequenceTheorems, TLAPS

-----------------------------------------------------------------------------
(* The supervisor                                                          *)

\* RetryAfterSuccess together with the types of the variables it is about.
Supervised ==
  /\ active \in BOOLEAN /\ was_connected \in BOOLEAN /\ timer \in BOOLEAN
  /\ RetryAfterSuccess

\* No step of the worker or of the library touches the supervisor.
LEMMA OthersLeaveSupervisor ==
  WorkerStep \/ LibraryStep \/ (\E i \in Interfaces : LinkUp(i) \/ LinkDown(i))
    => UNCHANGED supervisorVars
<1>1. WorkerStep => UNCHANGED supervisorVars
  BY DEF WorkerStep, ConnectBegin, ConnectOpened, ConnectSyncing, ConnectFailed,
         ConnectIgnored, ConnectRefused, ScanBegin, ScanEnd, DisconnectBegin,
         DisconnectEnd, DisconnectIgnored, ReconnectingBegin, ReconnectingEnd, Request,
         WorkerShutdown, WorkerQuit
<1>2. LibraryStep => UNCHANGED supervisorVars
  BY DEF LibraryStep, CallbackBegin, Established, EstablishedReport,
         EstablishedFailed, ConnectionLost, LostReport
<1>3. ASSUME NEW i \in Interfaces, LinkUp(i) \/ LinkDown(i)
      PROVE  UNCHANGED supervisorVars
  BY <1>3 DEF LinkUp, LinkDown
<1> QED BY <1>1, <1>2, <1>3

\* Every step keeps the supervisor's invariant.
LEMMA SupervisedStep == Supervised /\ [Next]_vars => Supervised'
<1> SUFFICES ASSUME Supervised, [Next]_vars PROVE Supervised'
  OBVIOUS
<1> USE DEF Supervised, RetryAfterSuccess
<1>1. ASSUME UNCHANGED supervisorVars PROVE Supervised'
  BY <1>1 DEF supervisorVars
<1>2. ASSUME NEW r \in Radios, UserConnect(r) PROVE Supervised'
  BY <1>2, RadiosAssumption DEF UserConnect
<1>3. CASE UserDisconnect \/ UserFirmware
  BY <1>3 DEF UserDisconnect, UserFirmware, Cancel
<1>4. CASE UserScan \/ UserRequest \/ FirmwareCompleted \/ Close
  BY <1>1, <1>4 DEF UserScan, UserRequest, FirmwareCompleted, Close
<1>5. CASE OnStateChanged
  BY <1>1, <1>5 DEF OnStateChanged
<1>6. CASE OnConnected
  BY <1>6 DEF OnConnected
<1>7. CASE OnDisconnected
  BY <1>1, <1>7 DEF OnDisconnected, Cancel
<1>8. CASE OnError
  BY <1>8 DEF OnError, ScheduleRetry
<1>9. CASE AttemptReconnect
  BY <1>9 DEF AttemptReconnect
<1>10. CASE WorkerStep \/ LibraryStep
            \/ \E i \in Interfaces : LinkUp(i) \/ LinkDown(i)
  BY <1>1, <1>10, OthersLeaveSupervisor
<1>11. CASE UNCHANGED vars
  BY <1>1, <1>11 DEF vars
<1> QED
  BY <1>2, <1>3, <1>4, <1>5, <1>6, <1>7, <1>8, <1>9, <1>10, <1>11
  DEF Next, UserStep, OnSignal

(***************************************************************************)
(* The supervisor never starts, and never keeps, a retry sequence without  *)
(* a connection that succeeded since the last cancel() and a profile to    *)
(* retry, whatever the radios and the order of signals, timers and clicks. *)
(***************************************************************************)
THEOREM RetriesWhatWorked == Spec => []RetryAfterSuccess
<1>1. Init => Supervised
  BY DEF Init, Supervised, RetryAfterSuccess
<1>2. Supervised => RetryAfterSuccess
  BY DEF Supervised
<1> QED BY <1>1, <1>2, SupervisedStep, PTL DEF Spec

-----------------------------------------------------------------------------
(* The interface                                                           *)

(***************************************************************************)
(* OneInterface is not inductive: ConnectOpened replaces the interface,    *)
(* which leaks the old one unless the worker holds none while a            *)
(* constructor runs.                                                       *)
(***************************************************************************)
Held ==
  /\ link \in [Interfaces -> {"closed", "syncing", "up", "rebooting", "failed"}]
  /\ interface \in Interfaces \cup {None}
  /\ making \in Interfaces \cup {None}
  /\ worker = "opening" => interface = None /\ making \in Interfaces
  /\ worker # "opening" => making = None
  /\ OneInterface

\* Nothing but the worker and the library's own reports changes a link.
LEMMA OthersLeaveInterface ==
  UserStep \/ FirmwareCompleted \/ Close \/ OnSignal \/ AttemptReconnect
    \/ LibraryStep
  => UNCHANGED <<worker, interface, making, link>>
<1> USE DEF workerVars, libraryVars
<1>1. UserStep => UNCHANGED <<worker, interface, making, link>>
  BY DEF UserStep, UserConnect, UserScan, UserDisconnect, UserRequest,
         UserFirmware
<1>2. FirmwareCompleted \/ Close \/ AttemptReconnect
        => UNCHANGED <<worker, interface, making, link>>
  BY DEF FirmwareCompleted, Close, AttemptReconnect
<1>3. OnSignal => UNCHANGED <<worker, interface, making, link>>
  BY DEF OnSignal, OnStateChanged, OnConnected, OnDisconnected, OnError
<1>4. LibraryStep => UNCHANGED <<worker, interface, making, link>>
  BY DEF LibraryStep, CallbackBegin, Established, EstablishedReport,
         EstablishedFailed, ConnectionLost, LostReport
<1> QED BY <1>1, <1>2, <1>3, <1>4

\* Every step keeps at most the held and the half-made interface open.
LEMMA HeldStep == Held /\ [Next]_vars => Held'
<1> SUFFICES ASSUME Held, [Next]_vars PROVE Held'
  OBVIOUS
<1> USE InterfacesAssumption DEF Held, OneInterface, Open
<1>1. ASSUME UNCHANGED <<worker, interface, making, link>> PROVE Held'
  BY <1>1
<1>2. CASE WorkerStep
  <2>1. CASE ConnectBegin
    <3>1. PICK i \in Interfaces :
            /\ Fresh(i) /\ making' = i
            /\ link' = [WithoutInterface EXCEPT ![i] = "syncing"]
      BY <2>1 DEF ConnectBegin
    <3>2. interface' = None /\ worker' = "opening" /\ worker = "ready"
      BY <2>1 DEF ConnectBegin, Slot
    <3> QED BY <3>1, <3>2 DEF WithoutInterface
  <2>2. CASE ConnectOpened
    BY <2>2 DEF ConnectOpened, libraryVars
  <2>3. CASE ConnectSyncing
    BY <2>3 DEF ConnectSyncing, libraryVars
  <2>4. CASE ConnectFailed
    BY <2>4 DEF ConnectFailed
  <2>5. CASE ConnectIgnored \/ ConnectRefused \/ DisconnectIgnored \/ Request
    BY <1>1, <2>5
    DEF ConnectIgnored, ConnectRefused, DisconnectIgnored, Request, workerVars,
        libraryVars
  <2>6. CASE ScanBegin \/ ScanEnd
    BY <2>6 DEF ScanBegin, ScanEnd, Slot, libraryVars
  <2>7. CASE DisconnectBegin
    BY <2>7 DEF DisconnectBegin, Slot, WithoutInterface
  <2>8. CASE DisconnectEnd
    BY <2>8 DEF DisconnectEnd, libraryVars
  <2>9. CASE ReconnectingBegin
    BY <2>9 DEF ReconnectingBegin, Slot, libraryVars
  <2>10. CASE ReconnectingEnd
    BY <2>10 DEF ReconnectingEnd, libraryVars
  <2>11. CASE WorkerShutdown
    BY <2>11 DEF WorkerShutdown, Slot, WithoutInterface
  <2>12. CASE WorkerQuit
    BY <2>12 DEF WorkerQuit, libraryVars
  <2> QED
    BY <1>2, <2>1, <2>2, <2>3, <2>4, <2>5, <2>6, <2>7, <2>8, <2>9, <2>10,
       <2>11, <2>12
    DEF WorkerStep
<1>3. ASSUME NEW i \in Interfaces, LinkUp(i) PROVE Held'
  BY <1>3 DEF LinkUp, workerVars
<1>4. ASSUME NEW i \in Interfaces, LinkDown(i) PROVE Held'
  <2>1. PICK after \in {"failed", "rebooting"} :
          link' = [link EXCEPT ![i] = after]
    BY <1>4 DEF LinkDown
  <2>2. Open(i)
    BY <1>4 DEF LinkDown
  <2> QED BY <1>4, <2>1, <2>2 DEF LinkDown, workerVars
<1>5. CASE UserStep \/ FirmwareCompleted \/ Close \/ OnSignal
           \/ AttemptReconnect \/ LibraryStep
  BY <1>1, <1>5, OthersLeaveInterface
<1>6. CASE UNCHANGED vars
  BY <1>1, <1>6 DEF vars, workerVars, libraryVars
<1> QED BY <1>2, <1>3, <1>4, <1>5, <1>6 DEF Next

(***************************************************************************)
(* No interface object is leaked open, for any number of interfaces and in *)
(* any order of connects, failures, scans, disconnects, reports of the     *)
(* library and the final shutdown.                                         *)
(***************************************************************************)
THEOREM NothingLeaks == Spec => []OneInterface
<1>1. Init => Held
  BY InterfacesAssumption DEF Init, Held, OneInterface, Open
<1>2. Held => OneInterface
  BY DEF Held
<1> QED BY <1>1, <1>2, HeldStep, PTL DEF Spec

-----------------------------------------------------------------------------
(* Sequences of signals                                                    *)

Elements(s) == {s[i] : i \in DOMAIN s}
IsSeq(s) == s \in Seq(Elements(s))

LEMMA SeqFacts ==
  ASSUME NEW s, IsSeq(s)
  PROVE  Len(s) \in Nat /\ DOMAIN s = 1..Len(s)
BY DEF IsSeq

LEMMA SeqWider ==
  ASSUME NEW s, IsSeq(s), NEW T, Elements(s) \subseteq T
  PROVE  s \in Seq(T)
<1>1. /\ Len(s) \in Nat /\ DOMAIN s = 1..Len(s) /\ \A i \in 1..Len(s) : s[i] \in T
      /\ s = [i \in 1..Len(s) |-> s[i]]
  BY DEF IsSeq, Elements
<1>2. [i \in 1..Len(s) |-> s[i]] \in Seq(T)
  BY <1>1, IsASeq
<1> QED BY <1>1, <1>2

LEMMA SeqNarrow ==
  ASSUME NEW T, NEW s \in Seq(T)
  PROVE  IsSeq(s)
<1>1. /\ Len(s) \in Nat /\ DOMAIN s = 1..Len(s)
      /\ s = [i \in 1..Len(s) |-> s[i]]
  OBVIOUS
<1>2. \A i \in 1..Len(s) : s[i] \in Elements(s)
  BY <1>1 DEF Elements
<1>3. [i \in 1..Len(s) |-> s[i]] \in Seq(Elements(s))
  BY <1>1, <1>2, IsASeq
<1> QED BY <1>1, <1>3 DEF IsSeq

LEMMA SeqConcat ==
  ASSUME NEW s, IsSeq(s), NEW t, IsSeq(t)
  PROVE  /\ IsSeq(s \o t) /\ Len(s \o t) = Len(s) + Len(t)
         /\ \A i \in 1..Len(s) : (s \o t)[i] = s[i]
         /\ \A i \in 1..Len(t) : (s \o t)[Len(s) + i] = t[i]
<1> DEFINE T == Elements(s) \cup Elements(t)
<1>1. s \in Seq(T) /\ t \in Seq(T)
  BY SeqWider
<1> HIDE DEF T
<1>2. s \o t \in Seq(T) /\ Len(s \o t) = Len(s) + Len(t)
  BY <1>1
<1>3. \A i \in 1..Len(s) : (s \o t)[i] = s[i]
  BY <1>1, ConcatProperties
<1>4. \A i \in 1..Len(t) : (s \o t)[Len(s) + i] = t[i]
  BY <1>1
<1>5. IsSeq(s \o t)
  <2> DEFINE u == s \o t
  <2>1. u \in Seq(T)
    BY <1>2
  <2> HIDE DEF u
  <2>2. IsSeq(u)
    BY <2>1, SeqNarrow
  <2> QED BY <2>2 DEF u
<1> QED BY <1>2, <1>3, <1>4, <1>5

LEMMA SeqTail ==
  ASSUME NEW s, IsSeq(s), s # <<>>
  PROVE  /\ IsSeq(Tail(s)) /\ Len(Tail(s)) = Len(s) - 1 /\ Len(s) >= 1
         /\ \A i \in 1..(Len(s) - 1) : Tail(s)[i] = s[i + 1]
         /\ Head(s) = s[1]
<1> DEFINE T == Elements(s)
<1>1. s \in Seq(T)
  BY DEF IsSeq
<1> HIDE DEF T
<1>2. /\ Tail(s) \in Seq(T) /\ Len(Tail(s)) = Len(s) - 1 /\ Len(s) >= 1
      /\ \A i \in 1..(Len(s) - 1) : Tail(s)[i] = s[i + 1]
      /\ Head(s) = s[1]
  BY <1>1
<1>3. IsSeq(Tail(s))
  <2> DEFINE u == Tail(s)
  <2>1. u \in Seq(T)
    BY <1>2
  <2> HIDE DEF u
  <2>2. IsSeq(u)
    BY <2>1, SeqNarrow
  <2> QED BY <2>2 DEF u
<1> QED BY <1>2, <1>3

LEMMA SeqLiterals ==
  /\ IsSeq(<<>>) /\ Len(<<>>) = 0
  /\ \A a : IsSeq(<<a>>) /\ Len(<<a>>) = 1
  /\ \A a, b : IsSeq(<<a, b>>) /\ Len(<<a, b>>) = 2
  /\ \A a, b, c : IsSeq(<<a, b, c>>) /\ Len(<<a, b, c>>) = 3
<1>1. IsSeq(<<>>) /\ Len(<<>>) = 0
  BY DEF IsSeq, Elements
<1>2. ASSUME NEW a PROVE IsSeq(<<a>>) /\ Len(<<a>>) = 1
  <2>1. <<a>> \in Seq({a}) /\ Len(<<a>>) = 1
    OBVIOUS
  <2> DEFINE u == <<a>>
  <2> HIDE DEF u
  <2>2. u \in Seq({a}) => IsSeq(u)
    BY SeqNarrow
  <2> QED BY <2>1, <2>2 DEF u
<1>3. ASSUME NEW a, NEW b PROVE IsSeq(<<a, b>>) /\ Len(<<a, b>>) = 2
  <2>1. <<a, b>> \in Seq({a, b}) /\ Len(<<a, b>>) = 2
    OBVIOUS
  <2> DEFINE u == <<a, b>>
  <2> HIDE DEF u
  <2>2. u \in Seq({a, b}) => IsSeq(u)
    BY SeqNarrow
  <2> QED BY <2>1, <2>2 DEF u
<1>4. ASSUME NEW a, NEW b, NEW c PROVE IsSeq(<<a, b, c>>) /\ Len(<<a, b, c>>) = 3
  <2>1. <<a, b, c>> \in Seq({a, b, c}) /\ Len(<<a, b, c>>) = 3
    OBVIOUS
  <2> DEFINE u == <<a, b, c>>
  <2> HIDE DEF u
  <2>2. u \in Seq({a, b, c}) => IsSeq(u)
    BY SeqNarrow
  <2> QED BY <2>1, <2>2 DEF u
<1> QED BY <1>1, <1>2, <1>3, <1>4

-----------------------------------------------------------------------------
(* What waits for the supervisor                                           *)

IsLost(x) == x.kind = "error" /\ x.arg = "lost"
Quiet(t) == IsSeq(t) /\ \A i \in 1..Len(t) : ~IsLost(t[i])

\* Every loss in the queue s, and a retry sequence that is already active, has
\* a success behind it that will end it.
Calm(s, act) ==
  /\ \A i \in 1..Len(s) : IsLost(s[i]) => \E j \in 1..Len(s) : i < j /\ s[j].kind = "connected"
  /\ act => \E j \in 1..Len(s) : s[j].kind = "connected"

LEMMA CalmQuiet ==
  ASSUME NEW s, IsSeq(s), NEW t, Quiet(t), NEW act, Calm(s, act)
  PROVE  IsSeq(s \o t) /\ Calm(s \o t, act)
<1> DEFINE u == s \o t
<1>1. /\ IsSeq(u) /\ Len(u) = Len(s) + Len(t) /\ Len(s) \in Nat /\ Len(t) \in Nat
      /\ \A i \in 1..Len(s) : u[i] = s[i]
      /\ \A i \in 1..Len(t) : u[Len(s) + i] = t[i]
  <2>1. IsSeq(t)
    BY DEF Quiet
  <2>2. Len(s) \in Nat /\ Len(t) \in Nat
    BY <2>1, SeqFacts
  <2>3. /\ IsSeq(s \o t) /\ Len(s \o t) = Len(s) + Len(t)
        /\ \A i \in 1..Len(s) : (s \o t)[i] = s[i]
        /\ \A i \in 1..Len(t) : (s \o t)[Len(s) + i] = t[i]
    BY <2>1, SeqConcat
  <2> QED
    BY <2>2, <2>3, Zenon
<1> HIDE DEF u
<1>2. \A j \in 1..Len(s) : j \in 1..Len(u)
  BY <1>1
<1>3. ASSUME NEW i \in 1..Len(u), IsLost(u[i]) PROVE i \in 1..Len(s)
  <2>1. CASE i > Len(s)
    <3>1. i - Len(s) \in 1..Len(t) /\ Len(s) + (i - Len(s)) = i
      BY <1>1, <2>1
    <3>2. u[i] = t[i - Len(s)]
      BY <1>1, <3>1
    <3> QED BY <1>3, <3>1, <3>2 DEF Quiet
  <2> QED BY <1>1, <2>1
<1>4. Calm(u, act)
  BY <1>1, <1>2, <1>3 DEF Calm
<1> QED BY <1>1, <1>4 DEF u

\* A success at the end ends everything.
LEMMA CalmConnected ==
  ASSUME NEW s, IsSeq(s), NEW t, Quiet(t), NEW act,
         \E j \in 1..Len(t) : t[j].kind = "connected"
  PROVE  IsSeq(s \o t) /\ Calm(s \o t, act)
<1> DEFINE u == s \o t
<1>1. /\ IsSeq(u) /\ Len(u) = Len(s) + Len(t) /\ Len(s) \in Nat /\ Len(t) \in Nat
      /\ \A i \in 1..Len(s) : u[i] = s[i]
      /\ \A i \in 1..Len(t) : u[Len(s) + i] = t[i]
  <2>1. IsSeq(t)
    BY DEF Quiet
  <2>2. Len(s) \in Nat /\ Len(t) \in Nat
    BY <2>1, SeqFacts
  <2>3. /\ IsSeq(s \o t) /\ Len(s \o t) = Len(s) + Len(t)
        /\ \A i \in 1..Len(s) : (s \o t)[i] = s[i]
        /\ \A i \in 1..Len(t) : (s \o t)[Len(s) + i] = t[i]
    BY <2>1, SeqConcat
  <2> QED
    BY <2>2, <2>3, Zenon
<1>2. PICK j \in 1..Len(t) : t[j].kind = "connected"
  OBVIOUS
<1> HIDE DEF u
<1>3. Len(s) + j \in 1..Len(u) /\ u[Len(s) + j].kind = "connected"
  BY <1>1, <1>2
<1>4. ASSUME NEW i \in 1..Len(u), IsLost(u[i]) PROVE i < Len(s) + j
  <2>1. CASE i > Len(s)
    <3>1. i - Len(s) \in 1..Len(t) /\ Len(s) + (i - Len(s)) = i
      BY <1>1, <2>1
    <3>2. u[i] = t[i - Len(s)]
      BY <1>1, <3>1
    <3> QED BY <1>4, <3>1, <3>2 DEF Quiet
  <2> QED BY <1>1, <2>1
<1>5. Calm(u, act)
  BY <1>3, <1>4 DEF Calm
<1> QED BY <1>1, <1>5 DEF u

\* The supervisor takes the first signal.
LEMMA CalmTail ==
  ASSUME NEW s, IsSeq(s), s # <<>>, NEW act, Calm(s, act)
  PROVE  /\ IsSeq(Tail(s))
         /\ Head(s).kind = "connected" => Calm(Tail(s), FALSE)
         /\ Head(s).kind # "connected" => Calm(Tail(s), act)
         /\ IsLost(Head(s)) => Calm(Tail(s), TRUE)
<1> DEFINE u == Tail(s)
<1>1. /\ IsSeq(u) /\ Len(u) = Len(s) - 1 /\ Len(s) >= 1 /\ Len(s) \in Nat
      /\ \A i \in 1..(Len(s) - 1) : u[i] = s[i + 1]
      /\ Head(s) = s[1]
  BY SeqTail, SeqFacts
<1> HIDE DEF u
<1>2. ASSUME NEW j \in 1..Len(s), j # 1
      PROVE  j - 1 \in 1..Len(u) /\ u[j - 1] = s[j]
  <2>1. j - 1 \in 1..(Len(s) - 1) /\ (j - 1) + 1 = j
    BY <1>1, <1>2
  <2> QED BY <1>1, <2>1
<1>3. ASSUME NEW i \in 1..Len(u), IsLost(u[i])
      PROVE  \E j \in 1..Len(u) : i < j /\ u[j].kind = "connected"
  <2>1. i + 1 \in 1..Len(s) /\ IsLost(s[i + 1])
    BY <1>1, <1>3
  <2>2. PICK j \in 1..Len(s) : i + 1 < j /\ s[j].kind = "connected"
    BY <2>1 DEF Calm
  <2>3. j # 1 /\ i < j - 1
    BY <1>1, <2>2
  <2> QED BY <1>2, <2>2, <2>3
<1>4. ASSUME act, Head(s).kind # "connected"
      PROVE  \E j \in 1..Len(u) : u[j].kind = "connected"
  <2>1. PICK j \in 1..Len(s) : s[j].kind = "connected"
    BY <1>4 DEF Calm
  <2>2. j # 1
    BY <1>1, <1>4, <2>1
  <2> QED BY <1>2, <2>1, <2>2
<1>5. ASSUME IsLost(Head(s))
      PROVE  \E j \in 1..Len(u) : u[j].kind = "connected"
  <2>1. 1 \in 1..Len(s) /\ IsLost(s[1])
    BY <1>1, <1>5
  <2>2. PICK j \in 1..Len(s) : 1 < j /\ s[j].kind = "connected"
    BY <2>1 DEF Calm
  <2> QED BY <1>2, <2>2
<1> QED BY <1>1, <1>3, <1>4, <1>5 DEF Calm, u

\* A success has been noted and is about to be reported.
Reporting == [kind : {"connected"}, interface : Interfaces]

(***************************************************************************)
(* NoRetryWhileUp is not inductive: before everything has settled, a       *)
(* connection that stands has its success still to report, in the callback *)
(* or in the queue, behind every loss.                                     *)
(***************************************************************************)
Calming ==
  /\ IsSeq(signals) /\ events \in Seq(Events)
  /\ callback \in Callbacks \cup {None}
  /\ (callback \in Callbacks /\ callback.kind = "disconnected") => state # "CONNECTED"
  /\ (~closing /\ state = "CONNECTED" /\ callback \notin Reporting) => Calm(signals, active)

\* A step that changes nothing of that but adds signals that are no losses.
LEMMA QuietStep ==
  ASSUME Calming, NEW t, Quiet(t), Emit(t), state' = state \/ state' # "CONNECTED",
         UNCHANGED <<events, callback, active, closing>>
  PROVE  Calming'
<1>1. CASE closing
  BY <1>1, SeqLiterals DEF Calming, Emit
<1>2. CASE ~closing
  <2>1. signals' = signals \o t
    BY <1>2 DEF Emit
  <2>2. IsSeq(signals')
    BY <2>1, SeqConcat DEF Calming, Quiet
  <2>3. Calm(signals, active) => Calm(signals', active)
    BY <2>1, CalmQuiet DEF Calming
  <2> QED BY <2>2, <2>3 DEF Calming
<1> QED BY <1>1, <1>2

LEMMA SilentStep ==
  ASSUME Calming, UNCHANGED <<signals, callback, closing>>, state' = state \/ state' # "CONNECTED",
         events' \in Seq(Events), active' => active, active' \in BOOLEAN
  PROVE  Calming'
BY DEF Calming, Calm

LEMMA QuietConcat ==
  ASSUME NEW s, Quiet(s), NEW t, Quiet(t)
  PROVE  Quiet(s \o t)
<1> DEFINE u == s \o t
<1>1. /\ IsSeq(u) /\ Len(u) = Len(s) + Len(t) /\ Len(s) \in Nat /\ Len(t) \in Nat
      /\ \A i \in 1..Len(s) : u[i] = s[i]
      /\ \A i \in 1..Len(t) : u[Len(s) + i] = t[i]
  <2>1. IsSeq(s) /\ IsSeq(t)
    BY DEF Quiet
  <2>2. Len(s) \in Nat /\ Len(t) \in Nat
    BY <2>1, SeqFacts
  <2>3. /\ IsSeq(s \o t) /\ Len(s \o t) = Len(s) + Len(t)
        /\ \A i \in 1..Len(s) : (s \o t)[i] = s[i]
        /\ \A i \in 1..Len(t) : (s \o t)[Len(s) + i] = t[i]
    BY <2>1, SeqConcat
  <2> QED
    BY <2>2, <2>3, Zenon
<1> HIDE DEF u
<1>2. ASSUME NEW i \in 1..Len(u) PROVE ~IsLost(u[i])
  <2>1. CASE i > Len(s)
    <3>1. i - Len(s) \in 1..Len(t) /\ Len(s) + (i - Len(s)) = i
      BY <1>1, <2>1
    <3>2. u[i] = t[i - Len(s)]
      BY <1>1, <3>1
    <3> QED BY <3>1, <3>2 DEF Quiet
  <2>2. CASE i <= Len(s)
    BY <1>1, <2>2 DEF Quiet
  <2> QED BY <1>1, <2>1, <2>2
<1> QED BY <1>1, <1>2 DEF Quiet, u

LEMMA QuietLiterals ==
  /\ Quiet(<<>>)
  /\ \A s : Quiet(<<StateSignal(s)>>)
  /\ Quiet(<<Error("other")>>)
  /\ Quiet(<<StateSignal("ERROR"), StateSignal("DISCONNECTED"), Error("other")>>)
  /\ Quiet(<<StateSignal("DISCONNECTED"), Disconnected("user")>>)
  /\ \A r : Quiet(<<StateSignal("CONNECTED"), Connected(r)>>)
<1>1. /\ \A s : ~IsLost(StateSignal(s)) /\ ~IsLost(Connected(s))
      /\ ~IsLost(Error("other")) /\ ~IsLost(Disconnected("user"))
  BY DEF IsLost, StateSignal, Error, Disconnected, Connected
<1>4. Quiet(<<>>)
  BY SeqLiterals DEF Quiet
<1>5. ASSUME NEW a, ~IsLost(a) PROVE Quiet(<<a>>)
  BY <1>5, SeqLiterals DEF Quiet
<1>6. ASSUME NEW a, ~IsLost(a), NEW b, ~IsLost(b) PROVE Quiet(<<a, b>>)
  <2>1. \A i \in 1..2 : <<a, b>>[i] \in {a, b}
    OBVIOUS
  <2> QED BY <1>6, <2>1, SeqLiterals DEF Quiet
<1>7. ASSUME NEW a, ~IsLost(a), NEW b, ~IsLost(b), NEW c, ~IsLost(c) PROVE Quiet(<<a, b, c>>)
  <2>1. \A i \in 1..3 : <<a, b, c>>[i] \in {a, b, c}
    OBVIOUS
  <2> QED BY <1>7, <2>1, SeqLiterals DEF Quiet
<1> QED BY <1>1, <1>4, <1>5, <1>6, <1>7

LEMMA ReportLiterals ==
  ASSUME NEW r, NEW f \in {<<>>, <<Error("other")>>}
  PROVE  LET t == <<StateSignal("CONNECTED"), Connected(r)>> \o f
         IN  Quiet(t) /\ \E j \in 1..Len(t) : t[j].kind = "connected"
<1> DEFINE s == <<StateSignal("CONNECTED"), Connected(r)>>
           t == s \o f
<1>1. Quiet(s) /\ Quiet(f)
  BY QuietLiterals
<1>2. Len(s) = 2 /\ s[2].kind = "connected"
  BY DEF Connected
<1> HIDE DEF s
<1>3. Quiet(t) /\ Len(t) = Len(s) + Len(f) /\ Len(f) \in Nat /\ \A i \in 1..Len(s) : t[i] = s[i]
  BY <1>1, QuietConcat, SeqConcat, SeqFacts DEF Quiet
<1> HIDE DEF t
<1>4. 2 \in 1..Len(t) /\ t[2].kind = "connected"
  BY <1>2, <1>3
<1>5. Quiet(t) /\ \E j \in 1..Len(t) : t[j].kind = "connected"
  BY <1>3, <1>4
<1> QED BY <1>5 DEF s, t

LEMMA LostLiteral ==
  IsSeq(<<StateSignal("ERROR"), Disconnected("lost"), Error("lost")>>)
BY SeqLiterals

LEMMA CalmWeaker ==
  ASSUME NEW s, NEW a, Calm(s, a), NEW b, b => a
  PROVE  Calm(s, b)
BY DEF Calm

LEMMA EventTypes ==
  ASSUME NEW e \in Seq(Events)
  PROVE  /\ e # <<>> => Tail(e) \in Seq(Events) /\ Head(e) \in Callbacks
                        /\ Head(e).kind \in {"established", "lost"}
         /\ \A i \in Interfaces : \A k \in {"established", "lost"} :
              Append(e, [kind |-> k, interface |-> i]) \in Seq(Events)
<1>1. Events \subseteq Callbacks /\ \A x \in Events : x.kind \in {"established", "lost"}
  BY DEF Events, Callbacks
<1>2. \A i \in Interfaces : \A k \in {"established", "lost"} :
        [kind |-> k, interface |-> i] \in Events
  BY DEF Events
<1>3. e # <<>> => Tail(e) \in Seq(Events) /\ Head(e) \in Events
  OBVIOUS
<1> QED BY <1>1, <1>2, <1>3

LEMMA CalmingWorker == Calming /\ Supervised /\ WorkerStep => Calming'
<1> SUFFICES ASSUME Calming, Supervised, WorkerStep PROVE Calming'
  OBVIOUS
<1>0. active \in BOOLEAN /\ events \in Seq(Events)
  BY DEF Supervised, Calming
<1> USE DEF supervisorVars, windowVars, libraryVars, workerVars, SetState
<1>1. CASE ConnectOpened \/ ReconnectingBegin \/ WorkerShutdown \/ WorkerQuit
           \/ ConnectIgnored \/ DisconnectIgnored
  <2>1. UNCHANGED <<signals, callback, closing, state, events, active>>
    BY <1>1 DEF ConnectOpened, ReconnectingBegin, WorkerShutdown, WorkerQuit,
       ConnectIgnored, DisconnectIgnored, queueVars
  <2> QED BY <1>0, <2>1, SilentStep
<1>2. ASSUME NEW s, s # "CONNECTED", SetState(s), UNCHANGED <<events, callback, active, closing>>
      PROVE  Calming'
  BY <1>2, QuietStep, QuietLiterals
<1>3. CASE ConnectBegin
  BY <1>2, <1>3 DEF ConnectBegin
<1>4. CASE ConnectSyncing
  BY <1>2, <1>4 DEF ConnectSyncing
<1>5. CASE ScanBegin
  BY <1>2, <1>5 DEF ScanBegin
<1>6. CASE DisconnectBegin
  BY <1>2, <1>6 DEF DisconnectBegin
<1>7. CASE ReconnectingEnd
  BY <1>2, <1>7 DEF ReconnectingEnd
<1>8. CASE ConnectFailed
  BY <1>8, QuietStep, QuietLiterals DEF ConnectFailed
<1>9. CASE ConnectRefused
  BY <1>9, QuietStep, QuietLiterals DEF ConnectRefused
<1>10. CASE ScanEnd
  <2>1. PICK f \in {<<>>, <<Error("other")>>} : Emit(<<StateSignal("DISCONNECTED")>> \o f)
    BY <1>10 DEF ScanEnd
  <2>2. Quiet(<<StateSignal("DISCONNECTED")>> \o f)
    BY QuietLiterals, QuietConcat
  <2> QED BY <1>10, <2>1, <2>2, QuietStep DEF ScanEnd
<1>11. CASE DisconnectEnd
  BY <1>11, QuietStep, QuietLiterals DEF DisconnectEnd
<1>12. CASE Request
  <2>1. Emit(<<Error("other")>>) \/ Emit(<<>>)
    BY <1>12 DEF Request
  <2> QED BY <1>12, <2>1, QuietStep, QuietLiterals DEF Request
<1> QED
  BY <1>1, <1>3, <1>4, <1>5, <1>6, <1>7, <1>8, <1>9, <1>10, <1>11, <1>12 DEF WorkerStep

LEMMA CalmingLibrary ==
  Calming /\ Supervised /\ (LibraryStep \/ \E i \in Interfaces : LinkUp(i) \/ LinkDown(i))
  => Calming'
<1> SUFFICES ASSUME Calming, Supervised,
                    LibraryStep \/ \E i \in Interfaces : LinkUp(i) \/ LinkDown(i)
             PROVE  Calming'
  OBVIOUS
<1>0. /\ active \in BOOLEAN /\ events \in Seq(Events) /\ IsSeq(signals)
      /\ callback \in Callbacks \cup {None}
  BY DEF Supervised, Calming
<1> USE DEF supervisorVars, windowVars, workerVars, queueVars
<1>1. ASSUME NEW i \in Interfaces, LinkUp(i) \/ LinkDown(i) PROVE Calming'
  <2>1. PICK k \in {"established", "lost"} : events' = Append(events, [kind |-> k, interface |-> i])
    BY <1>1 DEF LinkUp, LinkDown, Publish
  <2>2. events' \in Seq(Events)
    BY <1>0, <2>1, EventTypes
  <2>3. UNCHANGED <<signals, callback, closing, state, active>>
    BY <1>1 DEF LinkUp, LinkDown
  <2> QED BY <1>0, <2>2, <2>3, SilentStep
<1>2. CASE CallbackBegin
  <2>1. /\ callback = None /\ events # <<>> /\ events' = Tail(events)
        /\ callback' \in {Head(events), None}
        /\ UNCHANGED <<signals, closing, state, active>>
    BY <1>2 DEF CallbackBegin
  <2>2. /\ events' \in Seq(Events) /\ callback' \in Callbacks \cup {None}
        /\ callback' \in Callbacks => callback'.kind \in {"established", "lost"}
    BY <1>0, <2>1, EventTypes, NoneAssumption
  <2>3. callback \notin Reporting
    BY <2>1, NoneAssumption DEF Reporting, Callbacks
  <2> QED BY <2>1, <2>2, <2>3 DEF Calming
<1>3. CASE Established
  <2>1. /\ callback \in Callbacks /\ callback' = [callback EXCEPT !.kind = "connected"]
        /\ UNCHANGED <<signals, closing, events, active>>
    BY <1>0, <1>3 DEF Established, Handling, Continue
  <2>2. callback' \in Reporting /\ callback' \in Callbacks /\ callback'.kind = "connected"
    BY <2>1 DEF Callbacks, Reporting
  <2> QED BY <1>0, <2>1, <2>2 DEF Calming
<1>4. CASE EstablishedReport
  <2>1. PICK f \in {<<>>, <<Error("other")>>} :
          Emit(<<StateSignal("CONNECTED"), Connected(target)>> \o f)
    BY <1>4 DEF EstablishedReport
  <2>2. callback' = None /\ UNCHANGED <<closing, state, events, active>>
    BY <1>4 DEF EstablishedReport
  <2> DEFINE t == <<StateSignal("CONNECTED"), Connected(target)>> \o f
  <2>3. Quiet(t) /\ \E j \in 1..Len(t) : t[j].kind = "connected"
    BY ReportLiterals
  <2> HIDE DEF t
  <2>4. IsSeq(signals \o t) /\ Calm(signals \o t, active)
    BY <1>0, <2>3, CalmConnected
  <2>5. IsSeq(signals') /\ (~closing => Calm(signals', active))
    BY <2>1, <2>4, SeqLiterals DEF Emit, t
  <2>6. callback' \notin Callbacks /\ callback' \in Callbacks \cup {None}
    BY <2>2, NoneAssumption
  <2> QED BY <1>0, <2>2, <2>5, <2>6 DEF Calming
<1>5. CASE EstablishedFailed
  <2>1. /\ Emit(<<Error("other")>>) /\ callback' = None
        /\ UNCHANGED <<closing, state, events, active>>
    BY <1>5 DEF EstablishedFailed
  <2>2. callback \notin Reporting
    BY <1>0, <1>5 DEF EstablishedFailed, Handling, Reporting
  <2> DEFINE t == <<Error("other")>>
  <2>3. Quiet(t)
    BY QuietLiterals
  <2> HIDE DEF t
  <2>4. /\ IsSeq(signals \o t)
        /\ Calm(signals, active) => Calm(signals \o t, active)
    BY <1>0, <2>3, CalmQuiet, SeqConcat DEF Quiet
  <2>5. IsSeq(signals') /\ (~closing /\ Calm(signals, active) => Calm(signals', active))
    BY <2>1, <2>4, SeqLiterals DEF Emit, t
  <2>6. callback' \notin Callbacks /\ callback' \in Callbacks \cup {None}
    BY <2>1, NoneAssumption
  <2> QED BY <1>0, <2>1, <2>2, <2>5, <2>6 DEF Calming
<1>6. CASE ConnectionLost
  <2>1. /\ callback \in Callbacks /\ callback' = [callback EXCEPT !.kind = "disconnected"]
        /\ state' = "ERROR" /\ UNCHANGED <<signals, closing, events, active>>
    BY <1>0, <1>6 DEF ConnectionLost, Handling, Continue
  <2>2. callback' \in Callbacks
    BY <2>1 DEF Callbacks
  <2> QED BY <1>0, <2>1, <2>2 DEF Calming
<1>7. CASE LostReport
  <2> DEFINE t == <<StateSignal("ERROR"), Disconnected("lost"), Error("lost")>>
  <2>1. /\ callback' = None /\ UNCHANGED <<closing, state, events, active>>
        /\ signals' = IF closing THEN <<>> ELSE signals \o t
    BY <1>7 DEF LostReport, Emit
  <2>2. state # "CONNECTED"
    BY <1>0, <1>7 DEF LostReport, Handling, Calming
  <2>3. IsSeq(t)
    BY LostLiteral
  <2> HIDE DEF t
  <2>4. IsSeq(signals \o t)
    BY <1>0, <2>3, SeqConcat
  <2>5. IsSeq(signals')
    BY <2>1, <2>4, SeqLiterals
  <2>6. callback' \notin Callbacks /\ callback' \in Callbacks \cup {None}
    BY <2>1, NoneAssumption
  <2> QED BY <1>0, <2>1, <2>2, <2>5, <2>6 DEF Calming
<1> QED BY <1>1, <1>2, <1>3, <1>4, <1>5, <1>6, <1>7 DEF LibraryStep

LEMMA CalmingStep == Calming /\ Supervised /\ [Next]_vars => Calming'
<1> SUFFICES ASSUME Calming, Supervised, [Next]_vars PROVE Calming'
  OBVIOUS
<1>0. /\ active \in BOOLEAN /\ events \in Seq(Events) /\ IsSeq(signals)
      /\ callback \in Callbacks \cup {None}
  BY DEF Supervised, Calming
<1> USE DEF workerVars, libraryVars, windowVars
<1>1. CASE UserStep \/ FirmwareCompleted \/ AttemptReconnect
  <2>1. UNCHANGED <<signals, callback, closing, state, events>> /\ (active' = active \/ active' = FALSE)
    BY <1>1 DEF UserStep, UserConnect, UserScan, UserDisconnect, UserRequest, UserFirmware,
       FirmwareCompleted, AttemptReconnect, Cancel, supervisorVars
  <2>2. (active' => active) /\ active' \in BOOLEAN
    <3>1. CASE active' = active
      BY <1>0, <3>1
    <3>2. CASE active' = FALSE
      BY <3>2
    <3> QED BY <2>1, <3>1, <3>2
  <2>3. events' \in Seq(Events) /\ (state' = state \/ state' # "CONNECTED")
    BY <1>0, <2>1
  <2> QED BY <2>1, <2>2, <2>3, SilentStep
<1>2. CASE Close
  BY <1>0, <1>2, SeqLiterals DEF Close, Calming, supervisorVars
<1>3. ASSUME signals # <<>>, signals' = Tail(signals),
             UNCHANGED <<callback, closing, state, events>>,
             Calm(signals, active) => Calm(signals', active')
      PROVE  Calming'
  BY <1>0, <1>3, SeqTail DEF Calming
<1>4. CASE OnStateChanged \/ OnDisconnected
  <2>1. /\ signals # <<>> /\ signals' = Tail(signals) /\ Head(signals).kind # "connected"
        /\ UNCHANGED <<callback, closing, state, events>> /\ (active' = active \/ active' = FALSE)
    BY <1>4 DEF OnStateChanged, OnDisconnected, Receive, Cancel, supervisorVars
  <2>2. ASSUME Calm(signals, active) PROVE Calm(signals', active')
    <3>1. Calm(signals', active)
      BY <1>0, <2>1, <2>2, CalmTail
    <3>2. active' => active
      BY <2>1
    <3> QED BY <3>1, <3>2, CalmWeaker
  <2> QED BY <1>3, <2>1, <2>2
<1>5. CASE OnConnected
  <2>1. /\ signals # <<>> /\ signals' = Tail(signals) /\ Head(signals).kind = "connected"
        /\ UNCHANGED <<callback, closing, state, events>> /\ active' = FALSE
    BY <1>5 DEF OnConnected, Receive
  <2>2. Calm(signals, active) => Calm(signals', active')
    BY <1>0, <2>1, CalmTail
  <2> QED BY <1>3, <2>1, <2>2
<1>6. CASE OnError
  <2>1. /\ signals # <<>> /\ signals' = Tail(signals) /\ Head(signals).kind = "error"
        /\ UNCHANGED <<callback, closing, state, events>>
    BY <1>6 DEF OnError, Receive
  <2>2. active' = active \/ (IsLost(Head(signals)) /\ active' = TRUE)
    BY <1>0, <1>6, <2>1 DEF OnError, ScheduleRetry, IsLost
  <2>3. ASSUME Calm(signals, active) PROVE Calm(signals', active')
    <3>1. Calm(signals', active) /\ (IsLost(Head(signals)) => Calm(signals', TRUE))
      BY <1>0, <2>1, <2>3, CalmTail
    <3> QED BY <1>0, <2>2, <3>1, CalmWeaker
  <2> QED BY <1>3, <2>1, <2>3
<1>7. CASE WorkerStep
  BY <1>7, CalmingWorker
<1>8. CASE LibraryStep \/ \E i \in Interfaces : LinkUp(i) \/ LinkDown(i)
  BY <1>8, CalmingLibrary
<1>9. CASE UNCHANGED vars
  <2>1. UNCHANGED <<signals, callback, closing, state, events, active>>
    BY <1>9 DEF vars, queueVars, supervisorVars
  <2> QED BY <1>0, <2>1, SilentStep
<1> QED BY <1>1, <1>2, <1>4, <1>5, <1>6, <1>7, <1>8, <1>9 DEF Next, OnSignal

(***************************************************************************)
(* A connection that stands is left alone, for any radios, interfaces and  *)
(* bounds, and also when the library's events overtake the connect slot or *)
(* reading the configuration fails: the success that a loss is followed by *)
(* is always queued behind it.                                             *)
(***************************************************************************)
THEOREM StandingIsLeftAlone == Spec => []NoRetryWhileUp
<1>1. Init => Supervised /\ Calming
  <2>1. <<>> \in Seq(Events)
    OBVIOUS
  <2> QED BY <2>1, SeqLiterals, NoneAssumption DEF Init, Supervised, RetryAfterSuccess, Calming
<1>2. Supervised /\ Calming => NoRetryWhileUp
  <2> SUFFICES ASSUME Supervised, Calming, Settled, state = "CONNECTED"
               PROVE  ~active /\ ~timer
    BY DEF NoRetryWhileUp
  <2>1. signals = <<>> /\ callback \notin Reporting /\ ~closing
    BY NoneAssumption DEF Settled, Reporting, Callbacks
  <2>2. Calm(<<>>, active)
    BY <2>1 DEF Calming
  <2>3. ~active
    BY <2>2, SeqLiterals DEF Calm
  <2> QED BY <2>3 DEF Supervised, RetryAfterSuccess
<1> QED BY <1>1, <1>2, SupervisedStep, CalmingStep, PTL DEF Spec

-----------------------------------------------------------------------------
(* Losses                                                                  *)

\* Of the events e about the interface i, the last one is a loss, or there are none.
LastIsLost(e, i) ==
  \E n \in 1..Len(e) : /\ e[n].interface = i /\ e[n].kind = "lost"
                       /\ \A m \in 1..Len(e) : m > n => e[m].interface # i
NoneOf(e, i) == \A n \in 1..Len(e) : e[n].interface # i

LEMMA LastIsLostTail ==
  ASSUME NEW e \in Seq(Events), e # <<>>, NEW i
  PROVE  /\ LastIsLost(e, i) => \/ LastIsLost(Tail(e), i)
                                \/ /\ Head(e).interface = i /\ Head(e).kind = "lost"
                                   /\ NoneOf(Tail(e), i)
         /\ NoneOf(e, i) => NoneOf(Tail(e), i) /\ Head(e).interface # i
<1> DEFINE u == Tail(e)
<1>1. /\ Len(u) = Len(e) - 1 /\ Len(e) >= 1 /\ Len(e) \in Nat /\ Head(e) = e[1]
      /\ \A n \in 1..(Len(e) - 1) : u[n] = e[n + 1]
  OBVIOUS
<1> HIDE DEF u
<1>2. ASSUME NEW n \in 1..Len(u) PROVE n + 1 \in 1..Len(e) /\ u[n] = e[n + 1]
  BY <1>1
<1>3. ASSUME NEW n \in 1..Len(e), e[n].interface = i, e[n].kind = "lost",
             \A m \in 1..Len(e) : m > n => e[m].interface # i
      PROVE  \/ LastIsLost(u, i)
             \/ Head(e).interface = i /\ Head(e).kind = "lost" /\ NoneOf(u, i)
  <2>1. CASE n = 1
    <3>1. ASSUME NEW m \in 1..Len(u) PROVE u[m].interface # i
      <4>1. m + 1 \in 1..Len(e) /\ m + 1 > n /\ u[m] = e[m + 1]
        BY <1>1, <1>2, <2>1
      <4> QED BY <1>3, <4>1
    <3> QED BY <1>1, <1>3, <2>1, <3>1 DEF NoneOf
  <2>2. CASE n # 1
    <3>1. n - 1 \in 1..Len(u) /\ (n - 1) + 1 = n
      BY <1>1, <2>2
    <3>2. u[n - 1] = e[n]
      BY <1>2, <3>1
    <3>3. ASSUME NEW m \in 1..Len(u), m > n - 1 PROVE u[m].interface # i
      <4>1. m + 1 \in 1..Len(e) /\ m + 1 > n /\ u[m] = e[m + 1]
        BY <1>1, <1>2, <3>3
      <4> QED BY <1>3, <4>1
    <3> QED BY <1>3, <3>1, <3>2, <3>3 DEF LastIsLost
  <2> QED BY <2>1, <2>2
<1>4. NoneOf(e, i) => NoneOf(u, i) /\ Head(e).interface # i
  BY <1>1, <1>2 DEF NoneOf
<1> QED BY <1>3, <1>4 DEF LastIsLost, u

LEMMA LastIsLostAppend ==
  ASSUME NEW e \in Seq(Events), NEW i \in Interfaces
  PROVE  LastIsLost(Append(e, [kind |-> "lost", interface |-> i]), i)
<1> DEFINE x == [kind |-> "lost", interface |-> i]
           u == Append(e, x)
<1>1. x \in Events /\ x.interface = i /\ x.kind = "lost"
  BY DEF Events
<1> HIDE DEF x
<1>2. Len(u) = Len(e) + 1 /\ Len(e) \in Nat /\ u[Len(e) + 1] = x
  BY <1>1
<1> HIDE DEF u
<1>3. Len(e) + 1 \in 1..Len(u) /\ \A m \in 1..Len(u) : ~(m > Len(e) + 1)
  BY <1>2
<1>4. LastIsLost(u, i)
  BY <1>1, <1>2, <1>3 DEF LastIsLost
<1> QED BY <1>4 DEF u, x

\* An event of another interface behind them changes nothing.
LEMMA LastIsLostOther ==
  ASSUME NEW e \in Seq(Events), NEW x \in Events, NEW i, x.interface # i
  PROVE  /\ LastIsLost(e, i) => LastIsLost(Append(e, x), i)
         /\ NoneOf(e, i) => NoneOf(Append(e, x), i)
<1> DEFINE u == Append(e, x)
<1>1. /\ Len(u) = Len(e) + 1 /\ Len(e) \in Nat /\ u[Len(e) + 1] = x
      /\ \A n \in 1..Len(e) : u[n] = e[n]
  OBVIOUS
<1> HIDE DEF u
<1>2. \A m \in 1..Len(u) : m \in 1..Len(e) \/ m = Len(e) + 1
  BY <1>1
<1>3. \A n \in 1..Len(e) : n \in 1..Len(u)
  BY <1>1
<1>4. NoneOf(e, i) => NoneOf(u, i)
  BY <1>1, <1>2 DEF NoneOf
<1>5. ASSUME NEW n \in 1..Len(e), e[n].interface = i, e[n].kind = "lost",
             \A m \in 1..Len(e) : m > n => e[m].interface # i
      PROVE  LastIsLost(u, i)
  <2>1. \A m \in 1..Len(u) : m > n => u[m].interface # i
    BY <1>1, <1>2, <1>5
  <2> QED BY <1>1, <1>3, <1>5, <2>1 DEF LastIsLost
<1> QED BY <1>4, <1>5 DEF LastIsLost, u

\* The handler of a loss before and after it has set the state.
Losing == [kind : {"lost"}, interface : Interfaces]
HasLost == [kind : {"disconnected"}, interface : Interfaces]

\* The worker holds an interface whose transport has failed.
Gone == interface # None /\ link[interface] = "failed"

\* While the connect slot is under way its interface is making or held.
Current == {interface, making} \ {None}

(***************************************************************************)
(* LossIsNoticed is not inductive: until everything has settled the loss   *)
(* may wait among the events, behind whatever the library reported before  *)
(* it, or be in the handler; and it stays noticed because no event of this *)
(* interface follows it and no slot but a running scan leaves a state that *)
(* a connect refuses.  As long as the connect slot has not come to SYNCING *)
(* a loss that is not missed still waits among the events.  A success that *)
(* is being handled is followed by every loss of the current interface, so *)
(* that nothing is missed any more once it is reported.                    *)
(***************************************************************************)
Noticing ==
  /\ interface # None => subscribed = TRUE
  /\ worker = "opened" => interface # None
  /\ worker = "opening" => subscribed = TRUE
  /\ \A i \in Interfaces :
       link[i] = "failed" => LastIsLost(events, i) \/ NoneOf(events, i)
  /\ callback # None /\ callback.kind = "established" =>
       \A i \in Current : link[i] = "failed" => LastIsLost(events, i)
  /\ "lost" \notin missed /\ worker \in {"opening", "opened"} =>
       \A i \in Current : link[i] = "failed" => LastIsLost(events, i)
  /\ Gone /\ "lost" \notin missed =>
       \/ LastIsLost(events, interface)
       \/ /\ NoneOf(events, interface)
          /\ \/ callback \in Losing
             \/ /\ callback \in HasLost \cup {None}
                /\ Connectable \/ worker = "scanning"

\* A step that only moves the worker and the state.
LEMMA NoticingStay ==
  ASSUME Noticing,
         UNCHANGED <<interface, link, making, subscribed, events, callback, missed>>,
         worker' \notin {"opened", "opening"},
         state' # state => state' \in {"DISCONNECTED", "ERROR", "RECONNECTING"} \/ worker' = "scanning",
         worker = "scanning" =>
           worker' = "scanning" \/ state' \in {"DISCONNECTED", "ERROR", "RECONNECTING"}
  PROVE  Noticing'
BY DEF Noticing, Gone, Connectable, Current

\* A step that lets go of the interface: nothing can be gone or current.
LEMMA NoticingLetGo ==
  ASSUME Held, Noticing, interface' = None, making' = None,
         worker' \notin {"opened", "opening"}, UNCHANGED <<events, callback>>,
         \A i \in Interfaces : link'[i] = "failed" => link[i] = "failed"
  PROVE  Noticing'
BY DEF Noticing, Gone, Current

LEMMA NoticingWorker == Held /\ Noticing /\ WorkerStep => Noticing'
<1> SUFFICES ASSUME Held, Noticing, WorkerStep PROVE Noticing'
  OBVIOUS
<1> USE InterfacesAssumption DEF libraryVars, workerVars, queueVars
<1>0. /\ link \in [Interfaces -> {"closed", "syncing", "up", "rebooting", "failed"}]
      /\ worker # "opening" => making = None
  BY DEF Held
<1>1. CASE ConnectBegin
  <2>1. PICK i \in Interfaces :
          making' = i /\ link' = [WithoutInterface EXCEPT ![i] = "syncing"]
    BY <1>1 DEF ConnectBegin
  <2>2. /\ interface' = None /\ worker' = "opening" /\ link'[i] = "syncing"
        /\ subscribed' = TRUE /\ UNCHANGED <<events, callback>> /\ i # None
        /\ \A j \in Interfaces : link'[j] = "failed" => link[j] = "failed"
    BY <1>1, <2>1 DEF ConnectBegin, WithoutInterface
  <2>3. Current' = {i}
    BY <2>1, <2>2 DEF Current
  <2> QED BY <2>2, <2>3 DEF Noticing, Gone
<1>2. CASE ConnectOpened
  <2>1. /\ worker = "opening" /\ interface' = making /\ making' = None /\ worker' = "opened"
        /\ UNCHANGED <<link, subscribed, events, callback, missed>> /\ making \in Interfaces
        /\ subscribed = TRUE /\ interface = None
    BY <1>2 DEF ConnectOpened, Noticing, Held
  <2>2. Current' = Current /\ making \in Current
    BY <2>1 DEF Current
  <2> QED BY <2>1, <2>2 DEF Noticing, Gone
<1>3. CASE ConnectSyncing
  <2>1. /\ worker = "opened" /\ worker' = "ready"
        /\ UNCHANGED <<interface, link, making, subscribed, events, callback, missed>>
    BY <1>3 DEF ConnectSyncing
  <2>2. Current' = Current /\ (interface # None => interface \in Current)
    BY <2>1 DEF Current
  <2> QED BY <2>1, <2>2 DEF Noticing, Gone
<1>4. CASE ConnectFailed
  <2>1. \A i \in Interfaces : link'[i] = "failed" => link[i] = "failed"
    BY <1>0, <1>4 DEF ConnectFailed
  <2> QED BY <1>4, <2>1, NoticingLetGo DEF ConnectFailed
<1>5. CASE DisconnectBegin \/ WorkerShutdown
  <2>1. /\ worker = "ready" /\ worker' \in {"ready", "closing"} /\ interface' = None
        /\ UNCHANGED <<making, events, callback>> /\ link' = WithoutInterface
    BY <1>5 DEF DisconnectBegin, WorkerShutdown, Slot
  <2>2. \A i \in Interfaces : link'[i] = "failed" => link[i] = "failed"
    BY <2>1 DEF WithoutInterface
  <2> QED BY <1>0, <2>1, <2>2, NoticingLetGo
<1>7. CASE ConnectIgnored \/ ConnectRefused \/ DisconnectIgnored \/ Request
  <2>1. worker = "ready" /\ UNCHANGED <<workerVars, libraryVars>>
    BY <1>7 DEF ConnectIgnored, ConnectRefused, DisconnectIgnored, Request, Slot
  <2> QED BY <2>1, NoticingStay
<1>8. CASE ScanBegin \/ ScanEnd
  <2>1. /\ UNCHANGED <<interface, making, subscribed, libraryVars>>
        /\ worker' = "scanning" \/ (worker' = "ready" /\ state' = "DISCONNECTED")
    BY <1>8 DEF ScanBegin, ScanEnd, SetState
  <2> QED BY <2>1, NoticingStay
<1>9. CASE DisconnectEnd
  <2>1. /\ UNCHANGED <<interface, making, subscribed, libraryVars>>
        /\ worker' = "ready" /\ state' = "DISCONNECTED"
    BY <1>9 DEF DisconnectEnd
  <2> QED BY <2>1, NoticingStay
<1>10. CASE ReconnectingBegin \/ WorkerQuit
  <2>1. /\ UNCHANGED <<state, interface, making, subscribed, libraryVars>>
        /\ worker = "ready" /\ worker' \in {"ready", "announcing", "ended"}
    BY <1>10 DEF ReconnectingBegin, WorkerQuit, Slot
  <2> QED BY <2>1, NoticingStay
<1>11. CASE ReconnectingEnd
  <2>1. /\ UNCHANGED <<interface, making, subscribed, libraryVars>>
        /\ worker' = "ready" /\ state' = "RECONNECTING"
    BY <1>11 DEF ReconnectingEnd, SetState
  <2> QED BY <2>1, NoticingStay
<1> QED
  BY <1>1, <1>2, <1>3, <1>4, <1>5, <1>7, <1>8, <1>9, <1>10, <1>11 DEF WorkerStep

\* A report of the library about the current interface.
LEMMA NoticingReport ==
  ASSUME Held, Calming, Noticing, NEW i \in Interfaces, LinkUp(i) \/ LinkDown(i)
  PROVE  Noticing'
<1>0. /\ events \in Seq(Events) /\ interface \in Interfaces \cup {None}
      /\ making \in Interfaces \cup {None}
      /\ link \in [Interfaces -> {"closed", "syncing", "up", "rebooting", "failed"}]
  BY DEF Calming, Held
<1>1. /\ UNCHANGED <<worker, state, interface, making, subscribed, callback, missed>>
      /\ \A j \in Interfaces \ {i} : link'[j] = link[j]
      /\ LinkUp(i) => link'[i] = "up"
  BY <1>0 DEF LinkUp, LinkDown, workerVars
<1>2. PICK x \in Events : x.interface = i /\ events' = Append(events, x)
  BY DEF LinkUp, LinkDown, Publish, Events
<1>3. LinkDown(i) => LastIsLost(events', i)
  BY <1>0, LastIsLostAppend DEF LinkDown, Publish
<1>4. \A j \in Interfaces \ {i} :
        /\ LastIsLost(events, j) => LastIsLost(events', j)
        /\ NoneOf(events, j) => NoneOf(events', j)
  BY <1>0, <1>2, LastIsLostOther
<1>5. link'[i] = "failed" => LastIsLost(events', i)
  BY <1>1, <1>3
<1>6. \A j \in Interfaces : /\ link'[j] = "failed" => link[j] = "failed" \/ j = i
                            /\ j # i => link'[j] = link[j]
  BY <1>1
<1>7. \A j \in Current : j \in Interfaces
  BY <1>0 DEF Current
<1>8. Gone' /\ interface # i => Gone
  BY <1>0, <1>1, InterfacesAssumption DEF Gone
<1>9. UNCHANGED <<Current, Connectable>>
  BY <1>1 DEF Current, Connectable
<1>10. interface # i /\ interface # None => interface \in Interfaces \ {i}
  BY <1>0
<1>11. /\ interface # None => subscribed = TRUE
       /\ worker = "opened" => interface # None
       /\ worker = "opening" => subscribed = TRUE
  BY DEF Noticing
<1>12. \A j \in Interfaces :
         link'[j] = "failed" => LastIsLost(events', j) \/ NoneOf(events', j)
  BY <1>4, <1>5, <1>6 DEF Noticing
<1>13. ASSUME callback # None /\ callback.kind = "established"
       PROVE  \A j \in Current : link'[j] = "failed" => LastIsLost(events', j)
  BY <1>4, <1>5, <1>6, <1>7, <1>13 DEF Noticing
<1>14. ASSUME "lost" \notin missed, worker \in {"opening", "opened"}
       PROVE  \A j \in Current : link'[j] = "failed" => LastIsLost(events', j)
  BY <1>4, <1>5, <1>6, <1>7, <1>14 DEF Noticing
<1>15. ASSUME Gone', "lost" \notin missed
       PROVE  \/ LastIsLost(events', interface)
              \/ /\ NoneOf(events', interface)
                 /\ \/ callback \in Losing
                    \/ /\ callback \in HasLost \cup {None}
                       /\ Connectable \/ worker = "scanning"
  <2>1. CASE interface = i
    BY <1>1, <1>5, <1>15, <2>1 DEF Gone
  <2>2. CASE interface # i
    <3>1. interface \in Interfaces \ {i}
      BY <1>1, <1>10, <1>15, <2>2 DEF Gone
    <3> QED BY <1>4, <1>8, <1>15, <2>2, <3>1 DEF Noticing
  <2> QED BY <2>1, <2>2
<1> QED BY <1>1, <1>9, <1>11, <1>12, <1>13, <1>14, <1>15 DEF Noticing

\* The publishing thread takes the next event.
LEMMA NoticingBegin ==
  ASSUME Held, Calming, Noticing, CallbackBegin
  PROVE  Noticing'
<1>0. /\ events \in Seq(Events) /\ interface \in Interfaces \cup {None}
      /\ making \in Interfaces \cup {None}
      /\ worker = "opening" => interface = None
      /\ worker # "opening" => making = None
  BY DEF Calming, Held
<1>1. /\ callback = None /\ events # <<>> /\ events' = Tail(events)
      /\ callback' = IF subscribed /\ interface = Head(events).interface
                     THEN Head(events) ELSE None
      /\ missed' = IF Overtakes(Head(events).interface)
                   THEN missed \cup {Head(events).kind} ELSE missed
      /\ UNCHANGED <<worker, state, interface, making, subscribed, link>>
  BY DEF CallbackBegin, workerVars
<1>2. Head(events) \in Events
  BY <1>0, <1>1
<1>3. ASSUME NEW i
      PROVE  /\ LastIsLost(events, i) => \/ LastIsLost(events', i)
                                         \/ /\ Head(events).interface = i
                                            /\ Head(events).kind = "lost"
                                            /\ NoneOf(events', i)
             /\ NoneOf(events, i) => NoneOf(events', i) /\ Head(events).interface # i
  BY <1>0, <1>1, LastIsLostTail
<1>4. UNCHANGED <<Current, Connectable, Gone>> /\ Current \subseteq Interfaces
  BY <1>0, <1>1 DEF Current, Connectable, Gone
<1>5. \A i \in Interfaces :
        link[i] = "failed" => LastIsLost(events', i) \/ NoneOf(events', i)
  BY <1>3 DEF Noticing
<1>6. ASSUME callback' # None, callback'.kind = "established", NEW i \in Current,
             link[i] = "failed"
      PROVE  LastIsLost(events', i)
  <2>1. Head(events).interface = interface /\ Head(events).kind = "established"
    BY <1>1, <1>6
  <2>2. i = interface
    BY <1>0, <1>2, <1>6, <2>1, InterfacesAssumption DEF Current, Events
  <2>3. LastIsLost(events, i)
    BY <1>3, <1>4, <1>6, <2>1, <2>2 DEF Noticing
  <2> QED BY <1>3, <2>1, <2>3
<1>7. ASSUME "lost" \notin missed', worker \in {"opening", "opened"}, NEW i \in Current,
             link[i] = "failed"
      PROVE  LastIsLost(events', i)
  <2>1. Overtakes(i)
    BY <1>0, <1>7 DEF Current, Overtakes
  <2>2. "lost" \notin missed
    BY <1>1, <1>7
  <2>3. LastIsLost(events, i)
    BY <1>7, <2>2 DEF Noticing
  <2>4. Head(events).interface = i => Head(events).kind # "lost"
    BY <1>1, <1>7, <2>1
  <2> QED BY <1>3, <2>3, <2>4
<1>8. ASSUME Gone, "lost" \notin missed'
      PROVE  \/ LastIsLost(events', interface)
             \/ /\ NoneOf(events', interface)
                /\ \/ callback' \in Losing
                   \/ callback' = None /\ (Connectable \/ worker = "scanning")
  <2>0. "lost" \notin missed
    BY <1>1, <1>8
  <2>1. CASE LastIsLost(events, interface)
    <3>1. CASE LastIsLost(events', interface)
      BY <3>1
    <3>2. CASE /\ Head(events).interface = interface /\ Head(events).kind = "lost"
               /\ NoneOf(events', interface)
      <4>1. callback' = Head(events)
        BY <1>1, <1>8, <3>2 DEF Noticing, Gone
      <4>2. callback' \in Losing
        BY <1>2, <3>2, <4>1 DEF Events, Losing
      <4> QED BY <3>2, <4>2
    <3> QED BY <1>3, <2>1, <3>1, <3>2
  <2>2. CASE ~LastIsLost(events, interface)
    <3>1. NoneOf(events, interface) /\ (Connectable \/ worker = "scanning")
      BY <1>1, <1>8, <2>0, <2>2, NoneAssumption DEF Noticing, Losing, Callbacks
    <3>2. NoneOf(events', interface) /\ Head(events).interface # interface
      BY <1>3, <3>1
    <3> QED BY <1>1, <3>1, <3>2
  <2> QED BY <2>1, <2>2
<1>9. /\ interface # None => subscribed = TRUE
      /\ worker = "opened" => interface # None
      /\ worker = "opening" => subscribed = TRUE
  BY DEF Noticing
<1> QED BY <1>1, <1>4, <1>5, <1>6, <1>7, <1>8, <1>9 DEF Noticing

LEMMA NoticingLibrary ==
  Held /\ Calming /\ Noticing /\ LibraryStep => Noticing'
<1> SUFFICES ASSUME Held, Calming, Noticing, LibraryStep PROVE Noticing'
  OBVIOUS
<1>0. callback \in Callbacks \cup {None} /\ interface \in Interfaces \cup {None}
  BY DEF Calming, Held
<1> USE DEF workerVars, queueVars
<1>1. CASE CallbackBegin
  BY <1>1, NoticingBegin
<1>2. CASE Established
  <2>1. /\ callback \in Callbacks /\ callback.kind = "established" /\ callback # None
        /\ callback' = [callback EXCEPT !.kind = "connected"]
        /\ UNCHANGED <<events, worker, interface, making, subscribed, link>>
    BY <1>0, <1>2 DEF Established, Handling, Continue
  <2>2. callback'.kind # "established"
    BY <2>1 DEF Callbacks
  <2>3. \A i \in Current : link[i] = "failed" => LastIsLost(events, i)
    BY <2>1 DEF Noticing
  <2>4. UNCHANGED Current /\ (interface # None => interface \in Current)
    BY <2>1 DEF Current
  <2> QED BY <2>1, <2>2, <2>3, <2>4 DEF Noticing, Gone
<1>3. CASE ConnectionLost
  <2>1. /\ callback \in Callbacks /\ state' = "ERROR"
        /\ callback' = [callback EXCEPT !.kind = "disconnected"]
        /\ UNCHANGED <<events, worker, interface, making, subscribed, link, missed>>
    BY <1>0, <1>3 DEF ConnectionLost, Handling, Continue
  <2>2. callback' \in HasLost /\ callback'.kind # "established"
    BY <2>1 DEF HasLost, Callbacks
  <2>3. UNCHANGED Current
    BY <2>1 DEF Current
  <2> QED BY <2>1, <2>2, <2>3 DEF Noticing, Gone, Connectable
<1>4. CASE EstablishedReport \/ EstablishedFailed \/ LostReport
  <2>1. /\ callback # None /\ callback.kind # "lost" /\ callback' = None
        /\ UNCHANGED <<events, worker, state, interface, making, subscribed, link>>
        /\ missed \subseteq missed'
    BY <1>4 DEF EstablishedReport, EstablishedFailed, LostReport, Handling
  <2>2. callback \notin Losing /\ UNCHANGED Current
    BY <2>1 DEF Losing, Current
  <2> QED BY <2>1, <2>2 DEF Noticing, Gone, Connectable
<1> QED BY <1>1, <1>2, <1>3, <1>4 DEF LibraryStep

LEMMA NoticingStep == Held /\ Calming /\ Noticing /\ [Next]_vars => Noticing'
<1> SUFFICES ASSUME Held, Calming, Noticing, [Next]_vars PROVE Noticing'
  OBVIOUS
<1>1. CASE UserStep \/ FirmwareCompleted \/ Close \/ OnSignal \/ AttemptReconnect
           \/ UNCHANGED vars
  <2>1. UNCHANGED <<workerVars, libraryVars>>
    BY <1>1 DEF UserStep, UserConnect, UserScan, UserDisconnect, UserRequest, UserFirmware,
       FirmwareCompleted, Close, AttemptReconnect, OnSignal, OnStateChanged, OnConnected,
       OnDisconnected, OnError, vars
  <2> QED BY <2>1 DEF Noticing, Gone, Connectable, Current, workerVars, libraryVars
<1>2. CASE WorkerStep
  BY <1>2, NoticingWorker
<1>3. CASE LibraryStep
  BY <1>3, NoticingLibrary
<1>4. ASSUME NEW i \in Interfaces, LinkUp(i) \/ LinkDown(i) PROVE Noticing'
  BY <1>4, NoticingReport
<1> QED BY <1>1, <1>2, <1>3, <1>4 DEF Next

(***************************************************************************)
(* A radio that is gone can be connected to again, for any radios,         *)
(* interfaces and bounds, whether or not reading the configuration fails,  *)
(* unless the loss itself overtook the connect slot.                       *)
(***************************************************************************)
THEOREM LossesAreNoticed == Spec => []LossIsNoticed
<1> DEFINE Inv == Supervised /\ Calming /\ Held /\ Noticing
<1>1. Init => Inv
  <2>1. <<>> \in Seq(Events)
    OBVIOUS
  <2> QED BY <2>1, SeqLiterals, NoneAssumption, InterfacesAssumption
          DEF Init, Supervised, RetryAfterSuccess, Calming, Held, OneInterface, Open,
              Noticing, Gone, Current
<1>2. Inv /\ [Next]_vars => Inv'
  BY SupervisedStep, CalmingStep, HeldStep, NoticingStep
<1>3. Inv => LossIsNoticed
  <2> SUFFICES ASSUME Inv, Settled, Gone, "lost" \notin missed PROVE Connectable
    BY DEF LossIsNoticed, Gone
  <2>1. events = <<>> /\ worker = "ready" /\ callback = None
    BY DEF Settled
  <2>2. ~LastIsLost(<<>>, interface)
    BY SeqLiterals DEF LastIsLost
  <2>3. callback \notin Losing
    BY <2>1, NoneAssumption DEF Losing, Callbacks
  <2> QED BY <2>1, <2>2, <2>3 DEF Noticing
<1> QED BY <1>1, <1>2, <1>3, PTL DEF Spec
=============================================================================
