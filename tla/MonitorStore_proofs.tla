------------------------ MODULE MonitorStore_proofs ------------------------
(***************************************************************************)
(* Proofs about MonitorStore, for every set of requests, every queue       *)
(* capacity, batch size and retry limit.                                   *)
(***************************************************************************)
EXTENDS MonitorStore, SequenceTheorems, FiniteSetTheorems, TLAPS

\* What the writer's position implies about its batch and its transaction.
Control ==
  /\ writer \in {"start", "crashed", "closed"} => batch = <<>>
  /\ writer \in {"start", "loop"} => pos = 1
  /\ writer = "loop" => Len(batch) < BatchSize
  /\ writer # "write" => completed = <<>>

TypeInv == TypeOK /\ Control

LEMMA InitType == Init => TypeInv
<1> SUFFICES ASSUME Init PROVE TypeInv
  OBVIOUS
<1> USE DEF Init
<1>1. log \in Seq(SUBSET Writes) /\ Len(log) = 1
  OBVIOUS
<1>2. Len(write_q) <= Capacity /\ Len(batch) <= BatchSize
  BY BoundsAssumption
<1>3. pos \in 1..(Len(batch) + 1) /\ attempt \in 1..(MaxRetries + 1)
  BY BoundsAssumption
<1>4. caller \in [Backups -> {"idle"}] /\ copy \in [Backups -> {{}}]
  OBVIOUS
<1>5. Control
  BY BoundsAssumption DEF Control
<1>6. \A S : write_q \in Seq(S) /\ accepted \in Seq(S) /\ batch \in Seq(S)
              /\ completed \in Seq(S) /\ committed \in Seq(S) /\ served \in Seq(S)
  OBVIOUS
<1>7. main \in 1..Len(log) /\ reader \in 0..Len(log)
  BY <1>1
<1>8. /\ caller \in [Backups -> {"idle", "checked", "waiting", "returned", "raised"}]
      /\ copy \in [Backups -> SUBSET Writes]
  BY <1>4
<1>9. /\ requested \in SUBSET Requests /\ dropped_count \in Nat
      /\ failed_count \in Nat /\ stop \in BOOLEAN /\ leaving \in BOOLEAN
      /\ closer \in {"open", "putting", "joining", "joined", "left"}
      /\ writer \in Phases \cup {"start", "loop", "closed", "crashed"}
  OBVIOUS
<1> HIDE DEF Init
<1> QED BY <1>1, <1>2, <1>3, <1>5, <1>6, <1>7, <1>8, <1>9 DEF TypeInv, TypeOK

LEMMA AppendFacts ==
  ASSUME NEW S, NEW s \in Seq(S), NEW e \in S
  PROVE  /\ Append(s, e) \in Seq(S)
         /\ Len(Append(s, e)) = Len(s) + 1
         /\ Len(s) \in Nat
BY AppendProperties

LEMMA EnqueueType ==
  ASSUME TypeInv, NEW x \in Requests, Enqueue(x)
  PROVE  /\ write_q' \in Seq(Requests \cup {Sentinel}) /\ Len(write_q') <= Capacity
         /\ accepted' \in Seq(Requests \cup {Sentinel})
         /\ requested' \in SUBSET Requests
         /\ dropped_count' \in Nat
<1> DEFINE S == Requests \cup {Sentinel}
<1>1. /\ write_q \in Seq(S) /\ accepted \in Seq(S) /\ x \in S
      /\ Len(write_q) <= Capacity /\ Capacity \in Nat
      /\ dropped_count \in Nat /\ requested \in SUBSET Requests
  BY BoundsAssumption DEF TypeInv, TypeOK
<1>2. requested' \in SUBSET Requests
  BY <1>1 DEF Enqueue
<1> SUFFICES /\ write_q' \in Seq(S) /\ Len(write_q') <= Capacity
             /\ accepted' \in Seq(S) /\ dropped_count' \in Nat
  BY <1>2
<1> HIDE DEF S
<1>3. CASE Len(write_q) < Capacity
  <2>1. /\ write_q' = Append(write_q, x) /\ accepted' = Append(accepted, x)
        /\ dropped_count' = dropped_count
    BY <1>3 DEF Enqueue
  <2> QED BY <1>1, <1>3, <2>1, AppendFacts
<1>4. CASE ~(Len(write_q) < Capacity)
  BY <1>1, <1>4 DEF Enqueue
<1> QED BY <1>3, <1>4

\* A transaction may add a state to the log; the others stay where they are.
LogGrows ==
  /\ log' \in Seq(SUBSET Writes)
  /\ main \in 1..Len(log') /\ reader \in 0..Len(log')

LEMMA DeleteOldType ==
  ASSUME TypeInv, NEW old, DeleteOld(old)
  PROVE  LogGrows
<1>1. log \in Seq(SUBSET Writes) /\ main \in 1..Len(log) /\ reader \in 0..Len(log)
  BY DEF TypeInv, TypeOK
<1>2. Rows \in SUBSET Writes
  BY <1>1 DEF Rows
<1>3. CASE old = {}
  BY <1>1, <1>3 DEF DeleteOld, LogGrows
<1>4. CASE old # {}
  <2>1. log' = Append(log, Rows \ old) /\ Rows \ old \in SUBSET Writes
    BY <1>2, <1>4 DEF DeleteOld
  <2> QED BY <1>1, <2>1, AppendFacts DEF LogGrows
<1> QED BY <1>3, <1>4

LEMMA CallerType ==
  ASSUME TypeInv,
         \/ \E x \in Requests : Save(x)
         \/ \E b \in Backups : BackupCall(b) \/ BackupEnqueue(b) \/ BackupTimeout(b)
         \/ Shutdown \/ PutSentinel \/ Join
         \/ ReadBegin \/ ReadEnd \/ PruneNow
  PROVE  TypeInv'
<1> USE DEF queueVars, flushVars, fileVars, callVars, closeVars, historyVars
<1>1. ASSUME NEW x \in Requests, Save(x) PROVE TypeInv'
  BY <1>1, EnqueueType DEF TypeInv, TypeOK, Control, Save
<1>2. ASSUME NEW b \in Backups, BackupCall(b) PROVE TypeInv'
  BY <1>2 DEF TypeInv, TypeOK, Control, BackupCall
<1>3. ASSUME NEW b \in Backups, BackupEnqueue(b) PROVE TypeInv'
  BY <1>3, EnqueueType DEF TypeInv, TypeOK, Control, BackupEnqueue, Requests
<1>4. ASSUME NEW b \in Backups, BackupTimeout(b) PROVE TypeInv'
  BY <1>4 DEF TypeInv, TypeOK, Control, BackupTimeout
<1>5. ASSUME Shutdown PROVE TypeInv'
  BY <1>5 DEF TypeInv, TypeOK, Control, Shutdown
<1>6. ASSUME PutSentinel PROVE TypeInv'
  <2> DEFINE S == Requests \cup {Sentinel}
  <2>1. /\ write_q \in Seq(S) /\ accepted \in Seq(S) /\ Sentinel \in S
        /\ Capacity \in Nat
    BY BoundsAssumption DEF TypeInv, TypeOK
  <2>2. /\ write_q' = Append(write_q, Sentinel) /\ Len(write_q) < Capacity
        /\ accepted' = Append(accepted, Sentinel)
    BY <1>6 DEF PutSentinel
  <2> HIDE DEF S
  <2>3. write_q' \in Seq(S) /\ accepted' \in Seq(S) /\ Len(write_q') <= Capacity
    BY <2>1, <2>2, AppendFacts
  <2> QED BY <1>6, <2>3 DEF TypeInv, TypeOK, Control, PutSentinel, S
<1>7. ASSUME Join PROVE TypeInv'
  BY <1>7 DEF TypeInv, TypeOK, Control, Join
<1>8. ASSUME ReadBegin PROVE TypeInv'
  <2>1. reader' \in 0..Len(log)
    BY <1>8 DEF TypeInv, TypeOK, ReadBegin
  <2> QED BY <1>8, <2>1 DEF TypeInv, TypeOK, Control, ReadBegin
<1>9. ASSUME ReadEnd PROVE TypeInv'
  <2>1. reader' \in 0..Len(log)
    BY <1>9 DEF TypeInv, TypeOK, ReadEnd
  <2> QED BY <1>9, <2>1 DEF TypeInv, TypeOK, Control, ReadEnd
<1>10. ASSUME PruneNow PROVE TypeInv'
  <2>1. PICK old \in SUBSET (Volume \cap Rows) : DeleteOld(old)
    BY <1>10 DEF PruneNow
  <2>2. LogGrows
    BY <2>1, DeleteOldType
  <2> QED BY <1>10, <2>2 DEF TypeInv, TypeOK, Control, PruneNow, LogGrows
<1> QED BY <1>1, <1>2, <1>3, <1>4, <1>5, <1>6, <1>7, <1>8, <1>9, <1>10

LEMMA FlushPhaseType ==
  ASSUME NEW b
  PROVE  FlushPhase(b) \in {"write", "backup"}
BY DEF FlushPhase

LEMMA LoopType ==
  ASSUME TypeInv, WriterStart \/ Take \/ Idle \/ LeaveLoop
  PROVE  TypeInv'
<1> USE DEF queueVars, fileVars, callVars, closeVars, historyVars
<1> DEFINE S == Requests \cup {Sentinel}
<1>1. ASSUME WriterStart PROVE TypeInv'
  BY <1>1, BoundsAssumption DEF TypeInv, TypeOK, Control, WriterStart, Phases
<1>2. ASSUME Take PROVE TypeInv'
  <2>1. /\ write_q \in Seq(S) /\ write_q # <<>> /\ Head(write_q) # Sentinel
        /\ write_q' = Tail(write_q) /\ batch' = Append(batch, Head(write_q))
        /\ batch \in Seq(Requests) /\ Len(batch) < BatchSize /\ BatchSize \in Nat
        /\ Len(write_q) <= Capacity /\ Capacity \in Nat /\ pos' = 1
    BY <1>2, BoundsAssumption DEF TypeInv, TypeOK, Control, Take
  <2> HIDE DEF S
  <2>2. /\ Head(write_q) \in S /\ write_q' \in Seq(S)
        /\ Len(write_q') = Len(write_q) - 1 /\ Len(write_q) \in Nat
    BY <2>1, HeadTailProperties
  <2>3. Head(write_q) \in Requests
    BY <2>1, <2>2 DEF S
  <2>4. /\ batch' \in Seq(Requests) /\ Len(batch') = Len(batch) + 1
        /\ Len(batch) \in Nat
    BY <2>1, <2>3, AppendFacts
  <2>5. /\ Len(write_q') <= Capacity /\ Len(batch') <= BatchSize
        /\ pos' \in 1..(Len(batch') + 1)
    BY <2>1, <2>2, <2>4
  <2>6. /\ writer' \in {"loop", "write", "backup"}
        /\ writer' = "loop" => Len(batch') < BatchSize
    BY <1>2, <2>1, <2>4, FlushPhaseType DEF Take
  <2>7. writer = "loop" /\ completed' = <<>>
    BY <1>2 DEF Take, TypeInv, Control
  <2> QED BY <1>2, <2>1, <2>2, <2>4, <2>5, <2>6, <2>7
             DEF TypeInv, TypeOK, Control, Take, Phases, S
<1>3. ASSUME Idle PROVE TypeInv'
  <2>1. writer' \in {"write", "backup"}
    BY <1>3, FlushPhaseType DEF Idle
  <2> QED BY <1>3, <2>1 DEF TypeInv, TypeOK, Control, Idle, Phases
<1>4. ASSUME LeaveLoop PROVE TypeInv'
  <2>1. write_q \in Seq(S) /\ Len(write_q) <= Capacity /\ Capacity \in Nat
    BY BoundsAssumption DEF TypeInv, TypeOK
  <2>2. \/ write_q' = write_q
        \/ write_q # <<>> /\ write_q' = Tail(write_q)
    BY <1>4 DEF LeaveLoop
  <2> HIDE DEF S
  <2>3. write_q' \in Seq(S) /\ Len(write_q') <= Capacity
    BY <2>1, <2>2, HeadTailProperties, LenProperties
  <2>4. /\ writer' \in {"write", "backup", "closed"}
        /\ writer' = "closed" => batch = <<>>
    BY <1>4, FlushPhaseType DEF LeaveLoop
  <2> QED BY <1>4, <2>3, <2>4 DEF TypeInv, TypeOK, Control, LeaveLoop, Phases, S
<1> QED BY <1>1, <1>2, <1>3, <1>4

\* A step within a phase moves on by at most one item.
LEMMA PosAdvances ==
  ASSUME TypeInv, pos \in DOMAIN batch
  PROVE  pos + 1 \in 1..(Len(batch) + 1) /\ batch[pos] \in Requests
BY DEF TypeInv, TypeOK

LEMMA ServingFacts ==
  ASSUME TypeInv, NEW phase \in Phases, Serving(phase)
  PROVE  /\ writer = phase /\ pos \in DOMAIN batch
         /\ pos + 1 \in 1..(Len(batch) + 1)
         /\ batch[pos] \in Serves(phase)
BY PosAdvances DEF Serving

LEMMA RowsType ==
  ASSUME TypeInv, Skip \/ RowWritten \/ RowRetried \/ RowFailed
  PROVE  TypeInv'
<1> USE DEF queueVars, fileVars, callVars, closeVars, historyVars
<1>1. ASSUME Skip PROVE TypeInv'
  <2>1. pos' \in 1..(Len(batch) + 1) /\ writer \in Phases
    BY <1>1, PosAdvances DEF Skip
  <2> QED BY <1>1, <2>1 DEF TypeInv, TypeOK, Control, Skip, Phases
<1>2. ASSUME RowWritten PROVE TypeInv'
  <2>1. /\ pos' \in 1..(Len(batch) + 1) /\ writer = "write"
        /\ batch[pos] \in Writes /\ completed \in Seq(Writes)
        /\ completed' = Append(completed, batch[pos])
    BY <1>2, ServingFacts DEF RowWritten, Serves, TypeInv, TypeOK, Phases
  <2>2. completed' \in Seq(Writes)
    BY <2>1, AppendFacts
  <2>3. attempt' \in 1..(MaxRetries + 1)
    BY <1>2, BoundsAssumption DEF RowWritten
  <2> QED BY <1>2, <2>1, <2>2, <2>3 DEF TypeInv, TypeOK, Control, RowWritten
<1>3. ASSUME RowRetried PROVE TypeInv'
  <2>1. attempt' \in 1..(MaxRetries + 1)
    BY <1>3, BoundsAssumption DEF RowRetried, TypeInv, TypeOK
  <2> QED BY <1>3, <2>1 DEF TypeInv, TypeOK, Control, RowRetried
<1>4. ASSUME RowFailed PROVE TypeInv'
  <2>1. pos' \in 1..(Len(batch) + 1) /\ writer = "write"
    BY <1>4, ServingFacts DEF RowFailed, Phases
  <2>2. attempt' \in 1..(MaxRetries + 1) /\ failed_count' \in Nat
    BY <1>4, BoundsAssumption DEF RowFailed, TypeInv, TypeOK
  <2> QED BY <1>4, <2>1, <2>2 DEF TypeInv, TypeOK, Control, RowFailed
<1> QED BY <1>1, <1>2, <1>3, <1>4

LEMMA CommitType ==
  ASSUME TypeInv, Commit \/ CommitFailed
  PROVE  TypeInv'
<1> USE DEF queueVars, fileVars, callVars, closeVars, historyVars
<1>0. completed' = <<>> /\ completed' \in Seq(Writes)
  <2>1. completed' = <<>>
    BY DEF Commit, CommitFailed
  <2> QED BY <2>1
<1>1. pos' \in 1..(Len(batch) + 1)
  <2>1. pos' = 1 /\ Len(batch) \in Nat
    BY LenProperties DEF Commit, CommitFailed, TypeInv, TypeOK
  <2> QED BY <2>1
<1>2. ASSUME Commit PROVE TypeInv'
  <2>1. /\ completed \in Seq(Writes) /\ committed \in Seq(Writes)
        /\ log \in Seq(SUBSET Writes) /\ main \in 1..Len(log)
        /\ reader \in 0..Len(log)
    BY DEF TypeInv, TypeOK
  <2>2. committed' \in Seq(Writes)
    BY <1>2, <2>1, ConcatProperties DEF Commit
  <2>3. Rows \cup Range(completed) \in SUBSET Writes
    BY <2>1 DEF Rows, Range
  <2>4. LogGrows
    <3>1. CASE completed = <<>>
      BY <1>2, <2>1, <3>1 DEF Commit, LogGrows
    <3>2. CASE completed # <<>>
      <4>1. log' = Append(log, Rows \cup Range(completed))
        BY <1>2, <3>2 DEF Commit
      <4> QED BY <2>1, <2>3, <4>1, AppendFacts DEF LogGrows
    <3> QED BY <3>1, <3>2
  <2> QED BY <1>0, <1>1, <1>2, <2>2, <2>4
             DEF TypeInv, TypeOK, Control, Commit, LogGrows, Phases
<1>3. ASSUME CommitFailed PROVE TypeInv'
  <2>1. failed_count' \in Nat
    BY <1>3, LenProperties DEF CommitFailed, TypeInv, TypeOK
  <2> QED BY <1>0, <1>1, <1>3, <2>1
             DEF TypeInv, TypeOK, Control, CommitFailed, Phases
<1> QED BY <1>2, <1>3

LEMMA CheckpointType ==
  ASSUME TypeInv, Checkpoint \/ UNCHANGED main
  PROVE  main' \in 1..Len(log) /\ log[main'] \in SUBSET Writes
BY DEF TypeInv, TypeOK, Checkpoint

LEMMA AnswerType ==
  ASSUME TypeInv, NEW b \in Backups, NEW o \in {"returned", "raised"}, Answer(b, o)
  PROVE  caller' \in [Backups -> {"idle", "checked", "waiting", "returned", "raised"}]
BY DEF TypeInv, TypeOK, Answer

LEMMA MaintenanceType ==
  ASSUME TypeInv, Maintenance
  PROVE  TypeInv'
<1> USE DEF queueVars, fileVars, callVars, closeVars, historyVars
<1> DEFINE M == Backups \cup Prunes \cup Vacuums
<1>0. PICK phase \in {"backup", "vacuum", "prune"} : Serving(phase)
  BY DEF Maintenance, RunBackup, BackupFailed, RunVacuum, RunPrune
<1>1. /\ writer = phase /\ batch[pos] \in Serves(phase)
      /\ pos + 1 \in 1..(Len(batch) + 1)
  BY <1>0, ServingFacts DEF Phases
<1>2. batch[pos] \in M /\ served \in Seq(M)
  BY <1>1 DEF Serves, TypeInv, TypeOK
<1>3. served' = Append(served, batch[pos]) /\ pos' = pos + 1
  BY DEF Maintenance, RunBackup, BackupFailed, RunVacuum, RunPrune
<1>4. served' \in Seq(M)
  <2> HIDE DEF M
  <2> QED BY <1>2, <1>3, AppendFacts
<1>5. writer \in {"backup", "vacuum", "prune"} /\ pos' \in 1..(Len(batch) + 1)
  BY <1>1, <1>3
<1>6. ASSUME RunBackup PROVE TypeInv'
  <2>1. batch[pos] \in Backups
    BY <1>6, ServingFacts DEF RunBackup, Serves, Phases
  <2>2. main' \in 1..Len(log) /\ copy' \in [Backups -> SUBSET Writes]
    BY <1>6, <2>1, CheckpointType DEF RunBackup, TypeInv, TypeOK
  <2>3. caller' \in [Backups -> {"idle", "checked", "waiting", "returned", "raised"}]
    BY <1>6, <2>1, AnswerType DEF RunBackup
  <2> QED BY <1>4, <1>5, <1>6, <2>2, <2>3 DEF TypeInv, TypeOK, Control, RunBackup
<1>7. ASSUME BackupFailed PROVE TypeInv'
  <2>1. batch[pos] \in Backups
    BY <1>7, ServingFacts DEF BackupFailed, Serves, Phases
  <2>2. main' \in 1..Len(log)
    BY <1>7, CheckpointType DEF BackupFailed
  <2>3. caller' \in [Backups -> {"idle", "checked", "waiting", "returned", "raised"}]
    BY <1>7, <2>1, AnswerType DEF BackupFailed
  <2> QED BY <1>4, <1>5, <1>7, <2>2, <2>3 DEF TypeInv, TypeOK, Control, BackupFailed
<1>8. ASSUME RunVacuum PROVE TypeInv'
  <2>1. main' \in 1..Len(log)
    BY <1>8, CheckpointType DEF RunVacuum
  <2> QED BY <1>4, <1>5, <1>8, <2>1 DEF TypeInv, TypeOK, Control, RunVacuum
<1>9. ASSUME RunPrune PROVE TypeInv'
  <2>1. LogGrows
    BY <1>9, DeleteOldType DEF RunPrune
  <2> QED BY <1>4, <1>5, <1>9, <2>1 DEF TypeInv, TypeOK, Control, RunPrune, LogGrows
<1> QED BY <1>6, <1>7, <1>8, <1>9 DEF Maintenance

LEMMA PhaseType ==
  ASSUME TypeInv, NextPhase \/ FlushDone
  PROVE  TypeInv'
<1> USE DEF queueVars, fileVars, callVars, closeVars, historyVars
<1>1. ASSUME NextPhase PROVE TypeInv'
  <2>1. pos' \in 1..(Len(batch) + 1)
    BY <1>1 DEF NextPhase, TypeInv, TypeOK
  <2> QED BY <1>1, <2>1 DEF TypeInv, TypeOK, Control, NextPhase, PhaseAfter, Phases
<1>2. ASSUME FlushDone PROVE TypeInv'
  <2>1. /\ batch' \in Seq(Requests) /\ Len(batch') = 0
        /\ pos' \in 1..(Len(batch') + 1) /\ Len(batch') < BatchSize
        /\ Len(batch') <= BatchSize
    BY <1>2, BoundsAssumption DEF FlushDone
  <2> QED BY <1>2, <2>1 DEF TypeInv, TypeOK, Control, FlushDone
<1> QED BY <1>1, <1>2

LEMMA NextType == TypeInv /\ [Next]_vars => TypeInv'
<1> SUFFICES ASSUME TypeInv, [Next]_vars PROVE TypeInv'
  OBVIOUS
<1>1. CASE Writer
  BY <1>1, LoopType, RowsType, CommitType, MaintenanceType, PhaseType DEF Writer
<1>2. CASE Next /\ ~Writer
  BY <1>2, CallerType DEF Next
<1>3. CASE UNCHANGED vars
  BY <1>3 DEF vars, queueVars, flushVars, fileVars, callVars, closeVars,
              historyVars, TypeInv, TypeOK, Control
<1> QED BY <1>1, <1>2, <1>3

(***************************************************************************)
(* Type correctness.  In particular the queue never exceeds its capacity,  *)
(* a batch never exceeds BatchSize, a row is attempted at most             *)
(* MaxRetries + 1 times, and the flush never reads past its batch.         *)
(***************************************************************************)
THEOREM TypeCorrect == Spec => []TypeOK
<1>1. TypeInv => TypeOK
  BY DEF TypeInv
<1> QED BY <1>1, InitType, NextType, PTL DEF Spec

-----------------------------------------------------------------------------
(* Where rows are, and in which order they got there                       *)

\* Nothing is queued twice: a request is made once, and so is the sentinel.
AcceptedOnce ==
  /\ \A i, j \in DOMAIN accepted : accepted[i] = accepted[j] => i = j
  /\ Range(accepted) \subseteq requested \cup {Sentinel}
  /\ closer \in {"open", "putting"} => Sentinel \notin Range(accepted)
  /\ \A b \in Backups : caller[b] \in {"idle", "checked"} => b \notin requested

Chain(s) == \A i, j \in DOMAIN s : i < j => Before(s[i], s[j])

Precedes(S, T) == \A x \in S, y \in T : Before(x, y)

\* Every stage of the pipeline is in acceptance order, and ahead of the next.
Order ==
  /\ Chain(write_q) /\ Chain(batch) /\ Chain(completed) /\ Chain(committed)
  /\ Precedes(Range(batch), Range(write_q))
  /\ Precedes(Range(completed), Unwritten \cup Range(write_q))
  /\ Precedes(Range(committed), Range(completed) \cup Unwritten \cup Range(write_q))
  /\ Range(write_q) \cup Range(batch) \cup Range(completed) \cup Range(committed)
       \subseteq Range(accepted)

Pipeline == TypeInv /\ AcceptedOnce /\ Order

LEMMA UnwrittenFacts ==
  /\ writer = "loop" => Unwritten = Range(batch)
  /\ writer = "write" => Unwritten = {batch[i] : i \in pos..Len(batch)}
  /\ writer \notin {"loop", "write"} => Unwritten = {}
BY DEF Unwritten

LEMMA UnwrittenInBatch ==
  ASSUME TypeInv PROVE Unwritten \subseteq Range(batch)
<1>1. /\ DOMAIN batch = 1..Len(batch) /\ Len(batch) \in Nat /\ pos \in Nat \ {0}
  BY LenProperties DEF TypeInv, TypeOK
<1>2. {batch[i] : i \in pos..Len(batch)} \subseteq Range(batch)
  BY <1>1 DEF Range
<1> QED BY <1>2, UnwrittenFacts

LEMMA RangeAppend ==
  ASSUME NEW S, NEW s \in Seq(S), NEW e \in S
  PROVE  Range(Append(s, e)) = Range(s) \cup {e}
<1>1. /\ DOMAIN s = 1..Len(s) /\ DOMAIN Append(s, e) = 1..(Len(s) + 1)
      /\ Len(s) \in Nat
      /\ \A i \in 1..Len(s) : Append(s, e)[i] = s[i]
      /\ Append(s, e)[Len(s) + 1] = e
  BY AppendProperties, LenProperties
<1>2. ASSUME NEW x \in Range(Append(s, e)) PROVE x \in Range(s) \cup {e}
  <2>1. PICK i \in 1..(Len(s) + 1) : x = Append(s, e)[i]
    BY <1>1, <1>2 DEF Range
  <2> QED BY <1>1, <2>1 DEF Range
<1>3. ASSUME NEW x \in Range(s) \cup {e} PROVE x \in Range(Append(s, e))
  BY <1>1, <1>3 DEF Range
<1> QED BY <1>2, <1>3

LEMMA RangeTail ==
  ASSUME NEW S, NEW s \in Seq(S), s # <<>>
  PROVE  Range(s) = Range(Tail(s)) \cup {Head(s)}
<1>1. /\ DOMAIN s = 1..Len(s) /\ Len(s) \in Nat \ {0} /\ Head(s) = s[1]
      /\ DOMAIN Tail(s) = 1..(Len(s) - 1)
      /\ \A i \in 1..(Len(s) - 1) : Tail(s)[i] = s[i + 1]
  BY HeadTailProperties, LenProperties, EmptySeq
<1>2. ASSUME NEW x \in Range(s) PROVE x \in Range(Tail(s)) \cup {Head(s)}
  <2>1. PICK i \in 1..Len(s) : x = s[i]
    BY <1>1, <1>2 DEF Range
  <2>2. CASE i = 1
    BY <1>1, <2>1, <2>2
  <2>3. CASE i # 1
    <3>1. i - 1 \in 1..(Len(s) - 1) /\ (i - 1) + 1 = i
      BY <1>1, <2>1, <2>3
    <3>2. i - 1 \in DOMAIN Tail(s) /\ Tail(s)[i - 1] = x
      BY <1>1, <2>1, <3>1
    <3> QED BY <3>2 DEF Range
  <2> QED BY <2>2, <2>3
<1>3. ASSUME NEW x \in Range(Tail(s)) \cup {Head(s)} PROVE x \in Range(s)
  <2>1. CASE x = Head(s)
    BY <1>1, <2>1 DEF Range
  <2>2. CASE x \in Range(Tail(s))
    <3>1. PICK i \in 1..(Len(s) - 1) : x = Tail(s)[i]
      BY <1>1, <2>2 DEF Range
    <3> QED BY <1>1, <3>1 DEF Range
  <2> QED BY <1>3, <2>1, <2>2
<1> QED BY <1>2, <1>3

LEMMA RangeConcat ==
  ASSUME NEW S, NEW s \in Seq(S), NEW t \in Seq(S)
  PROVE  Range(s \o t) = Range(s) \cup Range(t)
<1>1. /\ DOMAIN s = 1..Len(s) /\ DOMAIN t = 1..Len(t)
      /\ Len(s) \in Nat /\ Len(t) \in Nat
      /\ DOMAIN (s \o t) = 1..(Len(s) + Len(t))
      /\ \A i \in 1..(Len(s) + Len(t)) :
           (s \o t)[i] = IF i <= Len(s) THEN s[i] ELSE t[i - Len(s)]
  BY ConcatProperties, LenProperties
<1>2. ASSUME NEW x \in Range(s \o t) PROVE x \in Range(s) \cup Range(t)
  <2>1. PICK i \in 1..(Len(s) + Len(t)) : x = (s \o t)[i]
    BY <1>1, <1>2 DEF Range
  <2>2. CASE i <= Len(s)
    BY <1>1, <2>1, <2>2 DEF Range
  <2>3. CASE ~(i <= Len(s))
    <3>1. i - Len(s) \in 1..Len(t)
      BY <1>1, <2>1, <2>3
    <3> QED BY <1>1, <2>1, <2>3, <3>1 DEF Range
  <2> QED BY <2>2, <2>3
<1>3. ASSUME NEW x \in Range(s) PROVE x \in Range(s \o t)
  BY <1>1, <1>3 DEF Range
<1>4. ASSUME NEW x \in Range(t) PROVE x \in Range(s \o t)
  <2>1. PICK i \in 1..Len(t) : x = t[i]
    BY <1>1, <1>4 DEF Range
  <2>2. /\ Len(s) + i \in 1..(Len(s) + Len(t)) /\ ~(Len(s) + i <= Len(s))
        /\ (Len(s) + i) - Len(s) = i
    BY <1>1, <2>1
  <2> QED BY <1>1, <2>1, <2>2 DEF Range
<1> QED BY <1>2, <1>3, <1>4

\* No request was queued before itself.
LEMMA BeforeIrreflexive ==
  ASSUME TypeInv, AcceptedOnce, NEW x
  PROVE  ~Before(x, x)
BY DEF Before, AcceptedOnce, TypeInv, TypeOK

LEMMA BeforeStable ==
  ASSUME UNCHANGED accepted, NEW x, NEW y
  PROVE  Before(x, y)' <=> Before(x, y)
BY DEF Before

\* Queueing e: what was queued before stays so, and everything queued is
\* before e.
LEMMA BeforeAppend ==
  ASSUME TypeInv, NEW e \in Requests \cup {Sentinel},
         accepted' = Append(accepted, e)
  PROVE  /\ \A x, y : Before(x, y) => Before(x, y)'
         /\ \A x \in Range(accepted) : Before(x, e)'
         /\ Range(accepted') = Range(accepted) \cup {e}
<1> DEFINE S == Requests \cup {Sentinel}
<1>0. accepted \in Seq(S) /\ e \in S
  BY DEF TypeInv, TypeOK
<1> HIDE DEF S
<1>1. /\ DOMAIN accepted = 1..Len(accepted) /\ Len(accepted) \in Nat
      /\ DOMAIN accepted' = 1..(Len(accepted) + 1)
      /\ \A i \in 1..Len(accepted) : accepted'[i] = accepted[i]
      /\ accepted'[Len(accepted) + 1] = e
  BY <1>0, AppendProperties, LenProperties
<1>2. ASSUME NEW x, NEW y, Before(x, y) PROVE Before(x, y)'
  <2>1. PICK i, j \in DOMAIN accepted : i < j /\ accepted[i] = x /\ accepted[j] = y
    BY <1>2 DEF Before
  <2>2. i \in DOMAIN accepted' /\ j \in DOMAIN accepted'
    BY <1>1, <2>1
  <2>3. accepted'[i] = x /\ accepted'[j] = y
    BY <1>1, <2>1
  <2> QED BY <2>1, <2>2, <2>3 DEF Before
<1>3. ASSUME NEW x \in Range(accepted) PROVE Before(x, e)'
  <2>1. PICK i \in DOMAIN accepted : accepted[i] = x
    BY <1>3 DEF Range
  <2>2. /\ i \in DOMAIN accepted' /\ Len(accepted) + 1 \in DOMAIN accepted'
        /\ i < Len(accepted) + 1 /\ accepted'[i] = x
    BY <1>1, <2>1
  <2> QED BY <1>1, <2>2 DEF Before
<1>4. Range(accepted') = Range(accepted) \cup {e}
  BY <1>0, RangeAppend
<1> QED BY <1>2, <1>3, <1>4

\* Appending e, which everything in the chain precedes, extends the chain.
LEMMA ChainAppend ==
  ASSUME NEW S, NEW s \in Seq(S), NEW e \in S,
         Chain(s), \A x \in Range(s) : Before(x, e)
  PROVE  Chain(Append(s, e))
<1>1. /\ DOMAIN s = 1..Len(s) /\ DOMAIN Append(s, e) = 1..(Len(s) + 1)
      /\ Len(s) \in Nat
      /\ \A i \in 1..Len(s) : Append(s, e)[i] = s[i]
      /\ Append(s, e)[Len(s) + 1] = e
  BY AppendProperties, LenProperties
<1> SUFFICES ASSUME NEW i \in 1..(Len(s) + 1), NEW j \in 1..(Len(s) + 1), i < j
             PROVE  Before(Append(s, e)[i], Append(s, e)[j])
  BY <1>1 DEF Chain
<1>2. i \in 1..Len(s) /\ s[i] \in Range(s)
  BY <1>1 DEF Range
<1>3. CASE j = Len(s) + 1
  BY <1>1, <1>2, <1>3
<1>4. CASE j # Len(s) + 1
  BY <1>1, <1>2, <1>4 DEF Chain
<1> QED BY <1>3, <1>4

LEMMA ChainTail ==
  ASSUME NEW S, NEW s \in Seq(S), s # <<>>, Chain(s)
  PROVE  Chain(Tail(s)) /\ \A y \in Range(Tail(s)) : Before(Head(s), y)
<1>1. /\ DOMAIN s = 1..Len(s) /\ Len(s) \in Nat \ {0} /\ Head(s) = s[1]
      /\ DOMAIN Tail(s) = 1..(Len(s) - 1)
      /\ \A i \in 1..(Len(s) - 1) : Tail(s)[i] = s[i + 1]
  BY HeadTailProperties, LenProperties, EmptySeq
<1>2. ASSUME NEW i \in 1..(Len(s) - 1), NEW j \in 1..(Len(s) - 1), i < j
      PROVE  Before(Tail(s)[i], Tail(s)[j])
  <2>1. i + 1 \in 1..Len(s) /\ j + 1 \in 1..Len(s) /\ i + 1 < j + 1
    BY <1>1, <1>2
  <2> QED BY <1>1, <2>1 DEF Chain
<1>3. ASSUME NEW y \in Range(Tail(s)) PROVE Before(Head(s), y)
  <2>1. PICK i \in 1..(Len(s) - 1) : y = Tail(s)[i]
    BY <1>1, <1>3 DEF Range
  <2>2. 1 \in 1..Len(s) /\ i + 1 \in 1..Len(s) /\ 1 < i + 1
    BY <1>1, <2>1
  <2> QED BY <1>1, <2>1, <2>2 DEF Chain
<1> QED BY <1>1, <1>2, <1>3 DEF Chain

LEMMA ChainConcat ==
  ASSUME NEW S, NEW s \in Seq(S), NEW t \in Seq(S),
         Chain(s), Chain(t), Precedes(Range(s), Range(t))
  PROVE  Chain(s \o t)
<1>1. /\ DOMAIN s = 1..Len(s) /\ DOMAIN t = 1..Len(t)
      /\ Len(s) \in Nat /\ Len(t) \in Nat
      /\ DOMAIN (s \o t) = 1..(Len(s) + Len(t))
      /\ \A i \in 1..(Len(s) + Len(t)) :
           (s \o t)[i] = IF i <= Len(s) THEN s[i] ELSE t[i - Len(s)]
  BY ConcatProperties, LenProperties
<1> SUFFICES ASSUME NEW i \in 1..(Len(s) + Len(t)), NEW j \in 1..(Len(s) + Len(t)),
                    i < j
             PROVE  Before((s \o t)[i], (s \o t)[j])
  BY <1>1 DEF Chain
<1>2. CASE j <= Len(s)
  <2>1. i \in 1..Len(s) /\ j \in 1..Len(s)
    BY <1>1, <1>2
  <2> QED BY <1>1, <1>2, <2>1 DEF Chain
<1>3. CASE i <= Len(s) /\ ~(j <= Len(s))
  <2>1. i \in 1..Len(s) /\ j - Len(s) \in 1..Len(t)
    BY <1>1, <1>3
  <2>2. s[i] \in Range(s) /\ t[j - Len(s)] \in Range(t)
    BY <1>1, <2>1 DEF Range
  <2> QED BY <1>1, <1>3, <2>2 DEF Precedes
<1>4. CASE ~(i <= Len(s))
  <2>1. /\ i - Len(s) \in 1..Len(t) /\ j - Len(s) \in 1..Len(t)
        /\ i - Len(s) < j - Len(s) /\ ~(j <= Len(s))
    BY <1>1, <1>4
  <2> QED BY <1>1, <1>4, <2>1 DEF Chain
<1> QED BY <1>2, <1>3, <1>4

\* A step that queues nothing is checked with the order as it was.
LEMMA OrderStep ==
  ASSUME UNCHANGED accepted,
         Chain(write_q'), Chain(batch'), Chain(completed'), Chain(committed'),
         Precedes(Range(batch'), Range(write_q')),
         Precedes(Range(completed'), Unwritten' \cup Range(write_q')),
         Precedes(Range(committed'),
                  Range(completed') \cup Unwritten' \cup Range(write_q')),
         Range(write_q') \cup Range(batch') \cup Range(completed')
            \cup Range(committed') \subseteq Range(accepted)
  PROVE  Order'
<1>1. \A x, y : Before(x, y)' <=> Before(x, y)
  BY BeforeStable
<1>2. ASSUME NEW s, Chain(s) PROVE \A i, j \in DOMAIN s : i < j => Before(s[i], s[j])'
  BY <1>1, <1>2 DEF Chain
<1>3. Chain(write_q)' /\ Chain(batch)' /\ Chain(completed)' /\ Chain(committed)'
  BY <1>2 DEF Chain
<1>4. ASSUME NEW S, NEW T, Precedes(S, T) PROVE \A x \in S, y \in T : Before(x, y)'
  BY <1>1, <1>4 DEF Precedes
<1>5. /\ Precedes(Range(batch), Range(write_q))'
      /\ Precedes(Range(completed), Unwritten \cup Range(write_q))'
      /\ Precedes(Range(committed), Range(completed) \cup Unwritten \cup Range(write_q))'
  BY <1>4 DEF Precedes
<1> QED BY <1>3, <1>5 DEF Order

PipelineVars == <<write_q, accepted, batch, completed, committed>>

\* A step that moves no row.
LEMMA OrderFrame ==
  ASSUME Pipeline, UNCHANGED PipelineVars, Unwritten' \subseteq Unwritten
  PROVE  Order'
BY OrderStep DEF Pipeline, Order, Precedes, PipelineVars

\* Queueing e: a request that was not made before, or the sentinel.
LEMMA OrderAppend ==
  ASSUME Pipeline, NEW e \in Requests \cup {Sentinel},
         accepted' = Append(accepted, e), write_q' = Append(write_q, e),
         UNCHANGED <<batch, completed, committed>>, Unwritten' = Unwritten
  PROVE  Order'
<1> DEFINE S == Requests \cup {Sentinel}
<1>0. write_q \in Seq(S) /\ e \in S
  BY DEF Pipeline, TypeInv, TypeOK
<1>1. Range(write_q') = Range(write_q) \cup {e}
  BY <1>0, RangeAppend
<1> HIDE DEF S
<1>2. /\ \A x, y : Before(x, y) => Before(x, y)'
      /\ \A x \in Range(accepted) : Before(x, e)'
      /\ Range(accepted') = Range(accepted) \cup {e}
  BY BeforeAppend DEF Pipeline
<1>3. /\ DOMAIN write_q = 1..Len(write_q) /\ Len(write_q) \in Nat
      /\ DOMAIN write_q' = 1..(Len(write_q) + 1)
      /\ \A i \in 1..Len(write_q) : write_q'[i] = write_q[i]
      /\ write_q'[Len(write_q) + 1] = e
  BY <1>0, AppendProperties, LenProperties
<1>4. Chain(write_q)'
  <2> DEFINE n == Len(write_q)
  <2> SUFFICES ASSUME NEW i \in 1..(n + 1), NEW j \in 1..(n + 1), i < j
               PROVE  Before(write_q[i], write_q[j])'
    BY <1>3 DEF Chain
  <2> SUFFICES ASSUME NEW x, NEW y, x = write_q'[i], y = write_q'[j]
               PROVE  Before(x, y)'
    OBVIOUS
  <2>0. n \in Nat
    BY <1>3
  <2> HIDE DEF n
  <2>1. i \in 1..n
    BY <2>0
  <2>2. write_q'[i] = write_q[i] /\ write_q[i] \in Range(write_q)
    BY <1>3, <2>1 DEF Range, n
  <2>3. CASE j = n + 1
    <3>1. x \in Range(accepted) /\ y = e
      BY <1>3, <2>2, <2>3 DEF Pipeline, Order, n
    <3> QED BY <1>2, <3>1
  <2>4. CASE j # n + 1
    <3>1. j \in 1..n
      BY <2>0, <2>4
    <3>2. write_q'[j] = write_q[j]
      BY <1>3, <3>1 DEF n
    <3>3. Before(x, y)
      BY <1>3, <2>1, <2>2, <3>1, <3>2 DEF Pipeline, Order, Chain, n
    <3> QED BY <1>2, <3>3
  <2> QED BY <2>3, <2>4
<1>5. Chain(batch)' /\ Chain(completed)' /\ Chain(committed)'
  BY <1>2 DEF Pipeline, Order, Chain
<1>6. Unwritten \subseteq Range(accepted)
  BY UnwrittenInBatch DEF Pipeline, Order
<1>7. /\ Precedes(Range(batch), Range(write_q))'
      /\ Precedes(Range(completed), Unwritten \cup Range(write_q))'
      /\ Precedes(Range(committed), Range(completed) \cup Unwritten \cup Range(write_q))'
  BY <1>1, <1>2 DEF Pipeline, Order, Precedes
<1>8. (Range(write_q) \cup Range(batch) \cup Range(completed) \cup Range(committed)
       \subseteq Range(accepted))'
  BY <1>1, <1>2 DEF Pipeline, Order
<1> QED BY <1>4, <1>5, <1>7, <1>8 DEF Order

LEMMA AcceptedOnceAppend ==
  ASSUME Pipeline, NEW e \in Requests \cup {Sentinel},
         accepted' = Append(accepted, e), e \notin Range(accepted)
  PROVE  \A i, j \in DOMAIN accepted' : accepted'[i] = accepted'[j] => i = j
<1> DEFINE S == Requests \cup {Sentinel}
<1>0. accepted \in Seq(S) /\ e \in S
  BY DEF Pipeline, TypeInv, TypeOK
<1> HIDE DEF S
<1>1. /\ DOMAIN accepted = 1..Len(accepted) /\ Len(accepted) \in Nat
      /\ DOMAIN accepted' = 1..(Len(accepted) + 1)
      /\ \A i \in 1..Len(accepted) : accepted'[i] = accepted[i]
      /\ accepted'[Len(accepted) + 1] = e
  BY <1>0, AppendProperties, LenProperties
<1>2. \A i \in 1..Len(accepted) : accepted[i] # e
  BY <1>1 DEF Range
<1> QED BY <1>1, <1>2 DEF Pipeline, AcceptedOnce

LEMMA InitPipeline == Init => Pipeline
<1> SUFFICES ASSUME Init PROVE Pipeline
  OBVIOUS
<1>1. /\ DOMAIN accepted = {} /\ DOMAIN write_q = {} /\ DOMAIN batch = {}
      /\ DOMAIN completed = {} /\ DOMAIN committed = {}
  BY DEF Init
<1>2. Unwritten = {}
  BY UnwrittenFacts DEF Init
<1>3. AcceptedOnce
  BY <1>1 DEF Init, AcceptedOnce, Range
<1>4. Order
  BY <1>1, <1>2 DEF Order, Chain, Precedes, Range
<1> QED BY <1>3, <1>4, InitType DEF Pipeline

LEMMA EnqueuePipeline ==
  ASSUME Pipeline, TypeInv', NEW x \in Requests, x \notin requested, Enqueue(x),
         UNCHANGED <<flushVars, closeVars, committed>>,
         \A b \in Backups : caller'[b] \in {"idle", "checked"} =>
                            b # x /\ caller[b] \in {"idle", "checked"}
  PROVE  Pipeline'
<1>0. Unwritten' = Unwritten /\ UNCHANGED <<batch, completed, closer>>
  BY UnwrittenFacts DEF flushVars, closeVars, Unwritten
<1>1. x \notin Range(accepted) /\ x # Sentinel
  BY KindsAssumption DEF Pipeline, AcceptedOnce
<1>2. CASE Len(write_q) < Capacity
  <2>1. /\ write_q' = Append(write_q, x) /\ accepted' = Append(accepted, x)
        /\ requested' = requested \cup {x}
    BY <1>2 DEF Enqueue
  <2>2. Order'
    BY <1>0, <2>1, OrderAppend
  <2>3. Range(accepted') = Range(accepted) \cup {x}
    BY <2>1, BeforeAppend DEF Pipeline
  <2>4. \A i, j \in DOMAIN accepted' : accepted'[i] = accepted'[j] => i = j
    BY <1>1, <2>1, AcceptedOnceAppend
  <2>5. AcceptedOnce'
    BY <1>0, <1>1, <2>1, <2>3, <2>4 DEF Pipeline, AcceptedOnce
  <2> QED BY <2>2, <2>5 DEF Pipeline
<1>3. CASE ~(Len(write_q) < Capacity)
  <2>1. UNCHANGED <<write_q, accepted>> /\ requested' = requested \cup {x}
    BY <1>3 DEF Enqueue
  <2>2. Order'
    BY <1>0, <2>1, OrderFrame DEF PipelineVars
  <2>3. AcceptedOnce'
    BY <1>0, <2>1 DEF Pipeline, AcceptedOnce
  <2> QED BY <2>2, <2>3 DEF Pipeline
<1> QED BY <1>2, <1>3

LEMMA CallerPipeline ==
  ASSUME Pipeline, TypeInv',
         \/ \E x \in Requests : Save(x)
         \/ \E b \in Backups : BackupCall(b) \/ BackupEnqueue(b) \/ BackupTimeout(b)
         \/ Shutdown \/ PutSentinel \/ Join
         \/ ReadBegin \/ ReadEnd \/ PruneNow
  PROVE  Pipeline'
<1>0. caller \in [Backups -> {"idle", "checked", "waiting", "returned", "raised"}]
  BY DEF Pipeline, TypeInv, TypeOK
<1>1. ASSUME NEW x \in Requests, Save(x) PROVE Pipeline'
  <2>1. /\ x \notin requested /\ Enqueue(x) /\ x \notin Backups
        /\ UNCHANGED <<flushVars, closeVars, committed, caller>>
    BY <1>1, KindsAssumption DEF Save, callVars, historyVars
  <2> QED BY <2>1, EnqueuePipeline
<1>2. ASSUME NEW b \in Backups, BackupEnqueue(b) PROVE Pipeline'
  <2>1. /\ b \notin requested /\ Enqueue(b) /\ b \in Requests
        /\ UNCHANGED <<flushVars, closeVars, committed>>
    BY <1>2 DEF BackupEnqueue, Pipeline, AcceptedOnce, historyVars, Requests
  <2>2. \A c \in Backups : caller'[c] \in {"idle", "checked"} =>
                            c # b /\ caller[c] \in {"idle", "checked"}
    BY <1>0, <1>2 DEF BackupEnqueue
  <2> QED BY <2>1, <2>2, EnqueuePipeline
<1>3. ASSUME PutSentinel PROVE Pipeline'
  <2>1. /\ write_q' = Append(write_q, Sentinel) /\ closer' = "joining"
        /\ accepted' = Append(accepted, Sentinel)
        /\ Sentinel \notin Range(accepted)
        /\ UNCHANGED <<requested, batch, completed, committed, caller>>
    BY <1>3 DEF PutSentinel, Pipeline, AcceptedOnce, flushVars, callVars, historyVars
  <2>2. Unwritten' = Unwritten
    BY <1>3 DEF PutSentinel, flushVars, Unwritten
  <2>3. Order'
    BY <2>1, <2>2, OrderAppend
  <2>4. Range(accepted') = Range(accepted) \cup {Sentinel}
    BY <2>1, BeforeAppend DEF Pipeline
  <2>5. \A i, j \in DOMAIN accepted' : accepted'[i] = accepted'[j] => i = j
    BY <2>1, AcceptedOnceAppend
  <2>6. AcceptedOnce'
    BY <2>1, <2>4, <2>5 DEF Pipeline, AcceptedOnce
  <2> QED BY <2>3, <2>6 DEF Pipeline
<1>4. ASSUME \/ \E b \in Backups : BackupCall(b) \/ BackupTimeout(b)
             \/ Shutdown \/ Join \/ ReadBegin \/ ReadEnd \/ PruneNow
      PROVE Pipeline'
  <2>1. UNCHANGED PipelineVars /\ UNCHANGED requested
    BY <1>4 DEF BackupCall, BackupTimeout, Shutdown, Join, ReadBegin, ReadEnd,
                PruneNow, PipelineVars, queueVars, flushVars, historyVars
  <2>2. UNCHANGED <<writer, pos>>
    BY <1>4 DEF BackupCall, BackupTimeout, Shutdown, Join, ReadBegin, ReadEnd,
                PruneNow, flushVars
  <2>3. Unwritten' = Unwritten
    BY <2>1, <2>2 DEF PipelineVars, Unwritten
  <2>4. Order'
    BY <2>1, <2>3, OrderFrame
  <2>5. /\ closer' \in {"open", "putting"} => closer \in {"open", "putting"}
        /\ \A b \in Backups : caller'[b] \in {"idle", "checked"} =>
                               caller[b] \in {"idle", "checked"}
    BY <1>0, <1>4 DEF BackupCall, BackupTimeout, Shutdown, Join, ReadBegin,
                      ReadEnd, PruneNow, closeVars, callVars
  <2>6. AcceptedOnce'
    BY <2>1, <2>5 DEF Pipeline, AcceptedOnce, PipelineVars
  <2> QED BY <2>4, <2>6 DEF Pipeline
<1> QED BY <1>1, <1>2, <1>3, <1>4

LEMMA WriterAcceptedOnce ==
  ASSUME Pipeline, Writer
  PROVE  AcceptedOnce' /\ UNCHANGED <<accepted, requested, closer>>
<1> USE DEF queueVars, flushVars, fileVars, callVars, closeVars, historyVars
<1>0. caller \in [Backups -> {"idle", "checked", "waiting", "returned", "raised"}]
  BY DEF Pipeline, TypeInv, TypeOK
<1>1. CASE Maintenance
  <2>1. UNCHANGED <<accepted, requested, closer>>
    BY <1>1 DEF Maintenance, RunBackup, BackupFailed, RunVacuum, RunPrune
  <2>2. \/ UNCHANGED caller
        \/ \E b, o : o \in {"returned", "raised"} /\ Answer(b, o)
    BY <1>1 DEF Maintenance, RunBackup, BackupFailed, RunVacuum, RunPrune
  <2>3. \A b \in Backups : caller'[b] \in {"idle", "checked"} =>
                           caller[b] \in {"idle", "checked"}
    BY <1>0, <2>2 DEF Answer
  <2> QED BY <2>1, <2>3 DEF Pipeline, AcceptedOnce
<1>2. CASE ~Maintenance
  <2>1. UNCHANGED <<accepted, requested, closer, caller>>
    BY <1>2 DEF Writer, WriterStart, Take, Idle, LeaveLoop, Skip, RowWritten,
                RowRetried, RowFailed, Commit, CommitFailed, NextPhase, FlushDone
  <2> QED BY <2>1 DEF Pipeline, AcceptedOnce
<1> QED BY <1>1, <1>2

LEMMA LoopOrder ==
  ASSUME Pipeline, WriterStart \/ Take \/ Idle \/ LeaveLoop
  PROVE  Order'
<1> USE DEF queueVars, flushVars, historyVars
<1> DEFINE S == Requests \cup {Sentinel}
<1>0. /\ write_q \in Seq(S) /\ batch \in Seq(Requests)
      /\ writer \in {"start", "loop"} => pos = 1 /\ completed = <<>>
      /\ writer = "start" => batch = <<>>
  BY DEF Pipeline, TypeInv, TypeOK, Control
<1>00. writer = "loop" => {batch[i] : i \in pos..Len(batch)} = Range(batch)
  BY <1>0 DEF Range
<1>1. ASSUME WriterStart PROVE Order'
  <2>1. UNCHANGED PipelineVars /\ batch = <<>>
    BY <1>0, <1>1 DEF WriterStart, PipelineVars
  <2>2. Unwritten' = {}
    BY <1>1, <2>1 DEF WriterStart, Unwritten, PipelineVars, Range
  <2> QED BY <2>1, <2>2, OrderFrame
<1>2. ASSUME Take PROVE Order'
  <2> DEFINE h == Head(write_q)
  <2>1. /\ writer = "loop" /\ write_q # <<>> /\ h # Sentinel
        /\ write_q' = Tail(write_q) /\ batch' = Append(batch, h)
        /\ UNCHANGED <<accepted, completed, committed, pos>>
    BY <1>2 DEF Take
  <2>2. h \in Requests
    BY <1>0, <2>1, HeadTailProperties
  <2> HIDE DEF S, h
  <2>3. Range(batch') = Range(batch) \cup {h} /\ batch' \in Seq(Requests)
    BY <1>0, <2>1, <2>2, RangeAppend, AppendFacts
  <2>4. Range(write_q) = Range(write_q') \cup {h}
    BY <1>0, <2>1, RangeTail DEF h
  <2>5. Chain(write_q') /\ \A y \in Range(write_q') : Before(h, y)
    BY <1>0, <2>1, ChainTail DEF h, Pipeline, Order
  <2>6. Chain(batch')
    BY <1>0, <2>1, <2>2, <2>4, ChainAppend DEF Pipeline, Order, Precedes
  <2>7. Precedes(Range(batch'), Range(write_q'))
    BY <2>3, <2>4, <2>5 DEF Pipeline, Order, Precedes
  <2>8. Unwritten' \subseteq Range(batch')
    <3>1. /\ writer' = "loop" => Unwritten' = Range(batch')
          /\ writer' = "write" => Unwritten' = {batch'[i] : i \in pos'..Len(batch')}
          /\ writer' \notin {"loop", "write"} => Unwritten' = {}
      BY DEF Unwritten
    <3>2. pos' = 1 /\ DOMAIN batch' = 1..Len(batch')
      BY <1>0, <2>1, <2>3
    <3> QED BY <3>1, <3>2 DEF Range
  <2>9. Unwritten = Range(batch) /\ completed' = <<>> /\ completed = <<>>
    BY <1>0, <2>1, UnwrittenFacts
  <2>10. Range(completed') = {}
    BY <2>9 DEF Range
  <2>11. Chain(completed') /\ Chain(committed')
    BY <2>1 DEF Pipeline, Order
  <2>12. Precedes(Range(completed'), Unwritten' \cup Range(write_q'))
    BY <2>10 DEF Precedes
  <2>13. Precedes(Range(committed'),
                  Range(completed') \cup Unwritten' \cup Range(write_q'))
    BY <2>1, <2>3, <2>4, <2>8, <2>9, <2>10 DEF Pipeline, Order, Precedes
  <2>14. Range(write_q') \cup Range(batch') \cup Range(completed')
            \cup Range(committed') \subseteq Range(accepted)
    BY <2>1, <2>3, <2>4, <2>10 DEF Pipeline, Order
  <2> QED BY <2>1, <2>5, <2>6, <2>7, <2>11, <2>12, <2>13, <2>14, OrderStep
<1>3. ASSUME Idle PROVE Order'
  <2>1. UNCHANGED PipelineVars /\ writer = "loop" /\ UNCHANGED pos
    BY <1>3 DEF Idle, PipelineVars
  <2>2. writer' \in {"write", "backup"}
    BY <1>3, FlushPhaseType DEF Idle
  <2>3. Unwritten' \subseteq Unwritten
    BY <1>00, <2>1, <2>2 DEF Unwritten, PipelineVars
  <2> QED BY <2>1, <2>3, OrderFrame
<1>4. ASSUME LeaveLoop PROVE Order'
  <2>1. /\ UNCHANGED <<accepted, batch, completed, committed, pos>>
        /\ writer = "loop"
    BY <1>4 DEF LeaveLoop
  <2>2. writer' \in {"write", "backup", "closed"}
    BY <1>4, FlushPhaseType DEF LeaveLoop
  <2>3. Unwritten' \subseteq Unwritten
    BY <1>00, <2>1, <2>2 DEF Unwritten
  <2>4. CASE write_q' = write_q
    BY <2>1, <2>3, <2>4, OrderFrame DEF PipelineVars
  <2>5. CASE write_q # <<>> /\ write_q' = Tail(write_q)
    <3> HIDE DEF S
    <3>1. Chain(write_q') /\ Range(write_q') \subseteq Range(write_q)
      BY <1>0, <2>5, ChainTail, RangeTail DEF Pipeline, Order
    <3> QED BY <2>1, <2>3, <3>1, OrderStep DEF Pipeline, Order, Precedes
  <2> QED BY <1>4, <2>4, <2>5 DEF LeaveLoop
<1> QED BY <1>1, <1>2, <1>3, <1>4

LEMMA RowsOrder ==
  ASSUME Pipeline, Skip \/ RowWritten \/ RowRetried \/ RowFailed
  PROVE  Order'
<1> USE DEF queueVars, flushVars, historyVars
<1>0. /\ batch \in Seq(Requests) /\ completed \in Seq(Writes)
      /\ DOMAIN batch = 1..Len(batch) /\ Len(batch) \in Nat
      /\ pos \in 1..(Len(batch) + 1)
  BY DEF Pipeline, TypeInv, TypeOK
<1>1. ASSUME Skip \/ RowRetried \/ RowFailed PROVE Order'
  <2>1. UNCHANGED PipelineVars /\ UNCHANGED writer /\ pos' \in {pos, pos + 1}
    BY <1>1 DEF Skip, RowRetried, RowFailed, PipelineVars
  <2>2. pos'..Len(batch) \subseteq pos..Len(batch)
    BY <1>0, <2>1
  <2>3. Unwritten' \subseteq Unwritten
    BY <2>1, <2>2 DEF Unwritten, PipelineVars
  <2> QED BY <2>1, <2>3, OrderFrame
<1>2. ASSUME RowWritten PROVE Order'
  <2> DEFINE w == batch[pos]
  <2>1. /\ writer = "write" /\ pos \in 1..Len(batch) /\ w \in Writes
        /\ completed' = Append(completed, w) /\ pos' = pos + 1
        /\ UNCHANGED <<writer, batch, write_q, accepted, committed>>
    BY <1>0, <1>2 DEF RowWritten, Serving, Serves
  <2>2. /\ Unwritten = {batch[i] : i \in pos..Len(batch)}
        /\ Unwritten' = {batch[i] : i \in (pos + 1)..Len(batch)}
    BY <2>1 DEF Unwritten
  <2>3. Unwritten' \subseteq Unwritten /\ w \in Unwritten /\ w \in Range(batch)
    BY <1>0, <2>1, <2>2 DEF Range
  <2>4. \A y \in Unwritten' : Before(w, y)
    BY <1>0, <2>1, <2>2 DEF Pipeline, Order, Chain
  <2> HIDE DEF w
  <2>5. Range(completed') = Range(completed) \cup {w}
    BY <1>0, <2>1, RangeAppend
  <2>6. Chain(completed')
    BY <1>0, <2>1, <2>3, ChainAppend DEF Pipeline, Order, Precedes
  <2>7. Precedes(Range(completed'), Unwritten' \cup Range(write_q'))
    BY <2>1, <2>3, <2>4, <2>5 DEF Pipeline, Order, Precedes
  <2>8. Precedes(Range(committed'),
                 Range(completed') \cup Unwritten' \cup Range(write_q'))
    BY <2>1, <2>3, <2>5 DEF Pipeline, Order, Precedes
  <2>9. Range(write_q') \cup Range(batch') \cup Range(completed')
            \cup Range(committed') \subseteq Range(accepted)
    BY <2>1, <2>3, <2>5 DEF Pipeline, Order
  <2>10. Chain(write_q') /\ Chain(batch') /\ Chain(committed')
         /\ Precedes(Range(batch'), Range(write_q'))
    BY <2>1 DEF Pipeline, Order
  <2> QED BY <2>1, <2>6, <2>7, <2>8, <2>9, <2>10, OrderStep
<1> QED BY <1>1, <1>2

LEMMA CommitKeepsOrder ==
  ASSUME Pipeline, Commit \/ CommitFailed
  PROVE  Order'
<1> USE DEF queueVars, flushVars, historyVars
<1>0. /\ committed \in Seq(Writes) /\ completed \in Seq(Writes)
      /\ UNCHANGED <<write_q, accepted, batch>> /\ completed' = <<>>
      /\ writer' = "backup"
  BY DEF Pipeline, TypeInv, TypeOK, Commit, CommitFailed
<1>1. Unwritten' = {} /\ Range(completed') = {}
  BY <1>0 DEF Unwritten, Range
<1>2. Chain(completed')
  BY <1>0 DEF Chain
<1>3. /\ Chain(committed')
      /\ Range(committed') \subseteq Range(committed) \cup Range(completed)
  <2>1. CASE committed' = committed
    BY <2>1 DEF Pipeline, Order
  <2>2. CASE committed' = committed \o completed
    BY <1>0, <2>2, ChainConcat, RangeConcat DEF Pipeline, Order, Precedes
  <2> QED BY <2>1, <2>2 DEF Commit, CommitFailed
<1>4. Precedes(Range(committed'),
               Range(completed') \cup Unwritten' \cup Range(write_q'))
  BY <1>0, <1>1, <1>3 DEF Pipeline, Order, Precedes
<1>5. Precedes(Range(completed'), Unwritten' \cup Range(write_q'))
  BY <1>1 DEF Precedes
<1>6. Range(write_q') \cup Range(batch') \cup Range(completed')
        \cup Range(committed') \subseteq Range(accepted)
  BY <1>0, <1>1, <1>3 DEF Pipeline, Order
<1> QED BY <1>0, <1>2, <1>3, <1>4, <1>5, <1>6, OrderStep DEF Pipeline, Order

LEMMA MaintenanceOrder ==
  ASSUME Pipeline, Maintenance \/ NextPhase \/ FlushDone
  PROVE  Order' /\ UNCHANGED <<write_q, accepted, completed, committed>>
               /\ Unwritten = {} /\ Unwritten' = {}
<1> USE DEF queueVars, flushVars, historyVars
<1>1. writer \in {"backup", "vacuum", "prune"}
  BY DEF Maintenance, RunBackup, BackupFailed, RunVacuum, RunPrune, NextPhase,
         FlushDone, Serving
<1>2. UNCHANGED <<write_q, accepted, completed, committed>>
  BY DEF Maintenance, RunBackup, BackupFailed, RunVacuum, RunPrune, NextPhase,
         FlushDone
<1>3. Unwritten = {}
  BY <1>1, UnwrittenFacts
<1>4. CASE FlushDone
  <2>1. batch' = <<>> /\ writer' \in {"closed", "loop"}
    BY <1>4 DEF FlushDone
  <2>2. Range(batch') = {} /\ Chain(batch')
    BY <2>1 DEF Range, Chain
  <2>3. Unwritten' = {}
    BY <2>1, <2>2 DEF Unwritten
  <2>4. Precedes(Range(batch'), Range(write_q'))
    BY <2>2 DEF Precedes
  <2>5. Order'
    BY <1>2, <1>3, <2>2, <2>3, <2>4, OrderStep DEF Pipeline, Order
  <2> QED BY <1>2, <1>3, <2>3, <2>5
<1>5. CASE ~FlushDone
  <2>1. UNCHANGED batch /\ writer' \in {"backup", "vacuum", "prune"}
    BY <1>1, <1>5 DEF Maintenance, RunBackup, BackupFailed, RunVacuum, RunPrune,
                 NextPhase, PhaseAfter
  <2>2. Unwritten' = {}
    BY <2>1 DEF Unwritten
  <2>3. Order'
    BY <1>2, <2>1, <2>2, OrderFrame DEF PipelineVars
  <2> QED BY <1>2, <1>3, <2>2, <2>3
<1> QED BY <1>4, <1>5

LEMMA NextPipeline == Pipeline /\ [Next]_vars => Pipeline'
<1> SUFFICES ASSUME Pipeline, [Next]_vars PROVE Pipeline'
  OBVIOUS
<1>0. TypeInv'
  BY NextType DEF Pipeline
<1>1. CASE Writer
  <2>1. AcceptedOnce'
    BY <1>1, WriterAcceptedOnce
  <2>2. Order'
    BY <1>1, LoopOrder, RowsOrder, CommitKeepsOrder, MaintenanceOrder DEF Writer
  <2> QED BY <1>0, <2>1, <2>2 DEF Pipeline
<1>2. CASE Next /\ ~Writer
  BY <1>0, <1>2, CallerPipeline DEF Next
<1>3. CASE UNCHANGED vars
  <2>1. /\ UNCHANGED PipelineVars
        /\ UNCHANGED <<writer, pos, requested, closer, caller>>
    BY <1>3 DEF vars, queueVars, flushVars, callVars, closeVars, historyVars,
                PipelineVars
  <2>2. Unwritten' = Unwritten
    BY <2>1 DEF Unwritten, PipelineVars
  <2>3. Order'
    BY <2>1, <2>2, OrderFrame
  <2>4. AcceptedOnce'
    BY <2>1 DEF Pipeline, AcceptedOnce, PipelineVars
  <2> QED BY <1>0, <2>3, <2>4 DEF Pipeline
<1> QED BY <1>1, <1>2, <1>3

(***************************************************************************)
(* Rows are applied in acceptance order and at most once, whatever fails.  *)
(* The invariant behind it says that the committed rows, the rows of the   *)
(* open transaction, the unwritten rest of the batch and the queue are, in *)
(* this order, consecutive pieces of the acceptance order.                 *)
(***************************************************************************)
THEOREM RowsInOrder == Spec => []CommitOrder
<1>1. Pipeline => CommitOrder
  BY DEF Pipeline, Order, Chain, CommitOrder
<1> QED BY <1>1, InitPipeline, NextPipeline, PTL DEF Spec

-----------------------------------------------------------------------------
(* The health counters                                                     *)

Counts ==
  /\ failed_count = Cardinality(Lost)
  /\ dropped_count = Cardinality(requested \ Range(accepted))

LEMMA StagesDisjoint ==
  ASSUME Pipeline
  PROVE  /\ Range(committed) \cap (Range(completed) \cup Unwritten \cup Range(write_q)) = {}
         /\ Range(completed) \cap (Unwritten \cup Range(write_q)) = {}
         /\ Range(batch) \cap Range(write_q) = {}
BY BeforeIrreflexive DEF Pipeline, Order, Precedes

LEMMA FiniteSets ==
  ASSUME TypeInv
  PROVE  /\ IsFiniteSet(Lost) /\ IsFiniteSet(requested \ Range(accepted))
         /\ IsFiniteSet(requested) /\ Cardinality(Lost) \in Nat
         /\ Cardinality(requested \ Range(accepted)) \in Nat
<1>1. requested \in SUBSET Requests /\ Lost \in SUBSET Requests
  BY DEF TypeInv, TypeOK, Lost, Requests
<1>2. IsFiniteSet(requested) /\ IsFiniteSet(Lost)
  BY <1>1, BoundsAssumption, FS_Subset
<1>3. IsFiniteSet(requested \ Range(accepted))
  BY <1>2, FS_Difference
<1> QED BY <1>2, <1>3, FS_CardinalityType

LEMMA CountsKept ==
  ASSUME Counts, Lost' = Lost, UNCHANGED <<failed_count, dropped_count>>,
         (requested \ Range(accepted))' = requested \ Range(accepted)
  PROVE  Counts'
BY DEF Counts

LEMMA EnqueueCounts ==
  ASSUME Pipeline, Counts, NEW x \in Requests, x \notin requested, Enqueue(x),
         UNCHANGED <<flushVars, committed, failed_count>>
  PROVE  Counts'
<1>0. Unwritten' = Unwritten /\ UNCHANGED completed
  BY DEF flushVars, Unwritten
<1>1. x \notin Range(accepted) /\ Range(write_q) \subseteq Range(accepted)
  BY KindsAssumption DEF Pipeline, AcceptedOnce, Order
<1>2. CASE Len(write_q) < Capacity
  <2> DEFINE S == Requests \cup {Sentinel}
  <2>1. /\ write_q' = Append(write_q, x) /\ accepted' = Append(accepted, x)
        /\ requested' = requested \cup {x} /\ dropped_count' = dropped_count
    BY <1>2 DEF Enqueue
  <2>2. write_q \in Seq(S) /\ accepted \in Seq(S) /\ x \in S
    BY DEF Pipeline, TypeInv, TypeOK
  <2> HIDE DEF S
  <2>3. /\ Range(accepted') = Range(accepted) \cup {x}
        /\ Range(write_q') = Range(write_q) \cup {x}
    BY <2>1, <2>2, RangeAppend
  <2>4. Lost' = Lost
    BY <1>0, <1>1, <2>3 DEF Lost, Pending
  <2>5. (requested \ Range(accepted))' = requested \ Range(accepted)
    BY <2>1, <2>3
  <2> QED BY <2>1, <2>4, <2>5, CountsKept
<1>3. CASE ~(Len(write_q) < Capacity)
  <2>1. /\ UNCHANGED <<write_q, accepted>> /\ dropped_count' = dropped_count + 1
        /\ requested' = requested \cup {x}
    BY <1>3 DEF Enqueue
  <2>2. Lost' = Lost
    BY <1>0, <2>1 DEF Lost, Pending
  <2>3. (requested \ Range(accepted))' = (requested \ Range(accepted)) \cup {x}
    BY <1>1, <2>1
  <2>4. Cardinality((requested \ Range(accepted)) \cup {x})
          = Cardinality(requested \ Range(accepted)) + 1
    BY FiniteSets, FS_AddElement DEF Pipeline
  <2> QED BY <2>1, <2>2, <2>3, <2>4 DEF Counts
<1> QED BY <1>2, <1>3

LEMMA CallerCounts ==
  ASSUME Pipeline, Counts,
         \/ \E x \in Requests : Save(x)
         \/ \E b \in Backups : BackupCall(b) \/ BackupEnqueue(b) \/ BackupTimeout(b)
         \/ Shutdown \/ PutSentinel \/ Join
         \/ ReadBegin \/ ReadEnd \/ PruneNow
  PROVE  Counts'
<1>1. ASSUME NEW x \in Requests, Save(x) PROVE Counts'
  <2>1. /\ x \notin requested /\ Enqueue(x)
        /\ UNCHANGED <<flushVars, committed, failed_count>>
    BY <1>1 DEF Save, historyVars
  <2> QED BY <2>1, EnqueueCounts
<1>2. ASSUME NEW b \in Backups, BackupEnqueue(b) PROVE Counts'
  <2>1. /\ b \notin requested /\ Enqueue(b) /\ b \in Requests
        /\ UNCHANGED <<flushVars, committed, failed_count>>
    BY <1>2 DEF BackupEnqueue, Pipeline, AcceptedOnce, historyVars, Requests
  <2> QED BY <2>1, EnqueueCounts
<1>3. ASSUME PutSentinel PROVE Counts'
  <2> DEFINE S == Requests \cup {Sentinel}
  <2>1. /\ write_q' = Append(write_q, Sentinel)
        /\ accepted' = Append(accepted, Sentinel)
        /\ UNCHANGED <<requested, completed, committed, failed_count, dropped_count>>
    BY <1>3 DEF PutSentinel, flushVars, historyVars
  <2>2. Unwritten' = Unwritten
    BY <1>3 DEF PutSentinel, flushVars, Unwritten
  <2>3. /\ write_q \in Seq(S) /\ accepted \in Seq(S) /\ Sentinel \in S
        /\ requested \in SUBSET Requests
    BY DEF Pipeline, TypeInv, TypeOK
  <2> HIDE DEF S
  <2>4. /\ Range(accepted') = Range(accepted) \cup {Sentinel}
        /\ Range(write_q') = Range(write_q) \cup {Sentinel}
    BY <2>1, <2>3, RangeAppend
  <2>5. Sentinel \notin Writes /\ Sentinel \notin requested
    BY <2>3, KindsAssumption DEF Requests
  <2>6. Lost' = Lost
    BY <2>1, <2>2, <2>4, <2>5 DEF Lost, Pending
  <2>7. (requested \ Range(accepted))' = requested \ Range(accepted)
    BY <2>1, <2>4, <2>5
  <2> QED BY <2>1, <2>6, <2>7, CountsKept
<1>4. ASSUME \/ \E b \in Backups : BackupCall(b) \/ BackupTimeout(b)
             \/ Shutdown \/ Join \/ ReadBegin \/ ReadEnd \/ PruneNow
      PROVE Counts'
  <2>1. UNCHANGED <<queueVars, flushVars, committed, failed_count>>
    BY <1>4 DEF BackupCall, BackupTimeout, Shutdown, Join, ReadBegin, ReadEnd,
                PruneNow, historyVars
  <2>2. Lost' = Lost
    BY <2>1 DEF Lost, Pending, Unwritten, queueVars, flushVars
  <2> QED BY <2>1, <2>2, CountsKept DEF queueVars
<1> QED BY <1>1, <1>2, <1>3, <1>4

\* The writer leaves the requests alone: only Lost and failed_count matter.
LEMMA WriterCountsKept ==
  ASSUME Pipeline, Counts, Writer, Lost' = Lost, UNCHANGED <<failed_count, dropped_count>>
  PROVE  Counts'
BY WriterAcceptedOnce, CountsKept

LEMMA LoopLost ==
  ASSUME Pipeline, WriterStart \/ Take \/ Idle \/ LeaveLoop
  PROVE  Lost' = Lost /\ UNCHANGED <<failed_count, dropped_count>>
<1> USE DEF queueVars, flushVars, historyVars
<1> DEFINE S == Requests \cup {Sentinel}
<1>0. /\ write_q \in Seq(S) /\ batch \in Seq(Requests)
      /\ writer \in {"start", "loop"} => pos = 1
      /\ writer = "start" => batch = <<>>
      /\ Sentinel \notin Writes
  BY KindsAssumption DEF Pipeline, TypeInv, TypeOK, Control, Requests
<1>1. UNCHANGED <<failed_count, dropped_count, accepted, completed, committed>>
  BY DEF WriterStart, Take, Idle, LeaveLoop
<1> SUFFICES Pending' = Pending
  BY <1>1 DEF Lost
<1>2. ASSUME NEW b, b \in Seq(Requests)
      PROVE  FlushPhase(b) = "backup" => Range(b) \cap Writes = {}
  BY DEF FlushPhase, Range
<1>3. ASSUME WriterStart PROVE Pending' = Pending
  <2>1. batch = <<>> /\ UNCHANGED <<batch, write_q, completed>> /\ writer = "start"
    BY <1>0, <1>3 DEF WriterStart
  <2>2. Unwritten = {} /\ Unwritten' = {}
    BY <1>3, <2>1 DEF WriterStart, Unwritten, Range
  <2> QED BY <2>1, <2>2 DEF Pending
<1>4. ASSUME Take PROVE Pending' = Pending
  <2> DEFINE h == Head(write_q)
  <2>1. /\ writer = "loop" /\ write_q # <<>> /\ h # Sentinel
        /\ write_q' = Tail(write_q) /\ batch' = Append(batch, h) /\ pos' = 1
        /\ writer' \in {"loop", FlushPhase(batch')}
    BY <1>0, <1>4 DEF Take
  <2>2. h \in Requests
    BY <1>0, <2>1, HeadTailProperties
  <2> HIDE DEF S, h
  <2>3. Range(batch') = Range(batch) \cup {h} /\ batch' \in Seq(Requests)
    BY <1>0, <2>1, <2>2, RangeAppend, AppendFacts
  <2>4. Range(write_q) = Range(write_q') \cup {h}
    BY <1>0, <2>1, RangeTail DEF h
  <2>5. Unwritten = Range(batch)
    BY <2>1, UnwrittenFacts
  <2>6. Unwritten' \cap Writes = Range(batch') \cap Writes
    <3>1. CASE writer' = "loop"
      BY <3>1 DEF Unwritten
    <3>2. CASE writer' = "write"
      <4>1. {batch'[i] : i \in 1..Len(batch')} = Range(batch')
        BY <2>3, LenProperties DEF Range
      <4> QED BY <2>1, <3>2, <4>1 DEF Unwritten
    <3>3. CASE writer' = FlushPhase(batch') /\ writer' = "backup"
      <4>1. Range(batch') \cap Writes = {}
        BY <1>2, <2>3, <3>3
      <4>2. Unwritten' = {}
        BY <3>3 DEF Unwritten
      <4> QED BY <4>1, <4>2
    <3> QED BY <2>1, <3>1, <3>2, <3>3, FlushPhaseType
  <2> QED BY <1>1, <2>3, <2>4, <2>5, <2>6 DEF Pending
<1>5. ASSUME Idle \/ LeaveLoop PROVE Pending' = Pending
  <2>1. /\ writer = "loop" /\ UNCHANGED <<batch, pos, completed>>
        /\ writer' = FlushPhase(batch) \/ (batch = <<>> /\ writer' = "closed")
    BY <1>5 DEF Idle, LeaveLoop
  <2>2. Range(write_q') \cap Writes = Range(write_q) \cap Writes
    <3>1. CASE write_q' = write_q
      BY <3>1
    <3>2. CASE write_q # <<>> /\ Head(write_q) = Sentinel /\ write_q' = Tail(write_q)
      <4> HIDE DEF S
      <4>1. Range(write_q) = Range(write_q') \cup {Sentinel}
        BY <1>0, <3>2, RangeTail
      <4> QED BY <1>0, <4>1
    <3> QED BY <1>5, <3>1, <3>2 DEF Idle, LeaveLoop
  <2>3. Unwritten' \cap Writes = Unwritten \cap Writes
    <3>1. Unwritten = Range(batch) /\ Range(batch) = {batch[i] : i \in 1..Len(batch)}
      BY <1>0, <2>1, UnwrittenFacts, LenProperties DEF Range
    <3>2. CASE writer' = "write"
      BY <1>0, <2>1, <3>1, <3>2 DEF Unwritten
    <3>3. CASE writer' = FlushPhase(batch) /\ writer' = "backup"
      <4>1. Range(batch) \cap Writes = {}
        BY <1>0, <1>2, <3>3
      <4>2. Unwritten' = {}
        BY <3>3 DEF Unwritten
      <4> QED BY <3>1, <4>1, <4>2
    <3>4. CASE batch = <<>> /\ writer' = "closed"
      <4>1. Range(batch) = {}
        BY <3>4 DEF Range
      <4>2. Unwritten' = {}
        BY <3>4 DEF Unwritten
      <4> QED BY <3>1, <4>1, <4>2
    <3> QED BY <2>1, <3>2, <3>3, <3>4, FlushPhaseType
  <2> QED BY <2>1, <2>2, <2>3 DEF Pending
<1> QED BY <1>3, <1>4, <1>5

LEMMA RowsLost ==
  ASSUME Pipeline, Skip \/ RowWritten \/ RowRetried
  PROVE  Lost' = Lost /\ UNCHANGED <<failed_count, dropped_count>>
<1> USE DEF queueVars, flushVars, historyVars
<1>0. /\ batch \in Seq(Requests) /\ completed \in Seq(Writes)
      /\ DOMAIN batch = 1..Len(batch) /\ Len(batch) \in Nat
      /\ pos \in 1..(Len(batch) + 1)
  BY DEF Pipeline, TypeInv, TypeOK
<1>1. /\ UNCHANGED <<failed_count, dropped_count, accepted, committed, write_q>>
      /\ UNCHANGED <<batch, writer>>
  BY DEF Skip, RowWritten, RowRetried
<1> SUFFICES Pending' = Pending
  BY <1>1 DEF Lost
<1>2. ASSUME RowRetried PROVE Pending' = Pending
  BY <1>1, <1>2 DEF RowRetried, Pending, Unwritten
<1>3. ASSUME pos \in 1..Len(batch), pos' = pos + 1, writer = "write"
      PROVE  Unwritten = Unwritten' \cup {batch[pos]}
  <2>1. /\ Unwritten = {batch[i] : i \in pos..Len(batch)}
        /\ Unwritten' = {batch[i] : i \in (pos + 1)..Len(batch)}
    BY <1>1, <1>3 DEF Unwritten
  <2>2. pos..Len(batch) = ((pos + 1)..Len(batch)) \cup {pos}
    BY <1>0, <1>3
  <2> QED BY <2>1, <2>2
<1>4. ASSUME Skip PROVE Pending' = Pending
  <2>1. /\ pos \in 1..Len(batch) /\ pos' = pos + 1 /\ completed' = completed
        /\ writer = "write" => batch[pos] \notin Writes
        /\ writer \in Phases
    BY <1>0, <1>4 DEF Skip, Serves, Phases
  <2>2. CASE writer = "write"
    <3>1. Unwritten = Unwritten' \cup {batch[pos]}
      BY <1>3, <2>1, <2>2
    <3> QED BY <1>1, <2>1, <2>2, <3>1 DEF Pending
  <2>3. CASE writer # "write"
    <3>1. Unwritten = {} /\ Unwritten' = {}
      BY <1>1, <2>1, <2>3 DEF Unwritten, Phases
    <3> QED BY <1>1, <2>1, <3>1 DEF Pending
  <2> QED BY <2>2, <2>3
<1>5. ASSUME RowWritten PROVE Pending' = Pending
  <2> DEFINE w == batch[pos]
  <2>1. /\ writer = "write" /\ pos \in 1..Len(batch) /\ w \in Writes
        /\ completed' = Append(completed, w) /\ pos' = pos + 1
    BY <1>0, <1>5 DEF RowWritten, Serving, Serves
  <2>2. Unwritten = Unwritten' \cup {w}
    BY <1>3, <2>1
  <2> HIDE DEF w
  <2>3. Range(completed') = Range(completed) \cup {w}
    BY <1>0, <2>1, RangeAppend
  <2> QED BY <1>1, <2>2, <2>3 DEF Pending
<1> QED BY <1>2, <1>4, <1>5

\* A row given up by _write_item_with_retry was on its way until then.
LEMMA RowFailedLost ==
  ASSUME Pipeline, RowFailed
  PROVE  /\ Lost' = Lost \cup {batch[pos]}
         /\ batch[pos] \in Pending
         /\ UNCHANGED <<accepted, requested, committed>>
         /\ failed_count' = failed_count + 1
<1> USE DEF queueVars, flushVars, historyVars
<1> DEFINE w == batch[pos]
<1>0. /\ batch \in Seq(Requests) /\ DOMAIN batch = 1..Len(batch)
      /\ Len(batch) \in Nat
  BY DEF Pipeline, TypeInv, TypeOK
<1>1. /\ UNCHANGED <<dropped_count, accepted, requested, committed, write_q>>
      /\ UNCHANGED <<batch, writer, completed>>
      /\ failed_count' = failed_count + 1 /\ pos' = pos + 1
      /\ writer = "write" /\ pos \in 1..Len(batch) /\ w \in Writes
  BY <1>0 DEF RowFailed, Serving, Serves
<1>2. /\ Unwritten = {batch[i] : i \in pos..Len(batch)}
      /\ Unwritten' = {batch[i] : i \in (pos + 1)..Len(batch)}
  BY <1>1 DEF Unwritten
<1>3. pos..Len(batch) = ((pos + 1)..Len(batch)) \cup {pos}
  BY <1>0, <1>1
<1>4. Unwritten = Unwritten' \cup {w}
  BY <1>2, <1>3
<1>5. \A i \in (pos + 1)..Len(batch) : Before(w, batch[i])
  BY <1>0, <1>1 DEF Pipeline, Order, Chain
<1>6. w \notin Unwritten'
  BY <1>2, <1>5, BeforeIrreflexive DEF Pipeline
<1>7. w \in Range(batch)
  BY <1>0, <1>1 DEF Range
<1> HIDE DEF w
<1>8. /\ w \notin Range(write_q) /\ w \notin Range(completed)
      /\ w \notin Range(committed)
  BY <1>4, <1>7, StagesDisjoint
<1>9. w \in Range(accepted)
  BY <1>7 DEF Pipeline, Order
<1>10. Lost' = Lost \cup {w} /\ w \in Pending
  BY <1>1, <1>4, <1>6, <1>8, <1>9 DEF Lost, Pending
<1> QED BY <1>1, <1>10 DEF w

LEMMA RowFailedCounts ==
  ASSUME Pipeline, Counts, RowFailed
  PROVE  Counts'
<1>1. /\ Lost' = Lost \cup {batch[pos]} /\ batch[pos] \notin Lost
      /\ UNCHANGED <<accepted, requested>> /\ failed_count' = failed_count + 1
  BY RowFailedLost DEF Lost
<1>2. Cardinality(Lost \cup {batch[pos]}) = Cardinality(Lost) + 1
  BY <1>1, FiniteSets, FS_AddElement DEF Pipeline
<1>3. UNCHANGED dropped_count
  BY DEF RowFailed, queueVars
<1> QED BY <1>1, <1>2, <1>3 DEF Counts

LEMMA CommitLost ==
  ASSUME Pipeline, Commit
  PROVE  Lost' = Lost /\ UNCHANGED <<failed_count, dropped_count>>
<1> USE DEF queueVars, flushVars, historyVars
<1>1. /\ UNCHANGED <<failed_count, dropped_count, accepted, write_q, batch>>
      /\ committed' = committed \o completed /\ completed' = <<>>
      /\ writer = "write" /\ pos > Len(batch) /\ writer' = "backup"
      /\ committed \in Seq(Writes) /\ completed \in Seq(Writes)
      /\ pos \in Nat /\ Len(batch) \in Nat
  BY DEF Commit, Pipeline, TypeInv, TypeOK
<1>2. pos..Len(batch) = {}
  BY <1>1
<1>3. Unwritten = {} /\ Unwritten' = {}
  BY <1>1, <1>2 DEF Unwritten
<1>4. Range(completed') = {}
  BY <1>1 DEF Range
<1>5. Range(committed') = Range(committed) \cup Range(completed)
  BY <1>1, RangeConcat
<1>6. Range(completed) \cap Range(write_q) = {}
  BY StagesDisjoint
<1>7. Lost' = Lost
  BY <1>1, <1>3, <1>4, <1>5, <1>6 DEF Lost, Pending
<1> QED BY <1>1, <1>7

\* A chain has no repetitions: it has as many members as positions.
LEMMA ChainCardinality ==
  ASSUME TypeInv, AcceptedOnce, NEW S, NEW s \in Seq(S), Chain(s)
  PROVE  IsFiniteSet(Range(s)) /\ Cardinality(Range(s)) = Len(s)
<1>1. DOMAIN s = 1..Len(s) /\ Len(s) \in Nat
  BY LenProperties
<1>2. \A i, j \in 1..Len(s) : s[i] = s[j] => i = j
  <2> SUFFICES ASSUME NEW i \in 1..Len(s), NEW j \in 1..Len(s), s[i] = s[j], i # j
               PROVE  FALSE
    OBVIOUS
  <2>1. i < j \/ j < i
    BY <1>1
  <2>2. Before(s[i], s[i])
    BY <1>1, <2>1 DEF Chain
  <2> QED BY <2>2, BeforeIrreflexive
<1>3. /\ IsFiniteSet(1..Len(s)) /\ Cardinality(1..Len(s)) = Len(s)
  BY <1>1, FS_Interval
<1>4. [i \in 1..Len(s) |-> s[i]] \in Bijection(1..Len(s), Range(s))
  BY <1>1, <1>2 DEF Bijection, Injection, Surjection, IsInjective, Range
<1>5. ExistsBijection(1..Len(s), Range(s))
  BY <1>4 DEF ExistsBijection
<1> QED BY <1>3, <1>5, FS_Bijection

\* The rows of a rolled-back transaction were on their way until then.
LEMMA CommitFailedLost ==
  ASSUME Pipeline, CommitFailed
  PROVE  /\ Lost' = Lost \cup Range(completed)
         /\ Range(completed) \subseteq Pending
         /\ UNCHANGED <<accepted, requested, committed>>
         /\ failed_count' = failed_count + Cardinality(Range(completed))
         /\ IsFiniteSet(Range(completed))
<1> USE DEF queueVars, flushVars, historyVars
<1>1. /\ UNCHANGED <<dropped_count, accepted, requested, write_q, batch, committed>>
      /\ failed_count' = failed_count + Len(completed) /\ completed' = <<>>
      /\ writer = "write" /\ pos > Len(batch) /\ writer' = "backup"
      /\ completed \in Seq(Writes)
      /\ pos \in Nat /\ Len(batch) \in Nat
  BY DEF CommitFailed, Pipeline, TypeInv, TypeOK
<1>2. pos..Len(batch) = {}
  BY <1>1
<1>3. Unwritten = {} /\ Unwritten' = {}
  BY <1>1, <1>2 DEF Unwritten
<1>4. Range(completed') = {}
  BY <1>1 DEF Range
<1>5. /\ Range(completed) \cap Range(write_q) = {}
      /\ Range(completed) \cap Range(committed) = {}
  BY StagesDisjoint
<1>6. Range(completed) \subseteq Range(accepted) \cap Writes
  <2>1. Range(completed) \subseteq Writes
    BY <1>1 DEF Range
  <2> QED BY <2>1 DEF Pipeline, Order
<1>7. Lost' = Lost \cup Range(completed) /\ Range(completed) \subseteq Pending
  BY <1>1, <1>3, <1>4, <1>5, <1>6 DEF Lost, Pending
<1>8. IsFiniteSet(Range(completed)) /\ Cardinality(Range(completed)) = Len(completed)
  BY <1>1, ChainCardinality DEF Pipeline, Order
<1> QED BY <1>1, <1>7, <1>8

LEMMA CommitFailedCounts ==
  ASSUME Pipeline, Counts, CommitFailed
  PROVE  Counts'
<1> DEFINE S == Range(completed)
<1>1. /\ Lost' = Lost \cup S /\ Lost \cap S = {}
      /\ UNCHANGED <<accepted, requested>>
      /\ failed_count' = failed_count + Cardinality(S) /\ IsFiniteSet(S)
  BY CommitFailedLost DEF Lost
<1> HIDE DEF S
<1>2. IsFiniteSet(Lost) /\ Cardinality(Lost) \in Nat /\ Cardinality(S) \in Nat
  BY <1>1, FiniteSets, FS_CardinalityType DEF Pipeline
<1>3. Cardinality(Lost \cap S) = 0
  BY <1>1, FS_EmptySet
<1>4. Cardinality(Lost \cup S)
        = Cardinality(Lost) + Cardinality(S) - Cardinality(Lost \cap S)
  BY <1>1, <1>2, FS_Union
<1>5. UNCHANGED dropped_count
  BY DEF CommitFailed, queueVars
<1> QED BY <1>1, <1>2, <1>3, <1>4, <1>5 DEF Counts

LEMMA MaintenanceLost ==
  ASSUME Pipeline, Maintenance \/ NextPhase \/ FlushDone
  PROVE  Lost' = Lost /\ UNCHANGED <<failed_count, dropped_count>>
<1>1. UNCHANGED <<failed_count, dropped_count>>
  BY DEF Maintenance, RunBackup, BackupFailed, RunVacuum, RunPrune, NextPhase,
         FlushDone, queueVars
<1>2. Lost' = Lost
  BY MaintenanceOrder DEF Lost, Pending
<1> QED BY <1>1, <1>2

LEMMA InitCounts == Init => Counts
<1> SUFFICES ASSUME Init PROVE Counts
  OBVIOUS
<1>1. accepted = <<>> /\ requested = {} /\ failed_count = 0 /\ dropped_count = 0
  BY DEF Init
<1>2. Range(accepted) = {}
  BY <1>1 DEF Range
<1>3. Lost = {} /\ requested \ Range(accepted) = {}
  BY <1>1, <1>2 DEF Lost
<1> QED BY <1>1, <1>3, FS_EmptySet DEF Counts

LEMMA NextCounts == Pipeline /\ Counts /\ [Next]_vars => Counts'
<1> SUFFICES ASSUME Pipeline, Counts, [Next]_vars PROVE Counts'
  OBVIOUS
<1>1. CASE Writer
  <2>1. CASE WriterStart \/ Take \/ Idle \/ LeaveLoop
    BY <1>1, <2>1, LoopLost, WriterCountsKept
  <2>2. CASE Skip \/ RowWritten \/ RowRetried
    BY <1>1, <2>2, RowsLost, WriterCountsKept
  <2>3. CASE RowFailed
    BY <2>3, RowFailedCounts
  <2>4. CASE Commit
    BY <1>1, <2>4, CommitLost, WriterCountsKept
  <2>5. CASE CommitFailed
    BY <2>5, CommitFailedCounts
  <2>6. CASE Maintenance \/ NextPhase \/ FlushDone
    BY <1>1, <2>6, MaintenanceLost, WriterCountsKept
  <2> QED BY <1>1, <2>1, <2>2, <2>3, <2>4, <2>5, <2>6 DEF Writer
<1>2. CASE Next /\ ~Writer
  BY <1>2, CallerCounts DEF Next
<1>3. CASE UNCHANGED vars
  <2>1. UNCHANGED <<queueVars, flushVars, committed, failed_count>>
    BY <1>3 DEF vars, historyVars
  <2>2. Lost' = Lost
    BY <2>1 DEF Lost, Pending, Unwritten, queueVars, flushVars
  <2> QED BY <2>1, <2>2, CountsKept DEF queueVars
<1> QED BY <1>1, <1>2, <1>3

(***************************************************************************)
(* health() is exact for every number of requests, every queue capacity,   *)
(* batch size and retry limit: the two counters say how many rows were     *)
(* given up and how many requests were refused, and a row that is still on *)
(* its way has not been applied.  It rests on the order of the pipeline:   *)
(* a failed COMMIT adds the length of completed, which is the number of    *)
(* rows lost only because no row is in it twice.                           *)
(***************************************************************************)
THEOREM HealthIsExact == Spec => []Accounted
<1>1. Pipeline /\ Counts => Accounted
  BY StagesDisjoint DEF Counts, Accounted, Pending
<1>2. Init => Pipeline /\ Counts
  BY InitPipeline, InitCounts
<1>3. Pipeline /\ Counts /\ [Next]_vars => Pipeline' /\ Counts'
  BY NextPipeline, NextCounts
<1> QED BY <1>1, <1>2, <1>3, PTL DEF Spec

-----------------------------------------------------------------------------
(* Shutdown                                                                *)

\* Once the writer has left its loop, what is still queued came too late.
Drained ==
  /\ stop <=> closer # "open"
  /\ leaving => stop /\ writer \in Phases \cup {"closed"}
  /\ writer = "closed" => leaving
  /\ closer \in {"joining", "joined", "left"} => Sentinel \in Range(accepted)
  /\ leaving => \A w \in Range(write_q) \cap Writes : Before(Sentinel, w)

\* Queueing x behind everything that was accepted.
LEMMA DrainedEnqueue ==
  ASSUME Pipeline, Drained, NEW x \in Requests, Enqueue(x),
         UNCHANGED <<flushVars, closeVars>>,
         leaving => x \notin Writes \/ Sentinel \in Range(accepted)
  PROVE  Drained'
<1> USE DEF flushVars, closeVars
<1>0. TypeInv /\ write_q \in Seq(Requests \cup {Sentinel})
  BY DEF Pipeline, TypeInv, TypeOK
<1>1. CASE accepted' = Append(accepted, x) /\ write_q' = Append(write_q, x)
  <2>1. /\ \A y, z : Before(y, z) => Before(y, z)'
        /\ \A y \in Range(accepted) : Before(y, x)'
        /\ Range(accepted') = Range(accepted) \cup {x}
    BY <1>0, <1>1, BeforeAppend
  <2>2. Range(write_q') = Range(write_q) \cup {x}
    BY <1>0, <1>1, RangeAppend
  <2> QED BY <2>1, <2>2 DEF Drained
<1>2. CASE UNCHANGED <<accepted, write_q>>
  BY <1>2 DEF Drained, Before
<1> QED BY <1>1, <1>2 DEF Enqueue

LEMMA DrainedCaller ==
  ASSUME Pipeline, Drained,
         \/ \E x \in Requests : Save(x)
         \/ \E b \in Backups : BackupCall(b) \/ BackupEnqueue(b) \/ BackupTimeout(b)
         \/ Shutdown \/ PutSentinel \/ Join
         \/ ReadBegin \/ ReadEnd \/ PruneNow
  PROVE  Drained'
<1> USE DEF flushVars, closeVars, queueVars
<1>0. /\ TypeInv /\ write_q \in Seq(Requests \cup {Sentinel})
      /\ closer \in {"open", "putting", "joining", "joined", "left"}
  BY DEF Pipeline, TypeInv, TypeOK
<1>1. ASSUME NEW x \in Requests, Save(x) PROVE Drained'
  <2>1. leaving => Sentinel \in Range(accepted)
    BY <1>0, <1>1 DEF Drained, Save
  <2> QED BY <1>1, <2>1, DrainedEnqueue DEF Save
<1>2. ASSUME NEW b \in Backups, BackupEnqueue(b) PROVE Drained'
  <2>1. b \in Requests /\ b \notin Writes
    BY KindsAssumption DEF Requests
  <2> QED BY <1>2, <2>1, DrainedEnqueue DEF BackupEnqueue
<1>3. CASE PutSentinel
  <2>1. accepted' = Append(accepted, Sentinel) /\ write_q' = Append(write_q, Sentinel)
    BY <1>3 DEF PutSentinel
  <2>2. /\ \A y, z : Before(y, z) => Before(y, z)'
        /\ Range(accepted') = Range(accepted) \cup {Sentinel}
    BY <1>0, <2>1, BeforeAppend
  <2>3. Range(write_q') = Range(write_q) \cup {Sentinel}
    BY <1>0, <2>1, RangeAppend
  <2>4. Sentinel \notin Writes
    BY KindsAssumption DEF Requests
  <2> QED BY <1>3, <2>2, <2>3, <2>4 DEF Drained, PutSentinel
<1>4. CASE Shutdown
  BY <1>4 DEF Drained, Shutdown, Before
<1>5. CASE Join
  BY <1>5 DEF Drained, Join, Before
<1>6. CASE \/ \E b \in Backups : BackupCall(b) \/ BackupTimeout(b)
           \/ ReadBegin \/ ReadEnd \/ PruneNow
  BY <1>6 DEF Drained, Before, BackupCall, BackupTimeout, ReadBegin, ReadEnd, PruneNow
<1> QED BY <1>1, <1>2, <1>3, <1>4, <1>5, <1>6

\* The writer leaves at an empty queue or at the sentinel, and every later
\* request is behind it in the queue.
LEMMA DrainedWriter ==
  ASSUME Pipeline, Drained, Writer
  PROVE  Drained'
<1> USE DEF flushVars, closeVars, queueVars
<1>0. TypeInv /\ write_q \in Seq(Requests \cup {Sentinel})
      /\ Chain(write_q) /\ Range(write_q) \subseteq Range(accepted)
  BY DEF Pipeline, TypeInv, TypeOK, Order
<1>1. CASE LeaveLoop
  <2>1. FlushPhase(batch) \in Phases
    BY FlushPhaseType DEF Phases
  <2>2. CASE stop /\ write_q = <<>> /\ write_q' = write_q
    <3>1. Range(write_q') = {}
      BY <2>2 DEF Range
    <3> QED BY <1>1, <2>1, <2>2, <3>1 DEF Drained, LeaveLoop, Before
  <2>3. CASE write_q # <<>> /\ Head(write_q) = Sentinel /\ write_q' = Tail(write_q)
    <3>1. \A y \in Range(Tail(write_q)) : Before(Sentinel, y)
      BY <1>0, <2>3, ChainTail
    <3>2. Sentinel \in Range(accepted)
      BY <1>0, <2>3, RangeTail
    <3>3. closer \notin {"open", "putting"}
      BY <3>2 DEF Pipeline, AcceptedOnce
    <3>4. stop
      BY <3>3 DEF Drained
    <3> QED BY <1>1, <2>1, <2>3, <3>1, <3>4 DEF Drained, LeaveLoop, Before
  <2> QED BY <1>1, <2>2, <2>3 DEF LeaveLoop, LoopEnds
<1>2. CASE Take
  <2>1. ~leaving
    BY <1>2 DEF Take, Drained, Phases
  <2>2. writer' # "closed"
    BY <1>2, FlushPhaseType DEF Take
  <2> QED BY <1>2, <2>1, <2>2 DEF Take, Drained, Before
<1>3. CASE Idle \/ WriterStart
  <2>1. ~leaving
    BY <1>3 DEF Idle, WriterStart, Drained, Phases
  <2>2. writer' # "closed"
    BY <1>3, FlushPhaseType DEF Idle, WriterStart
  <2> QED BY <1>3, <2>1, <2>2 DEF Idle, WriterStart, Drained, Before
<1>4. CASE \/ Skip \/ RowWritten \/ RowRetried \/ RowFailed \/ Maintenance
  BY <1>4 DEF Drained, Before, Skip, RowWritten, RowRetried, RowFailed, Maintenance,
     RunBackup, BackupFailed, RunVacuum, RunPrune
<1>5. CASE Commit \/ CommitFailed \/ NextPhase
  BY <1>5 DEF Drained, Before, Commit, CommitFailed, NextPhase, PhaseAfter, Phases
<1>6. CASE FlushDone
  BY <1>6 DEF Drained, Before, FlushDone, Phases
<1> QED BY <1>1, <1>2, <1>3, <1>4, <1>5, <1>6 DEF Writer

LEMMA NextDrained == Pipeline /\ Drained /\ [Next]_vars => Drained'
<1> SUFFICES ASSUME Pipeline, Drained, [Next]_vars PROVE Drained'
  OBVIOUS
<1>1. CASE UNCHANGED vars
  BY <1>1 DEF vars, queueVars, flushVars, closeVars, Drained, Before
<1>2. CASE Writer
  BY <1>2, DrainedWriter
<1>3. CASE Next /\ ~Writer
  BY <1>3, DrainedCaller DEF Next
<1> QED BY <1>1, <1>2, <1>3

(***************************************************************************)
(* shutdown() drains the queue, for every capacity, batch size and order   *)
(* of calls: when the writer has ended because of it, only rows queued     *)
(* behind the sentinel are still waiting.  The stop flag may end the loop  *)
(* before the sentinel is there, but then nobody can queue a row until it  *)
(* is.                                                                     *)
(***************************************************************************)
THEOREM ShutdownLosesNothing == Spec => []ShutdownDrains
<1>1. Init => Drained
  BY DEF Init, Drained, Range
<1>2. Pipeline /\ Drained => ShutdownDrains
  <2> SUFFICES ASSUME Pipeline, Drained, writer = "closed", NEW w \in Pending
               PROVE  Before(Sentinel, w)
    BY DEF ShutdownDrains
  <2>1. Unwritten = {} /\ completed = <<>>
    BY UnwrittenFacts DEF Pipeline, TypeInv, Control
  <2>2. Range(completed) = {}
    BY <2>1 DEF Range
  <2>3. w \in Range(write_q) \cap Writes
    BY <2>1, <2>2 DEF Pending
  <2> QED BY <2>3 DEF Drained
<1> QED BY <1>1, <1>2, InitPipeline, NextPipeline, NextDrained, PTL DEF Spec

-----------------------------------------------------------------------------
(* Refinement                                                              *)

\* Every accepted row is pending, durable or failed, and only one of them.
LEMMA PendingIs ==
  Pipeline => /\ Pending = (Range(accepted) \cap Writes) \ (Lost \cup Range(committed))
              /\ Range(committed) \subseteq Range(accepted)
              /\ Lost \cap Range(committed) = {}
<1> SUFFICES ASSUME Pipeline
             PROVE  Pending = (Range(accepted) \cap Writes) \ (Lost \cup Range(committed))
  BY DEF Lost, Pipeline, Order
<1>1. Pending \subseteq Range(accepted) \cap Writes
  BY UnwrittenInBatch DEF Pending, Pipeline, Order
<1>2. Pending \cap Range(committed) = {}
  BY StagesDisjoint DEF Pending
<1> QED BY <1>1, <1>2 DEF Lost

\* The fate of a row from the three histories and Lost alone.
Fate(w, com, lost, acc, req) ==
  IF w \in com THEN "durable" ELSE IF w \in lost THEN "failed"
  ELSE IF w \in acc THEN "pending" ELSE IF w \in req THEN "refused" ELSE "new"

LEMMA FateIs ==
  Pipeline => \A w \in Writes :
    RowFate(w) = Fate(w, Range(committed), Lost, Range(accepted), requested)
<1> SUFFICES ASSUME Pipeline, NEW w \in Writes
             PROVE  RowFate(w) = Fate(w, Range(committed), Lost, Range(accepted), requested)
  OBVIOUS
<1>1. CASE w \in Range(committed)
  BY <1>1, PendingIs DEF RowFate, Fate
<1>2. CASE w \in Pending
  <2>1. w \notin Range(committed) /\ w \notin Lost /\ w \in Range(accepted)
    BY <1>2, PendingIs
  <2> QED BY <1>2, <2>1 DEF RowFate, Fate
<1>3. CASE w \in Lost
  <2>1. w \notin Range(committed) /\ w \notin Pending /\ w \in Range(accepted)
    BY <1>3, PendingIs DEF Lost
  <2> QED BY <1>3, <2>1 DEF RowFate, Fate
<1>4. CASE w \notin Range(accepted)
  <2>1. w \notin Range(committed) /\ w \notin Pending /\ w \notin Lost
    BY <1>4, PendingIs DEF Lost
  <2>2. CASE w \in requested
    BY <1>4, <2>1, <2>2 DEF RowFate, Fate
  <2>3. CASE w \notin requested
    BY <1>4, <2>1, <2>3 DEF RowFate, Fate
  <2> QED BY <2>2, <2>3
<1> QED BY <1>1, <1>2, <1>3, <1>4, PendingIs

LEMMA FateIsNext ==
  ASSUME Pipeline'
  PROVE  \A w \in Writes :
    RowFate(w)' = Fate(w, Range(committed'), Lost', Range(accepted'), requested')
<1>1. Pipeline' => (\A w \in Writes :
    RowFate(w) = Fate(w, Range(committed), Lost, Range(accepted), requested))'
  BY FateIs, PTL
<1> QED BY <1>1

\* The fates of all rows, the variable of the journal.
Fates == [w \in Writes |-> RowFate(w)]

LEMMA FateKept ==
  ASSUME Pipeline, Pipeline', Range(committed') = Range(committed), Lost' = Lost,
         \A w \in Writes : /\ w \in Range(accepted') <=> w \in Range(accepted)
                           /\ w \in requested' <=> w \in requested
  PROVE  UNCHANGED Fates
<1>1. \A w \in Writes : RowFate(w)' = RowFate(w)
  BY FateIs, FateIsNext DEF Fate
<1> QED BY <1>1 DEF Fates

\* A row that settles, or is submitted, while the others keep their fate.
LEMMA FateSettles ==
  ASSUME NEW S, NEW f,
         \A w \in Writes : RowFate(w)' = IF w \in S THEN f ELSE RowFate(w)
  PROVE  Journal!Settle(S, f)
BY DEF Journal!Settle

LEMMA SubmitStep ==
  ASSUME Pipeline, Pipeline', NEW x \in Writes, x \notin requested, Enqueue(x),
         UNCHANGED <<flushVars, committed, failed_count>>
  PROVE  Journal!Submit(x)
<1> DEFINE T == Requests \cup {Sentinel}
<1>a. TypeInv /\ write_q \in Seq(T)
  BY DEF Pipeline, TypeInv, TypeOK
<1>b. x \in Requests /\ x # Sentinel /\ x \in T
  BY KindsAssumption DEF Requests
<1>c. x \notin Range(accepted)
  BY <1>b DEF Pipeline, AcceptedOnce
<1>0. TypeInv /\ write_q \in Seq(T) /\ x \in T /\ x \notin Range(accepted)
  BY <1>a, <1>b, <1>c
<1>1. RowFate(x) = "new"
  BY <1>0, FateIs, PendingIs DEF Fate, Lost
<1>2. Unwritten' = Unwritten
  BY DEF Unwritten, flushVars
<1>3. CASE Len(write_q) < Capacity
  <2>a. accepted' = Append(accepted, x) /\ write_q' = Append(write_q, x)
    BY <1>3 DEF Enqueue
  <2>b. Range(accepted') = Range(accepted) \cup {x}
    BY <1>0, <2>a, BeforeAppend
  <2>c. Range(write_q') = Range(write_q) \cup {x}
    <3> HIDE DEF T
    <3> QED BY <1>0, <2>a, RangeAppend
  <2>1. /\ Range(accepted') = Range(accepted) \cup {x}
        /\ Range(write_q') = Range(write_q) \cup {x}
    BY <2>b, <2>c
  <2>2. Lost' = Lost
    BY <1>0, <1>2, <2>1, PendingIs DEF Lost, Pending, flushVars
  <2>3. \A w \in Writes : RowFate(w)' = IF w \in {x} THEN "pending" ELSE RowFate(w)
    BY <1>0, <2>1, <2>2, FateIs, FateIsNext, PendingIs DEF Fate, Enqueue, Lost
  <2>4. Journal!Settle({x}, "pending")
    BY <2>3, FateSettles
  <2> QED BY <1>1, <2>4 DEF Journal!Submit
<1>4. CASE ~(Len(write_q) < Capacity)
  <2>1. UNCHANGED <<accepted, write_q>>
    BY <1>4 DEF Enqueue
  <2>2. Lost' = Lost
    BY <1>2, <2>1 DEF Lost, Pending, flushVars
  <2>3. \A w \in Writes : RowFate(w)' = IF w \in {x} THEN "refused" ELSE RowFate(w)
    BY <1>0, <2>1, <2>2, FateIs, FateIsNext, PendingIs DEF Fate, Enqueue, Lost
  <2>4. Journal!Settle({x}, "refused")
    BY <2>3, FateSettles
  <2> QED BY <1>1, <2>4 DEF Journal!Submit
<1> QED BY <1>3, <1>4

\* Queueing something that is no row leaves every row's fate alone.
LEMMA OtherQueued ==
  ASSUME Pipeline, Pipeline', NEW x \in (Requests \cup {Sentinel}) \ Writes,
         \/ accepted' = Append(accepted, x) /\ write_q' = Append(write_q, x)
         \/ UNCHANGED <<accepted, write_q>>,
         requested' \in {requested, requested \cup {x}},
         UNCHANGED <<flushVars, committed, failed_count>>
  PROVE  UNCHANGED <<Fates, failed_count>>
<1>0. TypeInv /\ write_q \in Seq(Requests \cup {Sentinel})
  BY DEF Pipeline, TypeInv, TypeOK
<1>1. Unwritten' = Unwritten
  BY DEF Unwritten, flushVars
<1>2. /\ Range(accepted') \cap Writes = Range(accepted) \cap Writes
      /\ Range(write_q') \cap Writes = Range(write_q) \cap Writes
  <2>1. CASE accepted' = Append(accepted, x) /\ write_q' = Append(write_q, x)
    BY <1>0, <2>1, RangeAppend, BeforeAppend
  <2>2. CASE UNCHANGED <<accepted, write_q>>
    BY <2>2
  <2> QED BY <2>1, <2>2
<1>3. Lost' = Lost
  BY <1>1, <1>2 DEF Lost, Pending, flushVars
<1> QED BY <1>2, <1>3, FateKept

LEMMA CallerJournal ==
  ASSUME Pipeline, Pipeline',
         \/ \E x \in Requests : Save(x)
         \/ \E b \in Backups : BackupCall(b) \/ BackupEnqueue(b) \/ BackupTimeout(b)
         \/ Shutdown \/ PutSentinel \/ Join
         \/ ReadBegin \/ ReadEnd \/ PruneNow
  PROVE  Journal!JournalNext \/ UNCHANGED <<Fates, failed_count>>
<1>1. ASSUME NEW x \in Requests, Save(x)
      PROVE  Journal!JournalNext \/ UNCHANGED <<Fates, failed_count>>
  <2>1. CASE x \in Writes
    <3>1. Journal!Submit(x)
      BY <1>1, <2>1, SubmitStep DEF Save, historyVars
    <3> QED BY <2>1, <3>1 DEF Journal!JournalNext
  <2>2. CASE x \notin Writes
    BY <1>1, <2>2, OtherQueued DEF Save, Enqueue, historyVars
  <2> QED BY <2>1, <2>2
<1>2. ASSUME NEW b \in Backups, BackupEnqueue(b) PROVE UNCHANGED <<Fates, failed_count>>
  <2>1. b \in Requests /\ b \notin Writes
    BY KindsAssumption DEF Requests
  <2> QED BY <1>2, <2>1, OtherQueued DEF BackupEnqueue, Enqueue, historyVars
<1>3. CASE PutSentinel
  <2>1. Sentinel \notin Writes
    BY KindsAssumption DEF Requests
  <2> QED BY <1>3, <2>1, OtherQueued DEF PutSentinel, historyVars
<1>4. CASE \/ \E b \in Backups : BackupCall(b) \/ BackupTimeout(b)
           \/ Shutdown \/ Join \/ ReadBegin \/ ReadEnd \/ PruneNow
  <2>1. UNCHANGED <<queueVars, flushVars, committed, failed_count>>
    BY <1>4 DEF BackupCall, BackupTimeout, Shutdown, Join, ReadBegin, ReadEnd,
                PruneNow, historyVars
  <2>2. Lost' = Lost
    BY <2>1 DEF Lost, Pending, Unwritten, queueVars, flushVars
  <2> QED BY <2>1, <2>2, FateKept DEF queueVars
<1> QED BY <1>1, <1>2, <1>3, <1>4

LEMMA WriterJournal ==
  ASSUME Pipeline, Pipeline', Writer
  PROVE  Journal!JournalNext \/ UNCHANGED <<Fates, failed_count>>
<1>0. UNCHANGED <<accepted, requested>>
  BY WriterAcceptedOnce
<1>1. ASSUME Lost' = Lost, UNCHANGED <<failed_count, committed>>
      PROVE  UNCHANGED <<Fates, failed_count>>
  BY <1>0, <1>1, FateKept
<1>2. CASE WriterStart \/ Take \/ Idle \/ LeaveLoop
  <2>1. UNCHANGED committed
    BY <1>2 DEF WriterStart, Take, Idle, LeaveLoop, historyVars
  <2> QED BY <1>1, <1>2, <2>1, LoopLost
<1>3. CASE Skip \/ RowWritten \/ RowRetried
  <2>1. UNCHANGED committed
    BY <1>3 DEF Skip, RowWritten, RowRetried, historyVars
  <2> QED BY <1>1, <1>3, <2>1, RowsLost
<1>4. CASE Maintenance \/ NextPhase \/ FlushDone
  BY <1>1, <1>4, MaintenanceLost, MaintenanceOrder
<1>5. CASE RowFailed
  <2> DEFINE w == batch[pos]
  <2>1. /\ Lost' = Lost \cup {w} /\ w \in Pending
        /\ UNCHANGED committed /\ failed_count' = failed_count + 1
    BY <1>5, RowFailedLost
  <2> HIDE DEF w
  <2>2. w \in Writes /\ w \notin Lost /\ w \notin Range(committed) /\ w \in Range(accepted)
    BY <2>1, PendingIs
  <2>3. \A v \in Writes : RowFate(v)' = IF v \in {w} THEN "failed" ELSE RowFate(v)
    BY <1>0, <2>1, <2>2, FateIs, FateIsNext DEF Fate
  <2>4. Journal!Settle({w}, "failed")
    BY <2>3, FateSettles
  <2>5. RowFate(w) = "pending"
    BY <2>2, FateIs DEF Fate
  <2>6. {w} \subseteq Journal!Having("pending")
    BY <2>2, <2>5 DEF Journal!Having
  <2>7. Cardinality({w}) = 1
    BY FS_Singleton
  <2>8. Journal!GiveUp({w})
    BY <2>1, <2>4, <2>6, <2>7 DEF Journal!GiveUp, Journal!Cardinality, Cardinality
  <2> QED BY <2>2, <2>8 DEF Journal!JournalNext
<1>6. CASE CommitFailed
  <2> DEFINE S == Range(completed)
  <2>1. /\ Lost' = Lost \cup S /\ S \subseteq Pending
        /\ UNCHANGED committed /\ failed_count' = failed_count + Cardinality(S)
    BY <1>6, CommitFailedLost
  <2> HIDE DEF S
  <2>2. S \subseteq Writes /\ \A w \in S : /\ w \notin Lost /\ w \notin Range(committed)
                                           /\ w \in Range(accepted)
    BY <2>1, PendingIs
  <2>3. \A v \in Writes : RowFate(v)' = IF v \in S THEN "failed" ELSE RowFate(v)
    BY <1>0, <2>1, <2>2, FateIs, FateIsNext DEF Fate
  <2>4. Journal!Settle(S, "failed")
    BY <2>3, FateSettles
  <2>5. \A w \in S : RowFate(w) = "pending"
    BY <2>2, FateIs DEF Fate
  <2>6. S \subseteq Journal!Having("pending")
    BY <2>2, <2>5 DEF Journal!Having
  <2>8. Journal!GiveUp(S)
    BY <2>1, <2>4, <2>6 DEF Journal!GiveUp, Journal!Cardinality, Cardinality
  <2> QED BY <2>2, <2>8 DEF Journal!JournalNext
<1>7. CASE Commit
  <2> DEFINE S == Range(completed)
  <2>1. /\ Lost' = Lost /\ UNCHANGED failed_count
        /\ committed' = committed \o completed
        /\ committed \in Seq(Writes) /\ completed \in Seq(Writes)
    BY <1>7, CommitLost DEF Commit, Pipeline, TypeInv, TypeOK
  <2>2. Range(committed') = Range(committed) \cup S
    BY <2>1, RangeConcat
  <2>3. S \subseteq Pending
    BY <2>1 DEF Pending, Range
  <2> HIDE DEF S
  <2>4. S \subseteq Writes /\ \A w \in S : /\ w \notin Lost /\ w \notin Range(committed)
                                           /\ w \in Range(accepted)
    BY <2>3, PendingIs
  <2>5. \A v \in Writes : RowFate(v)' = IF v \in S THEN "durable" ELSE RowFate(v)
    BY <1>0, <2>1, <2>2, <2>4, FateIs, FateIsNext DEF Fate
  <2>6. Journal!Settle(S, "durable")
    BY <2>5, FateSettles
  <2>7. \A w \in S : RowFate(w) = "pending"
    BY <2>4, FateIs DEF Fate
  <2>8. S \subseteq Journal!Having("pending")
    BY <2>4, <2>7 DEF Journal!Having
  <2>9. Journal!MakeDurable(S)
    BY <2>1, <2>6, <2>8 DEF Journal!MakeDurable
  <2> QED BY <2>4, <2>9 DEF Journal!JournalNext
<1> QED BY <1>2, <1>3, <1>4, <1>5, <1>6, <1>7 DEF Writer

(***************************************************************************)
(* The store implements the journal, for every set of rows, capacity,      *)
(* batch size and retry limit: queueing a row is a submission, a COMMIT    *)
(* makes the rows of its batch durable at one instant, a row that is given *)
(* up and a batch that is rolled back are counted failures, and every      *)
(* other step of callers, writer, readers and shutdown() changes no row's  *)
(* fate.                                                                   *)
(***************************************************************************)
THEOREM StoreImplementsJournal == Spec => ImplementsJournal
<1>1. Init => Journal!JournalInit
  <2> SUFFICES ASSUME Init PROVE Journal!JournalInit
    OBVIOUS
  <2>1. /\ Range(committed) = {} /\ Range(accepted) = {} /\ requested = {}
        /\ failed_count = 0
    BY DEF Init, Range
  <2>2. \A w \in Writes : RowFate(w) = "new"
    BY <2>1, InitPipeline, FateIs DEF Fate, Lost
  <2> QED BY <2>1, <2>2 DEF Journal!JournalInit
<1>2. Pipeline /\ Pipeline' /\ [Next]_vars => [Journal!JournalNext]_(Journal!journalVars)
  <2> SUFFICES ASSUME Pipeline, Pipeline', [Next]_vars
               PROVE  Journal!JournalNext \/ UNCHANGED <<Fates, failed_count>>
    BY DEF Journal!journalVars, Fates
  <2>1. CASE UNCHANGED vars
    <3>1. Lost' = Lost /\ UNCHANGED <<accepted, requested, committed, failed_count>>
      BY <2>1 DEF vars, Lost, Pending, Unwritten, queueVars, flushVars, historyVars
    <3> QED BY <3>1, FateKept
  <2>2. CASE Writer
    BY <2>2, WriterJournal
  <2>3. CASE Next /\ ~Writer
    BY <2>3, CallerJournal DEF Next
  <2> QED BY <2>1, <2>2, <2>3
<1> QED BY <1>1, <1>2, InitPipeline, NextPipeline, PTL
        DEF Spec, ImplementsJournal, Journal!JournalSpec

-----------------------------------------------------------------------------
(* Backups                                                                 *)

LEMMA BeforeAsymmetric ==
  ASSUME TypeInv, AcceptedOnce, NEW x, NEW y, Before(x, y)
  PROVE  ~Before(y, x)
<1>1. DOMAIN accepted \subseteq Nat
  BY DEF TypeInv, TypeOK
<1> QED BY <1>1 DEF Before, AcceptedOnce

\* What is queued later is behind everything that was there.
LEMMA BeforeOld ==
  ASSUME TypeInv, NEW e \in Requests \cup {Sentinel}, e \notin Range(accepted),
         accepted' = Append(accepted, e),
         NEW x, NEW y \in Range(accepted), Before(x, y)'
  PROVE  Before(x, y)
<1> DEFINE T == Requests \cup {Sentinel}
<1>1. accepted \in Seq(T)
  BY DEF TypeInv, TypeOK
<1> HIDE DEF T
<1>2. /\ DOMAIN accepted = 1..Len(accepted) /\ Len(accepted) \in Nat
      /\ DOMAIN accepted' = 1..(Len(accepted) + 1)
      /\ \A i \in DOMAIN accepted : accepted'[i] = accepted[i]
      /\ accepted'[Len(accepted) + 1] = e
  BY <1>1 DEF T
<1>3. PICK i \in DOMAIN accepted', j \in DOMAIN accepted' :
        i < j /\ accepted'[i] = x /\ accepted'[j] = y
  BY DEF Before
<1>4. y # e
  OBVIOUS
<1>5. j \in 1..Len(accepted) /\ i \in 1..Len(accepted)
  BY <1>2, <1>3, <1>4
<1> QED BY <1>2, <1>3, <1>5 DEF Before

\* What a caller, a reader or shutdown() does to the queue and to the requests.
LEMMA CallerQueue ==
  ASSUME Pipeline,
         \/ \E x \in Requests : Save(x)
         \/ \E b \in Backups : BackupCall(b) \/ BackupEnqueue(b) \/ BackupTimeout(b)
         \/ Shutdown \/ PutSentinel \/ Join
         \/ ReadBegin \/ ReadEnd \/ PruneNow
  PROVE  /\ \/ UNCHANGED <<accepted, write_q>>
            \/ \E x \in (Requests \cup {Sentinel}) \ Range(accepted) :
                 accepted' = Append(accepted, x) /\ write_q' = Append(write_q, x)
         /\ UNCHANGED <<flushVars, committed, copy, main>>
         /\ \A b \in Backups : caller'[b] = "returned" => caller[b] = "returned"
<1>0. /\ caller \in [Backups -> {"idle", "checked", "waiting", "returned", "raised"}]
      /\ Sentinel \notin Requests
  BY KindsAssumption DEF Pipeline, TypeInv, TypeOK
<1> USE DEF fileVars, callVars, historyVars, queueVars
<1>1. ASSUME NEW x \in Requests, x \notin requested, Enqueue(x)
      PROVE  \/ UNCHANGED <<accepted, write_q>>
             \/ \E y \in (Requests \cup {Sentinel}) \ Range(accepted) :
                  accepted' = Append(accepted, y) /\ write_q' = Append(write_q, y)
  <2>1. x \notin Range(accepted)
    BY <1>0, <1>1 DEF Pipeline, AcceptedOnce
  <2> QED BY <1>1, <2>1 DEF Enqueue
<1>2. CASE \E x \in Requests : Save(x)
  BY <1>1, <1>2 DEF Save
<1>3. ASSUME NEW b \in Backups, BackupEnqueue(b)
      PROVE  /\ \/ UNCHANGED <<accepted, write_q>>
                \/ \E y \in (Requests \cup {Sentinel}) \ Range(accepted) :
                     accepted' = Append(accepted, y) /\ write_q' = Append(write_q, y)
             /\ \A c \in Backups : caller'[c] = "returned" => caller[c] = "returned"
  <2>1. b \in Requests /\ b \notin requested
    BY <1>3 DEF Requests, BackupEnqueue, Pipeline, AcceptedOnce
  <2>2. \A c \in Backups : caller'[c] = "returned" => caller[c] = "returned"
    BY <1>0, <1>3 DEF BackupEnqueue
  <2> QED BY <1>1, <1>3, <2>1, <2>2 DEF BackupEnqueue
<1>4. CASE \E b \in Backups : BackupEnqueue(b)
  BY <1>3, <1>4 DEF BackupEnqueue
<1>5. CASE PutSentinel
  <2>1. Sentinel \notin Range(accepted)
    BY <1>5 DEF PutSentinel, Pipeline, AcceptedOnce
  <2> QED BY <1>5, <2>1 DEF PutSentinel
<1>6. CASE \/ \E b \in Backups : BackupCall(b) \/ BackupTimeout(b)
           \/ Shutdown \/ Join \/ ReadBegin \/ ReadEnd \/ PruneNow
  BY <1>0, <1>6 DEF BackupCall, BackupTimeout, Shutdown, Join, ReadBegin, ReadEnd,
                PruneNow
<1> QED BY <1>2, <1>4, <1>5, <1>6

\* A row that is lost stays lost, and a committed row stays committed.
LEMMA LostForever ==
  ASSUME Pipeline, Pipeline', [Next]_vars
  PROVE  Lost \subseteq Lost' /\ Range(committed) \subseteq Range(committed')
<1>1. CASE Next /\ ~Writer
  <2>1. /\ \/ UNCHANGED <<accepted, write_q>>
           \/ \E x \in (Requests \cup {Sentinel}) \ Range(accepted) :
                 accepted' = Append(accepted, x) /\ write_q' = Append(write_q, x)
        /\ UNCHANGED <<flushVars, committed>>
    BY <1>1, CallerQueue DEF Next
  <2>2. Unwritten' = Unwritten /\ UNCHANGED completed
    BY <2>1 DEF Unwritten, flushVars
  <2>3. CASE UNCHANGED <<accepted, write_q>>
    BY <2>1, <2>2, <2>3 DEF Lost, Pending
  <2>4. ASSUME NEW x \in (Requests \cup {Sentinel}) \ Range(accepted),
               accepted' = Append(accepted, x), write_q' = Append(write_q, x)
        PROVE  Lost \subseteq Lost'
    <3> DEFINE T == Requests \cup {Sentinel}
    <3>1. TypeInv /\ write_q \in Seq(T) /\ accepted \in Seq(T) /\ x \in T
      BY DEF Pipeline, TypeInv, TypeOK
    <3> HIDE DEF T
    <3>2. /\ Range(accepted') = Range(accepted) \cup {x}
          /\ Range(write_q') = Range(write_q) \cup {x}
      BY <2>4, <3>1, RangeAppend
    <3> QED BY <2>1, <2>2, <2>4, <3>2 DEF Lost, Pending
  <2> QED BY <2>1, <2>3, <2>4
<1>2. CASE Writer
  <2>1. CASE Commit
    <3>1. /\ committed' = committed \o completed
          /\ committed \in Seq(Writes) /\ completed \in Seq(Writes)
      BY <2>1 DEF Commit, Pipeline, TypeInv, TypeOK
    <3> QED BY <2>1, <3>1, CommitLost, RangeConcat
  <2>2. CASE Writer /\ ~Commit
    <3>1. UNCHANGED committed
      BY <2>2 DEF Writer, WriterStart, Take, Idle, LeaveLoop, Skip, RowWritten,
         RowRetried, RowFailed, CommitFailed, Maintenance, RunBackup, BackupFailed,
         RunVacuum, RunPrune, NextPhase, FlushDone, historyVars
    <3>2. Lost \subseteq Lost'
      BY <2>2, LoopLost, RowsLost, RowFailedLost, CommitFailedLost, MaintenanceLost
         DEF Writer
    <3> QED BY <3>1, <3>2
  <2> QED BY <1>2, <2>1, <2>2
<1>3. CASE UNCHANGED vars
  BY <1>3 DEF vars, Lost, Pending, Unwritten, queueVars, flushVars, historyVars
<1> QED BY <1>1, <1>2, <1>3

\* The database holds the committed rows, but for the volume rows that were
\* pruned, and a backup that returned holds the committed rows before it.
Backed ==
  /\ reader = 0
  /\ Rows \subseteq Range(committed)
  /\ Range(committed) \subseteq Rows \cup Volume
  /\ \A b \in Backups : caller[b] = "returned" =>
       /\ b \in Range(accepted)
       /\ \A w \in Writes : Before(w, b) =>
            \/ w \in Lost
            \/ w \in Range(committed) /\ w \in copy[b] \cup (Volume \ Rows)

\* What the steps do to the database and to the reader, without readers.
LEMMA FilesStep ==
  ASSUME Pipeline, Backed, ~Readers, [Next]_vars
  PROVE  /\ reader' = 0
         /\ Rows' \subseteq Range(committed')
         /\ Range(committed') \subseteq Rows' \cup Volume
         /\ Rows' \cap Range(committed) \subseteq Rows
<1>0. log \in Seq(SUBSET Writes) /\ Len(log) \in Nat \ {0}
  BY DEF Pipeline, TypeInv, TypeOK
<1> USE DEF fileVars, historyVars
<1>1. reader' = 0
  <2>1. CASE Writer
    BY <2>1 DEF Backed, Writer, WriterStart, Take, Idle, LeaveLoop, Skip, RowWritten,
         RowRetried, RowFailed, Commit, CommitFailed, Maintenance, RunBackup,
         BackupFailed, RunVacuum, RunPrune, NextPhase, FlushDone
  <2>2. CASE Next /\ ~Writer
    BY <2>2 DEF Backed, Next, Save, BackupCall, BackupEnqueue, BackupTimeout, Shutdown,
         PutSentinel, Join, ReadBegin, ReadEnd, PruneNow
  <2>3. CASE UNCHANGED vars
    BY <2>3 DEF Backed, vars
  <2> QED BY <2>1, <2>2, <2>3
<1>2. CASE Commit
  <2>1. /\ committed \in Seq(Writes) /\ completed \in Seq(Writes)
        /\ committed' = committed \o completed
        /\ log' = IF completed = <<>> THEN log ELSE Append(log, Rows \cup Range(completed))
    BY <1>2 DEF Commit, Pipeline, TypeInv, TypeOK
  <2>2. Range(committed') = Range(committed) \cup Range(completed)
    BY <2>1, RangeConcat
  <2>3. Range(completed) \cap Range(committed) = {}
    BY StagesDisjoint
  <2>4. Rows' = Rows \cup Range(completed)
    <3>1. CASE completed = <<>>
      BY <2>1, <3>1 DEF Rows, Range
    <3>2. CASE completed # <<>>
      BY <1>0, <2>1, <3>2 DEF Rows
    <3> QED BY <3>1, <3>2
  <2> QED BY <1>1, <2>2, <2>3, <2>4 DEF Backed
<1>3. ASSUME NEW old \in SUBSET (Volume \cap Rows), DeleteOld(old), UNCHANGED committed
      PROVE  /\ Rows' \subseteq Range(committed')
             /\ Range(committed') \subseteq Rows' \cup Volume
             /\ Rows' \cap Range(committed) \subseteq Rows
  <2>1. Rows' = Rows \ old
    BY <1>0, <1>3 DEF DeleteOld, Rows
  <2> QED BY <1>3, <2>1 DEF Backed
<1>4. CASE PruneNow \/ RunPrune
  BY <1>1, <1>3, <1>4 DEF PruneNow, RunPrune
<1>5. CASE ~Commit /\ ~PruneNow /\ ~RunPrune
  <2>1. UNCHANGED <<log, committed>>
    <3>1. CASE Writer
      BY <1>5, <3>1 DEF Writer, WriterStart, Take, Idle, LeaveLoop, Skip, RowWritten,
         RowRetried, RowFailed, CommitFailed, Maintenance, RunBackup,
         BackupFailed, RunVacuum, NextPhase, FlushDone
    <3>2. CASE Next /\ ~Writer
      BY <1>5, <3>2 DEF Next, Save, BackupCall, BackupEnqueue, BackupTimeout, Shutdown,
         PutSentinel, Join, ReadBegin, ReadEnd
    <3>3. CASE UNCHANGED vars
      BY <3>3 DEF vars
    <3> QED BY <3>1, <3>2, <3>3
  <2> QED BY <1>1, <2>1 DEF Rows, Backed
<1> QED BY <1>2, <1>4, <1>5

\* Everything that was queued before a backup is settled when it runs.
LEMMA SettledBefore ==
  ASSUME Pipeline, Serving("backup"), NEW w \in Writes, Before(w, batch[pos])
  PROVE  w \in Lost \cup Range(committed)
<1>1. /\ writer = "backup" /\ batch[pos] \in Range(batch) /\ completed = <<>>
  BY DEF Serving, Pipeline, TypeInv, Control, Range
<1>2. Unwritten = {} /\ Range(completed) = {}
  BY <1>1, UnwrittenFacts DEF Range
<1>3. w \in Range(accepted)
  BY DEF Before, Range
<1>4. w \notin Range(write_q)
  <2> SUFFICES ASSUME w \in Range(write_q) PROVE FALSE
    OBVIOUS
  <2>1. Before(batch[pos], w)
    BY <1>1 DEF Pipeline, Order, Precedes
  <2> QED BY <2>1, BeforeAsymmetric DEF Pipeline
<1> QED BY <1>2, <1>3, <1>4 DEF Lost, Pending

LEMMA NextBacked == ~Readers /\ Pipeline /\ Pipeline' /\ Backed /\ [Next]_vars => Backed'
<1> SUFFICES ASSUME ~Readers, Pipeline, Pipeline', Backed, [Next]_vars PROVE Backed'
  OBVIOUS
<1>0. /\ reader' = 0
      /\ Rows' \subseteq Range(committed')
      /\ Range(committed') \subseteq Rows' \cup Volume
      /\ Rows' \cap Range(committed) \subseteq Rows
      /\ Lost \subseteq Lost' /\ Range(committed) \subseteq Range(committed')
  BY FilesStep, LostForever
<1>1. ASSUME NEW b \in Backups, caller'[b] = "returned", caller[b] = "returned",
             copy'[b] = copy[b],
             \/ UNCHANGED accepted
             \/ \E x \in (Requests \cup {Sentinel}) \ Range(accepted) :
                  accepted' = Append(accepted, x)
      PROVE  /\ b \in Range(accepted')
             /\ \A w \in Writes : Before(w, b)' =>
                  \/ w \in Lost'
                  \/ w \in Range(committed') /\ w \in copy'[b] \cup (Volume \ Rows')
  <2>1. b \in Range(accepted)
    BY <1>1 DEF Backed
  <2>2. b \in Range(accepted')
    BY <1>1, <2>1, BeforeAppend DEF Pipeline
  <2>3. \A w : Before(w, b)' => Before(w, b)
    BY <1>1, <2>1, BeforeOld, BeforeStable DEF Pipeline
  <2> QED BY <1>0, <1>1, <2>2, <2>3 DEF Backed
<1>2. CASE Next /\ ~Writer
  <2>1. /\ \/ UNCHANGED accepted
           \/ \E x \in (Requests \cup {Sentinel}) \ Range(accepted) :
                  accepted' = Append(accepted, x)
        /\ UNCHANGED copy
        /\ \A b \in Backups : caller'[b] = "returned" => caller[b] = "returned"
    BY <1>2, CallerQueue DEF Next
  <2> QED BY <1>0, <1>1, <2>1 DEF Backed
<1>3. CASE UNCHANGED vars
  <2>1. UNCHANGED <<accepted, copy, caller>>
    BY <1>3 DEF vars, queueVars, callVars
  <2> QED BY <1>0, <1>1, <2>1 DEF Backed
<1>4. CASE Writer
  <2>0. UNCHANGED accepted
    BY <1>4, WriterAcceptedOnce
  <2>1. CASE ~RunBackup
    <3>1. /\ UNCHANGED copy
          /\ \A b \in Backups : caller'[b] = "returned" => caller[b] = "returned"
      <4>1. CASE BackupFailed
        BY <4>1 DEF BackupFailed, Answer, Pipeline, TypeInv, TypeOK
      <4>2. CASE ~BackupFailed
        BY <1>4, <2>1, <4>2 DEF Writer, WriterStart, Take, Idle, LeaveLoop, Skip,
           RowWritten, RowRetried, RowFailed, Commit, CommitFailed, Maintenance,
           RunVacuum, RunPrune, NextPhase, FlushDone, callVars
      <4> QED BY <4>1, <4>2
    <3> QED BY <1>0, <1>1, <2>0, <3>1 DEF Backed
  <2>2. CASE RunBackup
    <3>0. PICK c \in Backups : c = batch[pos]
      BY <2>2 DEF RunBackup, Serving, Serves
    <3>1. Serving("backup") /\ c \in Range(batch)
      BY <2>2, <3>0 DEF RunBackup, Serving, Range
    <3>2. /\ copy' = [copy EXCEPT ![c] = log[main']] /\ main' = Len(log)
          /\ UNCHANGED <<log, committed>>
          /\ \A b \in Backups : b # c => caller'[b] = caller[b]
      BY <2>2, <3>0 DEF RunBackup, Checkpoint, Answer, Backed, Pipeline, TypeInv, TypeOK
    <3>3. copy'[c] = Rows /\ \A b \in Backups : b # c => copy'[b] = copy[b]
      BY <3>1, <3>2 DEF Rows, Pipeline, TypeInv, TypeOK
    <3>4. \A w \in Writes : Before(w, c) => w \in Lost \cup Range(committed)
      BY <3>0, <3>1, SettledBefore
    <3>5. c \in Range(accepted)
      BY <3>1 DEF Pipeline, Order
    <3>6. Rows' = Rows
      BY <3>2 DEF Rows
    <3>7. /\ c \in Range(accepted')
          /\ \A w \in Writes : Before(w, c)' =>
                  \/ w \in Lost'
                  \/ w \in Range(committed') /\ w \in copy'[c] \cup (Volume \ Rows')
      <4>1. \A w : Before(w, c)' <=> Before(w, c)
        BY <2>0, BeforeStable
      <4>2. Range(committed) \subseteq Rows \cup Volume
        BY DEF Backed
      <4>3. c \in Range(accepted')
        BY <2>0, <3>5
      <4> QED BY <1>0, <3>3, <3>4, <3>6, <4>1, <4>2, <4>3
    <3>8. ASSUME NEW b \in Backups, caller'[b] = "returned"
          PROVE  /\ b \in Range(accepted')
                 /\ \A w \in Writes : Before(w, b)' =>
                      \/ w \in Lost'
                      \/ w \in Range(committed') /\ w \in copy'[b] \cup (Volume \ Rows')
      <4>1. CASE b = c
        BY <3>7, <4>1
      <4>2. CASE b # c
        BY <1>1, <2>0, <3>2, <3>3, <3>8, <4>2
      <4> QED BY <4>1, <4>2
    <3> QED BY <1>0, <3>8 DEF Backed
  <2> QED BY <2>1, <2>2
<1> QED BY <1>2, <1>3, <1>4

(***************************************************************************)
(* backup() "flushes all pending writes", as long as no reader pins an     *)
(* older state while the checkpoint runs: for every set of rows and        *)
(* requests, a copy that was returned holds every row that was queued      *)
(* before the call, but for those that failed or were pruned.              *)
(***************************************************************************)
THEOREM BackupsAreComplete == ~Readers => (Spec => []BackupComplete)
<1> SUFFICES ASSUME ~Readers PROVE Spec => []BackupComplete
  OBVIOUS
<1>1. Init => Backed
  BY DEF Init, Backed, Rows, Range
<1>2. Backed => BackupComplete
  BY DEF Backed, BackupComplete
<1>3. Pipeline /\ Pipeline' /\ Backed /\ [Next]_vars => Backed'
  BY NextBacked
<1> QED BY <1>1, <1>2, <1>3, InitPipeline, NextPipeline, PTL DEF Spec
=============================================================================
