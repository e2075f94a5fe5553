---------------------------- MODULE MonitorStore ----------------------------
(***************************************************************************)
(* The write path of services/monitor_store.py: callers on any thread put  *)
(* requests on a bounded queue; one writer thread takes them in batches,   *)
(* writes each row in a SAVEPOINT of one transaction, commits, and then    *)
(* runs the batch's backups, vacuums and prunes.  shutdown() sets a stop   *)
(* flag, puts a sentinel and joins the writer.                             *)
(*                                                                         *)
(* A request is an opaque identity: what a row contains does not matter    *)
(* here, only which request it came from, where it is and in what order    *)
(* it was applied.                                                         *)
(***************************************************************************)
EXTENDS Integers, Sequences, FiniteSets, Functions

CONSTANTS
  Writes,      \* row writes: packets, sessions, positions, nodes, messages...
  Volume,      \* the writes a prune may delete (packets, positions, telemetry)
  Backups,     \* calls of backup(), each with its own done event and result
  Prunes,      \* prune_async() requests
  Vacuums,     \* vacuum_async() requests
  Sentinel,    \* the None that shutdown() puts on the queue
  Capacity,    \* queue.Queue(maxsize=10_000)
  BatchSize,   \* the writer flushes at 100 items
  MaxRetries,  \* _MAX_WRITE_RETRIES
  Readers      \* TRUE if a read connection may be in a SELECT at any time

Requests == Writes \cup Backups \cup Prunes \cup Vacuums

ASSUME KindsAssumption ==
  /\ Volume \subseteq Writes
  /\ Writes \cap (Backups \cup Prunes \cup Vacuums) = {}
  /\ Backups \cap (Prunes \cup Vacuums) = {}
  /\ Prunes \cap Vacuums = {}
  /\ Sentinel \notin Requests
  /\ Readers \in BOOLEAN

ASSUME BoundsAssumption ==
  /\ IsFiniteSet(Requests)
  /\ Capacity \in Nat \ {0}
  /\ BatchSize \in Nat \ {0}
  /\ MaxRetries \in Nat

VARIABLES
  write_q,        \* the queue, oldest first
  dropped_count,  \* requests refused because the queue was full
  stop,           \* the stop event
  writer,         \* where the writer thread is
  leaving,        \* the writer has left its loop: this flush is its last
  batch,          \* requests taken off the queue and not yet flushed
  pos,            \* the item of batch the current phase of _flush is at
  attempt,        \* attempt number of the row being written
  completed,      \* rows of the open transaction that reported success
  failed_count,   \* rows recorded as permanently failed
  log,            \* the committed database states, one per transaction
  main,           \* index in log of the state in the main database file
  reader,         \* index in log of the state a reader pins, 0 for none
  caller,         \* what each backup() call is doing
  copy,           \* the rows each backup file holds
  closer,         \* what shutdown() is doing
  requested,      \* history: requests made so far
  accepted,       \* history: everything put on the queue, in order
  committed,      \* history: rows in the order their commits applied them
  served          \* history: maintenance requests in the order they ran

queueVars == <<write_q, dropped_count, requested, accepted>>
flushVars == <<writer, leaving, batch, pos, attempt, completed>>
fileVars  == <<log, main, reader>>
callVars  == <<caller, copy>>
closeVars == <<stop, closer>>
historyVars == <<committed, served>>
vars == <<queueVars, flushVars, fileVars, callVars, closeVars, historyVars,
          failed_count>>

Phases == {"write", "backup", "vacuum", "prune"}

Init ==
  /\ write_q = <<>> /\ dropped_count = 0
  /\ stop = FALSE /\ closer = "open"
  /\ writer = "start" /\ leaving = FALSE
  /\ batch = <<>> /\ pos = 1 /\ attempt = 1 /\ completed = <<>>
  /\ failed_count = 0
  /\ log = <<{}>> /\ main = 1 /\ reader = 0
  /\ caller = [b \in Backups |-> "idle"]
  /\ copy = [b \in Backups |-> {}]
  /\ requested = {} /\ accepted = <<>> /\ committed = <<>> /\ served = <<>>

Rows == log[Len(log)]

-----------------------------------------------------------------------------
(* Callers                                                                 *)

\* Fault variant: an unbounded queue.
EnqueueUnbounded(x) ==
  /\ requested' = requested \cup {x}
  /\ write_q' = Append(write_q, x) /\ accepted' = Append(accepted, x)
  /\ UNCHANGED dropped_count

\* Fault variant: a LIFO queue.
EnqueueInFront(x) ==
  /\ requested' = requested \cup {x}
  /\ IF Len(write_q) < Capacity
     THEN /\ write_q' = <<x>> \o write_q
          /\ accepted' = Append(accepted, x)
          /\ UNCHANGED dropped_count
     ELSE /\ dropped_count' = dropped_count + 1
          /\ UNCHANGED <<write_q, accepted>>

\* _enqueue: put_nowait, or count the drop when the queue is full.
Enqueue(x) ==
  /\ requested' = requested \cup {x}
  /\ IF Len(write_q) < Capacity
     THEN /\ write_q' = Append(write_q, x)
          /\ accepted' = Append(accepted, x)
          /\ UNCHANGED dropped_count
     ELSE /\ dropped_count' = dropped_count + 1
          /\ UNCHANGED <<write_q, accepted>>

\* save_packet ... set_setting, prune_async and vacuum_async: fire and forget.
\* The application makes these calls on the GUI thread, the thread that closes
\* the store, so none is made while that thread is inside shutdown().
Save(x) ==
  /\ x \in (Writes \cup Prunes \cup Vacuums) \ requested
  /\ closer \notin {"putting", "joining"}
  /\ Enqueue(x)
  /\ UNCHANGED <<flushVars, fileVars, callVars, closeVars, historyVars,
                 failed_count>>

WriterAlive == writer \notin {"closed", "crashed"}

\* backup(): is_alive() is checked first, and raises.
BackupCall(b) ==
  /\ caller[b] = "idle"
  /\ caller' = [caller EXCEPT ![b] = IF WriterAlive THEN "checked" ELSE "raised"]
  /\ UNCHANGED <<queueVars, flushVars, fileVars, copy, closeVars, historyVars,
                 failed_count>>

\* The request is queued; a drop raises at once, otherwise the caller waits.
BackupEnqueue(b) ==
  /\ caller[b] = "checked"
  /\ Enqueue(b)
  /\ caller' = [caller EXCEPT ![b] =
                  IF Len(write_q) < Capacity THEN "waiting" ELSE "raised"]
  /\ UNCHANGED <<flushVars, fileVars, copy, closeVars, historyVars,
                 failed_count>>

\* done.wait(timeout) runs out.  The request stays in the queue.
BackupTimeout(b) ==
  /\ caller[b] = "waiting"
  /\ caller' = [caller EXCEPT ![b] = "raised"]
  /\ UNCHANGED <<queueVars, flushVars, fileVars, copy, closeVars, historyVars,
                 failed_count>>

\* shutdown(): stop.set().
Shutdown ==
  /\ closer = "open"
  /\ closer' = "putting"
  /\ stop' = TRUE
  /\ UNCHANGED <<queueVars, flushVars, fileVars, callVars, historyVars,
                 failed_count>>

\* put(None) blocks while the queue is full.
PutSentinel ==
  /\ closer = "putting"
  /\ Len(write_q) < Capacity
  /\ write_q' = Append(write_q, Sentinel)
  /\ accepted' = Append(accepted, Sentinel)
  /\ closer' = "joining"
  /\ UNCHANGED <<dropped_count, requested, flushVars, fileVars, callVars, stop,
                 historyVars, failed_count>>

\* join(timeout) returns when the writer has ended or the time is up.
Join ==
  /\ closer = "joining"
  /\ closer' \in {"left"} \cup (IF WriterAlive THEN {} ELSE {"joined"})
  /\ UNCHANGED <<queueVars, flushVars, fileVars, callVars, stop, historyVars,
                 failed_count>>

-----------------------------------------------------------------------------
(* Read connections                                                        *)

\* A read API call runs its SELECT: it pins the state it started from.
ReadBegin ==
  /\ Readers /\ reader = 0
  /\ reader' = Len(log)
  /\ UNCHANGED <<queueVars, flushVars, log, main, callVars, closeVars,
                 historyVars, failed_count>>

ReadEnd ==
  /\ reader # 0
  /\ reader' = 0
  /\ UNCHANGED <<queueVars, flushVars, log, main, callVars, closeVars,
                 historyVars, failed_count>>

\* _prune_on: delete the volume rows that are older than the cutoff, in one
\* transaction.  Which rows are old enough is up to the clock; deleting none
\* also stands for a DELETE that raised and was rolled back.
DeleteOld(old) == log' = IF old = {} THEN log ELSE Append(log, Rows \ old)

\* prune() on the caller's own connection: it needs the write lock, which the
\* writer holds from its first row until the commit.
PruneNow ==
  /\ writer # "write"
  /\ \E old \in SUBSET (Volume \cap Rows) : old # {} /\ DeleteOld(old)
  /\ UNCHANGED <<queueVars, flushVars, main, reader, callVars, closeVars,
                 historyVars, failed_count>>

-----------------------------------------------------------------------------
(* The writer thread                                                       *)

\* connect and apply_schema; an exception ends the thread.
WriterStart ==
  /\ writer = "start"
  /\ writer' \in {"loop", "crashed"}
  /\ UNCHANGED <<queueVars, leaving, batch, pos, attempt, completed, fileVars,
                 callVars, closeVars, historyVars, failed_count>>

\* The first phase of _flush: no transaction is opened for a batch without rows.
FlushPhase(b) ==
  IF \E i \in DOMAIN b : b[i] \in Writes THEN "write" ELSE "backup"

\* get() returned an item: flush when the batch is full.
Take ==
  /\ writer = "loop"
  /\ write_q # <<>> /\ Head(write_q) # Sentinel
  /\ write_q' = Tail(write_q)
  /\ batch' = Append(batch, Head(write_q))
  /\ writer' = IF Len(batch) + 1 >= BatchSize THEN FlushPhase(batch') ELSE "loop"
  /\ UNCHANGED <<dropped_count, requested, accepted, leaving, pos, attempt,
                 completed, fileVars, callVars, closeVars, historyVars,
                 failed_count>>

\* Fault variant: a partial batch waits for more items.
IdleWaits ==
  /\ writer = "loop"
  /\ write_q = <<>> /\ batch # <<>>
  /\ UNCHANGED vars

\* get(timeout=0.1) raised queue.Empty: flush what there is.
Idle ==
  /\ writer = "loop"
  /\ write_q = <<>> /\ batch # <<>>
  /\ writer' = FlushPhase(batch)
  /\ UNCHANGED <<queueVars, leaving, batch, pos, attempt, completed, fileVars,
                 callVars, closeVars, historyVars, failed_count>>

\* Fault variant: the stop flag alone ends the loop.
StopEndsLoop == stop

\* The loop ends at the sentinel, or at its head when the stop flag is set and
\* the queue is empty; what is left of the batch is flushed.
LoopEnds == stop /\ write_q = <<>>

LeaveLoop ==
  /\ writer = "loop"
  /\ \/ LoopEnds /\ write_q' = write_q
     \/ write_q # <<>> /\ Head(write_q) = Sentinel /\ write_q' = Tail(write_q)
  /\ leaving' = TRUE
  /\ writer' = IF batch = <<>> THEN "closed" ELSE FlushPhase(batch)
  /\ UNCHANGED <<dropped_count, requested, accepted, batch, pos, attempt,
                 completed, fileVars, callVars, closeVars, historyVars,
                 failed_count>>

Serves(phase) == CASE phase = "write"  -> Writes
                   [] phase = "backup" -> Backups
                   [] phase = "vacuum" -> Vacuums
                   [] phase = "prune"  -> Prunes

\* The item of the batch that the current phase of _flush works on.
Serving(phase) == writer = phase /\ pos \in DOMAIN batch
                                 /\ batch[pos] \in Serves(phase)

\* An item of another kind: the phase's list does not contain it.
Skip ==
  /\ writer \in Phases
  /\ pos \in DOMAIN batch /\ batch[pos] \notin Serves(writer)
  /\ pos' = pos + 1
  /\ UNCHANGED <<queueVars, writer, leaving, batch, attempt, completed, fileVars,
                 callVars, closeVars, historyVars, failed_count>>

\* _write_item_with_retry: the row is written and its savepoint released.
RowWritten ==
  /\ Serving("write")
  /\ completed' = Append(completed, batch[pos])
  /\ pos' = pos + 1 /\ attempt' = 1
  /\ UNCHANGED <<queueVars, writer, leaving, batch, fileVars, callVars,
                 closeVars, historyVars, failed_count>>

\* A transient error (locked, busy): sleep and try again, MaxRetries times.
RowRetried ==
  /\ Serving("write")
  /\ attempt <= MaxRetries
  /\ attempt' = attempt + 1
  /\ UNCHANGED <<queueVars, writer, leaving, batch, pos, completed, fileVars,
                 callVars, closeVars, historyVars, failed_count>>

\* Fault variant: a failed row is also kept among the completed ones.
RowFailedKept ==
  /\ Serving("write")
  /\ failed_count' = failed_count + 1
  /\ completed' = Append(completed, batch[pos])
  /\ pos' = pos + 1 /\ attempt' = 1
  /\ UNCHANGED <<queueVars, writer, leaving, batch, fileVars, callVars,
                 closeVars, historyVars>>

\* Any other error, or a transient one when the retries are used up: the
\* savepoint is rolled back and _record_failed_item counts the row.
RowFailed ==
  /\ Serving("write")
  /\ failed_count' = failed_count + 1
  /\ pos' = pos + 1 /\ attempt' = 1
  /\ UNCHANGED <<queueVars, writer, leaving, batch, completed, fileVars,
                 callVars, closeVars, historyVars>>

\* The transaction of the batch commits.
Commit ==
  /\ writer = "write" /\ pos > Len(batch)
  /\ log' = IF completed = <<>> THEN log
            ELSE Append(log, Rows \cup Range(completed))
  /\ committed' = committed \o completed
  /\ completed' = <<>>
  /\ writer' = "backup" /\ pos' = 1
  /\ UNCHANGED <<queueVars, leaving, batch, attempt, main, reader, callVars,
                 closeVars, served, failed_count>>

\* Fault variant: the rows of a rolled-back batch are not counted.
CommitFailedUncounted ==
  /\ writer = "write" /\ pos > Len(batch)
  /\ completed' = <<>>
  /\ writer' = "backup" /\ pos' = 1
  /\ UNCHANGED <<queueVars, leaving, batch, attempt, fileVars, callVars,
                 closeVars, historyVars, failed_count>>

\* COMMIT fails: the whole transaction is rolled back and every row that had
\* reported success is recorded as failed.
CommitFailed ==
  /\ writer = "write" /\ pos > Len(batch)
  /\ failed_count' = failed_count + Len(completed)
  /\ completed' = <<>>
  /\ writer' = "backup" /\ pos' = 1
  /\ UNCHANGED <<queueVars, leaving, batch, attempt, fileVars, callVars,
                 closeVars, historyVars>>

\* Fault variant: the main file is copied without a checkpoint.
NoCheckpoint == UNCHANGED main

\* PRAGMA wal_checkpoint(TRUNCATE) copies the log into the main file, but not
\* beyond the state a reader pins; it then reports busy and does not raise.
Checkpoint ==
  main' = IF reader = 0 THEN Len(log)
          ELSE IF reader > main THEN reader ELSE main

\* The done event is set, with a path or with the exception that was raised.
Answer(b, outcome) ==
  caller' = [caller EXCEPT ![b] = IF @ = "waiting" THEN outcome ELSE @]

\* _do_backup: checkpoint, then copy the main file.
RunBackup ==
  /\ Serving("backup")
  /\ Checkpoint
  /\ copy' = [copy EXCEPT ![batch[pos]] = log[main']]
  /\ Answer(batch[pos], "returned")
  /\ served' = Append(served, batch[pos])
  /\ pos' = pos + 1
  /\ UNCHANGED <<queueVars, writer, leaving, batch, attempt, completed, log,
                 reader, closeVars, committed, failed_count>>

\* mkdir, the checkpoint or the copy raises: the exception is the result.
BackupFailed ==
  /\ Serving("backup")
  /\ Checkpoint \/ UNCHANGED main
  /\ Answer(batch[pos], "raised")
  /\ served' = Append(served, batch[pos])
  /\ pos' = pos + 1
  /\ UNCHANGED <<queueVars, writer, leaving, batch, attempt, completed, log,
                 reader, copy, closeVars, committed, failed_count>>

\* Checkpoint and VACUUM; an error in either is logged and the request is over.
RunVacuum ==
  /\ Serving("vacuum")
  /\ Checkpoint \/ UNCHANGED main
  /\ served' = Append(served, batch[pos])
  /\ pos' = pos + 1
  /\ UNCHANGED <<queueVars, writer, leaving, batch, attempt, completed, log,
                 reader, callVars, closeVars, committed, failed_count>>

RunPrune ==
  /\ Serving("prune")
  /\ \E old \in SUBSET (Volume \cap Rows) : DeleteOld(old)
  /\ served' = Append(served, batch[pos])
  /\ pos' = pos + 1
  /\ UNCHANGED <<queueVars, writer, leaving, batch, attempt, completed, main,
                 reader, callVars, closeVars, committed, failed_count>>

\* _flush runs the backups, then the vacuums, then the prunes.
PhaseAfter(phase) == IF phase = "backup" THEN "vacuum" ELSE "prune"

NextPhase ==
  /\ writer \in {"backup", "vacuum"} /\ pos > Len(batch)
  /\ writer' = PhaseAfter(writer) /\ pos' = 1
  /\ UNCHANGED <<queueVars, leaving, batch, attempt, completed, fileVars,
                 callVars, closeVars, historyVars, failed_count>>

\* _flush returns; the caller clears the batch and loops, or closes.
FlushDone ==
  /\ writer = "prune" /\ pos > Len(batch)
  /\ writer' = IF leaving THEN "closed" ELSE "loop"
  /\ batch' = <<>> /\ pos' = 1
  /\ UNCHANGED <<queueVars, leaving, attempt, completed, fileVars, callVars,
                 closeVars, historyVars, failed_count>>

Maintenance == RunBackup \/ BackupFailed \/ RunVacuum \/ RunPrune

Writer ==
  \/ WriterStart \/ Take \/ Idle \/ LeaveLoop
  \/ Skip \/ RowWritten \/ RowRetried \/ RowFailed \/ Commit \/ CommitFailed
  \/ Maintenance \/ NextPhase \/ FlushDone

Next ==
  \/ \E x \in Requests : Save(x)
  \/ \E b \in Backups : BackupCall(b) \/ BackupEnqueue(b) \/ BackupTimeout(b)
  \/ Shutdown \/ PutSentinel \/ Join
  \/ ReadBegin \/ ReadEnd \/ PruneNow
  \/ Writer

Spec == Init /\ [][Next]_vars

\* The writer thread and the thread inside shutdown() keep running; users,
\* readers and timeouts owe nothing.
Fairness == WF_vars(Writer) /\ WF_vars(PutSentinel) /\ WF_vars(Join)
FairSpec == Spec /\ Fairness

-----------------------------------------------------------------------------
(* Properties                                                              *)

TypeOK ==
  /\ write_q \in Seq(Requests \cup {Sentinel}) /\ Len(write_q) <= Capacity
  /\ accepted \in Seq(Requests \cup {Sentinel})
  /\ requested \in SUBSET Requests
  /\ dropped_count \in Nat /\ failed_count \in Nat
  /\ stop \in BOOLEAN /\ leaving \in BOOLEAN
  /\ closer \in {"open", "putting", "joining", "joined", "left"}
  /\ writer \in Phases \cup {"start", "loop", "closed", "crashed"}
  /\ batch \in Seq(Requests) /\ Len(batch) <= BatchSize
  /\ pos \in 1..(Len(batch) + 1)
  /\ attempt \in 1..(MaxRetries + 1)
  /\ completed \in Seq(Writes) /\ committed \in Seq(Writes)
  /\ log \in Seq(SUBSET Writes) /\ main \in 1..Len(log) /\ reader \in 0..Len(log)
  /\ caller \in [Backups -> {"idle", "checked", "waiting", "returned", "raised"}]
  /\ copy \in [Backups -> SUBSET Writes]
  /\ served \in Seq(Backups \cup Prunes \cup Vacuums)

\* The rows of the batch that the flush has not come to yet.
Unwritten ==
  CASE writer = "loop"  -> Range(batch)
    [] writer = "write" -> {batch[i] : i \in pos..Len(batch)}
    [] OTHER            -> {}

\* Accepted rows that are on their way to the database.
Pending == (Range(write_q) \cup Unwritten \cup Range(completed)) \cap Writes

\* Accepted rows that are nowhere any more.
Lost == (Range(accepted) \cap Writes) \ (Pending \cup Range(committed))

Before(x, y) == \E i, j \in DOMAIN accepted :
                  i < j /\ accepted[i] = x /\ accepted[j] = y

(***************************************************************************)
(* health() tells the truth, whatever failed: failed_count is exactly the  *)
(* number of accepted rows that will never reach the database (single rows *)
(* given up by _write_item_with_retry and whole batches undone by a failed *)
(* COMMIT, none counted twice), dropped_count is exactly the number of     *)
(* requests the full queue refused, and no row that is still on its way    *)
(* has already been applied.                                               *)
(***************************************************************************)
Accounted ==
  /\ failed_count = Cardinality(Lost)
  /\ dropped_count = Cardinality(requested \ Range(accepted))
  /\ Pending \cap Range(committed) = {}

(***************************************************************************)
(* Rows are applied in the order in which they were queued and each at     *)
(* most once, across batches, retries, failures and rollbacks: a message's *)
(* status update is never applied before the message.                      *)
(***************************************************************************)
CommitOrder ==
  \A i, j \in DOMAIN committed : i < j => Before(committed[i], committed[j])

(***************************************************************************)
(* backup() "flushes all pending writes": a backup that returned a path    *)
(* holds every row that was queued before it, unless that row failed or    *)
(* has been pruned.                                                        *)
(***************************************************************************)
BackupComplete ==
  \A b \in Backups : caller[b] = "returned" =>
    \A w \in Writes : Before(w, b) => w \in copy[b] \cup Lost \cup (Volume \ Rows)

(***************************************************************************)
(* When the writer thread has ended because of shutdown(), no row that was *)
(* queued before the sentinel is still waiting: whatever stop flag and     *)
(* sentinel race against, each one has been committed or (Accounted)       *)
(* counted as failed.                                                      *)
(***************************************************************************)
ShutdownDrains ==
  writer = "closed" =>
    \A w \in Pending : Before(Sentinel, w)

(***************************************************************************)
(* shutdown() returns.  The one exception is a writer that crashed while   *)
(* applying the schema: nothing empties the queue then, and put(None)      *)
(* blocks once it is full.                                                 *)
(***************************************************************************)
ShutdownEnds ==
  closer = "putting" ~>
    \/ closer \in {"joined", "left"}
    \/ writer = "crashed" /\ Len(write_q) = Capacity

Handled(x) == \/ x \in Range(served) \cup Range(committed) \cup Lost
              \/ Before(Sentinel, x)

(***************************************************************************)
(* Every row and every maintenance request that was queued before the      *)
(* store is closed is dealt with, a batch that never fills up included, as *)
(* long as the writer thread started.                                      *)
(***************************************************************************)
AcceptedIsHandled ==
  \A x \in Requests :
    (x \in Range(accepted) /\ ~stop) ~> (Handled(x) \/ writer = "crashed")

-----------------------------------------------------------------------------
(* Refinement                                                              *)

\* The fate of a row, read off where it is.
RowFate(w) ==
  CASE w \in Range(committed)               -> "durable"
    [] w \in Pending                        -> "pending"
    [] w \in Lost                           -> "failed"
    [] w \in requested \ Range(accepted)    -> "refused"
    [] OTHER                                -> "new"

Journal == INSTANCE WriteJournal
  WITH fate <- [w \in Writes |-> RowFate(w)], failures <- failed_count

(***************************************************************************)
(* The queue, the batches, the savepoints, the retries and the rollbacks   *)
(* together implement the journal: every accepted row is settled at most   *)
(* once, a batch becomes durable at one instant, and a row is given up     *)
(* exactly when it is counted.                                             *)
(***************************************************************************)
ImplementsJournal == Journal!JournalSpec
=============================================================================
