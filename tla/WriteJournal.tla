---------------------------- MODULE WriteJournal ----------------------------
(***************************************************************************)
(* What MonitorStore promises its callers, without a queue, batches,       *)
(* transactions or threads: a row that was accepted stays pending until it *)
(* is settled, once and for good; rows settle either durably, several at   *)
(* one instant, or as counted failures.  A settled row never changes its   *)
(* fate.                                                                   *)
(***************************************************************************)
EXTENDS Integers, FiniteSets

CONSTANT Writes

VARIABLES
  fate,      \* what has become of each row
  failures   \* how many rows the health report calls failed

journalVars == <<fate, failures>>

Fates == {"new", "pending", "durable", "failed", "refused"}

JournalInit == fate = [w \in Writes |-> "new"] /\ failures = 0

Having(f) == {w \in Writes : fate[w] = f}

Settle(S, f) == fate' = [w \in Writes |-> IF w \in S THEN f ELSE fate[w]]

\* One call of the write API: the row is queued or refused at once.
Submit(w) ==
  /\ fate[w] = "new"
  /\ \E f \in {"pending", "refused"} : Settle({w}, f)
  /\ UNCHANGED failures

\* A transaction makes some pending rows durable, all at the same instant.
MakeDurable(S) ==
  /\ S \subseteq Having("pending")
  /\ Settle(S, "durable")
  /\ UNCHANGED failures

\* Pending rows are given up, and every one of them is counted.
GiveUp(S) ==
  /\ S \subseteq Having("pending")
  /\ Settle(S, "failed")
  /\ failures' = failures + Cardinality(S)

JournalNext ==
  \/ \E w \in Writes : Submit(w)
  \/ \E S \in SUBSET Writes : MakeDurable(S) \/ GiveUp(S)

JournalSpec == JournalInit /\ [][JournalNext]_journalVars
=============================================================================
