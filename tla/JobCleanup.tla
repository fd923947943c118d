----------------------------- MODULE JobCleanup -----------------------------
(***************************************************************************)
(* NotificationJobCleanupScheduler: the nightly run that deletes the       *)
(* notification_jobs rows not updated for the retention time, in batches,  *)
(* while the executor goes on inserting and updating rows.                 *)
(*                                                                         *)
(* SkipIfStillRunning keeps the runs of one process apart, so each process *)
(* is one of Cleaners; two of them share the database when a new version   *)
(* of the service starts before the old one has gone.  A batch is one      *)
(* DELETE whose subquery picks the candidates; the database reads a        *)
(* snapshot for it and looks at a row again, with the outer condition,     *)
(* when somebody has changed it since.                                     *)
(***************************************************************************)
EXTENDS Integers, FiniteSets

CONSTANTS
  Rows,       (* the keys of notification_jobs                             *)
  Cleaners,   (* the processes that run the cleanup                        *)
  BatchSize,  (* notificationJobCleanupBatchSize                           *)
  Retention,  (* database.notification_jobs_retention                      *)
  WriteDelay, (* how late a write may reach the database                   *)
  Horizon     (* bound: the last moment of the instance                    *)

ASSUME ConstantsAssumption ==
  /\ IsFiniteSet(Rows)
  /\ BatchSize \in Nat \ {0}
  /\ Retention \in Nat \ {0}
  /\ WriteDelay \in 0 .. Retention
  /\ Horizon \in Nat

Gone == -1

VARIABLES
  now,      (* the clock                                                   *)
  updated,  (* updated_at of every row, Gone if there is no row            *)
  pc,       (* where each cleaner is, or how its last run ended            *)
  cutoff,   (* the cutoff of its run                                       *)
  batch,    (* the candidates the database has picked for its DELETE       *)
  quiet     (* history: nobody touched an old row since its run began      *)

vars == <<now, updated, pc, cutoff, batch, quiet>>

Ended == {"clean", "failed"}

TypeOK ==
  /\ now \in Nat
  /\ updated \in [Rows -> Nat \cup {Gone}]
  /\ pc \in [Cleaners -> {"select", "delete"} \cup Ended]
  /\ cutoff \in [Cleaners -> Int]
  /\ batch \in [Cleaners -> SUBSET Rows]
  /\ quiet \in [Cleaners -> BOOLEAN]
  /\ \A x \in Rows : updated[x] <= now
  /\ \A c \in Cleaners : cutoff[c] <= now - Retention

(* Nothing has been cleaned up yet.                                        *)
Init ==
  /\ now = 0
  /\ updated \in [Rows -> {0, Gone}]
  /\ pc = [c \in Cleaners |-> "failed"]
  /\ cutoff = [c \in Cleaners |-> now - Retention]
  /\ batch = [c \in Cleaners |-> {}]
  /\ quiet = [c \in Cleaners |-> FALSE]

Stale(x, limit) == updated[x] # Gone /\ updated[x] < limit

StaleRows(limit) == {x \in Rows : Stale(x, limit)}

Running(c) == pc[c] \notin Ended

-----------------------------------------------------------------------------

Pass ==
  /\ now < Horizon
  /\ now' = now + 1
  /\ UNCHANGED <<updated, pc, cutoff, batch, quiet>>

(* CreateIfNotExists inserts a row, or MarkSent and MarkFailed update one. *)
(* updated_at is the service's time from before it called the database.    *)
Write(x) ==
  /\ \E t \in 0 .. now : /\ t >= now - WriteDelay
                         /\ updated' = [updated EXCEPT ![x] = t]
  /\ quiet' = [c \in Cleaners |-> quiet[c] /\ ~Stale(x, cutoff[c])]
  /\ UNCHANGED <<now, pc, cutoff, batch>>

(* Mutant: the retention is added.                                         *)
StartRunAdding(c) ==
  /\ ~Running(c)
  /\ pc' = [pc EXCEPT ![c] = "select"]
  /\ cutoff' = [cutoff EXCEPT ![c] = now + Retention]
  /\ quiet' = [quiet EXCEPT ![c] = TRUE]
  /\ UNCHANGED <<now, updated, batch>>

(* Midnight: the cutoff is computed once for the whole run.                *)
StartRun(c) ==
  /\ ~Running(c)
  /\ pc' = [pc EXCEPT ![c] = "select"]
  /\ cutoff' = [cutoff EXCEPT ![c] = now - Retention]
  /\ quiet' = [quiet EXCEPT ![c] = TRUE]
  /\ UNCHANGED <<now, updated, batch>>

(* The subquery: at most BatchSize rows older than the cutoff, the oldest  *)
(* first.                                                                  *)
Candidates(limit) ==
  {S \in SUBSET StaleRows(limit) :
     /\ Cardinality(S) <= BatchSize
     /\ Cardinality(S) < BatchSize => S = StaleRows(limit)
     /\ \A x \in S, y \in StaleRows(limit) \ S : updated[x] <= updated[y]}

Select(c) ==
  /\ pc[c] = "select"
  /\ \E S \in Candidates(cutoff[c]) : batch' = [batch EXCEPT ![c] = S]
  /\ pc' = [pc EXCEPT ![c] = "delete"]
  /\ UNCHANGED <<now, updated, cutoff, quiet>>

(* The rows of D disappear, which the other cleaners may notice.           *)
Remove(c, D) ==
  /\ updated' = [x \in Rows |-> IF x \in D THEN Gone ELSE updated[x]]
  /\ quiet' = [b \in Cleaners |->
                 quiet[b] /\ (b = c \/ D \cap StaleRows(cutoff[b]) = {})]

(* Mutant: the DELETE relies on the subquery's condition alone.            *)
HitsOfBatch(c) == {x \in batch[c] : updated[x] # Gone}

(* What the DELETE still finds of its candidates.                          *)
Hits(c) == {x \in batch[c] : Stale(x, cutoff[c])}

(* Mutant: a batch of exactly the limit ends the run.                      *)
DeleteStopsFull(c) ==
  LET D == Hits(c)
  IN /\ pc[c] = "delete"
     /\ Remove(c, D)
     /\ pc' = [pc EXCEPT ![c] =
                 IF Cardinality(D) <= BatchSize THEN "clean" ELSE "select"]
     /\ batch' = [batch EXCEPT ![c] = {}]
     /\ UNCHANGED <<now, cutoff>>

(* A batch that deleted fewer rows than the limit ends the run.            *)
Delete(c) ==
  LET D == Hits(c)
  IN /\ pc[c] = "delete"
     /\ Remove(c, D)
     /\ pc' = [pc EXCEPT ![c] =
                 IF Cardinality(D) < BatchSize THEN "clean" ELSE "select"]
     /\ batch' = [batch EXCEPT ![c] = {}]
     /\ UNCHANGED <<now, cutoff>>

(* Mutant: the loop goes on after an error.                                *)
DeleteFailsRetrying(c) ==
  /\ Running(c)
  /\ \/ UNCHANGED <<updated, quiet>>
     \/ pc[c] = "delete" /\ Remove(c, Hits(c))
  /\ pc' = [pc EXCEPT ![c] = "select"]
  /\ batch' = [batch EXCEPT ![c] = {}]
  /\ UNCHANGED <<now, cutoff>>

(* The database fails, or the process dies; the DELETE may have taken      *)
(* effect all the same.                                                    *)
DeleteFails(c) ==
  /\ Running(c)
  /\ \/ UNCHANGED <<updated, quiet>>
     \/ pc[c] = "delete" /\ Remove(c, Hits(c))
  /\ pc' = [pc EXCEPT ![c] = "failed"]
  /\ batch' = [batch EXCEPT ![c] = {}]
  /\ UNCHANGED <<now, cutoff>>

Next ==
  \/ Pass
  \/ \E x \in Rows : Write(x)
  \/ \E c \in Cleaners :
       StartRun(c) \/ Select(c) \/ Delete(c) \/ DeleteFails(c)

(* The database answers every statement, so a run that has begun goes on;  *)
(* midnights, writes and failures need not happen.                         *)
Fairness ==
  \A c \in Cleaners : WF_vars(Select(c) \/ Delete(c) \/ DeleteFails(c))

Spec == Init /\ [][Next]_vars
FairSpec == Spec /\ Fairness

-----------------------------------------------------------------------------
(* Properties                                                              *)

(* Only rows that nobody has updated for the retention time are deleted,   *)
(* even if the executor updates a row after it was picked for the batch    *)
(* and two cleaners work on the same rows.                                 *)
OnlyStaleDeleted ==
  [][\A x \in Rows :
       updated[x] # Gone /\ updated'[x] = Gone =>
         updated[x] < now - Retention]_vars

(* A run that ends without an error, and during which nobody else touched  *)
(* a row older than its cutoff, leaves no such row, however many batches   *)
(* it takes.                                                               *)
QuietRunSweepsAll ==
  \A c \in Cleaners :
    pc[c] = "clean" /\ quiet[c] => StaleRows(cutoff[c]) = {}

(* A run ends, although rows are inserted and updated all the time.        *)
RunEnds == \A c \in Cleaners : Running(c) ~> ~Running(c)

-----------------------------------------------------------------------------
(* The inductive invariant: while nobody interferes, every candidate is    *)
(* still there to be deleted.                                              *)
BatchInv ==
  \A c \in Cleaners :
    pc[c] = "delete" /\ quiet[c] => batch[c] \in Candidates(cutoff[c])

IInv == TypeOK /\ BatchInv /\ QuietRunSweepsAll

=============================================================================
