------------------------------ MODULE JobStore ------------------------------
(***************************************************************************)
(* The notification_jobs table, as internal/repository/postgres.go writes  *)
(* it.  A job row is identified by the unique key (target_id,              *)
(* market_provider, symbol, interval, period_start); a slot stands for the *)
(* pair of an interval and one of its periods.  The row's uuid, messages   *)
(* and timestamps are abstracted: only its status is kept.                 *)
(***************************************************************************)

CONSTANTS
  Targets,       (* chat destinations that may be registered               *)
  LegacyTarget,  (* the fixed target id of the chat-less configuration     *)
  Providers,     (* market data providers                                  *)
  Symbols,       (* the configured market symbols                          *)
  Slots          (* an interval together with one period of it             *)

VARIABLE jobs    (* status of the row of every key, "none" if no row       *)

Owners == Targets \cup {LegacyTarget}

JobKeys ==
  [target : Owners, provider : Providers, symbol : Symbols, slot : Slots]

Unsent == {"pending", "failed"}

JobStatus == Unsent \cup {"none", "sent"}

JobsType == jobs \in [JobKeys -> JobStatus]

JobsInit == jobs = [k \in JobKeys |-> "none"]

-----------------------------------------------------------------------------

(* CreateIfNotExists: INSERT ... ON CONFLICT DO NOTHING.  The row that is  *)
(* there afterwards is returned, whoever inserted it.                      *)
CreateIfNotExists(k) ==
  jobs' = [jobs EXCEPT ![k] = IF @ = "none" THEN "pending" ELSE @]

(* A CreateIfNotExists that returns an error: the insert may have been     *)
(* committed (its acknowledgement or the following SELECT failed) or not.  *)
CreateReturnsError(k) ==
  \/ CreateIfNotExists(k)
  \/ UNCHANGED jobs

(* updateStatus: UPDATE ... WHERE id, with no condition on the old status; *)
(* a row that has gone is not recreated.                                   *)
UpdateStatus(k, status) ==
  jobs' = [jobs EXCEPT ![k] = IF @ = "none" THEN @ ELSE status]

MarkSent(k)   == UpdateStatus(k, "sent")
MarkFailed(k) == UpdateStatus(k, "failed")

=============================================================================
