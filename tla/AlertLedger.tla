----------------------------- MODULE AlertLedger -----------------------------
(***************************************************************************)
(* What the scheduler promises about one period's alerts, without the      *)
(* goroutines, the mutex, the phases or the configurations: every job is   *)
(* recorded, posted to channels while it is unsent, and settled as sent    *)
(* only when every channel that serves its target has accepted it.         *)
(***************************************************************************)
EXTENDS Naturals

CONSTANTS
  JobKeys,   (* the jobs                                                   *)
  Channels,  (* the notification channels                                  *)
  Serves     (* Serves[n]: the jobs that channel n delivers                *)

VARIABLES
  jobs,      (* status of every job                                        *)
  delivered  (* how often each channel accepted each job                   *)

Unsettled == {"pending", "failed"}

Init ==
  /\ jobs = [k \in JobKeys |-> "none"]
  /\ delivered = [n \in Channels |-> [k \in JobKeys |-> 0]]

Record(k) ==
  /\ jobs[k] = "none"
  /\ jobs' = [jobs EXCEPT ![k] = "pending"]
  /\ UNCHANGED delivered

(* One message carries the lines of several unsent jobs to a channel.      *)
Post(n, S) ==
  /\ \A k \in S : k \in Serves[n] /\ jobs[k] \in Unsettled
  /\ delivered' = [delivered EXCEPT ![n] =
                     [k \in JobKeys |-> IF k \in S THEN @[k] + 1 ELSE @[k]]]
  /\ UNCHANGED jobs

Fail(k) ==
  /\ jobs[k] \in Unsettled
  /\ jobs' = [jobs EXCEPT ![k] = "failed"]
  /\ UNCHANGED delivered

Settle(k) ==
  /\ jobs[k] \in Unsettled
  /\ \A n \in Channels : k \in Serves[n] => delivered[n][k] > 0
  /\ jobs' = [jobs EXCEPT ![k] = "sent"]
  /\ UNCHANGED delivered

Next ==
  \/ \E k \in JobKeys : Record(k) \/ Fail(k) \/ Settle(k)
  \/ \E n \in Channels, S \in SUBSET JobKeys : Post(n, S)

Spec == Init /\ [][Next]_<<jobs, delivered>>

==============================================================================
