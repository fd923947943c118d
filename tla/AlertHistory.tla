---------------------------- MODULE AlertHistory ----------------------------
(***************************************************************************)
(* What the database promises over any number of releases, boots, kills    *)
(* and shutdowns: whatever was announced or configured stays so, a round   *)
(* in progress announces one more alert, and a request in hand gives a     *)
(* chat its configuration.                                                 *)
(***************************************************************************)

CONSTANTS
  Alerts,
  AlertTargets

VARIABLES
  announced,    (* the alerts that have a job                              *)
  configured,   (* the targets that have a configuration                   *)
  announcing,   (* a round is in progress                                  *)
  handling      (* a request is in hand                                    *)

history == <<announced, configured, announcing, handling>>

Init ==
  /\ announced \subseteq Alerts /\ configured \subseteq AlertTargets
  /\ announcing = FALSE /\ handling = FALSE

(* Rounds and requests begin and end, the process starts and dies.         *)
Turn ==
  /\ announcing' \in BOOLEAN /\ handling' \in BOOLEAN
  /\ UNCHANGED <<announced, configured>>

Announce(a) ==
  /\ announcing
  /\ announced' = announced \cup {a}
  /\ UNCHANGED <<configured, announcing, handling>>

Configure(c) ==
  /\ handling
  /\ c \notin configured
  /\ configured' = configured \cup {c}
  /\ UNCHANGED <<announced, announcing, handling>>

Next ==
  \/ Turn
  \/ \E a \in Alerts : Announce(a)
  \/ \E c \in AlertTargets : Configure(c)

Spec == Init /\ [][Next]_history

=============================================================================
