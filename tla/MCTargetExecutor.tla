-------------------------- MODULE MCTargetExecutor --------------------------
(* Small instances of TargetExecutor for TLC.                              *)
EXTENDS TargetExecutor, TLC

CONSTANTS
  t1, t2, legacy,     (* owners                                            *)
  p1, p2,             (* providers                                         *)
  s1, s2,             (* symbols                                           *)
  hourly, quarterly,  (* intervals                                         *)
  h0, q0,             (* an hour that ends together with its last quarter  *)
  telegram, slack     (* channels                                          *)

MCIntervalOf == [s \in Slots |-> IF s = h0 THEN hourly ELSE quarterly]

MCBoundaries == {Slots}

(* every symbol on the enabled provider                                    *)
AllSupported == EnabledProviders \X Symbols \X Intervals

(* s2 is missing from p2's symbol mapping                                  *)
PartlySupported == AllSupported \ ({p2} \X {s2} \X Intervals)

(* telegram serves t1, slack serves t2, the legacy job uses both           *)
TwoChannels ==
  [n \in Notifiers |-> IF n = telegram THEN {t1, legacy} ELSE {t2, legacy}]

(* a single channel that serves everyone                                   *)
OneChannel == [n \in Notifiers |-> Owners]

(* only one chat provider is configured; t2 belongs to the other           *)
OnlyTelegram == [n \in Notifiers |-> {t1, legacy}]

RunSymmetry == Permutations(Runs)

=============================================================================
