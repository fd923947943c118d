-------------------------- MODULE MCConfigSessions --------------------------
(* Small instances of ConfigSessions for TLC.                              *)
EXTENDS ConfigSessions, TLC

CONSTANTS p1, p2, s1, s2, l1, i1  (* providers, symbols, an interval       *)

(* l1 is what p1 calls s1; no configuration lists it any more.             *)
MCListing == {<<p1, s1, l1>>}

MCSupported == EnabledProviders \X {s1, s2} \X Intervals

(* One under the old name that runs, one where both names were chosen, and *)
(* a paused one on p2.                                                     *)
MCEarlier ==
  {[version |-> 0, enabled |-> x[1], provider |-> x[2], symbols |-> x[3],
    intervals |-> Intervals]
     : x \in {<<TRUE, p1, {l1, s2}>>, <<TRUE, p1, {s1, l1}>>,
              <<FALSE, p2, {l1}>>}}

RequestSymmetry ==
  {f @@ g : f \in Permutations(Requests), g \in Permutations(SessionIds)}

=============================================================================
