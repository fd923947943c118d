---------------------------- MODULE OutboundCalls ----------------------------
(***************************************************************************)
(* What every outgoing HTTP call of the service shares: the goroutine that *)
(* makes it, the context it was given and the retry settings.  A request   *)
(* to POST /api/v1/alerts/run brings its own context, which ends when the  *)
(* client goes away; a scheduler round uses context.Background().          *)
(***************************************************************************)
EXTENDS Naturals

CONSTANTS
  Callers,      (* goroutines that fetch candles and send messages         *)
  Detached,     (* the rounds among them: nothing cancels their context    *)
  MaxAttempts   (* retry.max_attempts                                      *)

ASSUME OutboundAssumption ==
  /\ Detached \subseteq Callers
  /\ MaxAttempts \in Nat \ {0}

VARIABLE cancelled  (* the callers whose context is done                   *)

Live(c) == c \notin cancelled

(* The client of an API request closes its connection.                     *)
Disconnect(c) ==
  /\ c \notin Detached
  /\ Live(c)
  /\ cancelled' = cancelled \cup {c}

(* The server forgets the request, and its context with it.                *)
Forget(c) == cancelled' = cancelled \ {c}

(* Mutant: one more attempt than configured.                               *)
LastAttemptLate(n) == n > MaxAttempts

(* The attempt made as the n-th was the last one the loop allows.          *)
LastAttempt(n) == n = MaxAttempts

=============================================================================
