--------------------------- MODULE MCInboundEvents ---------------------------
(* Small instances of InboundEvents for TLC.                               *)
EXTENDS InboundEvents, TLC

CONSTANTS update, trigger, edit  (* a Telegram command, a Slack trigger id *)
                                 (* and an edited Telegram message         *)

HandlerSymmetry == Permutations(Handlers)

=============================================================================
