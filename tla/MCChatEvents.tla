---------------------------- MODULE MCChatEvents ----------------------------
(* Small instances of ChatEvents for TLC.                                  *)
EXTENDS ChatEvents, TLC

CONSTANTS
  configure, claim,  (* two Telegram commands that open a session          *)
  save,              (* a Telegram button                                  *)
  trigger,           (* a Slack command                                    *)
  edit,              (* an edited Telegram message                         *)
  u1, u2             (* the chats' members                                 *)

(* u2 sends one of the commands, u1 everything else.                       *)
MCSender == [e \in Events |-> IF e = claim THEN u2 ELSE u1]

HandlerSymmetry == Permutations(Handlers)

=============================================================================
