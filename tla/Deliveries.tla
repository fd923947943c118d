----------------------------- MODULE Deliveries -----------------------------
(***************************************************************************)
(* How a notifier hands one message to its chat platform: the retry loop   *)
(* that Telegram and the Slack webhook share, the loop of the Slack bot,   *)
(* which also repeats what was refused for good and sleeps without looking *)
(* at its context.  The platform may take a message and fail to say so.    *)
(* With notifications.dry no message leaves the process; that mode is left *)
(* out.                                                                    *)
(***************************************************************************)
EXTENDS OutboundCalls

CONSTANTS
  Channels,   (* the notifiers of the instance                             *)
  BotStyle,   (* the Slack bots among them                                 *)
  NoSend

ASSUME DeliveriesAssumption ==
  /\ BotStyle \subseteq Channels

VARIABLES
  send,     (* the Send each caller is in                                  *)
  copies,   (* history: how often a channel took the message of the run    *)
  silent    (* history: how often it did without the caller learning it    *)

deliveryVars == <<send, copies, silent>>

Sends ==
  [channel : Channels, at : {"post", "sleep", "returned"},
   attempt : 1..MaxAttempts, ok : BOOLEAN]

ASSUME NoSendAssumption == NoSend \notin Sends

DeliveriesTypeOK ==
  /\ send \in [Callers -> Sends \cup {NoSend}]
  /\ copies \in [Callers -> [Channels -> Nat]]
  /\ silent \in [Callers -> [Channels -> Nat]]

DeliveriesInit ==
  /\ send = [c \in Callers |-> NoSend]
  /\ copies = [c \in Callers |-> [n \in Channels |-> 0]]
  /\ silent = [c \in Callers |-> [n \in Channels |-> 0]]

SendAt(c, place) == send[c] # NoSend /\ send[c].at = place

Send(c, n) ==
  /\ send[c] = NoSend
  /\ send' = [send EXCEPT ![c] =
       [channel |-> n, at |-> "post", attempt |-> 1, ok |-> FALSE]]
  /\ UNCHANGED <<copies, silent>>

(* The run is over: nothing is kept of its message.                        *)
ForgetMessage(c) ==
  /\ copies' = [copies EXCEPT ![c] = [n \in Channels |-> 0]]
  /\ silent' = [silent EXCEPT ![c] = [n \in Channels |-> 0]]
  /\ UNCHANGED send

ReturnSend(c, ok) ==
  send' = [send EXCEPT ![c] = [@ EXCEPT !.at = "returned", !.ok = ok]]

(* Mutant: the loop that runs out of attempts returns no error.            *)
TryAgainOrSucceed(c) ==
  IF LastAttempt(send[c].attempt)
  THEN ReturnSend(c, TRUE)
  ELSE send' = [send EXCEPT ![c].at = "sleep"]

(* The backoff, unless this was the last attempt: then its error counts.   *)
TryAgain(c) ==
  IF LastAttempt(send[c].attempt)
  THEN ReturnSend(c, FALSE)
  ELSE send' = [send EXCEPT ![c].at = "sleep"]

Posting(c) == SendAt(c, "post")

Took(c) == copies' = [copies EXCEPT ![c][send[c].channel] = @ + 1]

(* Mutant: the message is posted without the caller's context.             *)
PostTakenAnyway(c) ==
  /\ Posting(c)
  /\ Took(c)
  /\ ReturnSend(c, TRUE)
  /\ UNCHANGED silent

(* Mutant: a success does not end the loop.                                *)
PostTakenAgain(c) ==
  /\ Posting(c) /\ Live(c)
  /\ Took(c)
  /\ IF LastAttempt(send[c].attempt)
     THEN ReturnSend(c, TRUE)
     ELSE send' = [send EXCEPT ![c].at = "sleep"]
  /\ UNCHANGED silent

(* Status 2xx (and "ok" in the body, for the bot).                         *)
PostTaken(c) ==
  /\ Posting(c) /\ Live(c)
  /\ Took(c)
  /\ ReturnSend(c, TRUE)
  /\ UNCHANGED silent

(* The message is taken, but the answer is lost, unreadable or an error.   *)
PostTakenSilently(c) ==
  /\ Posting(c) /\ Live(c)
  /\ Took(c)
  /\ silent' = [silent EXCEPT ![c][send[c].channel] = @ + 1]
  /\ TryAgain(c)

(* It is not taken; with a context that is done there is no other outcome. *)
PostFails(c) ==
  /\ Posting(c)
  /\ TryAgain(c)
  /\ UNCHANGED <<copies, silent>>

(* A 4xx status other than 429: the bot repeats even that.                 *)
PostRefused(c) ==
  /\ Posting(c) /\ Live(c)
  /\ send[c].channel \notin BotStyle
  /\ ReturnSend(c, FALSE)
  /\ UNCHANGED <<copies, silent>>

WakeSend(c) ==
  /\ SendAt(c, "sleep")
  /\ send' = [send EXCEPT ![c] =
       [@ EXCEPT !.at = "post", !.attempt = send[c].attempt + 1]]
  /\ UNCHANGED <<copies, silent>>

GiveUpSend(c) ==
  /\ SendAt(c, "sleep")
  /\ ~Live(c) /\ send[c].channel \notin BotStyle
  /\ ReturnSend(c, FALSE)
  /\ UNCHANGED <<copies, silent>>

DeliveryStep(c) ==
  \/ PostTaken(c) \/ PostTakenSilently(c)
  \/ PostFails(c) \/ PostRefused(c)
  \/ WakeSend(c) \/ GiveUpSend(c)

-----------------------------------------------------------------------------
(* Properties                                                              *)

(* A chat shows a message twice only if the platform kept silent about the *)
(* first copy, and never more often than retry.max_attempts: no other path *)
(* through the retry loops posts what was taken before.                    *)
CopiesExplained ==
  \A c \in Callers : \A n \in Channels :
    /\ copies[c][n] <= silent[c][n] + 1
    /\ copies[c][n] <= MaxAttempts

=============================================================================
