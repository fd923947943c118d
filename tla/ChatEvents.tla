----------------------------- MODULE ChatEvents -----------------------------
(***************************************************************************)
(* What the step "process" of InboundEvents consists of in the two chat    *)
(* adapters: a command looks up the chat's creator on the platform and     *)
(* finds or creates the alert target of the chat; a button reads the       *)
(* target and asks the platform for the creator again; then the command    *)
(* service runs the command, with the target that was found.               *)
(*                                                                         *)
(* There is one chat per platform, so an event names its chat.  The        *)
(* platform may give a chat another creator at any time.  A session is     *)
(* known by its target and its actor; its contents, and what a command     *)
(* does to the configuration, are ConfigSessions' subject.  The command    *)
(* "test", which needs the creator and changes nothing, is left out.       *)
(***************************************************************************)
EXTENDS InboundEvents

CONSTANTS
  Users,
  Sender,       (* who sent each event                                     *)
  Buttons,      (* the events that save a session                          *)
  Configuring,  (* the commands that open one                              *)
  ReadOnly,     (* help, show, and commands that cannot be parsed          *)
  NoUser,
  NoTarget,
  MaxTransfers  (* bound: changes of a chat's creator                      *)

Commands == Events \ (Buttons \cup Ignored)

ASSUME ChatAssumption ==
  /\ Sender \in [Events -> Users] /\ NoUser \notin Users
  /\ NoTarget \notin [id : Events, creator : Users]
  /\ Buttons \subseteq Events \ Ignored
  /\ Configuring \subseteq Commands /\ ReadOnly \subseteq Commands
  /\ Configuring \cap ReadOnly = {}
  /\ MaxTransfers \in Nat

VARIABLES
  owner,      (* the creator each platform names                           *)
  transfers,  (* changes of it so far                                      *)
  targets,    (* the row of each chat in alert_targets                     *)
  sessions,   (* the open sessions                                         *)
  stage,      (* where in "process" each handler is                        *)
  creator,    (* the creator it was told                                   *)
  found,      (* the target it works with                                  *)
  done        (* history: the events whose change was made                 *)

platformVars == <<owner, transfers>>
stageVars == <<stage, creator, found>>
chatVars == <<platformVars, targets, sessions, stageVars, done>>

Chats == {"telegram", "slack"}
ChatOf(e) == IF e \in SlackEvents THEN "slack" ELSE "telegram"

(* A row is known by the event whose handler made its identifier up.       *)
Rows == [id : Events, creator : Users]

ChatTypeOK ==
  /\ TypeOK
  /\ owner \in [Chats -> Users] /\ transfers \in 0..MaxTransfers
  /\ targets \in [Chats -> Rows \cup {NoTarget}]
  /\ sessions \subseteq [target : Events, actor : Users]
  /\ stage \in [Handlers -> {"none", "lookup", "insert", "select",
                             "get", "check", "run"}]
  /\ creator \in [Handlers -> Users \cup {NoUser}]
  /\ found \in [Handlers -> Rows \cup {NoTarget}]
  /\ done \subseteq Events \ (Ignored \cup ReadOnly)
  /\ \A h \in Handlers : stage[h] # "none" => pc[h] = "process"

ChatInit ==
  /\ Init
  /\ owner \in [Chats -> Users] /\ transfers = 0
  /\ targets = [c \in Chats |-> NoTarget]
  /\ sessions = {}
  /\ stage = [h \in Handlers |-> "none"]
  /\ creator = [h \in Handlers |-> NoUser]
  /\ found = [h \in Handlers |-> NoTarget]
  /\ done = {}

Chat(h) == ChatOf(event[h])
OnSlack(h) == event[h] \in SlackEvents

-----------------------------------------------------------------------------
(* The event's way into and out of "process"                               *)

FirstStage(e) ==
  IF e \in Ignored THEN "none" ELSE IF e \in Buttons THEN "get" ELSE "lookup"

Begin(h) ==
  /\ Claim(h)
  /\ stage' = [stage EXCEPT ![h] = FirstStage(event[h])]
  /\ UNCHANGED <<platformVars, targets, sessions, creator, found, done>>

Forget(h) ==
  /\ stage' = [stage EXCEPT ![h] = "none"]
  /\ creator' = [creator EXCEPT ![h] = NoUser]
  /\ found' = [found EXCEPT ![h] = NoTarget]

(* Mutant: Slack's adapter returns the error as Telegram's does.           *)
ReturnErrorAlways(h) ==
  /\ pc[h] = "process"
  /\ runs' = [runs EXCEPT ![event[h]] = @ + 1]
  /\ Goto(h, "mark")
  /\ UNCHANGED <<inbox, event, outcome, counters, answered, acked>>
  /\ Forget(h)

(* An error before the command: Telegram's adapter returns it, Slack's     *)
(* tells the chat that the request could not be completed.                 *)
ReturnError(h) ==
  /\ IF OnSlack(h) THEN Process(h) ELSE ProcessFails(h)
  /\ Forget(h)

(* An error there that changes nothing.                                    *)
GiveUp(h) ==
  /\ stage[h] \in {"lookup", "insert", "select", "get", "check"}
  /\ ReturnError(h)
  /\ UNCHANGED <<platformVars, targets, sessions, done>>

Proceed(h, to) ==
  /\ stage' = [stage EXCEPT ![h] = to]
  /\ UNCHANGED <<vars, platformVars, sessions, done>>

-----------------------------------------------------------------------------
(* targetForChat, targetForChannel                                         *)

(* GetChatAdministrators or GetChannelInfo names the creator.  That it     *)
(* names nobody is one of the errors of GiveUp.                            *)
LookUpCreator(h) ==
  /\ stage[h] = "lookup"
  /\ creator' = [creator EXCEPT ![h] = owner[Chat(h)]]
  /\ Proceed(h, "insert")
  /\ UNCHANGED <<targets, found>>

(* INSERT ... ON CONFLICT DO NOTHING                                       *)
InsertTarget(h) ==
  targets' = [targets EXCEPT ![Chat(h)] =
                IF @ = NoTarget
                THEN [id |-> event[h], creator |-> creator[h]] ELSE @]

CreateTarget(h) ==
  /\ stage[h] = "insert"
  /\ InsertTarget(h)
  /\ Proceed(h, "select")
  /\ UNCHANGED <<creator, found>>

(* The row is there, the answer is lost.                                   *)
CreateTargetLost(h) ==
  /\ stage[h] = "insert"
  /\ InsertTarget(h)
  /\ ReturnError(h)
  /\ UNCHANGED <<platformVars, sessions, done>>

(* Mutant: the row that was to be inserted is returned.                    *)
SelectOwnTarget(h) ==
  /\ stage[h] = "select"
  /\ found' = [found EXCEPT ![h] = [id |-> event[h], creator |-> creator[h]]]
  /\ Proceed(h, "run")
  /\ UNCHANGED <<targets, creator>>

(* Whoever inserted it, the chat's row is read.                            *)
SelectTarget(h) ==
  /\ stage[h] = "select"
  /\ found' = [found EXCEPT ![h] = targets[Chat(h)]]
  /\ Proceed(h, "run")
  /\ UNCHANGED <<targets, creator>>

-----------------------------------------------------------------------------
(* processCallback, processInteraction                                     *)

GetTarget(h) ==
  /\ stage[h] = "get"
  /\ targets[Chat(h)] # NoTarget
  /\ found' = [found EXCEPT ![h] = targets[Chat(h)]]
  /\ Proceed(h, "check")
  /\ UNCHANGED <<targets, creator>>

(* Only the creator of this moment may press a button.                     *)
CheckCreator(h) ==
  /\ stage[h] = "check"
  /\ owner[Chat(h)] = Sender[event[h]]
  /\ Proceed(h, "run")
  /\ UNCHANGED <<targets, creator, found>>

-----------------------------------------------------------------------------
(* commands.Handle                                                         *)

Session(h) == [target |-> found[h].id, actor |-> Sender[event[h]]]

(* CreatorAuthorizer, and the session a button belongs to                  *)
Permitted(h) ==
  /\ event[h] \notin ReadOnly => Sender[event[h]] = found[h].creator
  /\ event[h] \in Buttons => Session(h) \in sessions

Change(h) ==
  /\ Permitted(h)
  /\ sessions' = CASE event[h] \in Configuring -> sessions \cup {Session(h)}
                   [] event[h] \in Buttons -> sessions \ {Session(h)}
                   [] OTHER -> sessions
  /\ done' = IF event[h] \in ReadOnly THEN done ELSE done \cup {event[h]}

RunCommand(h) ==
  /\ stage[h] = "run"
  /\ Change(h)
  /\ Process(h)
  /\ Forget(h)
  /\ UNCHANGED <<platformVars, targets>>

(* Mutant: a button's error is told in the chat, like a command's.         *)
RunRefusedAnswered(h) ==
  /\ stage[h] = "run"
  /\ Process(h)
  /\ Forget(h)
  /\ UNCHANGED <<platformVars, targets, sessions, done>>

(* Handle returns an error, of the actor, the session, the version or the  *)
(* database.  Telegram's buttons return it, all others tell the chat.      *)
RunRefused(h) ==
  /\ stage[h] = "run"
  /\ IF event[h] \in Buttons THEN ReturnError(h) ELSE Process(h) /\ Forget(h)
  /\ UNCHANGED <<platformVars, targets, sessions, done>>

(* The change is made and an error follows all the same: the commit's      *)
(* answer is lost, or the session is gone when it is deleted or, by        *)
(* configure, read again.                                                  *)
RunBroken(h) ==
  /\ stage[h] = "run"
  /\ event[h] \in Buttons \cup Configuring
  /\ Change(h)
  /\ ReturnError(h)
  /\ UNCHANGED <<platformVars, targets>>

-----------------------------------------------------------------------------
(* The platform, and the store of the sessions                             *)

Transfer(c, u) ==
  /\ transfers < MaxTransfers /\ u # owner[c]
  /\ owner' = [owner EXCEPT ![c] = u]
  /\ transfers' = transfers + 1
  /\ UNCHANGED <<vars, targets, sessions, stageVars, done>>

(* Fifteen minutes are over, or the session was cancelled.                 *)
Expire(s) ==
  /\ s \in sessions
  /\ sessions' = sessions \ {s}
  /\ UNCHANGED <<vars, platformVars, targets, stageVars, done>>

ChatCrash ==
  /\ Crash
  /\ sessions' = {}
  /\ stage' = [h \in Handlers |-> "none"]
  /\ creator' = [h \in Handlers |-> NoUser]
  /\ found' = [h \in Handlers |-> NoTarget]
  /\ UNCHANGED <<platformVars, targets, done>>

ChatNext ==
  \/ \E h \in Handlers :
       \/ /\ \/ \E e \in Events \cup {Malformed} : Deliver(h, e)
             \/ ClaimConflict(h) \/ ClaimFails(h)
             \/ ProcessNothing(h) \/ Reply(h) \/ Mark(h)
          /\ UNCHANGED chatVars
       \/ Begin(h) \/ GiveUp(h)
       \/ LookUpCreator(h) \/ CreateTarget(h) \/ CreateTargetLost(h)
       \/ SelectTarget(h) \/ GetTarget(h) \/ CheckCreator(h)
       \/ RunCommand(h) \/ RunRefused(h) \/ RunBroken(h)
  \/ \E c \in Chats, u \in Users : Transfer(c, u)
  \/ \E s \in sessions : Expire(s)
  \/ ChatCrash
  \/ AllServed /\ UNCHANGED chatVars

ChatSpec == ChatInit /\ [][ChatNext]_<<vars, chatVars>>

-----------------------------------------------------------------------------
(* Properties                                                              *)

(* However many first commands of a chat race, with whichever creators the *)
(* platform named to them, everybody works with the chat's one row, and    *)
(* every change ever made was its creator's.                               *)
OneTargetPerChat ==
  /\ \A h \in Handlers : found[h] # NoTarget => found[h] = targets[Chat(h)]
  /\ \A e \in done :
       /\ targets[ChatOf(e)] # NoTarget
       /\ targets[ChatOf(e)].creator = Sender[e]

(* A Telegram button that is recorded as processed has saved, whatever was *)
(* lost, retried or expired on the way; nothing is saved for an event that *)
(* is not recorded at all.  (A button recorded as failed may have saved.)  *)
ButtonsAsRecorded ==
  \A e \in Events :
    /\ e \in Buttons \ SlackEvents /\ inbox[e] = "processed" => e \in done
    /\ inbox[e] = "none" => e \notin done

(* All that an adapter does with an event, it does within the life of the  *)
(* event that InboundEvents describes.                                     *)
ImplementsEvents == Spec

-----------------------------------------------------------------------------
(* The inductive invariant                                                 *)

(* What is known at each place in "process": a creator before the insert,  *)
(* a row after it, and after the reads the row the command runs with.      *)
StageOf(h) ==
  /\ stage[h] # "none" => event[h] \in Events \ Ignored
  /\ stage[h] = "insert" => creator[h] \in Users
  /\ stage[h] = "select" => targets[Chat(h)] # NoTarget
  /\ found[h] # NoTarget <=> stage[h] \in {"check", "run"}

StageInv == \A h \in Handlers : StageOf(h)

(* A Telegram button whose handler is going to report success has saved.   *)
SavedInv ==
  \A h \in Handlers :
    /\ event[h] \in Buttons \ SlackEvents
    /\ \/ pc[h] = "reply"
       \/ pc[h] = "mark" /\ outcome[h] = "processed"
    => event[h] \in done

ChatIInv ==
  /\ IInv
  /\ ChatTypeOK
  /\ StageInv
  /\ OneTargetPerChat
  /\ SavedInv
  /\ ButtonsAsRecorded
=============================================================================
