---------------------------- MODULE InboundEvents ----------------------------
(***************************************************************************)
(* How the Telegram and Slack webhooks take in an event: it is claimed by  *)
(* inserting its row into inbound_events, processed, answered in the chat  *)
(* and marked processed or failed.  Telegram's handler acknowledges the    *)
(* request at the end; Slack's acknowledges after the claim and leaves the *)
(* rest to a goroutine.  A provider may deliver an event again, whether or *)
(* not it has seen the acknowledgement.                                    *)
(*                                                                         *)
(* What a command does to configurations and sessions is ConfigSessions'   *)
(* subject; here it only counts that the command was run.                  *)
(***************************************************************************)
EXTENDS Naturals

CONSTANTS
  Events,         (* the external ids of updates and interactions          *)
  SlackEvents,    (* those that come from Slack                            *)
  Ignored,        (* updates that are neither a message nor a button       *)
  Malformed,      (* an update without an id                               *)
  Handlers,       (* the goroutines that serve webhook requests            *)
  NoEvent,
  MaxDeliveries,  (* bound: requests received                              *)
  MaxCrashes      (* bound: process crashes                                *)

ASSUME ConstantsAssumption ==
  /\ SlackEvents \subseteq Events
  /\ Ignored \subseteq Events \ SlackEvents
  /\ Malformed \notin Events
  /\ NoEvent \notin Events \cup {Malformed}
  /\ MaxDeliveries \in Nat /\ MaxCrashes \in Nat

VARIABLES
  inbox,       (* status of every event's row, "none" if there is no row   *)
  pc,          (* where each handler is                                    *)
  event,       (* the event it serves                                      *)
  outcome,     (* how it is going to mark it                               *)
  deliveries,  (* requests so far                                          *)
  crashes,     (* process crashes so far                                   *)
  runs,        (* history: how often each event was processed              *)
  answered,    (* history: the events whose answer reached the chat        *)
  acked        (* history: the events answered with HTTP 200               *)

counters == <<deliveries, crashes>>
history == <<runs, answered, acked>>
vars == <<inbox, pc, event, outcome, counters, history>>

TypeOK ==
  /\ inbox \in [Events -> {"none", "received", "processed", "failed"}]
  /\ pc \in [Handlers -> {"idle", "claim", "process", "reply", "mark"}]
  /\ event \in [Handlers -> Events \cup {NoEvent}]
  /\ outcome \in [Handlers -> {"processed", "failed"}]
  /\ deliveries \in Nat /\ crashes \in Nat
  /\ runs \in [Events -> Nat]
  /\ answered \subseteq Events /\ acked \subseteq Events

Init ==
  /\ inbox = [e \in Events |-> "none"]
  /\ pc = [h \in Handlers |-> "idle"]
  /\ event = [h \in Handlers |-> NoEvent]
  /\ outcome = [h \in Handlers |-> "failed"]
  /\ deliveries = 0 /\ crashes = 0
  /\ runs = [e \in Events |-> 0]
  /\ answered = {} /\ acked = {}

Goto(h, place) == pc' = [pc EXCEPT ![h] = place]

(* The handler is done with its event.                                     *)
Leave(h) ==
  /\ Goto(h, "idle")
  /\ event' = [event EXCEPT ![h] = NoEvent]
  /\ outcome' = [outcome EXCEPT ![h] = "failed"]

(* Mutant: an update is taken without looking at its id.                   *)
DeliverUnchecked(h, e) ==
  /\ pc[h] = "idle"
  /\ deliveries < MaxDeliveries
  /\ deliveries' = deliveries + 1
  /\ Goto(h, "claim")
  /\ event' = [event EXCEPT ![h] = e]
  /\ UNCHANGED <<inbox, outcome, crashes, history>>

(* A provider delivers an event; one without an id is a bad request.       *)
(* (Ordinary chat is dropped here as well and is no event.)                *)
Deliver(h, e) ==
  /\ pc[h] = "idle"
  /\ deliveries < MaxDeliveries
  /\ deliveries' = deliveries + 1
  /\ IF e = Malformed
     THEN UNCHANGED <<pc, event>>
     ELSE /\ Goto(h, "claim")
          /\ event' = [event EXCEPT ![h] = e]
  /\ UNCHANGED <<inbox, outcome, crashes, history>>

(* ClaimInboundEvent: INSERT ... ON CONFLICT DO NOTHING.                   *)
InsertEvent(e) ==
  inbox' = [inbox EXCEPT ![e] = IF @ = "none" THEN "received" ELSE @]

(* Mutant: that no row was affected is not looked at.                      *)
ClaimAny(h) ==
  LET e == event[h]
  IN /\ pc[h] = "claim"
     /\ InsertEvent(e)
     /\ acked' = IF e \in SlackEvents THEN acked \cup {e} ELSE acked
     /\ Goto(h, "process")
     /\ UNCHANGED <<event, outcome, counters, runs, answered>>

(* The row is new: Slack is told so at once and the goroutine started.     *)
Claim(h) ==
  LET e == event[h]
  IN /\ pc[h] = "claim"
     /\ inbox[e] = "none"
     /\ InsertEvent(e)
     /\ acked' = IF e \in SlackEvents THEN acked \cup {e} ELSE acked
     /\ Goto(h, "process")
     /\ UNCHANGED <<event, outcome, counters, runs, answered>>

(* The row was there: "event recorded", and nothing else is done.          *)
ClaimConflict(h) ==
  /\ pc[h] = "claim"
  /\ inbox[event[h]] # "none"
  /\ acked' = acked \cup {event[h]}
  /\ Leave(h)
  /\ UNCHANGED <<inbox, counters, runs, answered>>

(* Mutant: the provider is told that all is well.                          *)
ClaimFailsAcked(h) ==
  /\ pc[h] = "claim"
  /\ InsertEvent(event[h]) \/ UNCHANGED inbox
  /\ acked' = acked \cup {event[h]}
  /\ Leave(h)
  /\ UNCHANGED <<counters, runs, answered>>

(* The insert returns an error, committed or not: the answer is a 500.     *)
ClaimFails(h) ==
  /\ pc[h] = "claim"
  /\ InsertEvent(event[h]) \/ UNCHANGED inbox
  /\ Leave(h)
  /\ UNCHANGED <<counters, history>>

(* The command is run; with success or with an error the chat is told.     *)
Process(h) ==
  /\ pc[h] = "process"
  /\ event[h] \notin Ignored
  /\ runs' = [runs EXCEPT ![event[h]] = @ + 1]
  /\ Goto(h, "reply")
  /\ UNCHANGED <<inbox, event, outcome, counters, answered, acked>>

(* Telegram's adapter returns some errors without telling the chat: the    *)
(* target or the session is not found, a button may not be used, a save is *)
(* refused.                                                                *)
ProcessFails(h) ==
  /\ pc[h] = "process"
  /\ event[h] \notin SlackEvents \cup Ignored
  /\ runs' = [runs EXCEPT ![event[h]] = @ + 1]
  /\ Goto(h, "mark")
  /\ UNCHANGED <<inbox, event, outcome, counters, answered, acked>>

(* There is nothing to run and nobody to answer.                           *)
ProcessNothing(h) ==
  /\ pc[h] = "process"
  /\ event[h] \in Ignored
  /\ runs' = [runs EXCEPT ![event[h]] = @ + 1]
  /\ outcome' = [outcome EXCEPT ![h] = "processed"]
  /\ Goto(h, "mark")
  /\ UNCHANGED <<inbox, event, counters, answered, acked>>

(* The answer in the chat: its error, even if only the confirmation was    *)
(* lost or the last of several calls failed, becomes the event's.          *)
Reply(h) ==
  /\ pc[h] = "reply"
  /\ \/ /\ answered' = answered \cup {event[h]}
        /\ \E o \in {"processed", "failed"} :
             outcome' = [outcome EXCEPT ![h] = o]
     \/ UNCHANGED <<answered, outcome>>
  /\ Goto(h, "mark")
  /\ UNCHANGED <<inbox, event, counters, runs, acked>>

(* MarkInboundEventProcessed or MarkInboundEventFailed, whose own error is *)
(* ignored; Telegram's request is acknowledged in any case.                *)
Mark(h) ==
  LET e == event[h]
  IN /\ pc[h] = "mark"
     /\ \/ inbox' = [inbox EXCEPT ![e] = outcome[h]]
        \/ UNCHANGED inbox
     /\ acked' = acked \cup {e}
     /\ Leave(h)
     /\ UNCHANGED <<counters, runs, answered>>

Crash ==
  /\ crashes < MaxCrashes
  /\ crashes' = crashes + 1
  /\ pc' = [h \in Handlers |-> "idle"]
  /\ event' = [h \in Handlers |-> NoEvent]
  /\ outcome' = [h \in Handlers |-> "failed"]
  /\ UNCHANGED <<inbox, deliveries, history>>

(* The requests of the instance have been served.                          *)
AllServed ==
  /\ deliveries = MaxDeliveries
  /\ \A h \in Handlers : pc[h] = "idle"
  /\ UNCHANGED vars

Next ==
  \/ \E h \in Handlers :
       \/ \E e \in Events \cup {Malformed} : Deliver(h, e)
       \/ Claim(h) \/ ClaimConflict(h) \/ ClaimFails(h)
       \/ Process(h) \/ ProcessFails(h) \/ ProcessNothing(h)
       \/ Reply(h) \/ Mark(h)
  \/ Crash
  \/ AllServed

Spec == Init /\ [][Next]_vars

-----------------------------------------------------------------------------
(* Properties                                                              *)

(* "Duplicate webhook event -> applied once": however often a provider     *)
(* delivers an event, to however many goroutines at once, before and after *)
(* a restart, its command is run at most once.                             *)
ProcessedOnce == \A e \in Events : runs[e] <= 1

(* The verdict on an event is final: a second delivery, or the handler of  *)
(* one that was cut short, never turns a processed event into a failed one *)
(* or back.                                                                *)
SettledIsFinal ==
  [][\A e \in Events :
       inbox[e] \in {"processed", "failed"} => inbox'[e] = inbox[e]]_vars

(* No event's row claims more than what became of the event, although      *)
(* inserts, answers and marks may fail in any combination and the process  *)
(* may die between any two of them.  Without a row, nothing was run and    *)
(* nobody was told that all is well; with a verdict, for better or worse,  *)
(* a handler went through the event to its end, be it only to an error in  *)
(* looking up its chat; and "processed" means that its sender was          *)
(* answered.  So an event that was acknowledged and never run is           *)
(* "received" and is never called processed or failed.  The converse does  *)
(* not hold: an event that was run stays "received", too, when its mark is *)
(* lost or the process dies before it.                                     *)
RowsTellTheTruth ==
  \A e \in Events :
    /\ inbox[e] = "none" => runs[e] = 0 /\ e \notin acked
    /\ inbox[e] \in {"processed", "failed"} => runs[e] = 1
    /\ inbox[e] = "processed" => e \in answered \cup Ignored

-----------------------------------------------------------------------------
(* The inductive invariant                                                 *)

(* At most one handler has claimed an event, its row is "received" as long *)
(* as it has not marked it, and the command runs when it leaves "process". *)
Claimed(h) ==
  /\ pc[h] = "idle" <=> event[h] = NoEvent
  /\ pc[h] \in {"process", "reply", "mark"} =>
       /\ inbox[event[h]] = "received"
       /\ \A g \in Handlers \ {h} : event[g] = event[h] => pc[g] = "claim"
  /\ pc[h] = "process" => runs[event[h]] = 0
  /\ pc[h] \in {"reply", "mark"} => runs[event[h]] = 1
  /\ outcome[h] = "processed" =>
       pc[h] = "mark" /\ event[h] \in answered \cup Ignored

ClaimInv == \A h \in Handlers : Claimed(h)

IInv ==
  /\ TypeOK
  /\ ClaimInv
  /\ ProcessedOnce
  /\ RowsTellTheTruth

-----------------------------------------------------------------------------
(* "Duplicate updates are processed once": an event whose delivery was     *)
(* acknowledged has been run, once nobody is serving it.                   *)
AcknowledgedWasProcessed ==
  \A e \in Events :
    e \in acked /\ (\A h \in Handlers : event[h] # e) => runs[e] = 1

=============================================================================
