-------------------------- MODULE ChatEventsProofs --------------------------
(***************************************************************************)
(* Proofs about ChatEvents, for any number of events, handlers, members,   *)
(* deliveries, crashes and changes of a chat's creator: the adapters'      *)
(* calls are steps of InboundEvents, so its theorems hold for them, and    *)
(* the chat's one target is the one every command works with.              *)
(***************************************************************************)
EXTENDS ChatEvents, InboundEventsProofs

allVars == <<vars, chatVars>>

-----------------------------------------------------------------------------
(* The refinement of InboundEvents                                         *)

(* An error before the command ends "process" in one of the two ways.      *)
LEMMA ReturnErrorStep ==
  ASSUME NEW h \in Handlers, ReturnError(h)
  PROVE  Next
BY DEF ReturnError, Next

(* Every step of an adapter is one of InboundEvents, or leaves the events  *)
(* alone.                                                                  *)
LEMMA ChatStep == [ChatNext]_allVars => [Next]_vars
<1> SUFFICES ASSUME [ChatNext]_allVars PROVE [Next]_vars
  OBVIOUS
<1>1. ASSUME NEW h \in Handlers,
             \/ \E e \in Events \cup {Malformed} : Deliver(h, e)
             \/ ClaimConflict(h) \/ ClaimFails(h)
             \/ ProcessNothing(h) \/ Reply(h) \/ Mark(h)
      PROVE  Next
  BY <1>1 DEF Next
<1>2. ASSUME NEW h \in Handlers, Begin(h) PROVE Next
  BY <1>2 DEF Begin, Next
<1>3. ASSUME NEW h \in Handlers, GiveUp(h) \/ CreateTargetLost(h)
      PROVE  Next
  BY <1>3, ReturnErrorStep DEF GiveUp, CreateTargetLost
<1>4. ASSUME NEW h \in Handlers,
             \/ LookUpCreator(h) \/ CreateTarget(h) \/ SelectTarget(h)
             \/ GetTarget(h) \/ CheckCreator(h)
      PROVE  UNCHANGED vars
  BY <1>4 DEF LookUpCreator, CreateTarget, SelectTarget, GetTarget,
              CheckCreator, Proceed
<1>5. ASSUME NEW h \in Handlers,
             RunCommand(h) \/ RunRefused(h) \/ RunBroken(h)
      PROVE  Next
  <2>1. CASE RunCommand(h)
    BY <2>1 DEF RunCommand, Next
  <2>2. CASE RunRefused(h)
    BY <2>2, ReturnErrorStep DEF RunRefused, Next
  <2>3. CASE RunBroken(h)
    BY <2>3, ReturnErrorStep DEF RunBroken
  <2> QED BY <1>5, <2>1, <2>2, <2>3
<1>6. ASSUME NEW c \in Chats, NEW u \in Users, Transfer(c, u)
      PROVE  UNCHANGED vars
  BY <1>6 DEF Transfer
<1>7. ASSUME NEW s \in sessions, Expire(s) PROVE UNCHANGED vars
  BY <1>7 DEF Expire
<1>8. CASE ChatCrash
  BY <1>8 DEF ChatCrash, Next
<1>9. CASE AllServed
  BY <1>9 DEF Next
<1>10. CASE UNCHANGED allVars
  BY <1>10 DEF allVars
<1> QED
  BY <1>1, <1>2, <1>3, <1>4, <1>5, <1>6, <1>7, <1>8, <1>9, <1>10
     DEF ChatNext

(* Whatever the adapters do with an event stays within the life of it that *)
(* InboundEvents describes.                                                *)
THEOREM EventsRefinement == ChatSpec => ImplementsEvents
<1>1. ChatInit => Init
  BY DEF ChatInit
<1> QED BY <1>1, ChatStep, PTL DEF ChatSpec, Spec, ImplementsEvents, allVars

-----------------------------------------------------------------------------
(* The inductive invariant                                                 *)

(* The steps of an event outside of what the adapters do in "process".     *)
EventStep(h) ==
  \/ \E e \in Events \cup {Malformed} : Deliver(h, e)
  \/ ClaimConflict(h) \/ ClaimFails(h)
  \/ ProcessNothing(h) \/ Reply(h) \/ Mark(h)

(* Before the first request nobody works with any target.                  *)
LEMMA ChatInitInv == ChatInit => ChatIInv
BY InitInv, ChatAssumption
   DEF ChatInit, Init, ChatIInv, ChatTypeOK, IInv, StageInv, StageOf,
       OneTargetPerChat, SavedInv, ButtonsAsRecorded, Chats, Rows

(* Every step keeps the adapters' variables in their types.                *)
LEMMA ChatTypeStep ==
  ASSUME ChatIInv, IInv', [ChatNext]_allVars
  PROVE  ChatTypeOK'
<1> USE ChatAssumption DEF ChatIInv, IInv, ChatTypeOK, TypeOK, StageInv,
        StageOf, Chats, Rows, platformVars, Chat, ChatOf, Goto
<1>1. ASSUME NEW h \in Handlers, EventStep(h), UNCHANGED chatVars
      PROVE  ChatTypeOK'
  BY <1>1 DEF EventStep, Deliver, ClaimConflict, ClaimFails, ProcessNothing,
              Reply, Mark, Leave, chatVars, stageVars
<1>2. ASSUME NEW h \in Handlers, Begin(h) PROVE ChatTypeOK'
  BY <1>2 DEF Begin, FirstStage, Claim, Goto
<1>3. ASSUME NEW h \in Handlers, GiveUp(h) PROVE ChatTypeOK'
  BY <1>3 DEF GiveUp, ReturnError, Forget, Process, ProcessFails, Goto,
              OnSlack
<1>4. ASSUME NEW h \in Handlers, LookUpCreator(h) PROVE ChatTypeOK'
  BY <1>4 DEF LookUpCreator, Proceed, vars
<1>5. ASSUME NEW h \in Handlers, CreateTarget(h) PROVE ChatTypeOK'
  BY <1>5 DEF CreateTarget, Proceed, vars, InsertTarget
<1>6. ASSUME NEW h \in Handlers, CreateTargetLost(h) PROVE ChatTypeOK'
  BY <1>6 DEF CreateTargetLost, ReturnError, Forget, Process, ProcessFails,
              Goto, OnSlack, InsertTarget
<1>7. ASSUME NEW h \in Handlers, SelectTarget(h) PROVE ChatTypeOK'
  BY <1>7 DEF SelectTarget, Proceed, vars
<1>8. ASSUME NEW h \in Handlers, GetTarget(h) PROVE ChatTypeOK'
  BY <1>8 DEF GetTarget, Proceed, vars
<1>9. ASSUME NEW h \in Handlers, CheckCreator(h) PROVE ChatTypeOK'
  BY <1>9 DEF CheckCreator, Proceed, vars
<1>10. ASSUME NEW h \in Handlers, RunCommand(h) PROVE ChatTypeOK'
  BY <1>10 DEF RunCommand, Forget, Process, Goto, Change, Permitted, Session
<1>11. ASSUME NEW h \in Handlers, RunRefused(h) PROVE ChatTypeOK'
  <2>1. Forget(h) /\ (Process(h) \/ ProcessFails(h))
    BY <1>11 DEF RunRefused, ReturnError
  <2>2. CASE Process(h)
    BY <1>11, <2>1, <2>2 DEF RunRefused, Forget, Process, Goto
  <2>3. CASE ProcessFails(h)
    BY <1>11, <2>1, <2>3 DEF RunRefused, Forget, ProcessFails, Goto
  <2> QED BY <2>1, <2>2, <2>3
<1>12. ASSUME NEW h \in Handlers, RunBroken(h) PROVE ChatTypeOK'
  BY <1>12 DEF RunBroken, ReturnError, Forget, Process, ProcessFails, Goto,
               OnSlack, Change, Permitted, Session
<1>13. ASSUME NEW c \in Chats, NEW u \in Users, Transfer(c, u)
      PROVE  ChatTypeOK'
  BY <1>13 DEF Transfer, stageVars, vars
<1>14. ASSUME NEW s \in sessions, Expire(s)
      PROVE  ChatTypeOK'
  BY <1>14 DEF Expire, stageVars, vars
<1>15. CASE ChatCrash
  BY <1>15 DEF ChatCrash, Crash, history
<1>16. CASE UNCHANGED allVars
  BY <1>16 DEF allVars, chatVars, stageVars, vars
<1> QED
  BY <1>1, <1>2, <1>3, <1>4, <1>5, <1>6, <1>7, <1>8, <1>9, <1>10,
     <1>11, <1>12, <1>13, <1>14, <1>15, <1>16
     DEF ChatNext, EventStep, AllServed, allVars

(* No row is ever changed or taken away, so what was read stays true.      *)
LEMMA StageStep ==
  ASSUME ChatIInv, [ChatNext]_allVars
  PROVE  StageInv'
<1> USE ChatAssumption, ConstantsAssumption DEF ChatIInv, IInv, ChatTypeOK,
        TypeOK, StageInv, StageOf, Chats, Rows, platformVars, Chat, ChatOf,
        Goto
<1>1. ASSUME NEW h \in Handlers, EventStep(h), UNCHANGED chatVars
      PROVE  StageInv'
  BY <1>1 DEF EventStep, Deliver, ClaimConflict, ClaimFails, ProcessNothing,
              Reply, Mark, Leave, chatVars, stageVars
<1>2. ASSUME NEW h \in Handlers, Begin(h) PROVE StageInv'
  BY <1>2 DEF Begin, ClaimInv, Claimed, FirstStage, Claim, Goto
<1>3. ASSUME NEW h \in Handlers, GiveUp(h) PROVE StageInv'
  BY <1>3 DEF GiveUp, ReturnError, Forget, Process, ProcessFails, Goto,
              OnSlack
<1>4. ASSUME NEW h \in Handlers, LookUpCreator(h) PROVE StageInv'
  BY <1>4 DEF LookUpCreator, Proceed, vars
<1>5. ASSUME NEW h \in Handlers, CreateTarget(h) PROVE StageInv'
  BY <1>5 DEF CreateTarget, Proceed, vars, InsertTarget
<1>6. ASSUME NEW h \in Handlers, CreateTargetLost(h) PROVE StageInv'
  BY <1>6 DEF CreateTargetLost, ReturnError, Forget, Process, ProcessFails,
              Goto, OnSlack, InsertTarget
<1>7. ASSUME NEW h \in Handlers, SelectTarget(h) PROVE StageInv'
  BY <1>7 DEF SelectTarget, Proceed, vars
<1>8. ASSUME NEW h \in Handlers, GetTarget(h) PROVE StageInv'
  BY <1>8 DEF GetTarget, Proceed, vars
<1>9. ASSUME NEW h \in Handlers, CheckCreator(h) PROVE StageInv'
  BY <1>9 DEF CheckCreator, Proceed, vars
<1>10. ASSUME NEW h \in Handlers, RunCommand(h) PROVE StageInv'
  BY <1>10 DEF RunCommand, Forget, Process, Goto, Change, Permitted, Session
<1>11. ASSUME NEW h \in Handlers, RunRefused(h) PROVE StageInv'
  BY <1>11 DEF RunRefused, ReturnError, Forget, Process, ProcessFails, Goto,
               OnSlack
<1>12. ASSUME NEW h \in Handlers, RunBroken(h) PROVE StageInv'
  BY <1>12 DEF RunBroken, ReturnError, Forget, Process, ProcessFails, Goto,
               OnSlack, Change, Permitted, Session
<1>13. ASSUME NEW c \in Chats, NEW u \in Users, Transfer(c, u)
      PROVE  StageInv'
  BY <1>13 DEF Transfer, stageVars, vars
<1>14. ASSUME NEW s \in sessions, Expire(s)
      PROVE  StageInv'
  BY <1>14 DEF Expire, stageVars, vars
<1>15. CASE ChatCrash
  BY <1>15 DEF ChatCrash, Crash, history
<1>16. CASE UNCHANGED allVars
  BY <1>16 DEF allVars, chatVars, stageVars, vars
<1> QED
  BY <1>1, <1>2, <1>3, <1>4, <1>5, <1>6, <1>7, <1>8, <1>9, <1>10,
     <1>11, <1>12, <1>13, <1>14, <1>15, <1>16
     DEF ChatNext, EventStep, AllServed, allVars

(* The chat's row is written once, and changes are its creator's.          *)
LEMMA TargetStep ==
  ASSUME ChatIInv, [ChatNext]_allVars
  PROVE  OneTargetPerChat'
<1> USE ChatAssumption, ConstantsAssumption DEF ChatIInv, IInv, ChatTypeOK,
        TypeOK, StageInv, StageOf, OneTargetPerChat, Chats, Rows, platformVars,
        Chat, ChatOf, Goto
<1>1. ASSUME NEW h \in Handlers, EventStep(h), UNCHANGED chatVars
      PROVE  OneTargetPerChat'
  BY <1>1 DEF EventStep, Deliver, ClaimConflict, ClaimFails, ProcessNothing,
              Reply, Mark, Leave, chatVars, stageVars
<1>2. ASSUME NEW h \in Handlers, Begin(h) PROVE OneTargetPerChat'
  BY <1>2 DEF Begin, FirstStage, Claim, Goto
<1>3. ASSUME NEW h \in Handlers, GiveUp(h) PROVE OneTargetPerChat'
  BY <1>3 DEF GiveUp, ReturnError, Forget, Process, ProcessFails, Goto,
              OnSlack
<1>4. ASSUME NEW h \in Handlers, LookUpCreator(h) PROVE OneTargetPerChat'
  BY <1>4 DEF LookUpCreator, Proceed, vars
<1>5. ASSUME NEW h \in Handlers, CreateTarget(h) PROVE OneTargetPerChat'
  BY <1>5 DEF CreateTarget, Proceed, vars, InsertTarget
<1>6. ASSUME NEW h \in Handlers, CreateTargetLost(h) PROVE OneTargetPerChat'
  BY <1>6 DEF CreateTargetLost, ReturnError, Forget, Process, ProcessFails,
              Goto, OnSlack, InsertTarget
<1>7. ASSUME NEW h \in Handlers, SelectTarget(h) PROVE OneTargetPerChat'
  BY <1>7 DEF SelectTarget, Proceed, vars
<1>8. ASSUME NEW h \in Handlers, GetTarget(h) PROVE OneTargetPerChat'
  BY <1>8 DEF GetTarget, Proceed, vars
<1>9. ASSUME NEW h \in Handlers, CheckCreator(h) PROVE OneTargetPerChat'
  BY <1>9 DEF CheckCreator, Proceed, vars
<1>10. ASSUME NEW h \in Handlers, RunCommand(h) PROVE OneTargetPerChat'
  BY <1>10 DEF RunCommand, Forget, Process, Goto, Change, Permitted, Session
<1>11. ASSUME NEW h \in Handlers, RunRefused(h) PROVE OneTargetPerChat'
  BY <1>11 DEF RunRefused, ReturnError, Forget, Process, ProcessFails, Goto,
               OnSlack
<1>12. ASSUME NEW h \in Handlers, RunBroken(h) PROVE OneTargetPerChat'
  BY <1>12 DEF RunBroken, ReturnError, Forget, Process, ProcessFails, Goto,
               OnSlack, Change, Permitted, Session
<1>13. ASSUME NEW c \in Chats, NEW u \in Users, Transfer(c, u)
      PROVE  OneTargetPerChat'
  BY <1>13 DEF Transfer, stageVars, vars
<1>14. ASSUME NEW s \in sessions, Expire(s)
      PROVE  OneTargetPerChat'
  BY <1>14 DEF Expire, stageVars, vars
<1>15. CASE ChatCrash
  BY <1>15 DEF ChatCrash, Crash, history
<1>16. CASE UNCHANGED allVars
  BY <1>16 DEF allVars, chatVars, stageVars, vars
<1> QED
  BY <1>1, <1>2, <1>3, <1>4, <1>5, <1>6, <1>7, <1>8, <1>9, <1>10,
     <1>11, <1>12, <1>13, <1>14, <1>15, <1>16
     DEF ChatNext, EventStep, AllServed, allVars

(* Only a handler that has saved goes on to report success of a button.    *)
LEMMA SavedStep ==
  ASSUME ChatIInv, [ChatNext]_allVars
  PROVE  SavedInv'
<1> USE ChatAssumption, ConstantsAssumption DEF ChatIInv, IInv, ChatTypeOK,
        TypeOK, StageInv, StageOf, ClaimInv, Claimed, SavedInv, platformVars,
        Goto, Commands
<1>1. ASSUME NEW h \in Handlers, EventStep(h), UNCHANGED chatVars
      PROVE  SavedInv'
  BY <1>1 DEF EventStep, Deliver, ClaimConflict, ClaimFails, ProcessNothing,
              Reply, Mark, Leave, chatVars, stageVars
<1>2. ASSUME NEW h \in Handlers, Begin(h) PROVE SavedInv'
  BY <1>2 DEF Begin, FirstStage, Claim, Goto
<1>3. ASSUME NEW h \in Handlers, GiveUp(h) PROVE SavedInv'
  BY <1>3 DEF GiveUp, ReturnError, Forget, Process, ProcessFails, Goto,
              OnSlack
<1>4. ASSUME NEW h \in Handlers, LookUpCreator(h) PROVE SavedInv'
  BY <1>4 DEF LookUpCreator, Proceed, vars
<1>5. ASSUME NEW h \in Handlers, CreateTarget(h) PROVE SavedInv'
  BY <1>5 DEF CreateTarget, Proceed, vars, InsertTarget
<1>6. ASSUME NEW h \in Handlers, CreateTargetLost(h) PROVE SavedInv'
  BY <1>6 DEF CreateTargetLost, ReturnError, Forget, Process, ProcessFails,
              Goto, OnSlack, InsertTarget
<1>7. ASSUME NEW h \in Handlers, SelectTarget(h) PROVE SavedInv'
  BY <1>7 DEF SelectTarget, Proceed, vars
<1>8. ASSUME NEW h \in Handlers, GetTarget(h) PROVE SavedInv'
  BY <1>8 DEF GetTarget, Proceed, vars
<1>9. ASSUME NEW h \in Handlers, CheckCreator(h) PROVE SavedInv'
  BY <1>9 DEF CheckCreator, Proceed, vars
<1>10. ASSUME NEW h \in Handlers, RunCommand(h) PROVE SavedInv'
  BY <1>10 DEF RunCommand, Forget, Process, Goto, Change, Permitted, Session
<1>11. ASSUME NEW h \in Handlers, RunRefused(h) PROVE SavedInv'
  BY <1>11 DEF RunRefused, ReturnError, Forget, Process, ProcessFails, Goto,
               OnSlack
<1>12. ASSUME NEW h \in Handlers, RunBroken(h) PROVE SavedInv'
  BY <1>12 DEF RunBroken, ReturnError, Forget, Process, ProcessFails, Goto,
               OnSlack, Change, Permitted, Session
<1>13. ASSUME NEW c \in Chats, NEW u \in Users, Transfer(c, u)
      PROVE  SavedInv'
  BY <1>13 DEF Transfer, stageVars, vars
<1>14. ASSUME NEW s \in sessions, Expire(s)
      PROVE  SavedInv'
  BY <1>14 DEF Expire, stageVars, vars
<1>15. CASE ChatCrash
  BY <1>15 DEF ChatCrash, Crash, history
<1>16. CASE UNCHANGED allVars
  BY <1>16 DEF allVars, chatVars, stageVars, vars
<1> QED
  BY <1>1, <1>2, <1>3, <1>4, <1>5, <1>6, <1>7, <1>8, <1>9, <1>10,
     <1>11, <1>12, <1>13, <1>14, <1>15, <1>16
     DEF ChatNext, EventStep, AllServed, allVars

(* Changes are made for claimed events only, and rows are never deleted.   *)
LEMMA RecordedStep ==
  ASSUME ChatIInv, [ChatNext]_allVars
  PROVE  ButtonsAsRecorded'
<1> USE ChatAssumption, ConstantsAssumption DEF ChatIInv, IInv, ChatTypeOK,
        TypeOK, StageInv, StageOf, ClaimInv, Claimed, SavedInv,
        ButtonsAsRecorded, platformVars, Goto, InsertEvent
<1>1. ASSUME NEW h \in Handlers, EventStep(h), UNCHANGED chatVars
      PROVE  ButtonsAsRecorded'
  BY <1>1 DEF EventStep, Deliver, ClaimConflict, ClaimFails, ProcessNothing,
              Reply, Mark, Leave, chatVars, stageVars
<1>2. ASSUME NEW h \in Handlers, Begin(h) PROVE ButtonsAsRecorded'
  BY <1>2 DEF Begin, FirstStage, Claim, Goto
<1>3. ASSUME NEW h \in Handlers, GiveUp(h) PROVE ButtonsAsRecorded'
  BY <1>3 DEF GiveUp, ReturnError, Forget, Process, ProcessFails, Goto,
              OnSlack
<1>4. ASSUME NEW h \in Handlers, LookUpCreator(h) PROVE ButtonsAsRecorded'
  BY <1>4 DEF LookUpCreator, Proceed, vars
<1>5. ASSUME NEW h \in Handlers, CreateTarget(h) PROVE ButtonsAsRecorded'
  BY <1>5 DEF CreateTarget, Proceed, vars, InsertTarget
<1>6. ASSUME NEW h \in Handlers, CreateTargetLost(h) PROVE ButtonsAsRecorded'
  BY <1>6 DEF CreateTargetLost, ReturnError, Forget, Process, ProcessFails,
              Goto, OnSlack, InsertTarget
<1>7. ASSUME NEW h \in Handlers, SelectTarget(h) PROVE ButtonsAsRecorded'
  BY <1>7 DEF SelectTarget, Proceed, vars
<1>8. ASSUME NEW h \in Handlers, GetTarget(h) PROVE ButtonsAsRecorded'
  BY <1>8 DEF GetTarget, Proceed, vars
<1>9. ASSUME NEW h \in Handlers, CheckCreator(h) PROVE ButtonsAsRecorded'
  BY <1>9 DEF CheckCreator, Proceed, vars
<1>10. ASSUME NEW h \in Handlers, RunCommand(h) PROVE ButtonsAsRecorded'
  BY <1>10 DEF RunCommand, Forget, Process, Goto, Change, Permitted, Session
<1>11. ASSUME NEW h \in Handlers, RunRefused(h) PROVE ButtonsAsRecorded'
  BY <1>11 DEF RunRefused, ReturnError, Forget, Process, ProcessFails, Goto,
               OnSlack
<1>12. ASSUME NEW h \in Handlers, RunBroken(h) PROVE ButtonsAsRecorded'
  BY <1>12 DEF RunBroken, ReturnError, Forget, Process, ProcessFails, Goto,
               OnSlack, Change, Permitted, Session
<1>13. ASSUME NEW c \in Chats, NEW u \in Users, Transfer(c, u)
      PROVE  ButtonsAsRecorded'
  BY <1>13 DEF Transfer, stageVars, vars
<1>14. ASSUME NEW s \in sessions, Expire(s)
      PROVE  ButtonsAsRecorded'
  BY <1>14 DEF Expire, stageVars, vars
<1>15. CASE ChatCrash
  BY <1>15 DEF ChatCrash, Crash, history
<1>16. CASE UNCHANGED allVars
  BY <1>16 DEF allVars, chatVars, stageVars, vars
<1> QED
  BY <1>1, <1>2, <1>3, <1>4, <1>5, <1>6, <1>7, <1>8, <1>9, <1>10,
     <1>11, <1>12, <1>13, <1>14, <1>15, <1>16
     DEF ChatNext, EventStep, AllServed, allVars

(* The conjunction is preserved by every step.                             *)
LEMMA ChatInvStep == ChatIInv /\ [ChatNext]_allVars => ChatIInv'
<1>1. ChatIInv /\ [ChatNext]_allVars => IInv'
  BY ChatStep, InvStep DEF ChatIInv
<1> QED
  BY <1>1, ChatTypeStep, StageStep, TargetStep, SavedStep, RecordedStep
     DEF ChatIInv

(* The inductive invariant holds in every reachable state.                 *)
THEOREM ChatInvariance == ChatSpec => []ChatIInv
BY ChatInitInv, ChatInvStep, PTL DEF ChatSpec, allVars

(* The chat's target, the handlers' copies of it and what they saved keep  *)
(* to their types, whatever InboundEvents does meanwhile.                  *)
THEOREM ChatTypeCorrect == ChatSpec => []ChatTypeOK
<1>1. ChatIInv => ChatTypeOK
  BY DEF ChatIInv
<1> QED BY <1>1, ChatInvariance, PTL

(* However many first commands of a chat race, everybody works with its    *)
(* one target, and every change was its creator's.                         *)
THEOREM TargetCorrect == ChatSpec => []OneTargetPerChat
<1>1. ChatIInv => OneTargetPerChat
  BY DEF ChatIInv
<1> QED BY <1>1, ChatInvariance, PTL

(* A Telegram button recorded as processed has saved, and nothing is saved *)
(* for an event that is not recorded.                                      *)
THEOREM RecordedCorrect == ChatSpec => []ButtonsAsRecorded
<1>1. ChatIInv => ButtonsAsRecorded
  BY DEF ChatIInv
<1> QED BY <1>1, ChatInvariance, PTL

(* With the adapters' own calls in between, too, every event is processed  *)
(* at most once.                                                           *)
THEOREM ChatOnceCorrect == ChatSpec => []ProcessedOnce
BY EventsRefinement, OnceCorrect, PTL DEF ImplementsEvents

(* And its row claims no more than what became of it.                      *)
THEOREM ChatTruthCorrect == ChatSpec => []RowsTellTheTruth
BY EventsRefinement, TruthCorrect, PTL DEF ImplementsEvents

(* And a verdict is final.                                                 *)
THEOREM ChatSettledCorrect == ChatSpec => SettledIsFinal
BY EventsRefinement, SettledCorrect DEF ImplementsEvents

=============================================================================
