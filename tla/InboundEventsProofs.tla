------------------------- MODULE InboundEventsProofs -------------------------
(***************************************************************************)
(* Proofs about InboundEvents, for any number of events, handlers,         *)
(* deliveries and crashes.                                                 *)
(***************************************************************************)
EXTENDS InboundEvents, TLAPS

(* Before the first request there is no row and nothing has been run.      *)
LEMMA InitInv == Init => IInv
BY ConstantsAssumption
   DEF Init, IInv, TypeOK, ClaimInv, Claimed, ProcessedOnce,
       RowsTellTheTruth

(* Every step keeps the variables in their types.                          *)
LEMMA TypeStep ==
  ASSUME TypeOK, ClaimInv, [Next]_vars
  PROVE  TypeOK'
<1> USE ConstantsAssumption DEF TypeOK, Goto, Leave, InsertEvent, counters,
        history
<1>1. ASSUME NEW h \in Handlers, NEW e \in Events \cup {Malformed},
             Deliver(h, e)
      PROVE  TypeOK'
  BY <1>1 DEF Deliver
<1>2. ASSUME NEW h \in Handlers, Claim(h) PROVE TypeOK'
  BY <1>2 DEF Claim, ClaimInv, Claimed
<1>3. ASSUME NEW h \in Handlers, ClaimConflict(h) PROVE TypeOK'
  BY <1>3 DEF ClaimConflict, ClaimInv, Claimed
<1>4. ASSUME NEW h \in Handlers, ClaimFails(h) PROVE TypeOK'
  BY <1>4 DEF ClaimFails, ClaimInv, Claimed
<1>5. ASSUME NEW h \in Handlers, Process(h) PROVE TypeOK'
  BY <1>5 DEF Process, ClaimInv, Claimed
<1>6. ASSUME NEW h \in Handlers, ProcessFails(h) PROVE TypeOK'
  BY <1>6 DEF ProcessFails, ClaimInv, Claimed
<1>7. ASSUME NEW h \in Handlers, Reply(h) PROVE TypeOK'
  BY <1>7 DEF Reply, ClaimInv, Claimed
<1>8. ASSUME NEW h \in Handlers, Mark(h) PROVE TypeOK'
  BY <1>8 DEF Mark, ClaimInv, Claimed
<1>9. ASSUME NEW h \in Handlers, ProcessNothing(h) PROVE TypeOK'
  BY <1>9 DEF ProcessNothing, ClaimInv, Claimed
<1>10. CASE Crash
  BY <1>10 DEF Crash
<1>11. CASE UNCHANGED vars
  BY <1>11 DEF vars
<1> QED BY <1>1, <1>2, <1>3, <1>4, <1>5, <1>6, <1>7, <1>8, <1>9, <1>10,
           <1>11
           DEF Next, AllServed

(* Of two handlers of one event only one gets past the claim, because the  *)
(* insert is the test, and nobody else touches its row until it leaves.    *)
LEMMA ClaimStep ==
  ASSUME TypeOK, ClaimInv, RowsTellTheTruth, [Next]_vars
  PROVE  ClaimInv'
<1> USE ConstantsAssumption DEF TypeOK, ClaimInv, Claimed,
        RowsTellTheTruth, Goto, Leave, InsertEvent, counters, history
<1>1. ASSUME NEW h \in Handlers, NEW e \in Events \cup {Malformed},
             Deliver(h, e)
      PROVE ClaimInv'
  BY <1>1 DEF Deliver
<1>2. ASSUME NEW h \in Handlers, Claim(h) PROVE ClaimInv'
  BY <1>2 DEF Claim
<1>3. ASSUME NEW h \in Handlers, ClaimConflict(h) PROVE ClaimInv'
  BY <1>3 DEF ClaimConflict
<1>4. ASSUME NEW h \in Handlers, ClaimFails(h) PROVE ClaimInv'
  BY <1>4 DEF ClaimFails
<1>5. ASSUME NEW h \in Handlers, Process(h) PROVE ClaimInv'
  <2> SUFFICES ASSUME NEW g \in Handlers PROVE Claimed(g)'
    BY DEF ClaimInv
  <2>1. CASE g = h
    BY <1>5, <2>1 DEF Process
  <2>2. CASE g # h
    BY <1>5, <2>2 DEF Process
  <2> QED BY <2>1, <2>2
<1>6. ASSUME NEW h \in Handlers, ProcessFails(h) PROVE ClaimInv'
  <2> SUFFICES ASSUME NEW g \in Handlers PROVE Claimed(g)'
    BY DEF ClaimInv
  <2>1. CASE g = h
    BY <1>6, <2>1 DEF ProcessFails
  <2>2. CASE g # h
    BY <1>6, <2>2 DEF ProcessFails
  <2> QED BY <2>1, <2>2
<1>7. ASSUME NEW h \in Handlers, Reply(h) PROVE ClaimInv'
  <2> SUFFICES ASSUME NEW g \in Handlers PROVE Claimed(g)'
    BY DEF ClaimInv
  <2>1. CASE g = h
    BY <1>7, <2>1 DEF Reply
  <2>2. CASE g # h
    BY <1>7, <2>2 DEF Reply
  <2> QED BY <2>1, <2>2
<1>8. ASSUME NEW h \in Handlers, Mark(h) PROVE ClaimInv'
  <2> SUFFICES ASSUME NEW g \in Handlers PROVE Claimed(g)'
    BY DEF ClaimInv
  <2>1. CASE g = h
    BY <1>8, <2>1 DEF Mark
  <2>2. CASE g # h
    BY <1>8, <2>2 DEF Mark
  <2> QED BY <2>1, <2>2
<1>9. ASSUME NEW h \in Handlers, ProcessNothing(h) PROVE ClaimInv'
  BY <1>9 DEF ProcessNothing
<1>10. CASE Crash
  BY <1>10 DEF Crash
<1>11. CASE UNCHANGED vars
  BY <1>11 DEF vars
<1> QED BY <1>1, <1>2, <1>3, <1>4, <1>5, <1>6, <1>7, <1>8, <1>9, <1>10,
           <1>11
           DEF Next, AllServed

(* Only the handler that holds the claim runs the command, from zero.      *)
LEMMA OnceStep ==
  ASSUME TypeOK, ClaimInv, ProcessedOnce, [Next]_vars
  PROVE  ProcessedOnce'
<1> USE ConstantsAssumption DEF TypeOK, ClaimInv, Claimed, ProcessedOnce,
        Goto, Leave, InsertEvent, counters, history
<1>1. ASSUME NEW h \in Handlers, NEW e \in Events \cup {Malformed},
             Deliver(h, e)
      PROVE ProcessedOnce'
  BY <1>1 DEF Deliver
<1>2. ASSUME NEW h \in Handlers, Claim(h) PROVE ProcessedOnce'
  BY <1>2 DEF Claim
<1>3. ASSUME NEW h \in Handlers, ClaimConflict(h) PROVE ProcessedOnce'
  BY <1>3 DEF ClaimConflict
<1>4. ASSUME NEW h \in Handlers, ClaimFails(h) PROVE ProcessedOnce'
  BY <1>4 DEF ClaimFails
<1>5. ASSUME NEW h \in Handlers, Process(h) PROVE ProcessedOnce'
  BY <1>5 DEF Process
<1>6. ASSUME NEW h \in Handlers, ProcessFails(h) PROVE ProcessedOnce'
  BY <1>6 DEF ProcessFails
<1>7. ASSUME NEW h \in Handlers, Reply(h) PROVE ProcessedOnce'
  BY <1>7 DEF Reply
<1>8. ASSUME NEW h \in Handlers, Mark(h) PROVE ProcessedOnce'
  BY <1>8 DEF Mark
<1>9. ASSUME NEW h \in Handlers, ProcessNothing(h) PROVE ProcessedOnce'
  BY <1>9 DEF ProcessNothing
<1>10. CASE Crash
  BY <1>10 DEF Crash
<1>11. CASE UNCHANGED vars
  BY <1>11 DEF vars
<1> QED BY <1>1, <1>2, <1>3, <1>4, <1>5, <1>6, <1>7, <1>8, <1>9, <1>10,
           <1>11
           DEF Next, AllServed

(* The row comes before the command, the command and its answer before the *)
(* verdict; and whoever is told "recorded" is told of a row that is there. *)
LEMMA TruthStep ==
  ASSUME TypeOK, ClaimInv, RowsTellTheTruth, [Next]_vars
  PROVE  RowsTellTheTruth'
<1> USE ConstantsAssumption DEF TypeOK, ClaimInv, Claimed,
        RowsTellTheTruth, Goto, Leave, InsertEvent, counters, history
<1>1. ASSUME NEW h \in Handlers, NEW e \in Events \cup {Malformed},
             Deliver(h, e)
      PROVE RowsTellTheTruth'
  BY <1>1 DEF Deliver
<1>2. ASSUME NEW h \in Handlers, Claim(h) PROVE RowsTellTheTruth'
  BY <1>2 DEF Claim
<1>3. ASSUME NEW h \in Handlers, ClaimConflict(h) PROVE RowsTellTheTruth'
  BY <1>3 DEF ClaimConflict
<1>4. ASSUME NEW h \in Handlers, ClaimFails(h) PROVE RowsTellTheTruth'
  BY <1>4 DEF ClaimFails
<1>5. ASSUME NEW h \in Handlers, Process(h) PROVE RowsTellTheTruth'
  BY <1>5 DEF Process
<1>6. ASSUME NEW h \in Handlers, ProcessFails(h) PROVE RowsTellTheTruth'
  BY <1>6 DEF ProcessFails
<1>7. ASSUME NEW h \in Handlers, Reply(h) PROVE RowsTellTheTruth'
  BY <1>7 DEF Reply
<1>8. ASSUME NEW h \in Handlers, Mark(h) PROVE RowsTellTheTruth'
  BY <1>8 DEF Mark
<1>9. ASSUME NEW h \in Handlers, ProcessNothing(h) PROVE RowsTellTheTruth'
  BY <1>9 DEF ProcessNothing
<1>10. CASE Crash
  BY <1>10 DEF Crash
<1>11. CASE UNCHANGED vars
  BY <1>11 DEF vars
<1> QED BY <1>1, <1>2, <1>3, <1>4, <1>5, <1>6, <1>7, <1>8, <1>9, <1>10,
           <1>11
           DEF Next, AllServed

(* One step of SettledIsFinal.                                             *)
Settled ==
  \A e \in Events :
    inbox[e] \in {"processed", "failed"} => inbox'[e] = inbox[e]

(* Only an event that is still "received" is marked, and only an event     *)
(* without a row is inserted.                                              *)
LEMMA SettledStep ==
  ASSUME TypeOK, ClaimInv, [Next]_vars
  PROVE  Settled
<1> USE ConstantsAssumption DEF Settled, TypeOK, ClaimInv, Claimed, Goto,
        Leave, InsertEvent, counters, history
<1>1. ASSUME NEW h \in Handlers, NEW e \in Events \cup {Malformed},
             Deliver(h, e)
      PROVE Settled
  BY <1>1 DEF Deliver
<1>2. ASSUME NEW h \in Handlers, Claim(h) PROVE Settled
  BY <1>2 DEF Claim
<1>3. ASSUME NEW h \in Handlers, ClaimConflict(h) PROVE Settled
  BY <1>3 DEF ClaimConflict
<1>4. ASSUME NEW h \in Handlers, ClaimFails(h) PROVE Settled
  BY <1>4 DEF ClaimFails
<1>5. ASSUME NEW h \in Handlers, Process(h) PROVE Settled
  BY <1>5 DEF Process
<1>6. ASSUME NEW h \in Handlers, ProcessFails(h) PROVE Settled
  BY <1>6 DEF ProcessFails
<1>7. ASSUME NEW h \in Handlers, Reply(h) PROVE Settled
  BY <1>7 DEF Reply
<1>8. ASSUME NEW h \in Handlers, Mark(h) PROVE Settled
  BY <1>8 DEF Mark
<1>9. ASSUME NEW h \in Handlers, ProcessNothing(h) PROVE Settled
  BY <1>9 DEF ProcessNothing
<1>10. CASE Crash
  BY <1>10 DEF Crash
<1>11. CASE UNCHANGED vars
  BY <1>11 DEF vars
<1> QED BY <1>1, <1>2, <1>3, <1>4, <1>5, <1>6, <1>7, <1>8, <1>9, <1>10,
           <1>11
           DEF Next, AllServed

(* The conjunction is preserved by every step.                             *)
LEMMA InvStep == IInv /\ [Next]_vars => IInv'
BY TypeStep, ClaimStep, OnceStep, TruthStep DEF IInv

(* The inductive invariant holds in every reachable state.                 *)
THEOREM Invariance == Spec => []IInv
BY InitInv, InvStep, PTL DEF Spec

(* Every variable keeps its type.                                          *)
THEOREM TypeCorrect == Spec => []TypeOK
<1>1. IInv => TypeOK
  BY DEF IInv
<1> QED BY <1>1, Invariance, PTL

(* However often and however concurrently an event is delivered, its       *)
(* command is run at most once.                                            *)
THEOREM OnceCorrect == Spec => []ProcessedOnce
<1>1. IInv => ProcessedOnce
  BY DEF IInv
<1> QED BY <1>1, Invariance, PTL

(* An event without a row was neither run nor acknowledged, one with a     *)
(* verdict was gone through to its end, and one marked processed was       *)
(* answered, whatever failed, was repeated or crashed.                     *)
THEOREM TruthCorrect == Spec => []RowsTellTheTruth
<1>1. IInv => RowsTellTheTruth
  BY DEF IInv
<1> QED BY <1>1, Invariance, PTL

(* The verdict on an event never changes.                                  *)
THEOREM SettledCorrect == Spec => SettledIsFinal
<1>1. IInv /\ [Next]_vars => Settled
  BY SettledStep DEF IInv
<1>2. Settled => [Settled]_vars
  OBVIOUS
<1> QED BY <1>1, <1>2, Invariance, PTL DEF Spec, SettledIsFinal, Settled

=============================================================================
