-------------------------- MODULE JobCleanupProofs --------------------------
(***************************************************************************)
(* Proofs about JobCleanup, for any table, batch size and retention and    *)
(* any number of cleaners.                                                 *)
(***************************************************************************)
EXTENDS JobCleanup, TLAPS

(* Before the first midnight no cleaner has done anything.                 *)
LEMMA InitInv == Init => IInv
BY ConstantsAssumption
   DEF Init, IInv, TypeOK, BatchInv, QuietRunSweepsAll, Ended, Gone

(* What a DELETE does to the table and to what the cleaners know.          *)
LEMMA RemoveType ==
  ASSUME TypeOK, NEW c \in Cleaners, NEW D \in SUBSET Rows, Remove(c, D)
  PROVE  /\ updated' \in [Rows -> Nat \cup {Gone}]
         /\ quiet' \in [Cleaners -> BOOLEAN]
         /\ \A x \in Rows : updated'[x] <= now
         /\ \A x \in Rows : updated'[x] \in {updated[x], Gone}
         /\ \A b \in Cleaners : quiet'[b] => quiet[b]
BY DEF TypeOK, Remove, Gone

(* Every step keeps the types, and no row or cutoff gets ahead of the      *)
(* clock.                                                                  *)
LEMMA TypeStep ==
  ASSUME TypeOK, [Next]_vars
  PROVE  TypeOK'
<1> USE ConstantsAssumption DEF TypeOK, Ended, Gone
<1>1. CASE Pass
  BY <1>1 DEF Pass
<1>2. ASSUME NEW x \in Rows, Write(x) PROVE TypeOK'
  BY <1>2 DEF Write
<1>3. ASSUME NEW c \in Cleaners, StartRun(c) PROVE TypeOK'
  BY <1>3 DEF StartRun
<1>4. ASSUME NEW c \in Cleaners, Select(c) PROVE TypeOK'
  BY <1>4 DEF Select, Candidates, StaleRows
<1>5. ASSUME NEW c \in Cleaners, Delete(c) PROVE TypeOK'
  BY <1>5, RemoveType, Hits(c) \in SUBSET Rows DEF Delete, Hits
<1>6. ASSUME NEW c \in Cleaners, DeleteFails(c) PROVE TypeOK'
  <2>1. CASE UNCHANGED <<updated, quiet>>
    BY <1>6, <2>1 DEF DeleteFails
  <2>2. CASE Remove(c, Hits(c))
    BY <1>6, <2>2, RemoveType, Hits(c) \in SUBSET Rows DEF DeleteFails, Hits
  <2> QED BY <1>6, <2>1, <2>2 DEF DeleteFails
<1>7. CASE UNCHANGED vars
  BY <1>7 DEF vars
<1> QED BY <1>1, <1>2, <1>3, <1>4, <1>5, <1>6, <1>7 DEF Next

(* A row written now is not older than any cutoff, so a write changes the  *)
(* stale rows of a quiet run neither by what it adds nor by what it hides. *)
LEMMA WriteKeepsStale ==
  ASSUME TypeOK, NEW x \in Rows, Write(x), NEW c \in Cleaners, quiet'[c]
  PROVE  /\ StaleRows(cutoff[c])' = StaleRows(cutoff[c])
         /\ \A y \in StaleRows(cutoff[c]) : updated'[y] = updated[y]
<1>1. x \notin StaleRows(cutoff[c])
  BY DEF Write, StaleRows, TypeOK
<1>2. PICK t \in 0 .. now : /\ t >= now - WriteDelay
                            /\ updated' = [updated EXCEPT ![x] = t]
  BY DEF Write
<1>3. cutoff' = cutoff
  BY DEF Write
<1>4. ~(updated'[x] < cutoff[c])
  BY <1>2, ConstantsAssumption DEF TypeOK
<1>5. \A y \in Rows \ {x} : updated'[y] = updated[y]
  BY <1>2 DEF TypeOK
<1> QED BY <1>1, <1>3, <1>4, <1>5 DEF StaleRows, Stale

(* A DELETE of another cleaner that leaves a run quiet leaves its stale    *)
(* rows alone.                                                             *)
LEMMA RemoveKeepsStale ==
  ASSUME TypeOK, NEW c \in Cleaners, NEW D \in SUBSET Rows, Remove(c, D),
         NEW b \in Cleaners \ {c}, quiet'[b], cutoff' = cutoff
  PROVE  /\ StaleRows(cutoff[b])' = StaleRows(cutoff[b])
         /\ \A y \in StaleRows(cutoff[b]) : updated'[y] = updated[y]
<1>1. D \cap StaleRows(cutoff[b]) = {}
  BY DEF Remove, TypeOK
<1>2. updated' = [x \in Rows |-> IF x \in D THEN Gone ELSE updated[x]]
  BY DEF Remove
<1> QED BY <1>1, <1>2 DEF StaleRows, Stale

(* A candidate of an undisturbed batch is still there when it is deleted.  *)
LEMMA BatchStep ==
  ASSUME TypeOK, BatchInv, [Next]_vars
  PROVE  BatchInv'
<1> SUFFICES ASSUME NEW b \in Cleaners, pc'[b] = "delete", quiet'[b]
             PROVE  batch'[b] \in Candidates(cutoff[b])'
  BY DEF BatchInv
<1>0. cutoff[b] \in Int
  BY DEF TypeOK
<1>1. CASE UNCHANGED <<updated, pc, cutoff, batch, quiet>>
  BY <1>1 DEF BatchInv, Candidates, StaleRows, Stale
<1>2. ASSUME NEW x \in Rows, Write(x)
      PROVE  batch'[b] \in Candidates(cutoff[b])'
  <2>1. quiet[b] /\ pc[b] = "delete" /\ cutoff' = cutoff /\ batch' = batch
    BY <1>2 DEF Write, TypeOK
  <2>2. batch[b] \in Candidates(cutoff[b])
    BY <2>1 DEF BatchInv
  <2>3. /\ StaleRows(cutoff[b])' = StaleRows(cutoff[b])
        /\ \A y \in StaleRows(cutoff[b]) : updated'[y] = updated[y]
    BY <1>2, WriteKeepsStale
  <2> QED BY <1>0, <2>1, <2>2, <2>3 DEF Candidates
<1>3. ASSUME NEW c \in Cleaners, StartRun(c)
      PROVE  batch'[b] \in Candidates(cutoff[b])'
  BY <1>3 DEF StartRun, TypeOK, BatchInv, Candidates, StaleRows, Stale
<1>4. ASSUME NEW c \in Cleaners, Select(c)
      PROVE  batch'[b] \in Candidates(cutoff[b])'
  <2>1. cutoff' = cutoff /\ updated' = updated
    BY <1>4 DEF Select
  <2>2. Candidates(cutoff[b])' = Candidates(cutoff[b])
    BY <2>1 DEF Candidates, StaleRows, Stale
  <2>3. CASE b = c
    BY <1>4, <2>2, <2>3 DEF Select, TypeOK
  <2>4. CASE b # c
    BY <1>4, <2>2, <2>4 DEF Select, TypeOK, BatchInv
  <2> QED BY <2>3, <2>4
<1>5. ASSUME NEW c \in Cleaners, Delete(c) \/ DeleteFails(c)
      PROVE  batch'[b] \in Candidates(cutoff[b])'
  <2>1. b # c
    BY <1>5 DEF Delete, DeleteFails, TypeOK
  <2>2. /\ pc[b] = "delete" /\ cutoff' = cutoff /\ batch'[b] = batch[b]
    BY <1>5, <2>1 DEF Delete, DeleteFails, TypeOK
  <2>3. CASE Remove(c, Hits(c))
    <3>1. Hits(c) \in SUBSET Rows
      BY DEF Hits, TypeOK
    <3>2. quiet[b]
      BY <2>3, <3>1, RemoveType
    <3>3. /\ StaleRows(cutoff[b])' = StaleRows(cutoff[b])
          /\ \A y \in StaleRows(cutoff[b]) : updated'[y] = updated[y]
      BY <2>1, <2>2, <2>3, <3>1, RemoveKeepsStale
    <3> QED BY <2>2, <3>2, <3>3 DEF BatchInv, Candidates
  <2>4. CASE UNCHANGED <<updated, quiet>>
    BY <2>2, <2>4 DEF BatchInv, Candidates, StaleRows, Stale
  <2> QED BY <1>5, <2>3, <2>4 DEF Delete, DeleteFails
<1> QED BY <1>1, <1>2, <1>3, <1>4, <1>5 DEF Next, Pass, vars

(* The last batch of an undisturbed run was all that was left.             *)
LEMMA SweepStep ==
  ASSUME TypeOK, BatchInv, QuietRunSweepsAll, [Next]_vars
  PROVE  QuietRunSweepsAll'
<1> SUFFICES ASSUME NEW b \in Cleaners, pc'[b] = "clean", quiet'[b]
             PROVE  StaleRows(cutoff[b])' = {}
  BY DEF QuietRunSweepsAll
<1>1. CASE UNCHANGED <<updated, pc, cutoff, quiet>>
  BY <1>1 DEF QuietRunSweepsAll, StaleRows, Stale
<1>2. ASSUME NEW x \in Rows, Write(x) PROVE StaleRows(cutoff[b])' = {}
  <2>1. quiet[b] /\ pc[b] = "clean"
    BY <1>2 DEF Write, TypeOK
  <2> QED BY <1>2, <2>1, WriteKeepsStale DEF QuietRunSweepsAll
<1>3. ASSUME NEW c \in Cleaners, StartRun(c) \/ Select(c)
      PROVE  StaleRows(cutoff[b])' = {}
  <2>1. b # c
    BY <1>3 DEF StartRun, Select, TypeOK
  <2> QED BY <1>3, <2>1
          DEF StartRun, Select, TypeOK, QuietRunSweepsAll, StaleRows, Stale
<1>4. ASSUME NEW c \in Cleaners, c # b, Delete(c) \/ DeleteFails(c)
      PROVE  StaleRows(cutoff[b])' = {}
  <2>1. pc[b] = "clean" /\ cutoff' = cutoff
    BY <1>4 DEF Delete, DeleteFails, TypeOK
  <2>2. CASE Remove(c, Hits(c))
    <3>1. Hits(c) \in SUBSET Rows
      BY DEF Hits, TypeOK
    <3>2. quiet[b]
      BY <2>2, <3>1, RemoveType
    <3>3. StaleRows(cutoff[b])' = StaleRows(cutoff[b])
      BY <1>4, <2>1, <2>2, <3>1, RemoveKeepsStale
    <3> QED BY <2>1, <3>2, <3>3 DEF QuietRunSweepsAll
  <2>3. CASE UNCHANGED <<updated, quiet>>
    BY <2>1, <2>3 DEF QuietRunSweepsAll, StaleRows, Stale
  <2> QED BY <1>4, <2>2, <2>3 DEF Delete, DeleteFails
<1>5. CASE Delete(b)
  <2>1. /\ pc[b] = "delete" /\ cutoff' = cutoff
        /\ Remove(b, Hits(b)) /\ Cardinality(Hits(b)) < BatchSize
    BY <1>5 DEF Delete, TypeOK
  <2>2. quiet[b]
    BY <2>1, RemoveType, Hits(b) \in SUBSET Rows DEF Hits, TypeOK
  <2>3. batch[b] \in Candidates(cutoff[b])
    BY <2>1, <2>2 DEF BatchInv
  <2>4. Hits(b) = batch[b]
    BY <2>3 DEF Hits, Candidates, StaleRows
  <2>5. Hits(b) = StaleRows(cutoff[b])
    BY <2>1, <2>3, <2>4 DEF Candidates
  <2> QED BY <2>1, <2>5 DEF Remove, StaleRows, Stale
<1>6. CASE DeleteFails(b)
  BY <1>6 DEF DeleteFails, TypeOK
<1> QED BY <1>1, <1>2, <1>3, <1>4, <1>5, <1>6 DEF Next, Pass, vars

(* A cutoff lies at least the retention time before the clock, so what a   *)
(* DELETE finds older than it has not been updated for that long.          *)
LEMMA DeletedStep ==
  ASSUME TypeOK, [Next]_vars
  PROVE  \A x \in Rows :
           updated[x] # Gone /\ updated'[x] = Gone =>
             updated[x] < now - Retention
<1> SUFFICES ASSUME NEW x \in Rows, updated[x] # Gone, updated'[x] = Gone
             PROVE  updated[x] < now - Retention
  OBVIOUS
<1>1. CASE UNCHANGED updated
  BY <1>1
<1>2. ASSUME NEW y \in Rows, Write(y) PROVE FALSE
  BY <1>2 DEF Write, TypeOK, Gone
<1>3. ASSUME NEW c \in Cleaners, Remove(c, Hits(c))
      PROVE  updated[x] < now - Retention
  <2>1. x \in Hits(c)
    BY <1>3 DEF Remove
  <2> QED BY <2>1, ConstantsAssumption DEF Hits, Stale, TypeOK, Gone
<1> QED BY <1>1, <1>2, <1>3
        DEF Next, Pass, StartRun, Select, Delete, DeleteFails, vars

(* The inductive invariant holds in every reachable state.                 *)
THEOREM Invariance == Spec => []IInv
<1>1. IInv /\ [Next]_vars => IInv'
  BY TypeStep, BatchStep, SweepStep DEF IInv
<1> QED BY InitInv, <1>1, PTL DEF Spec

(* Every variable keeps its type, and no cutoff comes too close.           *)
THEOREM TypeCorrect == Spec => []TypeOK
<1>1. IInv => TypeOK
  BY DEF IInv
<1> QED BY <1>1, Invariance, PTL

(* A run that ends without an error and undisturbed leaves no stale row.   *)
THEOREM SweepCorrect == Spec => []QuietRunSweepsAll
<1>1. IInv => QuietRunSweepsAll
  BY DEF IInv
<1> QED BY <1>1, Invariance, PTL

(* Only rows not updated for the retention time are ever deleted.          *)
THEOREM DeleteCorrect == Spec => OnlyStaleDeleted
<1>1. TypeOK /\ [Next]_vars =>
        [\A x \in Rows :
           updated[x] # Gone /\ updated'[x] = Gone =>
             updated[x] < now - Retention]_vars
  BY DeletedStep
<1> QED BY <1>1, TypeCorrect, PTL DEF Spec, OnlyStaleDeleted

=============================================================================
