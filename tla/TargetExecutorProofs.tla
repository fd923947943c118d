------------------------ MODULE TargetExecutorProofs ------------------------
(***************************************************************************)
(* Proofs about TargetExecutor, for any number of goroutines, targets,     *)
(* channels, symbols, slots, configuration changes and crashes.            *)
(***************************************************************************)
EXTENDS TargetExecutor, TLAPS

(* A frame at the start of Execute is a frame.                             *)
LEMMA IdleFrameType ==
  ASSUME NEW due \in SUBSET Slots
  PROVE  IdleFrame(due) \in Frames
BY DEF IdleFrame, Frames

(* Every job has a candle to fetch.                                        *)
LEMMA FeedOfType ==
  \A k \in JobKeys : FeedOf(k) \in Feeds
BY DEF FeedOf, Feeds, JobKeys

(* Replacing one goroutine's frame by a frame keeps the type.              *)
LEMMA SetFrameType ==
  ASSUME TypeOK, NEW r \in Runs, NEW f \in Frames, SetFrame(r, f)
  PROVE  frame' \in [Runs -> Frames]
BY DEF TypeOK, SetFrame

(* Creating a row keeps the table's type.                                  *)
LEMMA CreateType ==
  ASSUME TypeOK, NEW k \in JobKeys, CreateIfNotExists(k)
  PROVE  JobsType'
BY DEF TypeOK, JobsType, JobStatus, Unsent, CreateIfNotExists

(* Marking a row keeps the table's type.                                   *)
LEMMA MarkType ==
  ASSUME TypeOK, NEW k \in JobKeys, MarkSent(k) \/ MarkFailed(k)
  PROVE  JobsType'
BY DEF TypeOK, JobsType, JobStatus, Unsent, MarkSent, MarkFailed, UpdateStatus

(* Every step keeps the types; LoadInv is needed because the loading steps *)
(* read the configuration of frame[r].cur.                                 *)
LEMMA TypeStep ==
  ASSUME TypeOK, LoadInv, [Next]_vars
  PROVE  TypeOK'
<1>1. ASSUME NEW r \in Runs, NEW due \in Boundaries,
              Tick(r, due)
       PROVE  TypeOK'
  BY <1>1, IdleFrameType, ConstantsAssumption DEF Tick, SetFrame, Goto,
     TypeOK, JobsType, JobStatus, Unsent, PCs, Inside, storeVars, Frames,
     IdleFrame
<1>2. ASSUME NEW r \in Runs, NEW s \in Slots,
              Acquire(r, s)
       PROVE  TypeOK'
  <2> DEFINE f == [IdleFrame(frame[r].due \ {s}) EXCEPT
                     !.slot = s,
                     !.enabledSeen = {t \in Targets : Active(t)}]
  <2>1. IdleFrame(frame[r].due \ {s}) \in Frames
    BY IdleFrameType DEF TypeOK, Frames
  <2>2. f \in Frames
    BY <2>1 DEF Frames
  <2>3. SetFrame(r, f)
    BY <1>2 DEF Acquire
  <2>4. frame' \in [Runs -> Frames]
    BY <2>2, <2>3, SetFrameType
  <2> QED
    BY <1>2, <2>4 DEF Acquire, Goto, TypeOK, JobsType, PCs, Inside, storeVars
<1>3. ASSUME NEW r \in Runs,
              ListTargets(r)
       PROVE  TypeOK'
  <2>1. frame[r] \in Frames
    BY DEF TypeOK
  <2> DEFINE f == [frame[r] EXCEPT !.todo = registered]
  <2>2. f \in Frames
    BY <1>3, <2>1 DEF Frames, TypeOK
  <2>3. SetFrame(r, f)
    BY <1>3 DEF ListTargets
  <2>4. frame' \in [Runs -> Frames]
    BY <2>2, <2>3, SetFrameType
  <2> QED
    BY <1>3, <2>4 DEF ListTargets, Goto, TypeOK, JobsType, PCs, Inside,
       storeVars
<1>4. ASSUME NEW r \in Runs,
              RunLegacy(r)
       PROVE  TypeOK'
  <2>1. frame[r] \in Frames
    BY DEF TypeOK
  <2> DEFINE f == [frame[r] EXCEPT !.toCreate = LegacyKeys(frame[r].slot)]
  <2>2. f \in Frames
    BY <1>4, <2>1 DEF Frames, LegacyKeys
  <2>3. SetFrame(r, f)
    BY <1>4 DEF RunLegacy
  <2>4. frame' \in [Runs -> Frames]
    BY <2>2, <2>3, SetFrameType
  <2> QED
    BY <1>4, <2>4 DEF RunLegacy, Goto, TypeOK, JobsType, PCs, Inside,
       storeVars
<1>5. ASSUME NEW r \in Runs,
              ListFails(r)
       PROVE  TypeOK'
  BY <1>5, IdleFrameType DEF ListFails, Return, SetFrame, Goto, TypeOK,
     JobsType, JobStatus, Unsent, PCs, Inside, storeVars, Frames, IdleFrame
<1>6. ASSUME NEW r \in Runs, NEW t \in Targets,
              LoadRow(r, t)
       PROVE  TypeOK'
  <2>1. frame[r] \in Frames
    BY DEF TypeOK
  <2> DEFINE f == [frame[r] EXCEPT !.cur = t, !.draft = config[t]]
  <2>2. f \in Frames
    BY <1>6, <2>1 DEF Frames, TypeOK, Owners, LoadRow
  <2>3. SetFrame(r, f)
    BY <1>6 DEF LoadRow
  <2>4. frame' \in [Runs -> Frames]
    BY <2>2, <2>3, SetFrameType
  <2> QED
    BY <1>6, <2>4 DEF LoadRow, Goto, TypeOK, JobsType, PCs, Inside, storeVars
<1>7. ASSUME NEW r \in Runs, NEW t \in Targets,
              LoadFails(r, t)
       PROVE  TypeOK'
  <2>1. frame[r] \in Frames
    BY DEF TypeOK
  <2> DEFINE f == [frame[r] EXCEPT !.todo = @ \ {t}, !.cur = NoTarget,
                         !.draft = NoConfig]
  <2>2. f \in Frames
    BY <1>7, <2>1 DEF Frames
  <2>3. SetFrame(r, f)
    BY <1>7 DEF LoadFails
  <2>4. frame' \in [Runs -> Frames]
    BY <2>2, <2>3, SetFrameType
  <2> QED
    BY <1>7, <2>4 DEF LoadFails, Goto, TypeOK, JobsType, PCs, Inside,
       storeVars
<1>8. ASSUME NEW r \in Runs,
              LoadSymbols(r)
       PROVE  TypeOK'
  <2>1. frame[r] \in Frames
    BY DEF TypeOK
  <2> DEFINE f == [frame[r] EXCEPT
                 !.draft.symbols = config[frame[r].cur].symbols]
  <2>2. f \in Frames
    BY <1>8, <2>1 DEF Frames, LoadInv, Configs, LoadSymbols
  <2>3. SetFrame(r, f)
    BY <1>8 DEF LoadSymbols
  <2>4. frame' \in [Runs -> Frames]
    BY <2>2, <2>3, SetFrameType
  <2> QED
    BY <1>8, <2>4 DEF LoadSymbols, Goto, TypeOK, JobsType, PCs, Inside,
       storeVars
<1>9. ASSUME NEW r \in Runs,
              LoadIntervals(r)
       PROVE  TypeOK'
  <2> DEFINE t == frame[r].cur
             c == [frame[r].draft EXCEPT !.intervals = config[t].intervals]
             f == [frame[r] EXCEPT
                     !.todo = @ \ {t}, !.cur = NoTarget, !.draft = NoConfig,
                     !.toCreate = IF Eligible(c, frame[r].slot)
                                  THEN @ \cup KeysOf(t, c, frame[r].slot)
                                  ELSE @]
  <2>1. frame[r] \in Frames
    BY DEF TypeOK
  <2>2. KeysOf(t, c, frame[r].slot) \subseteq JobKeys
    BY DEF KeysOf
  <2> HIDE DEF t, c
  <2>3. f \in Frames
    BY <2>1, <2>2 DEF Frames
  <2>4. SetFrame(r, f)
    BY <1>9 DEF LoadIntervals, t, c
  <2>5. frame' \in [Runs -> Frames]
    BY <2>3, <2>4, SetFrameType
  <2> QED
    BY <1>9, <2>5 DEF LoadIntervals, Goto, TypeOK, JobsType, PCs, Inside,
       storeVars
<1>10. ASSUME NEW r \in Runs,
              LoadDone(r)
       PROVE  TypeOK'
  BY <1>10 DEF LoadDone, Goto, TypeOK, JobsType, PCs, Inside, storeVars
<1>11. ASSUME NEW r \in Runs, NEW k \in JobKeys,
              CreateJob(r, k)
       PROVE  TypeOK'
  <2>1. frame[r] \in Frames
    BY DEF TypeOK
  <2> DEFINE f == [frame[r] EXCEPT
                 !.toCreate = @ \ {k},
                 !.pending = IF jobs[k] = "sent" THEN @ ELSE @ \cup {k},
                 !.needed = IF jobs[k] = "sent" THEN @ ELSE @ \cup {FeedOf(k)}]
  <2>2. f \in Frames
    BY <1>11, <2>1, FeedOfType DEF Frames
  <2>3. SetFrame(r, f)
    BY <1>11 DEF CreateJob
  <2>4. frame' \in [Runs -> Frames]
    BY <2>2, <2>3, SetFrameType
  <2>5. JobsType'
    BY <1>11, CreateType DEF TypeOK, JobsType, CreateJob
  <2> QED
    BY <1>11, <2>4, <2>5 DEF CreateJob, Goto, TypeOK, PCs, Inside, storeVars
<1>12. ASSUME NEW r \in Runs, NEW k \in JobKeys,
              DropTarget(r, k)
       PROVE  TypeOK'
  <2>1. frame[r] \in Frames
    BY DEF TypeOK
  <2> DEFINE f == [frame[r] EXCEPT
                 !.toCreate = {j \in @ : j.target # k.target},
                 !.pending = {j \in @ : j.target # k.target}]
  <2>2. f \in Frames
    BY <1>12, <2>1 DEF Frames
  <2>3. SetFrame(r, f)
    BY <1>12 DEF DropTarget
  <2>4. frame' \in [Runs -> Frames]
    BY <2>2, <2>3, SetFrameType
  <2>5. JobsType'
    BY <1>12, CreateType DEF TypeOK, JobsType, DropTarget, CreateReturnsError
  <2> QED
    BY <1>12, <2>4, <2>5 DEF DropTarget, Goto, TypeOK, PCs, Inside, storeVars
<1>13. ASSUME NEW r \in Runs,
              CreateDone(r)
       PROVE  TypeOK'
  BY <1>13 DEF CreateDone, Goto, TypeOK, JobsType, PCs, Inside, storeVars
<1>14. ASSUME NEW r \in Runs,
              NothingNeeded(r)
       PROVE  TypeOK'
  BY <1>14, IdleFrameType DEF NothingNeeded, Return, SetFrame, Goto, TypeOK,
     JobsType, JobStatus, Unsent, PCs, Inside, storeVars, Frames, IdleFrame
<1>15. ASSUME NEW r \in Runs, NEW f \in Feeds,
              Fetch(r, f)
       PROVE  TypeOK'
  <2>1. frame[r] \in Frames
    BY DEF TypeOK
  <2> DEFINE g == [frame[r] EXCEPT !.needed = @ \ {f},
                                 !.fetched = @ \cup {f}]
  <2>2. g \in Frames
    BY <1>15, <2>1 DEF Frames
  <2>3. SetFrame(r, g)
    BY <1>15 DEF Fetch
  <2>4. frame' \in [Runs -> Frames]
    BY <2>2, <2>3, SetFrameType
  <2> QED
    BY <1>15, <2>4 DEF Fetch, Goto, TypeOK, JobsType, PCs, Inside, storeVars
<1>16. ASSUME NEW r \in Runs, NEW k \in JobKeys,
              LegacyCreate(r, k)
       PROVE  TypeOK'
  <2>1. frame[r] \in Frames
    BY DEF TypeOK
  <2> DEFINE f == [frame[r] EXCEPT
                 !.toCreate = @ \ {k},
                 !.pending = IF jobs[k] = "sent" THEN @ ELSE @ \cup {k},
                 !.fetched = IF jobs[k] = "sent" THEN @
                                ELSE @ \cup {FeedOf(k)}]
  <2>2. f \in Frames
    BY <1>16, <2>1, FeedOfType DEF Frames
  <2>3. SetFrame(r, f)
    BY <1>16 DEF LegacyCreate
  <2>4. frame' \in [Runs -> Frames]
    BY <2>2, <2>3, SetFrameType
  <2>5. JobsType'
    BY <1>16, CreateType DEF TypeOK, JobsType, LegacyCreate
  <2> QED
    BY <1>16, <2>4, <2>5 DEF LegacyCreate, Goto, TypeOK, PCs, Inside,
       storeVars
<1>17. ASSUME NEW r \in Runs, NEW k \in JobKeys,
              LegacyFails(r, k)
       PROVE  TypeOK'
  BY <1>17, IdleFrameType DEF LegacyFails, Return, CreateReturnsError,
     CreateIfNotExists, SetFrame, Goto, TypeOK, JobsType, JobStatus, Unsent,
     PCs, Inside, storeVars, Frames, IdleFrame
<1>18. ASSUME NEW r \in Runs,
              LegacyDone(r)
       PROVE  TypeOK'
  BY <1>18 DEF LegacyDone, Goto, TypeOK, JobsType, PCs, Inside, storeVars
<1>19. ASSUME NEW r \in Runs, NEW t \in Owners,
              Deliver(r, t)
       PROVE  TypeOK'
  <2>1. frame[r] \in Frames
    BY DEF TypeOK
  <2> DEFINE f == [frame[r] EXCEPT !.cur = t, !.toNotify = Notifiers,
                         !.sendErr = FALSE]
  <2>2. f \in Frames
    BY <1>19, <2>1 DEF Frames
  <2>3. SetFrame(r, f)
    BY <1>19 DEF Deliver
  <2>4. frame' \in [Runs -> Frames]
    BY <2>2, <2>3, SetFrameType
  <2> QED
    BY <1>19, <2>4 DEF Deliver, Goto, TypeOK, JobsType, PCs, Inside, storeVars
<1>20. ASSUME NEW r \in Runs, NEW n \in Notifiers,
              Notify(r, n)
       PROVE  TypeOK'
  <2>1. PICK err \in BOOLEAN :
          SetFrame(r, [frame[r] EXCEPT !.toNotify = @ \ {n},
                                       !.sendErr = @ \/ err])
    BY <1>20 DEF Notify
  <2>2. frame[r] \in Frames
    BY DEF TypeOK
  <2>3. (frame[r].sendErr \/ err) \in BOOLEAN
    OBVIOUS
  <2>4. [frame[r] EXCEPT !.toNotify = @ \ {n},
                         !.sendErr = @ \/ err] \in Frames
    BY <2>2, <2>3 DEF Frames
  <2>5. frame' \in [Runs -> Frames]
    BY <2>1, <2>4, SetFrameType
  <2>6. delivered' \in [Notifiers -> [JobKeys -> Nat]]
    BY <1>20 DEF Notify, Accepts, TypeOK
  <2> QED
    BY <1>20, <2>5, <2>6 DEF Notify, TypeOK, JobsType, storeVars
<1>21. ASSUME NEW r \in Runs,
              NotifyDone(r)
       PROVE  TypeOK'
  BY <1>21 DEF NotifyDone, Goto, TypeOK, JobsType, PCs, Inside, storeVars
<1>22. ASSUME NEW r \in Runs,
              DeliverDone(r)
       PROVE  TypeOK'
  BY <1>22, IdleFrameType DEF DeliverDone, Return, SetFrame, Goto, TypeOK,
     JobsType, JobStatus, Unsent, PCs, Inside, storeVars, Frames, IdleFrame
<1>23. ASSUME NEW r \in Runs, NEW k \in JobKeys,
              Mark(r, k)
       PROVE  TypeOK'
  <2>1. frame[r] \in Frames
    BY DEF TypeOK
  <2> DEFINE f == [frame[r] EXCEPT !.pending = @ \ {k}]
  <2>2. f \in Frames
    BY <1>23, <2>1 DEF Frames, Mark, Items
  <2>3. SetFrame(r, f)
    BY <1>23 DEF Mark
  <2>4. frame' \in [Runs -> Frames]
    BY <2>2, <2>3, SetFrameType
  <2>5. JobsType'
    BY <1>23, MarkType DEF TypeOK, JobsType, Mark, Items
  <2> QED
    BY <1>23, <2>4, <2>5 DEF Mark, Goto, TypeOK, PCs, Inside, storeVars
<1>24. ASSUME NEW t \in Targets,
              RegisterTarget(t)
       PROVE  TypeOK'
  BY <1>24 DEF RegisterTarget, Goto, TypeOK, JobsType, PCs, Inside, storeVars
<1>25. ASSUME NEW t \in Targets, NEW c \in Configs,
              SaveConfig(t, c)
       PROVE  TypeOK'
  <2>1. ASSUME NEW r \in Runs
        PROVE  [frame[r] EXCEPT !.enabledSeen = @ \cup {t}] \in Frames
    BY DEF TypeOK, Frames
  <2>2. frame' \in [Runs -> Frames]
    BY <1>25, <2>1 DEF SaveConfig, TypeOK
  <2> QED
    BY <1>25, <2>2 DEF SaveConfig, TypeOK, JobsType
<1>26. CASE Crash
  BY <1>26, IdleFrameType DEF Crash, SetFrame, Goto, TypeOK, JobsType,
     JobStatus, Unsent, PCs, Inside, storeVars, Frames, IdleFrame
<1>27. CASE UNCHANGED vars
  BY <1>27 DEF vars, Goto, TypeOK, JobsType, PCs, Inside, storeVars
<1> QED
  BY <1>1, <1>2, <1>3, <1>4, <1>5, <1>6, <1>7, <1>8, <1>9, <1>10, <1>11,
     <1>12, <1>13, <1>14, <1>15, <1>16, <1>17, <1>18, <1>19, <1>20, <1>21,
     <1>22, <1>23, <1>24, <1>25, <1>26, <1>27 DEF Next, Step, AllReturned

(* The mutex is free when a goroutine enters Execute and is given up when  *)
(* it leaves, so no two goroutines are inside.                             *)
LEMMA LockStep ==
  ASSUME TypeOK, LockInv, [Next]_vars
  PROVE  LockInv'
<1>1. ASSUME NEW r \in Runs, NEW due \in Boundaries, Tick(r, due)
      PROVE  LockInv'
  BY <1>1 DEF Tick, Goto, SetFrame, TypeOK, Inside, LockInv
<1>2. ASSUME NEW r \in Runs, NEW s \in Slots, Acquire(r, s) PROVE LockInv'
  BY <1>2, ConstantsAssumption DEF Acquire, Goto, SetFrame, TypeOK, LockInv
<1>3. ASSUME NEW r \in Runs, ListTargets(r) PROVE LockInv'
  BY <1>3 DEF ListTargets, Goto, SetFrame, TypeOK, Inside, LockInv
<1>4. ASSUME NEW r \in Runs, RunLegacy(r) PROVE LockInv'
  BY <1>4 DEF RunLegacy, Goto, SetFrame, TypeOK, Inside, LockInv
<1>5. ASSUME NEW r \in Runs, ListFails(r) PROVE LockInv'
  BY <1>5 DEF ListFails, Return, Goto, SetFrame, TypeOK, Inside, LockInv
<1>6. ASSUME NEW r \in Runs, NEW t \in Targets, LoadRow(r, t) PROVE LockInv'
  BY <1>6 DEF LoadRow, Goto, SetFrame, TypeOK, Inside, LockInv
<1>7. ASSUME NEW r \in Runs, NEW t \in Targets, LoadFails(r, t)
      PROVE  LockInv'
  BY <1>7 DEF LoadFails, Goto, SetFrame, TypeOK, Inside, LockInv
<1>8. ASSUME NEW r \in Runs, LoadSymbols(r) PROVE LockInv'
  BY <1>8 DEF LoadSymbols, Goto, SetFrame, TypeOK, Inside, LockInv
<1>9. ASSUME NEW r \in Runs, LoadIntervals(r) PROVE LockInv'
  BY <1>9 DEF LoadIntervals, KeysOf, Eligible, Goto, SetFrame, TypeOK, Inside,
     LockInv
<1>10. ASSUME NEW r \in Runs, LoadDone(r) PROVE LockInv'
  BY <1>10 DEF LoadDone, Goto, SetFrame, TypeOK, Inside, LockInv
<1>11. ASSUME NEW r \in Runs, NEW k \in JobKeys, CreateJob(r, k)
      PROVE  LockInv'
  BY <1>11 DEF CreateJob, CreateIfNotExists, FeedOf, Goto, SetFrame, TypeOK,
     LockInv
<1>12. ASSUME NEW r \in Runs, NEW k \in JobKeys, DropTarget(r, k)
      PROVE  LockInv'
  BY <1>12 DEF DropTarget, CreateReturnsError, CreateIfNotExists, Goto,
     SetFrame, TypeOK, LockInv
<1>13. ASSUME NEW r \in Runs, CreateDone(r) PROVE LockInv'
  BY <1>13 DEF CreateDone, Goto, SetFrame, TypeOK, Inside, LockInv
<1>14. ASSUME NEW r \in Runs, NothingNeeded(r) PROVE LockInv'
  BY <1>14 DEF NothingNeeded, Return, Goto, SetFrame, TypeOK, Inside, LockInv
<1>15. ASSUME NEW r \in Runs, NEW f \in Feeds, Fetch(r, f) PROVE LockInv'
  BY <1>15 DEF Fetch, Goto, SetFrame, TypeOK, Inside, LockInv
<1>16. ASSUME NEW r \in Runs, NEW k \in JobKeys, LegacyCreate(r, k)
      PROVE  LockInv'
  BY <1>16 DEF LegacyCreate, CreateIfNotExists, FeedOf, Goto, SetFrame,
     TypeOK, LockInv
<1>17. ASSUME NEW r \in Runs, NEW k \in JobKeys, LegacyFails(r, k)
      PROVE  LockInv'
  BY <1>17 DEF LegacyFails, Return, CreateReturnsError, CreateIfNotExists,
     Goto, SetFrame, TypeOK, Inside, LockInv
<1>18. ASSUME NEW r \in Runs, LegacyDone(r) PROVE LockInv'
  BY <1>18 DEF LegacyDone, Goto, SetFrame, TypeOK, Inside, LockInv
<1>19. ASSUME NEW r \in Runs, NEW t \in Owners, Deliver(r, t) PROVE LockInv'
  BY <1>19 DEF Deliver, Goto, SetFrame, TypeOK, Inside, LockInv
<1>20. ASSUME NEW r \in Runs, NEW n \in Notifiers, Notify(r, n)
      PROVE  LockInv'
  BY <1>20 DEF Notify, Goto, SetFrame, TypeOK, LockInv
<1>21. ASSUME NEW r \in Runs, NotifyDone(r) PROVE LockInv'
  BY <1>21 DEF NotifyDone, Goto, SetFrame, TypeOK, Inside, LockInv
<1>22. ASSUME NEW r \in Runs, DeliverDone(r) PROVE LockInv'
  BY <1>22 DEF DeliverDone, Return, Goto, SetFrame, TypeOK, Inside, LockInv
<1>23. ASSUME NEW r \in Runs, NEW k \in JobKeys, Mark(r, k) PROVE LockInv'
  BY <1>23 DEF Mark, MarkSent, MarkFailed, UpdateStatus, Goto, SetFrame,
     TypeOK, Inside, LockInv
<1>24. ASSUME NEW t \in Targets, RegisterTarget(t) PROVE LockInv'
  BY <1>24 DEF RegisterTarget, TypeOK, LockInv
<1>25. ASSUME NEW t \in Targets, NEW c \in Configs, SaveConfig(t, c)
      PROVE  LockInv'
  BY <1>25 DEF SaveConfig, TypeOK, LockInv
<1>26. CASE Crash
  BY <1>26 DEF Crash, TypeOK, Inside, LockInv
<1>27. CASE UNCHANGED vars
  BY <1>27 DEF vars, TypeOK, LockInv
<1> QED
  BY <1>1, <1>2, <1>3, <1>4, <1>5, <1>6, <1>7, <1>8, <1>9, <1>10, <1>11,
     <1>12, <1>13, <1>14, <1>15, <1>16, <1>17, <1>18, <1>19, <1>20, <1>21,
     <1>22, <1>23, <1>24, <1>25, <1>26, <1>27 DEF Next, Step, AllReturned

(* Queued jobs stay unsent: only the holder of the mutex marks, and it     *)
(* takes a job out of its queue as it marks it.                            *)
LEMMA PendingStep ==
  ASSUME TypeOK, LockInv, PendingInv, [Next]_vars
  PROVE  PendingInv'
<1>1. ASSUME NEW r \in Runs, NEW due \in Boundaries, Tick(r, due)
      PROVE  PendingInv'
  BY <1>1 DEF Tick, Goto, SetFrame, TypeOK, PendingInv, IdleFrame
<1>2. ASSUME NEW r \in Runs, NEW s \in Slots, Acquire(r, s)
      PROVE  PendingInv'
  BY <1>2 DEF Acquire, Goto, SetFrame, TypeOK, PendingInv, IdleFrame
<1>3. ASSUME NEW r \in Runs, ListTargets(r) PROVE PendingInv'
  BY <1>3 DEF ListTargets, Goto, SetFrame, TypeOK, PendingInv
<1>4. ASSUME NEW r \in Runs, RunLegacy(r) PROVE PendingInv'
  BY <1>4 DEF RunLegacy, Goto, SetFrame, TypeOK, PendingInv
<1>5. ASSUME NEW r \in Runs, ListFails(r) PROVE PendingInv'
  BY <1>5 DEF ListFails, Return, Goto, SetFrame, TypeOK, PendingInv, IdleFrame
<1>6. ASSUME NEW r \in Runs, NEW t \in Targets, LoadRow(r, t)
      PROVE  PendingInv'
  BY <1>6 DEF LoadRow, Goto, SetFrame, TypeOK, PendingInv
<1>7. ASSUME NEW r \in Runs, NEW t \in Targets, LoadFails(r, t)
      PROVE  PendingInv'
  BY <1>7 DEF LoadFails, Goto, SetFrame, TypeOK, PendingInv
<1>8. ASSUME NEW r \in Runs, LoadSymbols(r) PROVE PendingInv'
  BY <1>8 DEF LoadSymbols, Goto, SetFrame, TypeOK, PendingInv
<1>9. ASSUME NEW r \in Runs, LoadIntervals(r) PROVE PendingInv'
  BY <1>9 DEF LoadIntervals, KeysOf, Eligible, Goto, SetFrame, TypeOK,
     PendingInv
<1>10. ASSUME NEW r \in Runs, LoadDone(r) PROVE PendingInv'
  BY <1>10 DEF LoadDone, Goto, SetFrame, TypeOK, PendingInv
<1>11. ASSUME NEW r \in Runs, NEW k \in JobKeys, CreateJob(r, k)
      PROVE  PendingInv'
  BY <1>11 DEF CreateJob, CreateIfNotExists, FeedOf, Goto, SetFrame, TypeOK,
     PendingInv, Unsent, JobsType, JobStatus
<1>12. ASSUME NEW r \in Runs, NEW k \in JobKeys, DropTarget(r, k)
      PROVE  PendingInv'
  BY <1>12 DEF DropTarget, CreateReturnsError, CreateIfNotExists, Goto,
     SetFrame, TypeOK, Frames, PendingInv, Unsent, JobsType
<1>13. ASSUME NEW r \in Runs, CreateDone(r) PROVE PendingInv'
  BY <1>13 DEF CreateDone, Goto, SetFrame, TypeOK, PendingInv
<1>14. ASSUME NEW r \in Runs, NothingNeeded(r) PROVE PendingInv'
  BY <1>14 DEF NothingNeeded, Return, Goto, SetFrame, TypeOK, PendingInv,
     IdleFrame
<1>15. ASSUME NEW r \in Runs, NEW f \in Feeds, Fetch(r, f) PROVE PendingInv'
  BY <1>15 DEF Fetch, Goto, SetFrame, TypeOK, PendingInv
<1>16. ASSUME NEW r \in Runs, NEW k \in JobKeys, LegacyCreate(r, k)
      PROVE  PendingInv'
  BY <1>16 DEF LegacyCreate, CreateIfNotExists, FeedOf, Goto, SetFrame,
     TypeOK, PendingInv, Unsent, JobsType, JobStatus
<1>17. ASSUME NEW r \in Runs, NEW k \in JobKeys, LegacyFails(r, k)
      PROVE  PendingInv'
  BY <1>17 DEF LegacyFails, Return, CreateReturnsError, CreateIfNotExists,
     Goto, SetFrame, TypeOK, Inside, LockInv, PendingInv, IdleFrame
<1>18. ASSUME NEW r \in Runs, LegacyDone(r) PROVE PendingInv'
  BY <1>18 DEF LegacyDone, Goto, SetFrame, TypeOK, PendingInv
<1>19. ASSUME NEW r \in Runs, NEW t \in Owners, Deliver(r, t)
      PROVE  PendingInv'
  BY <1>19 DEF Deliver, Goto, SetFrame, TypeOK, PendingInv
<1>20. ASSUME NEW r \in Runs, NEW n \in Notifiers, Notify(r, n)
      PROVE  PendingInv'
  BY <1>20 DEF Notify, Goto, SetFrame, TypeOK, PendingInv
<1>21. ASSUME NEW r \in Runs, NotifyDone(r) PROVE PendingInv'
  BY <1>21 DEF NotifyDone, Goto, SetFrame, TypeOK, PendingInv
<1>22. ASSUME NEW r \in Runs, DeliverDone(r) PROVE PendingInv'
  BY <1>22 DEF DeliverDone, Return, Goto, SetFrame, TypeOK, PendingInv,
     IdleFrame
<1>23. ASSUME NEW r \in Runs, NEW k \in JobKeys, Mark(r, k)
      PROVE  PendingInv'
  BY <1>23 DEF Mark, MarkSent, MarkFailed, UpdateStatus, Goto, SetFrame,
     TypeOK, Frames, Inside, LockInv, PendingInv, JobsType
<1>24. ASSUME NEW t \in Targets, RegisterTarget(t) PROVE PendingInv'
  BY <1>24 DEF RegisterTarget, TypeOK, PendingInv
<1>25. ASSUME NEW t \in Targets, NEW c \in Configs, SaveConfig(t, c)
      PROVE  PendingInv'
  BY <1>25 DEF SaveConfig, TypeOK, PendingInv
<1>26. CASE Crash
  BY <1>26 DEF Crash, TypeOK, PendingInv, IdleFrame
<1>27. CASE UNCHANGED vars
  BY <1>27 DEF vars, TypeOK, PendingInv
<1> QED
  BY <1>1, <1>2, <1>3, <1>4, <1>5, <1>6, <1>7, <1>8, <1>9, <1>10, <1>11,
     <1>12, <1>13, <1>14, <1>15, <1>16, <1>17, <1>18, <1>19, <1>20, <1>21,
     <1>22, <1>23, <1>24, <1>25, <1>26, <1>27 DEF Next, Step, AllReturned

(* A configuration that is being read is never removed, and an enabled     *)
(* row was enabled when it was read.                                       *)
LEMMA LoadStep ==
  ASSUME TypeOK, LoadInv, SeenInv, [Next]_vars
  PROVE  LoadInv'
<1>1. ASSUME NEW r \in Runs, NEW due \in Boundaries, Tick(r, due)
      PROVE  LoadInv'
  BY <1>1 DEF Tick, Goto, SetFrame, storeVars, TypeOK, LoadInv
<1>2. ASSUME NEW r \in Runs, NEW s \in Slots, Acquire(r, s) PROVE LoadInv'
  BY <1>2 DEF Acquire, Goto, SetFrame, storeVars, TypeOK, LoadInv
<1>3. ASSUME NEW r \in Runs, ListTargets(r) PROVE LoadInv'
  BY <1>3 DEF ListTargets, Goto, SetFrame, storeVars, TypeOK, LoadInv
<1>4. ASSUME NEW r \in Runs, RunLegacy(r) PROVE LoadInv'
  BY <1>4 DEF RunLegacy, Goto, SetFrame, storeVars, TypeOK, LoadInv
<1>5. ASSUME NEW r \in Runs, ListFails(r) PROVE LoadInv'
  BY <1>5 DEF ListFails, Return, Goto, SetFrame, storeVars, TypeOK, LoadInv
<1>6. ASSUME NEW r \in Runs, NEW t \in Targets, LoadRow(r, t) PROVE LoadInv'
  BY <1>6, NoConfigAssumption DEF LoadRow, Goto, SetFrame, storeVars, TypeOK,
     Inside, LoadInv, SeenInv, Active
<1>7. ASSUME NEW r \in Runs, NEW t \in Targets, LoadFails(r, t)
      PROVE  LoadInv'
  BY <1>7 DEF LoadFails, Goto, SetFrame, storeVars, TypeOK, LoadInv
<1>8. ASSUME NEW r \in Runs, LoadSymbols(r) PROVE LoadInv'
  BY <1>8, NoConfigAssumption DEF LoadSymbols, Goto, SetFrame, storeVars,
     TypeOK, LoadInv, Configs
<1>9. ASSUME NEW r \in Runs, LoadIntervals(r) PROVE LoadInv'
  BY <1>9 DEF LoadIntervals, KeysOf, Eligible, Goto, SetFrame, storeVars,
     TypeOK, LoadInv
<1>10. ASSUME NEW r \in Runs, LoadDone(r) PROVE LoadInv'
  BY <1>10 DEF LoadDone, Goto, SetFrame, storeVars, TypeOK, LoadInv
<1>11. ASSUME NEW r \in Runs, NEW k \in JobKeys, CreateJob(r, k)
      PROVE  LoadInv'
  BY <1>11 DEF CreateJob, CreateIfNotExists, FeedOf, Goto, SetFrame,
     storeVars, TypeOK, LoadInv
<1>12. ASSUME NEW r \in Runs, NEW k \in JobKeys, DropTarget(r, k)
      PROVE  LoadInv'
  BY <1>12 DEF DropTarget, CreateReturnsError, CreateIfNotExists, Goto,
     SetFrame, storeVars, TypeOK, LoadInv
<1>13. ASSUME NEW r \in Runs, CreateDone(r) PROVE LoadInv'
  BY <1>13 DEF CreateDone, Goto, SetFrame, storeVars, TypeOK, LoadInv
<1>14. ASSUME NEW r \in Runs, NothingNeeded(r) PROVE LoadInv'
  BY <1>14 DEF NothingNeeded, Return, Goto, SetFrame, storeVars, TypeOK,
     LoadInv
<1>15. ASSUME NEW r \in Runs, NEW f \in Feeds, Fetch(r, f) PROVE LoadInv'
  BY <1>15 DEF Fetch, Goto, SetFrame, storeVars, TypeOK, LoadInv
<1>16. ASSUME NEW r \in Runs, NEW k \in JobKeys, LegacyCreate(r, k)
      PROVE  LoadInv'
  BY <1>16 DEF LegacyCreate, CreateIfNotExists, FeedOf, Goto, SetFrame,
     storeVars, TypeOK, LoadInv
<1>17. ASSUME NEW r \in Runs, NEW k \in JobKeys, LegacyFails(r, k)
      PROVE  LoadInv'
  BY <1>17 DEF LegacyFails, Return, CreateReturnsError, CreateIfNotExists,
     Goto, SetFrame, storeVars, TypeOK, LoadInv
<1>18. ASSUME NEW r \in Runs, LegacyDone(r) PROVE LoadInv'
  BY <1>18 DEF LegacyDone, Goto, SetFrame, storeVars, TypeOK, LoadInv
<1>19. ASSUME NEW r \in Runs, NEW t \in Owners, Deliver(r, t) PROVE LoadInv'
  BY <1>19 DEF Deliver, Goto, SetFrame, storeVars, TypeOK, LoadInv
<1>20. ASSUME NEW r \in Runs, NEW n \in Notifiers, Notify(r, n)
      PROVE  LoadInv'
  BY <1>20 DEF Notify, Goto, SetFrame, storeVars, TypeOK, LoadInv
<1>21. ASSUME NEW r \in Runs, NotifyDone(r) PROVE LoadInv'
  BY <1>21 DEF NotifyDone, Goto, SetFrame, storeVars, TypeOK, LoadInv
<1>22. ASSUME NEW r \in Runs, DeliverDone(r) PROVE LoadInv'
  BY <1>22 DEF DeliverDone, Return, Goto, SetFrame, storeVars, TypeOK, LoadInv
<1>23. ASSUME NEW r \in Runs, NEW k \in JobKeys, Mark(r, k) PROVE LoadInv'
  BY <1>23 DEF Mark, MarkSent, MarkFailed, UpdateStatus, Goto, SetFrame,
     storeVars, TypeOK, LoadInv
<1>24. ASSUME NEW t \in Targets, RegisterTarget(t) PROVE LoadInv'
  BY <1>24 DEF RegisterTarget, TypeOK, LoadInv
<1>25. ASSUME NEW t \in Targets, NEW c \in Configs, SaveConfig(t, c)
      PROVE  LoadInv'
  BY <1>25, NoConfigAssumption DEF SaveConfig, TypeOK, LoadInv
<1>26. CASE Crash
  BY <1>26 DEF Crash, TypeOK, LoadInv
<1>27. CASE UNCHANGED vars
  BY <1>27 DEF vars, TypeOK, LoadInv
<1> QED
  BY <1>1, <1>2, <1>3, <1>4, <1>5, <1>6, <1>7, <1>8, <1>9, <1>10, <1>11,
     <1>12, <1>13, <1>14, <1>15, <1>16, <1>17, <1>18, <1>19, <1>20, <1>21,
     <1>22, <1>23, <1>24, <1>25, <1>26, <1>27 DEF Next, Step, AllReturned

(* A job joins the queue together with the candle it needs.                *)
LEMMA FetchStep ==
  ASSUME TypeOK, FetchInv, PendingInv, [Next]_vars
  PROVE  FetchInv'
<1>1. ASSUME NEW r \in Runs, NEW due \in Boundaries, Tick(r, due)
      PROVE  FetchInv'
  BY <1>1 DEF Tick, Goto, SetFrame, TypeOK, FetchInv
<1>2. ASSUME NEW r \in Runs, NEW s \in Slots, Acquire(r, s) PROVE FetchInv'
  BY <1>2 DEF Acquire, Goto, SetFrame, TypeOK, FetchInv
<1>3. ASSUME NEW r \in Runs, ListTargets(r) PROVE FetchInv'
  BY <1>3 DEF ListTargets, Goto, SetFrame, TypeOK, FetchInv
<1>4. ASSUME NEW r \in Runs, RunLegacy(r) PROVE FetchInv'
  BY <1>4 DEF RunLegacy, Goto, SetFrame, TypeOK, FetchInv, PendingInv
<1>5. ASSUME NEW r \in Runs, ListFails(r) PROVE FetchInv'
  BY <1>5 DEF ListFails, Return, Goto, SetFrame, TypeOK, FetchInv
<1>6. ASSUME NEW r \in Runs, NEW t \in Targets, LoadRow(r, t)
      PROVE  FetchInv'
  BY <1>6 DEF LoadRow, Goto, SetFrame, TypeOK, FetchInv
<1>7. ASSUME NEW r \in Runs, NEW t \in Targets, LoadFails(r, t)
      PROVE  FetchInv'
  BY <1>7 DEF LoadFails, Goto, SetFrame, TypeOK, FetchInv
<1>8. ASSUME NEW r \in Runs, LoadSymbols(r) PROVE FetchInv'
  BY <1>8 DEF LoadSymbols, Goto, SetFrame, TypeOK, FetchInv
<1>9. ASSUME NEW r \in Runs, LoadIntervals(r) PROVE FetchInv'
  BY <1>9 DEF LoadIntervals, KeysOf, Eligible, Goto, SetFrame, TypeOK,
     FetchInv
<1>10. ASSUME NEW r \in Runs, LoadDone(r) PROVE FetchInv'
  BY <1>10 DEF LoadDone, Goto, SetFrame, TypeOK, FetchInv, PendingInv
<1>11. ASSUME NEW r \in Runs, NEW k \in JobKeys, CreateJob(r, k)
      PROVE  FetchInv'
  BY <1>11 DEF CreateJob, CreateIfNotExists, FeedOf, Goto, SetFrame, TypeOK,
     FetchInv
<1>12. ASSUME NEW r \in Runs, NEW k \in JobKeys, DropTarget(r, k)
      PROVE  FetchInv'
  BY <1>12 DEF DropTarget, CreateReturnsError, CreateIfNotExists, Goto,
     SetFrame, TypeOK, FetchInv
<1>13. ASSUME NEW r \in Runs, CreateDone(r) PROVE FetchInv'
  BY <1>13 DEF CreateDone, Goto, SetFrame, TypeOK, FetchInv
<1>14. ASSUME NEW r \in Runs, NothingNeeded(r) PROVE FetchInv'
  BY <1>14 DEF NothingNeeded, Return, Goto, SetFrame, TypeOK, FetchInv
<1>15. ASSUME NEW r \in Runs, NEW f \in Feeds, Fetch(r, f) PROVE FetchInv'
  BY <1>15 DEF Fetch, Goto, SetFrame, TypeOK, FetchInv
<1>16. ASSUME NEW r \in Runs, NEW k \in JobKeys, LegacyCreate(r, k)
      PROVE  FetchInv'
  BY <1>16 DEF LegacyCreate, CreateIfNotExists, FeedOf, Goto, SetFrame,
     TypeOK, FetchInv
<1>17. ASSUME NEW r \in Runs, NEW k \in JobKeys, LegacyFails(r, k)
      PROVE  FetchInv'
  BY <1>17 DEF LegacyFails, Return, CreateReturnsError, CreateIfNotExists,
     Goto, SetFrame, TypeOK, FetchInv
<1>18. ASSUME NEW r \in Runs, LegacyDone(r) PROVE FetchInv'
  BY <1>18 DEF LegacyDone, Goto, SetFrame, TypeOK, FetchInv
<1>19. ASSUME NEW r \in Runs, NEW t \in Owners, Deliver(r, t)
      PROVE  FetchInv'
  BY <1>19 DEF Deliver, Goto, SetFrame, TypeOK, FetchInv
<1>20. ASSUME NEW r \in Runs, NEW n \in Notifiers, Notify(r, n)
      PROVE  FetchInv'
  BY <1>20 DEF Notify, Goto, SetFrame, TypeOK, FetchInv
<1>21. ASSUME NEW r \in Runs, NotifyDone(r) PROVE FetchInv'
  BY <1>21 DEF NotifyDone, Goto, SetFrame, TypeOK, FetchInv
<1>22. ASSUME NEW r \in Runs, DeliverDone(r) PROVE FetchInv'
  BY <1>22 DEF DeliverDone, Return, Goto, SetFrame, TypeOK, FetchInv
<1>23. ASSUME NEW r \in Runs, NEW k \in JobKeys, Mark(r, k) PROVE FetchInv'
  BY <1>23 DEF Mark, MarkSent, MarkFailed, UpdateStatus, Goto, SetFrame,
     TypeOK, FetchInv
<1>24. ASSUME NEW t \in Targets, RegisterTarget(t) PROVE FetchInv'
  BY <1>24 DEF RegisterTarget, TypeOK, FetchInv
<1>25. ASSUME NEW t \in Targets, NEW c \in Configs, SaveConfig(t, c)
      PROVE  FetchInv'
  BY <1>25 DEF SaveConfig, TypeOK, FetchInv
<1>26. CASE Crash
  BY <1>26 DEF Crash, TypeOK, FetchInv
<1>27. CASE UNCHANGED vars
  BY <1>27 DEF vars, TypeOK, FetchInv
<1> QED
  BY <1>1, <1>2, <1>3, <1>4, <1>5, <1>6, <1>7, <1>8, <1>9, <1>10, <1>11,
     <1>12, <1>13, <1>14, <1>15, <1>16, <1>17, <1>18, <1>19, <1>20, <1>21,
     <1>22, <1>23, <1>24, <1>25, <1>26, <1>27 DEF Next, Step, AllReturned

(* Whoever is enabled at the lock or later is in enabledSeen, and only     *)
(* such targets get into a queue.                                          *)
LEMMA SeenStep ==
  ASSUME TypeOK, SeenInv, LoadInv, [Next]_vars
  PROVE  SeenInv'
<1>1. ASSUME NEW r \in Runs, NEW due \in Boundaries, Tick(r, due)
      PROVE  SeenInv'
  BY <1>1 DEF Tick, Goto, SetFrame, storeVars, TypeOK, Inside, SeenInv,
     IdleFrame, Active
<1>2. ASSUME NEW r \in Runs, NEW s \in Slots, Acquire(r, s) PROVE SeenInv'
  BY <1>2 DEF Acquire, Goto, SetFrame, storeVars, TypeOK, SeenInv, IdleFrame,
     Active
<1>3. ASSUME NEW r \in Runs, ListTargets(r) PROVE SeenInv'
  BY <1>3 DEF ListTargets, Goto, SetFrame, storeVars, TypeOK, Inside, SeenInv,
     Active
<1>4. ASSUME NEW r \in Runs, RunLegacy(r) PROVE SeenInv'
  BY <1>4 DEF RunLegacy, LegacyKeys, Goto, SetFrame, storeVars, TypeOK,
     Inside, SeenInv, Active
<1>5. ASSUME NEW r \in Runs, ListFails(r) PROVE SeenInv'
  BY <1>5 DEF ListFails, Return, Goto, SetFrame, storeVars, TypeOK, Inside,
     SeenInv, IdleFrame, Active
<1>6. ASSUME NEW r \in Runs, NEW t \in Targets, LoadRow(r, t) PROVE SeenInv'
  BY <1>6 DEF LoadRow, Goto, SetFrame, storeVars, TypeOK, Inside, SeenInv,
     Active
<1>7. ASSUME NEW r \in Runs, NEW t \in Targets, LoadFails(r, t)
      PROVE  SeenInv'
  BY <1>7 DEF LoadFails, Goto, SetFrame, storeVars, TypeOK, Inside, SeenInv,
     Active
<1>8. ASSUME NEW r \in Runs, LoadSymbols(r) PROVE SeenInv'
  BY <1>8 DEF LoadSymbols, Goto, SetFrame, storeVars, TypeOK, Inside, SeenInv,
     Active
<1>9. ASSUME NEW r \in Runs, LoadIntervals(r) PROVE SeenInv'
  BY <1>9 DEF LoadIntervals, KeysOf, Eligible, Goto, SetFrame, storeVars,
     TypeOK, Inside, SeenInv, LoadInv, Active
<1>10. ASSUME NEW r \in Runs, LoadDone(r) PROVE SeenInv'
  BY <1>10 DEF LoadDone, Goto, SetFrame, storeVars, TypeOK, Inside, SeenInv,
     Active
<1>11. ASSUME NEW r \in Runs, NEW k \in JobKeys, CreateJob(r, k)
      PROVE  SeenInv'
  BY <1>11 DEF CreateJob, CreateIfNotExists, FeedOf, Goto, SetFrame,
     storeVars, TypeOK, SeenInv, Active
<1>12. ASSUME NEW r \in Runs, NEW k \in JobKeys, DropTarget(r, k)
      PROVE  SeenInv'
  BY <1>12 DEF DropTarget, CreateReturnsError, CreateIfNotExists, Goto,
     SetFrame, storeVars, TypeOK, SeenInv, Active
<1>13. ASSUME NEW r \in Runs, CreateDone(r) PROVE SeenInv'
  BY <1>13 DEF CreateDone, Goto, SetFrame, storeVars, TypeOK, Inside, SeenInv,
     Active
<1>14. ASSUME NEW r \in Runs, NothingNeeded(r) PROVE SeenInv'
  BY <1>14 DEF NothingNeeded, Return, Goto, SetFrame, storeVars, TypeOK,
     Inside, SeenInv, IdleFrame, Active
<1>15. ASSUME NEW r \in Runs, NEW f \in Feeds, Fetch(r, f) PROVE SeenInv'
  BY <1>15 DEF Fetch, Goto, SetFrame, storeVars, TypeOK, Inside, SeenInv,
     Active
<1>16. ASSUME NEW r \in Runs, NEW k \in JobKeys, LegacyCreate(r, k)
      PROVE  SeenInv'
  BY <1>16 DEF LegacyCreate, CreateIfNotExists, FeedOf, Goto, SetFrame,
     storeVars, TypeOK, SeenInv, Active
<1>17. ASSUME NEW r \in Runs, NEW k \in JobKeys, LegacyFails(r, k)
      PROVE  SeenInv'
  BY <1>17 DEF LegacyFails, Return, CreateReturnsError, CreateIfNotExists,
     Goto, SetFrame, storeVars, TypeOK, Inside, SeenInv, IdleFrame, Active
<1>18. ASSUME NEW r \in Runs, LegacyDone(r) PROVE SeenInv'
  BY <1>18 DEF LegacyDone, Goto, SetFrame, storeVars, TypeOK, Inside, SeenInv,
     Active
<1>19. ASSUME NEW r \in Runs, NEW t \in Owners, Deliver(r, t) PROVE SeenInv'
  BY <1>19 DEF Deliver, Goto, SetFrame, storeVars, TypeOK, Inside, SeenInv,
     Active
<1>20. ASSUME NEW r \in Runs, NEW n \in Notifiers, Notify(r, n)
      PROVE  SeenInv'
  BY <1>20 DEF Notify, Goto, SetFrame, storeVars, TypeOK, SeenInv, Active
<1>21. ASSUME NEW r \in Runs, NotifyDone(r) PROVE SeenInv'
  BY <1>21 DEF NotifyDone, Goto, SetFrame, storeVars, TypeOK, Inside, SeenInv,
     Active
<1>22. ASSUME NEW r \in Runs, DeliverDone(r) PROVE SeenInv'
  BY <1>22 DEF DeliverDone, Return, Goto, SetFrame, storeVars, TypeOK, Inside,
     SeenInv, IdleFrame, Active
<1>23. ASSUME NEW r \in Runs, NEW k \in JobKeys, Mark(r, k) PROVE SeenInv'
  BY <1>23 DEF Mark, MarkSent, MarkFailed, UpdateStatus, Goto, SetFrame,
     storeVars, TypeOK, Inside, SeenInv, Active
<1>24. ASSUME NEW t \in Targets, RegisterTarget(t) PROVE SeenInv'
  BY <1>24 DEF RegisterTarget, TypeOK, SeenInv, Active
<1>25. ASSUME NEW t \in Targets, NEW c \in Configs, SaveConfig(t, c)
      PROVE  SeenInv'
  BY <1>25 DEF SaveConfig, TypeOK, SeenInv, Active
<1>26. CASE Crash
  BY <1>26 DEF Crash, TypeOK, Inside, SeenInv, IdleFrame
<1>27. CASE UNCHANGED vars
  BY <1>27 DEF vars, TypeOK, SeenInv, Active
<1> QED
  BY <1>1, <1>2, <1>3, <1>4, <1>5, <1>6, <1>7, <1>8, <1>9, <1>10, <1>11,
     <1>12, <1>13, <1>14, <1>15, <1>16, <1>17, <1>18, <1>19, <1>20, <1>21,
     <1>22, <1>23, <1>24, <1>25, <1>26, <1>27 DEF Next, Step, AllReturned

(* While no error was recorded, the channels tried so far have accepted    *)
(* every line of the message.                                              *)
LEMMA SendStep ==
  ASSUME TypeOK, LockInv, SendInv, [Next]_vars
  PROVE  SendInv'
<1>1. ASSUME NEW r \in Runs, NEW due \in Boundaries, Tick(r, due)
      PROVE  SendInv'
  BY <1>1 DEF Tick, Goto, SetFrame, TypeOK, SendInv, Items
<1>2. ASSUME NEW r \in Runs, NEW s \in Slots, Acquire(r, s) PROVE SendInv'
  BY <1>2 DEF Acquire, Goto, SetFrame, TypeOK, SendInv, Items
<1>3. ASSUME NEW r \in Runs, ListTargets(r) PROVE SendInv'
  BY <1>3 DEF ListTargets, Goto, SetFrame, TypeOK, SendInv, Items
<1>4. ASSUME NEW r \in Runs, RunLegacy(r) PROVE SendInv'
  BY <1>4 DEF RunLegacy, Goto, SetFrame, TypeOK, SendInv, Items
<1>5. ASSUME NEW r \in Runs, ListFails(r) PROVE SendInv'
  BY <1>5 DEF ListFails, Return, Goto, SetFrame, TypeOK, SendInv, Items
<1>6. ASSUME NEW r \in Runs, NEW t \in Targets, LoadRow(r, t) PROVE SendInv'
  BY <1>6 DEF LoadRow, Goto, SetFrame, TypeOK, SendInv, Items
<1>7. ASSUME NEW r \in Runs, NEW t \in Targets, LoadFails(r, t)
      PROVE  SendInv'
  BY <1>7 DEF LoadFails, Goto, SetFrame, TypeOK, SendInv, Items
<1>8. ASSUME NEW r \in Runs, LoadSymbols(r) PROVE SendInv'
  BY <1>8 DEF LoadSymbols, Goto, SetFrame, TypeOK, SendInv, Items
<1>9. ASSUME NEW r \in Runs, LoadIntervals(r) PROVE SendInv'
  BY <1>9 DEF LoadIntervals, KeysOf, Eligible, Goto, SetFrame, TypeOK,
     SendInv, Items
<1>10. ASSUME NEW r \in Runs, LoadDone(r) PROVE SendInv'
  BY <1>10 DEF LoadDone, Goto, SetFrame, TypeOK, SendInv, Items
<1>11. ASSUME NEW r \in Runs, NEW k \in JobKeys, CreateJob(r, k)
      PROVE  SendInv'
  BY <1>11 DEF CreateJob, CreateIfNotExists, FeedOf, Goto, SetFrame, TypeOK,
     SendInv, Items
<1>12. ASSUME NEW r \in Runs, NEW k \in JobKeys, DropTarget(r, k)
      PROVE  SendInv'
  BY <1>12 DEF DropTarget, CreateReturnsError, CreateIfNotExists, Goto,
     SetFrame, TypeOK, SendInv, Items
<1>13. ASSUME NEW r \in Runs, CreateDone(r) PROVE SendInv'
  BY <1>13 DEF CreateDone, Goto, SetFrame, TypeOK, SendInv, Items
<1>14. ASSUME NEW r \in Runs, NothingNeeded(r) PROVE SendInv'
  BY <1>14 DEF NothingNeeded, Return, Goto, SetFrame, TypeOK, SendInv, Items
<1>15. ASSUME NEW r \in Runs, NEW f \in Feeds, Fetch(r, f) PROVE SendInv'
  BY <1>15 DEF Fetch, Goto, SetFrame, TypeOK, SendInv, Items
<1>16. ASSUME NEW r \in Runs, NEW k \in JobKeys, LegacyCreate(r, k)
      PROVE  SendInv'
  BY <1>16 DEF LegacyCreate, CreateIfNotExists, FeedOf, Goto, SetFrame,
     TypeOK, SendInv, Items
<1>17. ASSUME NEW r \in Runs, NEW k \in JobKeys, LegacyFails(r, k)
      PROVE  SendInv'
  BY <1>17 DEF LegacyFails, Return, CreateReturnsError, CreateIfNotExists,
     Goto, SetFrame, TypeOK, SendInv, Items
<1>18. ASSUME NEW r \in Runs, LegacyDone(r) PROVE SendInv'
  BY <1>18 DEF LegacyDone, Goto, SetFrame, TypeOK, SendInv, Items
<1>19. ASSUME NEW r \in Runs, NEW t \in Owners, Deliver(r, t) PROVE SendInv'
  BY <1>19 DEF Deliver, Goto, SetFrame, TypeOK, SendInv, Items
<1>20. ASSUME NEW r \in Runs, NEW n \in Notifiers, Notify(r, n)
      PROVE  SendInv'
  BY <1>20 DEF Notify, Accepts, Items, Goto, SetFrame, TypeOK, Frames, SendInv
<1>21. ASSUME NEW r \in Runs, NotifyDone(r) PROVE SendInv'
  BY <1>21 DEF NotifyDone, Goto, SetFrame, TypeOK, SendInv, Items
<1>22. ASSUME NEW r \in Runs, DeliverDone(r) PROVE SendInv'
  BY <1>22 DEF DeliverDone, Return, Goto, SetFrame, TypeOK, SendInv, Items
<1>23. ASSUME NEW r \in Runs, NEW k \in JobKeys, Mark(r, k) PROVE SendInv'
  BY <1>23 DEF Mark, MarkSent, MarkFailed, UpdateStatus, Items, Goto,
     SetFrame, TypeOK, SendInv
<1>24. ASSUME NEW t \in Targets, RegisterTarget(t) PROVE SendInv'
  BY <1>24 DEF RegisterTarget, TypeOK, SendInv, Items
<1>25. ASSUME NEW t \in Targets, NEW c \in Configs, SaveConfig(t, c)
      PROVE  SendInv'
  BY <1>25 DEF SaveConfig, TypeOK, SendInv, Items
<1>26. CASE Crash
  BY <1>26 DEF Crash, TypeOK, SendInv
<1>27. CASE UNCHANGED vars
  BY <1>27 DEF vars, TypeOK, SendInv, Items
<1> QED
  BY <1>1, <1>2, <1>3, <1>4, <1>5, <1>6, <1>7, <1>8, <1>9, <1>10, <1>11,
     <1>12, <1>13, <1>14, <1>15, <1>16, <1>17, <1>18, <1>19, <1>20, <1>21,
     <1>22, <1>23, <1>24, <1>25, <1>26, <1>27 DEF Next, Step, AllReturned

(* A job becomes sent only when no channel reported an error, and what a   *)
(* channel has accepted stays accepted.                                    *)
LEMMA AcceptedStep ==
  ASSUME TypeOK, SendInv, PendingInv, SentMeansAccepted, [Next]_vars
  PROVE  SentMeansAccepted'
<1>1. ASSUME NEW r \in Runs, NEW due \in Boundaries, Tick(r, due)
      PROVE  SentMeansAccepted'
  BY <1>1 DEF Tick, Goto, SetFrame, TypeOK, SentMeansAccepted
<1>2. ASSUME NEW r \in Runs, NEW s \in Slots, Acquire(r, s)
      PROVE  SentMeansAccepted'
  BY <1>2 DEF Acquire, Goto, SetFrame, TypeOK, SentMeansAccepted
<1>3. ASSUME NEW r \in Runs, ListTargets(r) PROVE SentMeansAccepted'
  BY <1>3 DEF ListTargets, Goto, SetFrame, TypeOK, SentMeansAccepted
<1>4. ASSUME NEW r \in Runs, RunLegacy(r) PROVE SentMeansAccepted'
  BY <1>4 DEF RunLegacy, Goto, SetFrame, TypeOK, SentMeansAccepted
<1>5. ASSUME NEW r \in Runs, ListFails(r) PROVE SentMeansAccepted'
  BY <1>5 DEF ListFails, Return, Goto, SetFrame, TypeOK, SentMeansAccepted
<1>6. ASSUME NEW r \in Runs, NEW t \in Targets, LoadRow(r, t)
      PROVE  SentMeansAccepted'
  BY <1>6 DEF LoadRow, Goto, SetFrame, TypeOK, SentMeansAccepted
<1>7. ASSUME NEW r \in Runs, NEW t \in Targets, LoadFails(r, t)
      PROVE  SentMeansAccepted'
  BY <1>7 DEF LoadFails, Goto, SetFrame, TypeOK, SentMeansAccepted
<1>8. ASSUME NEW r \in Runs, LoadSymbols(r) PROVE SentMeansAccepted'
  BY <1>8 DEF LoadSymbols, Goto, SetFrame, TypeOK, SentMeansAccepted
<1>9. ASSUME NEW r \in Runs, LoadIntervals(r) PROVE SentMeansAccepted'
  BY <1>9 DEF LoadIntervals, KeysOf, Eligible, Goto, SetFrame, TypeOK,
     SentMeansAccepted
<1>10. ASSUME NEW r \in Runs, LoadDone(r) PROVE SentMeansAccepted'
  BY <1>10 DEF LoadDone, Goto, SetFrame, TypeOK, SentMeansAccepted
<1>11. ASSUME NEW r \in Runs, NEW k \in JobKeys, CreateJob(r, k)
      PROVE  SentMeansAccepted'
  BY <1>11 DEF CreateJob, CreateIfNotExists, FeedOf, Goto, SetFrame, TypeOK,
     SentMeansAccepted
<1>12. ASSUME NEW r \in Runs, NEW k \in JobKeys, DropTarget(r, k)
      PROVE  SentMeansAccepted'
  BY <1>12 DEF DropTarget, CreateReturnsError, CreateIfNotExists, Goto,
     SetFrame, TypeOK, SentMeansAccepted, JobsType
<1>13. ASSUME NEW r \in Runs, CreateDone(r) PROVE SentMeansAccepted'
  BY <1>13 DEF CreateDone, Goto, SetFrame, TypeOK, SentMeansAccepted
<1>14. ASSUME NEW r \in Runs, NothingNeeded(r) PROVE SentMeansAccepted'
  BY <1>14 DEF NothingNeeded, Return, Goto, SetFrame, TypeOK,
     SentMeansAccepted
<1>15. ASSUME NEW r \in Runs, NEW f \in Feeds, Fetch(r, f)
      PROVE  SentMeansAccepted'
  BY <1>15 DEF Fetch, Goto, SetFrame, TypeOK, SentMeansAccepted
<1>16. ASSUME NEW r \in Runs, NEW k \in JobKeys, LegacyCreate(r, k)
      PROVE  SentMeansAccepted'
  BY <1>16 DEF LegacyCreate, CreateIfNotExists, FeedOf, Goto, SetFrame,
     TypeOK, SentMeansAccepted
<1>17. ASSUME NEW r \in Runs, NEW k \in JobKeys, LegacyFails(r, k)
      PROVE  SentMeansAccepted'
  BY <1>17 DEF LegacyFails, Return, CreateReturnsError, CreateIfNotExists,
     Goto, SetFrame, TypeOK, SentMeansAccepted, JobsType
<1>18. ASSUME NEW r \in Runs, LegacyDone(r) PROVE SentMeansAccepted'
  BY <1>18 DEF LegacyDone, Goto, SetFrame, TypeOK, SentMeansAccepted
<1>19. ASSUME NEW r \in Runs, NEW t \in Owners, Deliver(r, t)
      PROVE  SentMeansAccepted'
  BY <1>19 DEF Deliver, Goto, SetFrame, TypeOK, SentMeansAccepted
<1>20. ASSUME NEW r \in Runs, NEW n \in Notifiers, Notify(r, n)
      PROVE  SentMeansAccepted'
  BY <1>20 DEF Notify, Accepts, Goto, SetFrame, TypeOK, SentMeansAccepted
<1>21. ASSUME NEW r \in Runs, NotifyDone(r) PROVE SentMeansAccepted'
  BY <1>21 DEF NotifyDone, Goto, SetFrame, TypeOK, SentMeansAccepted
<1>22. ASSUME NEW r \in Runs, DeliverDone(r) PROVE SentMeansAccepted'
  BY <1>22 DEF DeliverDone, Return, Goto, SetFrame, TypeOK, SentMeansAccepted
<1>23. ASSUME NEW r \in Runs, NEW k \in JobKeys, Mark(r, k)
      PROVE  SentMeansAccepted'
  BY <1>23 DEF Mark, MarkSent, MarkFailed, UpdateStatus, Items, Goto,
     SetFrame, TypeOK, SentMeansAccepted, SendInv, JobsType
<1>24. ASSUME NEW t \in Targets, RegisterTarget(t) PROVE SentMeansAccepted'
  BY <1>24 DEF RegisterTarget, TypeOK, SentMeansAccepted
<1>25. ASSUME NEW t \in Targets, NEW c \in Configs, SaveConfig(t, c)
      PROVE  SentMeansAccepted'
  BY <1>25 DEF SaveConfig, TypeOK, SentMeansAccepted
<1>26. CASE Crash
  BY <1>26 DEF Crash, TypeOK, SentMeansAccepted
<1>27. CASE UNCHANGED vars
  BY <1>27 DEF vars, TypeOK, SentMeansAccepted
<1> QED
  BY <1>1, <1>2, <1>3, <1>4, <1>5, <1>6, <1>7, <1>8, <1>9, <1>10, <1>11,
     <1>12, <1>13, <1>14, <1>15, <1>16, <1>17, <1>18, <1>19, <1>20, <1>21,
     <1>22, <1>23, <1>24, <1>25, <1>26, <1>27 DEF Next, Step, AllReturned

(* The tables are empty when the service starts, as the ledger is.         *)
LEMMA LedgerInit == Init => Ledger!Init
BY DEF Init, JobsInit, Ledger!Init

(* CreateIfNotExists, with whatever answer, records a job or does nothing. *)
LEMMA CreateIsRecord ==
  ASSUME TypeOK, NEW k \in JobKeys, CreateReturnsError(k), UNCHANGED delivered
  PROVE  Ledger!Record(k) \/ UNCHANGED <<jobs, delivered>>
BY DEF CreateReturnsError, CreateIfNotExists, TypeOK, JobsType, Ledger!Record

(* A message carries only unsent jobs of a target the channel serves.      *)
LEMMA NotifyIsPost ==
  ASSUME IInv, NEW r \in Runs, NEW n \in Notifiers, Notify(r, n)
  PROVE  Ledger!Post(n, Items(r)) \/ UNCHANGED <<jobs, delivered>>
<1>1. CASE UNCHANGED delivered
  BY <1>1 DEF Notify
<1>2. CASE ~UNCHANGED delivered
  <2>1. Accepts(r, n) /\ frame[r].cur \in Reaches[n] /\ UNCHANGED jobs
    BY <1>2 DEF Notify
  <2>2. Items(r) \subseteq JobKeys
    BY DEF IInv, TypeOK, Frames, Items
  <2>3. \A k \in Items(r) : k.target \in Reaches[n] /\ jobs[k] \in Unsent
    BY <2>1 DEF Items, IInv, PendingInv
  <2> QED
    BY <2>1, <2>2, <2>3 DEF Accepts, Ledger!Post, Ledger!Unsettled, Unsent
<1> QED
  BY <1>1, <1>2

(* A job is settled only when its target's channels have accepted it, and  *)
(* a failing one is still unsettled: nobody else has marked it since.      *)
LEMMA MarkIsSettle ==
  ASSUME IInv, NEW r \in Runs, NEW k \in JobKeys, Mark(r, k)
  PROVE  Ledger!Settle(k) \/ Ledger!Fail(k) \/ UNCHANGED <<jobs, delivered>>
<1>1. k \in frame[r].pending /\ k.target = frame[r].cur /\ UNCHANGED delivered
  BY DEF Mark, Items
<1>2. jobs[k] \in Ledger!Unsettled /\ jobs[k] # "none"
  BY <1>1 DEF IInv, PendingInv, Unsent, Ledger!Unsettled
<1>3. CASE UNCHANGED jobs
  BY <1>1, <1>3
<1>4. CASE frame[r].sendErr /\ MarkFailed(k)
  BY <1>1, <1>2, <1>4 DEF MarkFailed, UpdateStatus, Ledger!Fail
<1>5. CASE ~frame[r].sendErr /\ MarkSent(k)
  <2>1. \A n \in Notifiers : k.target \in Reaches[n] => delivered[n][k] > 0
    BY <1>1, <1>5 DEF Mark, IInv, SendInv
  <2> QED
    BY <1>1, <1>2, <1>5, <2>1 DEF MarkSent, UpdateStatus, Ledger!Settle
<1> QED
  BY <1>3, <1>4, <1>5 DEF Mark

(* Every step of the executor is a step of the ledger or leaves it alone.  *)
LEMMA LedgerStep ==
  ASSUME IInv, [Next]_vars
  PROVE  [Ledger!Next]_<<jobs, delivered>>
<1>1. CASE UNCHANGED <<jobs, delivered>>
  BY <1>1
<1>2. ASSUME NEW r \in Runs, NEW k \in JobKeys,
             CreateJob(r, k) \/ DropTarget(r, k)
               \/ LegacyCreate(r, k) \/ LegacyFails(r, k)
      PROVE  [Ledger!Next]_<<jobs, delivered>>
  <2>1. CreateReturnsError(k) /\ UNCHANGED delivered
    BY <1>2 DEF CreateJob, DropTarget, LegacyCreate, LegacyFails,
                CreateReturnsError
  <2> QED
    BY <2>1, CreateIsRecord DEF IInv, Ledger!Next
<1>3. ASSUME NEW r \in Runs, NEW n \in Notifiers, Notify(r, n)
      PROVE  [Ledger!Next]_<<jobs, delivered>>
  <2>1. Items(r) \in SUBSET JobKeys
    BY DEF IInv, TypeOK, Frames, Items
  <2> QED
    BY <1>3, <2>1, NotifyIsPost DEF Ledger!Next
<1>4. ASSUME NEW r \in Runs, NEW k \in JobKeys, Mark(r, k)
      PROVE  [Ledger!Next]_<<jobs, delivered>>
  BY <1>4, MarkIsSettle DEF Ledger!Next
<1>5. CASE Next /\ ~UNCHANGED <<jobs, delivered>>
  <2>1. \/ \E r \in Runs, k \in JobKeys :
             \/ CreateJob(r, k) \/ DropTarget(r, k)
             \/ LegacyCreate(r, k) \/ LegacyFails(r, k) \/ Mark(r, k)
        \/ \E r \in Runs, n \in Notifiers : Notify(r, n)
    BY <1>5 DEF Next, Step, AllReturned, vars, Tick, Acquire, ListTargets,
         RunLegacy, ListFails, LoadRow, LoadFails, LoadSymbols, LoadIntervals,
         LoadDone, CreateDone, NothingNeeded, Fetch, LegacyDone, Deliver,
         NotifyDone, DeliverDone, RegisterTarget, SaveConfig, Crash
  <2> QED
    BY <1>2, <1>3, <1>4, <2>1
<1> QED
  BY <1>1, <1>5 DEF vars

(* The ledger never touches a settled job.                                 *)
LEMMA LedgerFinal ==
  ASSUME TypeOK, Ledger!Next, NEW k \in JobKeys, jobs[k] = "sent"
  PROVE  /\ jobs'[k] = "sent"
         /\ \A n \in Notifiers : delivered'[n][k] = delivered[n][k]
<1>1. ASSUME NEW n \in Notifiers, NEW S \in SUBSET JobKeys, Ledger!Post(n, S)
      PROVE  /\ jobs'[k] = "sent"
             /\ \A m \in Notifiers : delivered'[m][k] = delivered[m][k]
  <2>1. k \notin S
    BY <1>1 DEF Ledger!Post, Ledger!Unsettled
  <2> QED
    BY <1>1, <2>1 DEF Ledger!Post, TypeOK
<1>2. ASSUME NEW j \in JobKeys,
             Ledger!Record(j) \/ Ledger!Fail(j) \/ Ledger!Settle(j)
      PROVE  /\ jobs'[k] = "sent"
             /\ \A m \in Notifiers : delivered'[m][k] = delivered[m][k]
  BY <1>2 DEF Ledger!Record, Ledger!Fail, Ledger!Settle, Ledger!Unsettled,
     TypeOK, JobsType
<1> QED
  BY <1>1, <1>2 DEF Ledger!Next

(* No goroutine has begun when the service starts.                         *)
LEMMA IInvInit == Init => IInv
<1> SUFFICES ASSUME Init PROVE IInv
  OBVIOUS
<1>1. IdleFrame({}) \in Frames
  BY DEF IdleFrame, Frames
<1>2. TypeOK
  BY <1>1 DEF Init, TypeOK, JobsInit, JobsType, JobStatus, Unsent, PCs, Inside
<1>3. LockInv /\ LoadInv /\ SendInv
  BY DEF Init, LockInv, LoadInv, SendInv, Inside
<1>4. SeenInv /\ PendingInv /\ FetchInv
  BY DEF Init, SeenInv, PendingInv, FetchInv, Inside, IdleFrame
<1>5. SentMeansAccepted
  BY DEF Init, SentMeansAccepted, JobsInit
<1> QED
  BY <1>2, <1>3, <1>4, <1>5 DEF IInv

(* The conjunction is preserved by every step.                             *)
LEMMA IInvStep == IInv /\ [Next]_vars => IInv'
BY TypeStep, LockStep, LoadStep, SeenStep, PendingStep, FetchStep, SendStep,
   AcceptedStep DEF IInv

(* The inductive invariant holds in every reachable state.                 *)
THEOREM Invariance == Spec => []IInv
BY IInvInit, IInvStep, PTL DEF Spec

(* Execute, with its mutex, phases, retries of unsent jobs, configuration  *)
(* changes and crashes, implements the ledger.                             *)
THEOREM Refinement == Spec => ImplementsLedger
<1>1. Init => Ledger!Init
  BY LedgerInit
<1>2. IInv /\ [Next]_vars => [Ledger!Next]_<<jobs, delivered>>
  BY LedgerStep
<1> QED
  BY <1>1, <1>2, Invariance, PTL DEF Spec, ImplementsLedger, Ledger!Spec

(* A sent job stays sent and its line is never accepted again.             *)
THEOREM SentFinality == Spec => SentIsFinal
<1> DEFINE Unharmed ==
      \A k \in JobKeys :
        jobs[k] = "sent" =>
          /\ jobs'[k] = "sent"
          /\ \A n \in Notifiers : delivered'[n][k] = delivered[n][k]
<1>1. IInv /\ [Next]_vars => [Unharmed]_vars
  <2> SUFFICES ASSUME IInv, [Next]_vars PROVE [Unharmed]_vars
    OBVIOUS
  <2>1. TypeOK /\ [Ledger!Next]_<<jobs, delivered>>
    BY LedgerStep DEF IInv
  <2>2. CASE Ledger!Next
    BY <2>1, <2>2, LedgerFinal
  <2>3. CASE UNCHANGED <<jobs, delivered>>
    BY <2>3
  <2> QED
    BY <2>1, <2>2, <2>3
<1> QED
  BY <1>1, Invariance, PTL DEF Spec, SentIsFinal

(* Every variable keeps its type.                                          *)
THEOREM TypeCorrect == Spec => []TypeOK
<1>1. IInv => TypeOK
  BY DEF IInv
<1> QED
  BY <1>1, Invariance, PTL

(* Whatever is marked sent was accepted by every channel that serves it.   *)
THEOREM SentCorrect == Spec => []SentMeansAccepted
<1>1. IInv => SentMeansAccepted
  BY DEF IInv
<1> QED
  BY <1>1, Invariance, PTL

(* Every target that a job may have is served by some notifier.            *)
Served == \A k \in JobKeys : \E n \in Notifiers : k.target \in Reaches[n]

(* A target without a notifier is the only reason for which a job is       *)
(* marked sent although nothing was sent: with every target served, the    *)
(* plan's "Mark a job sent only after the notification flow completes"     *)
(* holds through all failures, pauses and crashes.                         *)
THEOREM ServedCorrect == ASSUME Served PROVE Spec => []SentWasDelivered
<1>1. IInv => SentWasDelivered
  BY DEF Served, IInv, SentMeansAccepted, SentWasDelivered
<1> QED
  BY <1>1, Invariance, PTL

(* A call that obtains the mutex after a pause was saved queues nothing    *)
(* for the paused target.                                                  *)
THEOREM PauseCorrect == Spec => []PauseHonouredByNextRound
<1>1. IInv => PauseHonouredByNextRound
  BY DEF IInv, SeenInv, PauseHonouredByNextRound
<1> QED
  BY <1>1, Invariance, PTL

(* Every item of every message has a candle or a fetch error.              *)
THEOREM FetchCorrect == Spec => []ItemsFetched
<1>1. IInv => ItemsFetched
  BY DEF IInv, TypeOK, Frames, FetchInv, ItemsFetched
<1> QED
  BY <1>1, Invariance, PTL

=============================================================================
