--------------------------- MODULE TargetExecutor ---------------------------
(***************************************************************************)
(* TargetExecutor.Execute as the cron goroutines of Scheduler.tick call    *)
(* it, together with the legacy Executor it falls back to, the job rows it *)
(* writes and the chat configurations that change while it runs.           *)
(*                                                                         *)
(* Each cron firing is a goroutine in Runs that executes every interval    *)
(* due at that minute, one Execute call after the other.  Execute holds    *)
(* the executor's mutex from start to end; what it keeps on its stack is   *)
(* frame[r].  An action is one call to the database, the market provider   *)
(* or a notifier, so that other goroutines, configuration changes and a    *)
(* crash may come between any two of them.                                 *)
(*                                                                         *)
(* Not distinguished: a candle from the "unavailable" marker that replaces *)
(* it when the fetch fails (both are put in the message, and the job is    *)
(* marked the same way), the text of a message, and the error Execute      *)
(* returns, which tick ignores.  Loops over targets, symbols and notifiers *)
(* take their elements in any order.                                       *)
(***************************************************************************)
EXTENDS JobStore, Naturals

CONSTANTS
  Runs,              (* cron goroutines; each fires at most once           *)
  Boundaries,        (* the sets of slots that fall due in the same minute *)
  Intervals,         (* the intervals a configuration may choose           *)
  IntervalOf,        (* the interval of a slot                             *)
  EnabledProviders,  (* the providers the registry was built with          *)
  Supported,         (* the <<provider, symbol, interval>> it supports     *)
  DefaultProvider,   (* the provider of legacy jobs: binance               *)
  LegacySymbols,     (* market.symbols, what the legacy executor reports   *)
  Notifiers,         (* the configured notification channels               *)
  Reaches,           (* the owners a channel really delivers to            *)
  NoRun, NoTarget, NoSlot, NoConfig,
  MaxSaves,          (* bound: configuration changes                       *)
  MaxCrashes         (* bound: process crashes                             *)

ASSUME ConstantsAssumption ==
  /\ LegacyTarget \notin Targets
  /\ NoRun \notin Runs
  /\ NoTarget \notin Owners
  /\ NoSlot \notin Slots
  /\ Boundaries \subseteq ((SUBSET Slots) \ {{}})
  /\ IntervalOf \in [Slots -> Intervals]
  /\ EnabledProviders \subseteq Providers
  /\ Supported \subseteq (EnabledProviders \X Symbols \X Intervals)
  /\ DefaultProvider \in Providers
  /\ LegacySymbols \subseteq Symbols
  /\ Reaches \in [Notifiers -> SUBSET Owners]
  /\ MaxSaves \in Nat /\ MaxCrashes \in Nat

(* A stored alert configuration; AlertConfig.Validate refuses an empty     *)
(* choice of symbols or intervals.                                         *)
Configs ==
  [enabled : BOOLEAN, provider : Providers,
   symbols : (SUBSET Symbols) \ {{}}, intervals : (SUBSET Intervals) \ {{}}]

ASSUME NoConfigAssumption == NoConfig \notin Configs

VARIABLES
  registered,  (* alert_targets rows; the enabled column is never cleared  *)
  config,      (* alert_configs row and children of every target           *)
  saves,       (* configuration changes so far                             *)
  crashes,     (* process crashes so far                                   *)
  mu,          (* the goroutine that holds the executor's mutex            *)
  pc,          (* where each goroutine is                                  *)
  frame,       (* what each goroutine keeps in memory                      *)
  delivered    (* how often each channel accepted each job's line          *)

storeVars == <<registered, config, saves>>
vars == <<jobs, registered, config, saves, crashes, mu, pc, frame, delivered>>

(* The places inside Execute, with the mutex held.                         *)
Inside == {"list", "load", "symbols", "intervals", "create", "fetch",
           "legacy", "deliver", "send", "mark"}

PCs == Inside \cup {"new", "wait", "done"}

Feeds == [provider : Providers, symbol : Symbols]
(* Mutant: the two halves of the fetch key are exchanged.                  *)
FeedOfSwapped(k) == [provider |-> k.symbol, symbol |-> k.provider]

FeedOf(k) == [provider |-> k.provider, symbol |-> k.symbol]

Frames ==
  [due      : SUBSET Slots,                (* intervals still to execute   *)
   slot     : Slots \cup {NoSlot},         (* the one being executed       *)
   todo     : SUBSET Targets,              (* listed, not yet loaded       *)
   cur      : Owners \cup {NoTarget},      (* target of the loop body      *)
   draft    : Configs \cup {NoConfig},     (* its configuration so far     *)
   toCreate : SUBSET JobKeys,              (* rows to create or look up    *)
   pending  : SUBSET JobKeys,              (* jobs to deliver and mark     *)
   needed   : SUBSET Feeds,                (* candles to fetch             *)
   fetched  : SUBSET Feeds,                (* candles with an outcome      *)
   toNotify : SUBSET Notifiers,            (* channels still to try        *)
   sendErr  : BOOLEAN,                     (* one of them failed           *)
   enabledSeen : SUBSET Targets]           (* history: enabled at some     *)
                                           (* moment since the lock        *)

IdleFrame(due) ==
  [due |-> due, slot |-> NoSlot, todo |-> {}, cur |-> NoTarget,
   draft |-> NoConfig, toCreate |-> {}, pending |-> {}, needed |-> {},
   fetched |-> {}, toNotify |-> {}, sendErr |-> FALSE, enabledSeen |-> {}]

Active(t) == config[t] # NoConfig /\ config[t].enabled

TypeOK ==
  /\ JobsType
  /\ registered \subseteq Targets
  /\ config \in [Targets -> Configs \cup {NoConfig}]
  /\ saves \in Nat
  /\ crashes \in Nat
  /\ mu \in Runs \cup {NoRun}
  /\ pc \in [Runs -> PCs]
  /\ frame \in [Runs -> Frames]
  /\ delivered \in [Notifiers -> [JobKeys -> Nat]]

(* The service starts on a database in which chats may have been           *)
(* configured earlier, with no job for the periods to come.                *)
Init ==
  /\ JobsInit
  /\ registered \in SUBSET Targets
  /\ config \in [Targets -> Configs \cup {NoConfig}]
  /\ \A t \in Targets : t \notin registered => config[t] = NoConfig
  /\ saves = 0
  /\ crashes = 0
  /\ mu = NoRun
  /\ pc = [r \in Runs |-> "new"]
  /\ frame = [r \in Runs |-> IdleFrame({})]
  /\ delivered = [n \in Notifiers |-> [k \in JobKeys |-> 0]]

-----------------------------------------------------------------------------
(* Scheduler.tick and the mutex                                            *)

Goto(r, place) == pc' = [pc EXCEPT ![r] = place]

SetFrame(r, f) == frame' = [frame EXCEPT ![r] = f]

Tick(r, due) ==
  /\ pc[r] = "new"
  /\ Goto(r, "wait")
  /\ SetFrame(r, IdleFrame(due))
  /\ UNCHANGED <<jobs, storeVars, crashes, mu, delivered>>

(* Mutant: the result of a TryLock is ignored.                             *)
AcquireUnlocked(r, s) ==
  /\ pc[r] = "wait"
  /\ s \in frame[r].due
  /\ mu' = r
  /\ Goto(r, "list")
  /\ SetFrame(r, [IdleFrame(frame[r].due \ {s}) EXCEPT
                      !.slot = s,
                      !.enabledSeen = {t \in Targets : Active(t)}])
  /\ UNCHANGED <<jobs, storeVars, crashes, delivered>>

(* Execute is called for the next due interval and obtains the mutex.      *)
Acquire(r, s) ==
  /\ pc[r] = "wait"
  /\ mu = NoRun
  /\ s \in frame[r].due
  /\ mu' = r
  /\ Goto(r, "list")
  /\ SetFrame(r, [IdleFrame(frame[r].due \ {s}) EXCEPT
                      !.slot = s,
                      !.enabledSeen = {t \in Targets : Active(t)}])
  /\ UNCHANGED <<jobs, storeVars, crashes, delivered>>

(* Execute returns: the deferred Unlock, then tick's next interval.        *)
Return(r) ==
  /\ mu' = NoRun
  /\ Goto(r, IF frame[r].due = {} THEN "done" ELSE "wait")
  /\ SetFrame(r, IdleFrame(frame[r].due))

-----------------------------------------------------------------------------
(* Phase 0: the enabled targets and their configurations                   *)

LegacyKeys(s) ==
  {k \in JobKeys : /\ k.target = LegacyTarget
                   /\ k.provider = DefaultProvider
                   /\ k.symbol \in LegacySymbols
                   /\ k.slot = s}

ListTargets(r) ==
  /\ pc[r] = "list"
  /\ registered # {}
  /\ SetFrame(r, [frame[r] EXCEPT !.todo = registered])
  /\ Goto(r, "load")
  /\ UNCHANGED <<jobs, storeVars, crashes, mu, delivered>>

(* With no registered target the legacy executor runs instead.             *)
RunLegacy(r) ==
  /\ pc[r] = "list"
  /\ registered = {}
  /\ SetFrame(r, [frame[r] EXCEPT !.toCreate = LegacyKeys(frame[r].slot)])
  /\ Goto(r, "legacy")
  /\ UNCHANGED <<jobs, storeVars, crashes, mu, delivered>>

ListFails(r) ==
  /\ pc[r] = "list"
  /\ Return(r)
  /\ UNCHANGED <<jobs, storeVars, crashes, delivered>>

(* GetAlertConfig's first query: the alert_configs row.                    *)
LoadRow(r, t) ==
  /\ pc[r] = "load"
  /\ t \in frame[r].todo
  /\ config[t] # NoConfig
  /\ SetFrame(r, [frame[r] EXCEPT !.cur = t, !.draft = config[t]])
  /\ Goto(r, "symbols")
  /\ UNCHANGED <<jobs, storeVars, crashes, mu, delivered>>

(* Its second query, outside any transaction.                              *)
LoadSymbols(r) ==
  /\ pc[r] = "symbols"
  /\ SetFrame(r, [frame[r] EXCEPT
                    !.draft.symbols = config[frame[r].cur].symbols])
  /\ Goto(r, "intervals")
  /\ UNCHANGED <<jobs, storeVars, crashes, mu, delivered>>

(* The jobs a loaded configuration asks for.                               *)
KeysOf(t, c, s) ==
  {k \in JobKeys : /\ k.target = t
                   /\ k.provider = c.provider
                   /\ k.symbol \in c.symbols
                   /\ k.slot = s}

(* Mutant: the paused check is left to the store's enabled column.         *)
EligibleIgnoringPause(c, s) ==
  /\ IntervalOf[s] \in c.intervals
  /\ c.provider \in EnabledProviders

(* Paused, not interested in this interval, or on a provider that is gone. *)
Eligible(c, s) ==
  /\ c.enabled
  /\ IntervalOf[s] \in c.intervals
  /\ c.provider \in EnabledProviders

(* Its third query; then the target is eligible or skipped.                *)
LoadIntervals(r) ==
  LET t == frame[r].cur
      c == [frame[r].draft EXCEPT !.intervals = config[t].intervals]
  IN /\ pc[r] = "intervals"
     /\ SetFrame(r, [frame[r] EXCEPT
             !.todo = @ \ {t},
             !.cur = NoTarget,
             !.draft = NoConfig,
             !.toCreate =
                IF Eligible(c, frame[r].slot)
                THEN @ \cup KeysOf(t, c, frame[r].slot) ELSE @])
     /\ Goto(r, "load")
     /\ UNCHANGED <<jobs, storeVars, crashes, mu, delivered>>

(* Mutant: the queries are repeated until they succeed.                    *)
LoadFailsRetrying(r, t) ==
  /\ \/ pc[r] = "load" /\ t \in frame[r].todo
     \/ pc[r] \in {"symbols", "intervals"} /\ t = frame[r].cur
  /\ SetFrame(r, [frame[r] EXCEPT
          !.cur = NoTarget,
          !.draft = NoConfig])
  /\ Goto(r, "load")
  /\ UNCHANGED <<jobs, storeVars, crashes, mu, delivered>>

(* A target without a configuration, or one of the queries failing: the    *)
(* target is skipped and the loop goes on.                                 *)
LoadFails(r, t) ==
  /\ \/ pc[r] = "load" /\ t \in frame[r].todo
     \/ pc[r] \in {"symbols", "intervals"} /\ t = frame[r].cur
  /\ SetFrame(r, [frame[r] EXCEPT
          !.todo = @ \ {t},
          !.cur = NoTarget,
          !.draft = NoConfig])
  /\ Goto(r, "load")
  /\ UNCHANGED <<jobs, storeVars, crashes, mu, delivered>>

LoadDone(r) ==
  /\ pc[r] = "load"
  /\ frame[r].todo = {}
  /\ Goto(r, "create")
  /\ UNCHANGED <<jobs, storeVars, crashes, mu, frame, delivered>>

-----------------------------------------------------------------------------
(* Phase 1: job rows                                                       *)

SupportedKey(k) ==
  <<k.provider, k.symbol, IntervalOf[k.slot]>> \in Supported

(* Mutant: the status of an existing row is not looked at.                 *)
CreateJobAgain(r, k) ==
  /\ pc[r] = "create"
  /\ k \in frame[r].toCreate
  /\ SupportedKey(k)
  /\ CreateIfNotExists(k)
  /\ SetFrame(r, [frame[r] EXCEPT
          !.toCreate = @ \ {k},
          !.pending = @ \cup {k},
          !.needed = @ \cup {FeedOf(k)}])
  /\ UNCHANGED <<storeVars, crashes, mu, pc, delivered>>

(* Mutant: only a new row asks for a candle, a row to retry does not.      *)
CreateJobFetchNew(r, k) ==
  /\ pc[r] = "create"
  /\ k \in frame[r].toCreate
  /\ SupportedKey(k)
  /\ CreateIfNotExists(k)
  /\ SetFrame(r, [frame[r] EXCEPT
          !.toCreate = @ \ {k},
          !.pending = IF jobs[k] = "sent" THEN @ ELSE @ \cup {k},
          !.needed  = IF jobs[k] # "none" THEN @
                         ELSE @ \cup {FeedOf(k)}])
  /\ UNCHANGED <<storeVars, crashes, mu, pc, delivered>>

(* A row that already exists and is sent needs nothing more; any other     *)
(* becomes an item of the target's message and needs a candle.             *)
CreateJob(r, k) ==
  /\ pc[r] = "create"
  /\ k \in frame[r].toCreate
  /\ SupportedKey(k)
  /\ CreateIfNotExists(k)
  /\ SetFrame(r, [frame[r] EXCEPT
          !.toCreate = @ \ {k},
          !.pending = IF jobs[k] = "sent" THEN @ ELSE @ \cup {k},
          !.needed  = IF jobs[k] = "sent" THEN @
                         ELSE @ \cup {FeedOf(k)}])
  /\ UNCHANGED <<storeVars, crashes, mu, pc, delivered>>

(* An unsupported symbol or a failing insert drops the whole target; the   *)
(* rows and the needed candles of its earlier symbols stay.                *)
DropTarget(r, k) ==
  /\ pc[r] = "create"
  /\ k \in frame[r].toCreate
  /\ \/ ~SupportedKey(k) /\ UNCHANGED jobs
     \/ SupportedKey(k) /\ CreateReturnsError(k)
  /\ SetFrame(r, [frame[r] EXCEPT
          !.toCreate = {j \in @ : j.target # k.target},
          !.pending  = {j \in @ : j.target # k.target}])
  /\ UNCHANGED <<storeVars, crashes, mu, pc, delivered>>

CreateDone(r) ==
  /\ pc[r] = "create"
  /\ frame[r].toCreate = {}
  /\ frame[r].needed # {}
  /\ Goto(r, "fetch")
  /\ UNCHANGED <<jobs, storeVars, crashes, mu, frame, delivered>>

NothingNeeded(r) ==
  /\ pc[r] = "create"
  /\ frame[r].toCreate = {}
  /\ frame[r].needed = {}
  /\ Return(r)
  /\ UNCHANGED <<jobs, storeVars, crashes, delivered>>

-----------------------------------------------------------------------------
(* Phase 2: every needed candle once                                       *)

Fetch(r, f) ==
  /\ pc[r] = "fetch"
  /\ f \in frame[r].needed
  /\ SetFrame(r, [frame[r] EXCEPT !.needed = @ \ {f},
                                  !.fetched = @ \cup {f}])
  /\ Goto(r, IF frame[r].needed = {f} THEN "deliver" ELSE "fetch")
  /\ UNCHANGED <<jobs, storeVars, crashes, mu, delivered>>

(* The legacy executor creates and fetches symbol by symbol, and gives the *)
(* whole batch up when an insert fails.                                    *)
LegacyCreate(r, k) ==
  /\ pc[r] = "legacy"
  /\ k \in frame[r].toCreate
  /\ CreateIfNotExists(k)
  /\ SetFrame(r, [frame[r] EXCEPT
          !.toCreate = @ \ {k},
          !.pending = IF jobs[k] = "sent" THEN @ ELSE @ \cup {k},
          !.fetched = IF jobs[k] = "sent" THEN @
                         ELSE @ \cup {FeedOf(k)}])
  /\ UNCHANGED <<storeVars, crashes, mu, pc, delivered>>

LegacyFails(r, k) ==
  /\ pc[r] = "legacy"
  /\ k \in frame[r].toCreate
  /\ CreateReturnsError(k)
  /\ Return(r)
  /\ UNCHANGED <<storeVars, crashes, delivered>>

LegacyDone(r) ==
  /\ pc[r] = "legacy"
  /\ frame[r].toCreate = {}
  /\ Goto(r, "deliver")
  /\ UNCHANGED <<jobs, storeVars, crashes, mu, frame, delivered>>

-----------------------------------------------------------------------------
(* Phase 3: one message per target, then its jobs are marked               *)

Items(r) == {k \in frame[r].pending : k.target = frame[r].cur}

Deliver(r, t) ==
  /\ pc[r] = "deliver"
  /\ \E k \in frame[r].pending : k.target = t
  /\ SetFrame(r, [frame[r] EXCEPT
          !.cur = t,
          !.toNotify = Notifiers,
          !.sendErr = FALSE])
  /\ Goto(r, "send")
  /\ UNCHANGED <<jobs, storeVars, crashes, mu, delivered>>

Accepts(r, n) ==
  delivered' =
    [delivered EXCEPT ![n] =
       [k \in JobKeys |-> IF k \in Items(r) THEN @[k] + 1 ELSE @[k]]]

(* Mutant: the last channel's result replaces the first error.             *)
NotifyLastError(r, n) ==
  /\ pc[r] = "send"
  /\ n \in frame[r].toNotify
  /\ \E err \in BOOLEAN :
       /\ IF frame[r].cur \in Reaches[n]
          THEN Accepts(r, n) \/ (err /\ UNCHANGED delivered)
          ELSE ~err /\ UNCHANGED delivered
       /\ SetFrame(r, [frame[r] EXCEPT !.toNotify = @ \ {n},
                                       !.sendErr = err])
  /\ UNCHANGED <<jobs, storeVars, crashes, mu, pc>>

(* SendToTarget on a channel that serves the target succeeds, fails, or    *)
(* fails after the message was accepted (the answer was lost).  A channel  *)
(* of another chat provider reports success and sends nothing.             *)
Notify(r, n) ==
  /\ pc[r] = "send"
  /\ n \in frame[r].toNotify
  /\ \E err \in BOOLEAN :
       /\ IF frame[r].cur \in Reaches[n]
          THEN Accepts(r, n) \/ (err /\ UNCHANGED delivered)
          ELSE ~err /\ UNCHANGED delivered
       /\ SetFrame(r, [frame[r] EXCEPT
               !.toNotify = @ \ {n},
               !.sendErr = @ \/ err])
  /\ UNCHANGED <<jobs, storeVars, crashes, mu, pc>>

(* Mutant: a failing target ends the whole round.                          *)
NotifyDoneGivingUp(r) ==
  /\ pc[r] = "send"
  /\ frame[r].toNotify = {}
  /\ IF frame[r].sendErr
     THEN Return(r)
     ELSE Goto(r, "mark") /\ UNCHANGED <<mu, frame>>
  /\ UNCHANGED <<jobs, storeVars, crashes, delivered>>

NotifyDone(r) ==
  /\ pc[r] = "send"
  /\ frame[r].toNotify = {}
  /\ Goto(r, "mark")
  /\ UNCHANGED <<jobs, storeVars, crashes, mu, frame, delivered>>

(* The result of MarkSent and MarkFailed is ignored, so a failing update   *)
(* leaves the row as it was.                                               *)
Mark(r, k) ==
  /\ pc[r] = "mark"
  /\ k \in Items(r)
  /\ \/ IF frame[r].sendErr THEN MarkFailed(k) ELSE MarkSent(k)
     \/ UNCHANGED jobs
  /\ SetFrame(r, [frame[r] EXCEPT !.pending = @ \ {k}])
  /\ Goto(r, IF Items(r) = {k} THEN "deliver" ELSE "mark")
  /\ UNCHANGED <<storeVars, crashes, mu, delivered>>

DeliverDone(r) ==
  /\ pc[r] = "deliver"
  /\ frame[r].pending = {}
  /\ Return(r)
  /\ UNCHANGED <<jobs, storeVars, crashes, delivered>>

-----------------------------------------------------------------------------
(* The chat side and the process                                           *)

RegisterTarget(t) ==
  /\ t \notin registered
  /\ registered' = registered \cup {t}
  /\ UNCHANGED <<jobs, config, saves, crashes, mu, pc, frame, delivered>>

(* What the registry supports, and only that, passes validation.           *)
Supports(c) == {c.provider} \X c.symbols \X c.intervals \subseteq Supported

(* CreateAlertConfig or ReplaceAlertConfig commits: the row and its        *)
(* children change in one transaction.  A first configuration is disabled, *)
(* a session replaces the selections only, enable and pause keep them as   *)
(* they are, supported or not.                                             *)
SaveConfig(t, c) ==
  /\ saves < MaxSaves
  /\ t \in registered
  /\ \/ config[t] = NoConfig /\ ~c.enabled /\ Supports(c)
     \/ /\ config[t] # NoConfig
        /\ \/ c.enabled = config[t].enabled /\ Supports(c)
           \/ c = [config[t] EXCEPT !.enabled = c.enabled]
  /\ saves' = saves + 1
  /\ config' = [config EXCEPT ![t] = c]
  /\ frame' = [r \in Runs |->
                 IF c.enabled /\ pc[r] \in Inside
                 THEN [frame[r] EXCEPT !.enabledSeen = @ \cup {t}]
                 ELSE frame[r]]
  /\ UNCHANGED <<jobs, registered, crashes, mu, pc, delivered>>

(* The process dies and is started again: the goroutines, their stacks and *)
(* the mutex are lost, the database is not.                                *)
Crash ==
  /\ crashes < MaxCrashes
  /\ \E r \in Runs : pc[r] \notin {"new", "done"}
  /\ crashes' = crashes + 1
  /\ mu' = NoRun
  /\ pc' = [r \in Runs |-> IF pc[r] = "new" THEN "new" ELSE "done"]
  /\ frame' = [r \in Runs |-> IdleFrame({})]
  /\ UNCHANGED <<jobs, storeVars, delivered>>

(* Every goroutine has returned: the service waits for the next minute.    *)
AllReturned ==
  /\ \A r \in Runs : pc[r] = "done"
  /\ UNCHANGED vars

-----------------------------------------------------------------------------

Step(r) ==
  \/ \E s \in Slots : Acquire(r, s)
  \/ ListTargets(r) \/ RunLegacy(r) \/ ListFails(r)
  \/ \E t \in Targets : LoadRow(r, t) \/ LoadFails(r, t)
  \/ LoadSymbols(r) \/ LoadIntervals(r) \/ LoadDone(r)
  \/ \E k \in JobKeys : CreateJob(r, k) \/ DropTarget(r, k)
  \/ CreateDone(r) \/ NothingNeeded(r)
  \/ \E f \in Feeds : Fetch(r, f)
  \/ \E k \in JobKeys : LegacyCreate(r, k) \/ LegacyFails(r, k)
  \/ LegacyDone(r)
  \/ \E t \in Owners : Deliver(r, t)
  \/ \E n \in Notifiers : Notify(r, n)
  \/ NotifyDone(r) \/ DeliverDone(r)
  \/ \E k \in JobKeys : Mark(r, k)

Next ==
  \/ \E r \in Runs : Step(r)
  \/ \E r \in Runs, due \in Boundaries : Tick(r, due)
  \/ \E t \in Targets : RegisterTarget(t)
  \/ \E t \in Targets, c \in Configs : SaveConfig(t, c)
  \/ Crash
  \/ AllReturned

(* Market and notification calls carry a client timeout and bounded        *)
(* retries, and the database is taken to answer, so a goroutine that can   *)
(* move does; sync.Mutex admits every waiter in the end.  Ticks, chat      *)
(* commands and crashes need not happen.                                   *)
Fairness == \A r \in Runs : WF_vars(Step(r))

Spec == Init /\ [][Next]_vars
FairSpec == Spec /\ Fairness

-----------------------------------------------------------------------------
(* Properties                                                              *)

(* A sent job is never resent: once a row is "sent" it stays so, and no    *)
(* channel accepts a message with its line again, however many goroutines  *)
(* execute the same period, whatever configurations are saved in between   *)
(* and wherever the process died.  This is what the mutex and the lookup   *)
(* of phase 1 are for.                                                     *)
SentIsFinal ==
  [][\A k \in JobKeys :
       jobs[k] = "sent" =>
         /\ jobs'[k] = "sent"
         /\ \A n \in Notifiers : delivered'[n][k] = delivered[n][k]]_vars

(* A job is marked sent only when every channel that serves its target has *)
(* accepted the message with its line, even if answers were lost, other    *)
(* channels failed or an earlier attempt was cut short by a crash.         *)
SentMeansAccepted ==
  \A k \in JobKeys, n \in Notifiers :
    jobs[k] = "sent" /\ k.target \in Reaches[n] => delivered[n][k] > 0

(* When messages are built every item has an outcome in the shared map, so *)
(* deliverToTarget's fallback for a missing outcome is dead code: targets  *)
(* dropped in phase 1, sent rows and rows left by others do not make phase *)
(* 2 forget a candle that somebody's message needs.                        *)
ItemsFetched ==
  \A r \in Runs :
    pc[r] \in {"deliver", "send", "mark"} =>
      \A k \in frame[r].pending : FeedOf(k) \in frame[r].fetched

(* A pause that was saved before an Execute call obtained the mutex is     *)
(* honoured by that call: it queues jobs only for targets that were        *)
(* enabled at some moment since, although it reads the configuration in    *)
(* three separate queries.                                                 *)
PauseHonouredByNextRound ==
  \A r \in Runs : \A k \in frame[r].pending :
    k.target \in frame[r].enabledSeen \cup {LegacyTarget}

(* Whatever fails for other targets, every job that entered phase 3 gets   *)
(* to the point where its own target's channels have been tried and it is  *)
(* marked, unless the process dies.                                        *)
EveryItemAttempted ==
  \A r \in Runs, k \in JobKeys :
    pc[r] = "deliver" /\ k \in frame[r].pending ~>
      \/ pc[r] = "mark" /\ k \in Items(r)
      \/ crashes > 0

(* Every goroutine a tick starts returns, through whichever error path: no *)
(* path keeps the mutex, and no interval is left out.                      *)
EveryTickReturns ==
  \A r \in Runs : pc[r] = "wait" ~> pc[r] = "done"

-----------------------------------------------------------------------------
(* The inductive invariant                                                 *)

(* Only the holder of the mutex is inside Execute.                         *)
LockInv == \A r \in Runs : pc[r] \in Inside => mu = r

(* While a configuration is being loaded, the target has one and the draft *)
(* is a configuration; an enabled draft was enabled since the lock.        *)
LoadInv ==
  \A r \in Runs :
    pc[r] \in {"symbols", "intervals"} =>
      /\ frame[r].cur \in Targets
      /\ frame[r].draft \in Configs
      /\ config[frame[r].cur] \in Configs
      /\ frame[r].draft.enabled => frame[r].cur \in frame[r].enabledSeen

(* The history variable is what its name says, and every job to create or  *)
(* deliver belongs to a target in it.                                      *)
SeenInv ==
  \A r \in Runs :
    /\ pc[r] \in Inside =>
         \A t \in Targets : Active(t) => t \in frame[r].enabledSeen
    /\ \A k \in frame[r].toCreate \cup frame[r].pending :
         k.target \in frame[r].enabledSeen \cup {LegacyTarget}

(* Queued jobs are unsent, and only phases 1 to 3 have any.                *)
PendingInv ==
  \A r \in Runs :
    /\ pc[r] \notin {"create", "fetch", "legacy", "deliver", "send", "mark"}
         => frame[r].pending = {}
    /\ \A k \in frame[r].pending : jobs[k] \in Unsent

(* Their candles are still to be fetched or have been.                     *)
FetchInv ==
  \A r \in Runs, k \in JobKeys :
    k \in frame[r].pending =>
      /\ pc[r] \in {"create", "fetch"} =>
           FeedOf(k) \in frame[r].needed \cup frame[r].fetched
      /\ pc[r] \in {"legacy", "deliver", "send", "mark"} =>
           FeedOf(k) \in frame[r].fetched

(* While no channel has failed, those already tried have accepted.         *)
SendInv ==
  \A r \in Runs :
    pc[r] \in {"send", "mark"} =>
      /\ pc[r] = "mark" => frame[r].toNotify = {}
      /\ ~frame[r].sendErr =>
           \A n \in Notifiers \ frame[r].toNotify, k \in Items(r) :
             frame[r].cur \in Reaches[n] => delivered[n][k] > 0

(* The conjunction is what a step preserves.                               *)
IInv ==
  /\ TypeOK
  /\ LockInv
  /\ LoadInv
  /\ SeenInv
  /\ PendingInv
  /\ FetchInv
  /\ SendInv
  /\ SentMeansAccepted

-----------------------------------------------------------------------------
(* What all of this implements: the ledger of AlertLedger, whose jobs and  *)
(* deliveries are the executor's own.                                      *)
Ledger == INSTANCE AlertLedger WITH
  Channels <- Notifiers,
  Serves <- [n \in Notifiers |-> {k \in JobKeys : k.target \in Reaches[n]}]

(* Every step of the executor, of a chat command or of a crash is a step   *)
(* of the ledger or leaves it alone.                                       *)
ImplementsLedger == Ledger!Spec

(* What documents say and the code does not do.                            *)

(* "Mark a job sent only after the notification flow completes according   *)
(* to the delivery policy": a sent job was accepted by some channel.       *)
SentWasDelivered ==
  \A k \in JobKeys :
    jobs[k] = "sent" => \E n \in Notifiers : delivered[n][k] > 0

(* "Duplicate scheduler tick -> one notification", with no crash.          *)
DuplicateTickOneNotification ==
  \A k \in JobKeys, n \in Notifiers : crashes = 0 => delivered[n][k] <= 1

=============================================================================
