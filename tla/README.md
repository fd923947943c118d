# Verification of crypto-price-alert

TLA+ modules, TLC configurations and TLAPS proofs kept beside the Go code in
`src/`.  Line numbers refer to that code.  `PROJECT.json` lists every run,
mutant, theorem and hazard, and the source lines of every definition.

## The system

One process polls market data at period boundaries and posts price changes to
chats.  People configure their chat with commands and buttons.

| Part | State it keeps | Operations | Who calls it |
|---|---|---|---|
| Scheduler, `scheduler.go`, `period.go` | the cron entry's next activation, one goroutine per activation | `Start`, `tick`, `Stop`, `GetCurrentPeriod` | cron |
| Target executor, `target_executor.go`, `executor.go` | a mutex; the targets, jobs and candles of the round in hand | `Execute` | ticks, several at once |
| Job store, `postgres.go:28-132` | `notification_jobs`, unique per target, provider, symbol, interval and start | `CreateIfNotExists`, `MarkSent`, `MarkFailed`, batch delete | executor, cleanup |
| Notifiers, `notification/` | none | `SendToTarget` with retries | executor, alert API |
| Market providers, `market/` | a registry fixed at start | `Get`, `Supports`, `GetKline` | executor, configuration, API |
| Configuration service, `service/configuration/` | versioned rows of a chat: enabled, provider, symbols, intervals | create, replace, enable, pause | chat service |
| Chat service, `chat/service.go`, `session.go` | sessions in memory, 15 minutes, one store per adapter | configure, edit, save, cancel, enable, pause | webhooks |
| Webhooks, `chat/telegram`, `chat/slack` | `inbound_events`, unique per provider and event id | claim, process, answer, mark | Telegram, Slack |
| Cleanup, `notification_job_cleanup.go` | none | a daily loop of delete batches | cron |
| Alert API, `api/`, `service/alert.go` | none | on-demand runs | HTTP |
| Schema, `database/database.go` | tables, columns and unique indexes of several releases | `Migrate` | `main` |
| Process, `cmd/server/main.go` | what has been started and not yet stopped | boot, serve, shut down | the operating system |
| Configuration file, command parsing, rendering | none | pure | `main`, webhooks, executor |

They meet in the database (executor, cleanup, configuration service and
webhooks share it without transactions that span calls), in the executor's
mutex, in the sessions that concurrent requests copy and write back, and in the
semaphore of each market provider, for which rounds and API runs compete.

### What is hard, and what makes each part correct

* **Rounds** overlap, die half-way and lose answers.  A sent job stays sent and
  is not posted again; sent means every channel of the target accepted; a
  pause is honoured by the next round although a configuration is read in three
  statements; one target's failure does not touch another's alerts; every tick
  gives the mutex back.
* **Time**: cron matches local minutes, candles close at UTC ones, the active
  hours are local, ticks come late and wait.  No candle of a prompt scheduler
  is missed, and nothing outside the hours is executed.
* **Sessions** are copies of a configuration that may change meanwhile.  Every
  stored change builds on the version before it, a session is saved at most
  once, a save without edits loses nothing though it stores today's names of the
  symbols, and a race to create the first configuration is lost by nobody.
* **Events** are delivered again.  Each is processed at most once, its verdict
  is final, and none is called processed that was not gone through and answered.
* **Chats** are registered by their first command.  However many race, there is
  one target, and every change was its creator's; what an event's row says of a
  saved configuration agrees with what was saved.
* **Outgoing calls** fail, are refused or lose their answers, and the client
  that asked for them may be gone.  Only transient failures are retried, a place
  in a semaphore comes back on every way out, a candle is that of its period up
  to the second that is tolerated, a message is repeated only for a lost answer,
  and a run that lost its client reports nothing false to a chat.
* **Upgrades and shutdown**: `Migrate` is no transaction and may be killed
  between any two statements; a signal may come at any time.  The history of
  three releases survives, rounds are refused by their own row only, requests
  keep the database, and the process neither fails to boot nor to stop.
* **Cleanup** runs in batches against rows that are being written.  Only stale
  rows go, and a quiet run leaves none behind and ends.

## Modules

### `JobStore`, `TargetExecutor`, `AlertLedger`

`JobStore` is the table: a status for each key, and what the statements do to
it.  `CreateIfNotExists` inserts or loads; a status update may be applied, fail,
or be applied with its answer lost.  `TargetExecutor` is a round of
`TargetExecutor.Execute` for each goroutine `r`.  `pc[r]` is the place in the
code, `frame[r]` its local variables, `mu` the mutex.

| Action | Code |
|---|---|
| `Tick`, `Return` | the goroutine of an activation and the loop of `tick` |
| `Acquire` | the lock (80) |
| `ListTargets`, `RunLegacy`, `ListFails` | 88-99 |
| `LoadRow`, `LoadSymbols`, `LoadIntervals`, `LoadFails`, `LoadDone` | `GetAlertConfig` and the filter, 103-128 |
| `CreateJob`, `DropTarget`, `CreateDone` | phase 1, 130-175 |
| `Fetch` | phase 2, 177-215, once per provider and symbol |
| `LegacyCreate`, `LegacyFails`, `LegacyDone` | `executor.go`, when there is no target |
| `Deliver`, `Notify`, `NotifyDone`, `Mark`, `DeliverDone` | phase 3, 217-273 |
| `RegisterTarget`, `SaveConfig` | a chat appears, its configuration changes between any two steps |
| `Crash` | the process dies: the goroutines and the mutex go, the table stays |

A notifier whose provider is not the target's succeeds by doing nothing
(`notifier.go:24`): `Reaches[n]` is the set of targets that notifier `n` really
sends to.  `delivered` counts what the provider accepted, also when the answer
was lost; it and `enabledSeen` are history.  The legacy executor keeps the last
error instead of the first and marks its rows in parallel, which comes to the
same.  `BuildMessage`'s error cannot occur at `target_executor.go:255`, so
there is no step for it.

`AlertLedger` is what this promises to anyone who looks at the table and the
channels: jobs are recorded, posted while unsent, and settled as sent only when
every channel that serves them has accepted.  `ImplementsLedger` is the
refinement; a posted message carries the lines of several jobs in one step.

### `PeriodEngine`, `Scheduler`

`Due(end, i)` is `GetCurrentPeriod`, `TicksAt` is `intervalToCronSpec`,
`NextTick` is the cron library's rule for the next activation (external).
Minutes count from a UTC midnight.  `Fire` is the cron loop starting a
goroutine, `ReadTime` that goroutine's `time.Now()`, `Execute` one interval of
the loop in `tick` getting its turn with the mutex; a round itself is one step
here and `TargetExecutor`'s subject there.  `Pass` lets a minute go by whatever
is still to be done, so activations come late, are overtaken by the next one,
and calls wait.  `late` records the minutes in which the cron loop or a
goroutine fell behind.  `Announced` defines, independently of `Due`, the
candles that ought to be announced.

### `ConfigSessions`, `VersionedConfig`

The requests of one chat, each at its own place in `Handle`, `UpdateSession`,
`saveSession`, `GetOrCreateConfig` and `ReplaceAlertConfig`.  `row` is the
stored configuration, `sessions` the memory store.  The read for a session is
three actions (`ReadRow`, `ReadSymbols`, `ReadIntervals`), as
`postgres.go:253-274` issues three statements; the read of `saveSession`, which
uses the row only, is one.  The transaction is `BeginReplace` (its own check of
the version) and `CommitReplace` (the conditional UPDATE and the commit, whose
answer may be lost).  Buttons edit a copy.

Symbols are stored by whatever name the configuration file gave them then.
`Listing` says which symbol of today's configuration a provider has under
another name, and `Brought` is what `GetOrCreateConfig` does to a row it finds:
an enabled provider (`effectiveProvider`), today's names (`Renamed`, the
`canonicalSymbols` of `service.go:124`), both in memory only; the session's save
stores them.  Two stored names may become one symbol, so a session keeps how
often it has each (`Lists`), a button removes one of the two, and `Valid`
refuses the list while there are two.  A row that the same request has created
is returned unconverted.  Enable and pause store what they read.  Intervals are
sets; case and order are left out.  `VersionedConfig` is the promise: versions
grow by one, and a change either switches alerts on or off or replaces the
selections.

### `InboundEvents`

Handlers of both adapters: `Deliver`, `Claim` (the insert that only one wins),
`ClaimConflict`, `ClaimFails` (with the insert applied or not), `Process`,
`ProcessFails`, `ProcessNothing`, `Reply`, `Mark` and `Crash`.  Slack answers
before it processes, so nothing delivers its event again when the command fails;
Telegram is answered after the command.  Slack's `respondError` returns nil
when the error text was sent, so such an event counts as processed.

### `ChatEvents`

Refines `InboundEvents`: its step "process" becomes the calls the adapters
make.  `stage[h]` is the place of handler `h` in them.

| Action | Code |
|---|---|
| `Begin`, `GiveUp` | into `process`, and out of it with an error before the command |
| `LookUpCreator`, `CreateTarget`, `CreateTargetLost`, `SelectTarget` | `targetForChat`, `targetForChannel` and `FindOrCreateTarget` |
| `GetTarget`, `CheckCreator` | what a button does before its session is looked at |
| `RunCommand`, `RunRefused`, `RunBroken` | `Service.Handle`: done, refused, done with an error after it |
| `Transfer`, `Expire`, `ChatCrash` | the platform, the session store, the process |

`ReturnError` is where the adapters differ: Telegram's returns the error and the
event fails, Slack's tells the chat.  A target's row is known by the event that
made its identifier up, a session by target and actor.  `done` is history: the
events whose change was made.  `ImplementsEvents` says that all this stays
within the life of an event that `InboundEvents` describes.

### `JobCleanup`

`StartRun`, `Select`, `Delete`, `DeleteFails` for several processes, and
`Write`, which refreshes or creates a row at any time.  One statement deletes
(`postgres.go:102`), but its subquery and its own condition look at the table
one after the other: they are two steps.  A writer stamps a row with a time it
read up to `WriteDelay` earlier.

### `OutboundCalls`, `MarketRequests`, `Deliveries`, `AlertRuns`

`AlertRuns` composes three modules.  `OutboundCalls` is what all outgoing calls
share: the goroutine, its context (`cancelled`), the number of attempts.
`MarketRequests` is `GetKline` of the two providers: `Enter`, `QueueUp` and the
two ways of giving up are the `select` on the semaphore, `Finish` is the
deferred receive together with the return, and hands the place to the first in
line, as Go's channels do.  The providers differ in where they look for the
mapping (`RefuseSymbol` before the semaphore, `RefuseUnmapped` inside) and in
the candle they take from an answer (`Answerable`).  `Deliveries` is
`sendWithRetry` and the loop of the Slack bot (`BotStyle`), which repeats even a
refusal and sleeps without looking at its context.  `PostTakenSilently` is a
post that was taken and whose answer was lost.

`AlertRuns` runs them: `RunAlert` is a request to the API that passed its
checks, `Round` the fetching and sending of a scheduler's round, which nobody
cancels; `FetchSymbol`, `RecordResult`, `BuildMessage`, `Notify`,
`RecordVerdict` and `Answer` follow `AlertService.run`, `ClientLeaves` is the
end of the request's context.  Prices are left out, a candle is its opening
time; `ClosesAt` is its closing time, which at Binance lies a millisecond, one
unit of time here, before the next candle opens.  `Fits` is the check of
`CalculateChange` with its tolerance of a second (`alert.go:218`): a client may
ask for any period, and for one that is off the grid by less than that the
candle of the neighbouring grid period passes.  `copies`, `silent`, `answers`
and `abandoned` are history.

### `Schema`, `Server`

`Schema` is the database at boot: two tables with their columns, unique indexes
and rows, in the four states that the releases so far left behind (none, the
MVP's, the chats', today's), and `Migration`, the list of the statements of
`Migrate`.  `Exec` runs one: it applies or is skipped (`IF EXISTS`,
`HasTable`), and succeeds only if the rows let it (`Acceptable`).  An insert of
a round is refused by whichever unique index its row hurts (`Blocked`).

`Server` is `main` and `initServer`.  `phase` is where they are; `on` and `busy`
are the crons that start jobs and those with one in progress; `requests` and
`workers` are handlers and the goroutines Slack's handlers leave behind.
`Die` is an error of the start, a kill, or a signal before `signal.Notify`;
`Signal`, `Drained`, `GraceEnds` and `ServerFails` lead to the deferred calls
`StopRounds`, `StopSweeper` and `CloseDatabase`, in that order.

`AlertHistory` is what the two promise together: the alerts that have a job and
the chats that have a configuration only grow, by what a round or a request
works on.  `Announced` and `Configured` read them off the rows of whichever
release, `Upgraded` being the key that a row has after the upgrade.

### MC modules

`MCTargetExecutor`, `MCConfigSessions`, `MCInboundEvents`, `MCChatEvents`,
`MCJobCleanup`, `MCScheduler`, `MCAlertRuns` and `MCServer` hold the values of
the instances.  Each operator under a comment
"Mutant" is a plausible bug; a mutant replaces one definition by it, and the
property named for it in `PROJECT.json` must then fail.

## Runs

| Run | Distinct states | Question |
|---|---|---|
| rounds | 40,930 | Two goroutines, one period, two targets that share a symbol, two channels, one save, one crash. |
| symbols | 21,236 | Two symbols, two providers, one of which lacks one: dropped targets, half-sent periods, a provider changed mid-round. |
| failures | 75,624 | Two targets, two intervals in one tick, a disabled provider: is the other target attempted, and does the tick return? |
| unserved | violation | Does sent mean delivered by somebody? |
| duplicate | violation | Does a duplicate tick give one notification? |
| races | 1,275,604 | Five requests of one chat, two at a time, one crash; symbols stored by names of an earlier configuration. |
| chats | 1,991,122 | Five kinds of event, three deliveries, two handlers, two members, one new creator, one crash. |
| event_lost | violation | Is what was acknowledged processed? |
| cleanup | 130,882 | Three rows in batches of two, two processes. |
| schedule | 296,719 | 24 minutes around midnight, 6 of them lagging, one restart. |
| api | 301,016 | A request and a round, two providers with one place each, three symbols, two attempts, a channel for each, periods on and off the grid. |
| server | 36,305 | Every old database, one chat, two market providers, three mishaps. |

**Why these bounds are enough.**  Two goroutines are all a mutex can tell apart:
one inside and one waiting, with a third adding only another waiter.  A second
save or crash meets the same kinds of state as the first, since a round keeps
nothing of an earlier one but the table.  Two targets sharing a symbol, and two
symbols on two providers, give each case of the shared fetch: needed by both, by
one, by none, unsupported.  Torn reads need one reader and one writer; five
requests allow configure, configure, edit, save, save.  The configuration that
`races` starts with runs or is paused, on an enabled provider or on one that is
gone, with one symbol under an old name, or with the same symbol under both.  In
`chats` two members on two handlers are a race for the target's row, and three
deliveries are two first commands and a repeated one, or a command, its button
and the button again.  In `api` one place for two callers is both the full
semaphore and the queue; two attempts are one retry and a last one; of the three
symbols one is unknown to one provider; a round's period is one candle long, a
client asks for two candles or for a period of one candle's length between two;
a candle lasts 4 units and the tolerance 1, so that some misplaced candles pass
and some do not. In `server` three mishaps are two interrupted boots and a
signal; rows differ in the columns the indexes tell apart, and two copies of one
are enough to see a row doubled.  Three rows in batches of two give a full
batch, a short one and an empty one.  In `schedule` the 5-minute tick and 6
lagging minutes let one activation be overtaken by the next, and the offset of
5:45 makes the half-hour candles close off the local half hours. Where a
property must hold for all sizes, the proofs below say so.

**Symmetry** is used over goroutines, requests, sessions and handlers in runs
without liveness properties; the specifications tell none of them apart.
**Deadlock** is checked in every run; the end of an instance (`AllReturned`,
`AllAnswered`, `AllServed`, `AtHorizon`) is a stuttering step; `AlertRuns` and
`Server` never end.

**Fairness.**  `failures` assumes weak fairness of the steps of
each goroutine: Go's scheduler runs a runnable goroutine eventually, calls have
timeouts, and no step waits for another but at the mutex.  Weak fairness is
enough there too: an instance has finitely many ticks, every round ends, and so
the mutex is in the end free for good for a goroutine that still waits.
`cleanup` assumes weak fairness of a run's own steps.  `api` assumes it of each
goroutine: timers fire, a request ends after the ten seconds of its HTTP client
at the latest, and Go's channels serve those who wait in turn.  `server` assumes
it of `main` alone: no round, request or worker has to end, and nobody has to
start the process.
Failures, crashes and commands have no fairness.

## What the runs show

All properties hold except three statements of the plans:

* `SentWasDelivered`: a chat whose provider has no notifier configured has its
  jobs marked sent though nobody sent anything (`notifier.go:24`).
* `DuplicateTickOneNotification`: `MarkSent`'s error is dropped
  (`target_executor.go:269`); a second execution of that period sends again.
  Once the row is sent, nothing is repeated.
* `AcknowledgedWasProcessed`: an insert that committed but whose answer was
  lost turns the redelivery into a duplicate (`webhook.go:95`).

What does hold in their place: `ServedCorrect`, that the first has no cause but
the missing notifier; `SentIsFinal`, for the second; and `RowsTellTheTruth`:
an event that was acknowledged and never run is "received" in its row and never
recorded as processed or failed.  That does not tell it from all others: an
event that did run stays "received" when its mark is lost or the process dies
before it, and a verdict says that a handler went through the event to its end,
which may be an error in looking up its chat.

What else the modelling brought up, with no property against it, as the code
promises nothing else or does it on purpose:

* 1d, 3d and 1w can be chosen but never fit in one day's active hours.  A tick
  interval of 2h meets no even UTC hour seven hours ahead (`PromptMissesNothing`
  therefore assumes `GridsAgree`).
* A save can succeed and be answered with "session not found"; an event stays
  "received" for ever when the process dies.
* Ticks that wait for the mutex are served in no order, so of two periods the
  later may be announced first.
* Shutdown waits neither for a round nor for Slack's goroutines: `main.go:129`
  asks cron's context for its error instead of waiting for its end, and `Server`
  reaches the end of `main` with both in progress.  The plan in `src/` still
  lists this as work to do, as it does the order of the start, where the cron
  runs before the handlers are built.
* The creator stored with a target is never refreshed, and
  `configuration.max_targets` is never compared with anything.
* The Slack bot's loop repeats refusals, and sleeps between attempts without
  looking at its context.
* Binance's check that a candle lies in the period is commented out
  (`binance.go:218`); `CalculateChange` refuses what gets through, so
  `CandleOfPeriod` holds, but the symbol is then reported as unavailable.
* For 09:59:59 to 10:59:59 the API reports the candle of 10:00 to 11:00, thanks
  to the tolerance.  `CandleOfPeriod` allows that and says what it cannot do: no
  second candle passes for such a period, and a period on the grid gets its own.
* A configuration that holds one symbol under two names opens with it twice, and
  cannot be saved until one of the two is removed.

## Proofs

TLAPS checks the theorems for every value of the constants that satisfies the
named assumptions.

* `TargetExecutorProofs`.  `IInv` is inductive.  `SentMeansAccepted` alone is
  not: to know at `Mark` that all channels accepted one needs `SendInv` (no
  error so far means those tried have accepted), that the items are still
  unsent (`PendingInv`), which another goroutine could break, hence `LockInv`.
  `SeenInv` carries a pause from the read to the job, `FetchInv` a job to its
  candle.  From `IInv` follow `TypeCorrect`, `SentCorrect`, `PauseCorrect`,
  `FetchCorrect`, the action property `SentFinality`, and `Refinement`: `Spec`
  implements `AlertLedger`, step by step.  `ServedCorrect` assumes `Served`,
  that every target has a notifier, and has `SentWasDelivered` from it.
* `InboundEventsProofs`.  `ClaimInv` says that at most one handler owns an event
  from its claim to its verdict; with it `OnceCorrect`, `TruthCorrect` and
  `SettledCorrect`.
* `JobCleanupProofs`.  `BatchInv` ties a batch to the rows that were stale at
  its selection; with it `SweepCorrect` and `DeleteCorrect`.
* `SchedulerProofs`.  Lemmas about `PeriodEngine`: `NextTick` exists and skips
  nothing, `Due` and `Announced` agree for all offsets and hours, and where the
  grids agree cron matches every candle.  `FollowsCron` says that no activation
  lies between now and `next` and that each minute's candles are handled, just
  coming, or late.  From it `HoursCorrect` and `PromptCorrect`.
* `ChatEventsProofs`.  `EventsRefinement`: every step of a chat's event is one
  of `InboundEvents` or leaves its variables alone, so what is proved there
  holds here (`ChatOnceCorrect`, `ChatTruthCorrect`, `ChatSettledCorrect`).
  `ChatIInv` adds `StageInv`, the target a handler goes on with is the stored
  one, and `SavedInv`, which carries a button's save from the command to the
  verdict: between the two lie the answer to the chat and a possible loss of
  the session.  With it `ChatTypeCorrect`, `TargetCorrect` and
  `RecordedCorrect`.
* `ConfigSessionsProofs`.  `BaseInv` says that nobody relies on a version that
  is yet to come; as versions only grow, a copy that is out of date stays so.
  `ReadInv` is what makes three separate reads safe: *while the version they
  began with is the stored one*, what was read is what is stored.  `SidInv` and
  `SpentInv` say that every copy of a saved session is out of date, `CopyInv`
  that a copy nobody edited, on the current version, still has the row's
  provider, unless that is gone, its intervals and all its symbols by their old
  or by today's names.  What passes `Valid` is `Served`, and no two of it have
  become one (`RenamedFacts`), so the save stores each of them, by today's name
  wherever no configured symbol is another's name at the provider (`NamesAgree`;
  the configuration file's validation does not see to that). From `IInv` follow
  `TypeCorrect`, `SavedCorrect`, `RaceCorrect`, `UntouchedCorrect` and
  `Refinement`: `Spec` implements `VersionedConfig`.
* `AlertRunsProofs`.  `SlotsAccounted` is inductive only together with what is
  known of the calls.  `SlotEffects` sorts every step into six effects on a
  semaphore (it is kept, or a place is taken, waited for, no longer waited for,
  given back or handed to the first in line), and `QueueStep` and `PlaceStep`
  go through the effects instead of through the actions.  `AnswersInv` says
  that a call's attempt number counts its transient failures, `CopiesInv` that
  a channel not yet asked has no copy of the message and that, while it is
  asked, every copy was taken silently.  `RunInv` ties a run to its calls: one
  that lost its client stays without it, so its sends find their context done.
  `CandlesInv` is what the check has let pass; `OneCandleFits` makes
  `CandleOfPeriod` of it, as candles do not overlap and the tolerance is shorter
  than an interval (`AlertRunsAssumption`).
  From `IInv` follow `SlotsCorrect`, `RetriesCorrect`, `CopiesCorrect`,
  `ReportCorrect`, `NothingCutShortCorrect` and `CandleCorrect`.  The set of
  goroutines is assumed finite; nothing else is bounded.
* `ServerProofs`, over `Schema` and `Server`.  A boot may find what any number
  of interrupted ones left, so nothing can be said of the tables by the place
  in `Migrate` alone.  `Done` is what *this* boot has executed: `FilledInv` and
  `IndexInv` say what is true of the rows and indexes once it has (a filled
  column stays filled, a dropped index stays away until the last statement),
  and a boot that begins anew has to know nothing.  What holds across boots is
  in `JobsInv` and `ConfigsInv`: no two rows have the same `Upgraded` key.
  `FillRow` gives the central lemma, `BackfillFacts`: filling a column maps the
  rows one to one and keeps their upgraded keys, so that the sums in `Backfill`
  never add two rows, and no index that is there is hurt.  Hence
  `RefusedCorrect` (no statement is ever refused, `NeverRefused`), and with
  `PhaseInv`, which says that rounds and requests find `Migrate` at its end,
  `RoundsCorrect` and `RequestsCorrect`.  `HistoryRefinement`: `Spec` implements
  `AlertHistory`; each statement of `Migrate` is a step that changes nothing
  there.

Assumptions: those named in the modules (`ConstantsAssumption`,
`ScheduleAssumption` and the like), which TLC evaluates on every instance.

Only model-checked: the liveness properties (`EveryItemAttempted`,
`EveryTickReturns`, `RunEnds`, `EveryRunEnds`, `MainNeverSticks`), since TLAPS
does not reason about fairness.

## Not modelled

* Command parsing, rendering, the layout of keyboards, decoding of requests and
  of numbers, signatures: pure functions of their input.  Whatever they return
  is among the inputs the modules enumerate.
* The configuration file and the construction of the registry: read once.  What
  their validation guarantees is assumed by the modules' `ASSUME`s.
* Daylight saving changes and clocks that go back (`PeriodEngine`).
* Two processes running the executor at once: the mutex is per process, and
  `SentIsFinal` is about one.
* Events whose identifier the Slack adapter makes up, as a request without
  `trigger_id` is a new event to the code, whoever repeats it.
* Prices, message texts, the order of selections.

## Plan

1. An abstract semaphore that `MarketRequests` implements, to state in one place
   who may wait for whom.
2. Identifiers made up by the Slack adapter.
