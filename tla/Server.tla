------------------------------- MODULE Server -------------------------------
(***************************************************************************)
(* The process: main and initServer from the opened database to the exit,  *)
(* with the two cron schedulers, the HTTP listener, its requests and the   *)
(* goroutines that answer Slack, over the database of Schema.              *)
(*                                                                         *)
(* A round is known by the rows it inserts, a request by the chat's first  *)
(* configuration; what else they do is in the other modules, and the rows  *)
(* are too young for the sweeper.  A mishap is an error, a kill, or a      *)
(* signal, and there are at most MaxMishaps.                               *)
(***************************************************************************)
EXTENDS Schema

CONSTANTS
  Crons,       (* "round" and, with a retention configured, "sweep"        *)
  Requests,
  MaxMishaps   (* bound: failures, kills and signals                       *)

ASSUME ServerAssumption ==
  /\ "round" \in Crons /\ Crons \subseteq {"round", "sweep"}
  /\ MaxMishaps \in Nat

VARIABLES
  phase,     (* where main is; "down" without a process                    *)
  step,      (* the next statement of Migrate                              *)
  on,        (* the crons that start jobs                                  *)
  busy,      (* the crons with a job in progress                           *)
  listening,
  requests,  (* handlers in progress                                       *)
  workers,   (* handleSlashCommand and its like, after the answer          *)
  dbOpen,
  hurried,   (* the grace was over, or the listener had failed             *)
  mishaps

processVars == <<on, busy, listening, requests, workers, dbOpen, hurried>>
vars == <<db, phase, step, processVars, mishaps>>

Starting ==
  {"migrate", "sweeper", "clients", "scheduler", "chats", "listen", "notify"}
Stopping == {"stop rounds", "stop sweeper", "close database", "exit"}

TypeOK ==
  /\ SchemaTypeOK
  /\ phase \in {"down", "serving", "draining"} \cup Starting \cup Stopping
  /\ step \in 1..(Len(Migration) + 1)
  /\ on \subseteq Crons /\ busy \subseteq Crons
  /\ requests \subseteq Requests /\ workers \subseteq Requests
  /\ listening \in BOOLEAN /\ dbOpen \in BOOLEAN /\ hurried \in BOOLEAN
  /\ mishaps \in 0..MaxMishaps
  /\ phase = "exit" => on = {}
  /\ phase = "down" =>
       /\ on \cup busy = {} /\ requests \cup workers = {}
       /\ ~listening /\ ~dbOpen

Down ==
  /\ phase' = "down" /\ step' = 1
  /\ on' = {} /\ busy' = {} /\ requests' = {} /\ workers' = {}
  /\ listening' = FALSE /\ dbOpen' = FALSE /\ hurried' = FALSE

Init ==
  /\ SchemaInit
  /\ phase = "down" /\ step = 1
  /\ on = {} /\ busy = {} /\ requests = {} /\ workers = {}
  /\ listening = FALSE /\ dbOpen = FALSE /\ hurried = FALSE
  /\ mishaps = 0

Mishap == mishaps < MaxMishaps /\ mishaps' = mishaps + 1
NoMishap == UNCHANGED mishaps

Boot ==
  /\ phase = "down"
  /\ phase' = "migrate" /\ step' = 1 /\ dbOpen' = TRUE
  /\ NoMishap
  /\ UNCHANGED <<db, on, busy, listening, requests, workers, hurried>>

MigrateStatement ==
  /\ phase = "migrate" /\ step <= Len(Migration)
  /\ Succeeds(step)
  /\ Exec(step)
  /\ step' = step + 1
  /\ NoMishap
  /\ UNCHANGED <<phase, processVars>>

Advance(from, to) ==
  /\ phase = from /\ phase' = to
  /\ NoMishap
  /\ UNCHANGED <<db, step>>

Migrated ==
  /\ step > Len(Migration)
  /\ Advance("migrate", "sweeper") /\ UNCHANGED processVars

StartSweeper ==
  /\ Advance("sweeper", "clients")
  /\ on' = on \cup (Crons \cap {"sweep"})
  /\ UNCHANGED <<busy, listening, requests, workers, dbOpen, hurried>>

BuildClients == Advance("clients", "scheduler") /\ UNCHANGED processVars

StartScheduler ==
  /\ Advance("scheduler", "chats")
  /\ on' = on \cup {"round"}
  /\ UNCHANGED <<busy, listening, requests, workers, dbOpen, hurried>>

BuildChats == Advance("chats", "listen") /\ UNCHANGED processVars

Listen ==
  /\ Advance("listen", "notify")
  /\ listening' = TRUE
  /\ UNCHANGED <<on, busy, requests, workers, dbOpen, hurried>>

Serve == Advance("notify", "serving") /\ UNCHANGED processVars

Refused == phase = "migrate" /\ step <= Len(Migration) /\ ~Succeeds(step)

(* An error of main's start, a signal before signal.Notify, or a kill at   *)
(* any time: no deferred call runs.  A statement that the rows refuse is   *)
(* an error as well, and costs no mishap.                                  *)
Die ==
  /\ phase # "down"
  /\ Refused \/ mishaps < MaxMishaps
  /\ Down
  /\ mishaps' = IF Refused THEN mishaps ELSE mishaps + 1
  /\ UNCHANGED db

-----------------------------------------------------------------------------
(* The goroutines beside main                                              *)

Beside == UNCHANGED <<phase, step, on, listening, dbOpen, hurried>> /\ NoMishap

Fire(j) ==
  /\ j \in on \ busy
  /\ busy' = busy \cup {j}
  /\ Beside /\ UNCHANGED <<db, requests, workers>>

JobEnds(j) ==
  /\ j \in busy
  /\ busy' = busy \ {j}
  /\ Beside /\ UNCHANGED <<db, requests, workers>>

RoundInserts(key) ==
  /\ "round" \in busy /\ dbOpen
  /\ InsertJob(key)
  /\ Beside /\ UNCHANGED <<busy, requests, workers>>

Accept(r) ==
  /\ listening
  /\ r \notin requests \cup workers
  /\ requests' = requests \cup {r}
  /\ Beside /\ UNCHANGED <<db, busy, workers>>

Configure(r, key) ==
  /\ r \in requests \cup workers /\ dbOpen
  /\ key.target \in Targets
  /\ InsertConfig(key)
  /\ Beside /\ UNCHANGED <<busy, requests, workers>>

Answer(r) ==
  /\ r \in requests
  /\ requests' = requests \ {r}
  /\ Beside /\ UNCHANGED <<db, busy, workers>>

(* Slack's webhooks answer and leave the work to a goroutine.              *)
AnswerAhead(r) ==
  /\ r \in requests
  /\ requests' = requests \ {r} /\ workers' = workers \cup {r}
  /\ Beside /\ UNCHANGED <<db, busy>>

WorkerEnds(r) ==
  /\ r \in workers
  /\ workers' = workers \ {r}
  /\ Beside /\ UNCHANGED <<db, busy, requests>>

-----------------------------------------------------------------------------
(* The end                                                                 *)

(* Mutant: the server is closed instead of shut down.                      *)
SignalClosing ==
  /\ phase = "serving" /\ phase' = "stop rounds"
  /\ listening' = FALSE
  /\ Mishap
  /\ UNCHANGED <<db, step, on, busy, requests, workers, dbOpen, hurried>>

(* e.Shutdown closes the listener and waits for the handlers.              *)
Signal ==
  /\ phase = "serving" /\ phase' = "draining"
  /\ listening' = FALSE
  /\ Mishap
  /\ UNCHANGED <<db, step, on, busy, requests, workers, dbOpen, hurried>>

(* e.Start returned: main goes on to its deferred calls.                   *)
ServerFails ==
  /\ phase = "serving" /\ phase' = "stop rounds"
  /\ listening' = FALSE /\ hurried' = TRUE
  /\ Mishap
  /\ UNCHANGED <<db, step, on, busy, requests, workers, dbOpen>>

Drained ==
  /\ requests = {}
  /\ Advance("draining", "stop rounds") /\ UNCHANGED processVars

(* Ten seconds are over and Shutdown returns its context's error.          *)
GraceEnds ==
  /\ requests # {}
  /\ Advance("draining", "stop rounds")
  /\ hurried' = TRUE
  /\ UNCHANGED <<on, busy, listening, requests, workers, dbOpen>>

(* cron's Stop starts no more jobs; the context it returns, which ends     *)
(* with the last one, is asked for its error only.                         *)
StopRounds ==
  /\ Advance("stop rounds", "stop sweeper")
  /\ on' = on \ {"round"}
  /\ UNCHANGED <<busy, listening, requests, workers, dbOpen, hurried>>

(* Mutant: the function returned is the one that does nothing.             *)
StopSweeperNoop ==
  /\ Advance("stop sweeper", "close database") /\ UNCHANGED processVars

StopSweeper ==
  /\ Advance("stop sweeper", "close database")
  /\ on' = on \ {"sweep"}
  /\ UNCHANGED <<busy, listening, requests, workers, dbOpen, hurried>>

CloseDatabase ==
  /\ Advance("close database", "exit")
  /\ dbOpen' = FALSE
  /\ UNCHANGED <<on, busy, listening, requests, workers, hurried>>

Exit ==
  /\ phase = "exit"
  /\ Down
  /\ NoMishap /\ UNCHANGED db

Main ==
  \/ MigrateStatement \/ Migrated
  \/ StartSweeper \/ BuildClients \/ StartScheduler \/ BuildChats
  \/ Listen \/ Serve
  \/ Drained \/ GraceEnds
  \/ StopRounds \/ StopSweeper \/ CloseDatabase \/ Exit

Next ==
  \/ Boot \/ Main \/ Die \/ Signal \/ ServerFails
  \/ \E j \in Crons : Fire(j) \/ JobEnds(j)
  \/ \E key \in Keys : RoundInserts(key)
  \/ \E r \in Requests :
       \/ Accept(r) \/ Answer(r) \/ AnswerAhead(r) \/ WorkerEnds(r)
       \/ \E key \in Keys : Configure(r, key)

(* main goes on while it runs; nobody has to start it, and no request, no  *)
(* round and no worker has to end.                                         *)
Spec == Init /\ [][Next]_vars /\ WF_vars(Main)

-----------------------------------------------------------------------------
(* Properties                                                              *)

(* The row that a job of an earlier release has after the upgrade.         *)
Upgraded(r) ==
  [target |-> IF r.target = Null THEN LegacyTarget ELSE r.target,
   provider |-> IF r.provider = Null THEN Binance ELSE r.provider]

(* What the rows stand for, in whichever release's form they are.          *)
Announced == {Upgraded(r) : r \in Stored(db["jobs"])}
Configured == {r.target : r \in Stored(db["configs"])}

History == INSTANCE AlertHistory WITH
  Alerts <- Keys, AlertTargets <- TargetIDs,
  announced <- Announced, configured <- Configured,
  announcing <- "round" \in busy, handling <- requests \cup workers # {}

(* "Existing jobs and destinations are not duplicated", lost or invented:  *)
(* no statement of any boot, whatever it is applied to, changes which      *)
(* alerts are announced and which chats are configured; rounds add the one *)
(* alert, requests the one chat, they work on.                             *)
ImplementsHistory == History!Spec

(* "Same job idempotent for one provider, and distinct same-period jobs    *)
(* for Binance versus CMC", over all releases: while rounds run, each      *)
(* alert that was ever announced is found in one row under the key that a  *)
(* round looks for, a round that inserts a key is refused when that row is *)
(* there and never because of another key's row, whatever tables and       *)
(* indexes earlier releases and interrupted boots left; and each stored    *)
(* configuration names a provider.                                         *)
RoundsFindHistory ==
  "round" \in on =>
    /\ \A key \in Keys :
         /\ db["jobs"].rows[key] = IF key \in Announced THEN 1 ELSE 0
         /\ Blocked(key) <=> key \in Announced
    /\ \A r \in Stored(db["configs"]) : r.provider \in MarketProviders

(* Wherever earlier boots were interrupted, no statement of Migrate is     *)
(* refused by the rows it finds: the upgrade needs no repair by hand.      *)
NeverRefused == ~Refused

(* A handler in progress has the database, unless its time was over or the *)
(* listener failed.                                                        *)
RequestsKeepDatabase ==
  requests # {} => dbOpen \/ hurried

(* After any sequence of interrupted boots, one that meets no further      *)
(* mishap gets through the migration and serves; and after a signal the    *)
(* process ends, whether or not its requests, rounds and workers do.       *)
MainNeverSticks ==
  /\ phase = "migrate" /\ mishaps = MaxMishaps ~> phase = "serving"
  /\ phase = "draining" ~> phase = "down"

-----------------------------------------------------------------------------
(* The inductive invariant                                                 *)

(* This boot of the process has executed the statement.                    *)
Done(table, what) ==
  \E k \in 1..Len(Migration) :
    k < step /\ Migration[k] = [table |-> table, what |-> what]

(* main's places: what has been started, and what is still there.          *)
PhaseInv ==
  /\ phase \notin {"down", "migrate"} => step > Len(Migration)
  /\ phase \in {"migrate", "sweeper"} => on \cup busy = {}
  /\ phase \in Starting \ {"notify"} => requests \cup workers = {}
  /\ listening => phase \in {"notify", "serving"}
  /\ phase \notin {"down", "exit"} => dbOpen
  /\ phase \in Stopping /\ requests # {} => hurried
  /\ phase = "stop sweeper" => "round" \notin on
  /\ phase \in {"close database", "exit"} => on = {}

(* No job is stored twice, in whichever of the releases' forms.            *)
JobsInv ==
  LET t == db["jobs"]
  IN /\ \A r \in Stored(t) : t.rows[r] = 1
     /\ \A r, s \in Stored(t) : Upgraded(r) = Upgraded(s) => r = s
     /\ t.exists \/ Stored(t) = {}

(* One configuration of each chat.                                         *)
ConfigsInv ==
  LET t == db["configs"]
  IN /\ \A r \in Stored(t) : t.rows[r] = 1 /\ r.target # Null
     /\ \A r, s \in Stored(t) : r.target = s.target => r = s
     /\ t.indexes \subseteq {PrimaryKey}
     /\ t.exists \/ Stored(t) = {}
     /\ Done("configs", Create(PrimaryKey)) => t.exists

(* A column that was filled stays filled.                                  *)
FilledInv ==
  \A table \in Tables : \A c \in Columns : Done(table, Fill(c)) =>
    \A r \in Stored(db[table]) : r[c] # Null

(* The rows that each of the indexes admits, and which of them are there.  *)
IndexInv ==
  LET t == db["jobs"]
  IN /\ t.indexes \subseteq {SymbolKey, TargetKey, ProviderKey}
     /\ t.exists \/ t.indexes = {}
     /\ Done("jobs", Create(ProviderKey)) => t.exists
     /\ SymbolKey \in t.indexes => \A r, s \in Stored(t) : r = s
     /\ TargetKey \in t.indexes =>
          /\ \A r \in Stored(t) : r.target # Null
          /\ \A r, s \in Stored(t) : r.target = s.target => r = s
     /\ ProviderKey \in t.indexes =>
          \A r \in Stored(t) : r.target # Null /\ r.provider # Null
     /\ Done("jobs", Drop(SymbolKey)) => SymbolKey \notin t.indexes
     /\ Done("jobs", Drop(TargetKey)) => TargetKey \notin t.indexes
     /\ Done("jobs", CreateIndex(ProviderKey)) => ProviderKey \in t.indexes

IInv ==
  /\ TypeOK
  /\ PhaseInv
  /\ JobsInv /\ ConfigsInv /\ FilledInv /\ IndexInv

=============================================================================
