--------------------------- MODULE ConfigSessions ---------------------------
(***************************************************************************)
(* The interactive configuration of one chat: the commands and buttons     *)
(* that chat.Service handles, the sessions of MemorySessionStore and the   *)
(* alert_configs row (with its symbol and interval children) that          *)
(* configuration.Service and PostgresRepository read and replace.          *)
(*                                                                         *)
(* Every webhook request is a goroutine of its own; what it keeps between  *)
(* two calls to the store is req[q].  An action is one query, one          *)
(* transaction step or one critical section of the session store.          *)
(*                                                                         *)
(* Rows and sessions of other chats are refused by id and are left out, as *)
(* are the texts and keyboards sent back and the order of selections.      *)
(***************************************************************************)
EXTENDS Naturals, FiniteSets

CONSTANTS
  Requests,          (* the goroutines that handle webhook requests        *)
  SessionIds,        (* session ids; uuids, so each is used once           *)
  Providers, Symbols, Intervals,
  EnabledProviders,  (* the providers the registry was built with          *)
  DefaultProvider,
  DefaultSymbol,     (* the first configured symbol and interval, which a  *)
  DefaultInterval,   (* new configuration starts with                      *)
  Supported,         (* the <<provider, symbol, interval>> it supports     *)
  Listing,           (* the <<provider, symbol, name>> of symbols that     *)
                     (* have a name of their own at the provider           *)
  MaxSymbols,        (* most symbols a configuration may have              *)
  Earlier,           (* configurations an earlier start may have left      *)
  NoRow, NoSession,
  MaxRequests,       (* bound: requests received                           *)
  MaxCrashes         (* bound: process crashes                             *)

ASSUME ConstantsAssumption ==
  /\ EnabledProviders \subseteq Providers
  /\ DefaultProvider \in EnabledProviders
  /\ DefaultSymbol \in Symbols
  /\ DefaultInterval \in Intervals
  /\ IsFiniteSet(Symbols)
  /\ Supported \subseteq EnabledProviders \X Symbols \X Intervals
  /\ Listing \subseteq EnabledProviders \X Symbols \X Symbols
  /\ MaxSymbols \in Nat \ {0}
  /\ MaxRequests \in Nat /\ MaxCrashes \in Nat

Chosen(S) == (SUBSET S) \ {{}}

Rows == [version : Nat, enabled : BOOLEAN, provider : Providers,
         symbols : Chosen(Symbols), intervals : Chosen(Intervals)]

(* A list of symbols in memory: how often it has each one.                 *)
Lists == [Symbols -> Nat]

Once(S) == [x \in Symbols |-> IF x \in S THEN 1 ELSE 0]

Members(list) == {x \in Symbols : list[x] > 0}

Distinct(list) == \A x \in Symbols : list[x] <= 1

(* A selection in a session may be empty until it is saved, and two of its *)
(* symbols may have become one.                                            *)
Sessions == [base : Nat, provider : Providers,
             symbols : Lists, intervals : SUBSET Intervals]

ASSUME EarlierAssumption == Earlier \subseteq Rows

ASSUME NoneAssumption ==
  /\ NoRow \notin Rows
  /\ NoSession \notin Sessions \cup SessionIds

VARIABLES
  row,       (* the stored configuration                                   *)
  sessions,  (* the sessions in memory                                     *)
  opened,    (* the session ids used so far                                *)
  pc,        (* where each goroutine is, or how its last request ended     *)
  req,       (* what each goroutine keeps in memory                        *)
  received,  (* requests so far                                            *)
  crashes,   (* process crashes so far                                     *)
  committed, (* history: how often each session was committed              *)
  edited     (* history: the sessions whose selections were changed        *)

store == <<row, sessions, opened>>
counters == <<received, crashes>>
history == <<committed, edited>>
vars == <<store, pc, req, counters, history>>

Ops == {"none", "configure", "first", "enable", "pause", "save", "edit",
        "cancel"}

(* /configure is "first" once it has created the row itself.               *)
Opening == {"configure", "first"}

Working == {"row", "create", "symbols", "intervals", "open", "version",
            "edit", "check", "begin", "commit", "close"}

Idle == {"new", "done", "refused", "failed"}

PCs == Working \cup Idle

(* base is the version the request relies on, draft what it will store.    *)
Req == [op : Ops, sid : SessionIds \cup {NoSession}, base : Nat,
        enabled : BOOLEAN, provider : Providers,
        symbols : Lists, intervals : SUBSET Intervals]

NewReq(op) ==
  [op |-> op, sid |-> NoSession, base |-> 0, enabled |-> FALSE,
   provider |-> DefaultProvider, symbols |-> Once({}), intervals |-> {}]

TypeOK ==
  /\ row \in Rows \cup {NoRow}
  /\ sessions \in [SessionIds -> Sessions \cup {NoSession}]
  /\ opened \subseteq SessionIds
  /\ pc \in [Requests -> PCs]
  /\ req \in [Requests -> Req]
  /\ received \in Nat /\ crashes \in Nat
  /\ committed \in [SessionIds -> Nat]
  /\ edited \subseteq SessionIds

(* A configuration left from an earlier start of the service may be on a   *)
(* provider that is no longer enabled.                                     *)
Init ==
  /\ row \in Earlier \cup {NoRow}
  /\ sessions = [s \in SessionIds |-> NoSession]
  /\ opened = {}
  /\ pc = [q \in Requests |-> "new"]
  /\ req = [q \in Requests |-> NewReq("none")]
  /\ received = 0 /\ crashes = 0
  /\ committed = [s \in SessionIds |-> 0]
  /\ edited = {}

Goto(q, place) == pc' = [pc EXCEPT ![q] = place]
SetReq(q, f) == req' = [req EXCEPT ![q] = f]

(* A request arrives.                                                      *)
Receive(q) ==
  /\ pc[q] \in Idle
  /\ received < MaxRequests
  /\ received' = received + 1

(* It is answered, and what it kept is forgotten.                          *)
Answer(q, outcome) ==
  /\ Goto(q, outcome)
  /\ SetReq(q, NewReq(req[q].op))

-----------------------------------------------------------------------------
(* configuration.Service: validation                                       *)

EffectiveProvider(p) == IF p \in EnabledProviders THEN p ELSE DefaultProvider

(* The configured symbol behind a provider's own name for it; any other    *)
(* name is kept.  (Of two symbols listed under one name the registry keeps *)
(* one at each start; here it is the same one for good.)                   *)
CanonicalSymbol(p, x) ==
  LET listed == {a \in Symbols : <<p, a, x>> \in Listing}
  IN IF listed = {} THEN x ELSE CHOOSE a \in listed : TRUE

(* canonicalSymbols: two stored names may turn into the same symbol.       *)
Renamed(p, S) ==
  [x \in Symbols |-> Cardinality({y \in S : CanonicalSymbol(p, y) = x})]

(* Mutant: an empty choice is let through.                                 *)
ValidOrEmpty(p, list, I) ==
  /\ Distinct(list)
  /\ Cardinality(Members(list)) <= MaxSymbols
  /\ {EffectiveProvider(p)} \X Members(list) \X I \subseteq Supported

(* Nothing empty, nothing twice, not too much, all of it supported.        *)
Valid(p, list, I) ==
  /\ Distinct(list)
  /\ Members(list) # {} /\ Cardinality(Members(list)) <= MaxSymbols
  /\ I # {}
  /\ {EffectiveProvider(p)} \X Members(list) \X I \subseteq Supported

ValidDefault ==
  Valid(DefaultProvider, Once({DefaultSymbol}), {DefaultInterval})

DefaultRow ==
  [version |-> 0, enabled |-> FALSE, provider |-> DefaultProvider,
   symbols |-> {DefaultSymbol}, intervals |-> {DefaultInterval}]

-----------------------------------------------------------------------------
(* GetAlertConfig: three queries outside any transaction                   *)

(* The version is the one /configure will base its session on; enable and  *)
(* pause keep the one they read before.                                    *)
ReadRow(q) ==
  /\ pc[q] = "row"
  /\ SetReq(q, [req[q] EXCEPT
                  !.base = IF req[q].op \in Opening THEN row.version ELSE @,
                  !.enabled = (req[q].op = "enable"),
                  !.provider = row.provider])
  /\ Goto(q, "symbols")
  /\ UNCHANGED <<store, counters, history>>

ReadSymbols(q) ==
  /\ pc[q] = "symbols"
  /\ SetReq(q, [req[q] EXCEPT !.symbols = Once(row.symbols)])
  /\ Goto(q, "intervals")
  /\ UNCHANGED <<store, counters, history>>

(* Mutant: the version is taken from the last query.                       *)
ReadIntervalsNewVersion(q) ==
  /\ pc[q] = "intervals"
  /\ SetReq(q, [req[q] EXCEPT !.intervals = row.intervals,
                              !.base = row.version])
  /\ Goto(q, IF req[q].op \in Opening THEN "open" ELSE "begin")
  /\ UNCHANGED <<store, counters, history>>

ReadIntervals(q) ==
  /\ pc[q] = "intervals"
  /\ SetReq(q, [req[q] EXCEPT !.intervals = row.intervals])
  /\ Goto(q, IF req[q].op \in Opening THEN "open" ELSE "begin")
  /\ UNCHANGED <<store, counters, history>>

-----------------------------------------------------------------------------
(* chat.Service.Handle                                                     *)

(* /configure reads the configuration there is.  (The id of its session is *)
(* drawn here; the bound on sessions is that one is left.)                 *)
Configure(q, s) ==
  /\ Receive(q)
  /\ s \notin opened \cup {req[p].sid : p \in Requests}
  /\ SetReq(q, [NewReq("configure") EXCEPT !.sid = s])
  /\ Goto(q, IF row = NoRow THEN "create" ELSE "row")
  /\ UNCHANGED <<store, crashes, history>>

(* Mutant: losing the race to create the first configuration is an error.  *)
CreateNoRetry(q) ==
  /\ pc[q] = "create"
  /\ row' = IF row = NoRow /\ ValidDefault THEN DefaultRow ELSE row
  /\ IF row # NoRow \/ row' = NoRow
     THEN Answer(q, "refused")
     ELSE SetReq(q, [req[q] EXCEPT !.op = "first"]) /\ Goto(q, "row")
  /\ UNCHANGED <<sessions, opened, counters, history>>

(* GetOrCreateConfig found none and inserts the default.  When the insert  *)
(* fails somebody else may have inserted it, or only its answer was lost,  *)
(* so the row is read again in any case.                                   *)
Create(q) ==
  /\ pc[q] = "create"
  /\ row' = IF row = NoRow /\ ValidDefault THEN DefaultRow ELSE row
  /\ IF row' = NoRow
     THEN Answer(q, "refused")
     ELSE /\ \E op \in IF row = NoRow THEN Opening ELSE {"configure"} :
               SetReq(q, [req[q] EXCEPT !.op = op])
          /\ Goto(q, "row")
  /\ UNCHANGED <<sessions, opened, counters, history>>

(* What GetOrCreateConfig returns: a row that was there is moved to a      *)
(* provider that is enabled and to the names of today's configuration,     *)
(* both in memory only; the row just created is returned as it was read.   *)
Brought(r) ==
  LET p == EffectiveProvider(r.provider)
  IN IF r.op = "first" THEN r
     ELSE [r EXCEPT !.provider = p, !.symbols = Renamed(p, Members(@))]

(* NewConfigSession and MemorySessionStore.Create.                         *)
Open(q) ==
  LET config == Brought(req[q])
  IN /\ pc[q] = "open"
     /\ opened' = opened \cup {config.sid}
     /\ sessions' = [sessions EXCEPT ![config.sid] =
                       [base |-> config.base,
                        provider |-> config.provider,
                        symbols |-> config.symbols,
                        intervals |-> config.intervals]]
     /\ Answer(q, "done")
     /\ UNCHANGED <<row, counters, history>>

(* enable and pause first read the configuration for its version, then     *)
(* SetAlertConfigEnabled reads all of it again.                            *)
SwitchAlerts(q, op) ==
  /\ Receive(q)
  /\ op \in {"enable", "pause"}
  /\ SetReq(q, NewReq(op))
  /\ Goto(q, "version")
  /\ UNCHANGED <<store, crashes, history>>

ReadVersion(q) ==
  /\ pc[q] = "version"
  /\ IF row = NoRow
     THEN Answer(q, "refused")
     ELSE /\ SetReq(q, [req[q] EXCEPT !.base = row.version])
          /\ Goto(q, "row")
  /\ UNCHANGED <<store, counters, history>>

(* A button: the adapter and the service get a copy of the session.  An    *)
(* expired session is deleted by Get; Expire does that as it expires.      *)
GetSession(q, s, op) ==
  /\ Receive(q)
  /\ s \in opened
  /\ op \in {"save", "edit"}
  /\ IF sessions[s] = NoSession
     THEN SetReq(q, NewReq(op)) /\ Goto(q, "refused")
     ELSE /\ SetReq(q, [op |-> op, sid |-> s, base |-> sessions[s].base,
                        enabled |-> FALSE, provider |-> sessions[s].provider,
                        symbols |-> sessions[s].symbols,
                        intervals |-> sessions[s].intervals])
          /\ Goto(q, IF op = "save" THEN "check" ELSE "edit")
  /\ UNCHANGED <<store, crashes, history>>

(* The symbols (intervals) a provider offers for some interval (symbol).   *)
AvailableSymbols(p) ==
  {x \in Symbols : \E i \in Intervals : <<p, x, i>> \in Supported}
AvailableIntervals(p) ==
  {i \in Intervals : \E x \in Symbols : <<p, x, i>> \in Supported}

Toggle(I, i) == IF i \in I THEN I \ {i} ELSE I \cup {i}

(* A symbol that is there twice loses one of the two.                      *)
ToggleSymbol(list, x) ==
  [list EXCEPT ![x] = IF @ > 0 THEN @ - 1 ELSE 1]

FilterSymbols(list, S) ==
  [x \in Symbols |-> IF x \in S THEN list[x] ELSE 0]

(* What one button press may make of the copy c; a keyboard offers what    *)
(* some enabled provider carries.                                          *)
EditsOf(c) ==
  {[c EXCEPT !.provider = p,
             !.symbols = FilterSymbols(c.symbols, AvailableSymbols(p)),
             !.intervals = c.intervals \cap AvailableIntervals(p)]
     : p \in EnabledProviders}
  \cup {[c EXCEPT !.symbols = ToggleSymbol(c.symbols, x)]
          : x \in UNION {AvailableSymbols(p) : p \in EnabledProviders}}
  \cup {[c EXCEPT !.intervals = Toggle(c.intervals, i)]
          : i \in UNION {AvailableIntervals(p) : p \in EnabledProviders}}

(* UpdateSession stores the edited copy, whatever the session holds by now *)
(* (only its base version and expiry are read again).                      *)
UpdateSession(q) ==
  LET s == req[q].sid
  IN /\ pc[q] = "edit"
     /\ IF sessions[s] = NoSession
        THEN Answer(q, "refused") /\ UNCHANGED <<sessions, edited>>
        ELSE /\ \E c \in EditsOf([base |-> req[q].base,
                                  provider |-> req[q].provider,
                                  symbols |-> req[q].symbols,
                                  intervals |-> req[q].intervals]) :
                  sessions' = [sessions EXCEPT ![s] = c]
             /\ edited' = edited \cup {s}
             /\ Answer(q, "done")
     /\ UNCHANGED <<row, opened, counters, committed>>

(* Mutant: the pause state is not carried over.                            *)
CheckSessionForgetting(q) ==
  /\ pc[q] = "check"
  /\ IF /\ row.version = req[q].base
        /\ Valid(req[q].provider, req[q].symbols, req[q].intervals)
     THEN /\ SetReq(q, [req[q] EXCEPT
                          !.provider = EffectiveProvider(req[q].provider)])
          /\ Goto(q, "begin")
     ELSE Answer(q, "refused")
  /\ UNCHANGED <<store, counters, history>>

(* saveSession compares versions and takes the pause state from the row;   *)
(* ReplaceConfig then validates the selections.                            *)
CheckSession(q) ==
  /\ pc[q] = "check"
  /\ IF /\ row.version = req[q].base
        /\ Valid(req[q].provider, req[q].symbols, req[q].intervals)
     THEN /\ SetReq(q, [req[q] EXCEPT
                          !.enabled = row.enabled,
                          !.provider = EffectiveProvider(req[q].provider)])
          /\ Goto(q, "begin")
     ELSE Answer(q, "refused")
  /\ UNCHANGED <<store, counters, history>>

Cancel(q, s) ==
  /\ Receive(q)
  /\ s \in opened
  /\ sessions' = [sessions EXCEPT ![s] = NoSession]
  /\ SetReq(q, NewReq("cancel"))
  /\ Goto(q, IF sessions[s] = NoSession THEN "refused" ELSE "done")
  /\ UNCHANGED <<row, opened, crashes, history>>

(* The fifteen minutes of a session end.                                   *)
Expire(s) ==
  /\ sessions[s] # NoSession
  /\ sessions' = [sessions EXCEPT ![s] = NoSession]
  /\ UNCHANGED <<row, opened, pc, req, counters, history>>

-----------------------------------------------------------------------------
(* ReplaceAlertConfig: one transaction                                     *)

BeginReplace(q) ==
  /\ pc[q] = "begin"
  /\ IF row.version = req[q].base
     THEN Goto(q, "commit") /\ UNCHANGED req
     ELSE Answer(q, "refused")
  /\ UNCHANGED <<store, counters, history>>

(* What the transaction stores, for a request whose answer may be lost.    *)
Store(q) ==
  /\ row' = [version |-> row.version + 1,
             enabled |-> req[q].enabled,
             provider |-> req[q].provider,
             symbols |-> Members(req[q].symbols),
             intervals |-> req[q].intervals]
  /\ IF req[q].op = "save"
     THEN /\ committed' = [committed EXCEPT ![req[q].sid] = @ + 1]
          /\ Answer(q, "failed") \/ (Goto(q, "close") /\ UNCHANGED req)
     ELSE /\ UNCHANGED committed
          /\ Answer(q, "failed") \/ Answer(q, "done")
  /\ UNCHANGED <<sessions, opened, counters, edited>>

(* Mutant: the UPDATE's condition on the version is dropped.               *)
CommitUnconditionally(q) == pc[q] = "commit" /\ Store(q)

(* UPDATE ... WHERE version = expected, then the children, then COMMIT,    *)
(* which others see as one change.                                         *)
CommitReplace(q) ==
  /\ pc[q] = "commit"
  /\ IF row.version = req[q].base
     THEN Store(q)
     ELSE Answer(q, "refused") /\ UNCHANGED <<store, counters, history>>

(* The session may have expired or been cancelled while it was saved; the  *)
(* request then ends with an error although the row has changed.           *)
CloseSession(q) ==
  /\ pc[q] = "close"
  /\ sessions' = [sessions EXCEPT ![req[q].sid] = NoSession]
  /\ Answer(q, IF sessions[req[q].sid] = NoSession THEN "refused" ELSE "done")
  /\ UNCHANGED <<row, opened, counters, history>>

-----------------------------------------------------------------------------
(* A call to the database fails: the request is answered with an error.    *)
StoreFails(q) ==
  /\ pc[q] \in Working \ {"open", "edit", "close"}
  /\ Answer(q, "failed")
  /\ UNCHANGED <<store, counters, history>>

(* Sessions and requests are lost, the row is not.                         *)
Crash ==
  /\ crashes < MaxCrashes
  /\ crashes' = crashes + 1
  /\ sessions' = [s \in SessionIds |-> NoSession]
  /\ pc' = [q \in Requests |-> IF pc[q] \in Working THEN "failed" ELSE pc[q]]
  /\ req' = [q \in Requests |-> NewReq(req[q].op)]
  /\ UNCHANGED <<row, opened, received, history>>

(* Every request of the instance has been answered.                        *)
AllAnswered ==
  /\ received = MaxRequests
  /\ \A q \in Requests : pc[q] \in Idle
  /\ UNCHANGED vars

Next ==
  \/ \E q \in Requests :
       \/ \E s \in SessionIds : Configure(q, s) \/ Cancel(q, s)
       \/ \E op \in Ops : SwitchAlerts(q, op)
       \/ \E s \in SessionIds, op \in Ops : GetSession(q, s, op)
       \/ Create(q) \/ Open(q) \/ ReadVersion(q)
       \/ ReadRow(q) \/ ReadSymbols(q) \/ ReadIntervals(q)
       \/ UpdateSession(q) \/ CheckSession(q)
       \/ BeginReplace(q) \/ CommitReplace(q) \/ CloseSession(q)
       \/ StoreFails(q)
  \/ \E s \in SessionIds : Expire(s)
  \/ Crash
  \/ AllAnswered

Spec == Init /\ [][Next]_vars

-----------------------------------------------------------------------------
(* Properties                                                              *)

(* What is stored behaves as one versioned configuration that starts       *)
(* paused: no update is lost, no mixture of two versions is ever stored    *)
(* although reads are torn, a save never resumes or pauses the alerts and  *)
(* a pause never changes a selection.                                      *)
Versioned == INSTANCE VersionedConfig
ImplementsVersioned == Versioned!Spec

(* A session is saved at most once, however often its button is pressed,   *)
(* and although an answer may be lost and the session outlive its save.    *)
SavedOnce == \A s \in SessionIds : committed[s] <= 1

(* No configured symbol is what its provider calls another one.            *)
NamesAgree == \A t \in Supported : CanonicalSymbol(t[1], t[2]) = t[2]

(* Opening a configuration and saving it unedited keeps its provider, its  *)
(* intervals and every one of its symbols, even when the session was       *)
(* filled while another request was saving.  Only a provider that is gone  *)
(* is replaced, and the symbols go by their configured names afterwards    *)
(* (or, where names do not agree, may keep the stored ones).  When two of  *)
(* them have become one, the save is refused: none is dropped.             *)
UntouchedSaveKeepsConfig ==
  [][\A s \in SessionIds :
       committed'[s] # committed[s] /\ s \notin edited =>
         /\ row'.provider = EffectiveProvider(row.provider)
         /\ row'.intervals = row.intervals
         /\ \/ row'.symbols =
                 {CanonicalSymbol(row'.provider, x) : x \in row.symbols}
            \/ ~NamesAgree /\ row'.symbols = row.symbols
         /\ Cardinality(row'.symbols) = Cardinality(row.symbols)]_vars

(* Of several first /configure commands every one gets a session, unless a *)
(* call to the database fails: losing the race is not an error.            *)
ConfigureSurvivesRace ==
  \A q \in Requests :
    pc[q] = "refused" /\ req[q].op \in Opening => ~ValidDefault

-----------------------------------------------------------------------------
(* The inductive invariant                                                 *)

(* A request is where its command leads it.                                *)
OpOf(q) ==
  /\ pc[q] = "create" => req[q].op = "configure"
  /\ pc[q] = "open" => req[q].op \in Opening
  /\ pc[q] = "version" => req[q].op \in {"enable", "pause"}
  /\ pc[q] \in {"row", "symbols", "intervals"} =>
       req[q].op \in Opening \cup {"enable", "pause"}
  /\ pc[q] = "edit" => req[q].op = "edit"
  /\ pc[q] \in {"check", "close"} => req[q].op = "save"
  /\ pc[q] \in {"begin", "commit"} => req[q].op \in {"save", "enable", "pause"}

OpInv == \A q \in Requests : OpOf(q)

(* A session is opened once, by the request that drew its id; buttons are  *)
(* of opened sessions.                                                     *)
SidOf(q) ==
  /\ pc[q] \in Working /\ req[q].op \in {"save", "edit"} =>
       req[q].sid \in opened
  /\ pc[q] \in Working /\ req[q].op \in Opening =>
       /\ req[q].sid \in SessionIds \ opened
       /\ \A p \in Requests \ {q} : req[p].sid # req[q].sid

SidInv ==
  /\ \A q \in Requests : SidOf(q)
  /\ \A s \in SessionIds :
       sessions[s] # NoSession \/ committed[s] > 0 => s \in opened

(* Nobody relies on a version that does not exist yet.                     *)
BaseInv ==
  /\ \A q \in Requests :
       /\ pc[q] \in Working \ {"create", "version", "close"} => row # NoRow
       /\ req[q].base <= IF row = NoRow THEN 0 ELSE row.version
  /\ \A s \in SessionIds : sessions[s] # NoSession =>
       row # NoRow /\ sessions[s].base <= row.version

(* If the version a request relies on is still the stored one, then what   *)
(* it read in several statements is what is stored.                        *)
IsCurrent(base) == row # NoRow /\ base = row.version

ReadOf(q) ==
  /\ req[q].op # "save" /\ IsCurrent(req[q].base) =>
       /\ pc[q] \in {"symbols", "intervals", "open", "begin", "commit"} =>
            req[q].provider = row.provider
       /\ pc[q] \in {"intervals", "open", "begin", "commit"} =>
            req[q].symbols = Once(row.symbols)
       /\ pc[q] \in {"open", "begin", "commit"} =>
            req[q].intervals = row.intervals
  /\ /\ req[q].op = "save" /\ IsCurrent(req[q].base)
     /\ pc[q] \in {"begin", "commit"}
     => req[q].enabled = row.enabled

ReadInv == \A q \in Requests : ReadOf(q)

(* Nothing empty is stored, and nothing twice.                             *)
FilledOf(q) ==
  /\ pc[q] \in {"intervals", "begin", "commit"} =>
       Members(req[q].symbols) # {} /\ Distinct(req[q].symbols)
  /\ pc[q] \in {"begin", "commit"} => req[q].intervals # {}

FilledInv == \A q \in Requests : FilledOf(q)

(* What nobody edited is what is stored, as long as its version is: on a   *)
(* provider that is enabled, under the stored names or today's.            *)
Untouched(c) ==
  LET p == EffectiveProvider(row.provider)
  IN /\ EffectiveProvider(c.provider) = p
     /\ c.intervals = row.intervals
     /\ c.symbols \in {Once(row.symbols), Renamed(p, row.symbols)}

(* What CheckSession made sure of.                                         *)
Served(c) ==
  /\ c.provider \in EnabledProviders
  /\ {c.provider} \X Members(c.symbols) \X c.intervals \subseteq Supported

CopyInv ==
  /\ \A s \in SessionIds \ edited :
       sessions[s] # NoSession /\ IsCurrent(sessions[s].base) =>
         Untouched(sessions[s])
  /\ \A q \in Requests :
       /\ pc[q] \in {"check", "begin", "commit"} /\ req[q].op = "save"
       /\ req[q].sid \notin edited /\ IsCurrent(req[q].base)
       => /\ Untouched(req[q])
          /\ pc[q] # "check" => Served(req[q])

(* Every copy of a session that was committed is out of date.              *)
SpentInv ==
  \A s \in SessionIds : committed[s] > 0 =>
    /\ sessions[s] # NoSession => sessions[s].base < row.version
    /\ \A q \in Requests :
         /\ pc[q] \in {"check", "edit", "begin", "commit"}
         /\ req[q].op \in {"save", "edit"} /\ req[q].sid = s
         => req[q].base < row.version

IInv ==
  /\ TypeOK
  /\ OpInv /\ SidInv /\ BaseInv
  /\ ReadInv /\ FilledInv /\ CopyInv
  /\ SpentInv /\ SavedOnce
  /\ ConfigureSurvivesRace

=============================================================================
