----------------------------- MODULE AlertRuns -----------------------------
(***************************************************************************)
(* Runs of an alert: the handler of POST /api/v1/alerts/run with           *)
(* AlertService, and next to it the rounds of the scheduler (whose job     *)
(* rows are TargetExecutor's subject), which compete for the same market   *)
(* providers.  A run fetches its symbols one after the other, builds one   *)
(* message and hands it to one channel after the other.                    *)
(***************************************************************************)
EXTENDS MarketRequests, Deliveries

CONSTANTS
  AskedPeriods,    (* periods a client may ask for                         *)
  RoundPeriod,     (* the period whose round is run                        *)
  DefaultSymbols,  (* market.symbols                                       *)
  Tolerance,       (* how late a candle may close: a second                *)
  ApiChannels,     (* the notifiers of the API's service                   *)
  RoundChannels,   (* those a round's message goes to                      *)
  NoRun

ASSUME AlertRunsAssumption ==
  /\ AskedPeriods \subseteq Periods /\ RoundPeriod \in Periods
  /\ DefaultSymbols \subseteq Symbols /\ DefaultSymbols # {}
  /\ ApiChannels \cup RoundChannels \subseteq Channels
  /\ \A p \in AskedPeriods \cup {RoundPeriod} : p.start < p.end
  /\ Tolerance \in Nat /\ Tolerance + 1 < Duration
  /\ \A a, b \in Opens : a < b => a + Duration <= b

VARIABLE run   (* the run of each caller                                   *)

vars == <<cancelled, marketVars, deliveryVars, run>>

(* "candles" and "missing" are the message: for each symbol the candle it  *)
(* reports or that it is unavailable.                                      *)
Runs ==
  [at : {"fetch", "notify"},
   provider : Providers, period : Periods, dry : BOOLEAN,
   todo : SUBSET Symbols, candles : SUBSET (Symbols \X Opens),
   missing : SUBSET Symbols,
   toSend : SUBSET Channels, sent : SUBSET Channels,
   abandoned : BOOLEAN]  (* history: a symbol is missing from it because   *)
                         (* the client had gone when GetKline returned     *)

ASSUME NoRunAssumption == NoRun \notin Runs

TypeOK ==
  /\ cancelled \subseteq Callers \ Detached
  /\ MarketTypeOK /\ DeliveriesTypeOK
  /\ run \in [Callers -> Runs \cup {NoRun}]

Init ==
  /\ cancelled = {}
  /\ MarketInit /\ DeliveriesInit
  /\ run = [c \in Callers |-> NoRun]

SetRun(c, r) == run' = [run EXCEPT ![c] = r]

-----------------------------------------------------------------------------
(* Starting a run                                                          *)

RunAt(c, place) == run[c] # NoRun /\ run[c].at = place

Begin(c, p, period, symbols, dry) ==
  /\ run[c] = NoRun
  /\ SetRun(c, [at |-> "fetch", provider |-> p, period |-> period,
                dry |-> dry, todo |-> symbols, candles |-> {},
                missing |-> {}, toSend |-> {}, sent |-> {},
                abandoned |-> FALSE])
  /\ UNCHANGED <<cancelled, marketVars, deliveryVars>>

(* The answer is written, or the round returns.                            *)
End(c) ==
  /\ SetRun(c, NoRun)
  /\ Forget(c) /\ ForgetMessage(c)
  /\ UNCHANGED marketVars

(* RunAlert: any period of the client's, on the grid of the exchange's     *)
(* candles or off it, or one that has just ended; dry_run unless told      *)
(* otherwise; the provider must support every symbol.  Other requests are  *)
(* answered at once (400, or 202 if no period ended then).                 *)
RunAlert(c) ==
  /\ c \notin Detached
  /\ \E p \in Providers, period \in AskedPeriods, dry \in BOOLEAN,
        symbols \in (SUBSET Symbols) \ {{}} :
       /\ \A s \in symbols : <<p, s>> \in Mapped
       /\ Begin(c, p, period, symbols, dry)

(* A round fetches from the provider of its targets; the legacy executor's *)
(* asks the default one, whichever it is, for symbols it may not support.  *)
Round(c) ==
  /\ c \in Detached
  /\ \E p \in Providers : Begin(c, p, RoundPeriod, DefaultSymbols, FALSE)

-----------------------------------------------------------------------------
(* The loop over the symbols                                               *)

FetchSymbol(c) ==
  /\ RunAt(c, "fetch")
  /\ \E s \in run[c].todo : GetKline(c, run[c].provider, s, run[c].period)
  /\ UNCHANGED <<cancelled, deliveryVars, run>>

(* When the candle that opens at o closes: at Binance one millisecond, a   *)
(* unit of time here, before the next one opens.                           *)
ClosesAt(p, o) ==
  IF p \in StrictPeriod THEN o + Duration ELSE o + Duration - 1

(* Mutant: the closing time is not looked at.                              *)
FitsOpening(p, period, o) == period.start <= o

(* CalculateChange: the candle may not open before the period, and not     *)
(* close more than the tolerance after it.                                 *)
Fits(p, period, o) ==
  period.start <= o /\ ClosesAt(p, o) <= period.end + Tolerance

RecordResult(c) ==
  LET r == run[c]
      s == call[c].symbol
      fit == {o \in call[c].got : Fits(r.provider, r.period, o)}
  IN /\ At(c, "returned")
     /\ SetRun(c, [r EXCEPT
          !.todo = r.todo \ {s},
          !.candles = r.candles \cup ({s} \X fit),
          !.missing = IF fit = {} THEN r.missing \cup {s} ELSE r.missing,
          !.abandoned = r.abandoned \/ (fit = {} /\ ~Live(c))])
     /\ Take(c)
     /\ UNCHANGED <<cancelled, deliveryVars>>

ChannelsFor(c) ==
  CASE c \in Detached -> RoundChannels
    [] run[c].dry     -> {}
    [] OTHER          -> ApiChannels

(* BuildMessage; a run that is not dry goes on with the channels.          *)
BuildMessage(c) ==
  /\ RunAt(c, "fetch") /\ run[c].todo = {} /\ call[c] = NoCall
  /\ SetRun(c, [run[c] EXCEPT
       !.at = "notify", !.toSend = ChannelsFor(c)])
  /\ UNCHANGED <<cancelled, marketVars, deliveryVars>>

-----------------------------------------------------------------------------
(* The loop over the channels                                              *)

Notify(c) ==
  /\ RunAt(c, "notify")
  /\ \E n \in run[c].toSend : Send(c, n)
  /\ UNCHANGED <<cancelled, marketVars, run>>

(* "sent" or "failed: ..." in the answer to the client.                    *)
RecordVerdict(c) ==
  LET n == send[c].channel
  IN /\ SendAt(c, "returned")
     /\ SetRun(c, [run[c] EXCEPT
          !.toSend = run[c].toSend \ {n},
          !.sent = run[c].sent \cup IF send[c].ok THEN {n} ELSE {}])
     /\ send' = [send EXCEPT ![c] = NoSend]
     /\ UNCHANGED <<cancelled, marketVars, copies, silent>>

Reported(c) == RunAt(c, "notify") /\ run[c].toSend = {} /\ send[c] = NoSend

Answer(c) == Reported(c) /\ End(c)

ClientLeaves(c) ==
  /\ run[c] # NoRun
  /\ Disconnect(c)
  /\ UNCHANGED <<marketVars, deliveryVars, run>>

(* What the goroutine does by itself once it was started.                  *)
Proceed(c) ==
  \/ MarketStep(c) /\ UNCHANGED <<cancelled, deliveryVars, run>>
  \/ DeliveryStep(c) /\ UNCHANGED <<cancelled, marketVars, run>>
  \/ FetchSymbol(c) \/ RecordResult(c) \/ BuildMessage(c)
  \/ Notify(c) \/ RecordVerdict(c) \/ Answer(c)

Next ==
  \E c \in Callers :
    \/ RunAlert(c) \/ Round(c)
    \/ Proceed(c)
    \/ ClientLeaves(c)

(* Goroutines are scheduled, timers fire, and the HTTP clients' timeout of *)
(* ten seconds ends every request.                                         *)
Fairness == \A c \in Callers : WF_vars(Proceed(c))

Spec == Init /\ [][Next]_vars /\ Fairness

-----------------------------------------------------------------------------
(* Properties                                                              *)

(* Whatever the provider found first, a message for a period of one        *)
(* interval reports the period's own candle for every symbol, when the     *)
(* exchange has such a candle, as for every round's period.  A client's    *)
(* period may lie off the grid; the tolerance then lets at most one candle *)
(* pass for it, and whoever asks for the same period, of whatever provider *)
(* and after whatever retries, is told of that one.  No message reports a  *)
(* candle that opens before its period, or ends later than the tolerance   *)
(* allows.                                                                 *)
CandleOfPeriod ==
  \A c \in Callers : run[c] # NoRun =>
    \A x \in run[c].candles :
      LET period == run[c].period
      IN /\ period.start <= x[2]
         /\ x[2] + Duration <= period.end + Tolerance + 1
         /\ period.end = period.start + Duration =>
              /\ period.start \in Opens => x[2] = period.start
              /\ \A d \in Callers : run[d] # NoRun /\ run[d].period = period =>
                   \A y \in run[d].candles : y[2] = x[2]

(* What a run reports of its channels is what happened: each of them that  *)
(* is reported as sent took the message, and a dry run has reached none.   *)
ReportIsTrue ==
  \A c \in Callers : Reported(c) =>
    /\ \A n \in run[c].sent : copies[c][n] > 0
    /\ run[c].dry => \A n \in Channels : copies[c][n] = 0

(* A message that reached a chat never calls a symbol unavailable only     *)
(* because the client that asked for it had gone: from then on nothing of  *)
(* its run gets out.                                                       *)
NothingCutShort ==
  \A c \in Callers : \A n \in Channels :
    run[c] # NoRun /\ run[c].abandoned => copies[c][n] = 0

(* Whoever waits for a place, sleeps or has lost its client: every run     *)
(* comes to its end.                                                       *)
EveryRunEnds == \A c \in Callers : run[c] # NoRun ~> run[c] = NoRun

-----------------------------------------------------------------------------
(* The inductive invariant                                                 *)

(* The line of a semaphore holds those who wait for it, each once.         *)
WaitsFor(c, p) == At(c, "wait") /\ call[c].provider = p
Waiters(p) == {c \in Callers : WaitsFor(c, p)}

Lines(s, W) ==
  /\ \A i \in DOMAIN s : s[i] \in W
  /\ \A i, j \in DOMAIN s : s[i] = s[j] => i = j
  /\ \A c \in W : \E i \in DOMAIN s : s[i] = c

QueueInv == \A p \in Providers : Lines(waiting[p], Waiters(p))

(* A call holds its place from the first request to its return.            *)
Holders(p) == {c \in Callers : Holds(c, p)}

PlaceOf(p) ==
  /\ inUse[p] = Cardinality(Holders(p))
  /\ inUse[p] <= Concurrency
  /\ waiting[p] # <<>> => Full(p)

PlaceInv == \A p \in Providers : PlaceOf(p)

(* Every attempt but the one in progress has had a transient failure.      *)
Transient(a) == \A i \in DOMAIN a : a[i] = "transient"

AnswersOf(k, a) ==
  /\ k = NoCall \/ k.at \in {"enter", "wait"} => a = <<>>
  /\ k # NoCall =>
       /\ k.at \in {"enter", "wait"} => k.attempt = 1
       /\ k.at = "request" => Transient(a) /\ Len(a) = k.attempt - 1
       /\ k.at = "sleep" =>
            Transient(a) /\ Len(a) = k.attempt /\ k.attempt < MaxAttempts
       /\ k.at = "returned" =>
            /\ Len(a) <= MaxAttempts
            /\ \A i \in DOMAIN a : i < Len(a) => a[i] = "transient"

AnswersInv == \A c \in Callers : AnswersOf(call[c], answers[c])

(* Of a message that a channel was not yet asked to take there is no copy; *)
(* while it is asked, every copy was taken silently.  Run r, send m of     *)
(* somebody, k copies of which l were taken silently.                      *)
CopiesOf(n, r, m, k, l) ==
  LET asked == m # NoSend /\ m.channel = n
      notifying == r # NoRun /\ r.at = "notify"
  IN /\ ~notifying \/ (n \in r.toSend /\ ~asked) => k = 0 /\ l = 0
     /\ asked =>
          /\ notifying /\ n \in r.toSend
          /\ ~(m.at = "returned" /\ m.ok) => k = l
          /\ m.at = "post" => k < m.attempt
          /\ m.at = "sleep" => k <= m.attempt /\ m.attempt < MaxAttempts
          /\ m.at = "returned" /\ m.ok => k > 0
     /\ k <= l + 1 /\ k <= MaxAttempts

CopiesInv ==
  \A c \in Callers : \A n \in Channels :
    CopiesOf(n, run[c], send[c], copies[c][n], silent[c][n])

(* A run fetches, then sends; what it has become by then.                  *)
RunOf(c) ==
  /\ call[c] # NoCall => RunAt(c, "fetch")
  /\ send[c] # NoSend => RunAt(c, "notify")
  /\ run[c] # NoRun =>
       /\ \A n \in run[c].sent : n \notin run[c].toSend /\ copies[c][n] > 0
       /\ run[c].at = "fetch" => run[c].sent = {}
       /\ run[c].dry => c \notin Detached /\ run[c].toSend = {}
       /\ run[c].dry \/ run[c].abandoned =>
            \A n \in Channels : copies[c][n] = 0
       /\ run[c].abandoned => ~Live(c)

RunInv == \A c \in Callers : RunOf(c)

(* What CalculateChange has let pass.                                      *)
CandlesInv ==
  \A c \in Callers : run[c] # NoRun =>
    \A x \in run[c].candles :
      /\ run[c].period.start <= x[2]
      /\ x[2] + Duration <= run[c].period.end + Tolerance + 1

IInv ==
  /\ TypeOK
  /\ QueueInv /\ PlaceInv /\ AnswersInv
  /\ CopiesInv /\ RunInv
  /\ CandlesInv

=============================================================================
