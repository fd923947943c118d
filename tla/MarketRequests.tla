--------------------------- MODULE MarketRequests ---------------------------
(***************************************************************************)
(* GetKline of the two market providers: the semaphore that limits the     *)
(* requests of a provider, the requests themselves with their retries, and *)
(* the candle that is taken from the answer.                               *)
(*                                                                         *)
(* The semaphore is a Go channel with room for Concurrency values; a       *)
(* goroutine that finds it full waits in line, and a receive from a full   *)
(* channel hands its room to the first in line.  The deferred receive runs *)
(* before GetKline returns.  A candle is named by its opening time; prices *)
(* are left out.  Every time is a number, every candle Duration long.      *)
(***************************************************************************)
EXTENDS OutboundCalls, SequencesExt

CONSTANTS
  Providers,     (* the providers the registry was built with              *)
  StrictPeriod,  (* those that pick the period's candle: coinmarketcap     *)
  Symbols,
  Mapped,        (* the <<provider, symbol>> with a configured mapping     *)
  Concurrency,   (* concurrency.market_requests                            *)
  Opens,         (* opening times of the exchange's candles                *)
  Duration,      (* of a candle of the requested interval                  *)
  NoCall

ASSUME MarketAssumption ==
  /\ StrictPeriod \subseteq Providers
  /\ Mapped \subseteq Providers \X Symbols
  /\ Concurrency \in Nat \ {0}
  /\ Opens \subseteq Nat
  /\ Duration \in Nat \ {0}
  /\ IsFiniteSet(Callers)

Periods == [start : Nat, end : Nat]

VARIABLES
  inUse,    (* how many values each provider's channel holds               *)
  waiting,  (* the goroutines blocked on it, first come first              *)
  call,     (* the GetKline each caller is in                              *)
  answers   (* history: what each caller's requests were answered          *)

marketVars == <<inUse, waiting, call, answers>>

Inside == {"request", "sleep"}

(* "got" is empty when GetKline returns an error.                          *)
Calls ==
  [provider : Providers, symbol : Symbols, period : Periods,
   at : {"enter", "wait", "returned"} \cup Inside,
   attempt : 1..MaxAttempts, got : SUBSET Opens]

ASSUME NoCallAssumption == NoCall \notin Calls

MarketTypeOK ==
  /\ inUse \in [Providers -> Nat]
  /\ waiting \in [Providers -> Seq(Callers)]
  /\ call \in [Callers -> Calls \cup {NoCall}]
  /\ answers \in [Callers -> Seq({"candle", "refused", "transient"})]

MarketInit ==
  /\ inUse = [p \in Providers |-> 0]
  /\ waiting = [p \in Providers |-> <<>>]
  /\ call = [c \in Callers |-> NoCall]
  /\ answers = [c \in Callers |-> <<>>]

At(c, place) == call[c] # NoCall /\ call[c].at = place

(* A call of this provider holds one of its values.                        *)
Holds(c, p) ==
  /\ call[c] # NoCall
  /\ call[c].provider = p /\ call[c].at \in Inside

IsMapped(c) == <<call[c].provider, call[c].symbol>> \in Mapped

GetKline(c, p, s, period) ==
  /\ call[c] = NoCall
  /\ call' = [call EXCEPT ![c] =
       [provider |-> p, symbol |-> s, period |-> period, at |-> "enter",
        attempt |-> 1, got |-> {}]]
  /\ UNCHANGED <<inUse, waiting, answers>>

(* What GetKline returned is taken by its caller.                          *)
Take(c) ==
  /\ call' = [call EXCEPT ![c] = NoCall]
  /\ answers' = [answers EXCEPT ![c] = <<>>]
  /\ UNCHANGED <<inUse, waiting>>

-----------------------------------------------------------------------------
(* Entering and leaving the semaphore                                      *)

Returned(c, got) ==
  [call EXCEPT ![c] = [@ EXCEPT !.at = "returned", !.got = got]]

(* GetKline returns without having taken a place.                          *)
ReturnError(c) ==
  /\ call' = Returned(c, {})
  /\ UNCHANGED <<inUse, waiting>>

(* The deferred receive and the return: the first in line goes on.         *)
Finish(c, got) ==
  LET p == call[c].provider
      after == Returned(c, got)
  IN IF waiting[p] = <<>>
     THEN /\ call' = after
          /\ inUse' = [inUse EXCEPT ![p] = @ - 1]
          /\ UNCHANGED waiting
     ELSE /\ call' = [after EXCEPT ![Head(waiting[p])].at = "request"]
          /\ waiting' = [waiting EXCEPT ![p] = Tail(@)]
          /\ UNCHANGED inUse

(* CoinMarketCap looks for the mapping before it enters the semaphore.     *)
RefuseSymbol(c) ==
  /\ At(c, "enter")
  /\ call[c].provider \in StrictPeriod /\ ~IsMapped(c)
  /\ ReturnError(c)
  /\ UNCHANGED answers

MayEnter(c) ==
  /\ At(c, "enter")
  /\ call[c].provider \in StrictPeriod => IsMapped(c)

Full(p) == inUse[p] = Concurrency

Enter(c) ==
  LET p == call[c].provider
  IN /\ MayEnter(c)
     /\ ~Full(p)
     /\ inUse' = [inUse EXCEPT ![p] = @ + 1]
     /\ call' = [call EXCEPT ![c].at = "request"]
     /\ UNCHANGED <<waiting, answers>>

QueueUp(c) ==
  LET p == call[c].provider
  IN /\ MayEnter(c)
     /\ Full(p) /\ Live(c)
     /\ waiting' = [waiting EXCEPT ![p] = Append(@, c)]
     /\ call' = [call EXCEPT ![c].at = "wait"]
     /\ UNCHANGED <<inUse, answers>>

(* ctx.Done() is ready as well: the select may take it.                    *)
GiveUpEntering(c) ==
  /\ MayEnter(c)
  /\ ~Live(c)
  /\ ReturnError(c)
  /\ UNCHANGED answers

GiveUpWaiting(c) ==
  LET p == call[c].provider
  IN /\ At(c, "wait")
     /\ ~Live(c)
     /\ \E i \in DOMAIN waiting[p] :
          /\ waiting[p][i] = c
          /\ waiting' = [waiting EXCEPT ![p] = RemoveAt(@, i)]
     /\ call' = Returned(c, {})
     /\ UNCHANGED <<inUse, answers>>

-----------------------------------------------------------------------------
(* The requests                                                            *)

(* Mutant: the early return leaves the value in the channel.               *)
RefuseUnmappedHolding(c) ==
  /\ At(c, "request")
  /\ ~IsMapped(c)
  /\ ReturnError(c)
  /\ UNCHANGED answers

(* Binance looks for the mapping when it holds its place already.          *)
RefuseUnmapped(c) ==
  /\ At(c, "request")
  /\ ~IsMapped(c)
  /\ Finish(c, {})
  /\ UNCHANGED answers

(* The candles that the provider may find in an answer.  Binance's first   *)
(* row is the earliest candle that opens from start to end, whichever      *)
(* exist; CoinMarketCap's rows are searched for the period's own candle.   *)
Answerable(p, period) ==
  {o \in Opens :
     IF p \in StrictPeriod
     THEN o = period.start /\ o + Duration = period.end
     ELSE period.start <= o /\ o <= period.end}

Asking(c) == At(c, "request") /\ IsMapped(c)

Note(c, answer) == answers' = [answers EXCEPT ![c] = Append(@, answer)]

RequestSucceeds(c) ==
  /\ Asking(c) /\ Live(c)
  /\ Note(c, "candle")
  /\ \E o \in Answerable(call[c].provider, call[c].period) : Finish(c, {o})

(* A transport error, an unreadable body, status 429 or 5xx; with a        *)
(* context that is done there is no other outcome.                         *)
RequestFails(c) ==
  /\ Asking(c)
  /\ Note(c, "transient")
  /\ IF LastAttempt(call[c].attempt)
     THEN Finish(c, {})
     ELSE /\ call' = [call EXCEPT ![c].at = "sleep"]
          /\ UNCHANGED <<inUse, waiting>>

(* Mutant: every status that is not a success is tried again.              *)
RequestRefusedRetried(c) ==
  /\ Asking(c) /\ Live(c)
  /\ Note(c, "refused")
  /\ IF LastAttempt(call[c].attempt)
     THEN Finish(c, {})
     ELSE /\ call' = [call EXCEPT ![c].at = "sleep"]
          /\ UNCHANGED <<inUse, waiting>>

(* Another status, a body that cannot be decoded, no (valid) candle.       *)
RequestRefused(c) ==
  /\ Asking(c) /\ Live(c)
  /\ Note(c, "refused")
  /\ Finish(c, {})

(* The timer fires.  The place is held while sleeping.                     *)
Wake(c) ==
  /\ At(c, "sleep")
  /\ call' = [call EXCEPT ![c] =
       [@ EXCEPT !.at = "request", !.attempt = call[c].attempt + 1]]
  /\ UNCHANGED <<inUse, waiting, answers>>

GiveUpSleeping(c) ==
  /\ At(c, "sleep")
  /\ ~Live(c)
  /\ Finish(c, {})
  /\ UNCHANGED answers

MarketStep(c) ==
  \/ RefuseSymbol(c) \/ Enter(c) \/ QueueUp(c)
  \/ GiveUpEntering(c) \/ GiveUpWaiting(c)
  \/ RefuseUnmapped(c)
  \/ RequestSucceeds(c) \/ RequestFails(c) \/ RequestRefused(c)
  \/ Wake(c) \/ GiveUpSleeping(c)

-----------------------------------------------------------------------------
(* Properties                                                              *)

(* The channel holds one value for every call between its entrance and its *)
(* return, on every path out of GetKline, never more than the limit; and   *)
(* who stands in line finds it full and stands there once.                 *)
SlotsAccounted ==
  \A p \in Providers :
    /\ inUse[p] = Cardinality({c \in Callers : Holds(c, p)})
    /\ inUse[p] <= Concurrency
    /\ waiting[p] # <<>> => Full(p)
    /\ \A c \in Callers :
         Cardinality({i \in DOMAIN waiting[p] : waiting[p][i] = c})
           = IF At(c, "wait") /\ call[c].provider = p THEN 1 ELSE 0

(* "Retry timeout, connection reset, HTTP 5xx, and retryable rate-limit    *)
(* responses only": a request follows nothing but a transient failure, and *)
(* there are never more than retry.max_attempts of them.                   *)
RetriesOnlyTransient ==
  \A c \in Callers :
    /\ Len(answers[c]) <= MaxAttempts
    /\ \A i \in DOMAIN answers[c] :
         i < Len(answers[c]) \/ At(c, "sleep") => answers[c][i] = "transient"

=============================================================================
