----------------------------- MODULE Scheduler -----------------------------
(***************************************************************************)
(* Scheduler: one cron entry, whose activations each start a goroutine.    *)
(* The goroutine reads the time and goes through market.intervals: for an  *)
(* interval due at that time it calls Execute, which waits for the         *)
(* executor's mutex.  The cron loop and the goroutines may be scheduled    *)
(* late (a suspended host, a starved process), an earlier round may hold   *)
(* the mutex for minutes, and the process may stop and start again.        *)
(*                                                                         *)
(* What a round does once it has the mutex is TargetExecutor's subject.    *)
(* The location has a fixed offset from UTC, and the clock never goes back.*)
(***************************************************************************)
EXTENDS PeriodEngine, Sequences

CONSTANTS
  Intervals,   (* market.intervals, in the order of the configuration      *)
  Begin,       (* the minute at which the instance begins                  *)
  Horizon,     (* bound: the minute at which it ends                       *)
  MaxLagging,  (* bound: minutes that pass with something behind or down   *)
  MaxStops     (* bound: times the process stops                           *)

ASSUME ConstantsAssumption ==
  /\ Intervals \in Seq(IntervalLengths) /\ Intervals # <<>>
  /\ Begin \in Nat /\ Horizon \in Nat
  /\ MaxLagging \in Nat /\ MaxStops \in Nat

VARIABLES
  clock,    (* the time                                                    *)
  up,       (* the process is running                                      *)
  next,     (* the cron entry's next activation                            *)
  started,  (* the activations whose goroutine has not read the time yet   *)
  ticks,    (* the goroutines that have: the activation, the time read and *)
            (* the position in Intervals each has come to                  *)
  executed, (* history: the <<end, interval>> of the periods executed      *)
  since,    (* history: when the process was last started                  *)
  late,     (* history: the minutes that ended with cron or a tick behind  *)
  lagging,  (* minutes that ended with something behind, waiting or down   *)
  stops     (* times the process has stopped                               *)

process == <<up, next, started, ticks>>
vars == <<clock, process, executed, since, late, lagging, stops>>

Ticks == [activation : Nat, at : Nat, position : DOMAIN Intervals]

TypeOK ==
  /\ clock \in Nat
  /\ up \in BOOLEAN
  /\ next \in Nat
  /\ started \subseteq Nat
  /\ ticks \subseteq Ticks
  /\ \A e \in executed : e[1] \in Nat /\ e[2] \in IntervalLengths
  /\ since \in Nat /\ late \subseteq Nat
  /\ lagging \in 0 .. MaxLagging /\ stops \in 0 .. MaxStops
  /\ since <= clock
  /\ \A a \in started : a <= clock
  /\ \A t \in ticks : t.activation <= t.at /\ t.at <= clock
  /\ ~up => started = {} /\ ticks = {}

Init ==
  /\ clock = Begin
  /\ up = TRUE
  /\ next = NextTick(Begin)
  /\ started = {} /\ ticks = {} /\ executed = {}
  /\ since = Begin
  /\ late = {}
  /\ lagging = 0 /\ stops = 0

(* An activation is due, or a goroutine has yet to read the time.          *)
Behind == up /\ (next <= clock \/ started # {})

(* A minute passes.                                                        *)
Pass ==
  /\ clock < Horizon
  /\ clock' = clock + 1
  /\ late' = IF Behind THEN late \cup {clock} ELSE late
  /\ IF Behind \/ ticks # {} \/ ~up
     THEN lagging < MaxLagging /\ lagging' = lagging + 1
     ELSE UNCHANGED lagging
  /\ UNCHANGED <<process, executed, since, stops>>

(* The cron loop wakes up and starts the activation's goroutine; what was  *)
(* missed between the activation and now is not made up for.               *)
Fire ==
  /\ up /\ next <= clock
  /\ started' = started \cup {next}
  /\ next' = NextTick(clock)
  /\ UNCHANGED <<clock, up, ticks, executed, since, late, lagging, stops>>

(* The goroutine calls tick with time.Now().                               *)
ReadTime(a) ==
  /\ a \in started
  /\ started' = started \ {a}
  /\ ticks' = ticks \cup {[activation |-> a, at |-> clock, position |-> 1]}
  /\ UNCHANGED <<clock, up, next, executed, since, late, lagging, stops>>

(* tick's loop goes on after t's interval, or ends.                        *)
Advance(t) ==
  ticks' = (ticks \ {t}) \cup
             (IF t.position < Len(Intervals)
              THEN {[t EXCEPT !.position = @ + 1]} ELSE {})

(* Mutant: Execute reads the time itself, once it has the mutex.           *)
ExecuteNow(t) ==
  /\ t \in ticks
  /\ LET i == Intervals[t.position]
     IN executed' = executed \cup
                      (IF Due(clock, i) THEN {<<clock, i>>} ELSE {})
  /\ Advance(t)
  /\ UNCHANGED <<clock, up, next, started, since, late, lagging, stops>>

(* An interval that is due at the tick's time gets the mutex and runs its  *)
(* round; another is passed over.                                          *)
Execute(t) ==
  /\ t \in ticks
  /\ LET i == Intervals[t.position]
     IN executed' = executed \cup
                      (IF Due(t.at, i) THEN {<<t.at, i>>} ELSE {})
  /\ Advance(t)
  /\ UNCHANGED <<clock, up, next, started, since, late, lagging, stops>>

(* Mutant: a tick survives the process.                                    *)
StopKeepingTicks ==
  /\ up
  /\ stops < MaxStops
  /\ stops' = stops + 1
  /\ up' = FALSE
  /\ started' = {}
  /\ UNCHANGED <<clock, next, ticks, executed, since, late, lagging>>

(* The process is killed, or main returns: Stop does not wait for ticks.   *)
Stop ==
  /\ up
  /\ stops < MaxStops
  /\ stops' = stops + 1
  /\ up' = FALSE
  /\ started' = {} /\ ticks' = {}
  /\ UNCHANGED <<clock, next, executed, since, late, lagging>>

(* main starts a Scheduler: the entry's first activation is after now.     *)
Start ==
  /\ ~up
  /\ up' = TRUE
  /\ next' = NextTick(clock)
  /\ since' = clock
  /\ UNCHANGED <<clock, started, ticks, executed, late, lagging, stops>>

(* The instance's end, where the behaviour only stutters.                  *)
AtHorizon ==
  /\ clock = Horizon
  /\ UNCHANGED vars

Next ==
  \/ Pass \/ Fire \/ Stop \/ Start \/ AtHorizon
  \/ \E a \in started : ReadTime(a)
  \/ \E t \in ticks : Execute(t)

Spec == Init /\ [][Next]_vars

-----------------------------------------------------------------------------
(* The candle of interval i that ends at minute e is one to announce:      *)
(* the exchange closes it then, and it lies in the active hours of one     *)
(* local day, counted from that day's midnight.                            *)
Announced(e, i) ==
  /\ e % i = 0
  /\ \E day \in -2 .. e \div Day + 1 :
       LET midnight == day * Day - Offset
       IN midnight + ActiveFrom <= e - i /\ e <= midnight + ActiveUntil

Waiting(e, i) ==
  \E t \in ticks :
    t.at = e /\ \E k \in t.position .. Len(Intervals) : Intervals[k] = i

(* The cron entry's local minutes meet the exchange's UTC ones: so with the*)
(* default 1m, not with 2h in a location seven hours ahead.                *)
GridsAgree ==
  /\ TickInterval < Day
  /\ Offset % TickInterval = 0
  /\ \A k \in DOMAIN Intervals : Intervals[k] % TickInterval = 0

(* A scheduler that keeps up misses no candle: when the process has been   *)
(* running since before minute e, and cron and its goroutine ran within e, *)
(* each candle to announce that closed at e has been executed or waits for *)
(* the mutex, however long earlier rounds hold it.                         *)
PromptMissesNothing ==
  GridsAgree /\ up =>
        \A e \in since + 1 .. clock - 1 :
          e \notin late =>
            \A k \in DOMAIN Intervals :
              Announced(e, Intervals[k]) =>
                \/ <<e, Intervals[k]>> \in executed
                \/ Waiting(e, Intervals[k])

(* No period outside the active hours is executed, and none that is not an *)
(* exchange's candle: not by a tick that came late, that waited for the    *)
(* mutex until after the hours, or that follows a restart, and not around  *)
(* the local midnight.                                                     *)
OnlyAnnounced == \A e \in executed : Announced(e[1], e[2])

(* Each candle due at e has been executed or waits for the mutex.          *)
Handled(e) ==
  \A k \in DOMAIN Intervals :
    Due(e, Intervals[k]) =>
      <<e, Intervals[k]>> \in executed \/ Waiting(e, Intervals[k])

(* No activation lies between now and next, and what the entry matched     *)
(* since the start has been handled, unless it came late or is just coming.*)
FollowsCron ==
  up => /\ \A t \in clock + 1 .. next - 1 : ~TicksAt(t)
        /\ \A e \in since + 1 .. clock :
             TicksAt(e) /\ e \notin late =>
               Handled(e) \/ (e = clock /\ Behind)

(* The inductive invariant from which the properties follow.               *)
IInv == TypeOK /\ OnlyAnnounced /\ FollowsCron

=============================================================================
