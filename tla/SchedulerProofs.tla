-------------------------- MODULE SchedulerProofs --------------------------
(***************************************************************************)
(* Proofs about PeriodEngine and Scheduler, for any offset, active hours,  *)
(* tick interval, list of intervals and pattern of delays.                 *)
(***************************************************************************)
EXTENDS Scheduler, TLAPS

(* The intervals that fit in a day divide it.                              *)
LEMMA DayIsWhole ==
  ASSUME NEW t \in Int, NEW i \in IntervalLengths, i <= Day
  PROVE  (t % Day) % i = t % i
<1>1. i \in {1, 3, 5, 15, 30, 60, 120, 240, 360, 480, 720, 1440}
  BY DEF IntervalLengths, Day
<1> QED BY <1>1 DEF Day

(* The first minute after t that an entry of c minutes matches.            *)
LEMMA NextMultiple ==
  ASSUME NEW t \in Int, NEW c \in IntervalLengths, c <= Day
  PROVE  LET n == t + (c - (t % c))
         IN /\ n \in t + 1 .. t + Day
            /\ n % c = 0
            /\ \A k \in t + 1 .. n - 1 : k % c # 0
BY Z3 DEF IntervalLengths, Day

(* cron has a next activation, within a day.                               *)
LEMMA NextTickFirst ==
  ASSUME NEW t \in Nat
  PROVE  /\ NextTick(t) \in t + 1 .. t + Day
         /\ \A k \in t + 1 .. NextTick(t) - 1 : ~TicksAt(k)
<1> DEFINE c == IF TickInterval < Day THEN TickInterval ELSE Day
           n == (t + Offset) + (c - ((t + Offset) % c)) - Offset
<1>1. c \in IntervalLengths /\ c <= Day /\ Offset \in Int /\ c \in Int
  BY ScheduleAssumption DEF IntervalLengths, Day
<1>2. \A k \in Int : TicksAt(k) <=> (k + Offset) % c = 0
  <2> SUFFICES ASSUME NEW k \in Int
               PROVE  TicksAt(k) <=> (k + Offset) % c = 0
    OBVIOUS
  <2>1. ((k + Offset) % Day) % c = (k + Offset) % c
    BY <1>1, DayIsWhole
  <2>2. CASE TickInterval < Day
    BY <2>1, <2>2 DEF TicksAt, LocalMinute
  <2>3. CASE ~(TickInterval < Day)
    BY <2>1, <2>3 DEF TicksAt, LocalMinute, Day
  <2> QED BY <2>2, <2>3
<1>n. n \in Int
  <2>1. \A i \in IntervalLengths, x \in Int : x % i \in Int
    BY DEF IntervalLengths, Day
  <2>2. (t + Offset) % c \in Int
    BY <1>1, <2>1
  <2> QED BY <1>1, <2>2
<1>3. /\ n + Offset \in (t + Offset) + 1 .. (t + Offset) + Day
      /\ (n + Offset) % c = 0
      /\ \A k \in (t + Offset) + 1 .. (n + Offset) - 1 : k % c # 0
  <2>1. t + Offset \in Int
    BY <1>1
  <2>2. (t + Offset) % c \in Int
    BY <1>1, <2>1 DEF IntervalLengths, Day
  <2>3. n + Offset = (t + Offset) + (c - ((t + Offset) % c))
    BY <1>1, <2>2
  <2> HIDE DEF n, c
  <2> QED BY <1>1, <1>n, <2>1, <2>3, NextMultiple
<1>4. n \in t + 1 .. t + Day /\ TicksAt(n)
  <2> HIDE DEF n
  <2> QED BY <1>1, <1>2, <1>3, <1>n DEF Day
<1>5. \A k \in t + 1 .. n - 1 : ~TicksAt(k)
  <2> SUFFICES ASSUME NEW k \in t + 1 .. n - 1 PROVE ~TicksAt(k)
    OBVIOUS
  <2> HIDE DEF n, c
  <2>1. k + Offset \in (t + Offset) + 1 .. (n + Offset) - 1
    BY <1>1, <1>n
  <2> QED BY <1>2, <1>3, <2>1
<1> HIDE DEF n
<1> QED BY <1>4, <1>5 DEF NextTick

(* It lies after t.                                                        *)
LEMMA NextTickLater ==
  ASSUME NEW t \in Nat
  PROVE  NextTick(t) \in Nat /\ NextTick(t) > t
<1>1. PICK n \in t + 1 .. t + Day : n = NextTick(t)
  BY NextTickFirst
<1> QED BY <1>1 DEF Day

(* A minute is a minute of some local day.                                 *)
LEMMA DayAndMinute ==
  ASSUME NEW t \in Int
  PROVE  \E d \in Int, m \in Nat : /\ LocalMinute(t) = m
                                  /\ m < Day
                                  /\ t + Offset = d * Day + m
<1>1. PICK x \in Int : x = t + Offset
  BY ScheduleAssumption DEF Day
<1>2. /\ x \div Day \in Int /\ x % Day \in Nat /\ x % Day < Day
      /\ x = (x \div Day) * Day + (x % Day)
  BY DEF Day
<1>3. LocalMinute(t) = x % Day
  BY <1>1 DEF LocalMinute
<1> QED BY <1>1, <1>2, <1>3

(* What the code calls due is what is to be announced.                     *)
LEMMA DueIsAnnounced ==
  ASSUME NEW e \in Nat, NEW i \in IntervalLengths
  PROVE  Due(e, i) <=> Announced(e, i)
<1> USE DEF Day
<1> DEFINE Lies(day) == /\ (day * Day - Offset) + ActiveFrom <= e - i
                        /\ e <= (day * Day - Offset) + ActiveUntil
<1>1. /\ i \in Nat
      /\ Offset \in Int /\ -Day <= Offset /\ Offset <= Day
      /\ ActiveFrom \in Nat
      /\ ActiveUntil \in Nat /\ ActiveUntil < Day
  BY ScheduleAssumption DEF IntervalLengths
<1>2. PICK d \in Int, m \in Nat :
        /\ LocalMinute(e - i) = m
        /\ m < Day
        /\ (e - i) + Offset = d * Day + m
  BY <1>1, DayAndMinute, e - i \in Int
<1>3. i <= Day => (e % Day) % i = e % i
  BY DayIsWhole
<1>4. SUFFICES
        /\ (e % Day) % i = 0 /\ m >= ActiveFrom /\ m + i <= ActiveUntil
        <=>
        /\ e % i = 0 /\ \E day \in -2 .. (e \div Day) + 1 : Lies(day)
  BY <1>2 DEF Due, Announced
<1>5. m + i <= ActiveUntil => i < Day
  BY <1>1, <1>2
<1>6. ASSUME m >= ActiveFrom, m + i <= ActiveUntil
      PROVE  \E day \in -2 .. (e \div Day) + 1 : Lies(day)
  <2>1. d \in -2 .. (e \div Day) + 1
    BY <1>1, <1>2, <1>5, <1>6
  <2>2. Lies(d)
    BY <1>1, <1>2, <1>6
  <2> QED BY <2>1, <2>2
<1>7. ASSUME NEW day \in -2 .. (e \div Day) + 1, Lies(day)
      PROVE  m >= ActiveFrom /\ m + i <= ActiveUntil
  <2>1. day \in Int
    OBVIOUS
  <2>2. day = d
    BY <1>1, <1>2, <1>7, <2>1
  <2> QED BY <1>1, <1>2, <1>7, <2>1, <2>2
<1> QED BY <1>1, <1>2, <1>3, <1>5, <1>6, <1>7

(* Where the grids agree, the entry matches every minute at which a candle *)
(* to announce closes.                                                     *)
LEMMA MultipleOfMultiple ==
  ASSUME NEW e \in Int, NEW i \in IntervalLengths, NEW c \in IntervalLengths,
         e % i = 0, i % c = 0
  PROVE  e % c = 0
BY DEF IntervalLengths, Day

(* The sum of two multiples of a tick interval is a multiple of it.        *)
LEMMA SumOfMultiples ==
  ASSUME NEW e \in Int, NEW o \in Int, NEW c \in IntervalLengths,
         e % c = 0, o % c = 0
  PROVE  (e + o) % c = 0
BY DEF IntervalLengths, Day

LEMMA AnnouncedTicks ==
  ASSUME GridsAgree, NEW e \in Nat, NEW k \in DOMAIN Intervals,
         Announced(e, Intervals[k])
  PROVE  TicksAt(e)
<1>1. /\ Intervals[k] \in IntervalLengths /\ TickInterval \in IntervalLengths
      /\ Offset \in Int /\ e + Offset \in Int
  BY ConstantsAssumption, ScheduleAssumption DEF Day
<1>2. TickInterval < Day /\ TickInterval <= Day
  BY <1>1 DEF GridsAgree, IntervalLengths, Day
<1>3. e % TickInterval = 0
  BY <1>1, MultipleOfMultiple DEF GridsAgree, Announced
<1>4. (e + Offset) % TickInterval = 0
  BY <1>1, <1>3, SumOfMultiples DEF GridsAgree
<1>5. ((e + Offset) % Day) % TickInterval = 0
  BY <1>1, <1>2, <1>4, DayIsWhole
<1> QED BY <1>2, <1>5 DEF TicksAt, LocalMinute

(* Every step keeps the types.                                             *)
LEMMA TypeStep ==
  ASSUME TypeOK, [Next]_vars
  PROVE  TypeOK'
<1> USE ConstantsAssumption DEF TypeOK, process
<1>1. \A t \in Nat : NextTick(t) \in Nat
  BY NextTickLater
<1>2. CASE Pass
  <2>1. clock' = clock + 1 /\ late' \subseteq Nat
    BY <1>2 DEF Pass
  <2>2. lagging' \in 0 .. MaxLagging
    BY <1>2 DEF Pass
  <2>3. /\ \A a \in started : a <= clock'
        /\ \A t \in ticks : t.activation <= t.at /\ t.at <= clock'
    BY <2>1 DEF Ticks
  <2>4. since <= clock'
    BY <2>1
  <2> QED BY <1>2, <2>1, <2>2, <2>3, <2>4 DEF Pass
<1>3. CASE Fire
  BY <1>1, <1>3 DEF Fire
<1>4. CASE Stop
  <2>1. stops' \in 0 .. MaxStops
    BY <1>4 DEF Stop
  <2> QED BY <1>4, <2>1 DEF Stop
<1>5. CASE Start
  BY <1>1, <1>5 DEF Start
<1>6. ASSUME NEW a \in started, ReadTime(a) PROVE TypeOK'
  BY <1>6 DEF ReadTime, Ticks
<1>7. ASSUME NEW t \in ticks, Execute(t) PROVE TypeOK'
  <2> DEFINE i == Intervals[t.position]
  <2>1. /\ t \in Ticks /\ t.at \in Nat /\ t.position \in DOMAIN Intervals
        /\ i \in IntervalLengths
    BY DEF Ticks
  <2>2. ticks' \subseteq Ticks
    BY <1>7, <2>1 DEF Execute, Advance, Ticks
  <2>3. \A x \in ticks' : x.activation <= x.at /\ x.at <= clock
    BY <1>7, <2>1 DEF Execute, Advance, Ticks
  <2>4. \A x \in executed' : x[1] \in Nat /\ x[2] \in IntervalLengths
    BY <1>7, <2>1 DEF Execute
  <2> QED BY <1>7, <2>2, <2>3, <2>4 DEF Execute, Advance
<1>8. CASE UNCHANGED vars
  BY <1>8 DEF vars
<1> QED BY <1>2, <1>3, <1>4, <1>5, <1>6, <1>7, <1>8 DEF Next, AtHorizon

(* main starts the scheduler with nothing due before its first activation. *)
LEMMA InitInv == Init => IInv
<1> SUFFICES ASSUME Init PROVE IInv
  OBVIOUS
<1>1. NextTick(Begin) \in Nat /\ NextTick(Begin) > Begin
      /\ \A t \in Begin + 1 .. NextTick(Begin) - 1 : ~TicksAt(t)
  BY ConstantsAssumption, NextTickLater, NextTickFirst
<1>2. TypeOK
  BY <1>1, ConstantsAssumption DEF Init, TypeOK
<1>3. OnlyAnnounced
  BY DEF Init, OnlyAnnounced
<1>4. FollowsCron
  BY <1>1, ConstantsAssumption DEF Init, FollowsCron
<1> QED BY <1>2, <1>3, <1>4 DEF IInv

(* A step executes only what is due at the time its tick had read.         *)
LEMMA AnnouncedStep ==
  ASSUME TypeOK, OnlyAnnounced, [Next]_vars
  PROVE  OnlyAnnounced'
<1>1. ASSUME NEW t \in ticks, Execute(t) PROVE OnlyAnnounced'
  <2> DEFINE i == Intervals[t.position]
  <2>1. t.at \in Nat /\ i \in IntervalLengths
    BY ConstantsAssumption DEF TypeOK, Ticks
  <2>2. Due(t.at, i) => Announced(t.at, i)
    BY <2>1, DueIsAnnounced
  <2>3. executed' = executed \cup
                      (IF Due(t.at, i) THEN {<<t.at, i>>} ELSE {})
    BY <1>1 DEF Execute
  <2> HIDE DEF i
  <2> QED BY <2>2, <2>3 DEF OnlyAnnounced
<1>2. executed' = executed => OnlyAnnounced'
  BY DEF OnlyAnnounced
<1> QED BY <1>1, <1>2
        DEF Next, Pass, Fire, Stop, Start, AtHorizon, ReadTime, vars

(* What has been handled stays handled while the process runs.             *)
LEMMA HandledStays ==
  ASSUME TypeOK, [Next]_vars, up, up', NEW e \in Nat, Handled(e)
  PROVE  Handled(e)'
<1>1. ASSUME NEW t \in ticks, Execute(t) PROVE Handled(e)'
  <2> SUFFICES ASSUME NEW k \in DOMAIN Intervals, Due(e, Intervals[k]),
                      <<e, Intervals[k]>> \notin executed'
               PROVE  Waiting(e, Intervals[k])'
    BY DEF Handled
  <2>1. <<e, Intervals[k]>> \notin executed /\ t \in Ticks
    BY <1>1 DEF Execute, TypeOK
  <2>2. PICK x \in ticks : /\ x.at = e
                          /\ \E p \in x.position .. Len(Intervals) :
                               Intervals[p] = Intervals[k]
    BY <2>1 DEF Handled, Waiting
  <2>3. CASE x # t
    BY <1>1, <2>2, <2>3 DEF Execute, Advance, Waiting
  <2>4. CASE x = t
    <3>1. PICK p \in t.position .. Len(Intervals) :
            Intervals[p] = Intervals[k]
      BY <2>2, <2>4
    <3>2. Intervals[t.position] # Intervals[k]
      BY <1>1, <2>2, <2>4 DEF Execute
    <3>3. /\ t.position \in Nat /\ t.position < Len(Intervals)
          /\ p \in t.position + 1 .. Len(Intervals)
      BY <2>1, <3>1, <3>2, ConstantsAssumption DEF Ticks
    <3>4. PICK y \in ticks' : y = [t EXCEPT !.position = @ + 1]
      BY <1>1, <3>3 DEF Execute, Advance
    <3>5. y.at = e /\ y.position = t.position + 1
      BY <2>1, <2>2, <2>4, <3>4 DEF Ticks
    <3> QED BY <3>1, <3>3, <3>5 DEF Waiting
  <2> QED BY <2>3, <2>4
<1>2. ticks \subseteq ticks' /\ executed' = executed => Handled(e)'
  BY DEF Handled, Waiting
<1> QED BY <1>1, <1>2
        DEF Next, Pass, Fire, Stop, Start, AtHorizon, ReadTime, vars, process

(* A minute ends with its candles handled, or it is one of the late ones.  *)
LEMMA CronStep ==
  ASSUME TypeOK, FollowsCron, [Next]_vars
  PROVE  FollowsCron'
<1> SUFFICES ASSUME up' PROVE FollowsCron'
  BY DEF FollowsCron
<1> USE DEF TypeOK
<1>1. CASE Start
  <2>1. /\ clock' = clock /\ since' = clock /\ clock \in Nat
        /\ next' = NextTick(clock)
    BY <1>1 DEF Start
  <2>2. \A t \in clock + 1 .. NextTick(clock) - 1 : ~TicksAt(t)
    BY <2>1, NextTickFirst
  <2>3. \A e \in since' + 1 .. clock' : FALSE
    BY <2>1
  <2> QED BY <2>1, <2>2, <2>3 DEF FollowsCron
<1>2. ASSUME up
      PROVE  FollowsCron'
  <2>1. /\ \A t \in clock + 1 .. next - 1 : ~TicksAt(t)
        /\ \A e \in since + 1 .. clock :
             TicksAt(e) /\ e \notin late =>
               Handled(e) \/ (e = clock /\ Behind)
    BY <1>2 DEF FollowsCron
  <2>2. \A e \in since + 1 .. clock : Handled(e) => Handled(e)'
    BY <1>2, HandledStays
  <2>3. CASE Pass
    <3>1. /\ clock' = clock + 1 /\ next' = next /\ since' = since
          /\ up' = up /\ started' = started
          /\ clock \in Nat /\ next \in Nat /\ since \in Nat
      BY <2>3 DEF Pass, process
    <3>2. \A t \in clock' + 1 .. next' - 1 : ~TicksAt(t)
      BY <2>1, <3>1
    <3>3. ASSUME NEW e \in since' + 1 .. clock', TicksAt(e), e \notin late'
          PROVE  Handled(e)' \/ (e = clock' /\ Behind')
      <4>1. CASE e = clock'
        <5>1. ~(e \in clock + 1 .. next - 1)
          BY <2>1, <3>3
        <5>2. next' <= clock'
          BY <3>1, <4>1, <5>1
        <5> QED BY <4>1, <5>2 DEF Behind
      <4>2. CASE e # clock'
        <5>1. e \in since + 1 .. clock /\ e \notin late
          BY <2>3, <3>1, <3>3, <4>2 DEF Pass
        <5>2. ~(e = clock /\ Behind)
          BY <2>3, <3>3 DEF Pass
        <5> QED BY <2>1, <2>2, <3>3, <5>1, <5>2
      <4> QED BY <4>1, <4>2
    <3> QED BY <3>2, <3>3 DEF FollowsCron
  <2>4. CASE Fire
    <3>1. /\ clock' = clock /\ since' = since /\ late' = late /\ clock \in Nat
          /\ next' = NextTick(clock) /\ started' # {} /\ up'
      BY <2>4 DEF Fire
    <3>2. \A t \in clock' + 1 .. next' - 1 : ~TicksAt(t)
      BY <3>1, NextTickFirst
    <3>3. Behind'
      BY <3>1 DEF Behind
    <3> QED BY <2>1, <2>2, <3>1, <3>2, <3>3 DEF FollowsCron
  <2>5. ASSUME NEW a \in started, ReadTime(a) PROVE FollowsCron'
    <3>1. /\ clock' = clock /\ since' = since /\ late' = late
          /\ next' = next
      BY <2>5 DEF ReadTime
    <3>2. Handled(clock)'
      <4> DEFINE t == [activation |-> a, at |-> clock, position |-> 1]
      <4>1. t \in ticks' /\ t.at = clock /\ t.position = 1
        BY <2>5 DEF ReadTime
      <4> HIDE DEF t
      <4>2. \A k \in DOMAIN Intervals : k \in t.position .. Len(Intervals)
        BY <4>1, ConstantsAssumption
      <4>3. \A k \in DOMAIN Intervals : Waiting(clock, Intervals[k])'
        BY <3>1, <4>1, <4>2 DEF Waiting
      <4> QED BY <3>1, <4>3 DEF Handled
    <3>3. ASSUME NEW e \in since + 1 .. clock, TicksAt(e), e \notin late
          PROVE  Handled(e)'
      <4>1. CASE e = clock
        BY <3>1, <3>2, <4>1 DEF Handled, Waiting
      <4>2. CASE e # clock
        BY <2>1, <2>2, <3>3, <4>2
      <4> QED BY <4>1, <4>2
    <3> QED BY <2>1, <3>1, <3>3 DEF FollowsCron
  <2>6. ASSUME NEW t \in ticks, Execute(t) PROVE FollowsCron'
    <3>1. /\ clock' = clock /\ since' = since /\ late' = late
          /\ next' = next /\ started' = started /\ up' = up
      BY <2>6 DEF Execute
    <3>2. Behind' = Behind
      BY <3>1 DEF Behind
    <3> QED BY <2>1, <2>2, <3>1, <3>2 DEF FollowsCron
  <2>7. CASE UNCHANGED vars
    <3>1. Behind' = Behind
      BY <2>7 DEF vars, process, Behind
    <3> QED BY <2>1, <2>2, <2>7, <3>1 DEF FollowsCron, vars, process
  <2> QED BY <1>2, <2>3, <2>4, <2>5, <2>6, <2>7
          DEF Next, Stop, Start, AtHorizon
<1>3. CASE ~up
  BY <1>1, <1>3
     DEF Next, Pass, Fire, Stop, AtHorizon, ReadTime, Execute, vars, process
<1> QED BY <1>2, <1>3

(* The invariant is inductive.                                             *)
THEOREM Invariance == Spec => []IInv
<1>1. IInv /\ [Next]_vars => IInv'
  BY TypeStep, AnnouncedStep, CronStep DEF IInv
<1> QED BY <1>1, InitInv, PTL DEF Spec

(* The scheduler's state keeps its types: no goroutine outlives the        *)
(* process, and none has a time of the future.                             *)
THEOREM TypeCorrect == Spec => []TypeOK
<1>1. IInv => TypeOK
  BY DEF IInv
<1> QED BY <1>1, Invariance, PTL

(* Every period executed is a candle inside the active hours of one local  *)
(* day, whatever the offset from UTC, the hours, the delays and restarts.  *)
THEOREM HoursCorrect == Spec => []OnlyAnnounced
<1>1. IInv => OnlyAnnounced
  BY DEF IInv
<1> QED BY <1>1, Invariance, PTL

(* Where the cron entry's minutes meet those of the candles, a scheduler   *)
(* that keeps up misses none.                                              *)
THEOREM PromptCorrect == Spec => []PromptMissesNothing
<1>1. ASSUME IInv PROVE PromptMissesNothing
  <2> SUFFICES ASSUME GridsAgree, up, NEW e \in since + 1 .. clock - 1,
                      e \notin late, NEW k \in DOMAIN Intervals,
                      Announced(e, Intervals[k])
               PROVE  \/ <<e, Intervals[k]>> \in executed
                      \/ Waiting(e, Intervals[k])
    BY DEF PromptMissesNothing
  <2>1. /\ e \in Nat /\ e \in since + 1 .. clock /\ e # clock
        /\ Intervals[k] \in IntervalLengths
    BY <1>1, ConstantsAssumption DEF IInv, TypeOK
  <2>2. TicksAt(e)
    BY <2>1, AnnouncedTicks
  <2>3. Handled(e)
    BY <1>1, <2>1, <2>2 DEF IInv, FollowsCron
  <2>4. Due(e, Intervals[k])
    BY <2>1, DueIsAnnounced
  <2> QED BY <2>3, <2>4 DEF Handled
<1> QED BY <1>1, Invariance, PTL

=============================================================================
