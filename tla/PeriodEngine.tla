---------------------------- MODULE PeriodEngine ----------------------------
(***************************************************************************)
(* PeriodEngine.GetCurrentPeriod and the cron entry that Scheduler.Start   *)
(* registers: the minutes at which an interval is due, and those at which  *)
(* the scheduler looks.                                                    *)
(*                                                                         *)
(* An instant is a number of minutes since some UTC midnight, an interval  *)
(* is its duration in minutes.  The location has a fixed offset from UTC,  *)
(* as Asia/Ho_Chi_Minh has; changes to daylight saving time are left out.  *)
(***************************************************************************)
EXTENDS Integers

CONSTANTS
  Offset,        (* minutes the location is ahead of UTC                   *)
  ActiveFrom,    (* schedule.active_from as a minute of the day            *)
  ActiveUntil,   (* schedule.active_until as a minute of the day           *)
  TickInterval   (* schedule.tick_interval                                 *)

(* 24 * 60 minutes.                                                       *)
Day == 1440

(* domain.Interval: 1m 3m 5m 15m 30m 1h 2h 4h 6h 8h 12h 1d 3d 1w           *)
IntervalLengths ==
  {1, 3, 5, 15, 30, 60, 120, 240, 360, 480, 720, Day, 3 * Day, 7 * Day}

ASSUME ScheduleAssumption ==
  /\ Offset \in -Day .. Day
  /\ ActiveFrom \in 0 .. Day - 1
  /\ ActiveUntil \in 0 .. Day - 1
  /\ TickInterval \in IntervalLengths

LocalMinute(t) == (t + Offset) % Day

(* Mutant: each end of the period is compared on its own day.              *)
DueOnOwnDay(end, i) ==
  /\ (end % Day) % i = 0
  /\ LocalMinute(end - i) >= ActiveFrom
  /\ LocalMinute(end) <= ActiveUntil

(* GetCurrentPeriod(end, i) returns the period <<end - i, end>>: the end   *)
(* is aligned to the UTC day, and the period lies in the active hours,     *)
(* both ends counted from the local midnight before its start.             *)
Due(end, i) ==
  LET startM == LocalMinute(end - i)
  IN /\ (end % Day) % i = 0
     /\ startM >= ActiveFrom
     /\ startM + i <= ActiveUntil

(* intervalToCronSpec: the cron expression matches minute t, local time.   *)
TicksAt(t) ==
  LET m == LocalMinute(t)
  IN IF TickInterval < Day THEN m % TickInterval = 0 ELSE m = 0

(* cron's Schedule.Next: the first matching minute after t.                *)
NextTick(t) ==
  CHOOSE n \in t + 1 .. t + Day :
    TicksAt(n) /\ \A k \in t + 1 .. n - 1 : ~TicksAt(k)

=============================================================================
