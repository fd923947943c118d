---------------------------- MODULE MCScheduler ----------------------------
(***************************************************************************)
(* An instance in Kathmandu, 5 h 45 min ahead of UTC, around the evening:  *)
(* active hours from 23:15 to 23:45, a tick every 5 minutes, candles of    *)
(* 5 and 30 minutes.  The 30-minute candles close at the local quarters    *)
(* 23:15 and 23:45, never at 23:30; the 5-minute candle that closes at     *)
(* 00:00 lies outside the hours.                                           *)
(***************************************************************************)
EXTENDS Scheduler

MCOffset == 5 * 60 + 45
MCActiveFrom == 23 * 60 + 15
MCActiveUntil == 23 * 60 + 45
MCIntervals == <<5, 30>>

(* From 23:38 to 00:02 local time.                                         *)
MCBegin == Day + 23 * 60 + 38 - MCOffset
MCHorizon == MCBegin + 24

=============================================================================
