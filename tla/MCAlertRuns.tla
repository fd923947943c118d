----------------------------- MODULE MCAlertRuns -----------------------------
(* Small instances of AlertRuns for TLC.                                   *)
EXTENDS AlertRuns, TLC

CONSTANTS request, round, binance, coinmarketcap, s1, s2, s3, telegram, bot

(* Candles of length 4.  A client asks for a period that is two candles    *)
(* long, or for one as long as a candle that starts between two.           *)
MCOpens == {0, 4}
MCRoundPeriod == [start |-> 0, end |-> 4]
MCAskedPeriods == {[start |-> 0, end |-> 8], [start |-> 2, end |-> 6]}

MCMapped == {<<binance, s1>>, <<binance, s2>>, <<coinmarketcap, s3>>}

=============================================================================
