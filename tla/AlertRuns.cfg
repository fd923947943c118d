\* Requests and a round share one place at each of two providers.
SPECIFICATION Spec
CONSTANTS
  request = request  round = round
  binance = binance  coinmarketcap = coinmarketcap
  s1 = s1  s2 = s2  s3 = s3
  telegram = telegram  bot = bot
  Callers = {request, round}
  Detached = {round}
  MaxAttempts = 2
  Providers = {binance, coinmarketcap}
  StrictPeriod = {coinmarketcap}
  Symbols = {s1, s2, s3}
  Mapped <- MCMapped
  Concurrency = 1
  Opens <- MCOpens
  Duration = 4
  Tolerance = 1
  NoCall = NoCall  NoSend = NoSend  NoRun = NoRun
  Channels = {telegram, bot}
  BotStyle = {bot}
  AskedPeriods <- MCAskedPeriods
  RoundPeriod <- MCRoundPeriod
  DefaultSymbols = {s2, s3}
  ApiChannels = {telegram}
  RoundChannels = {bot}
INVARIANTS TypeOK SlotsAccounted RetriesOnlyTransient CandleOfPeriod
  CopiesExplained ReportIsTrue NothingCutShort
PROPERTIES EveryRunEnds
