SPECIFICATION Spec
CONSTANTS
  t1 = t1
  t2 = t2
  web1 = web1
  web2 = web2
  Tickers = {t1, t2}
  Watched = {t1, t2}
  Cap = 2
  Scanner = Scanner
  Web = {web1, web2}
  SmsReplies = FALSE
  Faults = {"statement", "refused", "ambiguous", "expiry", "crash"}
  NoJob = NoJob
  Quotes <- OneQuote
  Opening <- OneQuote
  RealertDrop = 1
  PassEnding = FALSE
  MaxSerial = 3
  MaxFaults = 2
  MaxChanges = 1
SYMMETRY MarketSymmetry
INVARIANTS
  IdsFresh
  FedOnce
  FedAsLabelled
PROPERTIES
  LabelFinal
