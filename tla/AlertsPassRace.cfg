SPECIFICATION Spec
CONSTANTS
  t1 = t1
  t2 = t2
  web1 = web1
  web2 = web2
  Tickers = {t1}
  Watched = {}
  Cap = 1
  Scanner = Scanner
  Web = {web1}
  SmsReplies = FALSE
  Faults = {}
  NoJob = NoJob
  Quotes <- OneQuote
  Opening <- OneQuote
  RealertDrop = 1
  PassEnding = FALSE
  MaxSerial = 2
  MaxFaults = 0
  MaxChanges = 0
INVARIANT PassKept
