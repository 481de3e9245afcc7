SPECIFICATION FairSpec
CONSTANTS
  t1 = t1
  t2 = t2
  web1 = web1
  web2 = web2
  Tickers = {t1, t2}
  Watched = {}
  Cap = 1
  Scanner = Scanner
  Web = {}
  SmsReplies = TRUE
  Faults = {"refused"}
  NoJob = NoJob
  Quotes <- ThreeQuotes
  Opening <- OneQuote
  RealertDrop = 1
  PassEnding = TRUE
  MaxSerial = 5
  MaxFaults = 1
  MaxChanges = 2
INVARIANTS
  TypeOK
  SuggestionWasTexted
  TrainingSound
PROPERTIES
  AlertsOnce
  PassHonoured
  PauseHonoured
  AllAlerted
