SPECIFICATION FairSpec
CONSTANTS
  m1 = m1
  m2 = m2
  m3 = m3
  Markets <- ThreeMarkets
  SeriesOf <- TwoSeries
  MaxAlerts = 2
  MaxPerSeries = 1
  MinScore = 1
  RealertDrop = 1
  ServicePrice = 2
  Hours = 3
  MaxScore = 2
  MaxVolume = 2
  MaxMoves = 2
INVARIANT
  TypeOK
PROPERTIES
  BestAreSent
  EveryoneGetsATurn
