SPECIFICATION FairSpec
CONSTANTS
  i1 = i1
  i2 = i2
  i3 = i3
  Instances = {i1, i2, i3}
  StableIds = {i2}
  Nobody = Nobody
  TTL = 6
  Interval = 2
  MaxLag = 1
  Drift = 1
  Skew <- SkewedClocks
  MaxErrors = 1
  MaxCrashes = 1
INVARIANTS
  TypeOK
  LeaseHonoured
  OneLeader
PROPERTIES
  NotDeposed
  LeaderEmerges
