SPECIFICATION Spec
CONSTANTS
  i1 = i1
  i2 = i2
  i3 = i3
  Instances = {i1, i2}
  StableIds = {i2}
  Nobody = Nobody
  TTL = 6
  Interval = 2
  MaxLag = 1
  Drift = 1
  Skew <- TwoClocks
  MaxErrors = 3
  MaxCrashes = 0
INVARIANTS
  OneScanner
