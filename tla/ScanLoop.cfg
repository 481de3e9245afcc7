SPECIFICATION FairSpec
CONSTANTS
  Items <- TwoItems
  PageSize = 1
  MaxAttempts = 2
  MaxFaults = 2
  N = 2
  WithTags = {2}
  EventsTTL = 1
  TagsTTL = 1
INVARIANTS
  TypeOK
  HealthTells
PROPERTIES
  ImplementsListing
  EventsReachEveryone
