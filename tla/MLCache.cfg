SPECIFICATION Spec
CONSTANTS
  a = a
  b = b
  l1 = l1
  l2 = l2
  Labels = {l1, l2}
  Processes = {a, b}
  MinExamples = 2
  TTL = 2
  MaxLoad = 1
  MaxFaults = 1
INVARIANTS
  TypeOK
  ModelIsRecent
  OwnLabelsCount
