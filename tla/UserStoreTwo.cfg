SPECIFICATION Spec
CONSTANTS
  i1 = i1
  i2 = i2
  scanner = scanner
  web = web
  u1 = u1
  u2 = u2
  u3 = u3
  alice = alice
  bob = bob
  Instances = {i1, i2}
  Threads = {scanner, web}
  Deadline = {scanner}
  InstanceOf <- TwoReplicas
  Updates = {u1, u2}
  Phones = {alice}
  PhoneOf <- TwoPhoneOf
  NoUpdate = NoUpdate
  Free = Free
  MaxCrashes = 0
INVARIANTS
  AcksDurable
