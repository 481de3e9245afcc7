SPECIFICATION FairSpec
CONSTANTS
  i1 = i1
  i2 = i2
  scanner = scanner
  web = web
  u1 = u1
  u2 = u2
  u3 = u3
  alice = alice
  bob = bob
  Instances = {i1}
  Threads = {scanner, web}
  Deadline = {scanner}
  InstanceOf <- OneReplica
  Updates = {u1, u2, u3}
  Phones = {alice, bob}
  PhoneOf <- ThreePhoneOf
  NoUpdate = NoUpdate
  Free = Free
  MaxCrashes = 1
INVARIANTS
  TypeOK
  AcksDurable
  FreshCopy
PROPERTIES
  CallsReturn
  ImplementsAtomic
