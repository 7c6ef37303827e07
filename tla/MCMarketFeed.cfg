SPECIFICATION LiveSpec
CONSTANTS
  Market <- MCMarket
  MaxDrops = 2
  MaxFails = 1
INVARIANTS
  TypeOK
  InSync
  LockIsHeld
  SeenIsKept
  FedUnlessDropped
PROPERTIES
  EventuallyInSync
