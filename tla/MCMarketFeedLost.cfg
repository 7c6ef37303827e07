SPECIFICATION Spec
CONSTANTS
  Market <- MCMarket
  MaxDrops = 1
  MaxFails = 1
INVARIANTS
  SeenIsFed
