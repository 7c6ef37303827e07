SPECIFICATION LiveSpec
CONSTANTS
  s1 = s1
  s2 = s2
  b1 = b1
  k1 = k1
  NoRow = NoRow
  Row = {s1, s2, b1}
  Key = {k1}
  TableOf <- MCTableOf
  KeyOf <- MCKeyOf
  MaxRestarts = 1
INVARIANTS
  TypeOK
  AtMostOnce
  NothingForgotten
  CleanExit
  LossIsolated
  FirstTickWins
PROPERTIES
  EverySettles
  StopTerminates
  ImplementsSink
CHECK_DEADLOCK FALSE
