SPECIFICATION LiveSpec
CONSTANTS
  None = None
  Token = {up}
  Price <- MCPrice
  Kilo = 2
  Epoch = 20
  Milli = 15
  Micro = 30
  Nano = 60
  MaxEvents = 3
  MaxDrops = 1
  MaxBad = 1
INVARIANTS
  TypeOK
  CaughtUp
  RowsAreTrue
PROPERTIES
  EventuallyCaughtUp
CHECK_DEADLOCK FALSE
