SPECIFICATION LiveSpec
CONSTANTS
  None = None
  X = 3
  Second = 2
  One = 4
  Instant <- MCInstant
  Input <- MCInput
INVARIANTS
  TypeOK
  FirstGoodAttempt
  BoughtInTime
  BoughtFresh
  Mirror
PROPERTIES
  Terminates
CHECK_DEADLOCK FALSE
