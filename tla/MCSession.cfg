SPECIFICATION Spec
CONSTANTS
  None = None
  Garbage = Garbage
  Market <- MCMarket
  Value <- MCValue
  Default <- MCDefault
  UrlValue <- MCUrlValue
  MaxMoves = 1
  MaxFails = 1
INVARIANTS
  TypeOK
  Complete
  StaleOnlyIfMoved
