SPECIFICATION LiveSpec
CONSTANTS
  m1 = m1
  m2 = m2
  w1 = w1
  w2 = w2
  None = None
  Market = {m1, m2}
  Worker = {w1}
  Start <- MCStart
  End <- MCEnd
  Price <- MCPrice
  Streams <- MCStreams
  Delay = 1
  Lookback = 1
  Grace = 2
  Rotate = 3
  Snapshot = 4
  Lookahead = 5
  MaxTime = 18
  MaxMisses = 2
INVARIANTS
  TypeOK
  OutcomeMatches
  NoGap
  StrikeIsFirst
  CloseIsRecent
PROPERTIES
  WriteOnce
  EventuallyResolved
