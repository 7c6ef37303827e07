SPECIFICATION Spec
CONSTANTS
  m1 = m1
  m2 = m2
  w1 = w1
  w2 = w2
  None = None
  Market = {m1}
  Worker = {w1, w2}
  Start <- OneStart
  End <- OneEnd
  Price <- MCPrice
  Streams <- OneStreams
  Delay = 0
  Lookback = 1
  Grace = 2
  Rotate = 3
  Snapshot = 4
  Lookahead = 5
  MaxTime = 13
  MaxMisses = 1
PROPERTIES
  OutcomeFinal
