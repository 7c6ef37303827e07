SPECIFICATION Spec
CONSTANTS
  p = p
  a = a
  b = b
  up = up
  dn = dn
  tb = tb
  up6 = up6
  up7 = up7
  up7x = up7x
  dn6 = dn6
  up9 = up9
  b13 = b13
  None = None
  Market = {p, a, b}
  Start <- MCStart
  End <- MCEnd
  Token = {up, dn, tb}
  MarketOf <- MCMarketOf
  Row = {up6, up7, up7x, dn6, up9, b13}
  TokenOf <- MCTokenOf
  TsOf <- MCTsOf
  Quoted = {up6, up7, up7x, dn6, up9}
  Second = 2
  Before = 2
  After = 2
  Age = 3
  Late = 0
  Batch = 2
  Worker = {1}
  Poison = {p}
  MaxTime = 14
  MaxAborts = 0
INVARIANTS
  LookupsKept
