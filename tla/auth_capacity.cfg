CONSTANTS
  r1 = r1  r2 = r2  t1 = t1  t2 = t2  t3 = t3  c1 = c1  c2 = c2
  NoToken = NoToken  NoClient = NoClient  NoAnswer = NoAnswer  NoEntry = NoEntry
  Requests <- TwoRequests
  Tokens <- ThreeTokens
  Owner <- Owners3
  Exp <- Exps3
  TTL = 2
  MaxEntries = 2
  MaxLag = 1
  MaxTime = 2
SPECIFICATION SafeSpec
SYMMETRY Symmetry
INVARIANTS TypeOK CacheBounded CacheFresh
PROPERTIES EvictsInOrder
