CONSTANTS
  r1 = r1  r2 = r2  t1 = t1  t2 = t2  t3 = t3  c1 = c1  c2 = c2
  NoToken = NoToken  NoClient = NoClient  NoAnswer = NoAnswer  NoEntry = NoEntry
  Requests <- TwoRequests
  Tokens <- TwoTokens
  Owner <- Owners2
  Exp <- Exps2
  TTL = 2
  MaxEntries = 1
  MaxLag = 1
  MaxTime = 3
SPECIFICATION Spec
PROPERTIES GateContract EveryRequestDecided
