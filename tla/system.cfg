CONSTANTS
  r1 = r1  r2 = r2  c1 = c1  c2 = c2  t1 = t1  t2 = t2  read = read
  NoTool = NoTool  Wildcard = Wildcard  NoClient = NoClient  NoShape = NoShape
  NoToken = NoToken  NoAnswer = NoAnswer  NoEntry = NoEntry
  Requests = {r1, r2}
  Shapes <- FewShapes
  Clients = {c1, c2}
  Tools = {read}
  Grants <- OneGrant
  Answers = {200}
  MaxEvents = 1
  Tokens = {t1, t2}
  Owner <- Owners
  Exp <- Expiries
  TTL = 1
  MaxEntries = 1
  MaxLag = 0
  MaxTime = 2
  Readers = {"op"}
  N = 1
  DefaultPage = 1
  MaxPage = 1
  Sizes <- AskedSize
  MaxIds = 2
SYMMETRY Interchangeable
SPECIFICATION Deployed
CHECK_DEADLOCK FALSE
PROPERTIES TokenContract
INVARIANTS RevocationTakesEffect OperatorSeesTheTruth CallsAccounted IdentityIsHydras
