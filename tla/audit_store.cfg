CONSTANTS
  w1 = w1  w2 = w2
  Writers = {w1, w2}
  Readers = {"op"}
  N = 3
  DefaultPage = 1
  MaxPage = 2
  Sizes <- AskedSizes
  Offsets = {0, 1, 2, 3, 4}
  MaxIds = 5
  NoEntry = NoEntry
SPECIFICATION Spec
INVARIANTS TypeOK WalkMissesNothing ShownIsWritten
PROPERTIES WalkAdvances TrailContract
