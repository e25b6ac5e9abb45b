CONSTANTS
  c1 = c1  c2 = c2  c3 = c3  i1 = i1  i2 = i2  i3 = i3  None = None
  Conns = {c1, c2, c3}  Ids = {i1}  Stream = FALSE  Metrics = FALSE
  Ops = {"lexical", "cancel"}
  MaxClients = 3  QueuePerClient = 1  Bursts <- CancelledPairs  Frames = 1
  MaxResponse = 2  Sizes = {2}  MaxConnects = 3
SPECIFICATION Spec
SYMMETRY ConnSymmetry
INVARIANTS EngineHasConsumer OutputIsBounded
PROPERTY ConnectionsTakeTurns
