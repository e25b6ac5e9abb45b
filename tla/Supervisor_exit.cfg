CONSTANTS
  c1 = c1  c2 = c2  c3 = c3  i1 = i1  i2 = i2  i3 = i3  None = None
  Conns = {c1}  Ids = {i1, i2, i3}  Stream = TRUE  Metrics = FALSE
  Ops = {"lexical"}
  MaxClients = 1  QueuePerClient = 1  Bursts <- Pairs  Frames = 2
  MaxResponse = 8  Sizes = {3, 6}  MaxConnects = 0
SPECIFICATION Spec
SYMMETRY IdSymmetry
INVARIANT ExitZeroMeansDelivered
