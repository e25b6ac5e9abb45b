CONSTANTS
  c1 = c1  c2 = c2  c3 = c3  i1 = i1  i2 = i2  i3 = i3  None = None
  Conns = {c1}  Ids = {i1, i2}  Stream = TRUE  Metrics = TRUE
  Ops = {"lexical", "dense", "rejected", "cancel", "garbage"}
  MaxClients = 1  QueuePerClient = 1  Bursts <- Pairs  Frames = 2
  MaxResponse = 4  Sizes = {1, 4}  MaxConnects = 0
SPECIFICATION FairSpec
INVARIANTS OneAnswerEach FailuresAreTold
PROPERTIES EveryRequestEnds LexicalDoesNotRenew ShutdownEnds
