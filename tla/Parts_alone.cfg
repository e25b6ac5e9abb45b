CONSTANTS
  h1 = h1  h2 = h2  Child = child  Helpers = {h1, h2}
  Cap = 1  PipeSize = 1  MaxWritten = 3  Limited = TRUE
  w1 = w1  w2 = w2  w3 = w3  Workers = {w1, w2, w3}  MaxBinds = 3
  Nobody = Nobody  Nothing = Nothing  Foreign = Foreign
  r1 = r1  r2 = r2  r3 = r3  Requests = {r1, r2, r3}  None = None
  Results <- ResultCounts  MaxLines = 3  PairSize = 3
  p1 = p1  p2 = p2  Ingests = {p1, p2}  NoLease = NoLease  MaxCommits = 3
  Engines = {p1, p2}  NoBuilder = NoBuilder  Attempts = 2  MaxDamages = 1
  Documents <- SmallDocuments  MaxPages = 2  MaxOutput = 5  OcrEnabled = TRUE  MaxRead = 2
  Texts <- OrderedRanges  Boundaries = {0, 1, 3, 4}  Sizes <- WindowSizes
  Lists <- Hits  Limits = {0, 1, 2, 3}  MaxResults = 2  CandidatesMin = 2  CandidatesMax = 3
  K = 2  MaxLength = 3  Denominator = 60  Bytes <- ChunkBytes  Budgets = {2, 9}
SPECIFICATION PartsSpec
INVARIANTS TypesOK SuccessIsComplete NoProcessOutlives ServingIsReachable
           CheckoutIsTheCommit SessionsArePinned PagesAreTheirOwn WindowsCover RanksAreFused
PROPERTIES ExternalCallEnds ImplementsAnswers
CHECK_DEADLOCK FALSE
