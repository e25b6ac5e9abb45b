CONSTANTS
  p1 = p1  p2 = p2  p3 = p3  d1 = d1  d2 = d2  v1 = v1  v2 = v2
  db = db  link = link  rev1 = rev1  rev2 = rev2  k1 = k1  k2 = k2  k3 = k3  s1 = s1
  NoDoc = NoDoc  None = None
  Procs = {p1, p2, p3}  Searchers = {s1}  Paths = {db, link}  Real = db  PathOf <- LinkAndName
  Keys = {k1, k2, k3}  KeyOf <- WithSearch  RevisionOf <- NewestTokenizer
  Docs = {d1, d2}  Versions = {v1, v2}  ChunksOf <- Chunked
  Batch = 1  MaxGen = 2
SPECIFICATION Spec
INVARIANTS ActiveCovers CheckpointsFit NoOrphans ModelsUnmixed
           LinksShareTheLock CursorLeavesNoHole SearchComparesOwnModel
PROPERTY ImplementsView
