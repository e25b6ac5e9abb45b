CONSTANTS
  r1 = r1  r2 = r2  a = a  b = b  c = c  w1 = w1  w2 = w2
  Absent = Absent  None = None
  Workers = {w1, w2}
  Roots = {r1}  Files = {a, b}  RootOf <- TwoInOne  Single = {}
  Versions = {"v1", "v2"}  Recipes = {"p1"}
  QueueCap = 1  BatchMax = 2  Noisy <- Quiet
  MaxRuns = 1  MaxEdits = 1
SPECIFICATION Spec
SYMMETRY Symmetric
INVARIANTS TypeOK Accounted
PROPERTIES PruneOnlyAbsent SuccessIsCurrent FailFastDeletesNothing
