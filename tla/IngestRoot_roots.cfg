CONSTANTS
  r1 = r1  r2 = r2  a = a  b = b  c = c  w1 = w1  w2 = w2
  Absent = Absent  None = None
  Workers = {w1}
  Roots = {r1, r2}  Files = {a, b}  RootOf <- OneEach  Single = {r2}
  Versions = {"v1"}  Recipes = {"p1", "p2"}
  QueueCap = 1  BatchMax = 1  Noisy <- Quiet
  MaxRuns = 2  MaxEdits = 1
SPECIFICATION Spec
INVARIANT CompleteRunSucceeded
PROPERTIES RunsAreSettled SuccessIsCurrent
