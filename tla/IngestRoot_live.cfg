CONSTANTS
  r1 = r1  r2 = r2  a = a  b = b  c = c  w1 = w1  w2 = w2
  Absent = Absent  None = None
  Workers = {w1}
  Roots = {r1}  Files = {a, b, c}  RootOf <- ThreeInOne  Single = {}
  Versions = {"v1"}  Recipes = {"p1"}
  QueueCap = 1  BatchMax = 2  Noisy <- Chatty
  MaxRuns = 1  MaxEdits = 0
SPECIFICATION FirstRun
PROPERTY RunTerminates
