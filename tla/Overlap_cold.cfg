CONSTANTS
  w1 = w1  w2 = w2  Consumer = consumer  None = None
  Workers = {w1, w2}  MaxJobs = 6  QueueCap = 2  Attempts = 3
SPECIFICATION FairSpec
PROPERTY RootEnds
CHECK_DEADLOCK FALSE
