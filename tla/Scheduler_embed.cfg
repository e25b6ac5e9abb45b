CONSTANTS
  Devices = {"cpu", "auto", "cuda"}  BatchSizes = {0, 1, 3}
  Lengths = {1, 2}  MaxInputs = 4  MaxCalls = 2  ChunkSize = 2
  CudaItems = 2  CpuItems = 3  FallbackItems = 2  FallbackPadded = 3
  ProbeItems = 4  MaxProbe = 4
SPECIFICATION Spec
INVARIANTS EveryWindowEmbedded ProvenEnvelope ProviderIsHonest
PROPERTY EmbedEnds
CHECK_DEADLOCK FALSE
