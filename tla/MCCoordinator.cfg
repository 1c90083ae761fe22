\* Two workers whose encodings differ byte for byte, two chunks, and two
\* disturbances of any kind.
SPECIFICATION Spec
CONSTANTS
  w1 = w1  w2 = w2  first = first  second = second
  NoFile = NoFile  NoWorker = NoWorker
  NChunks = 2
  Payloads <- TwoEncodings
  Workers <- TwoWorkers
  Fragile <- LastChunk
  MaxDisturbances = 2
SYMMETRY Symmetry
INVARIANTS
  TypeOK
  MemoryIsDiskOrPredecessor
  CompleteMeansAllChunks
  HolderIsNewest
  OnlyExactCompletions
  IntactUnlessContended
PROPERTIES
  CommitIsByNewestLease
  ImplementsLedger
  NoNeedlessRework
