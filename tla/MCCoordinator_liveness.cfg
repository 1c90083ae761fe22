\* Every kind of disturbance: the job is completed.
SPECIFICATION FairSpec
CONSTANTS
  w1 = w1  w2 = w2  first = first  second = second
  NoFile = NoFile  NoWorker = NoWorker
  NChunks = 2
  Payloads <- OneEncoding
  Workers <- TwoWorkers
  Fragile <- LastChunk
  MaxDisturbances = 2
PROPERTY JobCompletes
