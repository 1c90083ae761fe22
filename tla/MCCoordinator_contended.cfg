\* One chunk, two workers whose encodings differ byte for byte: a lease that
\* expires while its holder still encodes.
SPECIFICATION Spec
CONSTANTS
  w1 = w1  w2 = w2  first = first  second = second
  NoFile = NoFile  NoWorker = NoWorker
  NChunks = 1
  Payloads <- TwoEncodings
  Workers <- TwoWorkers
  Fragile <- NoChunk
  MaxDisturbances = 1
SYMMETRY Symmetry
INVARIANT CommittedSegmentIntact
