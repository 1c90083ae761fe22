\* The same video and environment, with the dataset mounted elsewhere.
SPECIFICATION Spec
CONSTANTS
  first = first  second = second  kaggle = kaggle  input = input  dataset = dataset
  working = working  elsewhere = elsewhere
  NoFile = NoFile  NoArchive = NoArchive  NoHost = NoHost
  NChunks = 1
  Payloads <- OneVideo
  Environments <- OneEnvironment
  Paths <- TwoPaths
  Roots <- OneRoot
  PauseEach = TRUE
  MaxSessions = 2
  MaxArchives = 1
  MaxDisturbances = 0
INVARIANT SameVideoIsNotRefused
