\* Two videos, two output roots, two sessions, one archive, and one kill or
\* replaced video.
SPECIFICATION FairSpec
CONSTANTS
  first = first  second = second  kaggle = kaggle  input = input  dataset = dataset
  working = working  elsewhere = elsewhere
  NoFile = NoFile  NoArchive = NoArchive  NoHost = NoHost
  NChunks = 2
  Payloads <- TwoVideos
  Environments <- OneEnvironment
  Paths <- OnePath
  Roots <- TwoRoots
  PauseEach = TRUE
  MaxSessions = 2
  MaxArchives = 1
  MaxDisturbances = 1
INVARIANTS
  SegmentsAreOfTheSource
  ArchiveKeepsFinishedWork
  RecordsDescribeJob
  AcceptedVideoIsTheJobs
PROPERTY JobSurvivesSessions
