\* One command at a time, kills and expiries between any two steps.
\* No symmetry: a liveness property is checked.
SPECIFICATION FairSpec
CONSTANTS
  p1 = p1  p2 = p2  first = first  second = second
  NoFile = NoFile
  NChunks = 2
  Payloads <- TwoEncodings
  Procs <- OneProcess
  Limits <- OneOrNoLimit
  MaxCommands = 4
  MaxKills = 2
CHECK_DEADLOCK FALSE
INVARIANTS
  RunAloneNeverRaises
  ReportedVideoIsTheJobs
PROPERTIES
  FinishedWorkIsKept
  CommandEnds
