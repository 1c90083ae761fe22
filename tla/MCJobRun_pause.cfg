\* engvit pause while engvit run encodes.
SPECIFICATION FairSpec
CONSTANTS
  p1 = p1  p2 = p2  first = first  second = second
  NoFile = NoFile
  NChunks = 1
  Payloads <- OneEncoding
  Procs <- TwoProcesses
  Limits <- NoLimit
  MaxCommands = 2
  MaxKills = 0
CHECK_DEADLOCK FALSE
PROPERTIES
  PauseTakesEffect
