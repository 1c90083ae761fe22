\* Two commands alive together, their accesses interleaved freely.
SPECIFICATION Spec
CONSTANTS
  p1 = p1  p2 = p2  first = first  second = second
  NoFile = NoFile
  NChunks = 2
  Payloads <- OneEncoding
  Procs <- TwoProcesses
  Limits <- OneOrNoLimit
  MaxCommands = 2
  MaxKills = 1
CHECK_DEADLOCK FALSE
SYMMETRY ProcessSymmetry
INVARIANTS
  CompleteMeansAllChunks
PROPERTIES
  GenerationAdvances
  PauseHolds
