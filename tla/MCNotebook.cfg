\* Two real jobs and the smoke job, two edits and a new kernel at any time.
SPECIFICATION NotebookSpec
CONSTANTS
  a = a  b = b  smoke = smoke
  Jobs <- TwoJobs
  Smoke = smoke
  NoJob = NoJob
  NChunks = 2
  Shape <- MCShape
  Texts <- MCTexts
  MaxEdits = 2
  MaxStarts = 1
SYMMETRY JobSymmetry
INVARIANT VerdictIsOfThisJob
PROPERTY MediaIsPrivate
