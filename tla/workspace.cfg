SPECIFICATION FairSpec
CONSTANTS
  None = None  Ws = Ws
  Disks = {Ws, root}
  Writes = {w1, w2}
  MaxKills = 3
  MaxErrors = 2
  MaxDeletes = 1
INVARIANT TypeOK
INVARIANT FinishedSurvives
PROPERTY NoDataFormatted
PROPERTY ServesUnlessHalfMade
