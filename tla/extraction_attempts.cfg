SPECIFICATION FairSpec
CONSTANTS
  inv = inv
  w1 = w1
  w2 = w2
  n1 = n1
  sure = sure
  doubtful = doubtful
  nan = nan
  prose = prose
  nul = nul
  unfit = unfit
  null = null
  blank = blank
  None = null
  Blank = blank
  Invoice = inv
  Workers = {w1, w2}
  Answers = {sure, doubtful, nan, prose, nul, unfit}
  Storable = {sure, doubtful, prose, unfit}
  Kind <- MCKind
  Meaning <- MCMeaning
  Numbers = {n1}
  MaxRetries = 2
  MaxRedeliveries = 1
  MaxFaults = 1
  MaxEscapes = 2
INVARIANTS
  TypeOK
  RowTellsTheAttempt
  ReasonIsOfAFailure
PROPERTIES
  AttemptsArePipelineSteps
  EveryAttemptEnds
\* Work ends when every message is consumed.
CHECK_DEADLOCK FALSE
