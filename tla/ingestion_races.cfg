SPECIFICATION FairSpec
CONSTANTS
  d1 = d1
  d2 = d2
  n1 = n1
  n2 = n2
  r1 = r1
  r2 = r2
  r3 = r3
  null = null
  Documents = {d1, d2}
  Names = {n1, n2}
  Requests = {r1, r2, r3}
  None = null
  MaxFaults = 1
INVARIANTS
  RowHasDocument
  RacesAreResolved
  OneMessagePerInvoice
PROPERTIES
  SameBytesSameInvoice
  UploadsArePipelineSteps
  EveryUploadEnds
\* Requests are made once each.
CHECK_DEADLOCK FALSE
