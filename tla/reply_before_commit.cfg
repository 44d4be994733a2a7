SPECIFICATION Spec
CONSTANTS
  i1 = i1
  i2 = i2
  w1 = w1
  w2 = w2
  c1 = c1
  c2 = c2
  v1 = v1
  po1 = po1
  n1 = n1
  null = null
  blank = blank
  None = null
  Blank = blank
  Invoices = {i1}
  Workers = {w1, w2}
  Clients = {c1}
  Vendors = {v1}
  PurchaseOrders = {po1}
  Numbers = {n1}
  Readings <- TwoReadings
  Matches <- TwoMatches
  MaxFaults = 0
  MaxRedeliveries = 0
  MaxLlmErrors = 0
INVARIANTS
  ReplyIsTrue
\* Work ends when every invoice is settled and nobody uploads or decides.
CHECK_DEADLOCK FALSE
