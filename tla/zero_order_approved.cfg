SPECIFICATION Spec
CONSTANTS
  d1 = d1
  d2 = d2
  v1 = v1
  v2 = v2
  v3 = v3
  acme = acme
  acne = acne
  acmes = acmes
  acmne = acmne
  t1 = t1
  t1dots = t1dots
  t2 = t2
  t3 = t3
  p1 = p1
  p1dots = p1dots
  p2 = p2
  p3 = p3
  p4 = p4
  p5 = p5
  T1 = T1
  T2 = T2
  T3 = T3
  P1 = P1
  P2 = P2
  P3 = P3
  P4 = P4
  P5 = P5
  oAcme = oAcme
  oTwin = oTwin
  oFits = oFits
  oOther = oOther
  oZero = oZero
  oCredit = oCredit
  n1 = n1
  eur = eur
  usd = usd
  null = null
  blank = blank
  None = null
  Blank = blank
  Documents = {d1, d2}
  Vendors = {v1, v2, v3}
  Orders = {oAcme, oTwin, oFits, oOther, oZero, oCredit}
  Names = {acme, acne, acmes, acmne}
  RawCodes = {t1, t1dots, t2, t3, p1, p1dots, p2, p3, p4, p5}
  Codes = {T1, T2, T3, P1, P2, P3, P4, P5}
  Numbers = {n1}
  Currencies = {eur, usd}
  Code <- MCCode
  VendorRow <- MCVendorRow
  OrderRow <- MCOrderRow
  Similarity <- MCSimilarity
  One = 100
  FUZZY_FLOOR = 60
  FUZZY_AUTO_ACCEPT = 88
  FUZZY_AMBIGUITY_GAP = 8
  Scripts <- MCScripts
  Cases <- AllCases
INVARIANTS
  InsideOrderTolerance
\* Work ends when every document is decided and nothing is left to seed.
CHECK_DEADLOCK FALSE
