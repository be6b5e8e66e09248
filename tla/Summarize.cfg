CONSTANTS
  c1 = c1
  c2 = c2
  p1 = p1
  p2 = p2
  p3 = p3
  Calls = {c1, c2}
  Payments = {p1, p2, p3}
  Texts = {t1}
  Verdict <- MCVerdict
  Nil = Nil
CHECK_DEADLOCK FALSE
SPECIFICATION MCSpec
INVARIANTS
  NothingUnpaid
  ReceiptBacksAnswer
  CachedIsPaid
  ConflictIsReal
  BadBodyKeepsPayment
PROPERTIES
  CallsEnd
