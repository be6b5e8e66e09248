SPECIFICATION FairSpec
CONSTANTS
  MaxRuns = 2
  Accounts = {a1}
  Empty = Empty
  None = None
INVARIANTS
  
  
  EndIsTold
  BadgeIsOfShownReceipt
PROPERTIES
  StaleRunsSilent
  HaltedIsFinal
  PageSettles
CHECK_DEADLOCK FALSE
