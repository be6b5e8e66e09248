SPECIFICATION MCSpec
CONSTANTS
  GatewayKey = GatewayKey
  OtherKey = OtherKey
  Tabs = {t1, t2}
  Readers = {t1}
  Signed <- MCSigned
  MAX = 2
  NoItem = NoItem
  NotEntries = NotEntries
  Idle = Idle
  Accounts = {a1, a2}
  Chains = {Base, Other}
  Expected = Base
  NoAccount = NoAccount
  Rejected = Rejected
  Failed = Failed
  Unread = Unread
  MaxActs = 2
  Operations <- MCOperations
  Thrower = {"reset"}
  MaxOps = 4
  MaxClicks = 2
  MaxToggles = 3
INVARIANTS
  
  HistoryIsTrue
  FollowsWallet
  SentInOrder
  
PROPERTIES
  NothingElseLost
  
CHECK_DEADLOCK FALSE
