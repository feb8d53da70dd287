\* Two processes, started and ended anywhere, on a new file and on the databases of earlier releases.
CONSTANTS
  p1 = p1
  p2 = p2
  a1 = a1
  a2 = a2
  c1 = c1
  t1 = t1
  e1 = e1
  e2 = e2
  null = null
  notags = notags
  marriage = marriage
  none = none
  unreadable = unreadable
  AccountName <- TwoAccounts
  Aditya = a1
  NoAccount = none
  Marriage = marriage
  Null = null
  NoTags = notags
  FileOrders <- OneOrder
  MaxRow = 2
  MaxPassedOver = 1
  Proc <- TwoProcs
  Configs <- SomeConfigs
  Unreadable = unreadable
  OldDatabases <- FromCombined
  Directories <- AnyDirectory
  Builds <- BothBuilds
SPECIFICATION Spec
INVARIANTS
  TypeOK
  NoExpenseLost
  AccountsKept
  ReadyForSessions
  StaysUpgradable
