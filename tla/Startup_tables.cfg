\* The three tables of the first releases.
CONSTANTS
  p1 = p1
  p2 = p2
  a1 = a1
  a2 = a2
  c1 = c1
  t1 = t1
  e1 = e1
  e2 = e2
  null = null
  notags = notags
  marriage = marriage
  none = none
  unreadable = unreadable
  AccountName <- TwoAccounts
  Aditya = a1
  NoAccount = none
  Marriage = marriage
  Null = null
  NoTags = notags
  FileOrders <- TwoOrders
  MaxRow = 2
  MaxPassedOver = 1
  Proc <- OneProc
  Configs <- OneConfig
  Unreadable = unreadable
  OldDatabases <- ThreeTables
  Directories <- Own
  Builds <- Release
SPECIFICATION Spec
INVARIANTS
  NoExpenseLost
