\* Expenses that name their accounts, in a release build.
CONSTANTS
  p1 = p1
  p2 = p2
  a1 = a1
  a2 = a2
  c1 = c1
  t1 = t1
  e1 = e1
  e2 = e2
  null = null
  notags = notags
  marriage = marriage
  none = none
  unreadable = unreadable
  AccountName <- TwoAccounts
  Aditya = a1
  NoAccount = none
  Marriage = marriage
  Null = null
  NoTags = notags
  FileOrders <- OneOrder
  MaxRow = 2
  MaxPassedOver = 1
  Proc <- OneProc
  Configs <- OneConfig
  Unreadable = unreadable
  OldDatabases <- NamedAccounts
  Directories <- Own
  Builds <- Release
SPECIFICATION Spec
INVARIANTS
  AccountsKeptAnyway
