\* A session whose user types anything, with assert() compiled in.
CONSTANTS
  p1 = p1
  p2 = p2
  a1 = a1
  a2 = a2
  c1 = c1
  c2 = c2
  t1 = t1
  t2 = t2
  n1 = n1
  d1 = d1
  dot = dot
  word = word
  Proc <- OneProc
  AccountName <- TwoAccounts
  CategoryName <- TwoCategories
  TagName <- OneTag
  Text <- OneText
  Price <- OnePrice
  Dot = dot
  Word = word
  CategoryTables <- NoneOrOne
  DefaultAccount = a1
  UserAttrs <- AnyAttr
  UserPrices <- AnyPrice
  UserIds <- TwoIds
  UserTagLists <- RepeatedTag
  MaxRow = 2
  DebugBuild = TRUE
  WritesMayFail = TRUE
SPECIFICATION LiveSpec
INVARIANTS
  TypeOK
PROPERTIES
  CommandEnds
  RemovedRowsWereShown
  SuccessMeansAllTags
