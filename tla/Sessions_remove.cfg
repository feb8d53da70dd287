\* Two sessions; one changes the rows that the other is asked about.
CONSTANTS
  p1 = p1
  p2 = p2
  a1 = a1
  a2 = a2
  c1 = c1
  c2 = c2
  t1 = t1
  t2 = t2
  n1 = n1
  d1 = d1
  dot = dot
  word = word
  Proc <- TwoProcs
  AccountName <- TwoAccounts
  CategoryName <- TwoCategories
  TagName <- TwoTags
  Text <- OneText
  Price <- OnePrice
  Dot = dot
  Word = word
  CategoryTables <- BothCategories
  DefaultAccount = a1
  UserAttrs <- CategoryAndTags
  UserPrices <- GoodPrices
  UserIds <- OneId
  UserTagLists <- BothOrders
  MaxRow = 1
  DebugBuild = FALSE
  WritesMayFail = TRUE
SPECIFICATION Spec
PROPERTIES
  RemovedRowsWereShown
