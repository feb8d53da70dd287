\* Two sessions on one file; they type what names things, not raw columns,
\* and prices that hold a number, or no price at all.
CONSTANTS
  p1 = p1
  p2 = p2
  a1 = a1
  a2 = a2
  c1 = c1
  c2 = c2
  t1 = t1
  t2 = t2
  n1 = n1
  d1 = d1
  dot = dot
  word = word
  Proc <- TwoProcs
  AccountName <- TwoAccounts
  CategoryName <- TwoCategories
  TagName <- TwoTags
  Text <- OneText
  Price <- OnePrice
  Dot = dot
  Word = word
  CategoryTables <- HandFilled
  DefaultAccount = a1
  UserAttrs <- CheckedAttrs
  UserPrices <- GoodPrices
  UserIds <- OneId
  UserTagLists <- BothOrders
  MaxRow = 1
  DebugBuild = FALSE
  WritesMayFail = TRUE
SPECIFICATION Spec
INVARIANTS
  NamesStoredOnce
  TagsStoredInOrder
  ReferencesResolve
  PricesReadable
  DataStopsNoSession
PROPERTIES
  ImplementsLedger
  SuccessMeansAllTags
