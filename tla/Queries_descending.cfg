\* list -range <from> <to> --descending.
CONSTANTS
  rent = rent
  rents = rents
  home = home
  town = town
  trip = trip
  trips = trips
  a1 = a1
  a2 = a2
  none = none
  Alphabet <- InOrder
  Within <- WithinWords
  Categories <- TwoCategories
  TagsTable <- TwoTags
  CurrentAccount = a1
  Today <- March6
  Yesterday <- March5
  Accounts <- TwoAccounts
  None = none
  RowValues <- Written
  Tables0 <- ThreeRows
  MaxWrite = 1
  ListRequests <- RangeDescending
  ReportRequests <- Nothing
  CompareRequests <- Nothing
SPECIFICATION Spec
PROPERTIES
  DescendingIsDescending
