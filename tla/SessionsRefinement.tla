------------------------- MODULE SessionsRefinement -------------------------
(***************************************************************************)
(* With clean input the console sessions implement Ledger, for any number  *)
(* of sessions; and what Ledger promises of the data is theirs.            *)
(***************************************************************************)
EXTENDS SessionsProofs

L == INSTANCE LedgerProofs

\* What is about to be written fits what is in the tables.
WriteGood(j) ==
  j.op = "write" =>
    /\ j.col # "account_id"
    /\ j.col = "category_id" => j.value \in DOMAIN categories
    /\ j.col = "tags" => KnownTags(j.value)
    /\ j.col = "price" => j.value \in Price

\* The names are different and the rows good; so are the values that handlers
\* have validated and not yet written, for the tables of names only grow; and
\* no session has met a row it could not read.
DataInv ==
  /\ TypeInv
  /\ L!LedgerInv
  /\ \A p \in Proc : WriteGood(job[p])
  /\ DataStopsNoSession
-----------------------------------------------------------------------------
(***************************************************************************)
(* What the invariant says of a row.                                       *)
(***************************************************************************)
\* The operators on tables that L brings along are those of Tables.
LEMMA TablesAgree ==
  /\ \A t, R : L!IsTable(t, R) <=> IsTable(t, R)
  /\ \A t : L!NamesDiffer(t) <=> NamesDiffer(t)
  /\ \A t, n : L!HasName(t, n) <=> HasName(t, n)
  /\ \A t : L!NextRowId(t) = NextRowId(t)
  /\ \A t, id, row : L!WithRow(t, id, row) = WithRow(t, id, row)
  /\ \A t, ids : L!WithoutRows(t, ids) = WithoutRows(t, ids)
  /\ L!RowId = RowId
  BY DEF L!IsTable, IsTable, L!NamesDiffer, NamesDiffer, L!HasName, HasName,
         L!NextRowId, NextRowId, L!WithRow, WithRow, L!WithoutRows,
         WithoutRows, L!RowId, RowId

LEMMA KnownTagsNames ==
  ASSUME NEW names
  PROVE  KnownTags(names) <=> names \subseteq {tags[i] : i \in DOMAIN tags}
  BY DEF KnownTags, HasName

LEMMA GoodRows ==
  ASSUME L!LedgerInv, NEW i \in DOMAIN expenses
  PROVE  /\ expenses[i] \in L!GoodRow
         /\ Resolves(expenses[i]) /\ Readable(expenses[i])
         /\ KnownTags(expenses[i].tags)
  <1>1. expenses[i] \in L!GoodRow
    BY DEF L!LedgerInv, L!IsTable
  <1>2. /\ expenses[i].category_id \in DOMAIN categories
        /\ expenses[i].account_id \in DOMAIN accounts
        /\ expenses[i].price \in Price
        /\ expenses[i].tags \subseteq {tags[k] : k \in DOMAIN tags}
    BY <1>1, L!GoodRowFields
  <1> QED BY <1>1, <1>2, KnownTagsNames DEF Resolves, Readable
-----------------------------------------------------------------------------
(***************************************************************************)
(* The jobs that a step may leave behind.                                  *)
(***************************************************************************)
Harmless(p, next) ==
  /\ next.op = "write" =>
       /\ job[p].op = "update"
       /\ Validate(job[p].attr, job[p].value) = "Success"
       /\ next = HandleForeignKeyUpdate(job[p])
  /\ next.op = "off" => next.cause \notin {"danglingKey", "unreadablePrice"}

JobStep(p) ==
  \E next : job' = [job EXCEPT ![p] = next] /\ Harmless(p, next)

LEMMA EndStep ==
  ASSUME NEW p \in Proc
  PROVE  /\ \A status : Return(p, status) => JobStep(p)
         /\ \A status : ReturnDeaf(p, status) => JobStep(p)
         /\ \A cause : Stop(p, cause) /\
                       cause \notin {"danglingKey", "unreadablePrice"}
                       => JobStep(p)
         /\ StatementFails(p) => JobStep(p)
         /\ \A next : Continue(p, next) /\ next.op \notin {"write", "off"}
                      => JobStep(p)
  <1>1. Harmless(p, Idle) /\ Harmless(p, Deaf)
    BY DEF Harmless, Idle, Deaf
  <1>2. \A cause : cause \notin {"danglingKey", "unreadablePrice"}
                   => Harmless(p, Off(cause))
    BY DEF Harmless, Off
  <1>3. \A next : next.op \notin {"write", "off"} => Harmless(p, next)
    BY DEF Harmless
  <1>4. \A status : Return(p, status) => JobStep(p)
    BY <1>1 DEF Return, JobStep
  <1>5. \A status : ReturnDeaf(p, status) => JobStep(p)
    BY <1>1 DEF ReturnDeaf, JobStep
  <1>6. \A cause : Stop(p, cause) /\
                   cause \notin {"danglingKey", "unreadablePrice"}
                   => JobStep(p)
    BY <1>2 DEF Stop, JobStep
  <1>7. \A next : Continue(p, next) /\ next.op \notin {"write", "off"}
                  => JobStep(p)
    BY <1>3 DEF Continue, JobStep
  <1>8. StatementFails(p) => JobStep(p)
    BY <1>4, <1>6 DEF StatementFails
  <1> QED BY <1>4, <1>5, <1>6, <1>7, <1>8

\* A step of Ledger that leaves such jobs behind keeps the invariant.
LEMMA StepKeepsData ==
  ASSUME CleanInput, DataInv, NEW p \in Proc, TypeInv', JobStep(p),
         [L!Next]_L!ledger
  PROVE  DataInv'
  <1>1. L!LedgerInv'
    BY L!LedgerNext DEF DataInv
  <1>2. /\ UNCHANGED categories
        /\ \A names : KnownTags(names) => KnownTags(names)'
    <2>1. /\ UNCHANGED categories
          /\ {tags[i] : i \in DOMAIN tags} \subseteq
               {tags'[i] : i \in DOMAIN tags'}
      BY L!LedgerKeepsNames DEF DataInv
    <2>2. \A names : KnownTags(names) => KnownTags(names)'
      BY <2>1 DEF KnownTags, HasName
    <2> QED BY <2>1, <2>2
  <1>3. PICK next : job' = [job EXCEPT ![p] = next] /\ Harmless(p, next)
    BY DEF JobStep
  <1>4. DOMAIN job = Proc
    BY DEF DataInv, TypeInv, TypeOK, ControlOK
  <1>5. \A q \in Proc : job'[q] = IF q = p THEN next ELSE job[q]
    BY <1>3, <1>4
  <1>6. DataStopsNoSession'
    BY <1>3, <1>5 DEF DataInv, DataStopsNoSession, Harmless
  <1>7. \A q \in Proc \ {p} : WriteGood(job[q])'
    BY <1>2, <1>5 DEF DataInv, WriteGood
  <1>8. WriteGood(job[p])'
    <2> SUFFICES ASSUME next.op = "write" PROVE WriteGood(next)'
      BY <1>5 DEF WriteGood
    <2> DEFINE j == job[p]
    <2>1. /\ j.op = "update" /\ next = HandleForeignKeyUpdate(j)
          /\ Validate(j.attr, j.value) = "Success"
      BY <1>3 DEF Harmless
    <2>2. j.attr \in UserAttrs /\ j.value \in TypedValues(j.attr)
      BY <2>1 DEF DataInv, TypeInv, TypeOK, ControlOK, JobOK
    <2>3. CASE j.attr = "category"
      <3>1. IdOf(categories, j.value) \in DOMAIN categories
        BY <2>1, <2>2, <2>3, ValidatedFits, IdOfType DEF DataInv
      <3> QED BY <1>2, <2>1, <2>3, <3>1 DEF WriteGood, HandleForeignKeyUpdate
    <2>4. CASE j.attr # "category"
      <3>1. next.col = j.attr /\ next.value = j.value
        BY <2>1, <2>4 DEF HandleForeignKeyUpdate
      <3>2. j.attr \notin {"category_id", "account_id"}
        BY <2>2 DEF CleanInput
      <3>3. j.attr = "tags" => KnownTags(j.value)
        BY <2>1, <2>2, ValidatedFits DEF DataInv
      <3>4. j.attr = "price" => j.value \in Price
        <4>1. j.attr = "price" => FitsColumn("price", j.value)
          BY <2>1, <2>2, ValidatedFits DEF DataInv
        <4>2. j.attr = "price" => j.value \in UserPrices
          BY <2>2 DEF TypedValues
        <4> QED BY <4>1, <4>2 DEF FitsColumn, CleanInput
      <3> QED BY <1>2, <3>1, <3>2, <3>3, <3>4 DEF WriteGood
    <2> QED BY <2>3, <2>4
  <1> QED BY <1>1, <1>6, <1>7, <1>8 DEF DataInv
-----------------------------------------------------------------------------
(***************************************************************************)
(* Every action is a step of Ledger or leaves the tables as they are.      *)
(***************************************************************************)
Simulates(p) == JobStep(p) /\ [L!Next]_L!ledger

LEMMA TablesStay ==
  ASSUME NEW p \in Proc, JobStep(p), UNCHANGED database
  PROVE  Simulates(p)
  BY DEF Simulates, L!ledger, database

LEMMA AddSimulates ==
  ASSUME DataInv, NEW p \in Proc, Add(p)
  PROVE  Simulates(p)
  <1>1. JobStep(p)
    BY EndStep DEF Add
  <1>2. CASE UNCHANGED expenses
    BY <1>1, <1>2, TablesStay DEF Add, database
  <1>3. CASE \E category \in CategoryName, name \in Text, price \in Price,
               names \in {{}} \cup {NamesIn(l) : l \in UserTagLists} :
               /\ HasName(categories, category)
               /\ KnownTags(names)
               /\ \E id \in NextRowId(expenses) :
                    expenses' = WithRow(expenses, id,
                      [name |-> name,
                       category_id |-> IdOf(categories, category),
                       price |-> price, tags |-> names,
                       account_id |-> IdOf(accounts, account[p])])
    <2>1. PICK category \in CategoryName, name \in Text, price \in Price,
               names \in {{}} \cup {NamesIn(l) : l \in UserTagLists} :
               /\ HasName(categories, category)
               /\ KnownTags(names)
               /\ \E id \in NextRowId(expenses) :
                    expenses' = WithRow(expenses, id,
                      [name |-> name,
                       category_id |-> IdOf(categories, category),
                       price |-> price, tags |-> names,
                       account_id |-> IdOf(accounts, account[p])])
      BY <1>3
    <2> DEFINE row == [name |-> name,
                       category_id |-> IdOf(categories, category),
                       price |-> price, tags |-> names,
                       account_id |-> IdOf(accounts, account[p])]
    <2>2. IdOf(categories, category) \in DOMAIN categories
      BY <2>1, IdOfType
    <2>3. IdOf(accounts, account[p]) \in DOMAIN accounts
      BY IdOfType DEF DataInv, TypeInv, AccountsKnown
    <2>4. names \subseteq {tags[i] : i \in DOMAIN tags}
      BY <2>1, KnownTagsNames
    <2>5. row \in L!GoodRow
      BY <2>2, <2>3, <2>4 DEF L!GoodRow
    <2>6. \E id \in L!NextRowId(expenses) :
            expenses' = L!WithRow(expenses, id, row)
      BY <2>1, TablesAgree
    <2>7. L!Record
      BY <2>5, <2>6 DEF L!Record, Add
    <2> QED BY <1>1, <2>7 DEF Simulates, L!Next
  <1> QED BY <1>2, <1>3 DEF Add

LEMMA InsertAccountSimulates ==
  ASSUME DataInv, NEW p \in Proc, InsertAccount(p)
  PROVE  Simulates(p)
  <1>1. JobStep(p)
    BY EndStep DEF InsertAccount
  <1>2. CASE UNCHANGED accounts
    BY <1>1, <1>2, TablesStay DEF InsertAccount, database
  <1>3. CASE /\ ~HasName(accounts, job[p].name)
             /\ \E id \in NextRowId(accounts) :
                  accounts' = WithRow(accounts, id, job[p].name)
    <2>1. job[p].name \in AccountName
      BY DEF DataInv, TypeInv, TypeOK, ControlOK, JobOK, InsertAccount
    <2>2. L!Enter(accounts, accounts', AccountName)
      BY <1>3, <2>1, TablesAgree DEF L!Enter
    <2>3. L!OpenAccount
      BY <2>2 DEF L!OpenAccount, InsertAccount
    <2> QED BY <1>1, <2>3 DEF Simulates, L!Next
  <1> QED BY <1>2, <1>3 DEF InsertAccount

LEMMA InsertTagSimulates ==
  ASSUME DataInv, NEW p \in Proc, InsertTag(p)
  PROVE  Simulates(p)
  <1> DEFINE name == job[p].list[job[p].next]
  <1>0. /\ job[p].list \in Seq(TagName)
        /\ job[p].next \in 1..Len(job[p].list)
    BY DEF DataInv, TypeInv, TypeOK, ControlOK, JobOK, InsertTag
  <1>1. JobStep(p)
    <2> DEFINE j == [job[p] EXCEPT !.next = @ + 1]
    <2>1. j.op = "addTags"
      BY DEF InsertTag, DataInv, TypeInv, TypeOK, ControlOK, JobOK
    <2>2. CASE StatementFails(p) \/ Return(p, "Success")
      BY <2>2, EndStep
    <2>3. CASE Continue(p, j)
      BY <2>1, <2>3, EndStep
    <2> QED BY <2>2, <2>3 DEF InsertTag, NextTag, TagRefused
  <1>2. CASE UNCHANGED tags
    BY <1>1, <1>2, TablesStay DEF InsertTag, database
  <1>3. CASE /\ ~HasName(tags, name)
             /\ \E id \in NextRowId(tags) : tags' = WithRow(tags, id, name)
    <2>1. name \in TagName
      BY <1>0
    <2>2. L!Enter(tags, tags', TagName)
      BY <1>3, <2>1, TablesAgree DEF L!Enter
    <2>3. L!CoinTag
      BY <2>2 DEF L!CoinTag, InsertTag
    <2> QED BY <1>1, <2>3 DEF Simulates, L!Next
  <1> QED BY <1>2, <1>3 DEF InsertTag

LEMMA UpdateSimulates ==
  ASSUME DataInv, NEW p \in Proc, Update(p)
  PROVE  Simulates(p)
  <1>1. \A i \in DOMAIN expenses : Resolves(expenses[i])
    BY GoodRows DEF DataInv
  <1>2. JobStep(p)
    BY <1>1, EndStep DEF Update
  <1> QED BY <1>2, TablesStay DEF Update

LEMMA ValidateUpdateSimulates ==
  ASSUME DataInv, NEW p \in Proc, ValidateUpdate(p)
  PROVE  Simulates(p)
  <1> DEFINE j == job[p]
             status == Validate(j.attr, j.value)
  <1>1. CASE Return(p, status)
    BY <1>1, EndStep, TablesStay DEF ValidateUpdate
  <1>2. CASE status = "Success" /\ Continue(p, HandleForeignKeyUpdate(j))
    <2>1. HandleForeignKeyUpdate(j).op = "write"
      BY DEF HandleForeignKeyUpdate
    <2>2. Harmless(p, HandleForeignKeyUpdate(j))
      BY <1>2, <2>1 DEF Harmless, ValidateUpdate
    <2>3. JobStep(p)
      BY <1>2, <2>2 DEF Continue, JobStep
    <2> QED BY <2>3, TablesStay DEF ValidateUpdate
  <1> QED BY <1>1, <1>2 DEF ValidateUpdate

LEMMA RemoveSimulates ==
  ASSUME DataInv, NEW p \in Proc, Remove(p)
  PROVE  Simulates(p)
  <1>1. \A ids : \A i \in DOMAIN RowsShown(p, ids) :
          Resolves(RowsShown(p, ids)[i]) /\ Readable(RowsShown(p, ids)[i])
    BY GoodRows DEF DataInv, RowsShown, RowsById
  <1>2. JobStep(p)
    BY <1>1, EndStep DEF Remove
  <1> QED BY <1>2, TablesStay DEF Remove

LEMMA ConfirmRemoveSimulates ==
  ASSUME DataInv, NEW p \in Proc, ConfirmRemove(p)
  PROVE  Simulates(p)
  <1>1. JobStep(p)
    <2>1. CASE \E status : Return(p, status) \/ ReturnDeaf(p, status)
      BY <2>1, EndStep
    <2>2. CASE StatementFails(p)
      BY <2>2, EndStep
    <2> QED BY <2>1, <2>2, Zenon DEF ConfirmRemove
  <1>2. CASE UNCHANGED expenses
    BY <1>1, <1>2, TablesStay DEF ConfirmRemove, database
  <1>3. CASE expenses' = WithoutRows(expenses, job[p].ids)
    <2> DEFINE ids == DOMAIN expenses \cap job[p].ids
    <2>1. WithoutRows(expenses, job[p].ids) = WithoutRows(expenses, ids)
      BY DEF WithoutRows
    <2>2. expenses' = L!WithoutRows(expenses, ids)
      BY <1>3, <2>1, TablesAgree
    <2>3. L!TakeOut
      BY <2>2 DEF L!TakeOut, ConfirmRemove
    <2> QED BY <1>1, <2>3 DEF Simulates, L!Next
  <1> QED BY <1>2, <1>3, Zenon DEF ConfirmRemove

LEMMA ReadStepSimulates ==
  ASSUME DataInv, NEW p \in Proc, ReadStep(p)
  PROVE  Simulates(p)
  <1>1. \A i \in DOMAIN expenses :
          Resolves(expenses[i]) /\ Readable(expenses[i])
    BY GoodRows DEF DataInv
  <1>2. JobStep(p)
    <2>1. CASE AnswerNumber(p) \/ AnswerNoNumber(p) \/ GitPush(p)
      BY <2>1, EndStep DEF AnswerNumber, AnswerNoNumber, GitPush
    <2>2. CASE List(p)
      BY <1>1, <2>2, EndStep DEF List, SelectDies, PriceThrows
    <2>3. CASE ListNames(p)
      BY <2>3, EndStep DEF ListNames
    <2>4. CASE Report(p)
      BY <1>1, <2>4, EndStep DEF Report, SelectDies, PriceThrows
    <2>5. CASE CompareMonths(p)
      BY <2>4, <2>5, EndStep DEF CompareMonths
    <2>6. CASE AddCategory(p) \/ RemoveAccount(p)
      BY <2>6, EndStep DEF AddCategory, RemoveAccount
    <2>7. CASE Quit(p) \/ CloseInput(p) \/ Kill(p)
      BY <2>7, EndStep DEF Quit, CloseInput, Kill
    <2> QED BY <2>1, <2>2, <2>3, <2>4, <2>5, <2>6, <2>7 DEF ReadStep
  <1> QED BY <1>2, ReadStepShape, TablesStay

LEMMA OtherSimulates ==
  ASSUME DataInv, NEW p \in Proc,
         AddAccount(p) \/ AddTags(p) \/ SwitchAccount(p) \/ Start(p)
  PROVE  Simulates(p)
  <1>1. CASE AddAccount(p)
    BY <1>1, EndStep, TablesStay DEF AddAccount
  <1>2. CASE AddTags(p)
    BY <1>2, EndStep, TablesStay DEF AddTags
  <1>3. CASE SwitchAccount(p)
    BY <1>3, EndStep, TablesStay DEF SwitchAccount
  <1>4. CASE Start(p)
    BY <1>4, EndStep, TablesStay DEF Start
  <1> QED BY <1>1, <1>2, <1>3, <1>4

\* A good row stays one when one of its columns gets a value that is good
\* for it.
WithColumn(row, col, value) == [row EXCEPT ![col] = value]

LEMMA RowSetGood ==
  ASSUME NEW row \in L!GoodRow, NEW col \in L!OtherColumn, NEW value,
         FitsColumn(col, value),
         col = "category_id" => value \in DOMAIN categories,
         col = "tags" => KnownTags(value),
         col = "price" => value \in Price
  PROVE  /\ WithColumn(row, col, value) \in L!GoodRow
         /\ \A d \in L!OtherColumn \ {col} :
              WithColumn(row, col, value)[d] = row[d]
         /\ WithColumn(row, col, value).account_id = row.account_id
  <1> USE DEF L!OtherColumn, WithColumn
  <1>1. CASE col = "name"
    BY <1>1 DEF FitsColumn, L!GoodRow
  <1>2. CASE col = "category_id"
    BY <1>2 DEF FitsColumn, L!GoodRow
  <1>3. CASE col = "price"
    BY <1>3 DEF FitsColumn, L!GoodRow
  <1>4. CASE col = "tags"
    <2>1. value \subseteq {tags[i] : i \in DOMAIN tags}
      BY <1>4, KnownTagsNames
    <2> QED BY <1>4, <2>1 DEF L!GoodRow
  <1> QED BY <1>1, <1>2, <1>3, <1>4

LEMMA SetColumnSimulates ==
  ASSUME DataInv, NEW p \in Proc, job[p].op = "write",
         SomethingToSet(job[p]), SetColumn(p),
         UNCHANGED <<categories, accounts, tags>>
  PROVE  [L!Next]_L!ledger
  <1> DEFINE j == job[p]
  <1>0. /\ j.id \in RowId /\ j.col \in Column /\ FitsColumn(j.col, j.value)
        /\ WriteGood(j) /\ j.col # "account_id" /\ j.col # "account"
    BY DEF DataInv, TypeInv, TypeOK, ControlOK, JobOK, WriteGood,
           SomethingToSet
  <1>1. CASE UNCHANGED expenses
    BY <1>1 DEF L!ledger
  <1>2. CASE /\ j.id \in DOMAIN expenses /\ j.col # "row_id"
             /\ expenses' = WithRow(expenses, j.id, RowSet(j))
    <2>1. j.col \in L!OtherColumn
      BY <1>0, <1>2 DEF Column, L!OtherColumn
    <2>2. expenses[j.id] \in L!GoodRow
      BY <1>2, GoodRows DEF DataInv
    <2>3. /\ RowSet(j) \in L!GoodRow
          /\ \A d \in L!OtherColumn \ {j.col} :
               RowSet(j)[d] = expenses[j.id][d]
          /\ RowSet(j).account_id = expenses[j.id].account_id
      <3>1. /\ j.col = "category_id" => j.value \in DOMAIN categories
            /\ j.col = "tags" => KnownTags(j.value)
            /\ j.col = "price" => j.value \in Price
        BY <1>0 DEF WriteGood
      <3>2. RowSet(j) = WithColumn(expenses[j.id], j.col, j.value)
        BY DEF RowSet, WithColumn
      <3>3. FitsColumn(j.col, j.value)
        BY <1>0
      <3> HIDE DEF j
      <3> QED BY <2>1, <2>2, <3>1, <3>2, <3>3, RowSetGood
    <2>4. expenses' = L!WithRow(expenses, j.id, RowSet(j))
      BY <1>2, TablesAgree
    <2>5. L!Correct
      BY <1>2, <2>1, <2>3, <2>4 DEF L!Correct
    <2> QED BY <2>5 DEF L!Next
  <1>3. CASE /\ j.id \in DOMAIN expenses /\ j.col = "row_id"
             /\ j.value \notin DOMAIN expenses \ {j.id}
             /\ expenses' = WithRow(WithoutRows(expenses, {j.id}), j.value,
                                    expenses[j.id])
    <2>1. CASE j.value = j.id
      <3>1. /\ DOMAIN expenses' = DOMAIN expenses
            /\ \A i \in DOMAIN expenses : expenses'[i] = expenses[i]
        BY <1>3, <2>1 DEF WithRow, WithoutRows
      <3>2. /\ expenses = [i \in DOMAIN expenses |-> expenses[i]]
            /\ expenses' = [i \in DOMAIN expenses' |-> expenses'[i]]
        <4>1. expenses = [i \in DOMAIN expenses |-> expenses[i]]
          BY DEF DataInv, TypeInv, TypeOK, TablesOK, IsTable
        <4>2. expenses' = [i \in DOMAIN expenses' |-> expenses'[i]]
          BY <1>3 DEF WithRow
        <4> QED BY <4>1, <4>2
      <3>3. UNCHANGED expenses
        BY <3>1, <3>2
      <3> QED BY <1>1, <3>3
    <2>2. CASE j.value # j.id
      <3>1. j.value \in RowId
        BY <1>0, <1>3 DEF FitsColumn
      <3>2. j.value \in DOMAIN expenses'
        BY <1>3 DEF WithRow
      <3>3. expenses' = L!WithRow(L!WithoutRows(expenses, {j.id}), j.value,
                                  expenses[j.id])
        BY <1>3, TablesAgree
      <3>4. j.value \in (DOMAIN expenses' \ DOMAIN expenses) \cap L!RowId
        BY <1>3, <2>2, <3>1, <3>2, TablesAgree
      <3>5. L!Renumber
        BY <1>3, <3>3, <3>4 DEF L!Renumber
      <3> QED BY <3>5 DEF L!Next
    <2> QED BY <2>1, <2>2
  <1> QED BY <1>1, <1>2, <1>3 DEF SetColumn

LEMMA WriteUpdateSimulates ==
  ASSUME DataInv, NEW p \in Proc, WriteUpdate(p)
  PROVE  Simulates(p)
  <1>1. CASE SomethingToSet(job[p]) /\ SetColumn(p)
    <2>1. JobStep(p)
      BY <1>1, EndStep DEF SetColumn
    <2>2. [L!Next]_L!ledger
      BY <1>1, SetColumnSimulates DEF WriteUpdate
    <2> QED BY <2>1, <2>2 DEF Simulates
  <1>2. CASE StatementFails(p) /\ UNCHANGED expenses
    BY <1>2, EndStep, TablesStay DEF WriteUpdate, database
  <1> QED BY <1>1, <1>2 DEF WriteUpdate
-----------------------------------------------------------------------------
(***************************************************************************)
(* The invariant, and what follows from it.                                *)
(***************************************************************************)
LEMMA InitData == Init => DataInv /\ L!Init
  <1> SUFFICES ASSUME Init PROVE DataInv /\ L!Init
    OBVIOUS
  <1>1. L!Init
    BY DEF Init, L!Init, EmptyTable, L!EmptyTable
  <1>2. L!LedgerConstants
    BY SessionsAssumption, TablesAgree DEF SessionsAssumption, L!LedgerConstants
  <1>3. L!LedgerInv
    BY <1>1, <1>2, L!LedgerInit
  <1>4. \A p \in Proc : job[p] = Off("quit")
    BY DEF Init
  <1>5. DataStopsNoSession /\ \A p \in Proc : WriteGood(job[p])
    BY <1>4 DEF Off, DataStopsNoSession, WriteGood
  <1> QED BY <1>1, <1>3, <1>5, InitType DEF DataInv

LEMMA NextData ==
  ASSUME CleanInput, DataInv, [Next]_vars
  PROVE  DataInv' /\ [L!Next]_L!ledger
  <1>0. TypeInv'
    BY NextType DEF DataInv
  <1>1. CASE UNCHANGED vars
    <2>1. /\ [L!Next]_L!ledger
          /\ L!LedgerInv'
      BY <1>1, L!LedgerNext DEF vars, L!ledger, DataInv
    <2>2. /\ DataStopsNoSession'
          /\ \A p \in Proc : WriteGood(job[p])'
      BY <1>1 DEF vars, DataInv, DataStopsNoSession, WriteGood, KnownTags,
                  HasName
    <2> QED BY <1>0, <2>1, <2>2 DEF DataInv
  <1>2. CASE Next
    <2>1. PICK p \in Proc :
            \/ Add(p) \/ AddAccount(p) \/ InsertAccount(p) \/ AddTags(p)
            \/ InsertTag(p) \/ Update(p) \/ ValidateUpdate(p)
            \/ WriteUpdate(p) \/ Remove(p) \/ ConfirmRemove(p)
            \/ SwitchAccount(p) \/ Start(p) \/ ReadStep(p)
      BY <1>2, NextCases
    <2>2. Simulates(p)
      BY <2>1, AddSimulates, InsertAccountSimulates, InsertTagSimulates,
         UpdateSimulates, ValidateUpdateSimulates, WriteUpdateSimulates,
         RemoveSimulates, ConfirmRemoveSimulates, OtherSimulates,
         ReadStepSimulates
    <2> QED BY <1>0, <2>2, StepKeepsData DEF Simulates
  <1> QED BY <1>1, <1>2

\* The two instances of Ledger speak of the same.
LEMMA LedgersAgree ==
  /\ L!Init => LedgerOfSessions!Init
  /\ [L!Next]_L!ledger =>
       [LedgerOfSessions!Next]_LedgerOfSessions!ledger
  <1>1. L!Init => LedgerOfSessions!Init
    BY DEF L!Init, LedgerOfSessions!Init, L!EmptyTable,
           LedgerOfSessions!EmptyTable
  <1>2. /\ \A t, n : L!HasName(t, n) <=> LedgerOfSessions!HasName(t, n)
        /\ \A t : L!NextRowId(t) = LedgerOfSessions!NextRowId(t)
        /\ \A t, id, row : L!WithRow(t, id, row) =
                           LedgerOfSessions!WithRow(t, id, row)
        /\ \A t, ids : L!WithoutRows(t, ids) =
                       LedgerOfSessions!WithoutRows(t, ids)
        /\ L!RowId = LedgerOfSessions!RowId
        /\ L!GoodRow = LedgerOfSessions!GoodRow
        /\ L!OtherColumn = LedgerOfSessions!OtherColumn
        /\ UNCHANGED L!ledger => UNCHANGED LedgerOfSessions!ledger
    BY DEF L!HasName, LedgerOfSessions!HasName, L!NextRowId,
           LedgerOfSessions!NextRowId, L!WithRow, LedgerOfSessions!WithRow,
           L!WithoutRows, LedgerOfSessions!WithoutRows,
           L!RowId, LedgerOfSessions!RowId, L!GoodRow,
           LedgerOfSessions!GoodRow, L!OtherColumn,
           LedgerOfSessions!OtherColumn, L!ledger, LedgerOfSessions!ledger
  <1>3. \A t, next, Names :
          L!Enter(t, next, Names) => LedgerOfSessions!Enter(t, next, Names)
    BY <1>2 DEF L!Enter, LedgerOfSessions!Enter
  <1>4. L!OpenAccount \/ L!CoinTag => LedgerOfSessions!Next
    BY <1>3 DEF L!OpenAccount, LedgerOfSessions!OpenAccount, L!CoinTag,
                LedgerOfSessions!CoinTag, LedgerOfSessions!Next
  <1>5. L!Record => LedgerOfSessions!Record
    BY <1>2 DEF L!Record, LedgerOfSessions!Record
  <1>6. L!Correct => LedgerOfSessions!Correct
    BY <1>2 DEF L!Correct, LedgerOfSessions!Correct
  <1>7. L!Renumber => LedgerOfSessions!Renumber
    BY <1>2 DEF L!Renumber, LedgerOfSessions!Renumber
  <1>8. L!TakeOut => LedgerOfSessions!TakeOut
    BY <1>2 DEF L!TakeOut, LedgerOfSessions!TakeOut
  <1> QED BY <1>1, <1>2, <1>4, <1>5, <1>6, <1>7, <1>8
          DEF L!Next, LedgerOfSessions!Next

LEMMA DataInvariant == ASSUME CleanInput PROVE Spec => []DataInv
  <1>1. DataInv /\ [Next]_vars => DataInv'
    BY NextData
  <1> QED BY <1>1, InitData, PTL DEF Spec

\* With clean input, whatever the sessions do is something that Ledger allows.
THEOREM SessionsImplementLedger ==
  ASSUME CleanInput PROVE Spec => ImplementsLedger
  <1>1. Init => LedgerOfSessions!Init
    BY InitData, LedgersAgree
  <1>2. DataInv /\ [Next]_vars =>
          [LedgerOfSessions!Next]_LedgerOfSessions!ledger
    BY NextData, LedgersAgree
  <1> QED BY <1>1, <1>2, DataInvariant, PTL
          DEF Spec, ImplementsLedger, LedgerOfSessions!LedgerSpec

\* Then every expense refers to a category, an account and tags that are in
\* their tables: what add and update have checked still holds when they write.
THEOREM ReferencesAlwaysResolve ==
  ASSUME CleanInput PROVE Spec => []ReferencesResolve
  <1>1. DataInv => ReferencesResolve
    BY GoodRows DEF DataInv, ReferencesResolve
  <1> QED BY <1>1, DataInvariant, PTL

\* Every price in the table can be read back as a double.
THEOREM PricesAlwaysReadable ==
  ASSUME CleanInput PROVE Spec => []PricesReadable
  <1>1. DataInv => PricesReadable
    BY GoodRows DEF DataInv, PricesReadable
  <1> QED BY <1>1, DataInvariant, PTL

\* And no session ever stops because of a row it reads.
THEOREM NoSessionStoppedByData ==
  ASSUME CleanInput PROVE Spec => []DataStopsNoSession
  <1>1. DataInv => DataStopsNoSession
    BY DEF DataInv
  <1> QED BY <1>1, DataInvariant, PTL
-----------------------------------------------------------------------------
(***************************************************************************)
(* Names need no clean input.                                              *)
(***************************************************************************)
NamesInv == TypeInv /\ NamesStoredOnce

LEMMA NextNames ==
  ASSUME NamesInv, [Next]_vars
  PROVE  NamesInv'
  <1> USE DEF NamesInv, NamesStoredOnce
  <1>0. TypeInv'
    BY NextType
  <1>1. CASE UNCHANGED <<accounts, tags>>
    BY <1>0, <1>1
  <1>2. ASSUME NEW p \in Proc, InsertAccount(p)
        PROVE  NamesInv'
    <2>1. CASE UNCHANGED accounts
      BY <1>0, <1>2, <2>1 DEF InsertAccount
    <2>2. CASE /\ ~HasName(accounts, job[p].name)
               /\ \E id \in NextRowId(accounts) :
                    accounts' = WithRow(accounts, id, job[p].name)
      BY <1>0, <1>2, <2>2, NamesDifferWithRow
         DEF InsertAccount, TypeInv, TypeOK, TablesOK
    <2> QED BY <1>2, <2>1, <2>2 DEF InsertAccount
  <1>3. ASSUME NEW p \in Proc, InsertTag(p)
        PROVE  NamesInv'
    <2> DEFINE name == job[p].list[job[p].next]
    <2>1. CASE UNCHANGED tags
      BY <1>0, <1>3, <2>1 DEF InsertTag
    <2>2. CASE /\ ~HasName(tags, name)
               /\ \E id \in NextRowId(tags) : tags' = WithRow(tags, id, name)
      BY <1>0, <1>3, <2>2, NamesDifferWithRow
         DEF InsertTag, TypeInv, TypeOK, TablesOK
    <2> QED BY <1>3, <2>1, <2>2 DEF InsertTag
  <1>4. CASE Next
    <2>1. PICK p \in Proc :
            \/ Add(p) \/ AddAccount(p) \/ InsertAccount(p) \/ AddTags(p)
            \/ InsertTag(p) \/ Update(p) \/ ValidateUpdate(p)
            \/ WriteUpdate(p) \/ Remove(p) \/ ConfirmRemove(p)
            \/ SwitchAccount(p) \/ Start(p) \/ ReadStep(p)
      BY <1>4, NextCases
    <2>2. InsertAccount(p) \/ InsertTag(p) \/ UNCHANGED <<accounts, tags>>
      BY <2>1, ReadStepShape
         DEF Add, AddAccount, AddTags, Update, ValidateUpdate, WriteUpdate,
             Remove, ConfirmRemove, SwitchAccount, Start, database
    <2> QED BY <1>1, <1>2, <1>3, <2>2
  <1> QED BY <1>1, <1>4 DEF vars

\* No account name and no tag is ever stored twice, though addAccount looks a
\* name up in one statement and inserts it in another.
THEOREM NamesAlwaysDiffer == Spec => []NamesStoredOnce
  <1>1. Init => NamesInv
    BY InitType DEF Init, NamesInv, NamesStoredOnce, NamesDiffer, EmptyTable
  <1>2. NamesInv /\ [Next]_vars => NamesInv'
    BY NextNames
  <1>3. NamesInv => NamesStoredOnce
    BY DEF NamesInv
  <1> QED BY <1>1, <1>2, <1>3, PTL DEF Spec
=============================================================================
