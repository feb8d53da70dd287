--------------------------- MODULE SessionsProofs ---------------------------
(***************************************************************************)
(* Theorems about the console sessions, for any number of sessions, any    *)
(* names, prices and row ids, whether or not assert() is compiled in.      *)
(***************************************************************************)
EXTENDS Sessions, TablesProofs

\* The current account of every session is in the accounts table, so that
\* Manager::GetCurrentAccountId finds it.
AccountsKnown == \A p \in Proc : HasName(accounts, account[p])

\* TypeOK is not inductive: what add stores as account_id is a row id because
\* the session's account is in the table.
TypeInv == TypeOK /\ AccountsKnown
-----------------------------------------------------------------------------
(***************************************************************************)
(* How a step ends: each way to end it keeps ControlOK.                    *)
(***************************************************************************)
LEMMA ControlStep ==
  ASSUME ControlOK, NEW p \in Proc, NEW next, JobOK(next),
         NEW status \in Status,
         job' = [job EXCEPT ![p] = next],
         result' = [result EXCEPT ![p] = status]
  PROVE  ControlOK'
  BY DEF ControlOK

LEMMA SimpleJobs ==
  /\ JobOK(Idle) /\ JobOK(Deaf)
  /\ \A cause \in Cause : JobOK(Off(cause))
  BY DEF JobOK, Idle, Deaf, Off

LEMMA ReturnControl ==
  ASSUME ControlOK, NEW p \in Proc, NEW status \in Status, Return(p, status)
  PROVE  ControlOK'
  BY ControlStep, SimpleJobs DEF Return

LEMMA ReturnDeafControl ==
  ASSUME ControlOK, NEW p \in Proc, NEW status \in Status,
         ReturnDeaf(p, status)
  PROVE  ControlOK'
  BY ControlStep, SimpleJobs DEF ReturnDeaf

LEMMA ContinueControl ==
  ASSUME ControlOK, NEW p \in Proc, NEW next, JobOK(next), Continue(p, next)
  PROVE  ControlOK'
  <1>1. "Running" \in Status
    BY DEF Status
  <1> QED BY <1>1, ControlStep DEF Continue

LEMMA StopControl ==
  ASSUME ControlOK, NEW p \in Proc, NEW cause \in Cause, Stop(p, cause)
  PROVE  ControlOK'
  <1>1. "None" \in Status
    BY DEF Status
  <1> QED BY <1>1, ControlStep, SimpleJobs DEF Stop

LEMMA StatementFailsControl ==
  ASSUME ControlOK, NEW p \in Proc, StatementFails(p)
  PROVE  ControlOK'
  <1>1. "DBError" \in Status /\ "assertion" \in Cause
    BY DEF Status, Cause
  <1>2. CASE Return(p, "DBError")
    BY <1>1, <1>2, ReturnControl
  <1>3. CASE Stop(p, "assertion")
    BY <1>1, <1>3, StopControl
  <1> QED BY <1>2, <1>3 DEF StatementFails

\* A step that leaves the tables and the accounts as they are has only its
\* control state to keep.
LEMMA DatabaseUnchanged ==
  ASSUME TypeInv, UNCHANGED <<database, account>>, ControlOK'
  PROVE  TypeInv'
  BY DEF TypeInv, TypeOK, TablesOK, AccountsKnown, database

\* So has a step that changes the expenses to a table of rows.
LEMMA ExpensesChanged ==
  ASSUME TypeInv, UNCHANGED <<categories, accounts, tags, account>>,
         IsTable(expenses', Row), ControlOK'
  PROVE  TypeInv'
  BY DEF TypeInv, TypeOK, TablesOK, AccountsKnown
-----------------------------------------------------------------------------
(***************************************************************************)
(* One lemma per action.                                                   *)
(***************************************************************************)
LEMMA NamesInType ==
  \A l \in UserTagLists : NamesIn(l) \subseteq TagName
  BY SessionsAssumption DEF SessionsAssumption, NamesIn

LEMMA AddType ==
  ASSUME TypeInv, NEW p \in Proc, Add(p)
  PROVE  TypeInv'
  <1> USE DEF Status, Cause
  <1>0. ControlOK /\ IsTable(expenses, Row)
    BY DEF TypeInv, TypeOK, TablesOK
  <1>1. PICK category \in CategoryName, name \in Text, price \in UserPrices,
             names \in {{}} \cup {NamesIn(l) : l \in UserTagLists} :
       \/ /\ ~HasName(categories, category)
          /\ Return(p, "CategoryDoesNotExist") /\ UNCHANGED expenses
       \/ /\ HasName(categories, category) /\ price \notin Price
          /\ Stop(p, "badNumber") /\ UNCHANGED expenses
       \/ /\ HasName(categories, category) /\ price \in Price
          /\ ~KnownTags(names)
          /\ Return(p, "DBError") /\ UNCHANGED expenses
       \/ /\ HasName(categories, category) /\ price \in Price
          /\ KnownTags(names)
          /\ \E id \in NextRowId(expenses) :
               /\ id <= MaxRow
               /\ expenses' = WithRow(expenses, id,
                    [name |-> name,
                     category_id |-> IdOf(categories, category),
                     price |-> price, tags |-> names,
                     account_id |-> IdOf(accounts, account[p])])
          /\ Return(p, "Success")
       \/ /\ WritesMayFail
          /\ HasName(categories, category) /\ price \in Price
          /\ KnownTags(names)
          /\ StatementFails(p) /\ UNCHANGED expenses
    BY DEF Add
  <1>2. ControlOK'
    BY <1>0, <1>1, ReturnControl, StopControl, StatementFailsControl
  <1>3. IsTable(expenses', Row)
    <2>1. CASE UNCHANGED expenses
      BY <1>0, <2>1
    <2>2. CASE /\ HasName(categories, category) /\ price \in Price
               /\ \E id \in NextRowId(expenses) :
                    expenses' = WithRow(expenses, id,
                      [name |-> name,
                       category_id |-> IdOf(categories, category),
                       price |-> price, tags |-> names,
                       account_id |-> IdOf(accounts, account[p])])
      <3>1. IdOf(categories, category) \in RowId
        BY <2>2, IdOfType DEF TypeInv, TypeOK, TablesOK, IsTable
      <3>2. IdOf(accounts, account[p]) \in RowId
        BY IdOfType DEF TypeInv, TypeOK, TablesOK, AccountsKnown, IsTable
      <3>3. names \in SUBSET TagName
        BY NamesInType
      <3>4. [name |-> name, category_id |-> IdOf(categories, category),
             price |-> price, tags |-> names,
             account_id |-> IdOf(accounts, account[p])] \in Row
        BY <2>2, <3>1, <3>2, <3>3 DEF Row
      <3>5. PICK id \in NextRowId(expenses) :
              expenses' = WithRow(expenses, id,
                [name |-> name, category_id |-> IdOf(categories, category),
                 price |-> price, tags |-> names,
                 account_id |-> IdOf(accounts, account[p])])
        BY <2>2
      <3>6. id \in RowId
        BY <1>0, NextRowIdFresh
      <3> QED BY <1>0, <3>4, <3>5, <3>6, WithRowType
    <2> QED BY <1>1, <2>1, <2>2
  <1> QED BY <1>2, <1>3, ExpensesChanged DEF Add

LEMMA AddAccountType ==
  ASSUME TypeInv, NEW p \in Proc, AddAccount(p)
  PROVE  TypeInv'
  <1>1. ControlOK /\ "AccountAlreadySelected" \in Status
    BY DEF TypeInv, TypeOK, Status
  <1>2. \A name \in AccountName : JobOK([op |-> "addAccount", name |-> name])
    BY DEF JobOK
  <1>3. ControlOK'
    BY <1>1, <1>2, ReturnControl, ContinueControl DEF AddAccount
  <1> QED BY <1>3, DatabaseUnchanged DEF AddAccount

LEMMA InsertAccountType ==
  ASSUME TypeInv, NEW p \in Proc, InsertAccount(p)
  PROVE  TypeInv'
  <1>0. ControlOK /\ "Success" \in Status /\ IsTable(accounts, AccountName)
    BY DEF TypeInv, TypeOK, TablesOK, Status
  <1>1. ControlOK'
    BY <1>0, ReturnControl, StatementFailsControl DEF InsertAccount
  <1>2. CASE UNCHANGED accounts
    BY <1>1, <1>2, DatabaseUnchanged DEF InsertAccount, database
  <1>3. CASE \E id \in NextRowId(accounts) :
               accounts' = WithRow(accounts, id, job[p].name)
    <2>1. job[p].name \in AccountName
      BY <1>0 DEF InsertAccount, ControlOK, JobOK
    <2>2. PICK id \in NextRowId(accounts) :
            accounts' = WithRow(accounts, id, job[p].name)
      BY <1>3
    <2>3. id \in RowId /\ id \notin DOMAIN accounts
      BY <1>0, NextRowIdFresh
    <2>4. IsTable(accounts', AccountName)
      BY <1>0, <2>1, <2>2, <2>3, WithRowType
    <2>5. AccountsKnown'
      BY <2>2, <2>3, HasNameWithRow
         DEF TypeInv, AccountsKnown, InsertAccount
    <2> QED BY <1>1, <2>4, <2>5 DEF TypeInv, TypeOK, TablesOK, InsertAccount
  <1> QED BY <1>2, <1>3 DEF InsertAccount

LEMMA AddTagsType ==
  ASSUME TypeInv, NEW p \in Proc, AddTags(p)
  PROVE  TypeInv'
  <1>1. PICK list \in UserTagLists :
          Continue(p, [op |-> "addTags", list |-> list, next |-> 1])
    BY DEF AddTags
  <1>2. list \in Seq(TagName) /\ list # <<>>
    BY SessionsAssumption DEF SessionsAssumption
  <1>3. 1 \in 1..Len(list)
    BY <1>2
  <1>4. JobOK([op |-> "addTags", list |-> list, next |-> 1])
    BY <1>2, <1>3 DEF JobOK
  <1>5. ControlOK'
    BY <1>1, <1>4, ContinueControl DEF TypeInv, TypeOK
  <1> QED BY <1>5, DatabaseUnchanged DEF AddTags

LEMMA NextTagControl ==
  ASSUME ControlOK, NEW p \in Proc, job[p].op = "addTags", NextTag(p)
  PROVE  ControlOK'
  <1>0. "Success" \in Status
    BY DEF Status
  <1>1. CASE Return(p, "Success")
    BY <1>0, <1>1, ReturnControl
  <1>2. CASE /\ job[p].next < Len(job[p].list)
             /\ Continue(p, [job[p] EXCEPT !.next = @ + 1])
    <2> DEFINE j == [job[p] EXCEPT !.next = @ + 1]
    <2>1. /\ job[p].list \in Seq(TagName)
          /\ job[p].next \in 1..Len(job[p].list)
      BY DEF ControlOK, JobOK
    <2>2. j.op = "addTags" /\ j.list = job[p].list
      BY DEF ControlOK, JobOK
    <2>3. j.next = job[p].next + 1
      BY <2>1
    <2>4. j.next \in 1..Len(j.list)
      BY <1>2, <2>1, <2>2, <2>3
    <2>5. JobOK(j)
      BY <2>1, <2>2, <2>4 DEF JobOK
    <2> QED BY <1>2, <2>5, ContinueControl
  <1> QED BY <1>1, <1>2 DEF NextTag

LEMMA InsertTagType ==
  ASSUME TypeInv, NEW p \in Proc, InsertTag(p)
  PROVE  TypeInv'
  <1> DEFINE name == job[p].list[job[p].next]
  <1>0. ControlOK /\ IsTable(tags, TagName)
    BY DEF TypeInv, TypeOK, TablesOK
  <1>1. CASE StatementFails(p) /\ UNCHANGED tags
    <2>1. ControlOK'
      BY <1>0, <1>1, StatementFailsControl
    <2> QED BY <1>1, <2>1, DatabaseUnchanged DEF InsertTag, database
  <1>2. CASE /\ \E id \in NextRowId(tags) : tags' = WithRow(tags, id, name)
             /\ NextTag(p)
    <2>1. ControlOK'
      BY <1>0, <1>2, NextTagControl DEF InsertTag
    <2>2. name \in TagName
      BY <1>0 DEF InsertTag, ControlOK, JobOK
    <2>3. PICK id \in NextRowId(tags) : tags' = WithRow(tags, id, name)
      BY <1>2
    <2>4. id \in RowId
      BY <1>0, NextRowIdFresh
    <2>5. IsTable(tags', TagName)
      BY <1>0, <2>2, <2>3, <2>4, WithRowType
    <2> QED BY <2>1, <2>5
            DEF TypeInv, TypeOK, TablesOK, AccountsKnown, InsertTag
  <1> QED BY <1>1, <1>2 DEF InsertTag, TagRefused

LEMMA UpdateType ==
  ASSUME TypeInv, NEW p \in Proc, Update(p)
  PROVE  TypeInv'
  <1>0. ControlOK /\ {"missingRow", "danglingKey"} \subseteq Cause
    BY DEF TypeInv, TypeOK, Cause
  <1>1. \A id \in DOMAIN expenses, attr \in UserAttrs :
          \A value \in TypedValues(attr) :
            JobOK([op |-> "update", id |-> id, orig |-> expenses[id],
                   attr |-> attr, value |-> value])
    BY DEF JobOK, TypeInv, TypeOK, TablesOK, IsTable
  <1>2. ControlOK'
    BY <1>0, <1>1, StopControl, ContinueControl DEF Update
  <1> QED BY <1>2, DatabaseUnchanged DEF Update

\* A value that Validate lets through fits the column it is written to.
LEMMA ValidatedFits ==
  ASSUME TypeInv, NEW attr \in UserAttrs, NEW value \in TypedValues(attr),
         Validate(attr, value) = "Success"
  PROVE  /\ attr # "unknown"
         /\ attr = "category" => HasName(categories, value)
         /\ attr = "tags" => KnownTags(value)
         /\ attr # "category" => attr \in Column /\ FitsColumn(attr, value)
  <1>0. attr \in Attribute
    BY SessionsAssumption DEF SessionsAssumption
  <1>1. CASE attr = "unknown"
    BY <1>1 DEF Validate
  <1>2. CASE attr = "category"
    BY <1>2 DEF Validate
  <1>3. CASE attr = "price"
    <2>1. value \in UserPrices /\ value # Word
      BY <1>3 DEF TypedValues, Validate
    <2>2. value \in Price \cup {Dot}
      BY <2>1, SessionsAssumption DEF SessionsAssumption
    <2> QED BY <1>3, <2>2 DEF Column, FitsColumn
  <1>4. CASE attr = "tags"
    <2>1. value \in {NamesIn(l) : l \in UserTagLists} /\ KnownTags(value)
      BY <1>4 DEF TypedValues, Validate
    <2>2. value \subseteq TagName
      BY <2>1, NamesInType
    <2> QED BY <1>4, <2>1, <2>2 DEF Column, FitsColumn
  <1>5. CASE attr = "account"
    BY <1>5 DEF Column, FitsColumn, TypedValues
  <1>6. CASE attr \in {"category_id", "account_id", "row_id"}
    <2>1. value \in RowId
      BY <1>6, SessionsAssumption DEF SessionsAssumption, TypedValues
    <2> QED BY <1>6, <2>1 DEF Column, FitsColumn
  <1>7. CASE attr = "name"
    BY <1>7 DEF Column, FitsColumn, TypedValues
  <1> QED BY <1>0, <1>1, <1>2, <1>3, <1>4, <1>5, <1>6, <1>7 DEF Attribute

LEMMA ValidateUpdateType ==
  ASSUME TypeInv, NEW p \in Proc, ValidateUpdate(p)
  PROVE  TypeInv'
  <1> DEFINE j == job[p]
             status == Validate(j.attr, j.value)
  <1>0. /\ ControlOK /\ IsTable(categories, CategoryName)
        /\ j.id \in RowId /\ j.orig \in Row
        /\ j.attr \in UserAttrs /\ j.value \in TypedValues(j.attr)
    BY DEF TypeInv, TypeOK, TablesOK, ControlOK, JobOK, ValidateUpdate
  <1>1. CASE status # "Success" /\ Return(p, status)
    <2>1. status \in Status
      <3>1. j.attr \in Attribute
        BY <1>0, SessionsAssumption DEF SessionsAssumption
      <3> QED BY <3>1, Zenon DEF Validate, Status
    <2>2. ControlOK'
      BY <1>0, <1>1, <2>1, ReturnControl
    <2> QED BY <2>2, DatabaseUnchanged DEF ValidateUpdate
  <1>2. CASE status = "Success" /\ Continue(p, HandleForeignKeyUpdate(j))
    <2>1. JobOK(HandleForeignKeyUpdate(j))
      <3>1. CASE j.attr = "category"
        <4>1. IdOf(categories, j.value) \in RowId
          BY <1>0, <1>2, <3>1, ValidatedFits, IdOfType DEF IsTable
        <4> QED BY <1>0, <3>1, <4>1
                DEF HandleForeignKeyUpdate, JobOK, Column, FitsColumn
      <3>2. CASE j.attr # "category"
        <4>1. j.attr \in Column /\ FitsColumn(j.attr, j.value)
          BY <1>0, <1>2, <3>2, ValidatedFits
        <4> QED BY <1>0, <3>2, <4>1 DEF HandleForeignKeyUpdate, JobOK
      <3> QED BY <3>1, <3>2
    <2>2. ControlOK'
      BY <1>0, <1>2, <2>1, ContinueControl
    <2> QED BY <2>2, DatabaseUnchanged DEF ValidateUpdate
  <1> QED BY <1>1, <1>2 DEF ValidateUpdate

\* The row that an UPDATE of one column leaves is a row.
LEMMA RowSetType ==
  ASSUME NEW row \in Row, NEW col \in Column \ {"row_id", "account"},
         NEW value, FitsColumn(col, value)
  PROVE  [row EXCEPT ![col] = value] \in Row
  <1>1. CASE col = "name"
    BY <1>1 DEF FitsColumn, Row
  <1>2. CASE col = "category_id"
    BY <1>2 DEF FitsColumn, Row
  <1>3. CASE col = "price"
    BY <1>3 DEF FitsColumn, Row
  <1>4. CASE col = "tags"
    BY <1>4 DEF FitsColumn, Row
  <1>5. CASE col = "account_id"
    BY <1>5 DEF FitsColumn, Row
  <1> QED BY <1>1, <1>2, <1>3, <1>4, <1>5 DEF Column

\* What SetColumn does to the table.
LEMMA SetColumnType ==
  ASSUME TypeInv, NEW p \in Proc, job[p].op = "write",
         SomethingToSet(job[p]), SetColumn(p)
  PROVE  IsTable(expenses', Row) /\ ControlOK'
  <1> DEFINE j == job[p]
  <1>0. /\ ControlOK /\ IsTable(expenses, Row)
        /\ {"DBError", "Success"} \subseteq Status
        /\ j.id \in RowId /\ j.orig \in Row
        /\ j.col \in Column /\ FitsColumn(j.col, j.value)
    BY DEF TypeInv, TypeOK, TablesOK, ControlOK, JobOK, Status
  <1>1. ControlOK'
    BY <1>0, ReturnControl, StatementFailsControl DEF SetColumn
  <1>2. CASE UNCHANGED expenses
    BY <1>0, <1>1, <1>2
  <1>3. CASE /\ j.id \in DOMAIN expenses /\ j.col # "row_id"
             /\ expenses' = WithRow(expenses, j.id, RowSet(j))
    <2>1. expenses[j.id] \in Row
      BY <1>0, <1>3 DEF IsTable
    <2>2. RowSet(j) \in Row
      BY <1>0, <1>3, <2>1, RowSetType DEF SomethingToSet, RowSet
    <2> QED BY <1>0, <1>1, <1>3, <2>2, WithRowType
  <1>4. CASE /\ j.id \in DOMAIN expenses /\ j.col = "row_id"
             /\ expenses' = WithRow(WithoutRows(expenses, {j.id}), j.value,
                                    expenses[j.id])
    <2>1. expenses[j.id] \in Row /\ j.value \in RowId
      BY <1>0, <1>4 DEF IsTable, FitsColumn
    <2>2. IsTable(WithoutRows(expenses, {j.id}), Row)
      BY <1>0, WithoutRowsType
    <2> QED BY <1>1, <1>4, <2>1, <2>2, WithRowType
  <1> QED BY <1>2, <1>3, <1>4 DEF SetColumn

LEMMA WriteUpdateType ==
  ASSUME TypeInv, NEW p \in Proc, WriteUpdate(p)
  PROVE  TypeInv'
  <1>1. CASE SomethingToSet(job[p]) /\ SetColumn(p)
    BY <1>1, SetColumnType, ExpensesChanged DEF WriteUpdate
  <1>2. CASE StatementFails(p) /\ UNCHANGED expenses
    <2>1. ControlOK'
      BY <1>2, StatementFailsControl DEF TypeInv, TypeOK
    <2> QED BY <1>2, <2>1, DatabaseUnchanged DEF WriteUpdate, database
  <1> QED BY <1>1, <1>2 DEF WriteUpdate

LEMMA RemoveType ==
  ASSUME TypeInv, NEW p \in Proc, Remove(p)
  PROVE  TypeInv'
  <1>0. /\ ControlOK /\ IsTable(expenses, Row) /\ "Success" \in Status
        /\ {"danglingKey", "unreadablePrice"} \subseteq Cause
    BY DEF TypeInv, TypeOK, TablesOK, Status, Cause
  <1>1. \A ids \in SUBSET UserIds :
          JobOK([op |-> "remove", ids |-> ids, shown |-> RowsShown(p, ids)])
    BY <1>0, RowsByIdType, SessionsAssumption
       DEF JobOK, RowsShown, SessionsAssumption
  <1>2. ControlOK'
    BY <1>0, <1>1, ReturnControl, StopControl, ContinueControl DEF Remove
  <1> QED BY <1>2, DatabaseUnchanged DEF Remove

LEMMA ConfirmRemoveType ==
  ASSUME TypeInv, NEW p \in Proc, ConfirmRemove(p)
  PROVE  TypeInv'
  <1>0. /\ ControlOK /\ IsTable(expenses, Row)
        /\ {"DBError", "Success"} \subseteq Status
    BY DEF TypeInv, TypeOK, TablesOK, Status
  <1>1. ControlOK'
    <2>1. CASE \E status \in {"DBError", "Success"} :
                 Return(p, status) \/ ReturnDeaf(p, status)
      BY <1>0, <2>1, ReturnControl, ReturnDeafControl
    <2>2. CASE StatementFails(p)
      BY <1>0, <2>2, StatementFailsControl
    <2> QED BY <2>1, <2>2, Zenon DEF ConfirmRemove
  <1>2. IsTable(expenses', Row)
    <2>1. IsTable(WithoutRows(expenses, job[p].ids), Row)
      BY <1>0, WithoutRowsType
    <2> QED BY <1>0, <2>1 DEF ConfirmRemove
  <1> QED BY <1>1, <1>2, ExpensesChanged DEF ConfirmRemove

LEMMA SwitchAccountType ==
  ASSUME TypeInv, NEW p \in Proc, SwitchAccount(p)
  PROVE  TypeInv'
  <1>1. ControlOK'
    <2>1. {"AccountAlreadySelected", "AccountDoesNotExist", "Success"}
            \subseteq Status
      BY DEF Status
    <2> QED BY <2>1, ReturnControl DEF TypeInv, TypeOK, SwitchAccount
  <1>2. account' \in [Proc -> AccountName] /\ AccountsKnown'
    BY DEF TypeInv, TypeOK, AccountsKnown, SwitchAccount, database
  <1> QED BY <1>1, <1>2 DEF TypeInv, TypeOK, TablesOK, SwitchAccount, database

LEMMA StartType ==
  ASSUME TypeInv, NEW p \in Proc, Start(p)
  PROVE  TypeInv'
  <1>1. ControlOK'
    <2>1. "None" \in Status
      BY DEF Status
    <2> QED BY <2>1, ReturnControl DEF TypeInv, TypeOK, Start
  <1>2. account' \in [Proc -> AccountName] /\ AccountsKnown'
    BY SessionsAssumption
       DEF SessionsAssumption, TypeInv, TypeOK, AccountsKnown, Start, database
  <1> QED BY <1>1, <1>2 DEF TypeInv, TypeOK, TablesOK, Start, database

\* The commands with no write of their own, and what ends a session.
ReadStep(p) ==
  \/ AnswerNumber(p) \/ AnswerNoNumber(p) \/ GitPush(p) \/ List(p)
  \/ ListNames(p) \/ Report(p) \/ CompareMonths(p) \/ AddCategory(p)
  \/ RemoveAccount(p) \/ Quit(p) \/ CloseInput(p) \/ Kill(p)

LEMMA ReadStepShape ==
  ASSUME NEW p \in Proc, ReadStep(p)
  PROVE  /\ UNCHANGED <<database, account>>
         /\ \/ \E status \in Status :
                 Return(p, status) \/ ReturnDeaf(p, status)
            \/ \E cause \in Cause : Stop(p, cause)
            \/ Continue(p, [op |-> "gitPush"])
  <1> USE DEF Status, Cause
  <1>1. CASE AnswerNumber(p) \/ AnswerNoNumber(p) \/ GitPush(p)
    BY <1>1 DEF AnswerNumber, AnswerNoNumber, GitPush
  <1>2. CASE List(p)
    BY <1>2 DEF List, SelectDies
  <1>3. CASE ListNames(p)
    BY <1>3 DEF ListNames
  <1>4. CASE Report(p)
    BY <1>4 DEF Report, SelectDies
  <1>5. CASE CompareMonths(p)
    BY <1>4, <1>5 DEF CompareMonths, Report, SelectDies
  <1>6. CASE AddCategory(p) \/ RemoveAccount(p)
    BY <1>6 DEF AddCategory, RemoveAccount
  <1>7. CASE Quit(p) \/ CloseInput(p) \/ Kill(p)
    BY <1>7 DEF Quit, CloseInput, Kill
  <1> QED BY <1>1, <1>2, <1>3, <1>4, <1>5, <1>6, <1>7 DEF ReadStep

LEMMA ReadStepType ==
  ASSUME TypeInv, NEW p \in Proc, ReadStep(p)
  PROVE  TypeInv'
  <1>1. ControlOK /\ JobOK([op |-> "gitPush"])
    BY DEF TypeInv, TypeOK, JobOK
  <1>2. ControlOK'
    BY <1>1, ReadStepShape, ReturnControl, ReturnDeafControl, StopControl,
       ContinueControl
  <1> QED BY <1>2, ReadStepShape, DatabaseUnchanged

\* Next, with its reading commands together.
LEMMA NextCases ==
  ASSUME Next
  PROVE  \E p \in Proc :
           \/ Add(p) \/ AddAccount(p) \/ InsertAccount(p) \/ AddTags(p)
           \/ InsertTag(p) \/ Update(p) \/ ValidateUpdate(p)
           \/ WriteUpdate(p) \/ Remove(p) \/ ConfirmRemove(p)
           \/ SwitchAccount(p) \/ Start(p) \/ ReadStep(p)
  BY DEF Next, Command, HandlerStep, Answer, ReadStep
-----------------------------------------------------------------------------
LEMMA InitType == Init => TypeInv
  <1> SUFFICES ASSUME Init PROVE TypeInv
    OBVIOUS
  <1>1. DefaultAccount \in AccountName /\ IsTable(categories, CategoryName)
    BY SessionsAssumption DEF SessionsAssumption, Init
  <1>2. TablesOK
    BY <1>1, EmptyTableType DEF TablesOK, Init, IsTable, RowId
  <1>3. ControlOK
    <2>1. "quit" \in Cause /\ "None" \in Status
      BY DEF Cause, Status
    <2> QED BY <2>1, SimpleJobs DEF ControlOK, Init
  <1>4. AccountsKnown /\ account \in [Proc -> AccountName]
    BY <1>1 DEF AccountsKnown, Init, HasName
  <1> QED BY <1>2, <1>3, <1>4 DEF TypeInv, TypeOK

LEMMA NextType == TypeInv /\ [Next]_vars => TypeInv'
  <1> SUFFICES ASSUME TypeInv, [Next]_vars PROVE TypeInv'
    OBVIOUS
  <1>1. CASE UNCHANGED vars
    BY <1>1 DEF vars, TypeInv, TypeOK, TablesOK, ControlOK, AccountsKnown
  <1>2. CASE Next
    <2>1. PICK p \in Proc :
            \/ Add(p) \/ AddAccount(p) \/ InsertAccount(p) \/ AddTags(p)
            \/ InsertTag(p) \/ Update(p) \/ ValidateUpdate(p)
            \/ WriteUpdate(p) \/ Remove(p) \/ ConfirmRemove(p)
            \/ SwitchAccount(p) \/ Start(p) \/ ReadStep(p)
      BY <1>2, NextCases
    <2> QED BY <2>1, AddType, AddAccountType, InsertAccountType, AddTagsType,
               InsertTagType, UpdateType, ValidateUpdateType,
               WriteUpdateType, RemoveType, ConfirmRemoveType,
               SwitchAccountType, StartType, ReadStepType
  <1> QED BY <1>1, <1>2

LEMMA TypeInvariant == Spec => []TypeInv
  BY InitType, NextType, PTL DEF Spec

\* However many sessions work on the file and wherever they are stopped, the
\* tables keep to their columns and every handler to the values it has read.
THEOREM TypeCorrect == Spec => []TypeOK
  <1>1. TypeInv => TypeOK
    BY DEF TypeInv
  <1> QED BY <1>1, TypeInvariant, PTL
-----------------------------------------------------------------------------
(***************************************************************************)
(* What the other sessions see of a step: one job and one result change,   *)
(* and no tag is taken away.                                               *)
(***************************************************************************)
StepOf(p) ==
  \/ Add(p) \/ AddAccount(p) \/ InsertAccount(p) \/ AddTags(p)
  \/ InsertTag(p) \/ Update(p) \/ ValidateUpdate(p) \/ WriteUpdate(p)
  \/ Remove(p) \/ ConfirmRemove(p) \/ SwitchAccount(p) \/ Start(p)
  \/ ReadStep(p)

LEMMA NextIsStep == Next => \E p \in Proc : StepOf(p)
  BY NextCases DEF StepOf

\* The ways in which a handler's step ends.
Ends(p) ==
  \/ \E status \in Status : Return(p, status) \/ ReturnDeaf(p, status)
  \/ \E cause \in Cause : Stop(p, cause)

LEMMA FailsEnds ==
  ASSUME NEW p, StatementFails(p)
  PROVE  Ends(p)
  BY DEF StatementFails, Ends, Status, Cause

LEMMA EndsShape ==
  ASSUME TypeInv, NEW p \in Proc, Ends(p)
  PROVE  /\ \A q \in Proc \ {p} : job'[q] = job[q] /\ result'[q] = result[q]
         /\ job'[p].op \in {"idle", "deaf", "off"}
  BY DEF TypeInv, TypeOK, ControlOK, Ends, Return, ReturnDeaf, Stop,
         Idle, Deaf, Off

LEMMA ContinueShape ==
  ASSUME TypeInv, NEW p \in Proc, NEW next, Continue(p, next)
  PROVE  /\ \A q \in Proc \ {p} : job'[q] = job[q] /\ result'[q] = result[q]
         /\ job'[p] = next /\ result'[p] = "Running"
  BY DEF TypeInv, TypeOK, ControlOK, Continue

\* Every step ends its command or goes on to one more job.
LEMMA StepEndsOrContinues ==
  ASSUME TypeInv, NEW p \in Proc, StepOf(p)
  PROVE  Ends(p) \/ \E next : Continue(p, next)
  <1> USE DEF Ends, Status, Cause
  <1>1. CASE Add(p)
    BY <1>1, FailsEnds DEF Add
  <1>2. CASE AddAccount(p) \/ AddTags(p)
    BY <1>2 DEF AddAccount, AddTags
  <1>3. CASE InsertAccount(p)
    BY <1>3, FailsEnds DEF InsertAccount
  <1>4. CASE InsertTag(p)
    BY <1>4, FailsEnds DEF InsertTag, TagRefused, NextTag
  <1>5. CASE Update(p)
    BY <1>5 DEF Update
  <1>6. CASE ValidateUpdate(p)
    <2>1. job[p].attr \in Attribute
      BY <1>6, SessionsAssumption
         DEF SessionsAssumption, TypeInv, TypeOK, ControlOK, JobOK,
             ValidateUpdate
    <2>2. Validate(job[p].attr, job[p].value) \in Status
      BY <2>1, Zenon DEF Validate
    <2> HIDE DEF Status
    <2> QED BY <1>6, <2>2 DEF ValidateUpdate
  <1>7. CASE WriteUpdate(p)
    BY <1>7, FailsEnds DEF WriteUpdate, SetColumn
  <1>8. CASE Remove(p)
    BY <1>8 DEF Remove
  <1>9. CASE ConfirmRemove(p)
    BY <1>9, FailsEnds DEF ConfirmRemove
  <1>10. CASE SwitchAccount(p) \/ Start(p)
    BY <1>10 DEF SwitchAccount, Start
  <1>11. CASE ReadStep(p)
    BY <1>11, ReadStepShape
  <1> QED BY <1>1, <1>2, <1>3, <1>4, <1>5, <1>6, <1>7, <1>8, <1>9, <1>10,
             <1>11 DEF StepOf

LEMMA OthersStand ==
  ASSUME TypeInv, NEW p \in Proc, StepOf(p), NEW q \in Proc, q # p
  PROVE  job'[q] = job[q] /\ result'[q] = result[q]
  BY StepEndsOrContinues, EndsShape, ContinueShape

LEMMA TagsStay ==
  ASSUME TypeInv, NEW p \in Proc, StepOf(p), NEW n, HasName(tags, n)
  PROVE  HasName(tags', n)
  <1>1. CASE UNCHANGED tags
    BY <1>1
  <1>2. CASE /\ InsertTag(p)
             /\ \E id \in NextRowId(tags) :
                  tags' = WithRow(tags, id, job[p].list[job[p].next])
    BY <1>2, NextRowIdFresh, HasNameWithRow DEF TypeInv, TypeOK, TablesOK
  <1>3. InsertTag(p) => UNCHANGED tags \/ \E id \in NextRowId(tags) :
                  tags' = WithRow(tags, id, job[p].list[job[p].next])
    BY DEF InsertTag
  <1>4. ~InsertTag(p) => UNCHANGED tags
    BY ReadStepShape
       DEF StepOf, Add, AddAccount, InsertAccount, AddTags, Update,
           ValidateUpdate, WriteUpdate, Remove, ConfirmRemove, SwitchAccount,
           Start, database
  <1> QED BY <1>1, <1>2, <1>3, <1>4
-----------------------------------------------------------------------------
(***************************************************************************)
(* addTags.  While the command runs, the names before the one in hand are  *)
(* in the table and differ from each other: each was new when it was       *)
(* stored, and no session takes a tag away.                                *)
(***************************************************************************)
TagsInHand(j, status, t) ==
  j.op = "addTags" =>
    /\ status = "Running"
    /\ \A i \in 1..(j.next - 1) :
         /\ HasName(t, j.list[i])
         /\ \A k \in 1..(j.next - 1) : j.list[i] = j.list[k] => i = k

TagsInv == \A p \in Proc : TagsInHand(job[p], result[p], tags)

\* The only steps of a session that is storing tags.
LEMMA StoringSteps ==
  ASSUME TypeInv, NEW p \in Proc, StepOf(p), job[p].op = "addTags"
  PROVE  InsertTag(p) \/ Kill(p)
  BY DEF StepOf, ReadStep, Add, AddAccount, InsertAccount, AddTags,
         Update, ValidateUpdate, WriteUpdate, Remove,
         ConfirmRemove, SwitchAccount, Start, AnswerNumber,
         AnswerNoNumber, GitPush, List, ListNames, Report,
         CompareMonths, AddCategory, RemoveAccount, Quit, CloseInput,
         AtPrompt

\* The only steps after which a session is storing tags.
LEMMA StepsToStoring ==
  ASSUME TypeInv, NEW p \in Proc, StepOf(p), job'[p].op = "addTags"
  PROVE  AddTags(p) \/ InsertTag(p)
  <1>1. \A next : Continue(p, next) => next.op = "addTags"
    BY ContinueShape
  <1>2. ~Ends(p)
    BY EndsShape
  <1>3. ~StatementFails(p)
    BY <1>2, FailsEnds
  <1>4. \A status \in Status : ~Return(p, status) /\ ~ReturnDeaf(p, status)
    BY <1>2 DEF Ends
  <1>5. \A cause \in Cause : ~Stop(p, cause)
    BY <1>2 DEF Ends
  <1>6. ~(Add(p) \/ InsertAccount(p) \/ WriteUpdate(p) \/ ConfirmRemove(p))
    BY <1>3, <1>4, <1>5
       DEF Add, InsertAccount, WriteUpdate, SetColumn, ConfirmRemove,
           Status, Cause
  <1>7. ~(AddAccount(p) \/ Update(p) \/ Remove(p))
    <2>1. ~AddAccount(p)
      <3>1. \A name : [op |-> "addAccount", name |-> name].op # "addTags"
        OBVIOUS
      <3> QED BY <1>1, <1>4, <3>1, Zenon DEF AddAccount, Status
    <2>2. ~Update(p)
      <3>1. \A id, orig, attr, value :
              [op |-> "update", id |-> id, orig |-> orig, attr |-> attr,
               value |-> value].op # "addTags"
        OBVIOUS
      <3> QED BY <1>1, <1>5, <3>1, Zenon DEF Update, Cause
    <2>3. ~Remove(p)
      <3>1. \A ids, shown :
              [op |-> "remove", ids |-> ids, shown |-> shown].op # "addTags"
        OBVIOUS
      <3> QED BY <1>1, <1>4, <1>5, <3>1, Zenon DEF Remove, Status, Cause
    <2> QED BY <2>1, <2>2, <2>3
  <1>8. ~ValidateUpdate(p)
    <2>1. ASSUME NEW status, Return(p, status) PROVE FALSE
      BY <2>1 DEF Return, Idle, TypeInv, TypeOK, ControlOK
    <2>2. HandleForeignKeyUpdate(job[p]).op = "write"
      BY DEF HandleForeignKeyUpdate
    <2> QED BY <1>1, <2>1, <2>2 DEF ValidateUpdate
  <1>9. ~(SwitchAccount(p) \/ Start(p) \/ ReadStep(p))
    BY <1>1, <1>4, <1>5, ReadStepShape DEF SwitchAccount, Start, Status
  <1> QED BY <1>6, <1>7, <1>8, <1>9 DEF StepOf

\* A step that stores the name in hand.
LEMMA NameStored ==
  ASSUME TypeInv, TagsInv, NEW p \in Proc, InsertTag(p),
         ~Ends(p) \/ result'[p] = "Success"
  PROVE  LET j == job[p] IN
         /\ NextTag(p)
         /\ j.next \in 1..Len(j.list) /\ j.list \in Seq(TagName)
         /\ \A i \in 1..j.next :
              /\ HasName(tags', j.list[i])
              /\ \A k \in 1..j.next : j.list[i] = j.list[k] => i = k
  <1> DEFINE j == job[p]
             name == j.list[j.next]
  <1>0. /\ j.op = "addTags"
        /\ j.next \in 1..Len(j.list) /\ j.list \in Seq(TagName)
    BY DEF TypeInv, TypeOK, ControlOK, JobOK, InsertTag
  <1>1. ~StatementFails(p)
    <2>1. CASE ~Ends(p)
      BY <2>1, FailsEnds
    <2>2. CASE result'[p] = "Success"
      BY <2>2 DEF StatementFails, Return, Stop, TypeInv, TypeOK, ControlOK
    <2> QED BY <2>1, <2>2
  <1>2. /\ ~HasName(tags, name) /\ NextTag(p)
        /\ \E id \in NextRowId(tags) : tags' = WithRow(tags, id, name)
    BY <1>1 DEF InsertTag, TagRefused
  <1>3. PICK id \in NextRowId(tags) : tags' = WithRow(tags, id, name)
    BY <1>2
  <1>4. id \in RowId /\ id \notin DOMAIN tags
    BY NextRowIdFresh DEF TypeInv, TypeOK, TablesOK
  <1>5. HasName(tags', name)
    BY <1>3 DEF HasName, WithRow
  <1>6. \A i \in 1..(j.next - 1) :
          /\ HasName(tags, j.list[i])
          /\ \A k \in 1..(j.next - 1) : j.list[i] = j.list[k] => i = k
    BY <1>0 DEF TagsInv, TagsInHand
  <1>7. \A i \in 1..(j.next - 1) : HasName(tags', j.list[i])
    BY <1>3, <1>4, <1>6, HasNameWithRow
  <1>8. \A i \in 1..j.next : i \in 1..(j.next - 1) \/ i = j.next
    BY <1>0
  <1>9. \A i \in 1..j.next : HasName(tags', j.list[i])
    BY <1>5, <1>7, <1>8
  <1>10. \A i \in 1..(j.next - 1) : j.list[i] # name
    BY <1>2, <1>6
  <1>11. \A i, k \in 1..j.next : j.list[i] = j.list[k] => i = k
    BY <1>6, <1>8, <1>10
  <1> QED BY <1>0, <1>2, <1>9, <1>11

LEMMA TagsStep ==
  ASSUME TypeInv, TagsInv, [Next]_vars
  PROVE  TagsInv'
  <1>1. CASE UNCHANGED vars
    BY <1>1 DEF vars, TagsInv
  <1>2. CASE Next
    <2>1. PICK p \in Proc : StepOf(p)
      BY <1>2, NextIsStep
    <2> SUFFICES ASSUME NEW q \in Proc, job'[q].op = "addTags"
                 PROVE  TagsInHand(job'[q], result'[q], tags')
      BY DEF TagsInv, TagsInHand
    <2>2. CASE q # p
      <3>1. job'[q] = job[q] /\ result'[q] = result[q]
        BY <2>1, <2>2, OthersStand
      <3>2. TagsInHand(job[q], result[q], tags)
        BY DEF TagsInv
      <3> QED BY <2>1, <3>1, <3>2, TagsStay DEF TagsInHand
    <2>3. CASE q = p /\ AddTags(q)
      <3>1. PICK list \in UserTagLists :
              Continue(q, [op |-> "addTags", list |-> list, next |-> 1])
        BY <2>3 DEF AddTags
      <3>2. job'[q].next = 1 /\ result'[q] = "Running"
        BY <3>1, ContinueShape
      <3> QED BY <3>2 DEF TagsInHand
    <2>4. CASE q = p /\ InsertTag(q)
      <3> DEFINE j == job[q]
      <3>1. ~Ends(q)
        BY EndsShape
      <3>2. /\ NextTag(q)
            /\ j.next \in 1..Len(j.list) /\ j.list \in Seq(TagName)
            /\ \A i \in 1..j.next :
                 /\ HasName(tags', j.list[i])
                 /\ \A k \in 1..j.next : j.list[i] = j.list[k] => i = k
        BY <2>4, <3>1, NameStored
      <3>3. Continue(q, [j EXCEPT !.next = @ + 1])
        BY <3>1, <3>2 DEF NextTag, Ends, Status
      <3>4. job'[q] = [j EXCEPT !.next = @ + 1] /\ result'[q] = "Running"
        BY <3>3, ContinueShape
      <3>5. job'[q].list = j.list /\ job'[q].next = j.next + 1
        BY <2>4, <3>4 DEF InsertTag, TypeInv, TypeOK, ControlOK, JobOK
      <3>6. job'[q].next - 1 = j.next
        BY <3>2, <3>5
      <3> QED BY <3>2, <3>4, <3>5, <3>6 DEF TagsInHand
    <2> QED BY <2>1, <2>2, <2>3, <2>4, StepsToStoring
  <1> QED BY <1>1, <1>2

LEMMA TagsInvariant == Spec => []TagsInv
  <1>1. Init => TagsInv
    BY DEF Init, TagsInv, TagsInHand, Off
  <1> QED BY <1>1, TypeInvariant, TagsStep, PTL DEF Spec

\* Wherever addTags stands, fails or is killed, and whatever other sessions
\* add meanwhile, the names before the one in hand are in the table.
THEOREM TagsAlwaysInOrder == Spec => []TagsStoredInOrder
  <1>1. TagsInv => TagsStoredInOrder
    BY DEF TagsInv, TagsInHand, TagsStoredInOrder
  <1> QED BY <1>1, TagsInvariant, PTL

LEMMA SuccessStep ==
  ASSUME TypeInv, TagsInv, Next, NEW p \in Proc,
         job[p].op = "addTags", result'[p] = "Success"
  PROVE  \A i \in DOMAIN job[p].list :
           /\ \E t \in DOMAIN tags' : tags'[t] = job[p].list[i]
           /\ \A k \in DOMAIN job[p].list :
                job[p].list[i] = job[p].list[k] => i = k
  <1> DEFINE j == job[p]
  <1>1. PICK q \in Proc : StepOf(q)
    BY NextIsStep
  <1>2. q = p
    BY <1>1, OthersStand DEF TagsInv, TagsInHand
  <1>3. ~Kill(p)
    BY DEF Kill, Stop, TypeInv, TypeOK, ControlOK
  <1>4. InsertTag(p)
    BY <1>1, <1>2, <1>3, StoringSteps
  <1>5. /\ NextTag(p)
        /\ j.next \in 1..Len(j.list) /\ j.list \in Seq(TagName)
        /\ \A i \in 1..j.next :
             /\ HasName(tags', j.list[i])
             /\ \A k \in 1..j.next : j.list[i] = j.list[k] => i = k
    BY <1>4, NameStored
  <1>6. ~Continue(p, [j EXCEPT !.next = @ + 1])
    BY ContinueShape
  <1>7. j.next = Len(j.list)
    BY <1>5, <1>6 DEF NextTag
  <1>8. DOMAIN j.list = 1..j.next
    BY <1>5, <1>7
  <1> QED BY <1>5, <1>8 DEF HasName

\* addTags reports success only when every name of the list was new, none
\* came twice, and all are in the table, whatever the other sessions do.
THEOREM SuccessStoresEveryTag == Spec => SuccessMeansAllTags
  <1>1. TypeInv /\ TagsInv /\ [Next]_vars =>
          [\A p \in Proc :
             job[p].op = "addTags" /\ result'[p] = "Success" =>
               \A i \in DOMAIN job[p].list :
                 /\ \E t \in DOMAIN tags' : tags'[t] = job[p].list[i]
                 /\ \A k \in DOMAIN job[p].list :
                      job[p].list[i] = job[p].list[k] => i = k]_vars
    BY SuccessStep
  <1> QED BY <1>1, TypeInvariant, TagsInvariant, PTL
          DEF Spec, SuccessMeansAllTags
-----------------------------------------------------------------------------
(***************************************************************************)
(* One session on the file: what a handler has loaded is what it changes.  *)
(* (With two sessions another may change the row in between.)              *)
(***************************************************************************)
OneSession == \A p, q \in Proc : p = q

\* What a job has loaded is what the table holds.
Fresh(j, e) ==
  /\ j.op \in {"update", "write"} => j.id \in DOMAIN e /\ e[j.id] = j.orig
  /\ j.op = "remove" => j.shown = RowsById(e, j.ids)

\* The steps after which a session holds rows it has loaded.
LEMMA StepsToLoaded ==
  ASSUME TypeInv, NEW p \in Proc, StepOf(p),
         job'[p].op \in {"update", "write", "remove"}
  PROVE  Update(p) \/ ValidateUpdate(p) \/ Remove(p)
  <1>1. \A next : Continue(p, next) =>
                    next.op \in {"update", "write", "remove"}
    BY ContinueShape
  <1>2. ~Ends(p)
    BY EndsShape
  <1>3. ~StatementFails(p)
    BY <1>2, FailsEnds
  <1>4. \A status \in Status : ~Return(p, status) /\ ~ReturnDeaf(p, status)
    BY <1>2 DEF Ends
  <1>5. \A cause \in Cause : ~Stop(p, cause)
    BY <1>2 DEF Ends
  <1>6. ~(Add(p) \/ InsertAccount(p) \/ WriteUpdate(p) \/ ConfirmRemove(p))
    BY <1>3, <1>4, <1>5
       DEF Add, InsertAccount, WriteUpdate, SetColumn, ConfirmRemove,
           Status, Cause
  <1>7. ~AddAccount(p)
    <2>1. \A name : [op |-> "addAccount", name |-> name].op
                      \notin {"update", "write", "remove"}
      OBVIOUS
    <2> QED BY <1>1, <1>4, <2>1, Zenon DEF AddAccount, Status
  <1>8. ~AddTags(p)
    <2>1. \A list : [op |-> "addTags", list |-> list, next |-> 1].op
                      \notin {"update", "write", "remove"}
      OBVIOUS
    <2> QED BY <1>1, <2>1, Zenon DEF AddTags
  <1>9. ~InsertTag(p)
    <2>1. ASSUME InsertTag(p)
          PROVE  [job[p] EXCEPT !.next = @ + 1].op = "addTags"
      BY <2>1 DEF InsertTag, TypeInv, TypeOK, ControlOK, JobOK
    <2> QED BY <1>1, <1>3, <1>4, <2>1
            DEF InsertTag, TagRefused, NextTag, Status
  <1>10. ~(SwitchAccount(p) \/ Start(p) \/ ReadStep(p))
    BY <1>1, <1>4, <1>5, ReadStepShape DEF SwitchAccount, Start, Status
  <1> QED BY <1>6, <1>7, <1>8, <1>9, <1>10 DEF StepOf

\* With one session the row that update writes to is the row it loaded, and the
\* rows that remove deletes are those it has shown, no more and no less.  With
\* two it is not so, and remove deletes what it did not show.
NothingStale == \A p \in Proc : Fresh(job[p], expenses)

LEMMA StaysFresh ==
  ASSUME OneSession, TypeInv, NothingStale, [Next]_vars
  PROVE  NothingStale'
  <1>0. \A p \in Proc : Fresh(job[p], expenses)
    BY DEF NothingStale
  <1> SUFFICES ASSUME NEW p \in Proc
               PROVE  Fresh(job'[p], expenses')
    BY DEF NothingStale
  <1>1. CASE UNCHANGED vars
    BY <1>0, <1>1 DEF vars
  <1>2. CASE Next
    <2>1. StepOf(p)
      BY <1>2, NextIsStep DEF OneSession
    <2>2. CASE job'[p].op \notin {"update", "write", "remove"}
      BY <2>2 DEF Fresh
    <2>3. CASE Update(p)
      <3>1. PICK id \in UserIds, attr \in UserAttrs :
              \E value \in TypedValues(attr) :
                \/ Stop(p, "missingRow")
                \/ Stop(p, "danglingKey")
                \/ /\ id \in DOMAIN expenses
                   /\ Continue(p, [op |-> "update", id |-> id,
                                   orig |-> expenses[id],
                                   attr |-> attr, value |-> value])
        BY <2>3 DEF Update
      <3>2. CASE Stop(p, "missingRow") \/ Stop(p, "danglingKey")
        <4>1. job'[p].op \in {"idle", "deaf", "off"}
          BY <3>2, EndsShape DEF Ends, Cause
        <4> QED BY <4>1 DEF Fresh
      <3>3. CASE \E value \in TypedValues(attr) :
                   /\ id \in DOMAIN expenses
                   /\ Continue(p, [op |-> "update", id |-> id,
                                   orig |-> expenses[id],
                                   attr |-> attr, value |-> value])
        <4>1. /\ id \in DOMAIN expenses /\ job'[p].op = "update"
              /\ job'[p].id = id /\ job'[p].orig = expenses[id]
          BY <3>3, ContinueShape
        <4> QED BY <2>3, <4>1 DEF Update, database, Fresh
      <3> QED BY <3>1, <3>2, <3>3
    <2>4. CASE ValidateUpdate(p) /\ job'[p].op # "idle"
      <3>1. Continue(p, HandleForeignKeyUpdate(job[p]))
        <4>1. \A status : Return(p, status) => job'[p].op = "idle"
          BY DEF Return, Idle, TypeInv, TypeOK, ControlOK
        <4> QED BY <2>4, <4>1 DEF ValidateUpdate
      <3>2. /\ job'[p].op = "write" /\ job'[p].id = job[p].id
            /\ job'[p].orig = job[p].orig
        BY <3>1, ContinueShape DEF HandleForeignKeyUpdate
      <3> QED BY <1>0, <2>4, <3>2 DEF ValidateUpdate, database, Fresh
    <2>5. CASE Remove(p)
      <3>1. PICK ids \in SUBSET UserIds :
              \/ Ends(p)
              \/ Continue(p, [op |-> "remove", ids |-> ids,
                              shown |-> RowsShown(p, ids)])
        BY <2>5 DEF Remove, Ends, Status, Cause
      <3>2. CASE Ends(p)
        BY <3>2, EndsShape DEF Fresh
      <3>3. CASE Continue(p, [op |-> "remove", ids |-> ids,
                              shown |-> RowsShown(p, ids)])
        <4>1. /\ job'[p].op = "remove" /\ job'[p].ids = ids
              /\ job'[p].shown = RowsById(expenses, ids)
          BY <3>3, ContinueShape DEF RowsShown
        <4> QED BY <2>5, <4>1 DEF Remove, database, Fresh
      <3> QED BY <3>1, <3>2, <3>3
    <2> QED BY <2>1, <2>2, <2>3, <2>4, <2>5, StepsToLoaded
  <1> QED BY <1>1, <1>2

LEMMA FreshInvariant == ASSUME OneSession PROVE Spec => []NothingStale
  <1>1. Init => NothingStale
    BY DEF Init, NothingStale, Fresh, Off
  <1>2. TypeInv /\ NothingStale /\ [Next]_vars => NothingStale'
    BY StaysFresh
  <1> QED BY <1>1, <1>2, TypeInvariant, PTL DEF Spec

\* A step that takes a row from the table: remove of a row that was shown, or
\* update of its row id.
LEMMA RowsGoneWereShown ==
  ASSUME OneSession, TypeInv, NothingStale, Next,
         NEW i \in DOMAIN expenses \ DOMAIN expenses'
  PROVE  \E p \in Proc :
           \/ /\ job[p].op = "remove" /\ i \in DOMAIN job[p].shown
              /\ job[p].shown[i] = expenses[i]
           \/ /\ job[p].op = "write" /\ job[p].col = "row_id"
              /\ job[p].id = i
  <1>1. PICK p \in Proc : StepOf(p)
    BY NextIsStep
  <1>2. CASE ConfirmRemove(p)
    <2>1. expenses' = WithoutRows(expenses, job[p].ids)
      BY <1>2 DEF ConfirmRemove
    <2>2. i \in DOMAIN expenses \cap job[p].ids
      BY <2>1 DEF WithoutRows
    <2>3. job[p].op = "remove" /\ job[p].shown = RowsById(expenses, job[p].ids)
      BY <1>2 DEF ConfirmRemove, NothingStale, Fresh
    <2> QED BY <2>2, <2>3 DEF RowsById
  <1>3. CASE WriteUpdate(p)
    <2>1. SetColumn(p) /\ job[p].op = "write" /\ expenses' # expenses
      BY <1>3 DEF WriteUpdate
    <2>2. ~(expenses' = WithRow(expenses, job[p].id, RowSet(job[p])))
      BY DEF WithRow
    <2>3. /\ job[p].col = "row_id"
          /\ expenses' = WithRow(WithoutRows(expenses, {job[p].id}),
                                 job[p].value, expenses[job[p].id])
      BY <2>1, <2>2 DEF SetColumn
    <2>4. job[p].id = i
      BY <2>3 DEF WithRow, WithoutRows
    <2> QED BY <2>1, <2>3, <2>4
  <1>4. CASE Add(p)
    BY <1>4 DEF Add, WithRow
  <1>5. ~(ConfirmRemove(p) \/ WriteUpdate(p) \/ Add(p)) => UNCHANGED expenses
    BY <1>1, ReadStepShape
       DEF StepOf, AddAccount, InsertAccount, AddTags, InsertTag, Update,
           ValidateUpdate, Remove, SwitchAccount, Start, database
  <1> QED BY <1>2, <1>3, <1>4, <1>5

\* A session that has the file to itself deletes no row that it has not shown,
\* as it is, to the user who confirmed.  (Two sessions do: the run
\* remove_races.)
THEOREM LoneSessionRemovesWhatItShowed ==
  ASSUME OneSession
  PROVE  Spec => RemovedRowsWereShown
  <1>1. TypeInv /\ NothingStale /\ [Next]_vars =>
          [\A i \in DOMAIN expenses \ DOMAIN expenses' :
             \E p \in Proc :
               \/ /\ job[p].op = "remove" /\ i \in DOMAIN job[p].shown
                  /\ job[p].shown[i] = expenses[i]
               \/ /\ job[p].op = "write" /\ job[p].col = "row_id"
                  /\ job[p].id = i]_vars
    BY RowsGoneWereShown
  <1> QED BY <1>1, TypeInvariant, FreshInvariant, PTL
          DEF Spec, RemovedRowsWereShown
=============================================================================
