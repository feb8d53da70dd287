------------------------------ MODULE Sessions ------------------------------
(***************************************************************************)
(* Console sessions of the expense manager on one database file.           *)
(*                                                                         *)
(* A session is a run of CliApp: a loop that reads a command, runs its     *)
(* handler (EM/ActionHandlers/Cli) to the end and reads the next one.      *)
(* Handlers read and write the tables through DBHandler; every SQL         *)
(* statement is a transaction of its own, so that two sessions on the same *)
(* file interleave between the statements of a handler, and a session may  *)
(* end anywhere: the user closes the window, or an exception that nobody   *)
(* catches, an assertion or an access past the end of a vector stops it.   *)
(*                                                                         *)
(* A handler is one action when it has at most one statement whose outcome *)
(* the other sessions can influence, and is otherwise split at its writes  *)
(* and at its prompts.  No command changes or removes an account, a        *)
(* category or a tag that is there, so what a handler has read about them  *)
(* stays true until it writes.                                             *)
(***************************************************************************)
EXTENDS Tables, Sequences

CONSTANTS
  Proc,               \* the sessions that may be open at a time
  AccountName, CategoryName, TagName,
  Text,               \* contents of the columns name, date and location
  Price,              \* texts of numbers
  Dot,                \* a text such as "." that IsDouble accepts
  Word,               \* a text such as "x5" that IsDouble refuses
  CategoryTables,     \* possible contents of categories, filled by hand
  DefaultAccount,     \* config.json: default.account
  UserAttrs,          \* the attribute names typed after `update <row_id>'
  UserPrices,         \* the prices typed
  UserIds,            \* the row ids typed
  UserTagLists,       \* the tag lists typed
  MaxRow,             \* bound: the largest row id given to an expense
  DebugBuild,         \* assert() is compiled in
  WritesMayFail       \* bound: SQLite may refuse a write (locked, disk full)

Attribute == {"name", "category", "price", "tags", "account",
              "category_id", "account_id", "row_id", "unknown"}

\* A column that a typed attribute may lead to; "account" is none.
Column == {"name", "category_id", "price", "tags", "account_id", "row_id",
           "account"}

ASSUME SessionsAssumption ==
  /\ Dot # Word
  /\ Dot \notin Price /\ Word \notin Price
  /\ \A t \in CategoryTables : IsTable(t, CategoryName) /\ NamesDiffer(t)
  /\ DefaultAccount \in AccountName
  /\ UserAttrs \subseteq Attribute
  /\ UserPrices \subseteq Price \cup {Dot, Word}
  /\ UserIds \subseteq RowId
  /\ UserTagLists \subseteq Seq(TagName) \ {<<>>}
  /\ MaxRow \in Nat
  /\ DebugBuild \in BOOLEAN
  /\ WritesMayFail \in BOOLEAN

VARIABLES
  categories, accounts, tags,  \* row id -> name
  expenses,                    \* row id -> row
  job,                         \* job[p]: what session p is doing
  account,                     \* account[p]: m_CurrentAccountName
  result                       \* result[p]: status of p's last command

database == <<categories, accounts, tags, expenses>>
session == <<job, account, result>>
vars == <<categories, accounts, tags, expenses, job, account, result>>

\* The columns of expenses; `name' stands for name, date and location.
Row == [name : Text, category_id : RowId, price : Price \cup {Dot},
        tags : SUBSET TagName, account_id : RowId]

Status == {"None", "Running", "Success", "GeneralFailure", "DBError",
           "CategoryDoesNotExist", "AccountAlreadySelected",
           "AccountDoesNotExist", "Invalid", "InvalidParameterValue"}

Cause == {"quit", "killed", "badCast", "badNumber", "missingRow",
          "danglingKey", "unreadablePrice", "emptyTable", "assertion"}

\* At the prompt; at a prompt whose input has failed for good; not running.
Idle == [op |-> "idle"]
Deaf == [op |-> "deaf"]
Off(cause) == [op |-> "off", cause |-> cause]

Init ==
  /\ categories \in CategoryTables
  /\ accounts = [i \in {1} |-> DefaultAccount]
  /\ tags = EmptyTable
  /\ expenses = EmptyTable
  /\ job = [p \in Proc |-> Off("quit")]
  /\ account = [p \in Proc |-> DefaultAccount]
  /\ result = [p \in Proc |-> "None"]
-----------------------------------------------------------------------------
(***************************************************************************)
(* How a step of a handler ends.                                           *)
(***************************************************************************)

\* The handler returns a status and the loop reads the next command.
Return(p, status) ==
  /\ job' = [job EXCEPT ![p] = Idle]
  /\ result' = [result EXCEPT ![p] = status]

\* The input has failed: the session never reads a command again.
ReturnDeaf(p, status) ==
  /\ job' = [job EXCEPT ![p] = Deaf]
  /\ result' = [result EXCEPT ![p] = status]

\* The handler goes on with another statement, or waits for an answer.
Continue(p, next) ==
  /\ job' = [job EXCEPT ![p] = next]
  /\ result' = [result EXCEPT ![p] = "Running"]

\* The session ends.
Stop(p, cause) ==
  /\ job' = [job EXCEPT ![p] = Off(cause)]
  /\ result' = [result EXCEPT ![p] = "None"]

\* ExecQuery on a statement that SQLite refuses: the handlers turn its FALSE
\* into DBError, after an assert(false) that a debug build does not survive.
StatementFails(p) ==
  \/ ~DebugBuild /\ Return(p, "DBError")
  \/ DebugBuild /\ Stop(p, "assertion")

AtPrompt(p) == job[p].op = "idle"
-----------------------------------------------------------------------------
(***************************************************************************)
(* add                                                                     *)
(***************************************************************************)
KnownTags(names) == \A n \in names : HasName(tags, n)

NamesIn(list) == {list[i] : i \in DOMAIN list}

\* std::stod throws on a price that does not start with a number; the row is
\* given to the session's account, whose id is looked up by name.
Add(p) ==
  /\ AtPrompt(p)
  /\ UNCHANGED <<categories, accounts, tags, account>>
  /\ \E category \in CategoryName, name \in Text, price \in UserPrices,
        names \in {{}} \cup {NamesIn(l) : l \in UserTagLists} :
       \/ /\ ~HasName(categories, category)
          /\ Return(p, "CategoryDoesNotExist") /\ UNCHANGED expenses
       \/ /\ HasName(categories, category) /\ price \notin Price
          /\ Stop(p, "badNumber") /\ UNCHANGED expenses
       \/ /\ HasName(categories, category) /\ price \in Price
          /\ ~KnownTags(names)
          /\ Return(p, "DBError") /\ UNCHANGED expenses
       \/ /\ HasName(categories, category) /\ price \in Price
          /\ KnownTags(names)
          /\ \E id \in NextRowId(expenses) :
               /\ id <= MaxRow
               /\ expenses' = WithRow(expenses, id,
                    [name |-> name,
                     category_id |-> IdOf(categories, category),
                     price |-> price, tags |-> names,
                     account_id |-> IdOf(accounts, account[p])])
          /\ Return(p, "Success")
       \/ /\ WritesMayFail
          /\ HasName(categories, category) /\ price \in Price
          /\ KnownTags(names)
          /\ StatementFails(p) /\ UNCHANGED expenses
-----------------------------------------------------------------------------
(***************************************************************************)
(* addAccount: the name is looked up, then inserted.                       *)
(***************************************************************************)
AddAccount(p) ==
  /\ AtPrompt(p)
  /\ \E name \in AccountName :
       \/ HasName(accounts, name) /\ Return(p, "AccountAlreadySelected")
       \/ /\ ~HasName(accounts, name)
          /\ Continue(p, [op |-> "addAccount", name |-> name])
  /\ UNCHANGED <<database, account>>

InsertAnyAccount(p) ==
  /\ job[p].op = "addAccount"
  /\ \E id \in NextRowId(accounts) :
       accounts' = WithRow(accounts, id, job[p].name)
  /\ Return(p, "Success")
  /\ UNCHANGED <<categories, tags, expenses, account>>

InsertAccount(p) ==
  /\ job[p].op = "addAccount"
  /\ \/ /\ ~HasName(accounts, job[p].name)
        /\ \E id \in NextRowId(accounts) :
             accounts' = WithRow(accounts, id, job[p].name)
        /\ Return(p, "Success")
     \/ /\ HasName(accounts, job[p].name) \/ WritesMayFail
        /\ StatementFails(p) /\ UNCHANGED accounts
  /\ UNCHANGED <<categories, tags, expenses, account>>
-----------------------------------------------------------------------------
(***************************************************************************)
(* addTags: one INSERT per name of the list; the first that fails ends the *)
(* command and leaves the names before it in the table.                    *)
(***************************************************************************)
AddLastTag(p) ==
  /\ AtPrompt(p)
  /\ \E list \in UserTagLists :
       Continue(p, [op |-> "addTags", list |-> list, next |-> Len(list)])
  /\ UNCHANGED <<database, account>>

AddTags(p) ==
  /\ AtPrompt(p)
  /\ \E list \in UserTagLists :
       Continue(p, [op |-> "addTags", list |-> list, next |-> 1])
  /\ UNCHANGED <<database, account>>

NextTag(p) ==
  \/ /\ job[p].next = Len(job[p].list)
     /\ Return(p, "Success")
  \/ /\ job[p].next < Len(job[p].list)
     /\ Continue(p, [job[p] EXCEPT !.next = @ + 1])

TagRetried(p) == Continue(p, job[p])

TagSkipped(p) == NextTag(p)

TagRefused(p) == StatementFails(p)

InsertTag(p) ==
  /\ job[p].op = "addTags"
  /\ LET name == job[p].list[job[p].next] IN
     \/ /\ ~HasName(tags, name)
        /\ \E id \in NextRowId(tags) : tags' = WithRow(tags, id, name)
        /\ NextTag(p)
     \/ /\ HasName(tags, name) \/ WritesMayFail
        /\ TagRefused(p) /\ UNCHANGED tags
  /\ UNCHANGED <<categories, accounts, expenses, account>>
-----------------------------------------------------------------------------
(***************************************************************************)
(* update: the row is loaded; the attribute is validated and turned into a *)
(* column; one column is set WHERE row_id is that of the loaded row.       *)
(***************************************************************************)
\* Table::Select loads the referenced rows too, and takes rows[0] of each.
Resolves(row) ==
  /\ row.category_id \in DOMAIN categories
  /\ row.account_id \in DOMAIN accounts

TypedValues(attr) ==
  CASE attr = "category" -> CategoryName
    [] attr = "price" -> UserPrices
    [] attr = "tags" -> {NamesIn(l) : l \in UserTagLists}
    [] attr = "account" -> AccountName
    [] attr \in {"category_id", "account_id", "row_id"} -> UserIds
    [] OTHER -> Text

ValidateNoTags(attr, value) ==
  CASE attr = "unknown" -> "GeneralFailure"
    [] attr = "category" /\ ~HasName(categories, value) -> "DBError"
    [] attr = "price" /\ value = Word -> "Invalid"
    [] OTHER -> "Success"

ValidateNoPrice(attr, value) ==
  CASE attr = "unknown" -> "GeneralFailure"
    [] attr = "category" /\ ~HasName(categories, value) -> "DBError"
    [] attr = "tags" /\ ~KnownTags(value) -> "DBError"
    [] OTHER -> "Success"

\* Update::Validate; the columns that are not named here are not checked.
Validate(attr, value) ==
  CASE attr = "unknown" -> "GeneralFailure"
    [] attr = "category" /\ ~HasName(categories, value) -> "DBError"
    [] attr = "price" /\ value = Word -> "Invalid"
    [] attr = "tags" /\ ~KnownTags(value) -> "DBError"
    [] OTHER -> "Success"

Update(p) ==
  /\ AtPrompt(p)
  /\ \E id \in UserIds, attr \in UserAttrs : \E value \in TypedValues(attr) :
       \/ id \notin DOMAIN expenses /\ Stop(p, "missingRow")
       \/ /\ id \in DOMAIN expenses /\ ~Resolves(expenses[id])
          /\ Stop(p, "danglingKey")
       \/ /\ id \in DOMAIN expenses /\ Resolves(expenses[id])
          /\ Continue(p, [op |-> "update", id |-> id, orig |-> expenses[id],
                          attr |-> attr, value |-> value])
  /\ UNCHANGED <<database, account>>

ColumnOfRowId(j) ==
  [op |-> "write", id |-> j.id, orig |-> j.orig,
   col |-> IF j.attr = "category" THEN "category_id" ELSE j.attr,
   value |-> IF j.attr = "category" THEN j.id ELSE j.value]

\* Update::HandleForeignKeyUpdate does nothing for "account".
HandleForeignKeyUpdate(j) ==
  IF j.attr = "category"
  THEN [op |-> "write", id |-> j.id, orig |-> j.orig,
        col |-> "category_id", value |-> IdOf(categories, j.value)]
  ELSE [op |-> "write", id |-> j.id, orig |-> j.orig,
        col |-> j.attr, value |-> j.value]

ValidateUpdate(p) ==
  /\ job[p].op = "update"
  /\ LET status == Validate(job[p].attr, job[p].value) IN
     \/ status # "Success" /\ Return(p, status)
     \/ status = "Success" /\ Continue(p, HandleForeignKeyUpdate(job[p]))
  /\ UNCHANGED <<database, account>>

\* QueryGenerator::UpdateQuery sets the first column whose loaded value
\* differs from the new one, which is text: a number differs from any text.
\* Equal sets of tags may be written in the same order or in another one.
SameText(j) ==
  \/ j.col = "name" /\ j.orig.name = j.value
  \/ j.col = "price" /\ j.orig.price = Dot /\ j.value = Dot

NothingToSet(j) ==
  \/ j.col = "account" \/ SameText(j)
  \/ j.col = "tags" /\ j.orig.tags = j.value

SomethingToSet(j) == j.col # "account" /\ ~SameText(j)

\* The row after UPDATE ... SET col = value: its other columns are those of
\* the table, not those that were loaded.
RowSaved(j) == [j.orig EXCEPT ![j.col] = j.value]

RowSet(j) == [expenses[j.id] EXCEPT ![j.col] = j.value]

\* UPDATE expenses SET col = value WHERE row_id = id
SetColumn(p) ==
  LET j == job[p] IN
  \/ /\ j.id \notin DOMAIN expenses
     /\ Return(p, "DBError") /\ UNCHANGED expenses
  \/ /\ j.id \in DOMAIN expenses /\ j.col # "row_id"
     /\ expenses' = WithRow(expenses, j.id, RowSet(j))
     /\ Return(p, "Success")
  \/ /\ j.id \in DOMAIN expenses /\ j.col = "row_id"
     /\ j.value \notin DOMAIN expenses \ {j.id}
     /\ expenses' = WithRow(WithoutRows(expenses, {j.id}), j.value,
                            expenses[j.id])
     /\ Return(p, "Success")
  \/ /\ j.id \in DOMAIN expenses /\ j.col = "row_id"
     /\ j.value \in DOMAIN expenses \ {j.id}
     /\ StatementFails(p) /\ UNCHANGED expenses

WriteUpdate(p) ==
  /\ job[p].op = "write"
  /\ \/ SomethingToSet(job[p]) /\ SetColumn(p)
     \/ /\ NothingToSet(job[p]) \/ WritesMayFail
        /\ StatementFails(p) /\ UNCHANGED expenses
  /\ UNCHANGED <<categories, accounts, tags, account>>
-----------------------------------------------------------------------------
(***************************************************************************)
(* remove: the rows are selected and shown, the user is asked, and the     *)
(* rows that then have one of the ids are deleted.  The answer is read     *)
(* with std::cin >> int: input that is no number counts as 0 and leaves    *)
(* the stream in a failed state, which nothing in the program clears.      *)
(***************************************************************************)
Readable(row) == row.price \in Price

RowsShown(p, ids) == RowsById(expenses, ids)

Remove(p) ==
  /\ AtPrompt(p)
  /\ \E ids \in SUBSET UserIds \ {{}} :
       LET shown == RowsShown(p, ids) IN
       \/ DOMAIN shown = {} /\ Return(p, "Success")
       \/ /\ \E i \in DOMAIN shown : ~Resolves(shown[i])
          /\ Stop(p, "danglingKey")
       \/ /\ \A i \in DOMAIN shown : Resolves(shown[i])
          /\ \E i \in DOMAIN shown : ~Readable(shown[i])
          /\ Stop(p, "unreadablePrice")
       \/ /\ DOMAIN shown # {}
          /\ \A i \in DOMAIN shown : Resolves(shown[i]) /\ Readable(shown[i])
          /\ Continue(p, [op |-> "remove", ids |-> ids, shown |-> shown])
  /\ UNCHANGED <<database, account>>

\* A number that does not fit an int confirms, and fails the stream.
ConfirmRemove(p) ==
  /\ job[p].op = "remove"
  /\ \/ /\ DOMAIN expenses \cap job[p].ids # {}
        /\ expenses' = WithoutRows(expenses, job[p].ids)
        /\ Return(p, "Success") \/ ReturnDeaf(p, "Success")
     \/ /\ DOMAIN expenses \cap job[p].ids = {}
        /\ Return(p, "DBError") \/ ReturnDeaf(p, "DBError")
        /\ UNCHANGED expenses
     \/ WritesMayFail /\ StatementFails(p) /\ UNCHANGED expenses
  /\ UNCHANGED <<categories, accounts, tags, account>>

\* git-push asks in the same way, and changes nothing in the database.
GitPush(p) ==
  /\ AtPrompt(p)
  /\ \/ Continue(p, [op |-> "gitPush"])
     \/ Return(p, "Success")
  /\ UNCHANGED <<database, account>>

\* remove: the number 0; git-push: any number.
AnswerNumber(p) ==
  /\ job[p].op \in {"remove", "gitPush"}
  /\ Return(p, "Success")
  /\ UNCHANGED <<database, account>>

\* An answer that is no number, or the end of the input: the command is
\* skipped, and every later getline returns at once with an empty line.
AnswerNoNumber(p) ==
  /\ job[p].op \in {"remove", "gitPush"}
  /\ ReturnDeaf(p, "Success")
  /\ UNCHANGED <<database, account>>
-----------------------------------------------------------------------------
(***************************************************************************)
(* The commands with no write of their own.                                *)
(***************************************************************************)
SwitchAccount(p) ==
  /\ AtPrompt(p)
  /\ \E name \in AccountName :
       \/ /\ name = account[p]
          /\ Return(p, "AccountAlreadySelected") /\ UNCHANGED account
       \/ /\ name # account[p] /\ ~HasName(accounts, name)
          /\ Return(p, "AccountDoesNotExist") /\ UNCHANGED account
       \/ /\ name # account[p] /\ HasName(accounts, name)
          /\ account' = [account EXCEPT ![p] = name]
          /\ Return(p, "Success")
  /\ UNCHANGED database

\* The session reads the expenses in ids: Table::Select, then asDouble.
SelectDies(p, ids) ==
  /\ \E i \in ids : ~Resolves(expenses[i])
  /\ Stop(p, "danglingKey")

PriceThrows(ids) ==
  /\ \A i \in ids : Resolves(expenses[i])
  /\ \E i \in ids : ~Readable(expenses[i])

AllShown(ids) ==
  \A i \in ids : Resolves(expenses[i]) /\ Readable(expenses[i])

\* The filters of list pick some of the rows of the session's account, or are
\* refused: a name that is not there, a range that ends before it starts, a
\* condition that is no SQL.  --byDate and -range catch what asDouble throws.
List(p) ==
  /\ AtPrompt(p)
  /\ \/ \E status \in {"CategoryDoesNotExist", "GeneralFailure", "DBError"} :
          Return(p, status)
     \/ \E ids \in SUBSET DOMAIN expenses :
          /\ \A i \in ids :
               expenses[i].account_id = IdOf(accounts, account[p])
          /\ \/ SelectDies(p, ids)
             \/ PriceThrows(ids) /\ Stop(p, "unreadablePrice")
             \/ PriceThrows(ids) /\ Return(p, "GeneralFailure")
             \/ AllShown(ids) /\ Return(p, "Success")
  /\ UNCHANGED <<database, account>>

\* list --categories and list --tags print a table after the columns of its
\* first row; list --accounts does without.
ListNames(p) ==
  /\ AtPrompt(p)
  /\ \/ \E table \in {categories, tags} :
          \/ DOMAIN table = {} /\ Stop(p, "emptyTable")
          \/ DOMAIN table # {} /\ Return(p, "Success")
     \/ Return(p, "Success")
  /\ UNCHANGED <<database, account>>

\* report goes through the categories and selects some expenses of each, those
\* of every account; compareMonths also needs one category for its columns, and
\* does not survive a month or a year whose digits fit no int.
Report(p) ==
  /\ AtPrompt(p)
  /\ \E ids \in SUBSET DOMAIN expenses :
       /\ \A i \in ids : expenses[i].category_id \in DOMAIN categories
       /\ \/ SelectDies(p, ids)
          \/ PriceThrows(ids) /\ Stop(p, "unreadablePrice")
          \/ AllShown(ids) /\ Return(p, "Success")
  /\ UNCHANGED <<database, account>>

CompareMonths(p) ==
  \/ Report(p) /\ DOMAIN categories # {}
  \/ /\ AtPrompt(p)
     /\ \/ Return(p, "InvalidParameterValue")
        \/ Stop(p, "badNumber")
        \/ DOMAIN categories = {} /\ Stop(p, "emptyTable")
     /\ UNCHANGED <<database, account>>

\* options.at("name") is a vector; asString throws before any statement.
AddCategory(p) ==
  /\ AtPrompt(p)
  /\ Stop(p, "badCast")
  /\ UNCHANGED <<database, account>>

RemoveAccount(p) ==
  /\ AtPrompt(p)
  /\ Return(p, "GeneralFailure")
  /\ UNCHANGED <<database, account>>
-----------------------------------------------------------------------------
(***************************************************************************)
(* The loop of CliApp::Start, and its end.                                 *)
(***************************************************************************)
\* After the first run the session opens the account named in config.json.
Start(p) ==
  /\ job[p].op = "off"
  /\ HasName(accounts, DefaultAccount)
  /\ account' = [account EXCEPT ![p] = DefaultAccount]
  /\ Return(p, "None")
  /\ UNCHANGED database

Quit(p) ==
  /\ AtPrompt(p)
  /\ Stop(p, "quit")
  /\ UNCHANGED <<database, account>>

\* End of the input at the prompt of the loop.
CloseInput(p) ==
  /\ AtPrompt(p)
  /\ ReturnDeaf(p, "None")
  /\ UNCHANGED <<database, account>>

\* The window is closed or the process is ended, at any point.
Kill(p) ==
  /\ job[p].op # "off"
  /\ Stop(p, "killed")
  /\ UNCHANGED <<database, account>>

\* What the program does next without waiting for the user.
HandlerStep(p) == InsertAccount(p) \/ InsertTag(p) \/ ValidateUpdate(p)
                  \/ WriteUpdate(p)

Answer(p) == ConfirmRemove(p) \/ AnswerNumber(p) \/ AnswerNoNumber(p)

Command(p) ==
  \/ Add(p) \/ AddAccount(p) \/ AddTags(p) \/ Update(p) \/ Remove(p)
  \/ GitPush(p) \/ SwitchAccount(p) \/ List(p) \/ ListNames(p) \/ Report(p)
  \/ CompareMonths(p) \/ AddCategory(p) \/ RemoveAccount(p) \/ Quit(p) \/ CloseInput(p)

Next ==
  \E p \in Proc : Command(p) \/ HandlerStep(p) \/ Answer(p)
                  \/ Start(p) \/ Kill(p)

Spec == Init /\ [][Next]_vars

\* A handler runs on its own, and the user answers the prompts.
LiveSpec ==
  Spec /\ \A p \in Proc : WF_vars(HandlerStep(p)) /\ WF_vars(Answer(p))
-----------------------------------------------------------------------------
(***************************************************************************)
(* Properties.                                                             *)
(***************************************************************************)
FitsColumn(col, value) ==
  /\ col = "name" => value \in Text
  /\ col = "price" => value \in Price \cup {Dot}
  /\ col = "tags" => value \in SUBSET TagName
  /\ col \in {"category_id", "account_id", "row_id"} => value \in RowId
  /\ col = "account" => value \in AccountName

JobOK(j) ==
  /\ j.op \in {"idle", "deaf", "off", "addAccount", "addTags", "update",
              "write", "remove", "gitPush"}
  /\ j.op = "off" => j.cause \in Cause
  /\ j.op = "addAccount" => j.name \in AccountName
  /\ j.op = "addTags" => j.list \in Seq(TagName) /\ j.next \in 1..Len(j.list)
  /\ j.op = "update" => /\ j.id \in RowId /\ j.orig \in Row
                        /\ j.attr \in UserAttrs
                        /\ j.value \in TypedValues(j.attr)
  /\ j.op = "write" => /\ j.id \in RowId /\ j.orig \in Row
                       /\ j.col \in Column /\ FitsColumn(j.col, j.value)
  /\ j.op = "remove" => j.ids \subseteq RowId /\ IsTable(j.shown, Row)

TablesOK ==
  /\ IsTable(categories, CategoryName)
  /\ IsTable(accounts, AccountName)
  /\ IsTable(tags, TagName)
  /\ IsTable(expenses, Row)

ControlOK ==
  /\ DOMAIN job = Proc
  /\ \A p \in Proc : JobOK(job[p])
  /\ result \in [Proc -> Status]

\* The tables hold rows of their columns, and every session is at a point of
\* a handler with the values that the handler has read.
TypeOK == TablesOK /\ ControlOK /\ account \in [Proc -> AccountName]

\* Sessions that look a name up and then insert it (addAccount), or insert it
\* without looking (addTags), never store one twice.
NamesStoredOnce == NamesDiffer(accounts) /\ NamesDiffer(tags)

\* Every expense refers to a category, an account and tags that are there.
\* SQLite does not see to it (foreign_keys is off): it rests on what add and
\* update check, at an earlier statement than the one that writes.
ReferencesResolve ==
  \A i \in DOMAIN expenses :
    Resolves(expenses[i]) /\ KnownTags(expenses[i].tags)

\* Every price can be read back as a double.
PricesReadable == \A i \in DOMAIN expenses : Readable(expenses[i])

\* No session is stopped by what it finds in the expenses table: by a row that
\* refers to nothing, or by a price that is no number.
DataStopsNoSession ==
  \A p \in Proc : job[p].op = "off" =>
    job[p].cause \notin {"danglingKey", "unreadablePrice"}

\* remove asks "Proceed?" under the rows it is going to delete: a row that
\* leaves the table was shown as it is to the user who confirmed.
RemovedRowsWereShown ==
  [][\A i \in DOMAIN expenses \ DOMAIN expenses' :
       \E p \in Proc :
         \/ /\ job[p].op = "remove" /\ i \in DOMAIN job[p].shown
            /\ job[p].shown[i] = expenses[i]
         \/ /\ job[p].op = "write" /\ job[p].col = "row_id"
            /\ job[p].id = i]_vars

\* The inputs of a user who names the columns as the listing does, and whose
\* prices hold a number.
CleanInput ==
  /\ UserAttrs \cap {"category_id", "account_id"} = {}
  /\ Dot \notin UserPrices

LedgerOfSessions == INSTANCE Ledger
  WITH categories <- categories, accounts <- accounts, tags <- tags,
       expenses <- expenses

\* With clean input the sessions, interleaved and stopped as they may be, do
\* only what Ledger promises: in particular, two that update different columns
\* of a row do not undo each other, though each writes from a row it loaded.
ImplementsLedger == LedgerOfSessions!LedgerSpec

\* addTags stores the list from its front: what precedes the name in hand is
\* in the table, also when the command fails at it or the session ends.
TagsStoredInOrder ==
  \A p \in Proc : job[p].op = "addTags" =>
    \A i \in 1..(job[p].next - 1) : HasName(tags, job[p].list[i])

\* addTags reports success only for a list of different new names, all of
\* which are then in the table.
SuccessMeansAllTags ==
  [][\A p \in Proc :
       job[p].op = "addTags" /\ result'[p] = "Success" =>
         \A i \in DOMAIN job[p].list :
           /\ \E t \in DOMAIN tags' : tags'[t] = job[p].list[i]
           /\ \A k \in DOMAIN job[p].list :
                job[p].list[i] = job[p].list[k] => i = k]_vars

\* Every command ends: with a status, or with the session.
CommandEnds ==
  \A p \in Proc :
    job[p].op \in {"addAccount", "addTags", "update", "write", "remove",
                  "gitPush"}
      ~> job[p].op \in {"idle", "deaf", "off"}
=============================================================================
