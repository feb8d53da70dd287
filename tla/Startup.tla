------------------------------- MODULE Startup -------------------------------
(***************************************************************************)
(* The start of the program, from opening the database file to the prompt: *)
(* App::InitializeDatabase creates the tables that are missing and runs    *)
(* the migrations that are not recorded, and InitializeAccountManager      *)
(* chooses the account.  Each SQL statement is a transaction of its own,   *)
(* so that a start may be ended between any two of them and repeated, and  *)
(* several processes may start on one file.                                *)
(*                                                                         *)
(* A database maps its tables to their columns and their rows; of the      *)
(* columns only those are kept that a migration moves, adds or drops, or   *)
(* that name a row.                                                        *)
(***************************************************************************)
EXTENDS Tables, Sequences, FiniteSets

CONSTANTS
  Proc,             \* the processes
  AccountName,      \* the names a user may type for an account
  Aditya,           \* the account that the migrations name
  Configs,          \* what config.json may say when it is read: the default
                    \* account, NoAccount, or that it is Unreadable
  NoAccount, Unreadable,
  Marriage,         \* the tag that a migration makes
  Null,             \* SQL's NULL
  NoTags,           \* the empty text, which an expense without tags has
  OldDatabases,     \* what may be in the file before the first start
  Directories,      \* where it is started, of "own" (beside the executable)
                    \* and "other"
  FileOrders,       \* the orders in which a directory may list its files
  MaxRow,           \* bound: the expenses after which no start is ended
  Builds,           \* the builds that are started, of "debug" and "release"
  MaxPassedOver     \* bound: the statements that release builds pass over
                    \* although they could be executed

\* Resources/Database/Tables: the tables and columns of the present release.
JsonColumns ==
  [accounts |-> {"name"}, categories |-> {"name"}, reminders |-> {"name"},
   tags |-> {"name"},
   expenses |-> {"name", "tags", "category_id", "account_id"}]

LegacyTable == {"household_expense", "personal_expense", "marriage_expense"}

TableName == DOMAIN JsonColumns \cup LegacyTable \cup {"migrations"}

\* The tables that keep no column but the name of a row.
TablesOfNames == TableName \ (LegacyTable \cup {"expenses"})

\* A table has an id and a value in every column for each of its rows.
Rectangular(table) ==
  /\ DOMAIN table = {"cols", "rows"}
  /\ DOMAIN table.rows \subseteq RowId
  /\ \A i \in DOMAIN table.rows : DOMAIN table.rows[i] = table.cols

\* Whatever release has made the file, its tables are tables, and finite.
ASSUME StartupAssumption ==
  /\ \A d \in OldDatabases :
       /\ DOMAIN d \subseteq TableName
       /\ \A t \in DOMAIN d :
            Rectangular(d[t]) /\ IsFiniteSet(DOMAIN d[t].rows)
       /\ \A t \in DOMAIN d \cap TablesOfNames : d[t].cols = {"name"}
  /\ Null \notin RowId
  /\ Aditya \in AccountName /\ NoAccount # Unreadable
  /\ AccountName \cap {NoAccount, Unreadable} = {}
  /\ Configs \subseteq AccountName \cup {NoAccount, Unreadable}
  /\ {MaxRow, MaxPassedOver} \subseteq Nat /\ Directories \subseteq {"own", "other"}
  /\ \A files \in FileOrders :
       /\ files \in Seq(DOMAIN JsonColumns) /\ Len(files) = 5
       /\ {files[i] : i \in 1 .. 5} = DOMAIN JsonColumns
  /\ Builds \subseteq {"debug", "release"}

\* account_id of a row that `default -1' has filled in.
Unset == 0

VARIABLES
  db,      \* the tables in the file: name -> columns and rows
  fileIsThere,  \* the file exists
  at,      \* at[p]: what process p does next
  first,   \* first[p]: m_IsNewlyCreatedDatabase
  build,   \* the build: assert() ends a debug build
  before,  \* history: the database before the first start
  misled,  \* history: a start took the database for new, or for old, wrongly
  passedOver  \* history: how many statements of migrations a release build
              \* has passed over that SQLite could have executed

vars == <<db, fileIsThere, at, first, build, before, misled, passedOver>>

Exists(t) == t \in DOMAIN db

WithTable(t, table) ==
  [u \in DOMAIN db \cup {t} |-> IF u = t THEN table ELSE db[u]]

NewTable(columns) == [cols |-> columns, rows |-> EmptyTable]

RowIdsIn(d, t) == IF t \in DOMAIN d THEN DOMAIN d[t].rows ELSE {}
NamesIn(d, t) == {d[t].rows[i].name : i \in RowIdsIn(d, t)}
Names(t) == NamesIn(db, t)

InsertedName(t, n) ==
  WithTable(t, [db[t] EXCEPT !.rows =
    WithRow(@, CHOOSE id \in NextRowId(@) : TRUE, [name |-> n])])

\* select row_id from t where name = n
IdOfName(t, n) ==
  IF n \in Names(t)
  THEN CHOOSE i \in DOMAIN db[t].rows : db[t].rows[i].name = n
  ELSE Null

Off == [op |-> "off"]

Init ==
  /\ db \in OldDatabases
  /\ fileIsThere = (DOMAIN db # {})
  /\ at = [p \in Proc |-> Off]
  /\ first = [p \in Proc |-> FALSE]
  /\ build \in Builds
  /\ before = db /\ misled = FALSE /\ passedOver = 0

Goto(p, next) == at' = [at EXCEPT ![p] = next]
-----------------------------------------------------------------------------
(***************************************************************************)
(* The statements of the migrations.                                       *)
(***************************************************************************)
CreateTable(t, columns) == [do |-> "create", table |-> t, cols |-> columns]
AddColumn(t, c, value) ==
  [do |-> "addColumn", table |-> t, col |-> c, value |-> value]
\* update t set c = (select row_id from other where name = t.text)
FillColumn(t, c, other, text) ==
  [do |-> "fill", table |-> t, col |-> c, from |-> other, text |-> text]
DropColumn(t, c) == [do |-> "dropColumn", table |-> t, col |-> c]
InsertName(t, n) == [do |-> "insert", table |-> t, name |-> n]
CopyRows(t) == [do |-> "copy", table |-> t]
DropTable(t) == [do |-> "drop", table |-> t]

ForTable(t) ==
  <<AddColumn(t, "category_id", Null),
    FillColumn(t, "category_id", "categories", "category"),
    DropColumn(t, "category")>>

AddCategoryIdForeignKey ==
  ForTable("household_expense") \o ForTable("personal_expense")
    \o ForTable("marriage_expense")

CombineDropsFirst ==
  <<InsertName("tags", Marriage),
    CreateTable("expenses", {"name", "tags", "category_id", "account"}),
    DropTable("household_expense"), CopyRows("household_expense"),
    CopyRows("personal_expense"), DropTable("personal_expense"),
    CopyRows("marriage_expense"), DropTable("marriage_expense")>>

CombineAllExpenseTableIntoOne ==
  <<InsertName("tags", Marriage),
    CreateTable("expenses", {"name", "tags", "category_id", "account"}),
    CopyRows("household_expense"), CopyRows("personal_expense"),
    CopyRows("marriage_expense"), DropTable("household_expense"),
    DropTable("personal_expense"), DropTable("marriage_expense")>>

AddAccountTable ==
  <<CreateTable("accounts", {"name"}), InsertName("accounts", Aditya)>>

AddAccountIdDropsFirst ==
  <<AddColumn("expenses", "account_id", Unset), DropColumn("expenses", "account"),
    FillColumn("expenses", "account_id", "accounts", "account")>>

AddAccountIdAsForeignKey ==
  <<AddColumn("expenses", "account_id", Unset),
    FillColumn("expenses", "account_id", "accounts", "account"),
    DropColumn("expenses", "account")>>

\* In the order of DatabaseManager::RunMigrations.
Migrations ==
  <<AddCategoryIdForeignKey, CombineAllExpenseTableIntoOne, AddAccountTable,
    AddAccountIdAsForeignKey>>

HasColumn(t, c) == Exists(t) /\ c \in db[t].cols

FilledWithFirst(s) ==
  [i \in DOMAIN db[s.table].rows |->
    [db[s.table].rows[i] EXCEPT
       ![s.col] = CHOOSE k \in RowIdsIn(db, s.from) :
                    \A j \in RowIdsIn(db, s.from) : k <= j]]

\* The rows after `fill': NOT NULL holds for account_id.
Filled(s) ==
  [i \in DOMAIN db[s.table].rows |->
    [db[s.table].rows[i] EXCEPT
       ![s.col] = IdOfName(s.from, db[s.table].rows[i][s.text])]]

SomeNull(s) ==
  /\ s.col = "account_id"
  /\ \E i \in DOMAIN Filled(s) : Filled(s)[i].account_id = Null

\* SQLite can execute s.  name is UNIQUE in the tables of names.
Accepted(s) ==
  \/ s.do = "create" /\ ~Exists(s.table)
  \/ s.do = "addColumn" /\ Exists(s.table) /\ ~HasColumn(s.table, s.col)
  \/ /\ s.do = "fill" /\ Exists(s.from)
     /\ HasColumn(s.table, s.col) /\ HasColumn(s.table, s.text)
     /\ ~SomeNull(s)
  \/ s.do = "dropColumn" /\ HasColumn(s.table, s.col)
  \/ s.do = "insert" /\ Exists(s.table) /\ s.name \notin Names(s.table)
  \/ /\ s.do = "copy" /\ HasColumn(s.table, "category_id")
     /\ HasColumn("expenses", "account")
  \/ s.do = "drop" /\ Exists(s.table)

\* The rows of expenses after the rows of t are put behind them.
Copied(t) ==
  LET old == db["expenses"].rows
      last == CHOOSE id \in NextRowId(old) : TRUE
      new == [k \in {last + i : i \in DOMAIN db[t].rows} |->
                db[t].rows[k - last]]
      value(row, c) ==
        CASE c = "account" -> Aditya
          [] c = "account_id" -> Unset
          [] c = "tags" /\ t = "marriage_expense" -> Marriage
          [] OTHER -> row[c]
  IN  [i \in DOMAIN old \cup DOMAIN new |->
         IF i \in DOMAIN old THEN old[i]
         ELSE [c \in db["expenses"].cols |-> value(new[i], c)]]

\* The database after s.
After(s) ==
  CASE s.do = "create" -> WithTable(s.table, NewTable(s.cols))
    [] s.do = "addColumn" ->
         WithTable(s.table,
           [cols |-> db[s.table].cols \cup {s.col},
            rows |-> [i \in DOMAIN db[s.table].rows |->
                       [c \in db[s.table].cols \cup {s.col} |->
                         IF c = s.col THEN s.value
                         ELSE db[s.table].rows[i][c]]]])
    [] s.do = "fill" ->
         WithTable(s.table, [db[s.table] EXCEPT !.rows = Filled(s)])
    [] s.do = "dropColumn" ->
         WithTable(s.table,
           [cols |-> db[s.table].cols \ {s.col},
            rows |-> [i \in DOMAIN db[s.table].rows |->
                       [c \in db[s.table].cols \ {s.col} |->
                         db[s.table].rows[i][c]]]])
    [] s.do = "insert" -> InsertedName(s.table, s.name)
    [] s.do = "copy" ->
         WithTable("expenses",
           [db["expenses"] EXCEPT !.rows = Copied(s.table)])
    [] s.do = "drop" -> [u \in DOMAIN db \ {s.table} |-> db[u]]

\* ExecQuery: what SQLite refuses is passed over, unless assert() is there.
Refuse(p, next) ==
  /\ UNCHANGED db
  /\ \/ build = "release" /\ Goto(p, next)
     \/ build = "debug" /\ Goto(p, Off)
-----------------------------------------------------------------------------
(***************************************************************************)
(* The start, step by step.                                                *)
(***************************************************************************)
\* DatabaseManager looks for a file beside the executable and opens that of
\* the current directory, creating it; started elsewhere the two have nothing to
\* do with each other.  Bound: one start is misled by that.
Open(p) ==
  /\ at[p].op = "off"
  /\ \/ first' = [first EXCEPT ![p] = ~fileIsThere] /\ UNCHANGED misled
     \/ /\ "other" \in Directories /\ ~misled
        /\ first' = [first EXCEPT ![p] = fileIsThere] /\ misled' = TRUE
  /\ fileIsThere' = TRUE
  /\ Goto(p, [op |-> "migrationsTable"])
  /\ UNCHANGED <<db, build, before, passedOver>>

CreateMigrationTable(p) ==
  /\ at[p].op = "migrationsTable"
  /\ db' = IF Exists("migrations") THEN db
           ELSE WithTable("migrations", NewTable({"name"}))
  /\ \E files \in FileOrders : Goto(p, [op |-> "register", left |-> files])
  /\ UNCHANGED <<fileIsThere, first, build, before, misled, passedOver>>

\* Table::ValidateColumns compares the number of columns first.  A column that
\* is NOT NULL can be added only while the table is empty.
MissingColumns(t) ==
  IF Cardinality(db[t].cols) = Cardinality(JsonColumns[t]) THEN {}
  ELSE JsonColumns[t] \ db[t].cols

\* CreateTableFromJson for the next of the files.
Register(p) ==
  /\ at[p].op = "register"
  /\ LET t == Head(at[p].left)
         next == IF Len(at[p].left) = 1 THEN [op |-> "migrate", n |-> 1]
                 ELSE [op |-> "register", left |-> Tail(at[p].left)]
     IN    IF ~Exists(t)
           THEN db' = WithTable(t, NewTable(JsonColumns[t])) /\ Goto(p, next)
           ELSE IF MissingColumns(t) = {}
           THEN UNCHANGED db /\ Goto(p, next)
           ELSE IF db[t].rows = EmptyTable
           THEN /\ db' = WithTable(t, NewTable(db[t].cols \cup JsonColumns[t]))
                /\ Goto(p, next)
           ELSE Refuse(p, next)
  /\ UNCHANGED <<fileIsThere, first, build, before, misled, passedOver>>

LastForgotten(n) ==
  IF n + 1 >= Len(Migrations) THEN [op |-> "account"]
  ELSE [op |-> "migrate", n |-> n + 1]

AfterMigration(n) ==
  IF n = Len(Migrations) THEN [op |-> "account"]
  ELSE [op |-> "migrate", n |-> n + 1]

Recorded(n) == n \in Names("migrations")

\* Database_SQLite::RunMigration
RunMigration(p) ==
  /\ at[p].op = "migrate"
  /\ LET n == at[p].n IN
     \/ first[p] /\ Goto(p, [op |-> "record", n |-> n])
     \/ ~first[p] /\ Recorded(n) /\ Goto(p, AfterMigration(n))
     \/ ~first[p] /\ ~Recorded(n) /\ Goto(p, [op |-> "run", n |-> n, k |-> 1])
  /\ UNCHANGED <<db, fileIsThere, first, build, before, misled, passedOver>>

AfterStatement(n, k) ==
  IF k = Len(Migrations[n]) THEN [op |-> "record", n |-> n]
  ELSE [op |-> "run", n |-> n, k |-> k + 1]

\* What SQLite could execute it may refuse as well, when another process holds
\* the file or the disk is full.
ExecQuery(p) ==
  /\ at[p].op = "run"
  /\ LET s == Migrations[at[p].n][at[p].k]
         next == AfterStatement(at[p].n, at[p].k)
     IN  \/ /\ Accepted(s) /\ db' = After(s) /\ Goto(p, next)
            /\ UNCHANGED passedOver
         \/ ~Accepted(s) /\ Refuse(p, next) /\ UNCHANGED passedOver
         \/ /\ Accepted(s) /\ Refuse(p, next)
            /\ passedOver' = IF build = "release" THEN passedOver + 1
                              ELSE passedOver
            /\ passedOver' <= MaxPassedOver
  /\ UNCHANGED <<fileIsThere, first, build, before, misled>>

\* The name is the primary key of the migrations table.
InsertMigrationToDb(p) ==
  /\ at[p].op = "record"
  /\ LET n == at[p].n IN
     \/ /\ ~Recorded(n)
        /\ db' = InsertedName("migrations", n)
        /\ Goto(p, AfterMigration(n))
     \/ Recorded(n) /\ Refuse(p, AfterMigration(n))
  /\ UNCHANGED <<fileIsThere, first, build, before, misled, passedOver>>

Ready(name) == [op |-> "ready", account |-> name]

\* Manager::CreateAccount, whose answer is not looked at.
AccountCreated(name) ==
  IF name \in Names("accounts") THEN db ELSE InsertedName("accounts", name)

\* The names that may come from GetDefaultAccount or from the user.
NameFrom(config) == IF config \in AccountName THEN {config} ELSE AccountName

\* config.json is read first, and what cannot be read ends the process.  On the
\* first run the user types a name and the account is created if it is not
\* there; later the name is that of config.json or is typed again, and must be
\* there.
InitializeAccountManager(p) ==
  /\ at[p].op = "account"
  /\ \/ Unreadable \in Configs /\ UNCHANGED db /\ Goto(p, Off)
     \/ /\ first[p] /\ Configs \ {Unreadable} # {}
        /\ \E name \in AccountName :
             /\ db' = AccountCreated(name)
             /\ Goto(p, Ready(name))
     \/ /\ ~first[p] /\ UNCHANGED db
        /\ \E config \in Configs \ {Unreadable} : \E name \in NameFrom(config) :
             \/ name \in Names("accounts") /\ Goto(p, Ready(name))
             \/ name \notin Names("accounts") /\ Goto(p, Off)
  /\ UNCHANGED <<fileIsThere, first, build, before, misled, passedOver>>

Quit(p) ==
  /\ at[p].op = "ready"
  /\ Goto(p, Off)
  /\ UNCHANGED <<db, fileIsThere, first, build, before, misled, passedOver>>

\* The process is ended at any point.  Ended in the middle of a copy it copies
\* again at the next start, hence the bound.
Kill(p) ==
  /\ at[p].op # "off"
  /\ Exists("expenses") => Cardinality(DOMAIN db["expenses"].rows) <= MaxRow
  /\ Goto(p, Off)
  /\ UNCHANGED <<db, fileIsThere, first, build, before, misled, passedOver>>

StartStep(p) ==
  \/ CreateMigrationTable(p) \/ Register(p) \/ RunMigration(p)
  \/ ExecQuery(p) \/ InsertMigrationToDb(p) \/ InitializeAccountManager(p)

Next == \E p \in Proc : Open(p) \/ StartStep(p) \/ Quit(p) \/ Kill(p)

Spec == Init /\ [][Next]_vars
-----------------------------------------------------------------------------
(***************************************************************************)
(* Properties.                                                             *)
(***************************************************************************)
Entries(d) ==
  UNION {NamesIn(d, t) : t \in LegacyTable \cup {"expenses"}}

\* The name of the account that row i of expenses belongs to.
AccountOf(d, i) ==
  LET row == d["expenses"].rows[i] IN
  IF "account" \in d["expenses"].cols THEN row.account
  ELSE IF "account_id" \in DOMAIN row
          /\ row.account_id \in DOMAIN d["accounts"].rows
  THEN d["accounts"].rows[row.account_id].name
  ELSE Null

StepOK(s) ==
  /\ s.op \in {"off", "migrationsTable", "register", "migrate", "run",
               "record", "account", "ready"}
  /\ s.op = "register" =>
       s.left # <<>> /\ s.left \in Seq(DOMAIN JsonColumns)
  /\ s.op \in {"migrate", "run", "record"} => s.n \in DOMAIN Migrations
  /\ s.op = "run" => s.k \in DOMAIN Migrations[s.n]
  /\ s.op = "ready" => s.account \in AccountName

\* Every row has the columns of its table, and every start is at one of its
\* statements.
TypeOK ==
  /\ DOMAIN db \subseteq TableName
  /\ \A t \in DOMAIN db : Rectangular(db[t])
  /\ fileIsThere \in BOOLEAN /\ misled \in BOOLEAN
  /\ passedOver \in 0 .. MaxPassedOver
  /\ first \in [Proc -> BOOLEAN]
  /\ build \in Builds
  /\ DOMAIN at = Proc /\ \A p \in Proc : StepOK(at[p])

\* No start was misled, or there was nothing a misled start could leave
\* behind: the file was new, or of the present release with all migrations recorded.
MayTrust ==
  \/ ~misled
  \/ DOMAIN before = {}
  \/ DOMAIN Migrations \subseteq NamesIn(before, "migrations")

\* Nothing but what the file held and the statements of the migrations decides
\* what becomes of it: no start was misled about it, and no release build has
\* gone on after the refusal of a statement that could be executed.
Undisturbed == MayTrust /\ passedOver = 0

\* No expense of an older database is lost, at no point of a start, wherever
\* starts are ended and repeated, and whatever SQLite refuses: a debug build
\* ends there, and a release build passes over what it cannot execute.
NoExpenseLost == Undisturbed => Entries(before) \subseteq Entries(db)

KeepsAccounts ==
  "expenses" \in DOMAIN before =>
    \A i \in DOMAIN before["expenses"].rows :
      /\ i \in DOMAIN db["expenses"].rows
      /\ AccountOf(db, i) = AccountOf(before, i)

\* An expense of an older database stays where it is and with the account it
\* had, also while its account moves from one column to another.
AccountsKept == Undisturbed => KeepsAccounts

\* The same whatever a release build passes over.  It does not hold: nothing
\* looks at the answer of ExecQuery, and the column is dropped unread.
AccountsKeptAnyway == MayTrust => KeepsAccounts

\* What Sessions takes for granted when a session opens: all migrations are
\* recorded, expenses has the columns of the present release and no legacy
\* table is left, the account is there, and every expense refers to a
\* category and an account that are there and has a tag that is there or the
\* empty text.  A start that was misled about the file leaves it so as well if
\* the file was new or of the present release.
ReadyForSessions ==
  \A p \in Proc : Undisturbed /\ at[p].op = "ready" =>
    /\ DOMAIN Migrations \subseteq Names("migrations")
    /\ DOMAIN JsonColumns \subseteq DOMAIN db
    /\ DOMAIN db \cap LegacyTable = {}
    /\ db["expenses"].cols = JsonColumns["expenses"]
    /\ at[p].account \in Names("accounts")
    /\ \A i \in DOMAIN db["expenses"].rows :
         LET row == db["expenses"].rows[i] IN
         /\ row.category_id \in DOMAIN db["categories"].rows
         /\ row.account_id \in DOMAIN db["accounts"].rows
         /\ row.tags \in {NoTags} \cup Names("tags")

\* What a table of expenses needs of the tables beside it.  The tags are a text:
\* out of a NULL Table::Select makes what no command can show.
RowRefers(d, row) ==
  /\ row.category_id \in RowIdsIn(d, "categories")
  /\ row.tags \in {NoTags} \cup NamesIn(d, "tags")

\* The tables of the first releases have been through the first migration, and
\* not through the second one, whose table of expenses is there already.
LegacyUpgradable(d) ==
  \A t \in DOMAIN d \cap LegacyTable :
    /\ d[t].cols = {"name", "tags", "category_id"}
    /\ \A i \in DOMAIN d[t].rows : RowRefers(d, d[t].rows[i])
    /\ 1 \in NamesIn(d, "migrations") /\ 2 \notin NamesIn(d, "migrations")
    /\ "expenses" \in DOMAIN d /\ "account" \in d["expenses"].cols

\* An expense names its account, one that is there or will be made by the third
\* migration, until the fourth one; then it has the id of one.
ExpensesUpgradable(d) ==
  LET table == d["expenses"] IN
  "expenses" \in DOMAIN d =>
    /\ {"name", "tags", "category_id"} \subseteq table.cols
    /\ table.cols \subseteq JsonColumns["expenses"] \cup {"account"}
    /\ \A i \in DOMAIN table.rows : RowRefers(d, table.rows[i])
    /\ "account" \in table.cols =>
         /\ 4 \notin NamesIn(d, "migrations")
         /\ 3 \in NamesIn(d, "migrations") => Aditya \in NamesIn(d, "accounts")
         /\ \A i \in DOMAIN table.rows :
              table.rows[i].account \in NamesIn(d, "accounts") \cup {Aditya}
    /\ "account" \notin table.cols =>
         /\ "account_id" \in table.cols
         /\ \A i \in DOMAIN table.rows :
              table.rows[i].account_id \in RowIdsIn(d, "accounts")

Upgradable(d) == LegacyUpgradable(d) /\ ExpensesUpgradable(d)

\* A start that is ended leaves a database behind that the next one can
\* upgrade, wherever it is ended and whoever else is at it.
StaysUpgradable == Undisturbed => Upgradable(db)
=============================================================================
