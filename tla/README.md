# A verified model of the expense manager

This directory holds a TLA+ model of the console expense manager: the modules,
the TLC configurations that check them on small instances, and theorems about
them that the TLA+ proof system checks for every instance. `PROJECT.json` maps
each definition to the lines of source it stands for.

## 1. The system

The program is a C++20 console application. One process reads commands from
standard input, runs the handler of each to its end, and keeps everything in an
SQLite file through a small table layer. Nothing stops a user from opening the
program twice on one file.

| part | source | state | operations |
|---|---|---|---|
| command loop | `CliApp/CliApp.cpp`, `EM/App.cpp` | the input stream (which may have failed), whether the process runs | read a line, parse it, run the handler, print its result; quit; end of input |
| command parser | `CLIParser/` | the valid commands of `Resources/cliConfig.json`, the options of the line in hand | `Parse`, `Validate`, `Clear` |
| action implementor, handlers | `EM/ActionImplementor/`, `EM/ActionHandlers/` | values a handler has loaded between its statements | add, update, remove, addAccount, addTags, addCategory, removeAccount, switchAccount, list, report, compareMonths, git-push, addReminder |
| account manager | `EM/Account/Manager.cpp` | the current account's name | initialise, switch, look up the id, create |
| reports and listing | `EM/ReportHandler.cpp`, `EM/TextTable.h`, `EM/Renderer_TextTable.h`, `EM/Conditions.h` | none | choose rows by conditions, render them |
| table layer | `DBHandler/` | the tables of the file; a map of open tables | Select, SelectById, Insert, Update, Delete, CheckIfExists, CreateTable, ValidateColumns; query text; conditions; dates |
| database start | `EM/DatabaseManager.cpp`, `EM/App.cpp`, the migration headers | the schema, the `migrations` table, the first-run flag | create tables, run each migration once |
| reminders | `AddReminder.cpp`, `CliApp::UpdateReminders` | the `reminders` table | add, show what is due at the start |
| configuration | `EM/ConfigManager.cpp`, `Resources/*.json` | `config.json` | read, after the database is open and before the account is chosen |

How the parts interact: the loop calls the handlers synchronously and a handler
calls the table layer. There are no threads. Concurrency enters in two ways.
Each SQL statement is a transaction of its own (nothing issues BEGIN), so two
processes interleave between any two statements of a handler; and a process
ends between any two statements, when its window is closed, when an exception
reaches `main`, when a debug build meets `assert(false)`, or when code reads
`rows[0]` of an empty vector.

What is hard here, and drives the choice of properties (the full list, with
lines, is under "hazards" in `PROJECT.json`):

- a handler checks a name, a category or a tag in one statement and uses the
  answer in a later one; `update` loads a row, validates and then writes;
  `remove` shows rows, waits for the user, and then deletes by row id;
- `addTags` inserts name by name and may fail half way;
- SQLite is never asked to enforce foreign keys, so that a dangling id can be
  stored, and a later SELECT that follows it takes `rows[0]` of nothing;
- prices are stored as text and converted when they are read; one that is no
  number ends every later command that reads it;
- `std::cin >> answer` may fail the stream, and nothing clears it;
- the database is created and migrated in many autocommitted statements, and
  may be left anywhere between them; whether it is new is asked of another
  directory than the one it is opened in;
- a reminder is validated once, when it is typed, and converted again at every
  later start, with nothing to catch what the conversion throws and no command
  to remove the row.

What makes each part correct:

- data: expenses refer to rows that exist, prices read back, names are stored
  once, an update touches one column of the row the user named, a removal takes
  out what was shown;
- control: each command returns a status, or the session ends; a command that
  reports success has done all its work, and one that fails has done a prefix;
- start: a legacy database is carried over to the present schema, each migration
  runs once, and a start interrupted anywhere can be repeated;
- reminders: what is stored is what the line said, and a start shows what falls
  on its day and nothing else.

## 2. The modules

A line passes `CliParser`, a handler of `Sessions` and, when it reads expenses,
`Queries`; `Startup` establishes what `Sessions` starts from, and `Reminders` is the
whole program for one of its commands: it extends the parser, runs the start and the loop around
it, and gives the accepted line to a handler. `Tables` is extended by all that use
tables.

For the other commands the parser and the handlers are not composed: a session
calls one after the other, so that their product has no interleavings
that the parts do not have. What one takes from another is stated as a property
of the other: `HandlersFindValues` and `ParsedAsMeant` (of `CliParser`) are what the handlers
take for granted of their options, `ReadyForSessions` (of `Startup`) is what `Init` of `Sessions`
takes for granted of the file. `Reminders` is where the composition says more than its parts:
`addReminder` takes an option that the parser does not ask for, so that what it stores
depends on what the singleton still has of the lines before (`StoredAsTyped`).

| module | content |
|---|---|
| `Tables` | what `DBHandler/Table.cpp` asks of an SQLite table, as operators on a function from row ids to rows |
| `Sessions` | the console sessions: each handler, split at its statements where another session can come between |
| `Ledger` | what the database promises its users, with no sessions, handlers or jobs |
| `Startup` | from opening the file to the prompt: the tables, the migrations, the account |
| `Queries` | list, report and compareMonths: from what is asked to conditions, to rows, to totals |
| `CliParser` | the command line parser: from the words of a line to what a handler is given |
| `Dates` | the texts a user gives for a date, and what `DateTime` and the number conversions make of them |
| `Reminders` | the program from line to line and start to start, for the commands on reminders |
| `Diary` | what the reminders promise: entries with days, announced when they are due |
| `MCSessions`, `MCStartup`, `MCQueries`, `MCCliParser`, `MCReminders` | values of the constants for TLC |
| `TablesProofs`, `SessionsProofs`, `LedgerProofs`, `SessionsRefinement`, `StartupProofs`, `QueriesProofs`, `CliParserProofs`, `RemindersProofs` | the lemmas and theorems |

### Sessions

State and code:

- `categories`, `accounts`, `tags`, `expenses`: the tables of the file. An expense
  is a record of the columns that the properties tell apart; `name` stands for
  name, date and location, which the code treats alike (text, never looked at by
  the handlers modelled here). `tags` is a set of names; the stored text is their
  join, so that two writings of one set differ as text. That is why
  `SomethingToSet` and `NothingToSet` overlap for equal sets of tags.
- `job[p]`: where process `p` is in its handler, with the values the handler has
  loaded. `Idle` is the prompt of the loop, `Deaf` the prompt with a failed
  stream, `Off(cause)` no process.
- `account[p]`: `Manager::m_CurrentAccountName`.
- `result[p]`: the `StatusCode` of the last command.

A handler is one action if at most one of its statements can be influenced by,
or be seen by, another session; this is sound because no command removes or
changes a category, an account or a tag, so what a handler has read about
those stays true. It is split otherwise:

| command | actions |
|---|---|
| `add` | `Add` |
| `addAccount` | `AddAccount` (look up), `InsertAccount` |
| `addTags` | `AddTags`, then `InsertTag` for each name |
| `update` | `Update` (load), `ValidateUpdate` (check, turn into a column), `WriteUpdate` |
| `remove` | `Remove` (select, show), then `ConfirmRemove`, `AnswerNumber` or `AnswerNoNumber` |
| `git-push` | `GitPush`, then `AnswerNumber` or `AnswerNoNumber` |
| the others | one action each |

Each way the code can stop is a named cause: `missingRow` (`SelectById` of an id
that is not there), `danglingKey` (`Select` follows a foreign key to nothing),
`unreadablePrice` (`asDouble` throws), `emptyTable` (a generic table is rendered
from its first row), `badCast` (`addCategory`), `badNumber` (`std::stod` or
`std::stoi` throws), `assertion` (`ExecQuery` in a debug build), `quit`, `killed`.
Reading past the end of a vector is undefined behaviour; the model takes the
outcome that the shipped builds have, the end of the process, because the value
read (a `DBModel` behind a null pointer) is used at once.

Texts are abstracted to the classes the code tells apart: `Price` are texts of
numbers, `Dot` a text such as "." or "" that `IsDouble` accepts but `std::stod`
does not, `Word` a text that `IsDouble` refuses.

### Ledger

The abstract specification: open an account, coin a tag, record a good expense,
correct one column of one expense, renumber an expense, take expenses out. An
expense is "good" when its references are there and its price can be read.
`ImplementsLedger` says that the sessions do nothing else: the refinement mapping
is the identity on the four tables, and everything about jobs, prompts, failures
and kills is a stuttering step. What makes it say something is that a session
decides what to write several steps before it writes it.

### Startup

`db` maps the tables of the file to their columns and rows; of the columns, those
that a migration moves or that name a row. `at[p]` is where process `p` is:
`Open` (open the file, decide whether it is new), `CreateMigrationTable`, `Register` (one
table of `Resources/Database/Tables`; the files come in any order), `RunMigration` (is it
recorded?), `ExecQuery` (one statement of a migration), `InsertMigrationToDb` (its record), and
`InitializeAccountManager`. `Migrations` holds the four migrations as sequences of
statements; `Accepted` says which of them SQLite executes in a given file, `After`
what they do, and `Refuse` what `ExecQuery` makes of a refused one: nothing in a release
build, the end of the process in a debug build. `Kill` ends a process between any
two statements and `Open` starts it again. `before`, `misled` and `passedOver` are history variables.
SQLite may refuse any statement of a migration, also one that it could execute (another process holds the file, or the disk is
full); `passedOver` counts those that a release build has gone on after. What the properties promise, they promise
while nothing of that kind has happened (`Undisturbed`: no start misled, nothing passed over); what happens otherwise is
the run `startup_release` and section 3. The refusal of a CREATE TABLE of the present release or of a migration's record by a lock is not
modelled.

`DatabaseManager` looks for a file beside the executable and opens one in the current
directory. Started elsewhere, the two have nothing to do with each other, and
`first[p]` may be wrong either way; `misled` says that this has happened. A misled
start does no harm to a new file or to one of the present release, and the properties are checked for these
(`MayTrust`). On an older database it records the migrations without running them, or lets a
start that runs beside it do so; nothing converts the old tables after that, and
`MayTrust` excludes it. `Upgradable` says what a start must find so that it can carry the file over: the
legacy tables only while the second migration is under way, and for every expense an account
that is there or will be, under its name before the fourth migration and under its id after it.
`StaysUpgradable` says that no start leaves anything else behind. Of an older database `StartupAssumption`
asks no more than SQLite gives: finitely many rows with a value in every column, and one column
in a table of names. `config.json` is read in `InitializeAccountManager`: it names an account, names none, or
cannot be read, which ends the process.

### Queries

A request is a record of the options and flags of a command, as the parser
would hand them over. `ListCondition`, `ReportPeriod` and `WithCategory` build the conditions
as the handlers do, from the classes of `Conditions.h`; `Operator`, `Parses`, `PartHolds` and `Holds`
are what `Condition::ToString` and SQLite make of them. `List` does everything before
the first statement, `ListSelect` and `ListSum` are the two statements of `ProcessDBTable`;
`Report` and `CompareMonths` set up one or several periods, `SelectCategory` is one statement of
`GenerateReport`, `NextMonth` the loop of `CompareAllMonths`. `Write` is another session.
A date is its year and the digits of its month and day, because `3` and `03` are one
month and two texts. `Asked` and `InPeriod` say by the calendar, without texts or
conditions, which expenses a request means; the properties compare the two.
`QueriesAssumption` gives requests the shape in which the parser hands them over, and stored
dates two digits for month and day; a date that is typed may have one where the program
parses it. Prices are whole numbers: the rounding of doubles is not modelled. `Off` is
the end of the process in `compareMonths` when there is no category (see `Renders`).
A listing is a sequence of row ids: `OrderedBy` are the orders that ORDER BY allows, where dates and
names are texts, and `ByCalendar` those of the `std::sort` of a range and of the `std::map` of `--byDate`. It can be
ordered by every column of the table (`OrderColumns`); how the joined text of several tags orders is left open, except that
the empty one comes first, and the rows of a listing all have one `account_id`. ORDER BY would also take the
number of a column or an expression; no request does that.

### CliParser

An argument is what the parser tells of a text: its dashes, the name behind
them, and which tests of `CLIParser/Utils.cpp` it passes. `Parse`, `ValidateFlag`, `ValidateOption`,
`ValidatePlain` and `ValidateEnd` are the loop of `Validate`, one argument per step; `m_Flags` and
`m_UserParameters` survive from line to line as in the singleton. The values of an
option behind the end of the arguments are undefined: some text of `Stray`, or the
end of the process; `strayed` marks such a line. Below the actions the module
states the grammar of the documentation of `CLIParser.h` (`--flag`, `-param value`) on its
own: `WellFormed` and `Meaning` look at the whole line and have no index.

### Reminders

`reminders` is the table, `now` the present day of `Calendar`, `job` what the process does: off, at the
console, looking at the rows of the table (with the day it began and the rows
left), or about to insert a row. The other four variables are those of `CliParser`, which
this module extends; a line is the same record, and an argument has besides the
`fields` between its dashes. `Start`, `Look` and `LookedAtAll` are `UpdateReminders`, one row per
step because the date is asked for at each; `ReadLine` and `ParseLine` are the parser at the
console; `AddReminder` is `Execute` up to its statement, with all that `Validate` throws, and `InsertReminder`
the statement. `list --reminders` ends the program on an empty table, `removeReminders` passes the
parser and has no handler. `NewDay` may come between any two steps and may pass several
days; `Kill` ends the process.

A field (`Dates`) is a number, a word, empty, or a number that no `int` holds: what
`operator>>`, `std::stoi` and `IsNumeric` tell apart. `-5` has an empty field before its dash, which is a
sign for a number and a missing month for a yearly date.

`Diary` knows none of this: entries with the days they are due, a reader who opens
it, is told, and goes away. `ImplementsDiary` maps the table to entries by the days whose date
is spelled so (`FallsOn`), which says nothing of conversions; if midnight passes while the table is
read, what is due on all days of the reading is shown for certain, what is due on one of them
perhaps, and nothing else. A start that is killed, or finds no table, has announced nothing.

## 3. The runs

| run | question | result |
|---|---|---|
| `two_sessions` | do two interleaved sessions do to the tables only what `Ledger` allows; are names unique, can every stored row be resolved and read by either, are lists of tags stored from their front, and does success mean all of it? | holds |
| `any_input` | with any input and asserts on, does every command end, does remove delete what it showed, and is a list with a name twice never reported as stored? | holds |
| `startup` | is anything lost when two processes start, and are ended, anywhere, and statements are refused; is what they leave fit for the next start, and what they reach sound? | holds, unless a release build goes on after refusing what could be executed |
| `queries` | do list, report and compareMonths show and add up what was asked for, in the order asked for (but for a range and `--byDate`, which rearrange it)? | holds |
| `parser` | does the loop accept exactly the grammar, and hand over what the line says? | holds |
| `reminders` | is a reminder stored as typed, does every start show what is due, and can a stored text end a start? | holds |
| `raw_foreign_key` | is a category id checked before it is stored? | violated by `update <id> category_id` |
| `remove_races` | is what is deleted what was shown, with two sessions? | violated |
| `startup_tables` | are the expenses of the first releases carried over? | violated |
| `startup_release` | does a release build keep the accounts when a statement is refused? | violated |
| `list_descending` | does `--descending` list in descending order of date? | violated with `-range` |
| `list_ignores_tags` | does `list -ignoreTags` list? | violated |

What is known beside the violations that have a run:

- `addCategory` always ends the program: the option is a list of values, is stored as one, and the cast throws
  (`AddCategory.cpp:20`; cause `badCast`). `update` of a row id that is not there (`missingRow`) and `list --tags` on an empty table
  (`emptyTable`) read the first element of an empty vector and end it as well. The
  model has these ends; no run is about them.
- `update <id> price .` stores a text that is no number (`Update.cpp:86` asks for a double and `IsDouble` lets it through), and every later command that reads it
  ends. `any_input` types such prices; `two_sessions`, which asks that every price stays readable, does not.
- In a release build a statement of a migration that SQLite refuses does not stop the next one.
  `startup_release` shows what it does to the accounts: the column with the names is dropped although the one with the ids was
  never added, or never filled. In the combining migration it loses expenses: a refused copy is passed over,
  and the DROP TABLE behind it is not (with `AccountsKeptAnyway` replaced by the same of `Entries`, TLC
  finds it from `Stage1Ended`).
- A text column may be NULL in files of earlier releases. `Table::Select` makes of a NULL a value that is no string, and
  `remove` and `list --showTags` end the program at it (`Table.cpp:151`, `TextTable.h:309`). `Upgradable` and
  `ReadyForSessions` therefore ask for tags that are a text, empty or of stored names: a file with NULL tags
  is none that the start makes fit for the sessions, because no migration touches them.
- A date typed without leading zeros is accepted, stored as typed, and missed by filters that compare texts.
- `list -orderBy category` (or `account`) is refused by SQLite, because the columns are called `category_id` and
  `account_id`. A range is sorted anew by date (the comment at `List.cpp:384` says by price), and `--byDate` uses a map, so
  that `--descending` and `-orderBy` do nothing there; `ListedInOrder` claims nothing of such requests.
- With `-orderBy` and `--descending`, the column asked for comes in descending order, and dates only if it is `date`.
- `config.json` is read after the database was created: if it cannot be read, that start was the first run
  all the same, and no account was made.

`compareMonths` while the table of categories is empty, as it is in every new file (`addCategory`, the only command
that would fill it, ends the program), leaves every month out and then reads `reports[0]` of an empty vector
(`TextTable.h:387`), which ends the process. `Queries` has it as `Off`: the theorems hold for no category too,
and the instance of `queries` has two.

Of reminders: `addReminder` without `-dateData`, or with `""`, a lone dash or a number too long for an `int`, ends the
program (an exception that only `main` catches); the type `OneTime` takes days that never
come (`2024-3-x` is day 0, and so are day 0 and month 0 themselves), `Monthly` and `Yearly` take day 0; a `OneTime` reminder
for today is not shown before the next start, since reminders are only looked at there; `dateData`
has an `inOrderIndex` in `cliConfig.json` but cannot be given by its place, because only mandatory
parameters can.

Bounds, and why they are enough:

- `MaxRow` bounds the row id that `add` may be given, in the guard of `Add`: 2
  rows with one session (so that one can be removed, renumbered onto the other,
  and its id given again), 1 with two sessions, where the properties are about
  two handlers meeting in one row or one name. In `Startup` it bounds the guard of `Kill`,
  since a copy that is ended and repeated adds its rows again.
- `UserIds` has one id more than there are rows where a missing row matters.
- two accounts, two tags, two categories (one of which may be missing from the
  table): with two of each, "the same" and "another" are both there. The tag lists
  are a single name, two names, and one name twice.
- `WritesMayFail` lets SQLite refuse any write (locked, full).
- Input sets that are narrowed are so for a question: `two_sessions` leaves out the
  raw column names and the unreadable price, which `any_input` includes again, and `row_id`, which only `any_input` has.
  Its categories have other ids than its expense, so that a wrong id is a dangling one.
- `OldDatabases` in `startup`: a new file, a database whose second migration was ended
  after it had made `expenses`, one with three migrations recorded, and one of
  the present release. Databases with the three tables and no `expenses` are those
  of `startup_tables`.
- `queries`: five rows that differ in every column a filter looks at, with words of
  which one contains another, months of one and of two digits, two years, two
  accounts; requests with every pair of options or an option with a flag; one
  write by another session (`MaxWrite`), which is enough to fall between any two
  statements. The dates typed are as `cliConfig.json` asks for, YYYY-MM-DD, and for
  `-range`, which is parsed, also without zeros.
- `startup`: at most one start is misled about the file; release builds pass over one statement that could be executed
  (`MaxPassedOver`), which is enough to violate what `startup_release` asks; the directory lists the table
  files in one order (in `startup_tables` in two: with the three legacy tables the order decides nothing,
  and both lose them); `config.json` names an account, names none, or cannot be read.
- `reminders`: rows with ids up to 2 (one reminder behind another); four days, among
  them the third of May and the fifth of March, the fifth of another month and of another
  year, two on one weekday; for each type a text that is meant and texts that slip
  through some test (empty, signed, too long, out of bounds, a word); a line
  without the option, with it in front, with its value missing.
- `parser`: every line of up to four words (three for `addAccount`) over a handful of
  words per command: four words hold an option with two values and one more, or
  one mandatory argument too many. Any line may follow any other.
- `queries` also asks for every order with every filter; the prices tell the rows, and the
  dates put day and month in opposite orders.
- No symmetry is declared: the typed values of different attributes are of
  different kinds, and the instances are small enough without.

Deadlock is checked everywhere but in `parser`, where an undefined read may end
the process for good; a session that is off can always be started.

Fairness. In `any_input`: `WF(HandlerStep(p))`, because nothing blocks between
the statements of a handler (there is no busy timeout and no retry), and
`WF(Answer(p))`, the user answers a question that is put. It is not assumed that the user
types another command, starts or quits a session. Under it every command ends
(`CommandEnds`). In `queries`, `parser` and `reminders`: weak fairness of the steps between the start of
a piece of work and its end (`QueryStep`, `ParseStep`, `Work`), because the code runs
through them without waiting. A start is straight-line code, and nothing is claimed of its end. No writer, killer, midnight or next command is assumed to come or to stay away.

## 4. The proofs

TLAPS proves what follows for any values of the constants that satisfy the named assumption, which TLC
evaluates in the runs. Every safety property that a run finds to hold is the conclusion of a theorem, but for
`StoredAsTyped`.

### Sessions

From `SessionsAssumption` (what the constants are), for any number of sessions, names, rows and inputs:

- `TypeCorrect`: `Spec => []TypeOK`. `TypeOK` is not inductive, because `add` stores the
  id of the session's account, which is one only while that account is in its
  table; the invariant is `TypeInv == TypeOK /\ AccountsKnown`.
- `NamesAlwaysDiffer`: `Spec => []NamesStoredOnce`, whatever is typed. It rests on the UNIQUE
  columns and not on the lookup of `addAccount`.
- `TagsAlwaysInOrder` and `SuccessStoresEveryTag`: the names of a list are stored from its front, whoever else
  stores tags, and success means all of them. The invariant is `TagsInv`: while `addTags` runs, the names
  before the one in hand are in the table and differ from each other, because each was new
  when it was stored and nobody takes a tag away. The second part is what makes a list that repeats
  a name fail.
- under `CleanInput` (no raw foreign key columns, no unreadable price):
  `SessionsImplementLedger`, `ReferencesAlwaysResolve`, `PricesAlwaysReadable`,
  `NoSessionStoppedByData`.
- under `OneSession` (`\A p, q \in Proc : p = q`): `LoneSessionRemovesWhatItShowed` (`RemovedRowsWereShown`), for any
  input, failing writes and kills, by the invariant `NothingStale` (what a handler holds is what the table holds). The
  hypothesis is needed: `remove_races` violates it with two sessions.
- `LedgerSound`: `LedgerSpec => []LedgerInv`, the abstract specification keeps its rows good.

The argument for the theorems under `CleanInput` is one invariant, `DataInv`: the types; the rows
are good (`LedgerInv`, taken from `LedgerProofs` through an instance); what a session is
about to write is still good (`WriteGood`), although it was validated an earlier
step, because a step of `Ledger` never takes a name away; and nobody has been
stopped by data. Each action gets one lemma (`AddSimulates`, ...): it is a step of
`Ledger` or leaves the tables alone, and leaves behind only a job that is harmless.
`StepKeepsData` then does the induction once for all actions. That
`raw_foreign_key` is violated shows that the first part of `CleanInput` is needed; the price
`.` shows it of the second.

### Startup

From `StartupAssumption`, for any number of processes, started and ended at any statement, and any files:

- `StartupTypeCorrect`: `Spec => []TypeOK`. `TypeInv` adds that the rows of a table have exactly its
  columns, and that the row ids stay finite in number, without which there is no next one.
- under `UpgradableFiles`: `UpgradeLosesNothing` (`NoExpenseLost`), `UpgradeKeepsAccounts` (`AccountsKept`),
  `PromptFindsItsTables` (`ReadyForSessions`) and `FileStaysUpgradable` (`StaysUpgradable`).

`UpgradableFiles` are the new file and the databases that the first migration has been through and whose
table of expenses the second one has made, with any rows, and all later ones. This is needed: the run
`startup_tables` is a database before that, whose expenses are lost. Nothing is assumed of the build or of what SQLite
refuses; the four properties are guarded by `Undisturbed`, which the history decides, and `startup_release` shows what
becomes of the accounts without that guard.

The invariant is `UpgradeInv`. Of the file it says that it is `Upgradable` and that the history is kept
(`HistoryKept`: the expenses of the file that was opened are in a legacy table or in `expenses`, with their
accounts). Of every start it says what that start may rely on (`StartInv`): a migration that it is past is recorded
and has done its work (`MigrationsDone`), in the second one each legacy table that it has copied is in `expenses` and
each that is still there it has yet to drop (`Combining`), in the fourth one the ids that it has stored are those of the
accounts named (`Owning`). All of it survives the statements of other starts, which may be
anywhere in the same migrations. `NoneMisled` adds that nobody takes an old file for new.

### Queries

From `QueriesAssumption`, for any table, words, categories, requests and writes of other sessions:

- `QueriesTypeCorrect`: `Spec => []TypeOK`;
- `ListShowsWhatIsAsked` (`ListedAsAsked`): for every request that SQLite accepts, the rows are those that the options
  ask for by the calendar;
- `ListingsInOrder` (`ListedInOrder`): where list keeps the order of the line (`OrderKept`), the rows come in it, for any
  column and either direction; with a range or by date that leaves the requests without `-orderBy` and `--descending`;
- `TotalMatches` (`TotalOfShown`), `ReportsAlwaysAddUp` (`ReportsAddUp`) and `ComparisonsComplete`
  (`ComparisonComplete`).

They are about rows whose dates are stored with leading zeros. This is needed: dates are compared as texts, and a
date stored as typed without them is missed (section 3).

Three parts carry the proofs. First, the order of two dates as texts is that of their days
(`TextOrder`, `DayNumberEqual`), and each condition, alone and joined to others, means what was asked for
(`ConcatCondition` and one lemma per option, then `ListConditionMeans`). Second, sums over finite sets: the library
defines them by recursion over subsets, and an induction cannot be stated; in its place each fact is proved of the smallest set
for which it would fail (`SmallestSet`). Third, the invariants. `SinceInv` says that a command began at no
later write than the last, so that "no write since" is a statement about one table. `ReportInv` says that what has been
read of a period, for the categories before the `k`-th, is the sum over the rows of that period in those
categories; the categories part the rows, so that at the last one it is all of them, and leaving a
category with nothing out changes nothing.

### CliParser

From `CliParserAssumption` (the mandatory parameters of a command have the indexes 1 to N, and
take one value each, as in `cliConfig.json`), for any commands and lines:

- `ParserTypeCorrect`: `Spec => []TypeOK`, and `ParserHandlersFindValues`: `Spec => []HandlersFindValues`, also for lines
  whose last option was read past the end of the arguments;
- `ParserAcceptsWellFormed`: `Spec => []AcceptsWellFormed`, the loop accepts what the grammar calls well formed and rejects
  everything else, except that a line whose last option lacks a value may be accepted;
- `ParserMeansTheLine`: `Spec => []ParsedAsMeant`, what the handler is given is what the whole line says, and nothing of
  an earlier line.

None is inductive. For the last two the invariant is `MeaningInv`: at each turn of the loop either the parser is
`OnTrack`, at a head of the line, with exactly the flags and parameters that the heads before it give and the count of the plain
arguments among them; or the line is `Doomed`, not well formed and certain to be rejected (or read past its end). Only
`WellFormed` and `Meaning` look at the whole line, so that this is where the index of the loop and the grammar meet.

For the first two, `ParserInv` adds that the line in hand is that of the current command
(`StepOK`), that what is kept belongs to it (`KeptOK`), that as long as no argument was found wrong every
parameter kept has all its values (`ValuesCounted`: the inner loop leaves early only with `isValid`
false), and that every mandatory parameter whose index is below `mandatoryOptionIndex` has a value
(`MandatoryCounted`); `ParameterAtIndexFound`, which rests on the indexes, makes the step from the
counter to the parameter.

### Reminders

From `RemindersAssumption` besides (the calendar is one; `name` and `type` of `addReminder` are mandatory), for any
calendar, lines and number of rows:

- `RemindersTypeCorrect`: `ProgramSpec => []RemindersOK`;
- `NoStoredReminderThrows`: `ProgramSpec => []NoReminderStopsAStart`;
- `RemindersKeepTheDiary`: `ProgramSpec => ImplementsDiary`.

The invariant is `ProgramInv`: the parser's; `RowsOK`, that every stored row is `Sound`, of a known type and with
fields of the shape its type is converted by, which is more than not throwing today; and `JobOK`,
that a row about to be inserted is sound already, and that while the
table is read what is shown are rows due on some day of the reading, among them all that were passed and are due on every day
(`LookingOK`). `ValidatedSound` is the heart of it: what `AddReminder::Validate` lets through is sound. A lemma
says when the conversions of `UpdateReminders` and the spelling of a date agree (`Due` and
`FallsOn`); with it each action is one step of `Diary` or none.

### Only model-checked

- The liveness properties `CommandEnds`, `QueryEnds`, `ParseEnds` and `BackAtConsole`: liveness under fairness
  is out of the prover's reach.
- `StoredAsTyped` of `Reminders`, which compares a stored row with the meaning of the whole line, two
  modules apart.
- With two sessions `RemovedRowsWereShown` does not hold; it is a property of one.
- The sums of `Queries` are of whole numbers; nothing is said of doubles.

## 5. What is not modelled, and the plan

Order of the work, the most important first:

1. sessions on the tables, their refinement and its proof (`Sessions`, `Ledger`; done);
2. the start of the database (`Startup`; done);
3. the commands that read (`Queries`; done, the order of the rows included);
4. the parser (`CliParser`; done and proved);
5. reminders (`Reminders`, `Diary`; done and proved but for `StoredAsTyped`);
6. proofs: all safety properties of `Startup`, `Queries`, `CliParser` and `Sessions` are done. Left:
   `StoredAsTyped`, from `MeaningInv` of the parser and what the program still has of earlier lines.

Not modelled yet: the hours of the clock, on which only `GetYesterday` depends (now minus 24
hours, which is not yesterday for an hour or two of the days on which clocks are changed); dates stored without leading
zeros.

Left out for good: rendering of tables beyond what can stop it, colours and
help texts (layout); the vendored SQLite, its C++ wrapper, jsoncpp and libgit2,
modelled from how the program uses them (they are most of the repository's lines); the project files of Visual Studio.
