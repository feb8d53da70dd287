------------------------------- MODULE Queries -------------------------------
(***************************************************************************)
(* The commands that read expenses: list, report and compareMonths.  Each  *)
(* translates what the user asks for into conditions, which                *)
(* Condition::ToString turns into SQL, and reads the table in one or more  *)
(* statements; another session may write between two of them.              *)
(*                                                                         *)
(* A text is a word of Alphabet; a date as it is typed or stored is a record *)
(* of its year and of the digits of its month and of its day, so that 3    *)
(* and 03 are the same month and different texts.                          *)
(***************************************************************************)
EXTENDS Tables, Integers, Sequences, FiniteSetsExt, SequencesExt

CONSTANTS
  Alphabet,      \* names, locations and tags, in the order of their texts
  Within,        \* pairs of words: the text of the first contains the second
  Categories,    \* the ids in the categories table, in its order
  TagsTable,     \* the names in the tags table
  CurrentAccount,
  Today,         \* the current date
  Yesterday,
  Accounts,
  None,          \* the option is absent
  RowValues,     \* the rows that sessions write
  Tables0,       \* the contents of expenses to begin with
  ListRequests,  \* what is asked of list, of report and of compareMonths
  ReportRequests,
  CompareRequests,
  MaxWrite       \* bound on the writes of other sessions

VARIABLES
  expenses,  \* row id -> row
  job,       \* the command that is executed
  writes     \* the number of writes of other sessions

vars == <<expenses, job, writes>>
-----------------------------------------------------------------------------
(***************************************************************************)
(* What is stored and what is asked.  A date is stored with two digits for  *)
(* month and day; it may be typed with one where the program parses it.    *)
(***************************************************************************)
Texts == ToSet(Alphabet)
CategoryIds == ToSet(Categories)

TwoDigits == [1 .. 2 -> 0 .. 9]
TypedDigits == [1 .. 1 -> 0 .. 9] \cup TwoDigits
StoredDate == [y : Nat, m : TwoDigits, d : TwoDigits]
TypedDate == [y : Nat, m : TypedDigits, d : TypedDigits]

ExpenseRow ==
  [name : Texts, category : CategoryIds, tags : SUBSET Texts,
   account : Accounts, location : Texts, date : StoredDate, price : Nat]

Optional(values) == values \cup {None}

\* The columns of expenses, and what the listing calls two of them.  (ORDER BY
\* takes numbers and expressions as well, which are left out.)
OrderColumns ==
  {"row_id", "name", "category_id", "price", "date", "location", "tags",
   "account_id"}
OrderName == OrderColumns \cup {"category", "account"}

ListRequest ==
  [flags : SUBSET STRING, month : Optional(TypedDigits), year : Optional(Nat),
   date : Optional(StoredDate), range : Optional(TypedDate \X TypedDate),
   orderBy : Optional(OrderName), name : Optional(Texts),
   location : Optional(Texts), category : Optional(SUBSET Nat),
   ignoreCategory : Optional(SUBSET Nat), tags : Optional(SUBSET Texts),
   ignoreTags : Optional(SUBSET Texts)]

ReportRequest ==
  [flags : SUBSET STRING, month : Optional(TypedDigits), year : Optional(Nat)]

CompareRequest == [range : Optional(Int \X Int), year : Optional(Int)]

ASSUME QueriesAssumption ==
  /\ Within \subseteq Texts \X Texts /\ TagsTable \subseteq Texts
  /\ Alphabet \in Seq(Texts) /\ IsInjective(Alphabet)
  /\ Categories \in Seq(Nat) /\ IsInjective(Categories)
  /\ {Today, Yesterday} \subseteq TypedDate
  /\ RowValues \subseteq ExpenseRow
  /\ \A t \in Tables0 : IsTable(t, ExpenseRow) /\ IsFiniteSet(DOMAIN t)
  /\ ListRequests \subseteq ListRequest
  /\ ReportRequests \subseteq ReportRequest
  /\ CompareRequests \subseteq CompareRequest
  /\ MaxWrite \in Nat

Failures ==
  {"CategoryDoesNotExist", "GeneralFailure", "DBError", "InvalidParameterValue"}

Idle == [op |-> "idle"]
Done(status) == [op |-> "done", status |-> status]
Off == [op |-> "off"]

Init == expenses \in Tables0 /\ job = Idle /\ writes = 0
-----------------------------------------------------------------------------
(***************************************************************************)
(* Dates.                                                                  *)
(***************************************************************************)
Digits(n) == IF n < 10 THEN <<n>> ELSE <<n \div 10, n % 10>>
Number(digits) ==
  IF Len(digits) = 1 THEN digits[1] ELSE 10 * digits[1] + digits[2]

\* "0" + std::to_string(n) below 10
AsTyped(digits) == digits
Padded(digits) == <<Number(digits) \div 10, Number(digits) % 10>>

\* DateTime(text).AsString()
AsString(date) == [y |-> date.y, m |-> Padded(date.m), d |-> Padded(date.d)]

DayFirst(a, b) ==
  \/ a.y < b.y
  \/ a.y = b.y /\ Number(a.d) < Number(b.d)
  \/ a.y = b.y /\ Number(a.d) = Number(b.d) /\ Number(a.m) < Number(b.m)

\* DateTime::operator<
Before(a, b) ==
  \/ a.y < b.y
  \/ a.y = b.y /\ Number(a.m) < Number(b.m)
  \/ a.y = b.y /\ Number(a.m) = Number(b.m) /\ Number(a.d) < Number(b.d)

\* SQL's <= on the texts; the dash sorts before the digits.
Characters(date) == <<date.y, -1>> \o date.m \o <<-1>> \o date.d
TextAtMost(a, b) ==
  LET s == Characters(a)
      t == Characters(b)
  IN  \/ \E i \in DOMAIN s \cap DOMAIN t :
           s[i] < t[i] /\ \A k \in 1 .. i - 1 : s[k] = t[k]
      \/ Len(s) <= Len(t) /\ \A k \in DOMAIN s : s[k] = t[k]
-----------------------------------------------------------------------------
(***************************************************************************)
(* Conditions.  One is a sequence of groups, all of which must hold; in a  *)
(* group all of its parts must hold, or one of them.                       *)
(***************************************************************************)
Part(col, type, value) == [col |-> col, type |-> type, value |-> value]
AllOf(parts) == [rel |-> "AND", parts |-> parts]
AnyOf(parts) == [rel |-> "OR", parts |-> parts]
Only(part) == <<AllOf({part})>>
When(asked, condition) == IF asked THEN condition ELSE <<>>

\* What `LIKE' is given: %, and what stands before or between.
MonthPattern(month, year) == [kind |-> "month", y |-> year, m |-> month]
YearPattern(year) == [kind |-> "year", y |-> year]
ContainsPattern(word) == [kind |-> "contains", word |-> word]
EmptyPattern == [kind |-> "empty"]

Condition_Account == Only(Part("account", "EQUALS", CurrentAccount))
Condition_Date(date) == Only(Part("date", "EQUALS", date))
Condition_Month(month, year) ==
  Only(Part("date", "LIKE", MonthPattern(month, year)))
Condition_Year(year) == Only(Part("date", "LIKE", YearPattern(year)))
Condition_Between(from, to) == Only(Part("date", "BETWEEN", <<from, to>>))
Condition_ListNameFilter(name) ==
  Only(Part("name", "LIKE", ContainsPattern(name)))
Condition_LocationFilter(location) ==
  Only(Part("location", "EQUALS", location))
Condition_Category(id) == Part("category", "EQUALS", id)
Condition_IgnoreCategory(id) == Part("category", "NOT_EQUALS", id)
Condition_ListTagFilter(tag) == Part("tags", "LIKE", ContainsPattern(tag))
Condition_NoTags == Part("tags", "LIKE", EmptyPattern)
Condition_IgnoreTags(tag) == Part("tags", "NOT_LIKE", ContainsPattern(tag))

\* The operator that Condition::ToString writes.  The case of NOT_LIKE has no
\* break and runs into the next one.
Operator(type) == IF type = "NOT_LIKE" THEN "BETWEEN" ELSE type

\* SQLite accepts the text: BETWEEN has its AND only where the type is BETWEEN.
Parses(condition) ==
  \A k \in DOMAIN condition : \A part \in condition[k].parts :
    Operator(part.type) = "BETWEEN" => part.type = "BETWEEN"

WordsOf(row, col) == IF col = "tags" THEN row.tags ELSE {row[col]}

Like(row, col, pattern) ==
  CASE pattern.kind = "month" ->
         row.date.y = pattern.y /\ row.date.m = pattern.m
    [] pattern.kind = "year" -> row.date.y = pattern.y
    [] pattern.kind = "contains" ->
         \E word \in WordsOf(row, col) : <<word, pattern.word>> \in Within
    [] pattern.kind = "empty" -> WordsOf(row, col) = {}

PartHolds(part, row) ==
  CASE Operator(part.type) = "EQUALS" -> row[part.col] = part.value
    [] Operator(part.type) = "NOT_EQUALS" -> row[part.col] # part.value
    [] Operator(part.type) = "LIKE" -> Like(row, part.col, part.value)
    [] Operator(part.type) = "BETWEEN" ->
         /\ TextAtMost(part.value[1], row.date)
         /\ TextAtMost(row.date, part.value[2])

Holds(condition, row) ==
  \A k \in DOMAIN condition :
    IF condition[k].rel = "AND"
    THEN \A part \in condition[k].parts : PartHolds(part, row)
    ELSE \E part \in condition[k].parts : PartHolds(part, row)

\* Table::Select
Select(condition) == {i \in DOMAIN expenses : Holds(condition, expenses[i])}

\* GetOrderByClause: the word is passed on, and SQLite refuses one that is no
\* column.
OrderColumn(r) == IF r.orderBy # None THEN r.orderBy ELSE "date"

Earlier(word, other) ==
  \E a, b \in DOMAIN Alphabet :
    a < b /\ Alphabet[a] = word /\ Alphabet[b] = other

\* SQL's < on a column of rows i and k of one account: dates, names, locations
\* and tags are texts.  How a text of tags orders them is left open, but the
\* empty one comes first.
Less(col, i, k) ==
  LET row == expenses[i]
      other == expenses[k]
  IN  CASE col = "row_id" -> i < k
        [] col = "price" -> row.price < other.price
        [] col = "date" -> ~TextAtMost(other.date, row.date)
        [] col = "name" -> Earlier(row.name, other.name)
        [] col = "location" -> Earlier(row.location, other.location)
        [] col = "category_id" -> row.category < other.category
        [] col = "tags" -> row.tags = {} /\ other.tags # {}
        [] col = "account_id" -> FALSE

\* ORDER BY: what is equal comes in any order.
OrderedBy(rows, col, descending) ==
  {s \in SetToSeqs(rows) : \A j \in DOMAIN s : \A k \in j + 1 .. Len(s) :
     IF descending THEN ~Less(col, s[j], s[k]) ELSE ~Less(col, s[k], s[j])}

\* The rows as std::sort or a std::map arranges them by DateTime::operator<.
ByCalendar(rows) ==
  {s \in SetToSeqs(rows) : \A j \in DOMAIN s : \A k \in j + 1 .. Len(s) :
     ~Before(expenses[s[k]].date, expenses[s[j]].date)}

SumOver(prices, ids) == MapThenSumSet(LAMBDA i : prices[i], ids)

PricesOf(t) == [i \in DOMAIN t |-> t[i].price]

SumOfFirstGroup(condition) ==
  SumOver(PricesOf(expenses), Select(SubSeq(condition, 1, 1)))

\* Table::SumOf
SumOf(condition) == SumOver(PricesOf(expenses), Select(condition))
-----------------------------------------------------------------------------
(***************************************************************************)
(* list.                                                                   *)
(***************************************************************************)
FixMonthName(month) == Padded(month)

DateConditions(r) ==
  When("thisMonth" \in r.flags, Condition_Month(Padded(Today.m), Today.y))
  \o When("today" \in r.flags, Condition_Date(AsString(Today)))
  \o When("thisYear" \in r.flags, Condition_Year(Today.y))
  \o When("yesterday" \in r.flags, Condition_Date(AsString(Yesterday)))
  \o When("yesterday" \notin r.flags /\ r.date # None, Condition_Date(r.date))
  \o When(r.month # None,
          Condition_Month(FixMonthName(r.month),
                          IF r.year # None THEN r.year ELSE Today.y))
  \o When(r.month = None /\ r.year # None, Condition_Year(r.year))

CategoryConditions(r) ==
  When(r.category # None,
       <<AnyOf({Condition_Category(c) : c \in r.category})>>)
  \o When(r.category = None /\ r.ignoreCategory # None,
          <<AllOf({Condition_IgnoreCategory(c) :
                     c \in r.ignoreCategory \cap ToSet(Categories)})>>)

TagConditions(r) ==
  When(r.tags # None, <<AnyOf({Condition_ListTagFilter(t) : t \in r.tags})>>)
  \o When(r.tags = None /\ r.ignoreTags # None,
          <<AllOf({Condition_IgnoreTags(t) : t \in r.ignoreTags})>>)
  \o When(r.tags = None /\ r.ignoreTags = None /\ "excludeTags" \in r.flags,
          Only(Condition_NoTags))

ListCondition(r) ==
  Condition_Account \o DateConditions(r)
    \o When(r.name # None, Condition_ListNameFilter(r.name))
    \o When(r.location # None, Condition_LocationFilter(r.location))
    \o CategoryConditions(r) \o TagConditions(r)
    \o When(r.range # None,
            Condition_Between(AsString(r.range[1]), AsString(r.range[2])))

\* Execute up to the first statement on expenses.
List ==
  /\ job = Idle
  /\ \E r \in ListRequests :
       \/ /\ \/ r.category # None /\ ~(r.category \subseteq ToSet(Categories))
             \/ /\ r.tags # None
                /\ \E t \in r.tags :
                     \A u \in TagsTable : <<u, t>> \notin Within
          /\ job' = Done("CategoryDoesNotExist")
       \/ /\ r.category # None => r.category \subseteq ToSet(Categories)
          /\ r.tags # None => \A t \in r.tags :
               \E u \in TagsTable : <<u, t>> \in Within
          /\ job' = IF r.range # None /\ Before(r.range[2], r.range[1])
                    THEN Done("GeneralFailure")
                    ELSE [op |-> "select", r |-> r, since |-> writes]
  /\ UNCHANGED <<expenses, writes>>

Shown(r, shown, total, since) ==
  [op |-> "shown", r |-> r, shown |-> shown, total |-> total, since |-> since]

\* SQLite accepts the SELECT of the request.
Selects(r) == Parses(ListCondition(r)) /\ OrderColumn(r) \in OrderColumns

\* With a range, and by date, the rows are arranged anew and the total is added
\* up from them; DisplayByDate does not look at whether Select succeeded.
ListSelect ==
  /\ job.op = "select"
  /\ LET r == job.r
         rows == Select(ListCondition(r))
         byDate == r.range = None /\ "byDate" \in r.flags
     IN  \/ /\ ~Selects(r)
            /\ job' = IF byDate THEN Shown(r, <<>>, 0, job.since)
                      ELSE Done("DBError")
         \/ /\ Selects(r) /\ (byDate \/ r.range # None)
            /\ \E shown \in ByCalendar(rows) :
                 job' = Shown(r, shown, SumOver(PricesOf(expenses), rows),
                             job.since)
         \/ /\ Selects(r) /\ ~byDate /\ r.range = None
            /\ \E shown \in OrderedBy(rows, OrderColumn(r),
                                     "descending" \in r.flags) :
                 job' = [op |-> "sum", r |-> r, shown |-> shown,
                         since |-> job.since]
  /\ UNCHANGED <<expenses, writes>>

\* ProcessDBTable asks the database for the total.
ListSum ==
  /\ job.op = "sum"
  /\ job' = Shown(job.r, job.shown, SumOf(ListCondition(job.r)), job.since)
  /\ UNCHANGED <<expenses, writes>>
-----------------------------------------------------------------------------
(***************************************************************************)
(* report and compareMonths: one Select for every category, for one period *)
(* or for every month of a range.                                          *)
(***************************************************************************)
ReportPeriod(r) ==
  IF "today" \in r.flags THEN Condition_Date(AsString(Today))
  ELSE IF r.month # None THEN
    Condition_Month(FixMonthName(r.month),
                    IF r.year # None THEN r.year ELSE Today.y)
  ELSE IF r.year # None THEN Condition_Year(r.year)
  ELSE IF "thisMonth" \in r.flags
  THEN Condition_Month(Padded(Today.m), Today.y)
  ELSE IF "thisYear" \in r.flags THEN Condition_Year(Today.y)
  ELSE <<>>

\* GenerateReport for the first of the periods.
Reports(r, periods, includeZero) ==
  [op |-> "report", r |-> r, periods |-> periods, includeZero |-> includeZero,
   results |-> << <<>> >>, left |-> Categories, since |-> writes]

Report ==
  /\ job = Idle
  /\ \E r \in ReportRequests : job' = Reports(r, <<ReportPeriod(r)>>, FALSE)
  /\ UNCHANGED <<expenses, writes>>

ZeroLeftOut == FALSE
ZeroIncluded == TRUE

\* ValidateRangeParameter and IsValidYear.
CompareValid(r) ==
  /\ r.range # None =>
       /\ r.range[1] \in 1 .. 12 /\ r.range[2] \in 1 .. 12
       /\ r.range[1] < r.range[2]
  /\ r.year # None => r.year > 2000 /\ r.year < 3000

FromMonth(r) == IF r.range # None THEN r.range[1] ELSE 1
ToMonth(r) == IF r.range # None THEN r.range[2] ELSE 12

ComparePeriods(r) ==
  [k \in 1 .. ToMonth(r) - FromMonth(r) + 1 |->
     Condition_Month(FixMonthName(Digits(FromMonth(r) + k - 1)),
                     IF r.year # None THEN r.year ELSE Today.y)]

CompareMonths ==
  /\ job = Idle
  /\ \E r \in CompareRequests :
       job' = IF CompareValid(r)
              THEN Reports(r, ComparePeriods(r), ZeroIncluded)
              ELSE Done("InvalidParameterValue")
  /\ UNCHANGED <<expenses, writes>>

\* The condition for one category; it is taken off again before the next one.
LeftOn(period, k) ==
  period \o [j \in 1 .. k |-> AllOf({Condition_Category(Categories[j])})]
WithCategory(period, k) == period \o Only(Condition_Category(Categories[k]))

SameCategories(left) == left
CategoriesAfter(left) == Tail(left)

SelectCategory ==
  /\ job.op = "report" /\ job.left # <<>>
  /\ LET n == Len(job.results)
         c == Head(job.left)
         k == Len(Categories) - Len(job.left) + 1
         total == SumOf(WithCategory(job.periods[n], k))
         prices == IF job.includeZero \/ total # 0
                   THEN WithRow(job.results[n], c, total)
                   ELSE job.results[n]
     IN  job' = [job EXCEPT !.left = CategoriesAfter(@), !.results[n] = prices]
  /\ UNCHANGED <<expenses, writes>>

\* The condition of the loop over the months, when n of them are done.
OneMonthMore(n) == n <= Len(job.periods)
MonthsLeft(n) == n < Len(job.periods)

NextMonth ==
  /\ job.op = "report" /\ job.left = <<>> /\ MonthsLeft(Len(job.results))
  /\ job' = [job EXCEPT !.left = Categories, !.results = Append(@, <<>>)]
  /\ UNCHANGED <<expenses, writes>>

\* A month without categories is left out of a comparison, and the table of
\* none at all reads reports[0], which ends the process.
Renders == job.includeZero => Categories # <<>>

PrintReport ==
  /\ job.op = "report" /\ job.left = <<>> /\ ~MonthsLeft(Len(job.results))
  /\ job' = IF Renders THEN [job EXCEPT !.op = "reported"] ELSE Off
  /\ UNCHANGED <<expenses, writes>>
-----------------------------------------------------------------------------
\* The loop takes the next command.
Return ==
  /\ job.op \in {"done", "shown", "reported"}
  /\ job' = Idle
  /\ UNCHANGED <<expenses, writes>>

\* Another session adds, changes or removes a row (one of any account).
Write ==
  /\ writes < MaxWrite /\ writes' = writes + 1
  /\ \/ \E id \in NextRowId(expenses), row \in RowValues :
          expenses' = WithRow(expenses, id, row)
     \/ \E id \in DOMAIN expenses, c \in ToSet(Categories) :
          expenses' = [expenses EXCEPT ![id].category = c]
     \/ \E id \in DOMAIN expenses : expenses' = WithoutRows(expenses, {id})
  /\ UNCHANGED job

QueryStep ==
  \/ ListSelect \/ ListSum \/ SelectCategory \/ NextMonth \/ PrintReport
  \/ Return

Next == List \/ Report \/ CompareMonths \/ QueryStep \/ Write

Spec == Init /\ [][Next]_vars

\* A command runs on its own.
LiveSpec == Spec /\ WF_vars(QueryStep)
-----------------------------------------------------------------------------
(***************************************************************************)
(* Properties.                                                             *)
(***************************************************************************)
\* Days in the order of the calendar.
DayNumber(date) == 10000 * date.y + 100 * Number(date.m) + Number(date.d)

SameDay(a, b) == a.y = b.y /\ Number(a.m) = Number(b.m) /\ Number(a.d) = Number(b.d)

InMonth(date, m, y) == date.y = y /\ Number(date.m) = m

YearAsked(r) == IF r.year # None THEN r.year ELSE Today.y

\* The row is one that the request asks for, by the calendar.
Asked(r, row) ==
  /\ row.account = CurrentAccount
  /\ "thisMonth" \in r.flags => InMonth(row.date, Number(Today.m), Today.y)
  /\ "today" \in r.flags => SameDay(row.date, Today)
  /\ "thisYear" \in r.flags => row.date.y = Today.y
  /\ "yesterday" \in r.flags => SameDay(row.date, Yesterday)
  /\ "yesterday" \notin r.flags /\ r.date # None => SameDay(row.date, r.date)
  /\ r.month # None => InMonth(row.date, Number(r.month), YearAsked(r))
  /\ r.year # None => row.date.y = r.year
  /\ r.name # None => <<row.name, r.name>> \in Within
  /\ r.location # None => row.location = r.location
  /\ r.category # None => row.category \in r.category
  /\ r.category = None /\ r.ignoreCategory # None =>
       row.category \notin r.ignoreCategory
  /\ r.tags # None =>
       \E t \in r.tags, u \in row.tags : <<u, t>> \in Within
  /\ r.tags = None /\ r.ignoreTags # None =>
       \A t \in r.ignoreTags, u \in row.tags : <<u, t>> \notin Within
  /\ (r.tags = None /\ r.ignoreTags = None /\ "excludeTags" \in r.flags) =>
       row.tags = {}
  /\ r.range # None =>
       DayNumber(row.date) \in DayNumber(r.range[1]) .. DayNumber(r.range[2])

\* A report's period, by the calendar: the k-th month of a comparison, or what
\* the options of report say.
InPeriod(r, k, date) ==
  IF "flags" \notin DOMAIN r
  THEN InMonth(date, FromMonth(r) + k - 1, YearAsked(r))
  ELSE IF "today" \in r.flags THEN SameDay(date, Today)
  ELSE IF r.month # None THEN InMonth(date, Number(r.month), YearAsked(r))
  ELSE IF r.year # None THEN date.y = r.year
  ELSE IF "thisMonth" \in r.flags
  THEN InMonth(date, Number(Today.m), Today.y)
  ELSE "thisYear" \in r.flags => date.y = Today.y

\* Prices per category, for the periods that were read.
Results(prices) ==
  /\ prices \in Seq(ToSet(prices))
  /\ \A k \in DOMAIN prices :
       /\ DOMAIN prices[k] \subseteq CategoryIds
       /\ prices[k] \in [DOMAIN prices[k] -> Nat]

\* The categories that are left.
LeftOver(k) == SubSeq(Categories, k, Len(Categories))

ReportJob(j, periods, includeZero) ==
  /\ j = [op |-> j.op, r |-> j.r, periods |-> periods,
          includeZero |-> includeZero, results |-> j.results, left |-> j.left,
          since |-> j.since]
  /\ j.since \in 0 .. MaxWrite
  /\ \E k \in 1 .. Len(Categories) + 1 : j.left = LeftOver(k)
  /\ Results(j.results)
  /\ Len(j.results) \in 1 .. Len(periods)

JobOK(j) ==
  \/ j \in {Idle, Off}
  \/ \E status \in Failures : j = Done(status)
  \/ /\ j.op \in {"select", "sum", "shown"}
     /\ j.r \in ListRequests
     /\ \/ j \in [op : {"select"}, r : {j.r}, since : 0 .. MaxWrite]
        \/ j \in [op : {"sum"}, r : {j.r}, shown : Seq(RowId),
                  since : 0 .. MaxWrite]
        \/ j \in [op : {"shown"}, r : {j.r}, shown : Seq(RowId), total : Nat,
                  since : 0 .. MaxWrite]
  \/ /\ j.op \in {"report", "reported"}
     /\ \/ /\ j.r \in ReportRequests
           /\ ReportJob(j, <<ReportPeriod(j.r)>>, FALSE)
        \/ /\ j.r \in CompareRequests /\ CompareValid(j.r)
           /\ ReportJob(j, ComparePeriods(j.r), TRUE)

\* The table holds expenses with readable columns; a command is between two of
\* its statements, and what it has read so far is of the kind that the next
\* one needs: it never goes through more months than it was asked for.
TypeOK ==
  /\ IsTable(expenses, ExpenseRow) /\ IsFiniteSet(DOMAIN expenses)
  /\ writes \in 0 .. MaxWrite
  /\ JobOK(job)

\* list shows the expenses that the user asked for, no more and no fewer, as
\* the table is when it is read.
ListedAsAsked ==
  [][ListSelect /\ Selects(job.r) =>
       ToSet(job'.shown) =
         {i \in DOMAIN expenses : Asked(job.r, expenses[i])}]_vars

\* Row i may stand before row k, by what the user sees in the column.
Follows(col, i, k) ==
  LET row == expenses[i]
      other == expenses[k]
  IN  CASE col = "date" -> DayNumber(row.date) <= DayNumber(other.date)
        [] col = "price" -> row.price <= other.price
        [] col = "row_id" -> i <= k
        [] col = "category_id" -> row.category <= other.category
        [] col = "name" -> ~Earlier(other.name, row.name)
        [] col = "location" -> ~Earlier(other.location, row.location)
        [] col = "tags" -> other.tags = {} => row.tags = {}
        [] col = "account_id" -> row.account = other.account

\* With a range, and by date, list arranges the rows anew: what is said of the
\* order besides is passed over, see DescendingIsDescending.
OrderKept(r) ==
  r.range # None \/ "byDate" \in r.flags =>
    r.orderBy = None /\ "descending" \notin r.flags

\* A listing is in the order of the column that was asked for, up or down, or in
\* that of the calendar where none was asked for, although SQLite orders dates
\* as texts, a range is sorted and days are the keys of a map.
ListedInOrder ==
  [][ListSelect /\ Selects(job.r) /\ OrderKept(job.r) =>
       LET col == OrderColumn(job.r)
           s == job'.shown
       IN  \A k \in 2 .. Len(s) :
             IF "descending" \in job.r.flags
             THEN Follows(col, s[k], s[k - 1])
             ELSE Follows(col, s[k - 1], s[k])]_vars

\* --descending lists in descending order of date, where no other order is
\* asked for.  It does not do so with a range, nor by date.
DescendingIsDescending ==
  [][/\ ListSelect /\ Selects(job.r)
     /\ "descending" \in job.r.flags /\ job.r.orderBy = None =>
       \A k \in 2 .. Len(job'.shown) :
         Follows("date", job'.shown[k], job'.shown[k - 1])]_vars

\* The total below a listing is that of the expenses that the user asked for,
\* whether the rows or the database were asked for it, unless another session
\* has written since.
TotalOfShown ==
  job.op = "shown" /\ job.since = writes /\ Selects(job.r) =>
    job.total = SumOver(PricesOf(expenses), {i \in DOMAIN expenses :
                                               Asked(job.r, expenses[i])})

\* A report counts every expense of its period in exactly one category, the
\* months of a comparison among them.
ReportsAddUp ==
  job.op = "reported" /\ job.since = writes =>
    \A k \in DOMAIN job.results :
      SumOver(job.results[k], DOMAIN job.results[k]) =
        SumOver(PricesOf(expenses),
                {i \in DOMAIN expenses : InPeriod(job.r, k, expenses[i].date)})

\* The table of a comparison is filled in by looking every category of the
\* first month up in all of them, and the empty row above its totals has three cells
\* whatever the number of months.
ComparisonComplete ==
  job.op = "reported" =>
    /\ \A k \in DOMAIN job.results :
         DOMAIN job.results[k] = DOMAIN job.results[1]
    /\ job.r \in CompareRequests => Len(job.results) + 1 >= 3

\* A query comes back to the loop.
QueryEnds == job.op # "idle" ~> job.op = "idle"

\* list with the categories and tags that are there, and a range in its order,
\* lists.
ListSucceeds == job # Done("DBError")
=============================================================================
