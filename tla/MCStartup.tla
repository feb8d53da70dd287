------------------------------ MODULE MCStartup ------------------------------
(***************************************************************************)
(* Instances of Startup for TLC.                                           *)
(***************************************************************************)
EXTENDS Startup

CONSTANTS p1, p2, a1, a2, c1, t1, e1, e2, null, notags, marriage, none, unreadable

OneProc == {p1}
TwoProcs == {p1, p2}
TwoAccounts == {a1, a2}

NameRows(names) == [i \in DOMAIN names |-> [name |-> names[i]]]
NameTable(names) == [cols |-> {"name"}, rows |-> NameRows(names)]

Categories == NameTable(<<c1>>)
NoRows == <<>>

\* Tables of expenses: before the first migration, after it, after the second
\* and of the present release.
WithCategory(rows) == [cols |-> {"name", "tags", "category"}, rows |-> rows]
WithCategoryId(rows) ==
  [cols |-> {"name", "tags", "category_id"}, rows |-> rows]
Combined(rows) ==
  [cols |-> {"name", "tags", "category_id", "account"}, rows |-> rows]
Present(rows) ==
  [cols |-> {"name", "tags", "category_id", "account_id"}, rows |-> rows]

ByCategory(e) == [name |-> e, tags |-> notags, category |-> c1]
ById(e) == [name |-> e, tags |-> notags, category_id |-> 1]
Owned(e, tag, a) ==
  [name |-> e, tags |-> tag, category_id |-> 1, account |-> a]
OwnedById(e, id) ==
  [name |-> e, tags |-> notags, category_id |-> 1, account_id |-> id]

NewFile == [t \in {} |-> 0]

Stage0 ==
  [categories |-> Categories, tags |-> NameTable(<<>>),
   household_expense |-> WithCategory(<<ByCategory(e1)>>),
   personal_expense |-> WithCategory(NoRows),
   marriage_expense |-> WithCategory(<<ByCategory(e2)>>)]

Stage1 ==
  [categories |-> Categories, tags |-> NameTable(<<t1>>),
   migrations |-> NameTable(<<1>>),
   household_expense |-> WithCategoryId(<<ById(e1)>>),
   personal_expense |-> WithCategoryId(NoRows),
   marriage_expense |-> WithCategoryId(<<ById(e2)>>)]

\* The second migration was ended after it had made expenses.
Stage1Ended ==
  [categories |-> Categories, tags |-> NameTable(<<marriage>>),
   migrations |-> NameTable(<<1>>), expenses |-> Combined(NoRows),
   household_expense |-> WithCategoryId(<<ById(e1)>>),
   personal_expense |-> WithCategoryId(NoRows),
   marriage_expense |-> WithCategoryId(<<ById(e2)>>)]

Stage3 ==
  [categories |-> Categories, tags |-> NameTable(<<t1, marriage>>),
   migrations |-> NameTable(<<1, 2, 3>>), accounts |-> NameTable(<<a1, a2>>),
   expenses |-> Combined(<<Owned(e1, t1, a2), Owned(e2, marriage, a1)>>)]

Stage4 ==
  [categories |-> Categories, tags |-> NameTable(<<>>),
   migrations |-> NameTable(<<1, 2, 3, 4>>), reminders |-> NameTable(<<>>),
   accounts |-> NameTable(<<a1, a2>>),
   expenses |-> Present(<<OwnedById(e1, 2), OwnedById(e2, 1)>>)]

FromCombined == {NewFile, Stage1Ended, Stage3, Stage4}
ThreeTables == {Stage0, Stage1}
SomeConfigs == {a2, none, unreadable}
NamedAccounts == {Stage3}
OneConfig == {a1}
AnyDirectory == {"own", "other"}
\* Alphabetically, and the other way round.
Alphabetical ==
  <<"accounts", "categories", "expenses", "reminders", "tags">>
TwoOrders == {Alphabetical, [i \in 1 .. 5 |-> Alphabetical[6 - i]]}
OneOrder == {[i \in 1 .. 5 |-> Alphabetical[6 - i]]}
Own == {"own"}
BothBuilds == {"debug", "release"}
Release == {"release"}
=============================================================================
