------------------------------ MODULE MCQueries ------------------------------
(***************************************************************************)
(* Instances of Queries for TLC.                                           *)
(***************************************************************************)
EXTENDS Queries

CONSTANTS rent, rents, home, town, trip, trips, a1, a2, none

InOrder == <<home, rent, rents, town, trip, trips>>
Words == ToSet(InOrder)
\* rents contains rent, trips contains trip.
WithinWords == {<<w, w>> : w \in Words} \cup {<<rents, rent>>, <<trips, trip>>}

TwoCategories == <<1, 3>>
TwoTags == {trip, trips}
TwoAccounts == {a1, a2}

Date(y, m, d) == [y |-> y, m |-> m, d |-> d]
March6 == Date(2024, <<0, 3>>, <<0, 6>>)
March5 == Date(2024, <<0, 3>>, <<0, 5>>)
November4 == Date(2024, <<1, 1>>, <<0, 4>>)
LastYear == Date(2023, <<0, 3>>, <<0, 6>>)

Row(name, c, tags, a, location, date, price) ==
  [name |-> name, category |-> c, tags |-> tags, account |-> a,
   location |-> location, date |-> date, price |-> price]

\* The prices of a set of rows tell the rows.
Rows == {Row(rent, 1, {}, a1, home, March5, 1),
         Row(rents, 3, {trip, trips}, a1, town, March6, 2),
         Row(rent, 3, {trips}, a1, home, November4, 4),
         Row(rents, 1, {trip}, a1, home, LastYear, 8),
         Row(rent, 1, {trip}, a2, home, March6, 16)}

Priced(p) == CHOOSE r \in Rows : r.price = p
ThreeRows == {<<Priced(1), Priced(2), Priced(16)>>, <<Priced(8), Priced(4)>>}
Written == {Priced(1), Priced(2)}

Base ==
  [flags |-> {}, month |-> none, year |-> none, date |-> none, range |-> none,
   orderBy |-> none,
   name |-> none, location |-> none, category |-> none,
   ignoreCategory |-> none, tags |-> none, ignoreTags |-> none]

Months == {<<3>>, <<0, 3>>, <<1, 1>>}
Options ==
  {<<"month", m>> : m \in Months} \cup {<<"year", y>> : y \in {2023, 2024}}
  \cup {<<"date", March6>>, <<"name", rent>>, <<"location", home>>,
        <<"range", <<Date(2023, <<3>>, <<6>>), Date(2024, <<3>>, <<5>>)>>>>,
        <<"range", <<March6, March5>>>>,
        <<"category", {1}>>, <<"category", {1, 3}>>, <<"category", {3, 4}>>,
        <<"ignoreCategory", {3, 4}>>, <<"tags", {trip}>>, <<"tags", {home}>>,
        <<"ignoreTags", {trips}>>}
  \cup {<<"orderBy", name>> : name \in OrderName}
Flags == {"thisMonth", "today", "thisYear", "yesterday", "excludeTags", "byDate",
          "descending"}
OneFlag == {<<"flags", {f}>> : f \in Flags}

Set(r, o) == [r EXCEPT ![o[1]] = o[2]]

\* Two options, or an option and a flag.
ListAnything ==
  {Set(Set(Base, o), p) : o \in Options, p \in Options \cup OneFlag}

ReportAnything ==
  [flags : {{}} \cup {{x} : x \in {"today", "thisMonth", "thisYear"}},
   month : Months \cup {none}, year : {2023, 2024, none}]

CompareAnything ==
  [range : {none, <<2, 4>>, <<4, 4>>, <<0, 3>>}, year : {none, 2023, 1999}]

Nothing == {}
RangeDescending ==
  {Set(Set(Base, <<"range", <<LastYear, November4>>>>),
       <<"flags", {"descending"}>>)}
IgnoreTrips == {Set(Base, <<"ignoreTags", {trips}>>)}
=============================================================================
