------------------------------- MODULE Tables -------------------------------
(***************************************************************************)
(* What DBHandler/Table.cpp asks of an SQLite table, as operators on the   *)
(* value of the table.  A table is a function from the row ids in use to   *)
(* the rows; a table of names (accounts, categories, tags) maps the row id *)
(* to the name.  `row_id INTEGER PRIMARY KEY` without AUTOINCREMENT gives  *)
(* a new row the id after the largest one in use, so that the id of a      *)
(* removed last row is given again.                                        *)
(***************************************************************************)
EXTENDS Naturals

\* Row ids start at 1; 0 is the id of no row.
RowId == Nat \ {0}

EmptyTable == [i \in {} |-> 0]

\* t is a table whose rows are in Rows.
IsTable(t, Rows) ==
  /\ DOMAIN t \subseteq RowId
  /\ t \in [DOMAIN t -> Rows]

\* Table::CheckIfExists(name): some row holds the name.
HasName(t, n) == \E i \in DOMAIN t : t[i] = n

\* rows[0] of the same query, for a name that is there.
IdOf(t, n) == CHOOSE i \in DOMAIN t : t[i] = n

NextRowIdFromZero(t) ==
  {id \in {0} \cup {i + 1 : i \in DOMAIN t} : \A i \in DOMAIN t : i < id}

\* The row id that SQLite gives to the next INSERT, as a set of one element.
NextRowId(t) ==
  {id \in {1} \cup {i + 1 : i \in DOMAIN t} : \A i \in DOMAIN t : i < id}

\* Table::Insert and Table::Update on one row; Table::Delete of some ids.
WithRow(t, id, row) ==
  [i \in DOMAIN t \cup {id} |-> IF i = id THEN row ELSE t[i]]

WithoutRowsUpTo(t, ids) ==
  [i \in {k \in DOMAIN t : \A d \in ids : d < k} |-> t[i]]

WithoutRows(t, ids) == [i \in DOMAIN t \ ids |-> t[i]]

\* Table::Select with row_id = a OR row_id = b OR ...
RowsById(t, ids) == [i \in DOMAIN t \cap ids |-> t[i]]

\* UNIQUE on the name column: no two rows hold the same name.
NamesDiffer(t) == \A i, j \in DOMAIN t : t[i] = t[j] => i = j
=============================================================================
