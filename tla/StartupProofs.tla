---------------------------- MODULE StartupProofs ----------------------------
(***************************************************************************)
(* Theorems about the start, for any number of processes, any names and    *)
(* tables of earlier releases, wherever processes are ended.               *)
(***************************************************************************)
EXTENDS Startup, TablesProofs, SequenceTheorems, FiniteSetTheorems

\* What TypeOK says of a table, and what keeps it true: that a table of names
\* has no other column, and that there is an id for the next row.
TableType(t, table) ==
  /\ Rectangular(table) /\ Bounded(DOMAIN table.rows)
  /\ t \in TablesOfNames => table.cols = {"name"}

DatabaseType ==
  DOMAIN db \subseteq TableName /\ \A t \in DOMAIN db : TableType(t, db[t])

ProcessType ==
  /\ fileIsThere \in BOOLEAN /\ misled \in BOOLEAN
  /\ passedOver \in 0 .. MaxPassedOver
  /\ first \in [Proc -> BOOLEAN]
  /\ build \in Builds
  /\ DOMAIN at = Proc /\ \A p \in Proc : StepOK(at[p])

\* The tables that a start at s has made sure of are in d.
TablesReady(d, s) ==
  /\ s.op \notin {"off", "migrationsTable"} => "migrations" \in DOMAIN d
  /\ s.op = "register" =>
       \A t \in DOMAIN JsonColumns :
         t \in DOMAIN d \/ \E i \in DOMAIN s.left : s.left[i] = t
  /\ s.op \in {"migrate", "run", "record", "account", "ready"} =>
       DOMAIN JsonColumns \subseteq DOMAIN d

TypeInv ==
  DatabaseType /\ ProcessType /\ \A p \in Proc : TablesReady(db, at[p])
-----------------------------------------------------------------------------
(***************************************************************************)
(* The statements of the migrations, one by one.                           *)
(***************************************************************************)
LEMMA FourMigrations ==
  /\ DOMAIN Migrations = 1 .. 4 /\ Len(Migrations) = 4
  /\ Migrations[1] = AddCategoryIdForeignKey
  /\ Migrations[2] = CombineAllExpenseTableIntoOne
  /\ Migrations[3] = AddAccountTable
  /\ Migrations[4] = AddAccountIdAsForeignKey
  BY DEF Migrations

\* The statements of the first migration, about a table of the first releases.
LegacyStatement ==
  {AddColumn(t, "category_id", Null) : t \in LegacyTable}
  \cup {FillColumn(t, "category_id", "categories", "category") : t \in LegacyTable}
  \cup {DropColumn(t, "category") : t \in LegacyTable}

LEMMA ForTableStatements ==
  ASSUME NEW t \in LegacyTable
  PROVE  ForTable(t) \in Seq(LegacyStatement) /\ Len(ForTable(t)) = 3
  <1>1. /\ AddColumn(t, "category_id", Null) \in LegacyStatement
        /\ FillColumn(t, "category_id", "categories", "category")
             \in LegacyStatement
        /\ DropColumn(t, "category") \in LegacyStatement
    BY DEF LegacyStatement
  <1> QED BY <1>1 DEF ForTable

LEMMA ConcatLength ==
  ASSUME NEW S, NEW a \in Seq(S), NEW b \in Seq(S)
  PROVE  a \o b \in Seq(S) /\ Len(a \o b) = Len(a) + Len(b)
  BY ConcatProperties

LEMMA FirstMigration ==
  /\ DOMAIN Migrations[1] = 1 .. 9 /\ Len(Migrations[1]) = 9
  /\ \A k \in 1 .. 9 : Migrations[1][k] \in LegacyStatement
  <1> DEFINE h == ForTable("household_expense")
             r == ForTable("personal_expense")
             m == ForTable("marriage_expense")
  <1>1. /\ h \in Seq(LegacyStatement) /\ Len(h) = 3
        /\ r \in Seq(LegacyStatement) /\ Len(r) = 3
        /\ m \in Seq(LegacyStatement) /\ Len(m) = 3
    BY ForTableStatements DEF LegacyTable
  <1> HIDE DEF h, r, m
  <1>2. h \o r \in Seq(LegacyStatement) /\ Len(h \o r) = 6
    <2>1. h \o r \in Seq(LegacyStatement) /\ Len(h \o r) = Len(h) + Len(r)
      BY <1>1, ConcatLength
    <2> QED BY <1>1, <2>1
  <1>3. (h \o r) \o m \in Seq(LegacyStatement) /\ Len((h \o r) \o m) = 9
    <2>1. /\ (h \o r) \o m \in Seq(LegacyStatement)
          /\ Len((h \o r) \o m) = Len(h \o r) + Len(m)
      BY <1>1, <1>2, ConcatLength
    <2> QED BY <1>1, <1>2, <2>1
  <1>4. Migrations[1] = (h \o r) \o m
    BY FourMigrations DEF AddCategoryIdForeignKey, h, r, m
  <1>5. \A k \in 1 .. 9 : ((h \o r) \o m)[k] \in LegacyStatement
    BY <1>3
  <1>6. DOMAIN ((h \o r) \o m) = 1 .. 9
    BY <1>3
  <1> QED BY <1>3, <1>4, <1>5, <1>6

LEMMA SecondMigration ==
  /\ DOMAIN Migrations[2] = 1 .. 8 /\ Len(Migrations[2]) = 8
  /\ Migrations[2][1] = InsertName("tags", Marriage)
  /\ Migrations[2][2] =
       CreateTable("expenses", {"name", "tags", "category_id", "account"})
  /\ Migrations[2][3] = CopyRows("household_expense")
  /\ Migrations[2][4] = CopyRows("personal_expense")
  /\ Migrations[2][5] = CopyRows("marriage_expense")
  /\ Migrations[2][6] = DropTable("household_expense")
  /\ Migrations[2][7] = DropTable("personal_expense")
  /\ Migrations[2][8] = DropTable("marriage_expense")
  BY FourMigrations DEF CombineAllExpenseTableIntoOne

LEMMA ThirdMigration ==
  /\ DOMAIN Migrations[3] = 1 .. 2 /\ Len(Migrations[3]) = 2
  /\ Migrations[3][1] = CreateTable("accounts", {"name"})
  /\ Migrations[3][2] = InsertName("accounts", Aditya)
  BY FourMigrations DEF AddAccountTable

LEMMA FourthMigration ==
  /\ DOMAIN Migrations[4] = 1 .. 3 /\ Len(Migrations[4]) = 3
  /\ Migrations[4][1] = AddColumn("expenses", "account_id", Unset)
  /\ Migrations[4][2] =
       FillColumn("expenses", "account_id", "accounts", "account")
  /\ Migrations[4][3] = DropColumn("expenses", "account")
  BY FourMigrations DEF AddAccountIdAsForeignKey

-----------------------------------------------------------------------------
(***************************************************************************)
(* What the operations on the database return.                             *)
(***************************************************************************)
LEMMA NewTableType ==
  ASSUME NEW t, NEW columns, t \in TablesOfNames => columns = {"name"}
  PROVE  TableType(t, NewTable(columns))
  BY DEF TableType, NewTable, EmptyTable, Rectangular, Bounded, RowId

LEMMA WithTableEffect ==
  ASSUME NEW t, NEW table, db' = WithTable(t, table)
  PROVE  /\ DOMAIN db' = DOMAIN db \cup {t} /\ db'[t] = table
         /\ \A u \in DOMAIN db \ {t} : db'[u] = db[u]
  BY DEF WithTable

LEMMA WithTableType ==
  ASSUME DatabaseType, NEW t \in TableName, NEW table, TableType(t, table),
         db' = WithTable(t, table)
  PROVE  DatabaseType'
  <1>1. /\ DOMAIN db' = DOMAIN db \cup {t} /\ db'[t] = table
        /\ \A u \in DOMAIN db \ {t} : db'[u] = db[u]
    BY WithTableEffect
  <1>2. \A u \in DOMAIN db' : TableType(u, db'[u])
    BY <1>1 DEF DatabaseType
  <1> QED BY <1>1, <1>2 DEF DatabaseType

\* An insert into a table of names changes only that one, adds the name and
\* leaves the other rows as they are.
LEMMA InsertedNameEffect ==
  ASSUME DatabaseType, NEW t \in DOMAIN db \cap TablesOfNames, NEW n,
         db' = InsertedName(t, n)
  PROVE  /\ DatabaseType' /\ DOMAIN db' = DOMAIN db
         /\ \A u \in DOMAIN db \ {t} : db'[u] = db[u]
         /\ db'[t].cols = db[t].cols
         /\ DOMAIN db[t].rows \subseteq DOMAIN db'[t].rows
         /\ \A i \in DOMAIN db[t].rows : db'[t].rows[i] = db[t].rows[i]
         /\ n \in NamesIn(db', t)
         /\ NamesIn(db', t) \subseteq NamesIn(db, t) \cup {n}
  <1> DEFINE rows == db[t].rows
             id == CHOOSE i \in NextRowId(rows) : TRUE
             table == [db[t] EXCEPT !.rows = WithRow(rows, id, [name |-> n])]
  <1>1. TableType(t, db[t]) /\ t \in TableName
    BY DEF DatabaseType
  <1>2. DOMAIN rows \subseteq RowId /\ Bounded(DOMAIN rows)
    BY <1>1 DEF TableType, Rectangular
  <1>3. id \in NextRowId(rows)
    BY <1>2, NextRowIdExists
  <1>4. id \in RowId /\ id \notin DOMAIN rows /\ \A i \in DOMAIN rows : i < id
    BY <1>2, <1>3 DEF NextRowId, RowId
  <1>5. db' = WithTable(t, table)
    BY DEF InsertedName
  <1> HIDE DEF id
  <1>6. /\ DOMAIN table = {"cols", "rows"} /\ table.cols = db[t].cols
        /\ table.rows = WithRow(rows, id, [name |-> n])
    BY <1>1 DEF TableType, Rectangular
  <1>7. /\ DOMAIN table.rows = DOMAIN rows \cup {id}
        /\ table.rows[id] = [name |-> n]
        /\ \A i \in DOMAIN rows : table.rows[i] = rows[i]
    BY <1>4, <1>6 DEF WithRow
  <1>8. Bounded(DOMAIN table.rows)
    <2>1. \A i \in DOMAIN table.rows : i <= id
      BY <1>2, <1>4, <1>7 DEF RowId
    <2> QED BY <1>4, <2>1 DEF Bounded, RowId
  <1>9. Rectangular(table)
    <2>1. DOMAIN [name |-> n] = {"name"} /\ db[t].cols = {"name"}
      BY <1>1 DEF TableType
    <2> QED BY <1>1, <1>4, <1>6, <1>7, <2>1 DEF Rectangular, TableType
  <1>10. TableType(t, table)
    BY <1>1, <1>6, <1>8, <1>9 DEF TableType
  <1> HIDE DEF table
  <1>11. /\ DOMAIN db' = DOMAIN db /\ db'[t] = table
         /\ \A u \in DOMAIN db \ {t} : db'[u] = db[u]
    BY <1>5, WithTableEffect
  <1>12. DatabaseType'
    BY <1>1, <1>5, <1>10, WithTableType
  <1>13. n \in NamesIn(db', t) /\ NamesIn(db', t) \subseteq NamesIn(db, t) \cup {n}
    <2>1. [name |-> n].name = n
      OBVIOUS
    <2> QED BY <1>7, <1>11, <2>1 DEF NamesIn, RowIdsIn
  <1> QED BY <1>6, <1>7, <1>11, <1>12, <1>13

\* A table of expenses whose rows get other columns and keep their ids.
LEMMA ReshapedType ==
  ASSUME DatabaseType, NEW t \in DOMAIN db \ TablesOfNames, NEW table,
         DOMAIN table = {"cols", "rows"},
         DOMAIN table.rows = DOMAIN db[t].rows,
         \A i \in DOMAIN table.rows : DOMAIN table.rows[i] = table.cols,
         db' = WithTable(t, table)
  PROVE  DatabaseType'
  <1>1. TableType(t, db[t]) /\ t \in TableName
    BY DEF DatabaseType
  <1>2. TableType(t, table)
    BY <1>1 DEF TableType, Rectangular
  <1> QED BY <1>1, <1>2, WithTableType

LEMMA AddColumnEffect ==
  ASSUME DatabaseType, NEW t, NEW c, NEW value, t \notin TablesOfNames,
         Accepted(AddColumn(t, c, value)), db' = After(AddColumn(t, c, value))
  PROVE  /\ DatabaseType' /\ t \in DOMAIN db /\ c \notin db[t].cols
         /\ DOMAIN db' = DOMAIN db
         /\ \A u \in DOMAIN db \ {t} : db'[u] = db[u]
         /\ db'[t].cols = db[t].cols \cup {c}
         /\ DOMAIN db'[t].rows = DOMAIN db[t].rows
         /\ \A i \in DOMAIN db[t].rows :
              /\ DOMAIN db'[t].rows[i] = db[t].cols \cup {c}
              /\ db'[t].rows[i][c] = value
              /\ \A x \in db[t].cols : db'[t].rows[i][x] = db[t].rows[i][x]
  <1> DEFINE cols == db[t].cols \cup {c}
             table == [cols |-> cols,
                       rows |-> [i \in DOMAIN db[t].rows |->
                                  [x \in cols |->
                                    IF x = c THEN value
                                    ELSE db[t].rows[i][x]]]]
  <1>1. t \in DOMAIN db /\ c \notin db[t].cols
    BY DEF Accepted, AddColumn, Exists, HasColumn
  <1>2. db' = WithTable(t, table)
    BY DEF After, AddColumn
  <1>3. /\ DOMAIN table = {"cols", "rows"} /\ table.cols = cols
        /\ DOMAIN table.rows = DOMAIN db[t].rows
        /\ \A i \in DOMAIN db[t].rows :
             /\ DOMAIN table.rows[i] = cols /\ table.rows[i][c] = value
             /\ \A x \in db[t].cols : table.rows[i][x] = db[t].rows[i][x]
    BY <1>1
  <1>4. \A i \in DOMAIN table.rows : DOMAIN table.rows[i] = table.cols
    BY <1>3
  <1> HIDE DEF table
  <1>5. DatabaseType'
    BY <1>1, <1>2, <1>3, <1>4, ReshapedType
  <1>6. /\ DOMAIN db' = DOMAIN db /\ db'[t] = table
        /\ \A u \in DOMAIN db \ {t} : db'[u] = db[u]
    BY <1>1, <1>2, WithTableEffect
  <1> QED BY <1>1, <1>3, <1>5, <1>6

LEMMA DropColumnEffect ==
  ASSUME DatabaseType, NEW t, NEW c, t \notin TablesOfNames,
         Accepted(DropColumn(t, c)), db' = After(DropColumn(t, c))
  PROVE  /\ DatabaseType' /\ t \in DOMAIN db /\ c \in db[t].cols
         /\ DOMAIN db' = DOMAIN db
         /\ \A u \in DOMAIN db \ {t} : db'[u] = db[u]
         /\ db'[t].cols = db[t].cols \ {c}
         /\ DOMAIN db'[t].rows = DOMAIN db[t].rows
         /\ \A i \in DOMAIN db[t].rows :
              /\ DOMAIN db'[t].rows[i] = db[t].cols \ {c}
              /\ \A x \in db[t].cols \ {c} :
                   db'[t].rows[i][x] = db[t].rows[i][x]
  <1> DEFINE cols == db[t].cols \ {c}
             table == [cols |-> cols,
                       rows |-> [i \in DOMAIN db[t].rows |->
                                  [x \in cols |-> db[t].rows[i][x]]]]
  <1>1. t \in DOMAIN db /\ c \in db[t].cols
    BY DEF Accepted, DropColumn, Exists, HasColumn
  <1>2. db' = WithTable(t, table)
    BY DEF After, DropColumn
  <1>3. /\ DOMAIN table = {"cols", "rows"} /\ table.cols = cols
        /\ DOMAIN table.rows = DOMAIN db[t].rows
        /\ \A i \in DOMAIN db[t].rows :
             /\ DOMAIN table.rows[i] = cols
             /\ \A x \in cols : table.rows[i][x] = db[t].rows[i][x]
    OBVIOUS
  <1>4. \A i \in DOMAIN table.rows : DOMAIN table.rows[i] = table.cols
    BY <1>3
  <1> HIDE DEF table
  <1>5. DatabaseType'
    BY <1>1, <1>2, <1>3, <1>4, ReshapedType
  <1>6. /\ DOMAIN db' = DOMAIN db /\ db'[t] = table
        /\ \A u \in DOMAIN db \ {t} : db'[u] = db[u]
    BY <1>1, <1>2, WithTableEffect
  <1> QED BY <1>1, <1>3, <1>5, <1>6

LEMMA FillColumnEffect ==
  ASSUME DatabaseType, NEW t, NEW c, NEW other, NEW text,
         t \notin TablesOfNames,
         Accepted(FillColumn(t, c, other, text)),
         db' = After(FillColumn(t, c, other, text))
  PROVE  /\ DatabaseType' /\ {t, other} \subseteq DOMAIN db
         /\ {c, text} \subseteq db[t].cols
         /\ DOMAIN db' = DOMAIN db
         /\ \A u \in DOMAIN db \ {t} : db'[u] = db[u]
         /\ db'[t].cols = db[t].cols
         /\ DOMAIN db'[t].rows = DOMAIN db[t].rows
         /\ \A i \in DOMAIN db[t].rows :
              db'[t].rows[i] = [db[t].rows[i] EXCEPT
                                  ![c] = IdOfName(other, db[t].rows[i][text])]
  <1> DEFINE s == FillColumn(t, c, other, text)
             table == [db[t] EXCEPT !.rows = Filled(s)]
  <1>1. {t, other} \subseteq DOMAIN db /\ {c, text} \subseteq db[t].cols
    BY DEF Accepted, FillColumn, Exists, HasColumn
  <1>2. db' = WithTable(t, table)
    BY DEF After, FillColumn
  <1>3. TableType(t, db[t])
    BY <1>1 DEF DatabaseType
  <1>4. /\ DOMAIN Filled(s) = DOMAIN db[t].rows
        /\ \A i \in DOMAIN db[t].rows :
             Filled(s)[i] = [db[t].rows[i] EXCEPT
                               ![c] = IdOfName(other, db[t].rows[i][text])]
    BY DEF Filled, FillColumn
  <1> HIDE DEF s
  <1>5. /\ DOMAIN table = {"cols", "rows"} /\ table.cols = db[t].cols
        /\ table.rows = Filled(s)
    BY <1>3 DEF TableType, Rectangular
  <1>6. \A i \in DOMAIN table.rows : DOMAIN table.rows[i] = table.cols
    BY <1>3, <1>4, <1>5 DEF TableType, Rectangular
  <1> HIDE DEF table
  <1>7. DatabaseType'
    BY <1>1, <1>2, <1>4, <1>5, <1>6, ReshapedType
  <1>8. t \in DOMAIN db
    BY <1>1
  <1>9. /\ DOMAIN db' = DOMAIN db \cup {t} /\ db'[t] = table
        /\ \A u \in DOMAIN db \ {t} : db'[u] = db[u]
    BY <1>2, WithTableEffect
  <1>10. DOMAIN db' = DOMAIN db
    BY <1>8, <1>9
  <1> QED BY <1>1, <1>4, <1>5, <1>7, <1>9, <1>10

\* A row of t as it is put into expenses.
CopiedRow(t, row) ==
  [c \in db["expenses"].cols |->
    CASE c = "account" -> Aditya
      [] c = "account_id" -> Unset
      [] c = "tags" /\ t = "marriage_expense" -> Marriage
      [] OTHER -> row[c]]

\* What a copied row has in its columns.
LEMMA CopiedRowColumns ==
  ASSUME NEW t, NEW row
  PROVE  /\ DOMAIN CopiedRow(t, row) = db["expenses"].cols
         /\ "name" \in db["expenses"].cols => CopiedRow(t, row).name = row.name
         /\ "category_id" \in db["expenses"].cols =>
              CopiedRow(t, row).category_id = row.category_id
         /\ "account" \in db["expenses"].cols =>
              CopiedRow(t, row).account = Aditya
         /\ "tags" \in db["expenses"].cols =>
              CopiedRow(t, row).tags \in {Marriage, row.tags}
  BY DEF CopiedRow

\* A copy changes only expenses, leaves the rows that are there and puts each
\* row of the other table behind them.
LEMMA CopyEffect ==
  ASSUME DatabaseType, NEW t, Accepted(CopyRows(t)), db' = After(CopyRows(t))
  PROVE  /\ DatabaseType' /\ t \in DOMAIN db /\ "expenses" \in DOMAIN db
         /\ "account" \in db["expenses"].cols
         /\ DOMAIN db' = DOMAIN db
         /\ \A u \in DOMAIN db \ {"expenses"} : db'[u] = db[u]
         /\ db'["expenses"].cols = db["expenses"].cols
         /\ DOMAIN db["expenses"].rows \subseteq DOMAIN db'["expenses"].rows
         /\ \A i \in DOMAIN db["expenses"].rows :
              db'["expenses"].rows[i] = db["expenses"].rows[i]
         /\ \A j \in DOMAIN db'["expenses"].rows \ DOMAIN db["expenses"].rows :
              \E i \in DOMAIN db[t].rows :
                db'["expenses"].rows[j] = CopiedRow(t, db[t].rows[i])
         /\ \A i \in DOMAIN db[t].rows :
              \E j \in DOMAIN db'["expenses"].rows :
                db'["expenses"].rows[j] = CopiedRow(t, db[t].rows[i])
  <1> DEFINE s == CopyRows(t)
             old == db["expenses"].rows
             last == CHOOSE id \in NextRowId(old) : TRUE
             table == [db["expenses"] EXCEPT !.rows = Copied(t)]
  <1>1. t \in DOMAIN db
    BY DEF Accepted, CopyRows, Exists, HasColumn
  <1>2. "expenses" \in DOMAIN db /\ "account" \in db["expenses"].cols
    BY DEF Accepted, CopyRows, Exists, HasColumn
  <1>3. db' = WithTable("expenses", table)
    BY DEF After, CopyRows
  <1>4. TableType("expenses", db["expenses"]) /\ TableType(t, db[t])
    BY <1>1, <1>2 DEF DatabaseType
  <1>5. /\ DOMAIN old \subseteq RowId /\ Bounded(DOMAIN old)
        /\ DOMAIN db[t].rows \subseteq RowId /\ Bounded(DOMAIN db[t].rows)
    BY <1>4 DEF TableType, Rectangular
  <1>6. last \in NextRowId(old)
    BY <1>5, NextRowIdExists
  <1>7. last \in RowId /\ \A i \in DOMAIN old : i < last
    BY <1>5, <1>6 DEF NextRowId, RowId
  <1> DEFINE moved == {last + i : i \in DOMAIN db[t].rows}
  <1> DEFINE new == [k \in moved |-> db[t].rows[k - last]]
  <1>8. Copied(t) = [i \in DOMAIN old \cup DOMAIN new |->
                      IF i \in DOMAIN old THEN old[i]
                      ELSE CopiedRow(t, new[i])]
    BY Zenon DEF Copied, CopiedRow
  <1> HIDE DEF last
  <1>9. \A i \in DOMAIN db[t].rows :
          /\ last + i \in RowId /\ last + i \notin DOMAIN old
          /\ (last + i) - last = i
    <2> SUFFICES ASSUME NEW i \in DOMAIN db[t].rows
                 PROVE  /\ last + i \in RowId /\ last + i \notin DOMAIN old
                        /\ (last + i) - last = i
      OBVIOUS
    <2>1. i \in Nat /\ i > 0 /\ last \in Nat
      BY <1>5, <1>7 DEF RowId
    <2>2. last + i \in RowId /\ last + i > last /\ (last + i) - last = i
      BY <2>1 DEF RowId
    <2>3. last + i \notin DOMAIN old
      BY <1>5, <1>7, <2>1, <2>2 DEF RowId
    <2> QED BY <2>2, <2>3
  <1>10. moved \subseteq RowId /\ moved \cap DOMAIN old = {}
    BY <1>9
  <1>11. Bounded(DOMAIN old \cup moved)
    <2>1. PICK m \in Nat : \A i \in DOMAIN db[t].rows : i <= m
      BY <1>5 DEF Bounded
    <2>2. last \in Nat /\ last + m \in Nat
      BY <1>7, <2>1 DEF RowId
    <2>3. \A i \in DOMAIN db[t].rows : last + i <= last + m
      BY <1>5, <2>1, <2>2 DEF RowId
    <2>4. \A i \in DOMAIN old : i <= last + m
      BY <1>5, <1>7, <2>1, <2>2 DEF RowId
    <2>5. \A j \in DOMAIN old \cup moved : j <= last + m
      BY <2>3, <2>4
    <2> QED BY <2>2, <2>5 DEF Bounded
  <1>12. /\ DOMAIN Copied(t) = DOMAIN old \cup moved
         /\ \A j \in DOMAIN old : Copied(t)[j] = old[j]
         /\ \A j \in moved : Copied(t)[j] = CopiedRow(t, db[t].rows[j - last])
    BY <1>8, <1>10 DEF new
  <1>13. /\ DOMAIN table = {"cols", "rows"} /\ table.cols = db["expenses"].cols
         /\ table.rows = Copied(t)
    BY <1>4 DEF TableType, Rectangular
  <1>14. \A j \in moved : \E i \in DOMAIN db[t].rows :
           Copied(t)[j] = CopiedRow(t, db[t].rows[i])
    BY <1>9, <1>12
  <1>15. \A i \in DOMAIN db[t].rows :
           /\ last + i \in moved
           /\ Copied(t)[last + i] = CopiedRow(t, db[t].rows[i])
    BY <1>9, <1>12
  <1> HIDE DEF moved, table
  <1>16. \A j \in DOMAIN table.rows : DOMAIN table.rows[j] = table.cols
    <2>1. \A j \in DOMAIN old : DOMAIN old[j] = db["expenses"].cols
      BY <1>4 DEF TableType, Rectangular
    <2>2. \A j \in moved : DOMAIN Copied(t)[j] = db["expenses"].cols
      BY <1>14, CopiedRowColumns
    <2> QED BY <1>12, <1>13, <2>1, <2>2
  <1>17. Rectangular(table)
    BY <1>5, <1>10, <1>12, <1>13, <1>16 DEF Rectangular
  <1>18. TableType("expenses", table)
    BY <1>11, <1>12, <1>13, <1>17 DEF TableType, TablesOfNames
  <1>19. DatabaseType'
    BY <1>2, <1>3, <1>18, WithTableType DEF TableName, JsonColumns
  <1>20. /\ DOMAIN db' = DOMAIN db \cup {"expenses"} /\ db'["expenses"] = table
         /\ \A u \in DOMAIN db \ {"expenses"} : db'[u] = db[u]
    BY <1>3, WithTableEffect
  <1>21. DOMAIN db' = DOMAIN db
    BY <1>2, <1>20
  <1>22. /\ \A j \in DOMAIN db'["expenses"].rows \ DOMAIN old :
              \E i \in DOMAIN db[t].rows :
                db'["expenses"].rows[j] = CopiedRow(t, db[t].rows[i])
         /\ \A i \in DOMAIN db[t].rows :
              \E j \in DOMAIN db'["expenses"].rows :
                db'["expenses"].rows[j] = CopiedRow(t, db[t].rows[i])
    BY <1>12, <1>13, <1>14, <1>15, <1>20
  <1>23. /\ db'["expenses"].cols = db["expenses"].cols
         /\ DOMAIN old \subseteq DOMAIN db'["expenses"].rows
         /\ \A i \in DOMAIN old : db'["expenses"].rows[i] = old[i]
    BY <1>12, <1>13, <1>20
  <1> QED BY <1>1, <1>2, <1>19, <1>20, <1>21, <1>22, <1>23

LEMMA CreateEffect ==
  ASSUME DatabaseType, NEW t \in TableName, NEW columns,
         t \in TablesOfNames => columns = {"name"},
         t \notin DOMAIN db, db' = WithTable(t, NewTable(columns))
  PROVE  /\ DatabaseType' /\ DOMAIN db' = DOMAIN db \cup {t}
         /\ \A u \in DOMAIN db : db'[u] = db[u]
         /\ db'[t].cols = columns /\ DOMAIN db'[t].rows = {}
  <1>1. TableType(t, NewTable(columns))
    BY NewTableType
  <1>2. DatabaseType'
    BY <1>1, WithTableType
  <1>3. /\ DOMAIN db' = DOMAIN db \cup {t} /\ db'[t] = NewTable(columns)
        /\ \A u \in DOMAIN db \ {t} : db'[u] = db[u]
    BY WithTableEffect
  <1> QED BY <1>2, <1>3 DEF NewTable, EmptyTable

LEMMA DropEffect ==
  ASSUME DatabaseType, NEW t, db' = After(DropTable(t))
  PROVE  /\ DatabaseType' /\ DOMAIN db' = DOMAIN db \ {t}
         /\ \A u \in DOMAIN db \ {t} : db'[u] = db[u]
  <1>1. db' = [u \in DOMAIN db \ {t} |-> db[u]]
    BY DEF After, DropTable
  <1>2. /\ DOMAIN db' = DOMAIN db \ {t}
        /\ \A u \in DOMAIN db \ {t} : db'[u] = db[u]
    BY <1>1
  <1> QED BY <1>2 DEF DatabaseType

\* The rows of the tables of names, which are kept as long as the table is.
NamesKept(d, e) ==
  \A t \in TablesOfNames :
    /\ RowIdsIn(d, t) \subseteq RowIdsIn(e, t)
    /\ \A i \in RowIdsIn(d, t) : e[t].rows[i] = d[t].rows[i]

\* Names that are kept are there, too.
LEMMA NamesStay ==
  ASSUME NEW d, NEW e, NamesKept(d, e), NEW t \in TablesOfNames
  PROVE  NamesIn(d, t) \subseteq NamesIn(e, t)
  BY DEF NamesKept, NamesIn

LEMMA KindsOfTables ==
  /\ TablesOfNames = {"accounts", "categories", "reminders", "tags", "migrations"}
  /\ DOMAIN JsonColumns =
       {"accounts", "categories", "reminders", "tags", "expenses"}
  /\ "expenses" \notin TablesOfNames /\ LegacyTable \cap TablesOfNames = {}
  /\ \A t \in DOMAIN JsonColumns : t # "expenses" => JsonColumns[t] = {"name"}
  /\ JsonColumns["expenses"] = {"name", "tags", "category_id", "account_id"}
  /\ "expenses" \notin LegacyTable
  BY DEF TablesOfNames, TableName, JsonColumns, LegacyTable

\* Tables that are the same keep their names.
LEMMA SameNamesKept ==
  ASSUME NEW d, NEW e,
         \A t \in DOMAIN d \cap TablesOfNames : t \in DOMAIN e /\ e[t] = d[t]
  PROVE  NamesKept(d, e)
  BY DEF NamesKept, RowIdsIn

\* An insert of a name keeps the names.
LEMMA InsertedNameKeeps ==
  ASSUME DatabaseType, NEW t \in DOMAIN db \cap TablesOfNames, NEW n,
         db' = InsertedName(t, n)
  PROVE  NamesKept(db, db')
  <1>1. /\ DOMAIN db' = DOMAIN db
        /\ \A u \in DOMAIN db \ {t} : db'[u] = db[u]
        /\ DOMAIN db[t].rows \subseteq DOMAIN db'[t].rows
        /\ \A i \in DOMAIN db[t].rows : db'[t].rows[i] = db[t].rows[i]
    BY InsertedNameEffect
  <1>2. SUFFICES ASSUME NEW u \in TablesOfNames, u \in DOMAIN db
                 PROVE  /\ DOMAIN db[u].rows \subseteq RowIdsIn(db', u)
                        /\ \A i \in DOMAIN db[u].rows :
                             db'[u].rows[i] = db[u].rows[i]
    BY DEF NamesKept, RowIdsIn
  <1>3. CASE u = t
    BY <1>1, <1>2, <1>3 DEF RowIdsIn
  <1>4. CASE u # t
    BY <1>1, <1>2, <1>4 DEF RowIdsIn
  <1> QED BY <1>3, <1>4

\* What each statement of a migration does to the type and the names.
StatementKeeps ==
  DatabaseType' /\ NamesKept(db, db') /\ DOMAIN db \ LegacyTable \subseteq DOMAIN db'

LEMMA AddColumnKeeps ==
  ASSUME DatabaseType, NEW t, NEW c, NEW value, t \notin TablesOfNames,
         Accepted(AddColumn(t, c, value)), db' = After(AddColumn(t, c, value))
  PROVE  StatementKeeps
  <1>1. /\ DatabaseType' /\ DOMAIN db' = DOMAIN db
        /\ \A u \in DOMAIN db \ {t} : db'[u] = db[u]
    BY AddColumnEffect
  <1> QED BY <1>1, SameNamesKept DEF StatementKeeps

LEMMA FillColumnKeeps ==
  ASSUME DatabaseType, NEW t, NEW c, NEW other, NEW text,
         t \notin TablesOfNames, Accepted(FillColumn(t, c, other, text)),
         db' = After(FillColumn(t, c, other, text))
  PROVE  StatementKeeps
  <1>1. /\ DatabaseType' /\ DOMAIN db' = DOMAIN db
        /\ \A u \in DOMAIN db \ {t} : db'[u] = db[u]
    BY FillColumnEffect
  <1> QED BY <1>1, SameNamesKept DEF StatementKeeps

LEMMA DropColumnKeeps ==
  ASSUME DatabaseType, NEW t, NEW c, t \notin TablesOfNames,
         Accepted(DropColumn(t, c)), db' = After(DropColumn(t, c))
  PROVE  StatementKeeps
  <1>1. /\ DatabaseType' /\ DOMAIN db' = DOMAIN db
        /\ \A u \in DOMAIN db \ {t} : db'[u] = db[u]
    BY DropColumnEffect
  <1> QED BY <1>1, SameNamesKept DEF StatementKeeps

LEMMA CopyKeeps ==
  ASSUME DatabaseType, NEW t, Accepted(CopyRows(t)), db' = After(CopyRows(t))
  PROVE  StatementKeeps
  <1>1. /\ DatabaseType' /\ DOMAIN db' = DOMAIN db
        /\ \A u \in DOMAIN db \ {"expenses"} : db'[u] = db[u]
    BY CopyEffect
  <1> QED BY <1>1, KindsOfTables, SameNamesKept DEF StatementKeeps

LEMMA DropKeeps ==
  ASSUME DatabaseType, NEW t \in LegacyTable, db' = After(DropTable(t))
  PROVE  StatementKeeps
  <1>1. /\ DatabaseType' /\ DOMAIN db' = DOMAIN db \ {t}
        /\ \A u \in DOMAIN db \ {t} : db'[u] = db[u]
    BY DropEffect
  <1>2. t \notin TablesOfNames
    BY KindsOfTables
  <1> QED BY <1>1, <1>2, SameNamesKept DEF StatementKeeps

LEMMA InsertKeeps ==
  ASSUME DatabaseType, NEW t \in TablesOfNames, NEW n,
         Accepted(InsertName(t, n)), db' = After(InsertName(t, n))
  PROVE  StatementKeeps /\ db' = InsertedName(t, n) /\ t \in DOMAIN db
  <1>1. t \in DOMAIN db /\ db' = InsertedName(t, n)
    BY DEF Accepted, After, InsertName, Exists
  <1>2. DatabaseType' /\ DOMAIN db' = DOMAIN db
    BY <1>1, InsertedNameEffect
  <1>3. NamesKept(db, db')
    BY <1>1, InsertedNameKeeps
  <1> QED BY <1>1, <1>2, <1>3 DEF StatementKeeps

\* A migration makes no table: those that it would make are there already.
LEMMA NothingCreated ==
  ASSUME NEW t \in DOMAIN db, NEW columns
  PROVE  ~Accepted(CreateTable(t, columns))
  BY DEF Accepted, CreateTable, Exists

\* Every statement of a migration keeps the type of the database, the names and
\* the tables that are not legacy ones.
LEMMA MigrationKeeps ==
  ASSUME DatabaseType, DOMAIN JsonColumns \subseteq DOMAIN db,
         NEW n \in DOMAIN Migrations, NEW k \in DOMAIN Migrations[n],
         Accepted(Migrations[n][k]), db' = After(Migrations[n][k])
  PROVE  StatementKeeps
  <1> DEFINE s == Migrations[n][k]
  <1>0. n \in 1 .. 4
    BY FourMigrations
  <1>1. CASE n = 1
    <2>1. s \in LegacyStatement
      BY <1>1, FirstMigration
    <2>2. CASE \E t \in LegacyTable : s = AddColumn(t, "category_id", Null)
      BY <2>2, AddColumnKeeps, KindsOfTables
    <2>3. CASE \E t \in LegacyTable :
                 s = FillColumn(t, "category_id", "categories", "category")
      BY <2>3, FillColumnKeeps, KindsOfTables
    <2>4. CASE \E t \in LegacyTable : s = DropColumn(t, "category")
      BY <2>4, DropColumnKeeps, KindsOfTables
    <2> QED BY <2>1, <2>2, <2>3, <2>4 DEF LegacyStatement
  <1>2. CASE n = 2
    <2>1. k \in 1 .. 8
      BY <1>2, SecondMigration
    <2>2. CASE k = 1
      BY <1>2, <2>2, SecondMigration, InsertKeeps, KindsOfTables
    <2>3. CASE k = 2
      BY <1>2, <2>3, SecondMigration, NothingCreated, KindsOfTables
    <2>4. CASE k \in 3 .. 5
      <3>1. \E t \in LegacyTable : s = CopyRows(t)
        BY <1>2, <2>4, SecondMigration DEF LegacyTable
      <3> QED BY <3>1, CopyKeeps
    <2>5. CASE k \in 6 .. 8
      <3>1. \E t \in LegacyTable : s = DropTable(t)
        BY <1>2, <2>5, SecondMigration DEF LegacyTable
      <3> QED BY <3>1, DropKeeps
    <2> QED BY <2>1, <2>2, <2>3, <2>4, <2>5
  <1>3. CASE n = 3
    <2>1. k \in 1 .. 2
      BY <1>3, ThirdMigration
    <2>2. CASE k = 1
      BY <1>3, <2>2, ThirdMigration, NothingCreated, KindsOfTables
    <2>3. CASE k = 2
      BY <1>3, <2>3, ThirdMigration, InsertKeeps, KindsOfTables
    <2> QED BY <2>1, <2>2, <2>3
  <1>4. CASE n = 4
    <2>1. k \in 1 .. 3
      BY <1>4, FourthMigration
    <2>2. CASE k = 1
      BY <1>4, <2>2, FourthMigration, AddColumnKeeps, KindsOfTables
    <2>3. CASE k = 2
      BY <1>4, <2>3, FourthMigration, FillColumnKeeps, KindsOfTables
    <2>4. CASE k = 3
      BY <1>4, <2>4, FourthMigration, DropColumnKeeps, KindsOfTables
    <2> QED BY <2>1, <2>2, <2>3, <2>4
  <1> QED BY <1>0, <1>1, <1>2, <1>3, <1>4

-----------------------------------------------------------------------------
(***************************************************************************)
(* The type.                                                               *)
(***************************************************************************)
LEMMA GotoEffect ==
  ASSUME DOMAIN at = Proc, NEW p \in Proc, NEW next, Goto(p, next)
  PROVE  /\ DOMAIN at' = Proc /\ at'[p] = next
         /\ \A q \in Proc \ {p} : at'[q] = at[q]
  BY DEF Goto

LEMMA TablesStay ==
  ASSUME NEW d, NEW e, NEW s, TablesReady(d, s),
         DOMAIN d \ LegacyTable \subseteq DOMAIN e
  PROVE  TablesReady(e, s)
  <1>1. "migrations" \notin LegacyTable /\ DOMAIN JsonColumns \cap LegacyTable = {}
    BY KindsOfTables DEF LegacyTable
  <1> QED BY <1>1 DEF TablesReady

\* A step of one start: its own state and the database keep their types.
LEMMA StepType ==
  ASSUME TypeInv, NEW p \in Proc, NEW next, Goto(p, next), StepOK(next),
         TablesReady(db', next), DatabaseType',
         DOMAIN db \ LegacyTable \subseteq DOMAIN db',
         fileIsThere' \in BOOLEAN, misled' \in BOOLEAN,
         passedOver' \in 0 .. MaxPassedOver,
         first' \in [Proc -> BOOLEAN], build' = build
  PROVE  TypeInv'
  <1>1. /\ DOMAIN at' = Proc /\ at'[p] = next
        /\ \A q \in Proc \ {p} : at'[q] = at[q]
    BY GotoEffect DEF TypeInv, ProcessType
  <1>2. \A q \in Proc : StepOK(at'[q])
    BY <1>1 DEF TypeInv, ProcessType
  <1>3. \A q \in Proc : TablesReady(db', at'[q])
    BY <1>1, TablesStay DEF TypeInv
  <1>4. ProcessType'
    BY <1>1, <1>2 DEF TypeInv, ProcessType
  <1> QED BY <1>3, <1>4 DEF TypeInv

LEMMA OffType ==
  ASSUME NEW d
  PROVE  StepOK(Off) /\ TablesReady(d, Off)
  BY DEF Off, StepOK, TablesReady

\* A refused statement leaves the database, the process goes on or ends.
LEMMA RefuseType ==
  ASSUME TypeInv, NEW p \in Proc, NEW next, Refuse(p, next), StepOK(next),
         TablesReady(db, next), passedOver' \in 0 .. MaxPassedOver,
         UNCHANGED <<fileIsThere, first, build, before, misled>>
  PROVE  TypeInv'
  <1>1. /\ db' = db /\ DatabaseType' /\ fileIsThere' \in BOOLEAN
        /\ misled' \in BOOLEAN /\ first' \in [Proc -> BOOLEAN]
    BY DEF Refuse, TypeInv, ProcessType, DatabaseType
  <1>2. CASE Goto(p, next)
    BY <1>1, <1>2, StepType
  <1>3. CASE Goto(p, Off)
    BY <1>1, <1>3, OffType, StepType
  <1> QED BY <1>2, <1>3 DEF Refuse

LEMMA AfterMigrationType ==
  ASSUME NEW n \in DOMAIN Migrations, NEW d, DOMAIN JsonColumns \subseteq DOMAIN d,
         "migrations" \in DOMAIN d
  PROVE  StepOK(AfterMigration(n)) /\ TablesReady(d, AfterMigration(n))
  <1>1. n \in 1 .. 4 /\ Len(Migrations) = 4 /\ DOMAIN Migrations = 1 .. 4
    BY FourMigrations
  <1>2. CASE n = 4
    BY <1>1, <1>2 DEF AfterMigration, StepOK, TablesReady
  <1>3. CASE n # 4
    <2>1. AfterMigration(n) = [op |-> "migrate", n |-> n + 1]
      BY <1>1, <1>3 DEF AfterMigration
    <2>2. n + 1 \in DOMAIN Migrations
      BY <1>1, <1>3
    <2> QED BY <2>1, <2>2 DEF StepOK, TablesReady
  <1> QED BY <1>2, <1>3

LEMMA AfterStatementType ==
  ASSUME NEW n \in DOMAIN Migrations, NEW k \in DOMAIN Migrations[n], NEW d,
         DOMAIN JsonColumns \subseteq DOMAIN d, "migrations" \in DOMAIN d
  PROVE  StepOK(AfterStatement(n, k)) /\ TablesReady(d, AfterStatement(n, k))
  <1>1. DOMAIN Migrations[n] = 1 .. Len(Migrations[n]) /\ Len(Migrations[n]) \in Nat
    BY FourMigrations, FirstMigration, SecondMigration, ThirdMigration,
       FourthMigration
  <1>2. CASE k = Len(Migrations[n])
    BY <1>2 DEF AfterStatement, StepOK, TablesReady
  <1>3. CASE k # Len(Migrations[n])
    <2>1. AfterStatement(n, k) = [op |-> "run", n |-> n, k |-> k + 1]
      BY <1>3 DEF AfterStatement
    <2>2. k + 1 \in DOMAIN Migrations[n]
      BY <1>1, <1>3
    <2> QED BY <2>1, <2>2 DEF StepOK, TablesReady
  <1> QED BY <1>2, <1>3

LEMMA InitType == Init => TypeInv
  <1> SUFFICES ASSUME Init PROVE TypeInv
    OBVIOUS
  <1>1. DatabaseType
    <2>1. /\ DOMAIN db \subseteq TableName
          /\ \A t \in DOMAIN db : Rectangular(db[t]) /\ IsFiniteSet(DOMAIN db[t].rows)
          /\ \A t \in DOMAIN db \cap TablesOfNames : db[t].cols = {"name"}
      BY StartupAssumption DEF Init
    <2>2. \A t \in DOMAIN db : Bounded(DOMAIN db[t].rows)
      <3> SUFFICES ASSUME NEW t \in DOMAIN db PROVE Bounded(DOMAIN db[t].rows)
        OBVIOUS
      <3>1. DOMAIN db[t].rows \subseteq RowId /\ IsFiniteSet(DOMAIN db[t].rows)
        BY <2>1 DEF Rectangular
      <3> QED BY <3>1, FiniteBounded DEF RowId
    <2> QED BY <2>1, <2>2 DEF DatabaseType, TableType
  <1>2. ProcessType
    <2>1. passedOver \in 0 .. MaxPassedOver
      BY StartupAssumption DEF Init
    <2> QED BY <2>1, OffType DEF Init, ProcessType
  <1>3. \A p \in Proc : TablesReady(db, at[p])
    BY OffType DEF Init
  <1> QED BY <1>1, <1>2, <1>3 DEF TypeInv

\* What CreateTableFromJson does to the database.
RegisterEffect(d, e, t) ==
  \/ /\ t \notin DOMAIN d /\ DOMAIN e = DOMAIN d \cup {t}
     /\ \A u \in DOMAIN d : e[u] = d[u]
     /\ e[t].cols = JsonColumns[t] /\ DOMAIN e[t].rows = {}
  \/ t \in DOMAIN d /\ e = d
  \/ /\ t = "expenses" /\ "expenses" \in DOMAIN d
     /\ JsonColumns["expenses"] \ d["expenses"].cols # {}
     /\ Cardinality(d["expenses"].cols) # Cardinality(JsonColumns["expenses"])
     /\ DOMAIN e = DOMAIN d
     /\ \A u \in DOMAIN d \ {"expenses"} : e[u] = d[u]

\* What follows when the first of the files is done.
AfterFile(left) ==
  IF Len(left) = 1 THEN [op |-> "migrate", n |-> 1]
  ELSE [op |-> "register", left |-> Tail(left)]

LEMMA RegisterDoes ==
  ASSUME TypeInv, NEW p \in Proc, Register(p)
  PROVE  LET t == Head(at[p].left) IN
         /\ at[p].op = "register" /\ t \in DOMAIN JsonColumns
         /\ DatabaseType' /\ RegisterEffect(db, db', t)
         /\ Goto(p, AfterFile(at[p].left)) \/ Goto(p, Off)
         /\ UNCHANGED <<fileIsThere, first, build, before, misled, passedOver>>
  <1> DEFINE t == Head(at[p].left)
             next == AfterFile(at[p].left)
  <1>1. /\ at[p].op = "register"
        /\ UNCHANGED <<fileIsThere, first, build, before, misled, passedOver>>
    BY DEF Register
  <1>2. at[p].left \in Seq(DOMAIN JsonColumns) /\ at[p].left # <<>>
    BY <1>1 DEF TypeInv, ProcessType, StepOK
  <1>3. t \in DOMAIN JsonColumns
    BY <1>2
  <1>4. DatabaseType
    BY DEF TypeInv
  <1>5. t \in TableName /\ (t \in TablesOfNames => JsonColumns[t] = {"name"})
    BY <1>3, KindsOfTables DEF TableName
  <1>6. CASE ~Exists(t) /\ db' = WithTable(t, NewTable(JsonColumns[t]))
             /\ Goto(p, next)
    <2>1. /\ t \notin DOMAIN db
          /\ DatabaseType' /\ DOMAIN db' = DOMAIN db \cup {t}
          /\ \A u \in DOMAIN db : db'[u] = db[u]
          /\ db'[t].cols = JsonColumns[t] /\ DOMAIN db'[t].rows = {}
      BY <1>4, <1>5, <1>6, CreateEffect DEF Exists
    <2>2. RegisterEffect(db, db', t)
      BY <2>1 DEF RegisterEffect
    <2> QED BY <1>1, <1>3, <1>6, <2>1, <2>2
  <1>7. CASE Exists(t) /\ UNCHANGED db /\ (Goto(p, next) \/ Goto(p, Off))
    <2>1. DatabaseType'
      BY <1>4, <1>7 DEF DatabaseType
    <2>2. RegisterEffect(db, db', t)
      BY <1>7 DEF RegisterEffect, Exists
    <2> QED BY <1>1, <1>3, <1>7, <2>1, <2>2
  <1>8. CASE /\ Exists(t) /\ MissingColumns(t) # {}
             /\ db' = WithTable(t, NewTable(db[t].cols \cup JsonColumns[t]))
             /\ Goto(p, next)
    <2>1. t \in DOMAIN db /\ JsonColumns[t] \ db[t].cols # {}
          /\ Cardinality(db[t].cols) # Cardinality(JsonColumns[t])
      BY <1>8 DEF MissingColumns, Exists
    <2>2. t = "expenses"
      <3>1. t \in TablesOfNames => db[t].cols = {"name"}
        BY <1>4, <2>1 DEF DatabaseType, TableType
      <3>2. t \notin TablesOfNames
        BY <1>5, <2>1, <3>1
      <3> QED BY <1>3, <3>2, KindsOfTables
    <2>3. TableType(t, NewTable(db[t].cols \cup JsonColumns[t]))
      BY <2>2, KindsOfTables, NewTableType
    <2>4. DatabaseType'
      BY <1>4, <1>5, <1>8, <2>3, WithTableType
    <2>5. /\ DOMAIN db' = DOMAIN db \cup {t}
          /\ \A u \in DOMAIN db \ {t} : db'[u] = db[u]
      BY <1>8, WithTableEffect
    <2>6. RegisterEffect(db, db', t)
      BY <2>1, <2>2, <2>5 DEF RegisterEffect
    <2> QED BY <1>1, <1>3, <1>8, <2>4, <2>6
  <1>9. \/ /\ ~Exists(t) /\ db' = WithTable(t, NewTable(JsonColumns[t]))
           /\ Goto(p, next)
        \/ Exists(t) /\ UNCHANGED db /\ (Goto(p, next) \/ Goto(p, Off))
        \/ /\ Exists(t) /\ MissingColumns(t) # {}
           /\ db' = WithTable(t, NewTable(db[t].cols \cup JsonColumns[t]))
           /\ Goto(p, next)
    <2>1. \/ /\ ~Exists(t) /\ db' = WithTable(t, NewTable(JsonColumns[t]))
             /\ Goto(p, next)
          \/ Exists(t) /\ UNCHANGED db /\ Goto(p, next)
          \/ /\ Exists(t) /\ MissingColumns(t) # {}
             /\ db' = WithTable(t, NewTable(db[t].cols \cup JsonColumns[t]))
             /\ Goto(p, next)
          \/ Exists(t) /\ Refuse(p, next)
      BY DEF Register, AfterFile
    <2> QED BY <2>1 DEF Refuse
  <1> QED BY <1>6, <1>7, <1>8, <1>9

\* The file that is done is not missing: the others are still to come.
LEMMA AfterFileType ==
  ASSUME NEW left \in Seq(DOMAIN JsonColumns), left # <<>>, NEW d, NEW e, NEW s,
         s.op = "register", s.left = left, TablesReady(d, s),
         RegisterEffect(d, e, Head(left))
  PROVE  /\ StepOK(AfterFile(left)) /\ TablesReady(e, AfterFile(left))
         /\ DOMAIN d \subseteq DOMAIN e
  <1>1. DOMAIN d \subseteq DOMAIN e /\ Head(left) \in DOMAIN e
    BY DEF RegisterEffect
  <1>2. "migrations" \in DOMAIN e
    BY <1>1 DEF TablesReady
  <1>3. \A t \in DOMAIN JsonColumns :
          t \in DOMAIN e \/ \E i \in 1 .. Len(left) : i # 1 /\ left[i] = t
    BY <1>1 DEF TablesReady
  <1>4. Len(left) \in Nat /\ Len(left) >= 1
    BY EmptySeq
  <1>5. CASE Len(left) = 1
    <2>1. DOMAIN JsonColumns \subseteq DOMAIN e
      BY <1>3, <1>5
    <2>2. AfterFile(left) = [op |-> "migrate", n |-> 1] /\ 1 \in DOMAIN Migrations
      BY <1>5, FourMigrations DEF AfterFile
    <2> QED BY <1>1, <1>2, <2>1, <2>2 DEF StepOK, TablesReady
  <1>6. CASE Len(left) # 1
    <2>1. AfterFile(left) = [op |-> "register", left |-> Tail(left)]
      BY <1>6 DEF AfterFile
    <2>2. /\ Tail(left) \in Seq(DOMAIN JsonColumns)
          /\ Len(Tail(left)) = Len(left) - 1
          /\ \A i \in 1 .. Len(Tail(left)) : Tail(left)[i] = left[i + 1]
      BY <1>4
    <2>3. Tail(left) # <<>>
      <3>1. Len(<<>>) = 0 /\ Len(Tail(left)) # 0
        BY <1>4, <1>6, <2>2
      <3> QED BY <3>1
    <2>4. \A t \in DOMAIN JsonColumns :
            t \in DOMAIN e \/ \E i \in 1 .. Len(Tail(left)) : Tail(left)[i] = t
      <3> SUFFICES ASSUME NEW t \in DOMAIN JsonColumns, t \notin DOMAIN e
                   PROVE  \E i \in 1 .. Len(Tail(left)) : Tail(left)[i] = t
        OBVIOUS
      <3>1. PICK i \in 1 .. Len(left) : i # 1 /\ left[i] = t
        BY <1>3
      <3>2. i - 1 \in 1 .. Len(Tail(left)) /\ (i - 1) + 1 = i
        BY <1>4, <2>2, <3>1
      <3> QED BY <2>2, <3>1, <3>2
    <2>5. DOMAIN Tail(left) = 1 .. Len(Tail(left))
      BY <2>2
    <2>6. StepOK(AfterFile(left))
      BY <2>1, <2>2, <2>3 DEF StepOK
    <2>7. TablesReady(e, AfterFile(left))
      <3>1. AfterFile(left).op = "register" /\ AfterFile(left).left = Tail(left)
        BY <2>1
      <3>2. \A t \in DOMAIN JsonColumns :
              \/ t \in DOMAIN e
              \/ \E i \in DOMAIN AfterFile(left).left : AfterFile(left).left[i] = t
        BY <2>4, <2>5, <3>1
      <3> QED BY <1>2, <3>1, <3>2 DEF TablesReady
    <2> QED BY <1>1, <2>6, <2>7
  <1> QED BY <1>5, <1>6

\* A step that leaves the database and the history.
LEMMA QuietType ==
  ASSUME TypeInv, NEW p \in Proc, NEW next, Goto(p, next), StepOK(next),
         TablesReady(db, next),
         UNCHANGED <<db, fileIsThere, first, build, before, misled, passedOver>>
  PROVE  TypeInv'
  <1>1. /\ db' = db /\ DatabaseType' /\ fileIsThere' \in BOOLEAN
        /\ misled' \in BOOLEAN /\ first' \in [Proc -> BOOLEAN]
        /\ build' = build /\ passedOver' \in 0 .. MaxPassedOver
    BY DEF TypeInv, ProcessType, DatabaseType
  <1> QED BY <1>1, StepType

\* An insert of a name, and the step that makes it.
LEMMA InsertType ==
  ASSUME TypeInv, NEW p \in Proc, NEW next, Goto(p, next), StepOK(next),
         TablesReady(db, next), NEW t \in DOMAIN db \cap TablesOfNames, NEW n,
         db' = InsertedName(t, n),
         UNCHANGED <<fileIsThere, first, build, before, misled, passedOver>>
  PROVE  TypeInv'
  <1>1. DatabaseType' /\ DOMAIN db' = DOMAIN db
    BY InsertedNameEffect DEF TypeInv
  <1>2. TablesReady(db', next)
    BY <1>1, TablesStay
  <1>3. /\ fileIsThere' \in BOOLEAN /\ misled' \in BOOLEAN
        /\ passedOver' \in 0 .. MaxPassedOver
        /\ first' \in [Proc -> BOOLEAN] /\ build' = build
    BY DEF TypeInv, ProcessType
  <1> QED BY <1>1, <1>2, <1>3, StepType

\* What a start finds that is past its tables.
LEMMA TablesThere ==
  ASSUME TypeInv, NEW p \in Proc,
         at[p].op \in {"migrate", "run", "record", "account", "ready"}
  PROVE  /\ DOMAIN JsonColumns \subseteq DOMAIN db /\ "migrations" \in DOMAIN db
         /\ at[p].op \in {"migrate", "run", "record"} =>
              at[p].n \in DOMAIN Migrations
         /\ at[p].op = "run" => at[p].k \in DOMAIN Migrations[at[p].n]
  BY DEF TypeInv, ProcessType, TablesReady, StepOK

LEMMA OpenType ==
  ASSUME TypeInv, NEW p \in Proc, Open(p)
  PROVE  TypeInv'
  <1> DEFINE next == [op |-> "migrationsTable"]
  <1>1. Goto(p, next) /\ db' = db /\ build' = build
    BY DEF Open
  <1>2. StepOK(next) /\ TablesReady(db', next)
    BY DEF StepOK, TablesReady
  <1>3. /\ fileIsThere' \in BOOLEAN /\ misled' \in BOOLEAN
        /\ passedOver' \in 0 .. MaxPassedOver
        /\ first' \in [Proc -> BOOLEAN]
    BY DEF Open, TypeInv, ProcessType
  <1>4. DatabaseType'
    BY <1>1 DEF TypeInv, DatabaseType
  <1> HIDE DEF next
  <1> QED BY <1>1, <1>2, <1>3, <1>4, StepType

LEMMA CreateMigrationTableDoes ==
  ASSUME TypeInv, NEW p \in Proc, CreateMigrationTable(p)
  PROVE  /\ DatabaseType' /\ "migrations" \in DOMAIN db'
         /\ \/ db' = db
            \/ /\ "migrations" \notin DOMAIN db
               /\ DOMAIN db' = DOMAIN db \cup {"migrations"}
               /\ \A u \in DOMAIN db : db'[u] = db[u]
               /\ DOMAIN db'["migrations"].rows = {}
  <1>1. CASE "migrations" \in DOMAIN db
    <2>1. db' = db
      BY <1>1 DEF CreateMigrationTable, Exists
    <2> QED BY <1>1, <2>1 DEF TypeInv, DatabaseType
  <1>2. CASE "migrations" \notin DOMAIN db
    <2>1. db' = WithTable("migrations", NewTable({"name"}))
      BY <1>2 DEF CreateMigrationTable, Exists
    <2>2. "migrations" \in TableName
      BY DEF TableName
    <2>3. /\ DatabaseType' /\ DOMAIN db' = DOMAIN db \cup {"migrations"}
          /\ \A u \in DOMAIN db : db'[u] = db[u]
          /\ DOMAIN db'["migrations"].rows = {}
      BY <1>2, <2>1, <2>2, CreateEffect DEF TypeInv
    <2> QED BY <1>2, <2>3
  <1> QED BY <1>1, <1>2

LEMMA CreateMigrationTableType ==
  ASSUME TypeInv, NEW p \in Proc, CreateMigrationTable(p)
  PROVE  TypeInv'
  <1>1. PICK files \in FileOrders : Goto(p, [op |-> "register", left |-> files])
    BY DEF CreateMigrationTable
  <1> DEFINE next == [op |-> "register", left |-> files]
  <1>2. /\ files \in Seq(DOMAIN JsonColumns) /\ Len(files) = 5
        /\ {files[i] : i \in 1 .. 5} = DOMAIN JsonColumns
    BY StartupAssumption
  <1>3. DatabaseType' /\ "migrations" \in DOMAIN db' /\ DOMAIN db \subseteq DOMAIN db'
    BY CreateMigrationTableDoes
  <1>4. StepOK(next)
    <2>1. Len(<<>>) = 0
      OBVIOUS
    <2> QED BY <1>2, <2>1 DEF StepOK
  <1>5. TablesReady(db', next)
    <2>1. \A t \in DOMAIN JsonColumns : \E i \in DOMAIN files : files[i] = t
      BY <1>2
    <2> QED BY <1>3, <2>1 DEF TablesReady
  <1>6. /\ fileIsThere' \in BOOLEAN /\ misled' \in BOOLEAN
        /\ passedOver' \in 0 .. MaxPassedOver
        /\ first' \in [Proc -> BOOLEAN] /\ build' = build
    BY DEF CreateMigrationTable, TypeInv, ProcessType
  <1> HIDE DEF next
  <1>7. Goto(p, next)
    BY <1>1 DEF next
  <1> QED BY <1>3, <1>4, <1>5, <1>6, <1>7, StepType

LEMMA RegisterType ==
  ASSUME TypeInv, NEW p \in Proc, Register(p)
  PROVE  TypeInv'
  <1> DEFINE left == at[p].left
             next == AfterFile(left)
  <1>1. /\ at[p].op = "register" /\ Head(left) \in DOMAIN JsonColumns
        /\ DatabaseType' /\ RegisterEffect(db, db', Head(left))
        /\ Goto(p, next) \/ Goto(p, Off)
        /\ UNCHANGED <<fileIsThere, first, build, before, misled, passedOver>>
    BY RegisterDoes
  <1>2. left \in Seq(DOMAIN JsonColumns) /\ left # <<>> /\ TablesReady(db, at[p])
    BY <1>1 DEF TypeInv, ProcessType, StepOK
  <1>3. StepOK(next) /\ TablesReady(db', next) /\ DOMAIN db \subseteq DOMAIN db'
    BY <1>1, <1>2, AfterFileType
  <1>4. /\ fileIsThere' \in BOOLEAN /\ misled' \in BOOLEAN
        /\ passedOver' \in 0 .. MaxPassedOver
        /\ first' \in [Proc -> BOOLEAN] /\ build' = build
    BY <1>1 DEF TypeInv, ProcessType
  <1> HIDE DEF next
  <1>5. CASE Goto(p, next)
    BY <1>1, <1>3, <1>4, <1>5, StepType
  <1>6. CASE Goto(p, Off)
    BY <1>1, <1>3, <1>4, <1>6, OffType, StepType
  <1> QED BY <1>1, <1>5, <1>6

LEMMA RunMigrationType ==
  ASSUME TypeInv, NEW p \in Proc, RunMigration(p)
  PROVE  TypeInv'
  <1> DEFINE n == at[p].n
  <1>1. /\ at[p].op = "migrate"
        /\ UNCHANGED <<db, fileIsThere, first, build, before, misled, passedOver>>
    BY DEF RunMigration
  <1>2. /\ DOMAIN JsonColumns \subseteq DOMAIN db /\ "migrations" \in DOMAIN db
        /\ n \in DOMAIN Migrations
    BY <1>1, TablesThere
  <1>3. CASE Goto(p, [op |-> "record", n |-> n])
    <2>1. /\ StepOK([op |-> "record", n |-> n])
          /\ TablesReady(db, [op |-> "record", n |-> n])
      BY <1>2 DEF StepOK, TablesReady
    <2> QED BY <1>1, <1>3, <2>1, QuietType
  <1>4. CASE Goto(p, AfterMigration(n))
    BY <1>1, <1>2, <1>4, AfterMigrationType, QuietType
  <1>5. CASE Goto(p, [op |-> "run", n |-> n, k |-> 1])
    <2>1. 1 \in DOMAIN Migrations[n]
      BY <1>2, FourMigrations, FirstMigration, SecondMigration, ThirdMigration,
         FourthMigration
    <2>2. /\ StepOK([op |-> "run", n |-> n, k |-> 1])
          /\ TablesReady(db, [op |-> "run", n |-> n, k |-> 1])
      BY <1>2, <2>1 DEF StepOK, TablesReady
    <2> QED BY <1>1, <1>5, <2>2, QuietType
  <1> QED BY <1>3, <1>4, <1>5 DEF RunMigration

\* A statement is executed, or refused.
LEMMA ExecQueryDoes ==
  ASSUME TypeInv, NEW p \in Proc, ExecQuery(p)
  PROVE  LET n == at[p].n
             k == at[p].k
             next == AfterStatement(n, k)
         IN  /\ at[p].op = "run" /\ n \in DOMAIN Migrations
             /\ k \in DOMAIN Migrations[n]
             /\ \/ /\ Accepted(Migrations[n][k]) /\ db' = After(Migrations[n][k])
                   /\ StatementKeeps /\ Goto(p, next)
                \/ /\ Refuse(p, next)
                   /\ ~Accepted(Migrations[n][k])
                        \/ (build = "release" => passedOver' # 0)
             /\ passedOver' \in 0 .. MaxPassedOver
             /\ passedOver' = 0 => passedOver = 0
             /\ UNCHANGED <<fileIsThere, first, build, before, misled>>
  <1> DEFINE n == at[p].n
             k == at[p].k
             next == AfterStatement(n, k)
  <1>1. at[p].op = "run" /\ UNCHANGED <<fileIsThere, first, build, before, misled>>
    BY DEF ExecQuery
  <1>2. /\ DOMAIN JsonColumns \subseteq DOMAIN db /\ n \in DOMAIN Migrations
        /\ k \in DOMAIN Migrations[n] /\ DatabaseType
    BY <1>1, TablesThere DEF TypeInv
  <1>3. \/ /\ Accepted(Migrations[n][k]) /\ db' = After(Migrations[n][k])
           /\ Goto(p, next) /\ passedOver' = passedOver
        \/ /\ ~Accepted(Migrations[n][k]) /\ Refuse(p, next)
           /\ passedOver' = passedOver
        \/ /\ Accepted(Migrations[n][k]) /\ Refuse(p, next)
           /\ passedOver' = (IF build = "release" THEN passedOver + 1
                             ELSE passedOver)
           /\ passedOver' <= MaxPassedOver
    BY DEF ExecQuery
  <1>4. Accepted(Migrations[n][k]) /\ db' = After(Migrations[n][k])
          => StatementKeeps
    BY <1>2, MigrationKeeps
  <1>5. MaxPassedOver \in Nat /\ passedOver \in 0 .. MaxPassedOver
    BY StartupAssumption DEF TypeInv, ProcessType
  <1>6. /\ passedOver' \in 0 .. MaxPassedOver
        /\ passedOver' = 0 => passedOver = 0
        /\ passedOver' = passedOver + 1 => passedOver' # 0
    BY <1>3, <1>5
  <1> HIDE DEF next
  <1> QED BY <1>1, <1>2, <1>3, <1>4, <1>6 DEF next

LEMMA ExecQueryType ==
  ASSUME TypeInv, NEW p \in Proc, ExecQuery(p)
  PROVE  TypeInv'
  <1> DEFINE n == at[p].n
             k == at[p].k
             next == AfterStatement(n, k)
  <1>1. /\ at[p].op = "run" /\ n \in DOMAIN Migrations
        /\ k \in DOMAIN Migrations[n]
        /\ (StatementKeeps /\ Goto(p, next)) \/ Refuse(p, next)
        /\ passedOver' \in 0 .. MaxPassedOver
        /\ UNCHANGED <<fileIsThere, first, build, before, misled>>
    BY ExecQueryDoes
  <1>2. DOMAIN JsonColumns \subseteq DOMAIN db /\ "migrations" \in DOMAIN db
    BY <1>1, TablesThere
  <1>3. StepOK(next) /\ TablesReady(db, next)
    BY <1>1, <1>2, AfterStatementType
  <1>4. /\ fileIsThere' \in BOOLEAN /\ misled' \in BOOLEAN
        /\ passedOver' \in 0 .. MaxPassedOver
        /\ first' \in [Proc -> BOOLEAN] /\ build' = build
    BY <1>1 DEF TypeInv, ProcessType
  <1> HIDE DEF next
  <1>5. CASE StatementKeeps /\ Goto(p, next)
    <2>1. DatabaseType' /\ DOMAIN db \ LegacyTable \subseteq DOMAIN db'
      BY <1>5 DEF StatementKeeps
    <2>2. TablesReady(db', next)
      BY <1>3, <2>1, TablesStay
    <2> QED BY <1>3, <1>4, <1>5, <2>1, <2>2, StepType
  <1>6. CASE Refuse(p, next)
    BY <1>1, <1>3, <1>6, RefuseType
  <1> QED BY <1>1, <1>5, <1>6

LEMMA InsertMigrationToDbType ==
  ASSUME TypeInv, NEW p \in Proc, InsertMigrationToDb(p)
  PROVE  TypeInv'
  <1> DEFINE n == at[p].n
             next == AfterMigration(n)
  <1>1. at[p].op = "record" /\ UNCHANGED <<fileIsThere, first, build, before, misled, passedOver>>
    BY DEF InsertMigrationToDb
  <1>2. /\ DOMAIN JsonColumns \subseteq DOMAIN db /\ n \in DOMAIN Migrations
        /\ "migrations" \in DOMAIN db \cap TablesOfNames
    BY <1>1, TablesThere, KindsOfTables
  <1>3. StepOK(next) /\ TablesReady(db, next)
    BY <1>2, AfterMigrationType
  <1> HIDE DEF next
  <1>4. CASE db' = InsertedName("migrations", n) /\ Goto(p, next)
    BY <1>1, <1>2, <1>3, <1>4, InsertType
  <1>5. CASE Refuse(p, next)
    BY <1>1, <1>3, <1>5, RefuseType DEF TypeInv, ProcessType
  <1> QED BY <1>4, <1>5 DEF InsertMigrationToDb, next

LEMMA ReadyType ==
  ASSUME NEW name \in AccountName, NEW d, DOMAIN JsonColumns \subseteq DOMAIN d,
         "migrations" \in DOMAIN d
  PROVE  StepOK(Ready(name)) /\ TablesReady(d, Ready(name))
  BY DEF Ready, StepOK, TablesReady

LEMMA InitializeAccountManagerType ==
  ASSUME TypeInv, NEW p \in Proc, InitializeAccountManager(p)
  PROVE  TypeInv'
  <1>1. at[p].op = "account" /\ UNCHANGED <<fileIsThere, first, build, before, misled, passedOver>>
    BY DEF InitializeAccountManager
  <1>2. /\ DOMAIN JsonColumns \subseteq DOMAIN db /\ "migrations" \in DOMAIN db
        /\ "accounts" \in DOMAIN db \cap TablesOfNames
    BY <1>1, TablesThere, KindsOfTables
  <1>3. \/ UNCHANGED db /\ Goto(p, Off)
        \/ \E name \in AccountName :
             (db' = db \/ db' = InsertedName("accounts", name))
             /\ Goto(p, Ready(name))
    BY DEF InitializeAccountManager, AccountCreated, NameFrom
  <1>4. CASE UNCHANGED db /\ Goto(p, Off)
    BY <1>1, <1>4, OffType, QuietType
  <1>5. ASSUME NEW name \in AccountName, Goto(p, Ready(name)),
               db' = db \/ db' = InsertedName("accounts", name)
        PROVE  TypeInv'
    <2>1. StepOK(Ready(name)) /\ TablesReady(db, Ready(name))
      BY <1>2, ReadyType
    <2>2. CASE db' = db
      BY <1>1, <1>5, <2>1, <2>2, QuietType
    <2>3. CASE db' = InsertedName("accounts", name)
      BY <1>1, <1>2, <1>5, <2>1, <2>3, InsertType
    <2> QED BY <1>5, <2>2, <2>3
  <1> QED BY <1>3, <1>4, <1>5

LEMMA NextType == TypeInv /\ [Next]_vars => TypeInv'
  <1> SUFFICES ASSUME TypeInv, [Next]_vars PROVE TypeInv'
    OBVIOUS
  <1>1. ASSUME NEW p \in Proc, Open(p) PROVE TypeInv'
    BY <1>1, OpenType
  <1>2. ASSUME NEW p \in Proc, CreateMigrationTable(p) PROVE TypeInv'
    BY <1>2, CreateMigrationTableType
  <1>3. ASSUME NEW p \in Proc, Register(p) PROVE TypeInv'
    BY <1>3, RegisterType
  <1>4. ASSUME NEW p \in Proc, RunMigration(p) PROVE TypeInv'
    BY <1>4, RunMigrationType
  <1>5. ASSUME NEW p \in Proc, ExecQuery(p) PROVE TypeInv'
    BY <1>5, ExecQueryType
  <1>6. ASSUME NEW p \in Proc, InsertMigrationToDb(p) PROVE TypeInv'
    BY <1>6, InsertMigrationToDbType
  <1>7. ASSUME NEW p \in Proc, InitializeAccountManager(p) PROVE TypeInv'
    BY <1>7, InitializeAccountManagerType
  <1>8. ASSUME NEW p \in Proc, Quit(p) \/ Kill(p) PROVE TypeInv'
    <2>1. /\ Goto(p, Off)
          /\ UNCHANGED <<db, fileIsThere, first, build, before, misled, passedOver>>
      BY <1>8 DEF Quit, Kill
    <2> QED BY <2>1, OffType, QuietType
  <1>9. CASE UNCHANGED vars
    <2>1. /\ db' = db /\ fileIsThere' = fileIsThere /\ at' = at /\ first' = first
          /\ build' = build /\ misled' = misled /\ passedOver' = passedOver
      BY <1>9 DEF vars
    <2> QED BY <2>1 DEF TypeInv, DatabaseType, ProcessType
  <1> QED BY <1>1, <1>2, <1>3, <1>4, <1>5, <1>6, <1>7, <1>8, <1>9
          DEF Next, StartStep

\* In every state of every start each table has a value for every column of
\* each row, and each process is at a statement that there is.
THEOREM StartupTypeCorrect == Spec => []TypeOK
  <1>1. TypeInv => TypeOK
    BY DEF TypeInv, DatabaseType, TableType, ProcessType, TypeOK
  <1> QED BY <1>1, InitType, NextType, PTL DEF Spec

-----------------------------------------------------------------------------
(***************************************************************************)
(* The upgrade of an older database: the inductive invariant.              *)
(***************************************************************************)
\* How far a start is: past migration n and its record, or past its statements.
Beyond(s, n) ==
  \/ s.op \in {"account", "ready"}
  \/ s.op \in {"migrate", "run", "record"} /\ s.n > n
Done(s, n) == Beyond(s, n) \/ (s.op = "record" /\ s.n = n)

\* Which statement of the second migration copies a table; the one that drops
\* it is the third after that.
CopiedAt == [household_expense |-> 3, personal_expense |-> 4, marriage_expense |-> 5]

LegacyIn(d) == DOMAIN d \cap LegacyTable
AccountTyped(d) == "expenses" \in DOMAIN d /\ "account" \in d["expenses"].cols

\* The file holds what only a migration can convert.
Old(d) == LegacyIn(d) # {} \/ AccountTyped(d)

\* The accounts that the rows of expenses refer to are those they name.
OwnersMatch(d) ==
  \A i \in DOMAIN d["expenses"].rows :
    LET row == d["expenses"].rows[i] IN
    /\ row.account_id \in RowIdsIn(d, "accounts")
    /\ d["accounts"].rows[row.account_id].name = row.account

\* What a start at s can rely on that is past a migration, ...
MigrationsDone(d, s) ==
  /\ \A n \in 1 .. 4 : Beyond(s, n) => n \in NamesIn(d, "migrations")
  /\ s.op = "run" /\ s.n = 1 => LegacyIn(d) = {}
  /\ Done(s, 2) => LegacyIn(d) = {}
  /\ Done(s, 3) /\ AccountTyped(d) => Aditya \in NamesIn(d, "accounts")
  /\ Done(s, 4) => ~AccountTyped(d)

\* ... in the middle of the second one, ...
Combining(d, s) ==
  s.op = "run" /\ s.n = 2 =>
    /\ s.k > 1 => Marriage \in NamesIn(d, "tags")
    /\ \A t \in LegacyIn(d) :
         /\ s.k > CopiedAt[t] => NamesIn(d, t) \subseteq NamesIn(d, "expenses")
         /\ s.k <= CopiedAt[t] + 3

\* ... in the middle of the fourth one.
Owning(d, s) ==
  s.op = "run" /\ s.n = 4 /\ AccountTyped(d) =>
    /\ s.k > 1 => "account_id" \in d["expenses"].cols
    /\ s.k > 2 => OwnersMatch(d)

StartInv(d, s) ==
  /\ MigrationsDone(d, s) /\ Combining(d, s) /\ Owning(d, s)
  /\ s.op = "ready" => s.account \in NamesIn(d, "accounts")

\* Nobody takes an old file for new.
NoneMisled ==
  /\ DOMAIN before = {} \/ DOMAIN Migrations \subseteq NamesIn(before, "migrations")
       => ~Old(db)
  /\ Old(db) => fileIsThere /\ \A p \in Proc : ~first[p]

\* No entry of d is lost in e, and each keeps its account.
HistoryKept(d, e) ==
  /\ Entries(d) \subseteq Entries(e)
  /\ "expenses" \in DOMAIN d =>
       /\ "expenses" \in DOMAIN e
       /\ \A i \in DOMAIN d["expenses"].rows :
            i \in DOMAIN e["expenses"].rows /\ AccountOf(e, i) = AccountOf(d, i)

UpgradeNow ==
  /\ Upgradable(db) /\ HistoryKept(before, db)
  /\ \A p \in Proc : StartInv(db, at[p])
  /\ NoneMisled

UpgradeInv == Undisturbed => UpgradeNow
-----------------------------------------------------------------------------
(***************************************************************************)
(* What a change of the database leaves to the starts and to the next one, *)
(* for a database d that becomes e.                                        *)
(***************************************************************************)
LEMMA HistoryIsKept ==
  ASSUME NEW b, NEW d, NEW e, HistoryKept(b, d), HistoryKept(d, e)
  PROVE  HistoryKept(b, e)
  BY DEF HistoryKept

\* An entry is still there if it is in its table or in expenses.
LEMMA EntriesStay ==
  ASSUME NEW d, NEW e,
         \A t \in LegacyTable :
           NamesIn(d, t) \subseteq NamesIn(e, t) \cup NamesIn(e, "expenses"),
         NamesIn(d, "expenses") \subseteq NamesIn(e, "expenses")
  PROVE  Entries(d) \subseteq Entries(e)
  BY DEF Entries

\* The account of an expense, before and after the fourth migration.
LEMMA OwnerOf ==
  ASSUME NEW d, Upgradable(d), "expenses" \in DOMAIN d,
         Rectangular(d["expenses"]), NEW i \in DOMAIN d["expenses"].rows
  PROVE  LET row == d["expenses"].rows[i] IN
         /\ AccountTyped(d) => AccountOf(d, i) = row.account
         /\ ~AccountTyped(d) =>
              /\ row.account_id \in RowIdsIn(d, "accounts")
              /\ AccountOf(d, i) = d["accounts"].rows[row.account_id].name
  <1> DEFINE row == d["expenses"].rows[i]
  <1>1. AccountTyped(d) => AccountOf(d, i) = row.account
    BY DEF AccountTyped, AccountOf
  <1>2. ASSUME ~AccountTyped(d)
        PROVE  /\ row.account_id \in RowIdsIn(d, "accounts")
               /\ AccountOf(d, i) = d["accounts"].rows[row.account_id].name
    <2>1. "account" \notin d["expenses"].cols
      BY <1>2 DEF AccountTyped
    <2>2. "account_id" \in DOMAIN row /\ row.account_id \in RowIdsIn(d, "accounts")
      BY <2>1 DEF Upgradable, ExpensesUpgradable, Rectangular
    <2>3. row.account_id \in DOMAIN d["accounts"].rows
      BY <2>2 DEF RowIdsIn
    <2> QED BY <2>1, <2>2, <2>3 DEF AccountOf
  <1> QED BY <1>1, <1>2

LEMMA RowStillRefers ==
  ASSUME NEW d, NEW e, NamesKept(d, e), NEW row, RowRefers(d, row)
  PROVE  RowRefers(e, row)
  <1>1. NamesIn(d, "tags") \subseteq NamesIn(e, "tags")
    BY NamesStay, KindsOfTables
  <1>2. RowIdsIn(d, "categories") \subseteq RowIdsIn(e, "categories")
    BY KindsOfTables DEF NamesKept
  <1> QED BY <1>1, <1>2 DEF RowRefers

\* What a start relies on is true of e if no table of the first releases is new
\* or changed, no expense is gone and no name.
LEMMA StartStays ==
  ASSUME NEW d, NEW e, NEW s, StartInv(d, s), NamesKept(d, e),
         LegacyIn(e) \subseteq LegacyIn(d),
         \A t \in LegacyIn(e) : NamesIn(e, t) \subseteq NamesIn(d, t),
         NamesIn(d, "expenses") \subseteq NamesIn(e, "expenses"),
         AccountTyped(e) => AccountTyped(d), Owning(e, s)
  PROVE  StartInv(e, s)
  <1>1. /\ NamesIn(d, "migrations") \subseteq NamesIn(e, "migrations")
        /\ NamesIn(d, "tags") \subseteq NamesIn(e, "tags")
        /\ NamesIn(d, "accounts") \subseteq NamesIn(e, "accounts")
    BY NamesStay, KindsOfTables
  <1>2. MigrationsDone(e, s)
    BY <1>1 DEF StartInv, MigrationsDone
  <1>3. Combining(e, s)
    BY <1>1 DEF StartInv, Combining
  <1> QED BY <1>1, <1>2, <1>3 DEF StartInv

\* A change of the tables of names only.
SameExpenses(d, e) ==
  \A t \in LegacyTable \cup {"expenses"} :
    /\ t \in DOMAIN d <=> t \in DOMAIN e
    /\ t \in DOMAIN d => e[t] = d[t]

\* A migration is recorded when it has done its work.
RecordedSoundly(d, e) ==
  /\ 2 \in NamesIn(e, "migrations") =>
       2 \in NamesIn(d, "migrations") \/ LegacyIn(d) = {}
  /\ 3 \in NamesIn(e, "migrations") /\ AccountTyped(d) =>
       3 \in NamesIn(d, "migrations") \/ Aditya \in NamesIn(d, "accounts")
  /\ 4 \in NamesIn(e, "migrations") =>
       4 \in NamesIn(d, "migrations") \/ ~AccountTyped(d)

LEMMA NamesGrow ==
  ASSUME NEW d, NEW e, Upgradable(d), NamesKept(d, e), SameExpenses(d, e),
         RecordedSoundly(d, e),
         "expenses" \in DOMAIN d => Rectangular(d["expenses"])
  PROVE  /\ Upgradable(e) /\ HistoryKept(d, e) /\ (Old(e) <=> Old(d))
  <1>1. /\ NamesIn(d, "migrations") \subseteq NamesIn(e, "migrations")
        /\ NamesIn(d, "tags") \subseteq NamesIn(e, "tags")
        /\ NamesIn(d, "accounts") \subseteq NamesIn(e, "accounts")
        /\ RowIdsIn(d, "accounts") \subseteq RowIdsIn(e, "accounts")
    BY NamesStay, KindsOfTables DEF NamesKept
  <1>2. LegacyIn(e) = LegacyIn(d) /\ (AccountTyped(e) <=> AccountTyped(d))
    BY DEF LegacyIn, AccountTyped, SameExpenses
  <1>3. LegacyUpgradable(e)
    <2> SUFFICES ASSUME NEW t \in LegacyIn(e)
                 PROVE  /\ e[t].cols = {"name", "tags", "category_id"}
                        /\ \A i \in DOMAIN e[t].rows : RowRefers(e, e[t].rows[i])
                        /\ 1 \in NamesIn(e, "migrations")
                        /\ 2 \notin NamesIn(e, "migrations")
                        /\ "expenses" \in DOMAIN e
                        /\ "account" \in e["expenses"].cols
      BY DEF LegacyUpgradable, LegacyIn
    <2>1. t \in DOMAIN d /\ t \in LegacyTable /\ e[t] = d[t]
      BY <1>2 DEF LegacyIn, SameExpenses
    <2>2. /\ d[t].cols = {"name", "tags", "category_id"}
          /\ \A i \in DOMAIN d[t].rows : RowRefers(d, d[t].rows[i])
          /\ 1 \in NamesIn(d, "migrations") /\ 2 \notin NamesIn(d, "migrations")
          /\ "expenses" \in DOMAIN d /\ "account" \in d["expenses"].cols
      BY <2>1 DEF Upgradable, LegacyUpgradable
    <2>3. 2 \notin NamesIn(e, "migrations")
      BY <1>2, <2>2 DEF RecordedSoundly
    <2>4. "expenses" \in DOMAIN e /\ e["expenses"] = d["expenses"]
      BY <2>2 DEF SameExpenses
    <2> QED BY <1>1, <2>1, <2>2, <2>3, <2>4, RowStillRefers
  <1>4. ExpensesUpgradable(e)
    <2> SUFFICES ASSUME "expenses" \in DOMAIN e
                 PROVE  ExpensesUpgradable(e)
      BY DEF ExpensesUpgradable
    <2>1. "expenses" \in DOMAIN d /\ e["expenses"] = d["expenses"]
      BY DEF SameExpenses
    <2> DEFINE table == d["expenses"]
    <2>2. /\ {"name", "tags", "category_id"} \subseteq table.cols
          /\ table.cols \subseteq JsonColumns["expenses"] \cup {"account"}
          /\ \A i \in DOMAIN table.rows : RowRefers(d, table.rows[i])
      BY <2>1 DEF Upgradable, ExpensesUpgradable
    <2>3. \A i \in DOMAIN table.rows : RowRefers(e, table.rows[i])
      BY <2>2, RowStillRefers
    <2>4. "account" \in table.cols =>
            /\ 4 \notin NamesIn(e, "migrations")
            /\ 3 \in NamesIn(e, "migrations") => Aditya \in NamesIn(e, "accounts")
            /\ \A i \in DOMAIN table.rows :
                 table.rows[i].account \in NamesIn(e, "accounts") \cup {Aditya}
      BY <1>1, <2>1
         DEF Upgradable, ExpensesUpgradable, RecordedSoundly, AccountTyped
    <2>5. "account" \notin table.cols =>
            /\ "account_id" \in table.cols
            /\ \A i \in DOMAIN table.rows :
                 table.rows[i].account_id \in RowIdsIn(e, "accounts")
      BY <1>1, <2>1 DEF Upgradable, ExpensesUpgradable
    <2> HIDE DEF table
    <2>6. e["expenses"] = table
      BY <2>1 DEF table
    <2> QED BY <2>2, <2>3, <2>4, <2>5, <2>6 DEF ExpensesUpgradable
  <1>5. Upgradable(e)
    BY <1>3, <1>4 DEF Upgradable
  <1>6. Entries(d) \subseteq Entries(e)
    <2>1. \A t \in LegacyTable \cup {"expenses"} : NamesIn(e, t) = NamesIn(d, t)
      BY DEF SameExpenses, NamesIn, RowIdsIn
    <2> QED BY <2>1, EntriesStay
  <1>7. ASSUME "expenses" \in DOMAIN d, NEW i \in DOMAIN d["expenses"].rows
        PROVE  AccountOf(e, i) = AccountOf(d, i)
    <2> DEFINE row == d["expenses"].rows[i]
    <2>1. "expenses" \in DOMAIN e /\ e["expenses"] = d["expenses"]
      BY <1>7 DEF SameExpenses
    <2>2. /\ AccountTyped(d) => AccountOf(d, i) = row.account
          /\ ~AccountTyped(d) =>
               /\ row.account_id \in RowIdsIn(d, "accounts")
               /\ AccountOf(d, i) = d["accounts"].rows[row.account_id].name
      BY <1>7, OwnerOf
    <2>3. /\ AccountTyped(e) => AccountOf(e, i) = row.account
          /\ ~AccountTyped(e) =>
               AccountOf(e, i) = e["accounts"].rows[row.account_id].name
      BY <1>5, <1>7, <2>1, OwnerOf
    <2>4. \A id \in RowIdsIn(d, "accounts") :
            e["accounts"].rows[id] = d["accounts"].rows[id]
      BY KindsOfTables DEF NamesKept
    <2> QED BY <1>2, <2>2, <2>3, <2>4
  <1>8. HistoryKept(d, e)
    BY <1>6, <1>7 DEF HistoryKept, SameExpenses
  <1> QED BY <1>2, <1>5, <1>8 DEF Old

LEMMA NamesGrowForStart ==
  ASSUME NEW d, NEW e, NamesKept(d, e), SameExpenses(d, e), NEW s, StartInv(d, s)
  PROVE  StartInv(e, s)
  <1>1. /\ LegacyIn(e) = LegacyIn(d) /\ (AccountTyped(e) <=> AccountTyped(d))
        /\ \A t \in LegacyTable \cup {"expenses"} : NamesIn(e, t) = NamesIn(d, t)
    BY DEF LegacyIn, AccountTyped, SameExpenses, NamesIn, RowIdsIn
  <1>2. AccountTyped(d) => e["expenses"] = d["expenses"]
    BY DEF SameExpenses, AccountTyped
  <1>3. OwnersMatch(d) /\ AccountTyped(d) => OwnersMatch(e)
    <2>1. /\ RowIdsIn(d, "accounts") \subseteq RowIdsIn(e, "accounts")
          /\ \A id \in RowIdsIn(d, "accounts") :
               e["accounts"].rows[id] = d["accounts"].rows[id]
      BY KindsOfTables DEF NamesKept
    <2> QED BY <1>2, <2>1 DEF OwnersMatch
  <1>4. Owning(e, s)
    BY <1>1, <1>2, <1>3 DEF StartInv, Owning
  <1>5. \A t \in LegacyIn(e) : NamesIn(e, t) \subseteq NamesIn(d, t)
    BY <1>1 DEF LegacyIn
  <1> QED BY <1>1, <1>4, <1>5, StartStays

\* The table of expenses is made where there are no older ones.
LEMMA ExpensesMade ==
  ASSUME NEW d, NEW e, Upgradable(d), "expenses" \notin DOMAIN d,
         DOMAIN e = DOMAIN d \cup {"expenses"},
         \A u \in DOMAIN d : e[u] = d[u],
         e["expenses"].cols = JsonColumns["expenses"],
         DOMAIN e["expenses"].rows = {}
  PROVE  /\ Upgradable(e) /\ HistoryKept(d, e) /\ ~Old(e) /\ NamesKept(d, e)
         /\ \A t : NamesIn(e, t) = NamesIn(d, t)
  <1>1. LegacyIn(d) = {}
    BY DEF Upgradable, LegacyUpgradable, LegacyIn
  <1>2. LegacyIn(e) = {}
    BY <1>1, KindsOfTables DEF LegacyIn
  <1>3. "account" \notin e["expenses"].cols /\ "account_id" \in e["expenses"].cols
    BY KindsOfTables
  <1>4. ~Old(e)
    BY <1>2, <1>3 DEF Old, AccountTyped
  <1>5. Upgradable(e)
    <2>1. LegacyUpgradable(e)
      BY <1>2 DEF LegacyUpgradable, LegacyIn
    <2>2. ExpensesUpgradable(e)
      BY <1>3, KindsOfTables DEF ExpensesUpgradable
    <2> QED BY <2>1, <2>2 DEF Upgradable
  <1>6. NamesKept(d, e)
    BY SameNamesKept
  <1>7. \A t : RowIdsIn(e, t) = RowIdsIn(d, t)
    BY DEF RowIdsIn
  <1>8. \A t : NamesIn(e, t) = NamesIn(d, t)
    BY <1>7 DEF NamesIn, RowIdsIn
  <1>9. Entries(d) \subseteq Entries(e)
    BY <1>8, EntriesStay
  <1> QED BY <1>4, <1>5, <1>6, <1>8, <1>9 DEF HistoryKept

LEMMA NoAccountTextForStart ==
  ASSUME NEW d, NEW e, NamesKept(d, e), ~Old(e), NEW s, StartInv(d, s),
         NamesIn(d, "expenses") \subseteq NamesIn(e, "expenses")
  PROVE  StartInv(e, s)
  <1>1. LegacyIn(e) = {} /\ ~AccountTyped(e)
    BY DEF Old
  <1>2. Owning(e, s)
    BY <1>1 DEF Owning
  <1> QED BY <1>1, <1>2, StartStays

\* The rows of a legacy table are copied behind those of expenses.
LEMMA CopyUpgrades ==
  ASSUME DatabaseType, Upgradable(db), NEW t \in LegacyTable,
         Marriage \in NamesIn(db, "tags"), Accepted(CopyRows(t)),
         db' = After(CopyRows(t))
  PROVE  /\ Upgradable(db') /\ HistoryKept(db, db') /\ (Old(db') => Old(db))
         /\ NamesKept(db, db') /\ LegacyIn(db') = LegacyIn(db)
         /\ \A u \in LegacyTable : NamesIn(db', u) = NamesIn(db, u)
         /\ NamesIn(db, "expenses") \cup NamesIn(db, t)
              \subseteq NamesIn(db', "expenses")
         /\ AccountTyped(db) /\ t \in LegacyIn(db)
  <1> DEFINE old == db["expenses"].rows
             new == db'["expenses"].rows
             cols == db["expenses"].cols
  <1>1. /\ t \in DOMAIN db /\ "expenses" \in DOMAIN db /\ "account" \in cols
        /\ DOMAIN db' = DOMAIN db
        /\ \A u \in DOMAIN db \ {"expenses"} : db'[u] = db[u]
        /\ db'["expenses"].cols = cols
        /\ DOMAIN old \subseteq DOMAIN new
        /\ \A i \in DOMAIN old : new[i] = old[i]
        /\ \A j \in DOMAIN new \ DOMAIN old :
             \E i \in DOMAIN db[t].rows : new[j] = CopiedRow(t, db[t].rows[i])
        /\ \A i \in DOMAIN db[t].rows :
             \E j \in DOMAIN new : new[j] = CopiedRow(t, db[t].rows[i])
    BY CopyEffect
  <1>2. {"name", "tags", "category_id"} \subseteq cols
    BY <1>1 DEF Upgradable, ExpensesUpgradable
  <1>3. NamesKept(db, db')
    BY <1>1, KindsOfTables, SameNamesKept
  <1>4. \A u : u # "expenses" => RowIdsIn(db', u) = RowIdsIn(db, u)
    BY <1>1 DEF RowIdsIn
  <1>5. \A u : u # "expenses" => NamesIn(db', u) = NamesIn(db, u)
    BY <1>1, <1>4 DEF NamesIn, RowIdsIn
  <1>6. NamesIn(db, "expenses") \subseteq NamesIn(db', "expenses")
    BY <1>1 DEF NamesIn, RowIdsIn
  <1>7. NamesIn(db, t) \subseteq NamesIn(db', "expenses")
    <2> SUFFICES ASSUME NEW i \in DOMAIN db[t].rows
                 PROVE  db[t].rows[i].name \in NamesIn(db', "expenses")
      BY <1>1 DEF NamesIn, RowIdsIn
    <2>1. PICK j \in DOMAIN new : new[j] = CopiedRow(t, db[t].rows[i])
      BY <1>1
    <2>2. new[j].name = db[t].rows[i].name
      BY <1>2, <2>1, CopiedRowColumns
    <2>3. j \in RowIdsIn(db', "expenses")
      BY <1>1 DEF RowIdsIn
    <2> QED BY <2>2, <2>3 DEF NamesIn
  <1>8. LegacyIn(db') = LegacyIn(db) /\ AccountTyped(db) /\ AccountTyped(db')
    BY <1>1 DEF LegacyIn, AccountTyped
  <1>9. LegacyUpgradable(db')
    <2>1. \A u \in DOMAIN db \cap LegacyTable : u # "expenses" /\ db'[u] = db[u]
      BY <1>1, KindsOfTables
    <2>2. \A u \in DOMAIN db \cap LegacyTable : \A i \in DOMAIN db[u].rows :
            RowRefers(db', db[u].rows[i])
      BY <1>3, RowStillRefers DEF Upgradable, LegacyUpgradable
    <2>3. NamesIn(db', "migrations") = NamesIn(db, "migrations")
      BY <1>5
    <2> QED BY <1>1, <2>1, <2>2, <2>3 DEF Upgradable, LegacyUpgradable
  <1>10. ASSUME NEW j \in DOMAIN new
         PROVE  /\ RowRefers(db', new[j])
                /\ new[j].account \in NamesIn(db', "accounts") \cup {Aditya}
    <2>1. NamesIn(db', "accounts") = NamesIn(db, "accounts")
      BY <1>5
    <2>2. CASE j \in DOMAIN old
      <3>1. /\ RowRefers(db, old[j])
            /\ old[j].account \in NamesIn(db, "accounts") \cup {Aditya}
        BY <1>1, <2>2 DEF Upgradable, ExpensesUpgradable
      <3>2. RowRefers(db', old[j])
        BY <1>3, <3>1, RowStillRefers
      <3> QED BY <1>1, <2>1, <2>2, <3>1, <3>2
    <2>3. CASE j \notin DOMAIN old
      <3>1. PICK i \in DOMAIN db[t].rows : new[j] = CopiedRow(t, db[t].rows[i])
        BY <1>1, <2>3
      <3>2. /\ new[j].category_id = db[t].rows[i].category_id
            /\ new[j].account = Aditya
            /\ new[j].tags \in {Marriage, db[t].rows[i].tags}
        BY <1>1, <1>2, <3>1, CopiedRowColumns
      <3>3. RowRefers(db, db[t].rows[i])
        BY <1>1 DEF Upgradable, LegacyUpgradable
      <3>4. RowRefers(db, new[j])
        BY <3>2, <3>3 DEF RowRefers
      <3> QED BY <1>3, <3>2, <3>4, RowStillRefers
    <2> QED BY <2>2, <2>3
  <1>11. ExpensesUpgradable(db')
    <2>1. /\ NamesIn(db', "migrations") = NamesIn(db, "migrations")
          /\ NamesIn(db', "accounts") = NamesIn(db, "accounts")
      BY <1>5
    <2>2. /\ 4 \notin NamesIn(db', "migrations")
          /\ 3 \in NamesIn(db', "migrations") => Aditya \in NamesIn(db', "accounts")
          /\ cols \subseteq JsonColumns["expenses"] \cup {"account"}
      BY <1>1, <2>1 DEF Upgradable, ExpensesUpgradable
    <2> QED BY <1>1, <1>2, <1>10, <2>2 DEF ExpensesUpgradable
  <1>12. Entries(db) \subseteq Entries(db')
    BY <1>5, <1>6, KindsOfTables, EntriesStay
  <1>13. \A i \in DOMAIN old : AccountOf(db', i) = AccountOf(db, i)
    BY <1>1 DEF AccountOf
  <1>14. HistoryKept(db, db')
    BY <1>1, <1>12, <1>13 DEF HistoryKept
  <1>15. Upgradable(db')
    BY <1>9, <1>11 DEF Upgradable
  <1>16. \A u \in LegacyTable : NamesIn(db', u) = NamesIn(db, u)
    BY <1>5, KindsOfTables
  <1>17. t \in LegacyIn(db)
    BY <1>1 DEF LegacyIn
  <1> QED BY <1>3, <1>6, <1>7, <1>8, <1>14, <1>15, <1>16, <1>17 DEF Old

\* A legacy table is dropped that has been copied.
LEMMA DropUpgrades ==
  ASSUME NEW d, NEW e, Upgradable(d), NEW t \in LegacyTable,
         DOMAIN e = DOMAIN d \ {t}, \A u \in DOMAIN d \ {t} : e[u] = d[u],
         NamesIn(d, t) \subseteq NamesIn(d, "expenses")
  PROVE  /\ Upgradable(e) /\ HistoryKept(d, e) /\ (Old(e) => Old(d))
         /\ NamesKept(d, e) /\ LegacyIn(e) = LegacyIn(d) \ {t}
         /\ \A u : u # t => NamesIn(e, u) = NamesIn(d, u)
         /\ (AccountTyped(e) <=> AccountTyped(d))
         /\ "expenses" \in DOMAIN d => e["expenses"] = d["expenses"]
  <1>1. t # "expenses" /\ t \notin TablesOfNames
    BY KindsOfTables
  <1>2. NamesKept(d, e)
    BY <1>1, SameNamesKept
  <1>3. \A u : u # t => RowIdsIn(e, u) = RowIdsIn(d, u)
    BY DEF RowIdsIn
  <1>4. \A u : u # t => NamesIn(e, u) = NamesIn(d, u)
    BY <1>3 DEF NamesIn, RowIdsIn
  <1>5. /\ LegacyIn(e) = LegacyIn(d) \ {t} /\ (AccountTyped(e) <=> AccountTyped(d))
        /\ ("expenses" \in DOMAIN d => e["expenses"] = d["expenses"])
        /\ ("expenses" \in DOMAIN e <=> "expenses" \in DOMAIN d)
    BY <1>1 DEF LegacyIn, AccountTyped
  <1>6. /\ NamesIn(e, "migrations") = NamesIn(d, "migrations")
        /\ NamesIn(e, "accounts") = NamesIn(d, "accounts")
        /\ RowIdsIn(e, "accounts") = RowIdsIn(d, "accounts")
        /\ NamesIn(e, "expenses") = NamesIn(d, "expenses")
    BY <1>1, <1>3, <1>4, KindsOfTables
  <1>7. LegacyUpgradable(e)
    <2>1. \A u \in DOMAIN e \cap LegacyTable :
            u \in DOMAIN d \cap LegacyTable /\ e[u] = d[u]
      OBVIOUS
    <2>2. \A u \in DOMAIN d \cap LegacyTable : \A i \in DOMAIN d[u].rows :
            RowRefers(e, d[u].rows[i])
      BY <1>2, RowStillRefers DEF Upgradable, LegacyUpgradable
    <2> QED BY <1>5, <1>6, <2>1, <2>2 DEF Upgradable, LegacyUpgradable
  <1>8. ExpensesUpgradable(e)
    <2>1. "expenses" \in DOMAIN d => \A i \in DOMAIN d["expenses"].rows :
            RowRefers(e, d["expenses"].rows[i])
      BY <1>2, RowStillRefers DEF Upgradable, ExpensesUpgradable
    <2> QED BY <1>5, <1>6, <2>1 DEF Upgradable, ExpensesUpgradable
  <1>9. Entries(d) \subseteq Entries(e)
    BY <1>4, <1>6, EntriesStay
  <1>10. ASSUME "expenses" \in DOMAIN d, NEW i \in DOMAIN d["expenses"].rows
         PROVE  AccountOf(e, i) = AccountOf(d, i)
    <2>1. "accounts" \in DOMAIN d => e["accounts"] = d["accounts"]
      BY KindsOfTables
    <2>2. CASE "accounts" \in DOMAIN d
      BY <1>5, <1>10, <2>1, <2>2 DEF AccountOf
    <2>3. CASE "accounts" \notin DOMAIN d
      <3>1. AccountTyped(d)
        BY <1>10, <2>3 DEF Upgradable, ExpensesUpgradable, RowIdsIn, AccountTyped
      <3>2. "account" \in e["expenses"].cols /\ "account" \in d["expenses"].cols
        BY <1>5, <1>10, <3>1 DEF AccountTyped
      <3> QED BY <1>5, <1>10, <3>2 DEF AccountOf
    <2> QED BY <2>2, <2>3
  <1>11. HistoryKept(d, e)
    BY <1>5, <1>9, <1>10 DEF HistoryKept
  <1>12. Upgradable(e)
    BY <1>7, <1>8 DEF Upgradable
  <1>13. Old(e) => Old(d)
    BY <1>5 DEF Old
  <1> QED BY <1>2, <1>4, <1>5, <1>11, <1>12, <1>13

\* Another column of expenses is added, filled or dropped.
Reshaped(d, e) ==
  /\ "expenses" \in DOMAIN d /\ DOMAIN e = DOMAIN d
  /\ \A u \in DOMAIN d \ {"expenses"} : e[u] = d[u]
  /\ {"name", "tags", "category_id"} \subseteq e["expenses"].cols
  /\ e["expenses"].cols \subseteq JsonColumns["expenses"] \cup {"account"}
  /\ DOMAIN e["expenses"].rows = DOMAIN d["expenses"].rows
  /\ \A i \in DOMAIN d["expenses"].rows :
       LET row == d["expenses"].rows[i]
           new == e["expenses"].rows[i]
       IN  /\ DOMAIN new = e["expenses"].cols
           /\ new.name = row.name /\ new.tags = row.tags
           /\ new.category_id = row.category_id

LEMMA ReshapedSame ==
  ASSUME NEW d, NEW e, Upgradable(d), Reshaped(d, e)
  PROVE  /\ NamesKept(d, e) /\ LegacyIn(e) = LegacyIn(d)
         /\ \A u : RowIdsIn(e, u) = RowIdsIn(d, u) /\ NamesIn(e, u) = NamesIn(d, u)
         /\ Entries(d) \subseteq Entries(e)
         /\ \A i \in DOMAIN e["expenses"].rows :
              RowRefers(e, e["expenses"].rows[i])
         /\ \A u \in LegacyIn(d) : \A i \in DOMAIN e[u].rows :
              RowRefers(e, e[u].rows[i])
  <1>1. NamesKept(d, e)
    BY KindsOfTables, SameNamesKept DEF Reshaped
  <1>2. \A u : RowIdsIn(e, u) = RowIdsIn(d, u)
    BY DEF RowIdsIn, Reshaped
  <1>3. \A u : NamesIn(e, u) = NamesIn(d, u)
    BY <1>2 DEF NamesIn, RowIdsIn, Reshaped
  <1>4. Entries(d) \subseteq Entries(e)
    BY <1>3, EntriesStay
  <1>5. ASSUME NEW i \in DOMAIN e["expenses"].rows
        PROVE  RowRefers(e, e["expenses"].rows[i])
    <2>1. RowRefers(d, d["expenses"].rows[i])
      BY <1>5 DEF Reshaped, Upgradable, ExpensesUpgradable
    <2>2. RowRefers(d, e["expenses"].rows[i])
      BY <1>5, <2>1 DEF RowRefers, Reshaped
    <2> QED BY <1>1, <2>2, RowStillRefers
  <1>6. \A u \in LegacyIn(d) : e[u] = d[u] /\ \A i \in DOMAIN d[u].rows :
          RowRefers(d, d[u].rows[i])
    BY KindsOfTables DEF LegacyIn, Reshaped, Upgradable, LegacyUpgradable
  <1>7. \A u \in LegacyIn(d) : \A i \in DOMAIN e[u].rows :
          RowRefers(e, e[u].rows[i])
    BY <1>1, <1>6, RowStillRefers
  <1>8. LegacyIn(e) = LegacyIn(d)
    BY DEF LegacyIn, Reshaped
  <1> QED BY <1>1, <1>2, <1>3, <1>4, <1>5, <1>7, <1>8

\* As long as the account is in its old column.
LEMMA ReshapedTyped ==
  ASSUME NEW d, NEW e, Upgradable(d), Reshaped(d, e),
         "account" \in d["expenses"].cols, "account" \in e["expenses"].cols,
         \A i \in DOMAIN d["expenses"].rows :
           e["expenses"].rows[i].account = d["expenses"].rows[i].account
  PROVE  Upgradable(e) /\ HistoryKept(d, e) /\ (Old(e) => Old(d))
  <1>1. /\ LegacyIn(e) = LegacyIn(d)
        /\ \A u : RowIdsIn(e, u) = RowIdsIn(d, u) /\ NamesIn(e, u) = NamesIn(d, u)
        /\ Entries(d) \subseteq Entries(e)
        /\ \A i \in DOMAIN e["expenses"].rows :
             RowRefers(e, e["expenses"].rows[i])
        /\ \A u \in LegacyIn(d) : \A i \in DOMAIN e[u].rows :
             RowRefers(e, e[u].rows[i])
    BY ReshapedSame
  <1>2. "expenses" \in DOMAIN d /\ "expenses" \in DOMAIN e
    BY DEF Reshaped
  <1>3. ExpensesUpgradable(e)
    <2>1. /\ 4 \notin NamesIn(d, "migrations")
          /\ 3 \in NamesIn(d, "migrations") => Aditya \in NamesIn(d, "accounts")
          /\ \A i \in DOMAIN d["expenses"].rows :
               d["expenses"].rows[i].account \in NamesIn(d, "accounts") \cup {Aditya}
      BY <1>2 DEF Upgradable, ExpensesUpgradable
    <2>2. /\ 4 \notin NamesIn(e, "migrations")
          /\ 3 \in NamesIn(e, "migrations") => Aditya \in NamesIn(e, "accounts")
      BY <1>1, <2>1
    <2>3. \A i \in DOMAIN e["expenses"].rows :
            e["expenses"].rows[i].account \in NamesIn(e, "accounts") \cup {Aditya}
      BY <1>1, <2>1 DEF Reshaped
    <2>4. /\ {"name", "tags", "category_id"} \subseteq e["expenses"].cols
          /\ e["expenses"].cols \subseteq JsonColumns["expenses"] \cup {"account"}
      BY DEF Reshaped
    <2> QED BY <1>1, <2>2, <2>3, <2>4 DEF ExpensesUpgradable
  <1>4. LegacyUpgradable(e)
    <2>1. \A u \in LegacyIn(d) : e[u] = d[u] /\ u # "expenses"
      BY KindsOfTables DEF Reshaped, LegacyIn
    <2>2. \A u \in LegacyIn(d) :
            /\ d[u].cols = {"name", "tags", "category_id"}
            /\ 1 \in NamesIn(d, "migrations") /\ 2 \notin NamesIn(d, "migrations")
      BY DEF Upgradable, LegacyUpgradable, LegacyIn
    <2>3. \A u \in LegacyIn(e) :
            /\ e[u].cols = {"name", "tags", "category_id"}
            /\ 1 \in NamesIn(e, "migrations") /\ 2 \notin NamesIn(e, "migrations")
            /\ \A i \in DOMAIN e[u].rows : RowRefers(e, e[u].rows[i])
      BY <1>1, <2>1, <2>2
    <2> QED BY <1>2, <2>3 DEF LegacyUpgradable, LegacyIn
  <1>5. \A i \in DOMAIN d["expenses"].rows : AccountOf(e, i) = AccountOf(d, i)
    BY DEF AccountOf
  <1>6. HistoryKept(d, e)
    BY <1>1, <1>2, <1>5 DEF HistoryKept, Reshaped
  <1>7. Old(d)
    BY <1>2 DEF Old, AccountTyped
  <1> QED BY <1>3, <1>4, <1>6, <1>7 DEF Upgradable

\* A column of its own for the id of the account.
LEMMA AddAccountIdUpgrades ==
  ASSUME DatabaseType, Upgradable(db),
         Accepted(AddColumn("expenses", "account_id", Unset)),
         db' = After(AddColumn("expenses", "account_id", Unset))
  PROVE  /\ Upgradable(db') /\ HistoryKept(db, db') /\ (Old(db') => Old(db))
         /\ Reshaped(db, db') /\ AccountTyped(db)
         /\ "account_id" \notin db["expenses"].cols
         /\ "account_id" \in db'["expenses"].cols
  <1> DEFINE cols == db["expenses"].cols
  <1>1. /\ "expenses" \in DOMAIN db /\ "account_id" \notin cols
        /\ DOMAIN db' = DOMAIN db
        /\ \A u \in DOMAIN db \ {"expenses"} : db'[u] = db[u]
        /\ db'["expenses"].cols = cols \cup {"account_id"}
        /\ DOMAIN db'["expenses"].rows = DOMAIN db["expenses"].rows
        /\ \A i \in DOMAIN db["expenses"].rows :
             /\ DOMAIN db'["expenses"].rows[i] = cols \cup {"account_id"}
             /\ \A x \in cols :
                  db'["expenses"].rows[i][x] = db["expenses"].rows[i][x]
    BY KindsOfTables, AddColumnEffect
  <1>2. /\ {"name", "tags", "category_id"} \subseteq cols
        /\ cols \subseteq JsonColumns["expenses"] \cup {"account"}
        /\ "account" \in cols
    BY <1>1 DEF Upgradable, ExpensesUpgradable
  <1>3. \A i \in DOMAIN db["expenses"].rows :
          LET row == db["expenses"].rows[i]
              new == db'["expenses"].rows[i]
          IN  /\ DOMAIN new = cols \cup {"account_id"}
              /\ new.name = row.name /\ new.tags = row.tags
              /\ new.category_id = row.category_id /\ new.account = row.account
    BY <1>1, <1>2
  <1>4. Reshaped(db, db')
    BY <1>1, <1>2, <1>3, KindsOfTables DEF Reshaped
  <1>5. Upgradable(db') /\ HistoryKept(db, db') /\ (Old(db') => Old(db))
    BY <1>1, <1>2, <1>3, <1>4, ReshapedTyped
  <1> QED BY <1>1, <1>2, <1>4, <1>5 DEF AccountTyped

\* The id of the account that a row names.
LEMMA IdOfNameFound ==
  ASSUME NEW t, NEW n, n \in NamesIn(db, t)
  PROVE  IdOfName(t, n) \in RowIdsIn(db, t)
         /\ db[t].rows[IdOfName(t, n)].name = n
  <1>1. \E i \in DOMAIN db[t].rows : db[t].rows[i].name = n
    BY DEF NamesIn, RowIdsIn
  <1>2. t \in DOMAIN db
    BY DEF NamesIn, RowIdsIn
  <1>3. IdOfName(t, n) = CHOOSE i \in DOMAIN db[t].rows : db[t].rows[i].name = n
    BY DEF IdOfName, Names
  <1> QED BY <1>1, <1>2, <1>3 DEF RowIdsIn

\* After it has been filled, the rows refer to the accounts that they name.
LEMMA FillAccountIdUpgrades ==
  ASSUME DatabaseType, Upgradable(db),
         Accepted(FillColumn("expenses", "account_id", "accounts", "account")),
         db' = After(FillColumn("expenses", "account_id", "accounts", "account"))
  PROVE  /\ Upgradable(db') /\ HistoryKept(db, db') /\ (Old(db') => Old(db))
         /\ Reshaped(db, db') /\ AccountTyped(db) /\ OwnersMatch(db')
         /\ db'["expenses"].cols = db["expenses"].cols
         /\ "account_id" \in db["expenses"].cols
  <1> DEFINE cols == db["expenses"].cols
             old == db["expenses"].rows
             new == db'["expenses"].rows
             s == FillColumn("expenses", "account_id", "accounts", "account")
  <1>1. /\ {"expenses", "accounts"} \subseteq DOMAIN db
        /\ {"account_id", "account"} \subseteq cols
        /\ DOMAIN db' = DOMAIN db
        /\ \A u \in DOMAIN db \ {"expenses"} : db'[u] = db[u]
        /\ db'["expenses"].cols = cols /\ DOMAIN new = DOMAIN old
        /\ \A i \in DOMAIN old :
             new[i] = [old[i] EXCEPT !["account_id"] =
                                       IdOfName("accounts", old[i]["account"])]
    BY KindsOfTables, FillColumnEffect
  <1>2. "expenses" \in DOMAIN db /\ "accounts" \in DOMAIN db
        /\ "account_id" \in cols /\ "account" \in cols
    BY <1>1
  <1>3. /\ {"name", "tags", "category_id"} \subseteq cols
        /\ cols \subseteq JsonColumns["expenses"] \cup {"account"}
    BY <1>2 DEF Upgradable, ExpensesUpgradable
  <1>4. \A i \in DOMAIN old : DOMAIN old[i] = cols
    BY <1>2 DEF DatabaseType, TableType, Rectangular
  <1>5. \A i \in DOMAIN old :
          /\ DOMAIN new[i] = cols
          /\ new[i].name = old[i].name /\ new[i].tags = old[i].tags
          /\ new[i].category_id = old[i].category_id
          /\ new[i].account = old[i].account
          /\ new[i].account_id = IdOfName("accounts", old[i].account)
    BY <1>1, <1>2, <1>3, <1>4
  <1>6. Reshaped(db, db')
    BY <1>1, <1>2, <1>3, <1>5 DEF Reshaped
  <1>7. Upgradable(db') /\ HistoryKept(db, db') /\ (Old(db') => Old(db))
    BY <1>1, <1>2, <1>5, <1>6, ReshapedTyped
  <1>8. \A i \in DOMAIN old : new[i].account_id # Null
    <2>1. ~SomeNull(s)
      BY DEF Accepted, FillColumn
    <2>2. /\ DOMAIN Filled(s) = DOMAIN old
          /\ \A i \in DOMAIN old :
               Filled(s)[i] = [old[i] EXCEPT !["account_id"] =
                                 IdOfName("accounts", old[i]["account"])]
      BY DEF Filled, FillColumn
    <2>3. s.col = "account_id"
      BY DEF FillColumn
    <2> HIDE DEF s
    <2>4. \A i \in DOMAIN old : Filled(s)[i].account_id # Null
      BY <2>1, <2>2, <2>3 DEF SomeNull
    <2>5. \A i \in DOMAIN old : new[i] = Filled(s)[i]
      BY <1>1, <2>2
    <2> HIDE DEF new, old
    <2> QED BY <2>4, <2>5
  <1>9. OwnersMatch(db')
    <2> SUFFICES ASSUME NEW i \in DOMAIN old
                 PROVE  /\ new[i].account_id \in RowIdsIn(db', "accounts")
                        /\ db'["accounts"].rows[new[i].account_id].name
                             = new[i].account
      BY <1>1 DEF OwnersMatch
    <2>1. old[i].account \in NamesIn(db, "accounts")
      BY <1>5, <1>8 DEF IdOfName, Names
    <2>2. /\ new[i].account_id \in RowIdsIn(db, "accounts")
          /\ db["accounts"].rows[new[i].account_id].name = new[i].account
      BY <1>5, <2>1, IdOfNameFound
    <2>3. db'["accounts"] = db["accounts"]
      BY <1>1, <1>2
    <2> QED BY <1>1, <2>2, <2>3 DEF RowIdsIn
  <1> QED BY <1>1, <1>2, <1>6, <1>7, <1>9 DEF AccountTyped

\* The account's name may go when every row has its id.
LEMMA DropAccountUpgrades ==
  ASSUME DatabaseType, Upgradable(db), LegacyIn(db) = {},
         "account_id" \in db["expenses"].cols, OwnersMatch(db),
         Accepted(DropColumn("expenses", "account")),
         db' = After(DropColumn("expenses", "account"))
  PROVE  /\ Upgradable(db') /\ HistoryKept(db, db') /\ ~Old(db')
         /\ Reshaped(db, db')
  <1> DEFINE cols == db["expenses"].cols
             old == db["expenses"].rows
             new == db'["expenses"].rows
  <1>1. /\ "expenses" \in DOMAIN db /\ "account" \in cols
        /\ DOMAIN db' = DOMAIN db
        /\ \A u \in DOMAIN db \ {"expenses"} : db'[u] = db[u]
        /\ db'["expenses"].cols = cols \ {"account"} /\ DOMAIN new = DOMAIN old
        /\ \A i \in DOMAIN old :
             /\ DOMAIN new[i] = cols \ {"account"}
             /\ \A x \in cols \ {"account"} : new[i][x] = old[i][x]
    BY KindsOfTables, DropColumnEffect
  <1>2. /\ {"name", "tags", "category_id"} \subseteq cols
        /\ cols \subseteq JsonColumns["expenses"] \cup {"account"}
    BY <1>1 DEF Upgradable, ExpensesUpgradable
  <1>3. \A i \in DOMAIN old :
          /\ DOMAIN new[i] = cols \ {"account"}
          /\ new[i].name = old[i].name /\ new[i].tags = old[i].tags
          /\ new[i].category_id = old[i].category_id
          /\ new[i].account_id = old[i].account_id
    <2>1. {"name", "tags", "category_id", "account_id"} \subseteq cols \ {"account"}
      BY <1>2
    <2> QED BY <1>1, <2>1
  <1>4. Reshaped(db, db')
    BY <1>1, <1>2, <1>3, KindsOfTables DEF Reshaped
  <1>5. /\ LegacyIn(db') = {}
        /\ RowIdsIn(db', "accounts") = RowIdsIn(db, "accounts")
        /\ Entries(db) \subseteq Entries(db')
        /\ \A i \in DOMAIN new : RowRefers(db', new[i])
    BY <1>4, ReshapedSame
  <1>6. "expenses" \in DOMAIN db' /\ "account" \notin db'["expenses"].cols
        /\ "account_id" \in db'["expenses"].cols
    BY <1>1
  <1>7. \A i \in DOMAIN new : new[i].account_id \in RowIdsIn(db', "accounts")
    BY <1>1, <1>3, <1>5 DEF OwnersMatch
  <1>8. ExpensesUpgradable(db')
    BY <1>4, <1>5, <1>6, <1>7 DEF ExpensesUpgradable, Reshaped
  <1>9. Upgradable(db')
    BY <1>5, <1>8 DEF Upgradable, LegacyUpgradable, LegacyIn
  <1>10. ~Old(db')
    BY <1>5, <1>6 DEF Old, AccountTyped
  <1>11. ASSUME NEW i \in DOMAIN old
         PROVE  AccountOf(db', i) = AccountOf(db, i)
    <2>1. AccountOf(db, i) = old[i].account
      BY <1>1 DEF AccountOf
    <2>2. /\ old[i].account_id \in RowIdsIn(db, "accounts")
          /\ db["accounts"].rows[old[i].account_id].name = old[i].account
      BY DEF OwnersMatch
    <2>3. "accounts" \in DOMAIN db /\ db'["accounts"] = db["accounts"]
          /\ old[i].account_id \in DOMAIN db'["accounts"].rows
      BY <1>1, <2>2 DEF RowIdsIn
    <2>4. "account_id" \in DOMAIN new[i] /\ new[i].account_id = old[i].account_id
      BY <1>3
    <2>5. AccountOf(db', i) = db'["accounts"].rows[new[i].account_id].name
      BY <1>6, <2>3, <2>4 DEF AccountOf
    <2> QED BY <2>1, <2>2, <2>3, <2>4, <2>5
  <1>12. HistoryKept(db, db')
    BY <1>1, <1>5, <1>6, <1>11 DEF HistoryKept
  <1> QED BY <1>4, <1>9, <1>10, <1>12

-----------------------------------------------------------------------------
(***************************************************************************)
(* What each step of a start leaves to the starts.                         *)
(***************************************************************************)
LEMMA CopyForStart ==
  ASSUME DatabaseType, Upgradable(db), NEW t \in LegacyTable,
         Marriage \in NamesIn(db, "tags"), Accepted(CopyRows(t)),
         db' = After(CopyRows(t)), NEW s, StartInv(db, s)
  PROVE  StartInv(db', s)
  <1>1. /\ (Old(db') => Old(db)) /\ NamesKept(db, db')
        /\ LegacyIn(db') = LegacyIn(db)
        /\ \A u \in LegacyTable : NamesIn(db', u) = NamesIn(db, u)
        /\ NamesIn(db, "expenses") \subseteq NamesIn(db', "expenses")
        /\ AccountTyped(db) /\ t \in LegacyIn(db)
    BY CopyUpgrades
  <1>2. ~Done(s, 2)
    BY <1>1 DEF StartInv, MigrationsDone
  <1>3. Owning(db', s)
    BY <1>2 DEF Owning, Done, Beyond
  <1>4. \A u \in LegacyIn(db') : NamesIn(db', u) \subseteq NamesIn(db, u)
    BY <1>1 DEF LegacyIn
  <1> QED BY <1>1, <1>3, <1>4, StartStays

LEMMA DropForStart ==
  ASSUME NEW d, NEW e, Upgradable(d), NEW t \in LegacyTable,
         DOMAIN e = DOMAIN d \ {t}, \A u \in DOMAIN d \ {t} : e[u] = d[u],
         NamesIn(d, t) \subseteq NamesIn(d, "expenses"), NEW s, StartInv(d, s)
  PROVE  StartInv(e, s)
  <1>1. /\ NamesKept(d, e) /\ LegacyIn(e) = LegacyIn(d) \ {t}
        /\ \A u : u # t => NamesIn(e, u) = NamesIn(d, u)
        /\ (AccountTyped(e) <=> AccountTyped(d))
        /\ "expenses" \in DOMAIN d => e["expenses"] = d["expenses"]
    BY DropUpgrades
  <1>2. OwnersMatch(d) /\ AccountTyped(d) => OwnersMatch(e)
    <2>1. /\ RowIdsIn(d, "accounts") \subseteq RowIdsIn(e, "accounts")
          /\ \A id \in RowIdsIn(d, "accounts") :
               e["accounts"].rows[id] = d["accounts"].rows[id]
      BY <1>1, KindsOfTables DEF NamesKept
    <2> QED BY <1>1, <2>1 DEF OwnersMatch, AccountTyped
  <1>3. Owning(e, s)
    BY <1>1, <1>2 DEF StartInv, Owning, AccountTyped
  <1>4. \A u \in LegacyIn(e) : NamesIn(e, u) \subseteq NamesIn(d, u)
    BY <1>1
  <1>5. NamesIn(d, "expenses") \subseteq NamesIn(e, "expenses")
    BY <1>1, KindsOfTables
  <1> QED BY <1>1, <1>3, <1>4, <1>5, StartStays

LEMMA ReshapedForStart ==
  ASSUME NEW d, NEW e, Upgradable(d), Reshaped(d, e), AccountTyped(d),
         NEW s, StartInv(d, s), Owning(e, s)
  PROVE  StartInv(e, s)
  <1>1. /\ NamesKept(d, e) /\ LegacyIn(e) = LegacyIn(d)
        /\ \A u : NamesIn(e, u) = NamesIn(d, u)
    BY ReshapedSame
  <1> QED BY <1>1, StartStays

\* What a statement has done when it is past, executed or passed over.
Established(d, n, k) ==
  /\ n = 2 /\ k = 1 => Marriage \in NamesIn(d, "tags")
  /\ n = 2 => \A t \in LegacyIn(d) :
       /\ k = CopiedAt[t] => NamesIn(d, t) \subseteq NamesIn(d, "expenses")
       /\ k # CopiedAt[t] + 3
  /\ n = 3 /\ k = 2 => Aditya \in NamesIn(d, "accounts")
  /\ n = 4 /\ AccountTyped(d) =>
       /\ k = 1 => "account_id" \in d["expenses"].cols
       /\ k = 2 => OwnersMatch(d)
       /\ k # 3

LEMMA MigrationLengths ==
  /\ DOMAIN Migrations = 1 .. 4
  /\ Len(Migrations[1]) = 9 /\ Len(Migrations[2]) = 8
  /\ Len(Migrations[3]) = 2 /\ Len(Migrations[4]) = 3
  /\ \A n \in 1 .. 4 : DOMAIN Migrations[n] = 1 .. Len(Migrations[n])
  BY FourMigrations, FirstMigration, SecondMigration, ThirdMigration,
     FourthMigration

LEMMA CopiedAtSome ==
  /\ \A t \in LegacyTable : CopiedAt[t] \in 3 .. 5
  /\ CopiedAt["household_expense"] = 3 /\ CopiedAt["personal_expense"] = 4
  /\ CopiedAt["marriage_expense"] = 5
  BY DEF CopiedAt, LegacyTable

\* A start that is past a statement can rely on what it has done.
LEMMA AfterStatementStart ==
  ASSUME NEW d, NEW s, StartInv(d, s), s.op = "run",
         s.n \in DOMAIN Migrations, s.k \in DOMAIN Migrations[s.n],
         Established(d, s.n, s.k)
  PROVE  StartInv(d, AfterStatement(s.n, s.k))
  <1> DEFINE n == s.n
             k == s.k
             next == AfterStatement(n, k)
  <1>1. n \in 1 .. 4 /\ k \in 1 .. Len(Migrations[n]) /\ Len(Migrations[n]) \in Nat
    BY MigrationLengths
  <1>2. CASE k = Len(Migrations[n])
    <2>1. next = [op |-> "record", n |-> n]
      BY <1>2 DEF AfterStatement
    <2>2. next.op = "record" /\ next.n = n
      BY <2>1
    <2> HIDE DEF next
    <2>3. \A m \in 1 .. 4 : Beyond(next, m) => Beyond(s, m)
      BY <2>2 DEF Beyond
    <2>4. Done(next, 2) => LegacyIn(d) = {}
      <3>1. CASE n = 2
        <4>1. k = 8
          BY <1>2, <3>1, MigrationLengths
        <4>2. \A t \in LegacyIn(d) : CopiedAt[t] \in 3 .. 5 /\ 8 <= CopiedAt[t] + 3
          BY <3>1, <4>1, CopiedAtSome DEF StartInv, Combining, LegacyIn
        <4>3. \A t \in LegacyIn(d) : 8 # CopiedAt[t] + 3
          BY <3>1, <4>1 DEF Established
        <4> QED BY <4>2, <4>3
      <3>2. CASE n # 2
        <4>1. Done(next, 2) => Done(s, 2)
          BY <2>2, <3>2 DEF Done, Beyond
        <4> QED BY <4>1 DEF StartInv, MigrationsDone
      <3> QED BY <3>1, <3>2
    <2>5. Done(next, 3) /\ AccountTyped(d) => Aditya \in NamesIn(d, "accounts")
      <3>1. CASE n = 3
        BY <1>2, <3>1, MigrationLengths DEF Established
      <3>2. CASE n # 3
        <4>1. Done(next, 3) => Done(s, 3)
          BY <2>2, <3>2 DEF Done, Beyond
        <4> QED BY <4>1 DEF StartInv, MigrationsDone
      <3> QED BY <3>1, <3>2
    <2>6. Done(next, 4) => ~AccountTyped(d)
      <3>1. CASE n = 4
        BY <1>2, <3>1, MigrationLengths DEF Established
      <3>2. CASE n # 4
        BY <1>1, <2>2, <3>2 DEF Done, Beyond
      <3> QED BY <3>1, <3>2
    <2>7. MigrationsDone(d, next)
      BY <2>2, <2>3, <2>4, <2>5, <2>6 DEF StartInv, MigrationsDone
    <2>8. StartInv(d, next)
      BY <2>2, <2>7 DEF StartInv, Combining, Owning
    <2> QED BY <2>8 DEF next
  <1>3. CASE k # Len(Migrations[n])
    <2>1. next = [op |-> "run", n |-> n, k |-> k + 1]
      BY <1>3 DEF AfterStatement
    <2>2. next.op = "run" /\ next.n = n /\ next.k = k + 1
      BY <2>1
    <2> HIDE DEF next
    <2>3. \A m \in 1 .. 4 : (Beyond(next, m) <=> Beyond(s, m))
                            /\ (Done(next, m) <=> Done(s, m))
      BY <2>2 DEF Beyond, Done
    <2>4. MigrationsDone(d, next)
      BY <2>2, <2>3 DEF StartInv, MigrationsDone
    <2>5. Combining(d, next)
      <3> SUFFICES ASSUME n = 2
                   PROVE  /\ Marriage \in NamesIn(d, "tags")
                          /\ \A t \in LegacyIn(d) :
                               /\ k + 1 > CopiedAt[t] =>
                                    NamesIn(d, t) \subseteq NamesIn(d, "expenses")
                               /\ k + 1 <= CopiedAt[t] + 3
        BY <2>2 DEF Combining
      <3>1. Marriage \in NamesIn(d, "tags")
        BY <1>1 DEF Established, StartInv, Combining
      <3>2. ASSUME NEW t \in LegacyIn(d)
            PROVE  /\ k + 1 > CopiedAt[t] =>
                        NamesIn(d, t) \subseteq NamesIn(d, "expenses")
                   /\ k + 1 <= CopiedAt[t] + 3
        <4>1. CopiedAt[t] \in Nat /\ k \in Nat
          BY <1>1, CopiedAtSome DEF LegacyIn
        <4>2. /\ k > CopiedAt[t] => NamesIn(d, t) \subseteq NamesIn(d, "expenses")
              /\ k <= CopiedAt[t] + 3
          BY DEF StartInv, Combining
        <4>3. /\ k = CopiedAt[t] => NamesIn(d, t) \subseteq NamesIn(d, "expenses")
              /\ k # CopiedAt[t] + 3
          BY DEF Established
        <4> QED BY <4>1, <4>2, <4>3
      <3> QED BY <3>1, <3>2
    <2>6. Owning(d, next)
      <3> SUFFICES ASSUME n = 4, AccountTyped(d)
                   PROVE  /\ "account_id" \in d["expenses"].cols
                          /\ k + 1 > 2 => OwnersMatch(d)
        BY <2>2 DEF Owning
      <3>1. k \in 1 .. 2
        BY <1>1, <1>3, MigrationLengths
      <3>2. CASE k = 1
        BY <3>2 DEF Established
      <3>3. CASE k = 2
        BY <3>3 DEF Established, StartInv, Owning
      <3> QED BY <3>1, <3>2, <3>3
    <2>7. StartInv(d, next)
      BY <2>2, <2>4, <2>5, <2>6 DEF StartInv
    <2> QED BY <2>7 DEF next
  <1> QED BY <1>2, <1>3

\* What SQLite cannot execute has been done before.
LEMMA PassedOverEstablished ==
  ASSUME DatabaseType, Upgradable(db), DOMAIN JsonColumns \subseteq DOMAIN db,
         NEW s, StartInv(db, s), s.op = "run", s.n \in DOMAIN Migrations,
         s.k \in DOMAIN Migrations[s.n], ~Accepted(Migrations[s.n][s.k])
  PROVE  Established(db, s.n, s.k)
  <1> DEFINE n == s.n
             k == s.k
  <1>1. n \in 1 .. 4 /\ k \in 1 .. Len(Migrations[n])
    BY MigrationLengths
  <1>2. {"accounts", "tags", "expenses"} \subseteq DOMAIN db
    BY KindsOfTables
  <1>3. ASSUME n = 2, k = 1 PROVE Marriage \in NamesIn(db, "tags")
    <2>1. ~Accepted(InsertName("tags", Marriage))
      BY <1>3, SecondMigration
    <2> QED BY <1>2, <2>1 DEF Accepted, InsertName, Exists, Names
  <1>4. ASSUME n = 2, NEW t \in LegacyIn(db)
        PROVE  /\ k = CopiedAt[t] =>
                    NamesIn(db, t) \subseteq NamesIn(db, "expenses")
               /\ k # CopiedAt[t] + 3
    <2>1. t \in DOMAIN db /\ t \in LegacyTable
      BY DEF LegacyIn
    <2>2. /\ db[t].cols = {"name", "tags", "category_id"}
          /\ "account" \in db["expenses"].cols
      BY <2>1 DEF Upgradable, LegacyUpgradable
    <2>3. Accepted(CopyRows(t)) /\ Accepted(DropTable(t))
      BY <1>2, <2>1, <2>2 DEF Accepted, CopyRows, DropTable, HasColumn, Exists
    <2>4. /\ k = CopiedAt[t] => Migrations[n][k] = CopyRows(t)
          /\ k = CopiedAt[t] + 3 => Migrations[n][k] = DropTable(t)
      BY <1>4, <2>1, SecondMigration, CopiedAtSome DEF LegacyTable
    <2> QED BY <2>3, <2>4
  <1>5. ASSUME n = 3, k = 2 PROVE Aditya \in NamesIn(db, "accounts")
    <2>1. ~Accepted(InsertName("accounts", Aditya))
      BY <1>5, ThirdMigration
    <2> QED BY <1>2, <2>1 DEF Accepted, InsertName, Exists, Names
  <1>6. ASSUME n = 4, AccountTyped(db)
        PROVE  /\ k = 1 => "account_id" \in db["expenses"].cols
               /\ k = 2 => OwnersMatch(db)
               /\ k # 3
    <2>1. "account" \in db["expenses"].cols
      BY <1>6 DEF AccountTyped
    <2>2. k = 1 => "account_id" \in db["expenses"].cols
      BY <1>2, <1>6, FourthMigration DEF Accepted, AddColumn, HasColumn, Exists
    <2>3. k # 2
      <3> SUFFICES ASSUME k = 2 PROVE FALSE
        OBVIOUS
      <3> DEFINE f == FillColumn("expenses", "account_id", "accounts", "account")
                 rows == db["expenses"].rows
      <3>1. ~Accepted(f)
        BY <1>6, FourthMigration
      <3>2. "account_id" \in db["expenses"].cols
        BY <1>6 DEF StartInv, Owning
      <3>3. SomeNull(f)
        BY <1>2, <2>1, <3>1, <3>2 DEF Accepted, FillColumn, HasColumn, Exists
      <3>4. PICK i \in DOMAIN rows : Filled(f)[i].account_id = Null
        BY <3>3 DEF SomeNull, Filled, FillColumn
      <3>5. DOMAIN rows[i] = db["expenses"].cols
        BY <1>2 DEF DatabaseType, TableType, Rectangular
      <3>6. IdOfName("accounts", rows[i].account) = Null
        BY <3>2, <3>4, <3>5 DEF Filled, FillColumn
      <3>7. 3 \in NamesIn(db, "migrations")
        BY <1>6 DEF StartInv, MigrationsDone, Beyond
      <3>8. rows[i].account \in NamesIn(db, "accounts")
        BY <1>2, <2>1, <3>7 DEF Upgradable, ExpensesUpgradable
      <3>9. IdOfName("accounts", rows[i].account) \in RowIdsIn(db, "accounts")
        BY <3>8, IdOfNameFound
      <3>10. RowIdsIn(db, "accounts") \subseteq RowId
        BY <1>2 DEF DatabaseType, TableType, Rectangular, RowIdsIn
      <3> QED BY <3>6, <3>9, <3>10, StartupAssumption
    <2>4. k # 3
      BY <1>2, <1>6, <2>1, FourthMigration
         DEF Accepted, DropColumn, HasColumn, Exists
    <2> QED BY <2>2, <2>3, <2>4
  <1> QED BY <1>3, <1>4, <1>5, <1>6 DEF Established

\* A change of the database after which every start finds what it relies on.
ChangeUpgrades ==
  /\ Upgradable(db') /\ HistoryKept(db, db') /\ (Old(db') => Old(db))
  /\ \A q \in Proc : StartInv(db', at[q])

LEMMA ExpensesRectangular ==
  ASSUME TypeInv
  PROVE  "expenses" \in DOMAIN db => Rectangular(db["expenses"])
  BY DEF TypeInv, DatabaseType, TableType

\* Names are added, and no migration is recorded that has not been done.
LEMMA NamesUpgrade ==
  ASSUME TypeInv, UpgradeNow, NamesKept(db, db'), SameExpenses(db, db'),
         RecordedSoundly(db, db')
  PROVE  ChangeUpgrades
  <1>1. Upgradable(db') /\ HistoryKept(db, db') /\ (Old(db') <=> Old(db))
    BY ExpensesRectangular, NamesGrow DEF UpgradeNow
  <1>2. \A q \in Proc : StartInv(db', at[q])
    BY NamesGrowForStart DEF UpgradeNow
  <1> QED BY <1>1, <1>2 DEF ChangeUpgrades

LEMMA InsertUpgrades ==
  ASSUME TypeInv, UpgradeNow, NEW t \in DOMAIN db \cap TablesOfNames, NEW n,
         db' = InsertedName(t, n), t = "migrations" => RecordedSoundly(db, db')
  PROVE  ChangeUpgrades /\ n \in NamesIn(db', t)
  <1>1. /\ DOMAIN db' = DOMAIN db /\ n \in NamesIn(db', t)
        /\ \A u \in DOMAIN db \ {t} : db'[u] = db[u]
    BY InsertedNameEffect DEF TypeInv
  <1>2. NamesKept(db, db')
    BY InsertedNameKeeps DEF TypeInv
  <1>3. SameExpenses(db, db')
    BY <1>1, KindsOfTables DEF SameExpenses
  <1>4. RecordedSoundly(db, db')
    <2>1. CASE t # "migrations"
      <3>1. RowIdsIn(db', "migrations") = RowIdsIn(db, "migrations")
        BY <1>1, <2>1 DEF RowIdsIn
      <3>2. NamesIn(db', "migrations") = NamesIn(db, "migrations")
        BY <1>1, <2>1, <3>1 DEF NamesIn, RowIdsIn
      <3> QED BY <3>2 DEF RecordedSoundly
    <2> QED BY <2>1
  <1> QED BY <1>1, <1>2, <1>3, <1>4, NamesUpgrade

\* The second migration.
LEMMA CombiningUpgrades ==
  ASSUME TypeInv, UpgradeNow, NEW p \in Proc, at[p].op = "run", at[p].n = 2,
         Accepted(Migrations[2][at[p].k]), db' = After(Migrations[2][at[p].k])
  PROVE  ChangeUpgrades /\ Established(db', 2, at[p].k)
  <1> DEFINE k == at[p].k
  <1>1. k \in 1 .. 8 /\ DOMAIN JsonColumns \subseteq DOMAIN db /\ DatabaseType
    BY TablesThere, SecondMigration DEF TypeInv
  <1>2. Combining(db, at[p])
    BY DEF UpgradeNow, StartInv
  <1>3. CASE k = 1
    <2>1. /\ db' = InsertedName("tags", Marriage)
          /\ "tags" \in DOMAIN db \cap TablesOfNames
      BY <1>1, <1>3, SecondMigration, InsertKeeps, KindsOfTables
    <2>2. ChangeUpgrades /\ Marriage \in NamesIn(db', "tags")
      BY <2>1, InsertUpgrades
    <2>3. \A t \in LegacyIn(db') : k # CopiedAt[t] /\ k # CopiedAt[t] + 3
      BY <1>3, CopiedAtSome DEF LegacyIn
    <2> QED BY <2>2, <2>3 DEF Established
  <1>4. CASE k = 2
    BY <1>1, <1>4, SecondMigration, NothingCreated, KindsOfTables
  <1>5. CASE k \in 3 .. 5
    <2>1. PICK t \in LegacyTable : k = CopiedAt[t] /\ Migrations[2][k] = CopyRows(t)
      BY <1>5, SecondMigration, CopiedAtSome DEF LegacyTable
    <2>2. Marriage \in NamesIn(db, "tags")
      BY <1>2, <1>5 DEF Combining
    <2>3. /\ Upgradable(db') /\ HistoryKept(db, db') /\ (Old(db') => Old(db))
          /\ LegacyIn(db') = LegacyIn(db)
          /\ \A u \in LegacyTable : NamesIn(db', u) = NamesIn(db, u)
          /\ NamesIn(db, t) \subseteq NamesIn(db', "expenses")
      BY <1>1, <2>1, <2>2, CopyUpgrades DEF UpgradeNow
    <2>4. \A q \in Proc : StartInv(db', at[q])
      BY <1>1, <2>1, <2>2, CopyForStart DEF UpgradeNow
    <2>5. \A u \in LegacyTable : (k = CopiedAt[u] => u = t) /\ k # CopiedAt[u] + 3
      BY <1>5, <2>1, CopiedAtSome DEF LegacyTable
    <2>6. Established(db', 2, k)
      BY <1>5, <2>3, <2>5 DEF Established, LegacyIn
    <2> QED BY <2>3, <2>4, <2>6 DEF ChangeUpgrades
  <1>6. CASE k \in 6 .. 8
    <2>1. PICK t \in LegacyTable :
            k = CopiedAt[t] + 3 /\ Migrations[2][k] = DropTable(t)
      BY <1>6, SecondMigration, CopiedAtSome DEF LegacyTable
    <2>2. t \in LegacyIn(db)
      BY <2>1 DEF Accepted, DropTable, Exists, LegacyIn
    <2>3. NamesIn(db, t) \subseteq NamesIn(db, "expenses")
      BY <1>2, <2>1, <2>2, CopiedAtSome DEF Combining
    <2>4. DOMAIN db' = DOMAIN db \ {t} /\ \A u \in DOMAIN db \ {t} : db'[u] = db[u]
      BY <1>1, <2>1, DropEffect
    <2>5. /\ Upgradable(db') /\ HistoryKept(db, db') /\ (Old(db') => Old(db))
          /\ LegacyIn(db') = LegacyIn(db) \ {t}
      BY <2>3, <2>4, DropUpgrades DEF UpgradeNow
    <2>6. \A q \in Proc : StartInv(db', at[q])
      BY <2>3, <2>4, DropForStart DEF UpgradeNow
    <2>7. \A u \in LegacyTable : k # CopiedAt[u] /\ (k = CopiedAt[u] + 3 => u = t)
      BY <1>6, <2>1, CopiedAtSome DEF LegacyTable
    <2>8. Established(db', 2, k)
      BY <1>6, <2>5, <2>7 DEF Established, LegacyIn
    <2> QED BY <2>5, <2>6, <2>8 DEF ChangeUpgrades
  <1> QED BY <1>1, <1>3, <1>4, <1>5, <1>6

\* The third migration.
LEMMA AccountsUpgrade ==
  ASSUME TypeInv, UpgradeNow, NEW p \in Proc, at[p].op = "run", at[p].n = 3,
         Accepted(Migrations[3][at[p].k]), db' = After(Migrations[3][at[p].k])
  PROVE  ChangeUpgrades /\ Established(db', 3, at[p].k)
  <1> DEFINE k == at[p].k
  <1>1. k \in 1 .. 2 /\ DOMAIN JsonColumns \subseteq DOMAIN db /\ DatabaseType
    BY TablesThere, ThirdMigration DEF TypeInv
  <1>2. CASE k = 1
    BY <1>1, <1>2, ThirdMigration, NothingCreated, KindsOfTables
  <1>3. CASE k = 2
    <2>1. /\ db' = InsertedName("accounts", Aditya)
          /\ "accounts" \in DOMAIN db \cap TablesOfNames
      BY <1>1, <1>3, ThirdMigration, InsertKeeps, KindsOfTables
    <2>2. ChangeUpgrades /\ Aditya \in NamesIn(db', "accounts")
      BY <2>1, InsertUpgrades
    <2> QED BY <2>2 DEF Established
  <1> QED BY <1>1, <1>2, <1>3

\* The fourth migration.
LEMMA OwningUpgrades ==
  ASSUME TypeInv, UpgradeNow, NEW p \in Proc, at[p].op = "run", at[p].n = 4,
         Accepted(Migrations[4][at[p].k]), db' = After(Migrations[4][at[p].k])
  PROVE  ChangeUpgrades /\ Established(db', 4, at[p].k)
  <1> DEFINE k == at[p].k
  <1>1. k \in 1 .. 3 /\ DOMAIN JsonColumns \subseteq DOMAIN db /\ DatabaseType
        /\ Upgradable(db)
    BY TablesThere, FourthMigration DEF TypeInv, UpgradeNow
  <1>2. ASSUME NEW q \in Proc
        PROVE  /\ StartInv(db, at[q])
               /\ at[q].op = "run" => at[q].k \in Nat
    <2>1. StartInv(db, at[q])
      BY DEF UpgradeNow
    <2>2. StepOK(at[q])
      BY DEF TypeInv, ProcessType
    <2>3. at[q].op = "run" => at[q].n \in 1 .. 4 /\ at[q].k \in DOMAIN Migrations[at[q].n]
      BY <2>2, MigrationLengths DEF StepOK
    <2>4. \A n \in 1 .. 4 : DOMAIN Migrations[n] \subseteq Nat
      BY MigrationLengths
    <2> QED BY <2>1, <2>3, <2>4
  <1>3. CASE k = 1
    <2>1. /\ Upgradable(db') /\ HistoryKept(db, db') /\ (Old(db') => Old(db))
          /\ Reshaped(db, db') /\ AccountTyped(db)
          /\ "account_id" \notin db["expenses"].cols
          /\ "account_id" \in db'["expenses"].cols
      BY <1>1, <1>3, FourthMigration, AddAccountIdUpgrades
    <2>2. ASSUME NEW q \in Proc PROVE StartInv(db', at[q])
      <3>1. at[q].op = "run" /\ at[q].n = 4 => ~(at[q].k > 1)
        BY <1>2, <2>1 DEF StartInv, Owning
      <3>2. Owning(db', at[q])
        BY <1>2, <3>1 DEF Owning
      <3> QED BY <1>1, <1>2, <2>1, <3>2, ReshapedForStart
    <2>3. Established(db', 4, k)
      BY <1>3, <2>1 DEF Established
    <2> QED BY <2>1, <2>2, <2>3 DEF ChangeUpgrades
  <1>4. CASE k = 2
    <2>1. /\ Upgradable(db') /\ HistoryKept(db, db') /\ (Old(db') => Old(db))
          /\ Reshaped(db, db') /\ AccountTyped(db) /\ OwnersMatch(db')
          /\ db'["expenses"].cols = db["expenses"].cols
          /\ "account_id" \in db["expenses"].cols
      BY <1>1, <1>4, FourthMigration, FillAccountIdUpgrades
    <2>2. ASSUME NEW q \in Proc PROVE StartInv(db', at[q])
      <3>1. Owning(db', at[q])
        BY <2>1 DEF Owning
      <3> QED BY <1>1, <1>2, <2>1, <3>1, ReshapedForStart
    <2>3. Established(db', 4, k)
      BY <1>4, <2>1 DEF Established
    <2> QED BY <2>1, <2>2, <2>3 DEF ChangeUpgrades
  <1>5. CASE k = 3
    <2>1. Accepted(DropColumn("expenses", "account"))
          /\ db' = After(DropColumn("expenses", "account"))
      BY <1>5, FourthMigration
    <2>2. AccountTyped(db)
      BY <2>1, DropColumnEffect, <1>1, KindsOfTables DEF AccountTyped
    <2>3. LegacyIn(db) = {}
      BY DEF UpgradeNow, StartInv, MigrationsDone, Done, Beyond
    <2>4. "account_id" \in db["expenses"].cols /\ OwnersMatch(db)
      BY <1>5, <2>2 DEF UpgradeNow, StartInv, Owning
    <2>5. /\ Upgradable(db') /\ HistoryKept(db, db') /\ ~Old(db')
          /\ Reshaped(db, db')
      BY <1>1, <2>1, <2>3, <2>4, DropAccountUpgrades
    <2>6. NamesKept(db, db') /\ \A u : NamesIn(db', u) = NamesIn(db, u)
      BY <1>1, <2>5, ReshapedSame
    <2>7. \A q \in Proc : StartInv(db', at[q])
      BY <1>2, <2>5, <2>6, NoAccountTextForStart
    <2>8. Established(db', 4, k)
      BY <2>5 DEF Established, Old
    <2> QED BY <2>5, <2>7, <2>8 DEF ChangeUpgrades
  <1> QED BY <1>1, <1>3, <1>4, <1>5

\* A start that runs the first migration finds no table to convert: it can only
\* be recorded.
LEMMA NothingToConvert ==
  ASSUME TypeInv, UpgradeNow, NEW p \in Proc, at[p].op = "run", at[p].n = 1
  PROVE  ~Accepted(Migrations[1][at[p].k])
  <1>1. at[p].k \in 1 .. 9
    BY TablesThere, FirstMigration
  <1>2. Migrations[1][at[p].k] \in LegacyStatement
    BY <1>1, FirstMigration
  <1>3. \A t \in LegacyTable : t \notin DOMAIN db
    BY DEF UpgradeNow, StartInv, MigrationsDone, LegacyIn
  <1>4. \A t \in LegacyTable :
          /\ ~Accepted(AddColumn(t, "category_id", Null))
          /\ ~Accepted(FillColumn(t, "category_id", "categories", "category"))
          /\ ~Accepted(DropColumn(t, "category"))
    BY <1>3 DEF Accepted, AddColumn, FillColumn, DropColumn, Exists, HasColumn
  <1> QED BY <1>2, <1>4 DEF LegacyStatement

LEMMA StatementUpgrades ==
  ASSUME TypeInv, UpgradeNow, NEW p \in Proc, at[p].op = "run",
         Accepted(Migrations[at[p].n][at[p].k]),
         db' = After(Migrations[at[p].n][at[p].k])
  PROVE  ChangeUpgrades /\ Established(db', at[p].n, at[p].k)
  <1>1. at[p].n \in 1 .. 4
    BY TablesThere, MigrationLengths
  <1>2. CASE at[p].n = 1
    BY <1>2, NothingToConvert
  <1>3. CASE at[p].n = 2
    BY <1>3, CombiningUpgrades
  <1>4. CASE at[p].n = 3
    BY <1>4, AccountsUpgrade
  <1>5. CASE at[p].n = 4
    BY <1>5, OwningUpgrades
  <1> QED BY <1>1, <1>2, <1>3, <1>4, <1>5

-----------------------------------------------------------------------------
(***************************************************************************)
(* The steps.                                                              *)
(***************************************************************************)
\* A step of start p that leaves the database fit for the others, and whose
\* next state relies on what is there.
LEMMA StepUpgrades ==
  ASSUME TypeInv, UpgradeNow, NEW p \in Proc, NEW next, Goto(p, next),
         ChangeUpgrades, StartInv(db', next),
         UNCHANGED <<fileIsThere, first, build, before, misled>>
  PROVE  UpgradeNow'
  <1>1. /\ at'[p] = next /\ \A q \in Proc \ {p} : at'[q] = at[q]
    BY GotoEffect DEF TypeInv, ProcessType
  <1>2. \A q \in Proc : StartInv(db', at'[q])
    BY <1>1 DEF ChangeUpgrades
  <1>3. HistoryKept(before, db')
    BY HistoryIsKept DEF UpgradeNow, ChangeUpgrades
  <1>4. NoneMisled'
    BY DEF UpgradeNow, ChangeUpgrades, NoneMisled
  <1> QED BY <1>2, <1>3, <1>4 DEF UpgradeNow, ChangeUpgrades

LEMMA SameDatabase ==
  ASSUME TypeInv, UpgradeNow, db' = db
  PROVE  ChangeUpgrades
  <1>1. NamesKept(db, db') /\ SameExpenses(db, db') /\ RecordedSoundly(db, db')
    BY DEF NamesKept, SameExpenses, RecordedSoundly
  <1> QED BY <1>1, NamesUpgrade

\* A start that has not come to the migrations relies on nothing.
LEMMA EarlyStart ==
  ASSUME NEW d, NEW s,
         \/ s.op \in {"off", "migrationsTable", "register"}
         \/ s.op = "migrate" /\ s.n = 1
  PROVE  StartInv(d, s)
  BY DEF StartInv, MigrationsDone, Combining, Owning, Done, Beyond

LEMMA OffUpgrades ==
  ASSUME TypeInv, UpgradeNow, NEW p \in Proc, Goto(p, Off), db' = db,
         UNCHANGED <<fileIsThere, first, build, before, misled>>
  PROVE  UpgradeNow'
  <1>1. StartInv(db', Off)
    BY EarlyStart DEF Off
  <1> QED BY <1>1, SameDatabase, StepUpgrades

\* A refusal leaves the database as it is: the start goes on, or it ends.
LEMMA RefuseUpgrades ==
  ASSUME TypeInv, UpgradeNow, NEW p \in Proc, NEW next, Refuse(p, next),
         build = "release" => StartInv(db, next),
         UNCHANGED <<fileIsThere, first, build, before, misled>>
  PROVE  UpgradeNow'
  <1>1. db' = db
    BY DEF Refuse
  <1>2. CASE build = "release" /\ Goto(p, next)
    <2>1. StartInv(db', next)
      BY <1>1, <1>2
    <2> QED BY <1>1, <1>2, <2>1, SameDatabase, StepUpgrades
  <1>3. CASE Goto(p, Off)
    BY <1>1, <1>3, OffUpgrades
  <1> QED BY <1>2, <1>3 DEF Refuse

\* A start that is led to take a file for new or for old takes one that is
\* new or of the present release.
LEMMA OpenUpgrades ==
  ASSUME TypeInv, UpgradeNow, MayTrust', NEW p \in Proc, Open(p)
  PROVE  UpgradeNow'
  <1> DEFINE next == [op |-> "migrationsTable"]
  <1>1. Goto(p, next) /\ db' = db /\ before' = before /\ fileIsThere' = TRUE
    BY DEF Open
  <1>2. at'[p] = next /\ \A q \in Proc \ {p} : at'[q] = at[q]
    BY <1>1, GotoEffect DEF TypeInv, ProcessType
  <1>3. StartInv(db, next)
    BY EarlyStart
  <1>4. \A q \in Proc : StartInv(db', at'[q])
    BY <1>1, <1>2, <1>3 DEF UpgradeNow
  <1>5. CASE first' = [first EXCEPT ![p] = ~fileIsThere] /\ UNCHANGED misled
    <2>1. Old(db) => \A q \in Proc : ~first'[q]
      BY <1>5 DEF UpgradeNow, NoneMisled, TypeInv, ProcessType
    <2>2. NoneMisled'
      BY <1>1, <2>1 DEF UpgradeNow, NoneMisled
    <2> QED BY <1>1, <1>4, <2>2 DEF UpgradeNow
  <1>6. CASE misled' = TRUE
    <2>1. DOMAIN before = {} \/ DOMAIN Migrations \subseteq NamesIn(before, "migrations")
      BY <1>1, <1>6 DEF MayTrust
    <2>2. ~Old(db)
      BY <2>1 DEF UpgradeNow, NoneMisled
    <2>3. NoneMisled'
      BY <1>1, <2>2 DEF NoneMisled
    <2> QED BY <1>1, <1>4, <2>3 DEF UpgradeNow
  <1> QED BY <1>5, <1>6 DEF Open

LEMMA CreateMigrationTableUpgrades ==
  ASSUME TypeInv, UpgradeNow, NEW p \in Proc, CreateMigrationTable(p)
  PROVE  UpgradeNow'
  <1>1. PICK files \in FileOrders : Goto(p, [op |-> "register", left |-> files])
    BY DEF CreateMigrationTable
  <1>2. UNCHANGED <<fileIsThere, first, build, before, misled>>
    BY DEF CreateMigrationTable
  <1>3. ChangeUpgrades
    <2>1. CASE db' = db
      BY <2>1, SameDatabase
    <2>2. CASE /\ "migrations" \notin DOMAIN db
               /\ DOMAIN db' = DOMAIN db \cup {"migrations"}
               /\ \A u \in DOMAIN db : db'[u] = db[u]
               /\ DOMAIN db'["migrations"].rows = {}
      <3>1. NamesKept(db, db')
        BY <2>2, SameNamesKept
      <3>2. SameExpenses(db, db')
        BY <2>2 DEF SameExpenses, LegacyTable
      <3>3. NamesIn(db', "migrations") = {}
        BY <2>2 DEF NamesIn, RowIdsIn
      <3>4. RecordedSoundly(db, db')
        BY <3>3 DEF RecordedSoundly
      <3> QED BY <3>1, <3>2, <3>4, NamesUpgrade
    <2> QED BY <2>1, <2>2, CreateMigrationTableDoes
  <1>4. StartInv(db', [op |-> "register", left |-> files])
    BY EarlyStart
  <1> QED BY <1>1, <1>2, <1>3, <1>4, StepUpgrades

\* expenses of an upgradable database has all columns, or as many with the
\* account's name in place of its id.
LEMMA NoColumnMissing ==
  ASSUME NEW d, Upgradable(d), "expenses" \in DOMAIN d,
         JsonColumns["expenses"] \ d["expenses"].cols # {}
  PROVE  Cardinality(d["expenses"].cols) = Cardinality(JsonColumns["expenses"])
  <1> DEFINE cols == d["expenses"].cols
             base == {"name", "tags", "category_id"}
  <1>1. /\ base \subseteq cols
        /\ cols \subseteq JsonColumns["expenses"] \cup {"account"}
        /\ "account" \notin cols => "account_id" \in cols
    BY DEF Upgradable, ExpensesUpgradable
  <1>2. JsonColumns["expenses"] = base \cup {"account_id"}
    BY KindsOfTables
  <1>3. cols = base \cup {"account"}
    BY <1>1, <1>2
  <1>4. IsFiniteSet(base)
    <2>1. base = ({"name"} \cup {"tags"}) \cup {"category_id"}
      OBVIOUS
    <2>2. IsFiniteSet({"name"})
      BY FS_Singleton
    <2>3. IsFiniteSet({"name"} \cup {"tags"})
      BY <2>2, FS_AddElement
    <2>4. IsFiniteSet(({"name"} \cup {"tags"}) \cup {"category_id"})
      BY <2>3, FS_AddElement
    <2> QED BY <2>1, <2>4
  <1>5. /\ Cardinality(base \cup {"account"}) = Cardinality(base) + 1
        /\ Cardinality(base \cup {"account_id"}) = Cardinality(base) + 1
    <2>1. "account" \notin base /\ "account_id" \notin base
      OBVIOUS
    <2> HIDE DEF base
    <2> QED BY <1>4, <2>1, FS_AddElement
  <1> QED BY <1>2, <1>3, <1>5

LEMMA RegisterUpgrades ==
  ASSUME TypeInv, UpgradeNow, NEW p \in Proc, Register(p)
  PROVE  UpgradeNow'
  <1> DEFINE left == at[p].left
             t == Head(left)
             next == AfterFile(left)
  <1>1. /\ t \in DOMAIN JsonColumns /\ RegisterEffect(db, db', t)
        /\ Goto(p, next) \/ Goto(p, Off)
        /\ UNCHANGED <<fileIsThere, first, build, before, misled>>
    BY RegisterDoes
  <1>2. ChangeUpgrades
    <2>1. CASE t \in DOMAIN db /\ db' = db
      BY <2>1, SameDatabase
    <2>2. CASE /\ t \notin DOMAIN db /\ DOMAIN db' = DOMAIN db \cup {t}
               /\ \A u \in DOMAIN db : db'[u] = db[u]
               /\ db'[t].cols = JsonColumns[t] /\ DOMAIN db'[t].rows = {}
      <3>1. CASE t = "expenses"
        <4>1. /\ Upgradable(db') /\ HistoryKept(db, db') /\ ~Old(db')
              /\ NamesKept(db, db')
              /\ \A u : NamesIn(db', u) = NamesIn(db, u)
          BY <2>2, <3>1, ExpensesMade DEF UpgradeNow
        <4>2. \A q \in Proc : StartInv(db', at[q])
          BY <4>1, NoAccountTextForStart DEF UpgradeNow
        <4> QED BY <4>1, <4>2 DEF ChangeUpgrades
      <3>2. CASE t # "expenses"
        <4>1. t \notin LegacyTable \cup {"expenses"} /\ t # "migrations"
          BY <1>1, <3>2, KindsOfTables DEF LegacyTable
        <4>2. SameExpenses(db, db')
          BY <2>2, <4>1 DEF SameExpenses
        <4>3. NamesKept(db, db')
          BY <2>2, SameNamesKept
        <4>4. NamesIn(db', "migrations") = NamesIn(db, "migrations")
          <5>1. RowIdsIn(db', "migrations") = RowIdsIn(db, "migrations")
            BY <2>2, <4>1 DEF RowIdsIn
          <5> QED BY <2>2, <4>1, <5>1 DEF NamesIn, RowIdsIn
        <4>5. RecordedSoundly(db, db')
          BY <4>4 DEF RecordedSoundly
        <4> QED BY <4>2, <4>3, <4>5, NamesUpgrade
      <3> QED BY <3>1, <3>2
    <2>3. CASE /\ "expenses" \in DOMAIN db
               /\ JsonColumns["expenses"] \ db["expenses"].cols # {}
               /\ Cardinality(db["expenses"].cols)
                    # Cardinality(JsonColumns["expenses"])
      BY <2>3, NoColumnMissing DEF UpgradeNow
    <2> QED BY <1>1, <2>1, <2>2, <2>3 DEF RegisterEffect
  <1>3. StartInv(db', next)
    BY EarlyStart DEF AfterFile
  <1>4. StartInv(db', Off)
    BY EarlyStart DEF Off
  <1> QED BY <1>1, <1>2, <1>3, <1>4, StepUpgrades

\* Past a migration that is recorded.
LEMMA AfterRecorded ==
  ASSUME NEW d, Upgradable(d), NEW s, StartInv(d, s),
         s.op \in {"migrate", "record"}, s.n \in DOMAIN Migrations,
         s.n \in NamesIn(d, "migrations")
  PROVE  StartInv(d, AfterMigration(s.n))
  <1> DEFINE n == s.n
             next == AfterMigration(n)
  <1>1. n \in 1 .. 4 /\ Len(Migrations) = 4
    BY FourMigrations
  <1>2. /\ 2 \in NamesIn(d, "migrations") => LegacyIn(d) = {}
        /\ 4 \in NamesIn(d, "migrations") => ~AccountTyped(d)
        /\ 3 \in NamesIn(d, "migrations") /\ AccountTyped(d)
             => Aditya \in NamesIn(d, "accounts")
    BY DEF Upgradable, LegacyUpgradable, ExpensesUpgradable, LegacyIn, AccountTyped
  <1>3. \A m \in 1 .. 4 : m < n => m \in NamesIn(d, "migrations")
    BY <1>1 DEF StartInv, MigrationsDone, Beyond
  <1>4. \/ n = 4 /\ next.op = "account"
        \/ n # 4 /\ next.op = "migrate" /\ next.n = n + 1
    BY <1>1 DEF AfterMigration
  <1> HIDE DEF next
  <1>5. \A m \in 1 .. 4 : Beyond(next, m) => m \in NamesIn(d, "migrations")
    <2> SUFFICES ASSUME NEW m \in 1 .. 4, Beyond(next, m)
                 PROVE  m \in NamesIn(d, "migrations")
      OBVIOUS
    <2>1. m <= n
      BY <1>1, <1>4 DEF Beyond
    <2> QED BY <1>1, <1>3, <2>1
  <1>6. \A m \in 1 .. 4 : Done(next, m) => m \in NamesIn(d, "migrations")
    BY <1>4, <1>5 DEF Done
  <1>7. MigrationsDone(d, next)
    BY <1>2, <1>4, <1>5, <1>6 DEF MigrationsDone
  <1>8. StartInv(d, next)
    BY <1>4, <1>7 DEF StartInv, Combining, Owning
  <1> QED BY <1>8 DEF next

LEMMA RunMigrationUpgrades ==
  ASSUME TypeInv, UpgradeNow, NEW p \in Proc, RunMigration(p)
  PROVE  UpgradeNow'
  <1> DEFINE n == at[p].n
  <1>1. /\ at[p].op = "migrate" /\ n \in 1 .. 4 /\ n \in DOMAIN Migrations
        /\ db' = db /\ UNCHANGED <<fileIsThere, first, build, before, misled>>
    BY TablesThere, MigrationLengths DEF RunMigration
  <1>2. ChangeUpgrades
    BY <1>1, SameDatabase
  <1>3. StartInv(db, at[p]) /\ Upgradable(db)
    BY DEF UpgradeNow
  <1>4. CASE first[p] /\ Goto(p, [op |-> "record", n |-> n])
    <2>1. ~Old(db)
      BY <1>4 DEF UpgradeNow, NoneMisled
    <2> DEFINE next == [op |-> "record", n |-> n]
    <2>2. next.op = "record" /\ next.n = n
      OBVIOUS
    <2> HIDE DEF next
    <2>3. \A m \in 1 .. 4 : Beyond(next, m) => Beyond(at[p], m)
      BY <1>1, <2>2 DEF Beyond
    <2>4. StartInv(db, next)
      BY <1>3, <2>1, <2>2, <2>3
         DEF StartInv, MigrationsDone, Combining, Owning, Old
    <2> QED BY <1>1, <1>2, <1>4, <2>4, StepUpgrades DEF next
  <1>5. CASE Recorded(n) /\ Goto(p, AfterMigration(n))
    <2>1. StartInv(db, AfterMigration(n))
      BY <1>1, <1>3, <1>5, AfterRecorded DEF Recorded, Names
    <2> QED BY <1>1, <1>2, <1>5, <2>1, StepUpgrades
  <1>6. CASE ~Recorded(n) /\ Goto(p, [op |-> "run", n |-> n, k |-> 1])
    <2> DEFINE next == [op |-> "run", n |-> n, k |-> 1]
    <2>1. next.op = "run" /\ next.n = n /\ next.k = 1
      OBVIOUS
    <2> HIDE DEF next
    <2>2. \A m \in 1 .. 4 : /\ Beyond(next, m) => Beyond(at[p], m)
                            /\ Done(next, m) => Done(at[p], m)
      BY <1>1, <2>1 DEF Beyond, Done
    <2>3. n = 1 => LegacyIn(db) = {}
      BY <1>3, <1>6
         DEF Upgradable, LegacyUpgradable, LegacyIn, Recorded, Names
    <2>4. MigrationsDone(db, next)
      BY <1>3, <2>1, <2>2, <2>3 DEF StartInv, MigrationsDone
    <2>5. Combining(db, next)
      BY <2>1, CopiedAtSome DEF Combining, LegacyIn
    <2>6. StartInv(db, next)
      BY <2>1, <2>4, <2>5 DEF StartInv, Owning
    <2> QED BY <1>1, <1>2, <1>6, <2>6, StepUpgrades DEF next
  <1> QED BY <1>4, <1>5, <1>6 DEF RunMigration

\* A statement that could be executed is refused to a debug build alone.
LEMMA ExecQueryUpgrades ==
  ASSUME TypeInv, UpgradeNow, passedOver' = 0, NEW p \in Proc, ExecQuery(p)
  PROVE  UpgradeNow'
  <1> DEFINE n == at[p].n
             k == at[p].k
             s == Migrations[n][k]
             next == AfterStatement(n, k)
  <1>1. /\ at[p].op = "run" /\ n \in DOMAIN Migrations /\ k \in DOMAIN Migrations[n]
        /\ \/ Accepted(s) /\ db' = After(s) /\ Goto(p, next)
           \/ (~Accepted(s) \/ build # "release") /\ Refuse(p, next)
        /\ UNCHANGED <<fileIsThere, first, build, before, misled>>
    BY ExecQueryDoes
  <1>2. CASE Accepted(s) /\ db' = After(s) /\ Goto(p, next)
    <2>1. ChangeUpgrades /\ Established(db', n, k)
      BY <1>1, <1>2, StatementUpgrades
    <2>2. StartInv(db', next)
      BY <1>1, <2>1, AfterStatementStart DEF ChangeUpgrades
    <2> QED BY <1>1, <1>2, <2>1, <2>2, StepUpgrades
  <1>3. CASE (~Accepted(s) \/ build # "release") /\ Refuse(p, next)
    <2>1. ASSUME build = "release" PROVE StartInv(db, next)
      <3>1. ~Accepted(s)
        BY <1>3, <2>1
      <3>2. DOMAIN JsonColumns \subseteq DOMAIN db /\ DatabaseType
        BY <1>1, TablesThere DEF TypeInv
      <3>3. StartInv(db, at[p]) /\ Upgradable(db)
        BY DEF UpgradeNow
      <3>4. Established(db, n, k)
        BY <1>1, <3>1, <3>2, <3>3, PassedOverEstablished
      <3> QED BY <1>1, <3>3, <3>4, AfterStatementStart
    <2> QED BY <1>1, <1>3, <2>1, RefuseUpgrades
  <1> QED BY <1>1, <1>2, <1>3

LEMMA InsertMigrationToDbUpgrades ==
  ASSUME TypeInv, UpgradeNow, NEW p \in Proc, InsertMigrationToDb(p)
  PROVE  UpgradeNow'
  <1> DEFINE n == at[p].n
             next == AfterMigration(n)
  <1>1. /\ at[p].op = "record" /\ n \in DOMAIN Migrations
        /\ "migrations" \in DOMAIN db \cap TablesOfNames
        /\ UNCHANGED <<fileIsThere, first, build, before, misled>>
    BY TablesThere, KindsOfTables DEF InsertMigrationToDb
  <1>2. Upgradable(db) /\ StartInv(db, at[p])
    BY DEF UpgradeNow
  <1>3. CASE db' = InsertedName("migrations", n) /\ Goto(p, next)
    <2>1. NamesIn(db', "migrations") \subseteq NamesIn(db, "migrations") \cup {n}
      BY <1>1, <1>3, InsertedNameEffect DEF TypeInv
    <2>2. Done(at[p], n)
      BY <1>1 DEF Done
    <2>3. RecordedSoundly(db, db')
      BY <1>2, <2>1, <2>2 DEF RecordedSoundly, StartInv, MigrationsDone
    <2>4. ChangeUpgrades /\ n \in NamesIn(db', "migrations")
      BY <1>1, <1>3, <2>3, InsertUpgrades
    <2>5. StartInv(db', next)
      BY <1>1, <2>4, AfterRecorded DEF ChangeUpgrades
    <2> QED BY <1>1, <1>3, <2>4, <2>5, StepUpgrades
  <1>4. CASE Recorded(n) /\ Refuse(p, next)
    <2>1. StartInv(db, next)
      BY <1>1, <1>2, <1>4, AfterRecorded DEF Recorded, Names
    <2> QED BY <1>1, <1>4, <2>1, RefuseUpgrades
  <1> QED BY <1>3, <1>4 DEF InsertMigrationToDb

LEMMA InitializeAccountManagerUpgrades ==
  ASSUME TypeInv, UpgradeNow, NEW p \in Proc, InitializeAccountManager(p)
  PROVE  UpgradeNow'
  <1>1. /\ at[p].op = "account" /\ "accounts" \in DOMAIN db \cap TablesOfNames
        /\ UNCHANGED <<fileIsThere, first, build, before, misled>>
    BY TablesThere, KindsOfTables DEF InitializeAccountManager
  <1>2. \A name : StartInv(db, Ready(name)) <=> name \in NamesIn(db, "accounts")
    <2>1. StartInv(db, at[p])
      BY DEF UpgradeNow
    <2> SUFFICES ASSUME NEW name
                 PROVE  StartInv(db, Ready(name)) <=> name \in NamesIn(db, "accounts")
      OBVIOUS
    <2>2. Ready(name).op = "ready" /\ Ready(name).account = name
      BY DEF Ready
    <2> QED BY <1>1, <2>1, <2>2
            DEF StartInv, MigrationsDone, Combining, Owning, Done, Beyond
  <1>3. CASE UNCHANGED db /\ Goto(p, Off)
    BY <1>1, <1>3, OffUpgrades
  <1>4. ASSUME NEW name, Goto(p, Ready(name)),
               \/ db' = db /\ name \in NamesIn(db, "accounts")
               \/ db' = InsertedName("accounts", name)
        PROVE  UpgradeNow'
    <2>1. CASE db' = db /\ name \in NamesIn(db, "accounts")
      BY <1>1, <1>2, <1>4, <2>1, SameDatabase, StepUpgrades
    <2>2. CASE db' = InsertedName("accounts", name)
      <3>1. ChangeUpgrades /\ name \in NamesIn(db', "accounts")
        BY <1>1, <2>2, InsertUpgrades
      <3>2. StartInv(db', at[p])
        BY <3>1 DEF ChangeUpgrades
      <3>3. Ready(name).op = "ready" /\ Ready(name).account = name
        BY DEF Ready
      <3>4. StartInv(db', Ready(name))
        BY <1>1, <3>1, <3>2, <3>3
           DEF StartInv, MigrationsDone, Combining, Owning, Done, Beyond
      <3> QED BY <1>1, <1>4, <3>1, <3>4, StepUpgrades
    <2> QED BY <1>4, <2>1, <2>2
  <1>5. \/ UNCHANGED db /\ Goto(p, Off)
        \/ \E name : /\ Goto(p, Ready(name))
                     /\ \/ db' = db /\ name \in NamesIn(db, "accounts")
                        \/ db' = InsertedName("accounts", name)
    BY DEF InitializeAccountManager, AccountCreated, Names
  <1> QED BY <1>3, <1>4, <1>5

\* The databases that the theorems below are about: those that the first
\* migration has been through and the second one has begun with, and all later
\* ones.
UpgradableFiles == \A d \in OldDatabases : Upgradable(d)

LEMMA InitUpgrade ==
  ASSUME UpgradableFiles, Init
  PROVE  UpgradeInv
  <1>1. Upgradable(db) /\ before = db
    BY DEF UpgradableFiles, Init
  <1>2. HistoryKept(before, db)
    BY <1>1 DEF HistoryKept
  <1>3. \A p \in Proc : StartInv(db, at[p])
    BY EarlyStart DEF Init, Off
  <1>4. NoneMisled
    <2>1. ASSUME DOMAIN before = {} \/ DOMAIN Migrations \subseteq NamesIn(before, "migrations")
          PROVE  ~Old(db)
      <3>1. CASE DOMAIN db = {}
        BY <3>1 DEF Old, LegacyIn, AccountTyped
      <3>2. CASE DOMAIN Migrations \subseteq NamesIn(db, "migrations")
        <4>1. 2 \in NamesIn(db, "migrations") /\ 4 \in NamesIn(db, "migrations")
          BY <3>2, MigrationLengths
        <4> QED BY <1>1, <4>1
                DEF Old, LegacyIn, AccountTyped, Upgradable, LegacyUpgradable,
                    ExpensesUpgradable
      <3> QED BY <1>1, <2>1, <3>1, <3>2
    <2>2. ASSUME Old(db) PROVE fileIsThere /\ \A p \in Proc : ~first[p]
      <3>1. DOMAIN db # {}
        BY <2>2 DEF Old, LegacyIn, AccountTyped
      <3> QED BY <3>1 DEF Init
    <2> QED BY <2>1, <2>2 DEF NoneMisled
  <1> QED BY <1>1, <1>2, <1>3, <1>4 DEF UpgradeInv, UpgradeNow

\* What a release build has passed over stays so.
LEMMA PassedOverStays ==
  ASSUME TypeInv, [Next]_vars, passedOver' = 0
  PROVE  passedOver = 0
  <1>1. ASSUME NEW p \in Proc, ExecQuery(p) PROVE passedOver = 0
    BY <1>1, ExecQueryDoes
  <1>2. (\E p \in Proc : ExecQuery(p)) \/ passedOver' = passedOver
    BY DEF Next, StartStep, Open, CreateMigrationTable, Register, RunMigration,
           InsertMigrationToDb, InitializeAccountManager, Quit, Kill, vars
  <1> QED BY <1>1, <1>2

\* Trust once lost is lost.
LEMMA UndisturbedWasBefore ==
  ASSUME TypeInv, [Next]_vars, Undisturbed'
  PROVE  Undisturbed
  <1>1. before' = before /\ (misled' = misled \/ misled' = TRUE)
    BY DEF Next, StartStep, Open, CreateMigrationTable, Register, RunMigration,
           ExecQuery, InsertMigrationToDb, InitializeAccountManager, Quit, Kill, vars
  <1>2. MayTrust
    BY <1>1 DEF Undisturbed, MayTrust, TypeInv, ProcessType
  <1> QED BY <1>2, PassedOverStays DEF Undisturbed

LEMMA NextUpgrade ==
  ASSUME UpgradableFiles, TypeInv, UpgradeInv, [Next]_vars
  PROVE  UpgradeInv'
  <1> SUFFICES ASSUME Undisturbed' PROVE UpgradeNow'
    BY DEF UpgradeInv
  <1>0. UpgradeNow /\ MayTrust' /\ passedOver' = 0
    BY UndisturbedWasBefore DEF UpgradeInv, Undisturbed
  <1>1. ASSUME NEW p \in Proc, Open(p) PROVE UpgradeNow'
    BY <1>0, <1>1, OpenUpgrades
  <1>2. ASSUME NEW p \in Proc, CreateMigrationTable(p) PROVE UpgradeNow'
    BY <1>0, <1>2, CreateMigrationTableUpgrades
  <1>3. ASSUME NEW p \in Proc, Register(p) PROVE UpgradeNow'
    BY <1>0, <1>3, RegisterUpgrades
  <1>4. ASSUME NEW p \in Proc, RunMigration(p) PROVE UpgradeNow'
    BY <1>0, <1>4, RunMigrationUpgrades
  <1>5. ASSUME NEW p \in Proc, ExecQuery(p) PROVE UpgradeNow'
    BY <1>0, <1>5, ExecQueryUpgrades
  <1>6. ASSUME NEW p \in Proc, InsertMigrationToDb(p) PROVE UpgradeNow'
    BY <1>0, <1>6, InsertMigrationToDbUpgrades
  <1>7. ASSUME NEW p \in Proc, InitializeAccountManager(p) PROVE UpgradeNow'
    BY <1>0, <1>7, InitializeAccountManagerUpgrades
  <1>8. ASSUME NEW p \in Proc, Quit(p) \/ Kill(p) PROVE UpgradeNow'
    <2>1. /\ Goto(p, Off) /\ db' = db
          /\ UNCHANGED <<fileIsThere, first, build, before, misled>>
      BY <1>8 DEF Quit, Kill
    <2> QED BY <1>0, <2>1, OffUpgrades
  <1>9. CASE UNCHANGED vars
    <2>1. /\ db' = db /\ fileIsThere' = fileIsThere /\ at' = at
          /\ first' = first /\ before' = before
      BY <1>9 DEF vars
    <2> QED BY <1>0, <2>1 DEF UpgradeNow, NoneMisled
  <1> QED BY <1>1, <1>2, <1>3, <1>4, <1>5, <1>6, <1>7, <1>8, <1>9
          DEF Next, StartStep

LEMMA AlwaysUpgrades ==
  ASSUME UpgradableFiles
  PROVE  Spec => [](TypeInv /\ UpgradeInv)
  <1>1. Init => TypeInv /\ UpgradeInv
    BY InitType, InitUpgrade
  <1>2. TypeInv /\ UpgradeInv /\ [Next]_vars => (TypeInv /\ UpgradeInv)'
    BY NextType, NextUpgrade
  <1> QED BY <1>1, <1>2, PTL DEF Spec

\* Wherever starts are ended and repeated, and however many there are, the file
\* stays one that the next start can upgrade, unless a release build has passed
\* over a statement that SQLite refused although it could be executed, or a
\* start was misled about an older file.
THEOREM FileStaysUpgradable ==
  ASSUME UpgradableFiles
  PROVE  Spec => []StaysUpgradable
  <1>1. UpgradeInv => StaysUpgradable
    BY DEF UpgradeInv, UpgradeNow, StaysUpgradable
  <1> QED BY <1>1, AlwaysUpgrades, PTL

\* No start, ended or not, loses an expense that was in the file, unless a
\* release build has passed over a statement that could be executed, or a start
\* was misled: then, and only then, a copy may be missing when its table is
\* dropped.
THEOREM UpgradeLosesNothing ==
  ASSUME UpgradableFiles
  PROVE  Spec => []NoExpenseLost
  <1>1. UpgradeInv => NoExpenseLost
    BY DEF UpgradeInv, UpgradeNow, HistoryKept, NoExpenseLost
  <1> QED BY <1>1, AlwaysUpgrades, PTL

\* Every expense keeps its row and its account, also while the account's name
\* is replaced by its id, statement by statement, unless a release build has
\* passed over a statement that could be executed, or a start was misled.
THEOREM UpgradeKeepsAccounts ==
  ASSUME UpgradableFiles
  PROVE  Spec => []AccountsKept
  <1>1. UpgradeInv => AccountsKept
    BY DEF UpgradeInv, UpgradeNow, HistoryKept, AccountsKept, KeepsAccounts
  <1> QED BY <1>1, AlwaysUpgrades, PTL

\* A start that comes to the prompt leaves the database in the form that the
\* commands take for granted.
THEOREM PromptFindsItsTables ==
  ASSUME UpgradableFiles
  PROVE  Spec => []ReadyForSessions
  <1>1. TypeInv /\ UpgradeInv => ReadyForSessions
    <2> SUFFICES ASSUME TypeInv, UpgradeNow, NEW p \in Proc, at[p].op = "ready"
                 PROVE  /\ DOMAIN Migrations \subseteq Names("migrations")
                        /\ DOMAIN JsonColumns \subseteq DOMAIN db
                        /\ DOMAIN db \cap LegacyTable = {}
                        /\ db["expenses"].cols = JsonColumns["expenses"]
                        /\ at[p].account \in Names("accounts")
                        /\ \A i \in DOMAIN db["expenses"].rows :
                             LET row == db["expenses"].rows[i] IN
                             /\ row.category_id \in DOMAIN db["categories"].rows
                             /\ row.account_id \in DOMAIN db["accounts"].rows
                             /\ row.tags \in {NoTags} \cup Names("tags")
      BY DEF UpgradeInv, ReadyForSessions
    <2>1. StartInv(db, at[p])
      BY DEF UpgradeNow
    <2>2. \A n \in 1 .. 4 : Beyond(at[p], n) /\ Done(at[p], n)
      BY DEF Beyond, Done
    <2>3. DOMAIN Migrations \subseteq Names("migrations")
      BY <2>1, <2>2, MigrationLengths DEF StartInv, MigrationsDone, Names
    <2>4. DOMAIN JsonColumns \subseteq DOMAIN db
      BY TablesThere
    <2>5. DOMAIN db \cap LegacyTable = {} /\ ~AccountTyped(db)
      BY <2>1, <2>2 DEF StartInv, MigrationsDone, LegacyIn
    <2>6. "expenses" \in DOMAIN db /\ "account" \notin db["expenses"].cols
      BY <2>4, <2>5, KindsOfTables DEF AccountTyped
    <2>7. /\ {"name", "tags", "category_id"} \subseteq db["expenses"].cols
          /\ db["expenses"].cols \subseteq JsonColumns["expenses"] \cup {"account"}
          /\ "account_id" \in db["expenses"].cols
          /\ \A i \in DOMAIN db["expenses"].rows :
               /\ RowRefers(db, db["expenses"].rows[i])
               /\ db["expenses"].rows[i].account_id \in RowIdsIn(db, "accounts")
      BY <2>6 DEF UpgradeNow, Upgradable, ExpensesUpgradable
    <2>8. db["expenses"].cols = JsonColumns["expenses"]
      BY <2>6, <2>7, KindsOfTables
    <2>9. at[p].account \in Names("accounts")
      BY <2>1 DEF StartInv, Names
    <2>10. \A i \in DOMAIN db["expenses"].rows :
             LET row == db["expenses"].rows[i] IN
             /\ row.category_id \in DOMAIN db["categories"].rows
             /\ row.account_id \in DOMAIN db["accounts"].rows
             /\ row.tags \in {NoTags} \cup Names("tags")
      BY <2>7 DEF RowRefers, RowIdsIn, Names
    <2> QED BY <2>3, <2>4, <2>5, <2>8, <2>9, <2>10
  <1> QED BY <1>1, AlwaysUpgrades, PTL
=============================================================================
