------------------------------- MODULE Ledger -------------------------------
(***************************************************************************)
(* What the expense database promises its users, whatever sessions there   *)
(* are and wherever they are stopped: one entry of the tables is made,     *)
(* corrected, renumbered or taken out at a time, a correction concerns one *)
(* column, an expense stays with the account it was recorded for, and what *)
(* an expense refers to is in the tables.                                  *)
(***************************************************************************)
EXTENDS Tables

CONSTANTS AccountName, CategoryName, TagName, Text, Price,
          CategoryTables, DefaultAccount

VARIABLES categories, accounts, tags, expenses

ledger == <<categories, accounts, tags, expenses>>

\* The rows that refer to what is there, with a price that can be read.
GoodRow ==
  [name : Text, category_id : DOMAIN categories, price : Price,
   tags : SUBSET {tags[i] : i \in DOMAIN tags}, account_id : DOMAIN accounts]

OtherColumn == {"name", "category_id", "price", "tags"}

Init ==
  /\ categories \in CategoryTables
  /\ accounts = [i \in {1} |-> DefaultAccount]
  /\ tags = EmptyTable
  /\ expenses = EmptyTable

\* A table of names gets a name that it did not hold.
Enter(t, next, Names) ==
  \E n \in Names, id \in NextRowId(t) :
    ~HasName(t, n) /\ next = WithRow(t, id, n)

OpenAccount ==
  /\ Enter(accounts, accounts', AccountName)
  /\ UNCHANGED <<categories, tags, expenses>>

CoinTag ==
  /\ Enter(tags, tags', TagName)
  /\ UNCHANGED <<categories, accounts, expenses>>

Record ==
  /\ \E row \in GoodRow, id \in NextRowId(expenses) :
       expenses' = WithRow(expenses, id, row)
  /\ UNCHANGED <<categories, accounts, tags>>

\* c is the one column that a correction may change.
Correct ==
  /\ \E id \in DOMAIN expenses, row \in GoodRow, c \in OtherColumn :
       /\ \A d \in OtherColumn \ {c} : row[d] = expenses[id][d]
       /\ row.account_id = expenses[id].account_id
       /\ expenses' = WithRow(expenses, id, row)
  /\ UNCHANGED <<categories, accounts, tags>>

Renumber ==
  /\ \E id \in DOMAIN expenses,
        new \in (DOMAIN expenses' \ DOMAIN expenses) \cap RowId :
       expenses' = WithRow(WithoutRows(expenses, {id}), new, expenses[id])
  /\ UNCHANGED <<categories, accounts, tags>>

TakeOut ==
  /\ \E ids \in SUBSET DOMAIN expenses : expenses' = WithoutRows(expenses, ids)
  /\ UNCHANGED <<categories, accounts, tags>>

Next == TakeOut \/ OpenAccount \/ CoinTag \/ Record \/ Correct \/ Renumber

LedgerSpec == Init /\ [][Next]_ledger
=============================================================================
