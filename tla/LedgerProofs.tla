---------------------------- MODULE LedgerProofs ----------------------------
(***************************************************************************)
(* What follows from the promises of Ledger.                               *)
(***************************************************************************)
EXTENDS Ledger, TablesProofs

\* The names are different, and the expenses are rows that refer to what is
\* there.
LedgerInv ==
  /\ IsTable(categories, CategoryName)
  /\ IsTable(accounts, AccountName) /\ NamesDiffer(accounts)
  /\ IsTable(tags, TagName) /\ NamesDiffer(tags)
  /\ IsTable(expenses, GoodRow)

\* What the constants of Ledger are.
LedgerConstants ==
  /\ \A t \in CategoryTables : IsTable(t, CategoryName)
  /\ DefaultAccount \in AccountName

LEMMA GoodRowFields ==
  ASSUME NEW row \in GoodRow
  PROVE  /\ row = [name |-> row.name, category_id |-> row.category_id,
                   price |-> row.price, tags |-> row.tags,
                   account_id |-> row.account_id]
         /\ row.name \in Text /\ row.category_id \in DOMAIN categories
         /\ row.price \in Price
         /\ row.tags \subseteq {tags[i] : i \in DOMAIN tags}
         /\ row.account_id \in DOMAIN accounts
  BY DEF GoodRow

\* A row stays good when a name is added to the accounts or to the tags.
LEMMA GoodRowKept ==
  ASSUME UNCHANGED categories, DOMAIN accounts \subseteq DOMAIN accounts',
         {tags[i] : i \in DOMAIN tags} \subseteq
           {tags'[i] : i \in DOMAIN tags'}
  PROVE  GoodRow \subseteq GoodRow'
  <1>1. \A S : S \subseteq {tags[i] : i \in DOMAIN tags} =>
               S \subseteq {tags'[i] : i \in DOMAIN tags'}
    OBVIOUS
  <1> QED BY <1>1 DEF GoodRow

LEMMA TableKept ==
  ASSUME NEW t, NEW R, NEW S, IsTable(t, R), R \subseteq S
  PROVE  IsTable(t, S)
  BY DEF IsTable

\* A name that is added leaves the others where they are.
LEMMA EnterNames ==
  ASSUME NEW t, NEW next, NEW Names, IsTable(t, Names), NamesDiffer(t),
         Enter(t, next, Names)
  PROVE  /\ IsTable(next, Names) /\ NamesDiffer(next)
         /\ DOMAIN t \subseteq DOMAIN next
         /\ {t[i] : i \in DOMAIN t} \subseteq {next[i] : i \in DOMAIN next}
  <1>1. PICK n \in Names, id \in NextRowId(t) :
          ~HasName(t, n) /\ next = WithRow(t, id, n)
    BY DEF Enter
  <1>2. id \in RowId /\ id \notin DOMAIN t
    BY NextRowIdFresh
  <1>3. /\ IsTable(next, Names)
        /\ DOMAIN next = DOMAIN t \cup {id}
        /\ \A i \in DOMAIN t \ {id} : next[i] = t[i]
    <2>1. /\ IsTable(WithRow(t, id, n), Names)
          /\ DOMAIN WithRow(t, id, n) = DOMAIN t \cup {id}
          /\ \A i \in DOMAIN t \ {id} : WithRow(t, id, n)[i] = t[i]
      BY <1>2, WithRowType
    <2> QED BY <1>1, <2>1
  <1>4. NamesDiffer(next)
    BY <1>1, NamesDifferWithRow
  <1>5. \A i \in DOMAIN t : i \in DOMAIN next /\ next[i] = t[i]
    BY <1>2, <1>3
  <1> QED BY <1>3, <1>4, <1>5

LEMMA LedgerInit == LedgerConstants /\ Init => LedgerInv
  <1> SUFFICES ASSUME LedgerConstants, Init PROVE LedgerInv
    OBVIOUS
  <1>1. IsTable(accounts, AccountName) /\ NamesDiffer(accounts)
    BY DEF LedgerConstants, Init, IsTable, NamesDiffer, RowId
  <1>2. IsTable(tags, TagName) /\ NamesDiffer(tags)
    BY EmptyTableType DEF Init, NamesDiffer, EmptyTable
  <1>3. IsTable(expenses, GoodRow)
    BY EmptyTableType DEF Init
  <1> QED BY <1>1, <1>2, <1>3 DEF LedgerInv, LedgerConstants, Init

LEMMA LedgerNext ==
  ASSUME LedgerInv, [Next]_ledger
  PROVE  LedgerInv'
  <1> USE DEF LedgerInv
  <1>1. CASE UNCHANGED ledger
    BY <1>1 DEF ledger, GoodRow
  <1>2. CASE OpenAccount
    <2>1. /\ IsTable(accounts', AccountName) /\ NamesDiffer(accounts')
          /\ DOMAIN accounts \subseteq DOMAIN accounts'
      BY <1>2, EnterNames DEF OpenAccount
    <2>2. GoodRow \subseteq GoodRow'
      BY <1>2, <2>1, GoodRowKept DEF OpenAccount
    <2> QED BY <1>2, <2>1, <2>2, TableKept DEF OpenAccount
  <1>3. CASE CoinTag
    <2>1. /\ IsTable(tags', TagName) /\ NamesDiffer(tags')
          /\ {tags[i] : i \in DOMAIN tags} \subseteq
               {tags'[i] : i \in DOMAIN tags'}
      BY <1>3, EnterNames DEF CoinTag
    <2>2. GoodRow \subseteq GoodRow'
      BY <1>3, <2>1, GoodRowKept DEF CoinTag
    <2> QED BY <1>3, <2>1, <2>2, TableKept DEF CoinTag
  <1>4. CASE UNCHANGED <<categories, accounts, tags>> /\ IsTable(expenses', GoodRow)
    <2>1. GoodRow' = GoodRow
      BY <1>4 DEF GoodRow
    <2> QED BY <1>4, <2>1
  <1>5. CASE Record
    <2>1. PICK row \in GoodRow, id \in NextRowId(expenses) :
            expenses' = WithRow(expenses, id, row)
      BY <1>5 DEF Record
    <2>2. id \in RowId
      BY NextRowIdFresh
    <2>3. IsTable(expenses', GoodRow)
      BY <2>1, <2>2, WithRowType
    <2> QED BY <1>4, <1>5, <2>3 DEF Record
  <1>6. CASE Correct
    <2>1. PICK id \in DOMAIN expenses, row \in GoodRow :
            expenses' = WithRow(expenses, id, row)
      BY <1>6 DEF Correct
    <2>2. id \in RowId
      BY DEF IsTable
    <2>3. IsTable(expenses', GoodRow)
      BY <2>1, <2>2, WithRowType
    <2> QED BY <1>4, <1>6, <2>3 DEF Correct
  <1>7. CASE Renumber
    <2>1. PICK id \in DOMAIN expenses,
               new \in (DOMAIN expenses' \ DOMAIN expenses) \cap RowId :
            expenses' = WithRow(WithoutRows(expenses, {id}), new, expenses[id])
      BY <1>7 DEF Renumber
    <2>2. IsTable(WithoutRows(expenses, {id}), GoodRow)
      BY WithoutRowsType
    <2>3. expenses[id] \in GoodRow
      BY DEF IsTable
    <2>4. IsTable(WithRow(WithoutRows(expenses, {id}), new, expenses[id]),
                  GoodRow)
      BY <2>2, <2>3, WithRowType
    <2>5. IsTable(expenses', GoodRow)
      BY <2>1, <2>4
    <2> QED BY <1>4, <1>7, <2>5 DEF Renumber
  <1>8. CASE TakeOut
    <2>1. PICK ids : expenses' = WithoutRows(expenses, ids)
      BY <1>8 DEF TakeOut
    <2>2. IsTable(WithoutRows(expenses, ids), GoodRow)
      BY WithoutRowsType
    <2> QED BY <1>4, <1>8, <2>1, <2>2 DEF TakeOut
  <1> QED BY <1>1, <1>2, <1>3, <1>5, <1>6, <1>7, <1>8 DEF Next
\* Nothing of the names is lost in a step.
LEMMA LedgerKeepsNames ==
  ASSUME LedgerInv, [Next]_ledger
  PROVE  /\ UNCHANGED categories
         /\ {tags[i] : i \in DOMAIN tags} \subseteq
              {tags'[i] : i \in DOMAIN tags'}
  <1>1. CASE CoinTag
    BY <1>1, EnterNames DEF LedgerInv, CoinTag
  <1>2. CASE UNCHANGED <<categories, tags>>
    BY <1>2
  <1> QED BY <1>1, <1>2
          DEF Next, OpenAccount, Record, Correct, Renumber, TakeOut, ledger
-----------------------------------------------------------------------------
\* Whoever keeps to Ledger keeps the names different and every expense on a
\* category, an account and tags that are there, with a readable price.
THEOREM LedgerSound == LedgerConstants /\ LedgerSpec => []LedgerInv
  <1>1. LedgerInv /\ [Next]_ledger => LedgerInv'
    BY LedgerNext
  <1> QED BY <1>1, LedgerInit, PTL DEF LedgerSpec
=============================================================================
