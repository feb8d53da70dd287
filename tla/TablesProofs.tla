---------------------------- MODULE TablesProofs ----------------------------
(***************************************************************************)
(* What the operators of Tables return and preserve.                       *)
(***************************************************************************)
EXTENDS Tables, Sequences, FiniteSets, WellFoundedInduction, TLAPS

\* The empty table, and a table of one row, are tables.
LEMMA EmptyTableType ==
  ASSUME NEW Rows
  PROVE  IsTable(EmptyTable, Rows)
  BY DEF IsTable, EmptyTable, RowId

\* An INSERT gives its row an id that no row has.
LEMMA NextRowIdFresh ==
  ASSUME NEW t, NEW Rows, IsTable(t, Rows), NEW id \in NextRowId(t)
  PROVE  id \in RowId /\ id \notin DOMAIN t
  <1>1. id \in RowId
    BY DEF IsTable, NextRowId, RowId
  <1>2. id \notin DOMAIN t
    <2>1. \A i \in DOMAIN t : i < id
      BY DEF NextRowId
    <2>2. ~(id < id)
      BY <1>1 DEF RowId
    <2> QED BY <2>1, <2>2
  <1> QED BY <1>1, <1>2

\* Insert and Update of a row keep the table a table.
LEMMA WithRowType ==
  ASSUME NEW t, NEW Rows, IsTable(t, Rows), NEW id \in RowId, NEW row \in Rows
  PROVE  /\ IsTable(WithRow(t, id, row), Rows)
         /\ DOMAIN WithRow(t, id, row) = DOMAIN t \cup {id}
         /\ WithRow(t, id, row)[id] = row
         /\ \A i \in DOMAIN t \ {id} : WithRow(t, id, row)[i] = t[i]
  BY DEF IsTable, WithRow

\* So does Delete, which leaves the other rows as they are.
LEMMA WithoutRowsType ==
  ASSUME NEW t, NEW Rows, IsTable(t, Rows), NEW ids
  PROVE  /\ IsTable(WithoutRows(t, ids), Rows)
         /\ DOMAIN WithoutRows(t, ids) = DOMAIN t \ ids
         /\ \A i \in DOMAIN t \ ids : WithoutRows(t, ids)[i] = t[i]
  BY DEF IsTable, WithoutRows

\* The rows that Select returns are rows of the table.
LEMMA RowsByIdType ==
  ASSUME NEW t, NEW Rows, IsTable(t, Rows), NEW ids
  PROVE  IsTable(RowsById(t, ids), Rows)
  BY DEF IsTable, RowsById

\* A name that is there has a row id.
LEMMA IdOfType ==
  ASSUME NEW t, NEW n, HasName(t, n)
  PROVE  IdOf(t, n) \in DOMAIN t
  BY DEF HasName, IdOf

\* An INSERT takes no name away.
LEMMA HasNameWithRow ==
  ASSUME NEW t, NEW id, id \notin DOMAIN t, NEW row, NEW n, HasName(t, n)
  PROVE  HasName(WithRow(t, id, row), n)
  <1>1. PICK i \in DOMAIN t : t[i] = n
    BY DEF HasName
  <1>2. i \in DOMAIN WithRow(t, id, row) /\ WithRow(t, id, row)[i] = n
    BY <1>1 DEF WithRow
  <1> QED BY <1>2 DEF HasName

\* The natural numbers in their order, which is well-founded: what stands for
\* induction below.
NatOrder == OpToRel(<, Nat)

LEMMA NatOrderPairs == \A x, y \in Nat : <<x, y>> \in NatOrder <=> x < y
  BY DEF NatOrder, OpToRel

LEMMA NatOrderWellFounded == IsWellFoundedOn(NatOrder, Nat)
  BY NatLessThanWellFounded DEF NatOrder

\* Of natural numbers there is a least one.
LEMMA LeastNat ==
  ASSUME NEW S, S \subseteq Nat, S # {}
  PROVE  \E m \in S : \A k \in S : m <= k
  <1>1. PICK m \in S : \A k \in S : ~(<<k, m>> \in NatOrder)
    BY NatOrderWellFounded, WFMin
  <1>2. \A k \in S : ~(k < m)
    BY <1>1, NatOrderPairs
  <1>3. \A k \in S : m <= k
    <2>1. \A k \in S : k \in Nat /\ m \in Nat
      OBVIOUS
    <2> QED BY <1>2, <2>1
  <1> QED BY <1>3

\* There is a largest id, or none.
Bounded(ids) == \E m \in Nat : \A i \in ids : i <= m

\* m bounds the first n values of Q.
BoundsTo(Q, n, m) == \A j \in 1 .. n : Q[j] <= m

\* The bound of one value more.
LEMMA NextBound ==
  ASSUME NEW Q, NEW n \in Nat \ {0}, NEW m \in Nat,
         \A j \in 1 .. n : Q[j] \in Nat, BoundsTo(Q, n - 1, m)
  PROVE  \E b \in Nat : BoundsTo(Q, n, b)
  <1>1. PICK x : x = Q[n]
    OBVIOUS
  <1>2. x \in Nat
    BY <1>1
  <1>3. m + x \in Nat
    BY <1>2
  <1>4. ASSUME NEW j \in 1 .. n
        PROVE  Q[j] <= m + x
    <2>1. CASE j = n
      BY <1>1, <1>2, <2>1
    <2>2. CASE j # n
      <3>1. j \in 1 .. (n - 1)
        BY <2>2
      <3>2. Q[j] <= m /\ Q[j] \in Nat
        BY <3>1 DEF BoundsTo
      <3> QED BY <1>2, <3>2
    <2> QED BY <2>1, <2>2
  <1> QED BY <1>3, <1>4 DEF BoundsTo

\* The values of a finite sequence are bounded: were they not, there would be a
\* least n up to which they are not.
LEMMA SequenceBounded ==
  ASSUME NEW Q, NEW N \in Nat, \A j \in 1 .. N : Q[j] \in Nat
  PROVE  \E m \in Nat : BoundsTo(Q, N, m)
  <1> DEFINE S == {n \in 0 .. N : \A m \in Nat : ~BoundsTo(Q, n, m)}
  <1>1. CASE S = {}
    BY <1>1
  <1>2. CASE S # {}
    <2>1. S \subseteq Nat
      OBVIOUS
    <2>2. PICK n \in S : \A k \in S : n <= k
      BY <1>2, <2>1, LeastNat
    <2>3. n \in 0 .. N /\ \A m \in Nat : ~BoundsTo(Q, n, m)
      OBVIOUS
    <2>4. n # 0
      <3>1. BoundsTo(Q, 0, 0)
        BY DEF BoundsTo
      <3> QED BY <2>3, <3>1
    <2>5. n - 1 \in 0 .. N /\ ~(n <= n - 1)
      BY <2>3, <2>4
    <2>6. PICK m \in Nat : BoundsTo(Q, n - 1, m)
      BY <2>2, <2>5
    <2>7. n \in Nat \ {0} /\ \A j \in 1 .. n : Q[j] \in Nat
      BY <2>3, <2>4
    <2> QED BY <2>3, <2>6, <2>7, NextBound
  <1> QED BY <1>1, <1>2

\* Finitely many ids are bounded.
LEMMA FiniteBounded ==
  ASSUME NEW ids, ids \subseteq Nat, IsFiniteSet(ids)
  PROVE  Bounded(ids)
  <1>1. PICK Q \in Seq(ids) : \A i \in ids : \E n \in 1 .. Len(Q) : Q[n] = i
    BY DEF IsFiniteSet
  <1>2. Len(Q) \in Nat /\ \A n \in 1 .. Len(Q) : Q[n] \in ids
    OBVIOUS
  <1>3. PICK m \in Nat : BoundsTo(Q, Len(Q), m)
    BY <1>2, SequenceBounded
  <1> QED BY <1>1, <1>3 DEF Bounded, BoundsTo

\* There is an id for the next row.
LEMMA NextRowIdExists ==
  ASSUME NEW t, DOMAIN t \subseteq RowId, Bounded(DOMAIN t)
  PROVE  \E id \in NextRowId(t) : TRUE
  <1> DEFINE S == {m \in Nat : \A i \in DOMAIN t : i <= m}
  <1>1. S # {} /\ S \subseteq Nat
    BY DEF Bounded
  <1>2. PICK m \in S : \A k \in S : m <= k
    BY <1>1, LeastNat
  <1>3. CASE m = 0
    <2>1. \A i \in DOMAIN t : i <= 0 /\ i \in Nat /\ i # 0
      BY <1>2, <1>3 DEF RowId
    <2>2. \A i \in DOMAIN t : FALSE
      BY <2>1
    <2> QED BY <2>2 DEF NextRowId
  <1>4. CASE m # 0
    <2>1. m - 1 \in Nat /\ m - 1 \notin S
      BY <1>2, <1>4
    <2>2. PICK i \in DOMAIN t : ~(i <= m - 1)
      BY <2>1
    <2>3. i = m
      BY <1>2, <2>2, <2>1 DEF RowId
    <2>4. \A k \in DOMAIN t : k < m + 1
      BY <1>2 DEF RowId
    <2> QED BY <2>3, <2>4 DEF NextRowId
  <1> QED BY <1>3, <1>4

\* Inserting a name that is not there keeps the names different.
LEMMA NamesDifferWithRow ==
  ASSUME NEW t, NamesDiffer(t), NEW id, NEW n, ~HasName(t, n)
  PROVE  NamesDiffer(WithRow(t, id, n))
  BY DEF NamesDiffer, WithRow, HasName
=============================================================================
