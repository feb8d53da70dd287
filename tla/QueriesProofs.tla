--------------------------- MODULE QueriesProofs ---------------------------
(***************************************************************************)
(* Proofs about Queries, for any table, any requests and any number of      *)
(* writes: what is listed is what is asked for, totals and reports add up. *)
(***************************************************************************)
EXTENDS Queries, TablesProofs, SequenceTheorems, FiniteSetTheorems

(***************************************************************************)
(* Sums over finite sets.  The library defines them by recursion over the  *)
(* subsets; that the recursion has a solution, and that the order in which *)
(* it takes the elements does not matter, is proved with the least number  *)
(* of elements for which it would fail.                                    *)
(***************************************************************************)
OneOf(s) == CHOOSE x \in s : TRUE

SumAt(g, f, s) == IF s = {} THEN 0 ELSE f[OneOf(s)] + g[s \ {OneOf(s)}]

Solves(g, f, S) == g = [s \in SUBSET S |-> SumAt(g, f, s)]

SolvesUpTo(g, f, S, n) ==
  /\ g = [s \in SUBSET S |-> g[s]]
  /\ \A s \in SUBSET S : Cardinality(s) <= n => g[s] = SumAt(g, f, s)

LEMMA AnyOfSet ==
  ASSUME NEW s, s # {}
  PROVE  OneOf(s) \in s
  BY DEF OneOf

LEMMA FewerLeft ==
  ASSUME NEW S, IsFiniteSet(S), NEW x \in S
  PROVE  /\ IsFiniteSet(S \ {x})
         /\ Cardinality(S \ {x}) \in Nat
         /\ Cardinality(S) \in Nat
         /\ Cardinality(S) = Cardinality(S \ {x}) + 1
  <1>1. IsFiniteSet(S \ {x}) /\ Cardinality(S \ {x}) = Cardinality(S) - 1
    BY FS_RemoveElement
  <1>2. Cardinality(S) \in Nat /\ Cardinality(S \ {x}) \in Nat
    BY <1>1, FS_CardinalityType
  <1> QED BY <1>1, <1>2

LEMMA OneMoreSolved ==
  ASSUME NEW f, NEW S, IsFiniteSet(S), NEW n \in Nat, NEW g,
         SolvesUpTo(g, f, S, n)
  PROVE  \E h : SolvesUpTo(h, f, S, n + 1)
  <1> DEFINE h == [s \in SUBSET S |-> SumAt(g, f, s)]
  <1>1. ASSUME NEW s \in SUBSET S, Cardinality(s) <= n + 1
        PROVE  h[s] = SumAt(h, f, s)
    <2>1. CASE s = {}
      BY <2>1 DEF SumAt
    <2>2. CASE s # {}
      <3>1. OneOf(s) \in s /\ IsFiniteSet(s)
        BY <2>2, AnyOfSet, FS_Subset
      <3>2. s \ {OneOf(s)} \in SUBSET S /\ Cardinality(s \ {OneOf(s)}) <= n
        BY <1>1, <3>1, FewerLeft
      <3>3. h[s \ {OneOf(s)}] = g[s \ {OneOf(s)}]
        BY <3>2 DEF SolvesUpTo
      <3> QED BY <2>2, <3>3 DEF SumAt
    <2> QED BY <2>1, <2>2
  <1>2. SolvesUpTo(h, f, S, n + 1)
    BY <1>1 DEF SolvesUpTo
  <1> QED BY <1>2

LEMMA SolvedUpToAny ==
  ASSUME NEW f, NEW S, IsFiniteSet(S), NEW n \in Nat
  PROVE  \E g : SolvesUpTo(g, f, S, n)
  <1> DEFINE Bad == {k \in Nat : ~\E g : SolvesUpTo(g, f, S, k)}
  <1>1. 0 \notin Bad
    <2> DEFINE g == [s \in SUBSET S |-> 0]
    <2>1. ASSUME NEW s \in SUBSET S, Cardinality(s) <= 0
          PROVE  s = {}
      <3>1. IsFiniteSet(s)
        BY FS_Subset
      <3>2. Cardinality(s) = 0
        BY <2>1, <3>1, FS_CardinalityType
      <3> QED BY <3>1, <3>2, FS_EmptySet
    <2>2. SolvesUpTo(g, f, S, 0)
      BY <2>1 DEF SolvesUpTo, SumAt
    <2> QED BY <2>2
  <1>2. CASE Bad = {}
    BY <1>2
  <1>3. CASE Bad # {}
    <2>1. PICK m \in Bad : \A k \in Bad : m <= k
      BY <1>3, LeastNat
    <2>2. m \in Nat /\ m # 0
      BY <1>1
    <2>3. m - 1 \in Nat /\ ~(m <= m - 1)
      BY <2>2
    <2>4. m - 1 \notin Bad
      BY <2>1, <2>3
    <2>5. PICK g : SolvesUpTo(g, f, S, m - 1)
      BY <2>3, <2>4
    <2>6. \E h : SolvesUpTo(h, f, S, (m - 1) + 1)
      BY <2>3, <2>5, OneMoreSolved
    <2>7. (m - 1) + 1 = m
      BY <2>2
    <2>8. \E h : SolvesUpTo(h, f, S, m)
      BY <2>6, <2>7
    <2> QED BY <2>8
  <1> QED BY <1>2, <1>3

LEMMA SumSolved ==
  ASSUME NEW f, NEW S, IsFiniteSet(S)
  PROVE  \E g : Solves(g, f, S) /\ SumOver(f, S) = g[S]
  <1> DEFINE n == Cardinality(S)
  <1>1. n \in Nat
    BY FS_CardinalityType
  <1>2. PICK g : SolvesUpTo(g, f, S, n)
    BY <1>1, SolvedUpToAny
  <1>3. \A s \in SUBSET S : Cardinality(s) <= n
    BY FS_Subset
  <1>4. Solves(g, f, S)
    <2>1. \A s \in SUBSET S : g[s] = SumAt(g, f, s)
      BY <1>2, <1>3 DEF SolvesUpTo
    <2>2. g = [s \in SUBSET S |-> g[s]]
      BY <1>2 DEF SolvesUpTo
    <2> QED BY <2>1, <2>2 DEF Solves
  <1> DEFINE h == CHOOSE h : Solves(h, f, S)
  <1>5. Solves(h, f, S)
    BY <1>4
  <1>6. SumOver(f, S) = h[S]
    BY DEF SumOver, MapThenSumSet, MapThenFoldSet, Solves, SumAt, OneOf
  <1> QED BY <1>5, <1>6

\* Of some finite sets there is one that without any element is none of them.
LEMMA SmallestSet ==
  ASSUME NEW S, IsFiniteSet(S), NEW B, B \subseteq SUBSET S, B # {}
  PROVE  \E s \in B : \A x \in s : s \ {x} \notin B
  <1> DEFINE Sizes == {n \in Nat : \E s \in B : Cardinality(s) = n}
  <1>1. \A s \in B : IsFiniteSet(s) /\ Cardinality(s) \in Nat
    BY FS_Subset, FS_CardinalityType
  <1>2. Sizes # {} /\ Sizes \subseteq Nat
    BY <1>1
  <1>3. PICK m \in Sizes : \A k \in Sizes : m <= k
    BY <1>2, LeastNat
  <1>4. PICK s \in B : Cardinality(s) = m
    BY <1>3
  <1>5. ASSUME NEW x \in s, s \ {x} \in B
        PROVE  FALSE
    <2>1. /\ Cardinality(s \ {x}) \in Nat /\ Cardinality(s) \in Nat
          /\ Cardinality(s) = Cardinality(s \ {x}) + 1
      BY <1>1, FewerLeft
    <2>2. Cardinality(s \ {x}) \in Sizes
      BY <1>5, <2>1
    <2>3. m <= Cardinality(s \ {x})
      BY <1>3, <2>2
    <2> QED BY <1>4, <2>1, <2>3
  <1> QED BY <1>4, <1>5

LEMMA SolutionsAgree ==
  ASSUME NEW f, NEW S, IsFiniteSet(S), NEW T \in SUBSET S,
         NEW g, Solves(g, f, S), NEW h, Solves(h, f, T)
  PROVE  \A s \in SUBSET T : g[s] = h[s]
  <1> DEFINE B == {s \in SUBSET T : g[s] # h[s]}
  <1>1. SUFFICES ASSUME B # {} PROVE FALSE
    OBVIOUS
  <1>2. B \subseteq SUBSET S
    OBVIOUS
  <1>3. PICK s \in B : \A x \in s : s \ {x} \notin B
    <2> HIDE DEF B
    <2> QED BY <1>1, <1>2, SmallestSet
  <1>4. s \in SUBSET S /\ s \in SUBSET T
    BY <1>3
  <1>5. g[s] = SumAt(g, f, s) /\ h[s] = SumAt(h, f, s)
    BY <1>4 DEF Solves
  <1>6. CASE s = {}
    BY <1>3, <1>5, <1>6 DEF SumAt
  <1>7. CASE s # {}
    <2>1. OneOf(s) \in s
      BY <1>7, AnyOfSet
    <2>2. s \ {OneOf(s)} \notin B /\ s \ {OneOf(s)} \in SUBSET T
      BY <1>3, <1>4, <2>1
    <2>3. g[s \ {OneOf(s)}] = h[s \ {OneOf(s)}]
      BY <2>2
    <2> QED BY <1>3, <1>5, <1>7, <2>3 DEF SumAt
  <1> QED BY <1>6, <1>7

\* What the library's sum of a set is: that of the set without one of its elements, and this one.
LEMMA SumStep ==
  ASSUME NEW f, NEW S, IsFiniteSet(S)
  PROVE  /\ S = {} => SumOver(f, S) = 0
         /\ S # {} => /\ OneOf(S) \in S
                      /\ SumOver(f, S) = f[OneOf(S)] + SumOver(f, S \ {OneOf(S)})
  <1>1. PICK g : Solves(g, f, S) /\ SumOver(f, S) = g[S]
    BY SumSolved
  <1>2. g[S] = SumAt(g, f, S)
    BY <1>1 DEF Solves
  <1>3. ASSUME S # {}
        PROVE  OneOf(S) \in S /\ g[S \ {OneOf(S)}] = SumOver(f, S \ {OneOf(S)})
    <2> DEFINE T == S \ {OneOf(S)}
    <2>1. OneOf(S) \in S
      BY <1>3, AnyOfSet
    <2>2. T \in SUBSET S /\ IsFiniteSet(T)
      BY <2>1, FewerLeft
    <2>3. PICK h : Solves(h, f, T) /\ SumOver(f, T) = h[T]
      BY <2>2, SumSolved
    <2>4. g[T] = h[T]
      BY <1>1, <2>2, <2>3, SolutionsAgree
    <2> QED BY <2>1, <2>3, <2>4
  <1> QED BY <1>1, <1>2, <1>3 DEF SumAt

LEMMA SumType ==
  ASSUME NEW f, NEW S, IsFiniteSet(S), \A x \in S : f[x] \in Nat
  PROVE  SumOver(f, S) \in Nat
  <1> DEFINE B == {s \in SUBSET S : SumOver(f, s) \notin Nat}
  <1>1. SUFFICES ASSUME B # {} PROVE FALSE
    OBVIOUS
  <1>2. B \subseteq SUBSET S
    OBVIOUS
  <1>3. PICK s \in B : \A x \in s : s \ {x} \notin B
    <2> HIDE DEF B
    <2> QED BY <1>1, <1>2, SmallestSet
  <1>4. s \in SUBSET S /\ IsFiniteSet(s)
    BY <1>3, FS_Subset
  <1>5. CASE s = {}
    <2>1. SumOver(f, s) = 0
      BY <1>4, <1>5, SumStep
    <2> QED BY <1>3, <2>1
  <1>6. CASE s # {}
    <2>1. OneOf(s) \in s /\ SumOver(f, s) = f[OneOf(s)] + SumOver(f, s \ {OneOf(s)})
      BY <1>4, <1>6, SumStep
    <2>2. SumOver(f, s \ {OneOf(s)}) \in Nat /\ f[OneOf(s)] \in Nat
      BY <1>3, <1>4, <2>1
    <2>3. SumOver(f, s) \in Nat
      BY <2>1, <2>2
    <2> QED BY <1>3, <2>3
  <1> QED BY <1>5, <1>6

\* A sum is that of the set without any one of its elements, and this one.
LEMMA SumWithout ==
  ASSUME NEW f, NEW S, IsFiniteSet(S), \A x \in S : f[x] \in Nat, NEW e \in S
  PROVE  SumOver(f, S) = f[e] + SumOver(f, S \ {e})
  <1> DEFINE B == {s \in SUBSET S : \E x \in s :
                      SumOver(f, s) # f[x] + SumOver(f, s \ {x})}
  <1>1. SUFFICES ASSUME B # {} PROVE FALSE
    OBVIOUS
  <1>2. B \subseteq SUBSET S
    OBVIOUS
  <1>3. PICK s \in B : \A x \in s : s \ {x} \notin B
    <2> HIDE DEF B
    <2> QED BY <1>1, <1>2, SmallestSet
  <1>4. s \in SUBSET S /\ IsFiniteSet(s)
    BY <1>3, FS_Subset
  <1>5. PICK x \in s : SumOver(f, s) # f[x] + SumOver(f, s \ {x})
    BY <1>3
  <1>6. OneOf(s) \in s /\ SumOver(f, s) = f[OneOf(s)] + SumOver(f, s \ {OneOf(s)})
    BY <1>4, <1>5, SumStep
  <1>7. OneOf(s) # x
    BY <1>5, <1>6
  <1> DEFINE y == OneOf(s)
             rest == (s \ {x}) \ {y}
  <1>8. (s \ {y}) \ {x} = rest /\ x \in s \ {y} /\ y \in s \ {x}
    BY <1>6, <1>7
  <1>9. s \ {y} \notin B /\ s \ {x} \notin B /\ s \ {y} \in SUBSET S /\ s \ {x} \in SUBSET S
    BY <1>3, <1>4, <1>6
  <1>10. SumOver(f, s \ {y}) = f[x] + SumOver(f, rest)
    BY <1>8, <1>9
  <1>11. SumOver(f, s \ {x}) = f[y] + SumOver(f, rest)
    BY <1>8, <1>9
  <1>12. SumOver(f, rest) \in Nat /\ f[x] \in Nat /\ f[y] \in Nat
    <2>1. IsFiniteSet(rest) /\ rest \subseteq S
      BY <1>4, FS_Subset
    <2>2. SumOver(f, rest) \in Nat
      BY <2>1, SumType
    <2> QED BY <1>4, <1>6, <2>2
  <1> QED BY <1>5, <1>6, <1>10, <1>11, <1>12
\* Functions that agree on a set have the same sum.
LEMMA SumAgrees ==
  ASSUME NEW S, IsFiniteSet(S), NEW f, NEW g, \A x \in S : f[x] = g[x]
  PROVE  SumOver(f, S) = SumOver(g, S)
  <1> DEFINE B == {s \in SUBSET S : SumOver(f, s) # SumOver(g, s)}
  <1>1. SUFFICES ASSUME B # {} PROVE FALSE
    OBVIOUS
  <1>2. B \subseteq SUBSET S
    OBVIOUS
  <1>3. PICK s \in B : \A x \in s : s \ {x} \notin B
    <2> HIDE DEF B
    <2> QED BY <1>1, <1>2, SmallestSet
  <1>4. s \in SUBSET S /\ IsFiniteSet(s)
    BY <1>3, FS_Subset
  <1>5. CASE s = {}
    <2>1. SumOver(f, s) = 0 /\ SumOver(g, s) = 0
      BY <1>4, <1>5, SumStep
    <2> QED BY <1>3, <2>1
  <1>6. CASE s # {}
    <2>1. /\ OneOf(s) \in s
          /\ SumOver(f, s) = f[OneOf(s)] + SumOver(f, s \ {OneOf(s)})
          /\ SumOver(g, s) = g[OneOf(s)] + SumOver(g, s \ {OneOf(s)})
      BY <1>4, <1>6, SumStep
    <2>2. SumOver(f, s \ {OneOf(s)}) = SumOver(g, s \ {OneOf(s)})
      BY <1>3, <1>4, <2>1
    <2>3. f[OneOf(s)] = g[OneOf(s)]
      BY <1>4, <2>1
    <2>4. SumOver(f, s) = SumOver(g, s)
      BY <2>1, <2>2, <2>3
    <2> QED BY <1>3, <2>4
  <1> QED BY <1>5, <1>6

\* The sum of two sets that have nothing in common.
LEMMA SumUnion ==
  ASSUME NEW f, NEW S, IsFiniteSet(S), \A x \in S : f[x] \in Nat,
         NEW T, IsFiniteSet(T), \A x \in T : f[x] \in Nat, S \cap T = {}
  PROVE  SumOver(f, S \cup T) = SumOver(f, S) + SumOver(f, T)
  <1> DEFINE B == {s \in SUBSET S :
                     SumOver(f, s \cup T) # SumOver(f, s) + SumOver(f, T)}
  <1>1. SUFFICES ASSUME B # {} PROVE FALSE
    OBVIOUS
  <1>2. B \subseteq SUBSET S
    OBVIOUS
  <1>3. PICK s \in B : \A x \in s : s \ {x} \notin B
    <2> HIDE DEF B
    <2> QED BY <1>1, <1>2, SmallestSet
  <1>4. s \in SUBSET S /\ IsFiniteSet(s)
    BY <1>3, FS_Subset
  <1>5. SumOver(f, T) \in Nat
    BY SumType
  <1>6. CASE s = {}
    <2>1. SumOver(f, s) = 0 /\ s \cup T = T
      BY <1>4, <1>6, SumStep
    <2>2. 0 + SumOver(f, T) = SumOver(f, T)
      BY <1>5
    <2>3. SumOver(f, s \cup T) = SumOver(f, s) + SumOver(f, T)
      BY <2>1, <2>2, Zenon
    <2> QED BY <1>3, <2>3
  <1>7. CASE s # {}
    <2>1. PICK e \in s : TRUE
      BY <1>7
    <2> DEFINE r == s \ {e}
    <2>2. r \in SUBSET S /\ IsFiniteSet(r) /\ r \notin B
      BY <1>3, <1>4, FewerLeft
    <2>3. SumOver(f, r \cup T) = SumOver(f, r) + SumOver(f, T)
      BY <2>2
    <2>4. (s \cup T) \ {e} = r \cup T
      BY <1>4
    <2>5. IsFiniteSet(s \cup T) /\ (\A x \in s \cup T : f[x] \in Nat) /\ e \in s \cup T
      BY <1>4, FS_Union
    <2>6. SumOver(f, s \cup T) = f[e] + SumOver(f, r \cup T)
      BY <2>4, <2>5, SumWithout
    <2>7. SumOver(f, s) = f[e] + SumOver(f, r)
      BY <1>4, SumWithout
    <2>8. SumOver(f, r) \in Nat /\ f[e] \in Nat
      BY <1>4, <2>2, SumType
    <2>9. SumOver(f, s \cup T) = SumOver(f, s) + SumOver(f, T)
      BY <1>5, <2>3, <2>6, <2>7, <2>8
    <2> QED BY <1>3, <2>9
  <1> QED BY <1>6, <1>7
-----------------------------------------------------------------------------
(***************************************************************************)
(* Dates: the texts and the calendar agree where dates are stored with two *)
(* digits for month and day.                                               *)
(***************************************************************************)
LEMMA FunctionIsText ==
  ASSUME NEW n \in Nat, NEW S, NEW t \in [1 .. n -> S]
  PROVE  t \in Seq(S) /\ Len(t) = n
  <1>1. t \in Seq(S)
    BY SeqDef
  <1>2. DOMAIN t = 1 .. Len(t) /\ Len(t) \in Nat
    BY <1>1, LenProperties
  <1>3. DOMAIN t = 1 .. n
    OBVIOUS
  <1> QED BY <1>1, <1>2, <1>3

LEMMA TwoDigitsText ==
  ASSUME NEW t \in TwoDigits
  PROVE  /\ t \in Seq(0 .. 9) /\ Len(t) = 2
         /\ t[1] \in 0 .. 9 /\ t[2] \in 0 .. 9
         /\ Number(t) = 10 * t[1] + t[2]
         /\ Number(t) \in 0 .. 99
  <1>1. t \in Seq(0 .. 9) /\ Len(t) = 2
    BY FunctionIsText DEF TwoDigits
  <1>2. t[1] \in 0 .. 9 /\ t[2] \in 0 .. 9
    BY DEF TwoDigits
  <1>3. Number(t) = 10 * t[1] + t[2]
    BY <1>1 DEF Number
  <1>4. 10 * t[1] + t[2] \in 0 .. 99
    BY <1>2
  <1> QED BY <1>1, <1>2, <1>3, <1>4

LEMMA TypedDigitsNumber ==
  ASSUME NEW t \in TypedDigits
  PROVE  Number(t) \in 0 .. 99
  <1>1. CASE t \in TwoDigits
    BY <1>1, TwoDigitsText
  <1>2. CASE t \in [1 .. 1 -> 0 .. 9]
    <2>1. t[1] \in 0 .. 9
      BY <1>2
    <2>2. t \in Seq(0 .. 9) /\ Len(t) = 1
      BY <1>2, FunctionIsText
    <2> QED BY <2>1, <2>2 DEF Number
  <1> QED BY <1>1, <1>2 DEF TypedDigits

\* A month or day has one text of two digits.
LEMMA PaddedText ==
  ASSUME NEW t \in TypedDigits
  PROVE  /\ Padded(t) \in TwoDigits
         /\ Number(Padded(t)) = Number(t)
         /\ \A u \in TwoDigits : u = Padded(t) <=> Number(u) = Number(t)
  <1> DEFINE n == Number(t)
             a == n \div 10
             b == n % 10
  <1>1. n \in 0 .. 99
    BY TypedDigitsNumber
  <1>2. a \in 0 .. 9 /\ b \in 0 .. 9 /\ n = 10 * a + b
    BY <1>1
  <1>3. Padded(t) = <<a, b>>
    BY DEF Padded
  <1>4. Padded(t) \in TwoDigits
    BY <1>2, <1>3 DEF TwoDigits
  <1>5. Padded(t)[1] = a /\ Padded(t)[2] = b
    BY <1>3
  <1>6. Number(Padded(t)) = n
    BY <1>2, <1>4, <1>5, TwoDigitsText
  <1>7. ASSUME NEW u \in TwoDigits, Number(u) = n
        PROVE  u = Padded(t)
    <2>1. u[1] \in 0 .. 9 /\ u[2] \in 0 .. 9 /\ n = 10 * u[1] + u[2]
      BY <1>7, TwoDigitsText
    <2>2. u[1] = a /\ u[2] = b
      BY <1>2, <2>1
    <2> QED BY <1>4, <1>5, <2>2 DEF TwoDigits
  <1> QED BY <1>4, <1>6, <1>7
LEMMA StoredDateParts ==
  ASSUME NEW a \in StoredDate
  PROVE  /\ a.y \in Nat /\ a.m \in TwoDigits /\ a.d \in TwoDigits
         /\ a = [y |-> a.y, m |-> a.m, d |-> a.d]
         /\ a \in TypedDate
  BY DEF StoredDate, TypedDate, TypedDigits

LEMMA DayNumberType ==
  ASSUME NEW a \in TypedDate
  PROVE  DayNumber(a) \in Nat
  <1>1. a.y \in Nat /\ Number(a.m) \in 0 .. 99 /\ Number(a.d) \in 0 .. 99
    BY TypedDigitsNumber DEF TypedDate
  <1>2. PICK y \in Nat : y = a.y
    BY <1>1
  <1>3. PICK m \in 0 .. 99 : m = Number(a.m)
    BY <1>1
  <1>4. PICK d \in 0 .. 99 : d = Number(a.d)
    BY <1>1
  <1>5. 10000 * y + 100 * m + d \in Nat
    OBVIOUS
  <1> QED BY <1>2, <1>3, <1>4, <1>5 DEF DayNumber

\* DateTime writes a date with leading zeros, and the same day.
LEMMA AsStringDate ==
  ASSUME NEW a \in TypedDate
  PROVE  /\ AsString(a) \in StoredDate
         /\ DayNumber(AsString(a)) = DayNumber(a)
         /\ \A b \in StoredDate : b = AsString(a) <=> SameDay(b, a)
  <1>1. a.y \in Nat /\ a.m \in TypedDigits /\ a.d \in TypedDigits
    BY DEF TypedDate
  <1>2. /\ AsString(a) = [y |-> a.y, m |-> Padded(a.m), d |-> Padded(a.d)]
        /\ AsString(a) \in StoredDate
    BY <1>1, PaddedText DEF AsString, StoredDate
  <1>3. DayNumber(AsString(a)) = DayNumber(a)
    BY <1>1, <1>2, PaddedText DEF DayNumber
  <1>4. ASSUME NEW b \in StoredDate
        PROVE  b = AsString(a) <=> SameDay(b, a)
    <2>1. /\ b.y \in Nat /\ b.m \in TwoDigits /\ b.d \in TwoDigits
          /\ b = [y |-> b.y, m |-> b.m, d |-> b.d]
      BY StoredDateParts
    <2>2. /\ b.m = Padded(a.m) <=> Number(b.m) = Number(a.m)
          /\ b.d = Padded(a.d) <=> Number(b.d) = Number(a.d)
      BY <1>1, <2>1, PaddedText
    <2>3. b = AsString(a) <=> b.y = a.y /\ b.m = Padded(a.m) /\ b.d = Padded(a.d)
      BY <1>2, <2>1
    <2> QED BY <2>2, <2>3 DEF SameDay
  <1> QED BY <1>2, <1>3, <1>4

LEMMA DayNumberEqual ==
  ASSUME NEW a \in TypedDate, NEW b \in TypedDate
  PROVE  /\ SameDay(a, b) <=> DayNumber(a) = DayNumber(b)
         /\ Before(a, b) <=> DayNumber(a) < DayNumber(b)
  <1>1. /\ a.y \in Nat /\ Number(a.m) \in 0 .. 99 /\ Number(a.d) \in 0 .. 99
        /\ b.y \in Nat /\ Number(b.m) \in 0 .. 99 /\ Number(b.d) \in 0 .. 99
    BY TypedDigitsNumber DEF TypedDate
  <1>2. PICK y \in Nat, m \in 0 .. 99, d \in 0 .. 99 :
          y = a.y /\ m = Number(a.m) /\ d = Number(a.d)
    BY <1>1
  <1>3. PICK v \in Nat, n \in 0 .. 99, e \in 0 .. 99 :
          v = b.y /\ n = Number(b.m) /\ e = Number(b.d)
    BY <1>1
  <1>4. /\ DayNumber(a) = 10000 * y + 100 * m + d
        /\ DayNumber(b) = 10000 * v + 100 * n + e
    BY <1>2, <1>3 DEF DayNumber
  <1>5. SameDay(a, b) <=> y = v /\ m = n /\ d = e
    BY <1>2, <1>3 DEF SameDay
  <1>6. Before(a, b) <=>
          y < v \/ (y = v /\ m < n) \/ (y = v /\ m = n /\ d < e)
    BY <1>2, <1>3 DEF Before
  <1> DEFINE A == 10000 * y + 100 * m + d
             B == 10000 * v + 100 * n + e
  <1>7. A = B <=> y = v /\ m = n /\ d = e
    OBVIOUS
  <1>8. A < B <=> y < v \/ (y = v /\ m < n) \/ (y = v /\ m = n /\ d < e)
    OBVIOUS
  <1> QED BY <1>4, <1>5, <1>6, <1>7, <1>8

LEMMA ConcatTexts ==
  ASSUME NEW s \in Seq(Int), NEW t \in Seq(Int)
  PROVE  /\ s \o t \in Seq(Int) /\ Len(s \o t) = Len(s) + Len(t)
         /\ \A i \in 1 .. Len(s) : (s \o t)[i] = s[i]
         /\ \A i \in 1 .. Len(t) : (s \o t)[Len(s) + i] = t[i]
  <1>1. /\ s \o t \in Seq(Int) /\ Len(s \o t) = Len(s) + Len(t)
        /\ \A i \in 1 .. Len(s) + Len(t) :
             (s \o t)[i] = IF i <= Len(s) THEN s[i] ELSE t[i - Len(s)]
    BY ConcatProperties
  <1>2. PICK m \in Nat, n \in Nat : m = Len(s) /\ n = Len(t)
    BY LenProperties
  <1>3. ASSUME NEW i \in 1 .. m
        PROVE  (s \o t)[i] = s[i]
    BY <1>1, <1>2
  <1>4. ASSUME NEW i \in 1 .. n
        PROVE  (s \o t)[m + i] = t[i]
    <2>1. m + i \in 1 .. m + n /\ ~(m + i <= m) /\ (m + i) - m = i
      OBVIOUS
    <2> QED BY <1>1, <1>2, <2>1
  <1> QED BY <1>1, <1>2, <1>3, <1>4

LEMMA CharactersOf ==
  ASSUME NEW a \in StoredDate
  PROVE  /\ Characters(a) \in Seq(Int) /\ Len(Characters(a)) = 7
         /\ Characters(a)[1] = a.y /\ Characters(a)[2] = -1
         /\ Characters(a)[3] = a.m[1] /\ Characters(a)[4] = a.m[2]
         /\ Characters(a)[5] = -1
         /\ Characters(a)[6] = a.d[1] /\ Characters(a)[7] = a.d[2]
  <1>1. a.m \in TwoDigits /\ a.d \in TwoDigits /\ a.y \in Int
    BY StoredDateParts
  <1>2. PICK m : m = a.m /\ m \in Seq(Int) /\ Len(m) = 2
    <2>1. a.m \in [1 .. 2 -> Int]
      BY <1>1 DEF TwoDigits
    <2> QED BY <2>1, FunctionIsText
  <1>3. PICK d : d = a.d /\ d \in Seq(Int) /\ Len(d) = 2
    <2>1. a.d \in [1 .. 2 -> Int]
      BY <1>1 DEF TwoDigits
    <2> QED BY <2>1, FunctionIsText
  <1>4. PICK y : /\ y = <<a.y, -1>> /\ y \in Seq(Int) /\ Len(y) = 2
                 /\ y[1] = a.y /\ y[2] = -1
    <2>1. /\ <<a.y, -1>> \in Seq(Int) /\ Len(<<a.y, -1>>) = 2
          /\ <<a.y, -1>>[1] = a.y /\ <<a.y, -1>>[2] = -1
      BY <1>1
    <2> QED BY <2>1, Zenon
  <1>5. PICK dash : /\ dash = <<-1>> /\ dash \in Seq(Int) /\ Len(dash) = 1
                    /\ dash[1] = -1
    <2>1. <<-1>> \in Seq(Int) /\ Len(<<-1>>) = 1 /\ <<-1>>[1] = -1
      OBVIOUS
    <2> QED BY <2>1, Zenon
  <1>6. PICK ym : ym = y \o m
    OBVIOUS
  <1>7. /\ ym \in Seq(Int) /\ Len(ym) = 4 /\ ym[1] = y[1] /\ ym[2] = y[2]
        /\ ym[3] = m[1] /\ ym[4] = m[2]
    <2>1. /\ y \o m \in Seq(Int) /\ Len(y \o m) = 2 + 2
          /\ \A i \in 1 .. 2 : (y \o m)[i] = y[i]
          /\ \A i \in 1 .. 2 : (y \o m)[2 + i] = m[i]
      <3>1. /\ y \o m \in Seq(Int) /\ Len(y \o m) = Len(y) + Len(m)
            /\ \A i \in 1 .. Len(y) : (y \o m)[i] = y[i]
            /\ \A i \in 1 .. Len(m) : (y \o m)[Len(y) + i] = m[i]
        BY <1>2, <1>4, ConcatTexts, Zenon
      <3> QED BY <1>2, <1>4, <3>1, Zenon
    <2>2. /\ ym[1] = y[1] /\ ym[2] = y[2]
          /\ ym[2 + 1] = m[1] /\ ym[2 + 2] = m[2]
      <3>1. /\ \A i \in 1 .. 2 : ym[i] = y[i]
            /\ \A i \in 1 .. 2 : ym[2 + i] = m[i]
        BY <1>6, <2>1, Zenon
      <3> QED BY <3>1
    <2>3. ym \in Seq(Int) /\ Len(ym) = 2 + 2
      BY <1>6, <2>1, Zenon
    <2> QED BY <2>2, <2>3
  <1>8. PICK ymd : ymd = ym \o dash
    OBVIOUS
  <1>9. /\ ymd \in Seq(Int) /\ Len(ymd) = 5 /\ ymd[1] = ym[1] /\ ymd[2] = ym[2]
        /\ ymd[3] = ym[3] /\ ymd[4] = ym[4] /\ ymd[5] = dash[1]
    <2>1. /\ ym \o dash \in Seq(Int) /\ Len(ym \o dash) = 4 + 1
          /\ \A i \in 1 .. 4 : (ym \o dash)[i] = ym[i]
          /\ \A i \in 1 .. 1 : (ym \o dash)[4 + i] = dash[i]
      <3>1. /\ ym \o dash \in Seq(Int) /\ Len(ym \o dash) = Len(ym) + Len(dash)
            /\ \A i \in 1 .. Len(ym) : (ym \o dash)[i] = ym[i]
            /\ \A i \in 1 .. Len(dash) : (ym \o dash)[Len(ym) + i] = dash[i]
        BY <1>5, <1>7, ConcatTexts, Zenon
      <3> QED BY <1>5, <1>7, <3>1, Zenon
    <2>2. /\ ymd[1] = ym[1] /\ ymd[2] = ym[2] /\ ymd[3] = ym[3]
          /\ ymd[4] = ym[4] /\ ymd[4 + 1] = dash[1]
      <3>1. /\ \A i \in 1 .. 4 : ymd[i] = ym[i]
            /\ \A i \in 1 .. 1 : ymd[4 + i] = dash[i]
        BY <1>8, <2>1, Zenon
      <3> QED BY <3>1
    <2>3. ymd \in Seq(Int) /\ Len(ymd) = 4 + 1
      BY <1>8, <2>1, Zenon
    <2> QED BY <2>2, <2>3
  <1>10. PICK all : all = ymd \o d
    OBVIOUS
  <1>11. /\ all \in Seq(Int) /\ Len(all) = 7 /\ all[1] = ymd[1]
         /\ all[2] = ymd[2] /\ all[3] = ymd[3] /\ all[4] = ymd[4]
         /\ all[5] = ymd[5] /\ all[6] = d[1] /\ all[7] = d[2]
    <2>1. /\ ymd \o d \in Seq(Int) /\ Len(ymd \o d) = 5 + 2
          /\ \A i \in 1 .. 5 : (ymd \o d)[i] = ymd[i]
          /\ \A i \in 1 .. 2 : (ymd \o d)[5 + i] = d[i]
      <3>1. /\ ymd \o d \in Seq(Int) /\ Len(ymd \o d) = Len(ymd) + Len(d)
            /\ \A i \in 1 .. Len(ymd) : (ymd \o d)[i] = ymd[i]
            /\ \A i \in 1 .. Len(d) : (ymd \o d)[Len(ymd) + i] = d[i]
        BY <1>3, <1>9, ConcatTexts, Zenon
      <3> QED BY <1>3, <1>9, <3>1, Zenon
    <2>2. /\ all[1] = ymd[1] /\ all[2] = ymd[2] /\ all[3] = ymd[3]
          /\ all[4] = ymd[4] /\ all[5] = ymd[5]
          /\ all[5 + 1] = d[1] /\ all[5 + 2] = d[2]
      <3>1. /\ \A i \in 1 .. 5 : all[i] = ymd[i]
            /\ \A i \in 1 .. 2 : all[5 + i] = d[i]
        BY <1>10, <2>1, Zenon
      <3> QED BY <3>1
    <2>3. all \in Seq(Int) /\ Len(all) = 5 + 2
      BY <1>10, <2>1, Zenon
    <2> QED BY <2>2, <2>3
  <1>12. Characters(a) = all
    BY <1>2, <1>3, <1>4, <1>5, <1>6, <1>8, <1>10 DEF Characters
  <1> QED BY <1>2, <1>3, <1>4, <1>5, <1>7, <1>9, <1>11, <1>12
\* SQLite orders dates with leading zeros as the calendar does.
LEMMA TextOrder ==
  ASSUME NEW a \in StoredDate, NEW b \in StoredDate
  PROVE  TextAtMost(a, b) <=> DayNumber(a) <= DayNumber(b)
  <1>1. PICK s : s = Characters(a)
    OBVIOUS
  <1>2. PICK t : t = Characters(b)
    OBVIOUS
  <1>3a. /\ a.y \in Nat /\ a.m[1] \in 0 .. 9 /\ a.m[2] \in 0 .. 9
         /\ a.d[1] \in 0 .. 9 /\ a.d[2] \in 0 .. 9
         /\ Number(a.m) = 10 * a.m[1] + a.m[2]
         /\ Number(a.d) = 10 * a.d[1] + a.d[2]
    BY StoredDateParts, TwoDigitsText
  <1>3b. PICK y \in Nat : y = a.y
    BY <1>3a
  <1>3c. PICK m1 \in 0 .. 9 : m1 = a.m[1]
    BY <1>3a
  <1>3d. PICK m2 \in 0 .. 9 : m2 = a.m[2]
    BY <1>3a
  <1>3e. PICK d1 \in 0 .. 9 : d1 = a.d[1]
    BY <1>3a
  <1>3f. PICK d2 \in 0 .. 9 : d2 = a.d[2]
    BY <1>3a
  <1>3. /\ y = a.y /\ m1 = a.m[1] /\ m2 = a.m[2]
        /\ d1 = a.d[1] /\ d2 = a.d[2]
        /\ DayNumber(a) = 10000 * y + 100 * (10 * m1 + m2) + (10 * d1 + d2)
    BY <1>3a, <1>3b, <1>3c, <1>3d, <1>3e, <1>3f DEF DayNumber
  <1>4a. /\ b.y \in Nat /\ b.m[1] \in 0 .. 9 /\ b.m[2] \in 0 .. 9
         /\ b.d[1] \in 0 .. 9 /\ b.d[2] \in 0 .. 9
         /\ Number(b.m) = 10 * b.m[1] + b.m[2]
         /\ Number(b.d) = 10 * b.d[1] + b.d[2]
    BY StoredDateParts, TwoDigitsText
  <1>4b. PICK v \in Nat : v = b.y
    BY <1>4a
  <1>4c. PICK n1 \in 0 .. 9 : n1 = b.m[1]
    BY <1>4a
  <1>4d. PICK n2 \in 0 .. 9 : n2 = b.m[2]
    BY <1>4a
  <1>4e. PICK e1 \in 0 .. 9 : e1 = b.d[1]
    BY <1>4a
  <1>4f. PICK e2 \in 0 .. 9 : e2 = b.d[2]
    BY <1>4a
  <1>4. /\ v = b.y /\ n1 = b.m[1] /\ n2 = b.m[2]
        /\ e1 = b.d[1] /\ e2 = b.d[2]
        /\ DayNumber(b) = 10000 * v + 100 * (10 * n1 + n2) + (10 * e1 + e2)
    BY <1>4a, <1>4b, <1>4c, <1>4d, <1>4e, <1>4f DEF DayNumber
  <1>5. /\ Len(s) = 7 /\ DOMAIN s = 1 .. 7
        /\ s[1] = y /\ s[2] = -1 /\ s[3] = m1 /\ s[4] = m2 /\ s[5] = -1
        /\ s[6] = d1 /\ s[7] = d2
    BY <1>1, <1>3, CharactersOf, LenProperties
  <1>6. /\ Len(t) = 7 /\ DOMAIN t = 1 .. 7
        /\ t[1] = v /\ t[2] = -1 /\ t[3] = n1 /\ t[4] = n2 /\ t[5] = -1
        /\ t[6] = e1 /\ t[7] = e2
    BY <1>2, <1>4, CharactersOf, LenProperties
  <1> DEFINE First(i) == s[i] < t[i] /\ \A k \in 1 .. i - 1 : s[k] = t[k]
             Same == \A k \in 1 .. 7 : s[k] = t[k]
  <1>7. TextAtMost(a, b) <=> (\E i \in 1 .. 7 : First(i)) \/ Same
    BY <1>1, <1>2, <1>5, <1>6 DEF TextAtMost
  <1>8. Same <=> y = v /\ m1 = n1 /\ m2 = n2 /\ d1 = e1 /\ d2 = e2
    BY <1>5, <1>6
  <1>9. /\ First(1) <=> y < v
        /\ ~First(2) /\ ~First(5)
        /\ First(3) <=> y = v /\ m1 < n1
        /\ First(4) <=> y = v /\ m1 = n1 /\ m2 < n2
        /\ First(6) <=> y = v /\ m1 = n1 /\ m2 = n2 /\ d1 < e1
        /\ First(7) <=> y = v /\ m1 = n1 /\ m2 = n2 /\ d1 = e1 /\ d2 < e2
    BY <1>5, <1>6
  <1> HIDE DEF First, Same
  <1>10. (\E i \in 1 .. 7 : First(i)) <=>
           First(1) \/ First(2) \/ First(3) \/ First(4) \/ First(5) \/ First(6)
             \/ First(7)
    <2>1. \A i \in 1 .. 7 : i = 1 \/ i = 2 \/ i = 3 \/ i = 4 \/ i = 5 \/ i = 6 \/ i = 7
      OBVIOUS
    <2>2. 1 \in 1 .. 7 /\ 2 \in 1 .. 7 /\ 3 \in 1 .. 7 /\ 4 \in 1 .. 7
          /\ 5 \in 1 .. 7 /\ 6 \in 1 .. 7 /\ 7 \in 1 .. 7
      OBVIOUS
    <2> QED BY <2>1, <2>2, Zenon
  <1> DEFINE A == 10000 * y + 100 * (10 * m1 + m2) + (10 * d1 + d2)
             B == 10000 * v + 100 * (10 * n1 + n2) + (10 * e1 + e2)
  <1>11. A <= B <=>
           \/ y < v
           \/ y = v /\ m1 < n1
           \/ y = v /\ m1 = n1 /\ m2 < n2
           \/ y = v /\ m1 = n1 /\ m2 = n2 /\ d1 < e1
           \/ y = v /\ m1 = n1 /\ m2 = n2 /\ d1 = e1 /\ d2 < e2
           \/ y = v /\ m1 = n1 /\ m2 = n2 /\ d1 = e1 /\ d2 = e2
    OBVIOUS
  <1>12. DayNumber(a) = A /\ DayNumber(b) = B
    BY <1>3, <1>4
  <1> HIDE DEF A, B
  <1> QED BY <1>7, <1>8, <1>9, <1>10, <1>11, <1>12
-----------------------------------------------------------------------------
(***************************************************************************)
(* Conditions: what a row must be for each of them, and that a sequence of *)
(* conditions asks for all of them.                                        *)
(***************************************************************************)
IsCondition(c) == c \in Seq(ToSet(c))

GroupHolds(group, row) ==
  IF group.rel = "AND"
  THEN \A part \in group.parts : PartHolds(part, row)
  ELSE \E part \in group.parts : PartHolds(part, row)

GroupParses(group) ==
  \A part \in group.parts : Operator(part.type) = "BETWEEN" => part.type = "BETWEEN"

LEMMA ConditionParts ==
  ASSUME NEW c, NEW row
  PROVE  /\ Holds(c, row) <=> \A k \in DOMAIN c : GroupHolds(c[k], row)
         /\ Parses(c) <=> \A k \in DOMAIN c : GroupParses(c[k])
  BY DEF Holds, Parses, GroupHolds, GroupParses

LEMMA EmptyCondition ==
  ASSUME NEW row
  PROVE  IsCondition(<<>>) /\ Holds(<<>>, row) /\ Parses(<<>>)
  <1>1. DOMAIN <<>> = {}
    OBVIOUS
  <1> QED BY <1>1 DEF IsCondition, Holds, Parses

LEMMA GroupCondition ==
  ASSUME NEW group, NEW row
  PROVE  /\ IsCondition(<<group>>)
         /\ Holds(<<group>>, row) <=> GroupHolds(group, row)
         /\ Parses(<<group>>) <=> GroupParses(group)
  <1>1. DOMAIN <<group>> = {1} /\ <<group>>[1] = group
    OBVIOUS
  <1>2. IsCondition(<<group>>)
    BY <1>1 DEF IsCondition, ToSet
  <1> QED BY <1>1, <1>2, ConditionParts

LEMMA OnlyCondition ==
  ASSUME NEW part, NEW row
  PROVE  /\ IsCondition(Only(part))
         /\ Holds(Only(part), row) <=> PartHolds(part, row)
         /\ Parses(Only(part)) <=> (part.type = "NOT_LIKE" => FALSE)
  <1>1. AllOf({part}).rel = "AND" /\ AllOf({part}).parts = {part}
    BY DEF AllOf
  <1>2. GroupHolds(AllOf({part}), row) <=> PartHolds(part, row)
    BY <1>1 DEF GroupHolds
  <1>3. GroupParses(AllOf({part})) <=> (part.type = "NOT_LIKE" => FALSE)
    BY <1>1 DEF GroupParses, Operator
  <1> QED BY <1>2, <1>3, GroupCondition DEF Only

LEMMA WhenCondition ==
  ASSUME NEW asked \in BOOLEAN, NEW c, IsCondition(c), NEW row
  PROVE  /\ IsCondition(When(asked, c))
         /\ Holds(When(asked, c), row) <=> (asked => Holds(c, row))
         /\ Parses(When(asked, c)) <=> (asked => Parses(c))
  BY EmptyCondition DEF When

LEMMA ConcatCondition ==
  ASSUME NEW a, IsCondition(a), NEW b, IsCondition(b), NEW row
  PROVE  /\ IsCondition(a \o b)
         /\ Holds(a \o b, row) <=> Holds(a, row) /\ Holds(b, row)
         /\ Parses(a \o b) <=> Parses(a) /\ Parses(b)
  <1> DEFINE S == ToSet(a) \cup ToSet(b)
             c == a \o b
  <1>1. a \in Seq(S) /\ b \in Seq(S)
    <2>1. ToSet(a) \subseteq S /\ ToSet(b) \subseteq S
      OBVIOUS
    <2> HIDE DEF S
    <2> QED BY <2>1, SeqMonotonic DEF IsCondition
  <1> HIDE DEF S
  <1>2. PICK m \in Nat, n \in Nat :
          m = Len(a) /\ n = Len(b) /\ DOMAIN a = 1 .. m /\ DOMAIN b = 1 .. n
    BY <1>1, LenProperties
  <1>3. /\ c \in Seq(S) /\ Len(c) = m + n
        /\ \A i \in 1 .. m + n : c[i] = IF i <= m THEN a[i] ELSE b[i - m]
    BY <1>1, <1>2, ConcatProperties
  <1> HIDE DEF c
  <1>4. DOMAIN c = 1 .. m + n
    BY <1>3, LenProperties
  <1>5. c \in Seq(ToSet(c))
    <2>1. c \in [1 .. m + n -> ToSet(c)]
      <3>1. \A i \in 1 .. m + n : c[i] \in ToSet(c)
        BY <1>4 DEF ToSet
      <3>2. c = [i \in 1 .. m + n |-> c[i]]
        BY <1>3, <1>4, LenProperties
      <3> QED BY <3>1, <3>2
    <2>2. m + n \in Nat
      OBVIOUS
    <2> QED BY <2>1, <2>2, SeqDef
  <1>6. ASSUME NEW i \in 1 .. m
        PROVE  i \in 1 .. m + n /\ c[i] = a[i]
    BY <1>3
  <1>7. ASSUME NEW i \in 1 .. n
        PROVE  i + m \in 1 .. m + n /\ c[i + m] = b[i]
    <2>1. i + m \in 1 .. m + n /\ ~(i + m <= m) /\ (i + m) - m = i
      OBVIOUS
    <2> QED BY <1>3, <2>1
  <1>8. ASSUME NEW i \in 1 .. m + n
        PROVE  \/ i \in 1 .. m /\ c[i] = a[i]
               \/ i - m \in 1 .. n /\ c[i] = b[i - m]
    BY <1>3
  <1>9. Holds(c, row) <=> Holds(a, row) /\ Holds(b, row)
    BY <1>2, <1>4, <1>6, <1>7, <1>8, ConditionParts, Zenon
  <1>10. Parses(c) <=> Parses(a) /\ Parses(b)
    BY <1>2, <1>4, <1>6, <1>7, <1>8, ConditionParts, Zenon
  <1> QED BY <1>5, <1>9, <1>10 DEF IsCondition, c
LEMMA RowParts ==
  ASSUME NEW row \in ExpenseRow
  PROVE  /\ row.name \in Texts /\ row.category \in CategoryIds
         /\ row.tags \in SUBSET Texts /\ row.account \in Accounts
         /\ row.location \in Texts /\ row.date \in StoredDate /\ row.price \in Nat
  BY DEF ExpenseRow

\* The simple conditions, one of a column each.
LEMMA AccountCondition ==
  ASSUME NEW row
  PROVE  /\ IsCondition(Condition_Account) /\ Parses(Condition_Account)
         /\ Holds(Condition_Account, row) <=> row.account = CurrentAccount
  <1> DEFINE part == Part("account", "EQUALS", CurrentAccount)
  <1>1. PartHolds(part, row) <=> row.account = CurrentAccount
    BY DEF PartHolds, Operator, Part
  <1>2. part.type # "NOT_LIKE"
    BY DEF Part
  <1> QED BY <1>1, <1>2, OnlyCondition DEF Condition_Account

LEMMA DateCondition ==
  ASSUME NEW date, NEW row
  PROVE  /\ IsCondition(Condition_Date(date)) /\ Parses(Condition_Date(date))
         /\ Holds(Condition_Date(date), row) <=> row.date = date
  <1> DEFINE part == Part("date", "EQUALS", date)
  <1>1. PartHolds(part, row) <=> row.date = date
    BY DEF PartHolds, Operator, Part
  <1>2. part.type # "NOT_LIKE"
    BY DEF Part
  <1> QED BY <1>1, <1>2, OnlyCondition DEF Condition_Date

LEMMA MonthCondition ==
  ASSUME NEW month, NEW year, NEW row
  PROVE  LET c == Condition_Month(month, year)
         IN  /\ IsCondition(c) /\ Parses(c)
             /\ Holds(c, row) <=> row.date.y = year /\ row.date.m = month
  <1> DEFINE part == Part("date", "LIKE", MonthPattern(month, year))
  <1>1. PartHolds(part, row) <=> row.date.y = year /\ row.date.m = month
    BY DEF PartHolds, Operator, Part, MonthPattern, Like
  <1>2. part.type # "NOT_LIKE"
    BY DEF Part
  <1> QED BY <1>1, <1>2, OnlyCondition DEF Condition_Month

LEMMA YearCondition ==
  ASSUME NEW year, NEW row
  PROVE  /\ IsCondition(Condition_Year(year)) /\ Parses(Condition_Year(year))
         /\ Holds(Condition_Year(year), row) <=> row.date.y = year
  <1> DEFINE part == Part("date", "LIKE", YearPattern(year))
  <1>1. PartHolds(part, row) <=> row.date.y = year
    BY DEF PartHolds, Operator, Part, YearPattern, Like
  <1>2. part.type # "NOT_LIKE"
    BY DEF Part
  <1> QED BY <1>1, <1>2, OnlyCondition DEF Condition_Year

LEMMA BetweenCondition ==
  ASSUME NEW from, NEW to, NEW row
  PROVE  LET c == Condition_Between(from, to)
         IN  /\ IsCondition(c) /\ Parses(c)
             /\ Holds(c, row) <=>
                  TextAtMost(from, row.date) /\ TextAtMost(row.date, to)
  <1> DEFINE part == Part("date", "BETWEEN", <<from, to>>)
  <1>1. PartHolds(part, row) <=>
          TextAtMost(from, row.date) /\ TextAtMost(row.date, to)
    BY DEF PartHolds, Operator, Part
  <1>2. part.type # "NOT_LIKE"
    BY DEF Part
  <1> QED BY <1>1, <1>2, OnlyCondition DEF Condition_Between

LEMMA NameCondition ==
  ASSUME NEW name, NEW row
  PROVE  LET c == Condition_ListNameFilter(name)
         IN  /\ IsCondition(c) /\ Parses(c)
             /\ Holds(c, row) <=> <<row.name, name>> \in Within
  <1> DEFINE part == Part("name", "LIKE", ContainsPattern(name))
  <1>1. PartHolds(part, row) <=> <<row.name, name>> \in Within
    BY DEF PartHolds, Operator, Part, ContainsPattern, Like, WordsOf
  <1>2. part.type # "NOT_LIKE"
    BY DEF Part
  <1> QED BY <1>1, <1>2, OnlyCondition DEF Condition_ListNameFilter

LEMMA LocationCondition ==
  ASSUME NEW location, NEW row
  PROVE  LET c == Condition_LocationFilter(location)
         IN  /\ IsCondition(c) /\ Parses(c)
             /\ Holds(c, row) <=> row.location = location
  <1> DEFINE part == Part("location", "EQUALS", location)
  <1>1. PartHolds(part, row) <=> row.location = location
    BY DEF PartHolds, Operator, Part
  <1>2. part.type # "NOT_LIKE"
    BY DEF Part
  <1> QED BY <1>1, <1>2, OnlyCondition DEF Condition_LocationFilter

LEMMA CategoryCondition ==
  ASSUME NEW id, NEW row
  PROVE  LET c == Only(Condition_Category(id))
         IN  /\ IsCondition(c) /\ Parses(c)
             /\ Holds(c, row) <=> row.category = id
  <1> DEFINE part == Condition_Category(id)
  <1>1. PartHolds(part, row) <=> row.category = id
    BY DEF PartHolds, Operator, Part, Condition_Category
  <1>2. part.type # "NOT_LIKE"
    BY DEF Part, Condition_Category
  <1> QED BY <1>1, <1>2, OnlyCondition

\* The conditions made of one part for every category or tag that is given.
LEMMA AnyCategory ==
  ASSUME NEW ids, NEW row
  PROVE  LET c == <<AnyOf({Condition_Category(id) : id \in ids})>>
         IN  /\ IsCondition(c) /\ Parses(c)
             /\ Holds(c, row) <=> row.category \in ids
  <1> DEFINE parts == {Condition_Category(id) : id \in ids}
             group == AnyOf(parts)
  <1>1. group.rel = "OR" /\ group.parts = parts
    BY DEF AnyOf
  <1>2. \A id \in ids : /\ PartHolds(Condition_Category(id), row) <=> row.category = id
                        /\ Condition_Category(id).type = "EQUALS"
    BY DEF PartHolds, Operator, Part, Condition_Category
  <1>3. GroupHolds(group, row) <=> row.category \in ids
    BY <1>1, <1>2 DEF GroupHolds
  <1>4. GroupParses(group)
    BY <1>1, <1>2 DEF GroupParses, Operator
  <1> HIDE DEF group
  <1>5. /\ IsCondition(<<group>>) /\ Parses(<<group>>)
        /\ Holds(<<group>>, row) <=> row.category \in ids
    BY <1>3, <1>4, GroupCondition
  <1> QED BY <1>5 DEF group

LEMMA NoCategory ==
  ASSUME NEW ids, NEW row
  PROVE  LET c == <<AllOf({Condition_IgnoreCategory(id) : id \in ids})>>
         IN  /\ IsCondition(c) /\ Parses(c)
             /\ Holds(c, row) <=> row.category \notin ids
  <1> DEFINE parts == {Condition_IgnoreCategory(id) : id \in ids}
             group == AllOf(parts)
  <1>1. group.rel = "AND" /\ group.parts = parts
    BY DEF AllOf
  <1>2. \A id \in ids :
          /\ PartHolds(Condition_IgnoreCategory(id), row) <=> row.category # id
          /\ Condition_IgnoreCategory(id).type = "NOT_EQUALS"
    BY DEF PartHolds, Operator, Part, Condition_IgnoreCategory
  <1>3. GroupHolds(group, row) <=> row.category \notin ids
    BY <1>1, <1>2 DEF GroupHolds
  <1>4. GroupParses(group)
    BY <1>1, <1>2 DEF GroupParses, Operator
  <1> HIDE DEF group
  <1>5. /\ IsCondition(<<group>>) /\ Parses(<<group>>)
        /\ Holds(<<group>>, row) <=> row.category \notin ids
    BY <1>3, <1>4, GroupCondition
  <1> QED BY <1>5 DEF group

LEMMA AnyTag ==
  ASSUME NEW tags, NEW row
  PROVE  LET c == <<AnyOf({Condition_ListTagFilter(t) : t \in tags})>>
         IN  /\ IsCondition(c) /\ Parses(c)
             /\ Holds(c, row) <=>
                  \E t \in tags, u \in row.tags : <<u, t>> \in Within
  <1> DEFINE parts == {Condition_ListTagFilter(t) : t \in tags}
             group == AnyOf(parts)
  <1>1. group.rel = "OR" /\ group.parts = parts
    BY DEF AnyOf
  <1>2. \A t \in tags :
          /\ PartHolds(Condition_ListTagFilter(t), row) <=>
               \E u \in row.tags : <<u, t>> \in Within
          /\ Condition_ListTagFilter(t).type = "LIKE"
    BY DEF PartHolds, Operator, Part, Condition_ListTagFilter, ContainsPattern,
           Like, WordsOf
  <1>3. GroupHolds(group, row) <=>
          \E t \in tags, u \in row.tags : <<u, t>> \in Within
    BY <1>1, <1>2 DEF GroupHolds
  <1>4. GroupParses(group)
    BY <1>1, <1>2 DEF GroupParses, Operator
  <1> HIDE DEF group
  <1>5. /\ IsCondition(<<group>>) /\ Parses(<<group>>)
        /\ Holds(<<group>>, row) <=>
             \E t \in tags, u \in row.tags : <<u, t>> \in Within
    BY <1>3, <1>4, GroupCondition
  <1> QED BY <1>5 DEF group

\* The text that leaves out tags is one that SQLite accepts only if there are none.
LEMMA LeaveTagsOut ==
  ASSUME NEW tags, NEW row
  PROVE  LET c == <<AllOf({Condition_IgnoreTags(t) : t \in tags})>>
         IN  /\ IsCondition(c)
             /\ Parses(c) => tags = {} /\ Holds(c, row)
  <1> DEFINE parts == {Condition_IgnoreTags(t) : t \in tags}
             group == AllOf(parts)
  <1>1. group.rel = "AND" /\ group.parts = parts
    BY DEF AllOf
  <1>2. \A t \in tags : Condition_IgnoreTags(t).type = "NOT_LIKE"
    BY DEF Part, Condition_IgnoreTags
  <1>3. GroupParses(group) => tags = {}
    BY <1>1, <1>2 DEF GroupParses, Operator
  <1>4. tags = {} => GroupHolds(group, row)
    BY <1>1 DEF GroupHolds
  <1> HIDE DEF group
  <1>5. /\ IsCondition(<<group>>)
        /\ Parses(<<group>>) => tags = {} /\ Holds(<<group>>, row)
    BY <1>3, <1>4, GroupCondition
  <1> QED BY <1>5 DEF group

LEMMA WithoutTags ==
  ASSUME NEW row
  PROVE  LET c == Only(Condition_NoTags)
         IN  /\ IsCondition(c) /\ Parses(c)
             /\ Holds(c, row) <=> row.tags = {}
  <1>1. PartHolds(Condition_NoTags, row) <=> row.tags = {}
    BY DEF PartHolds, Operator, Part, Condition_NoTags, EmptyPattern, Like, WordsOf
  <1>2. Condition_NoTags.type # "NOT_LIKE"
    BY DEF Part, Condition_NoTags
  <1> QED BY <1>1, <1>2, OnlyCondition
-----------------------------------------------------------------------------
(***************************************************************************)
(* list: the conditions of a request and what the user asked for.          *)
(***************************************************************************)
LEMMA MonthAsked ==
  ASSUME NEW t \in TypedDigits, NEW year, NEW row \in ExpenseRow
  PROVE  LET c == Condition_Month(Padded(t), year)
         IN  /\ IsCondition(c) /\ Parses(c)
             /\ Holds(c, row) <=> InMonth(row.date, Number(t), year)
  <1>1. row.date.m \in TwoDigits
    BY RowParts, StoredDateParts
  <1>2. row.date.m = Padded(t) <=> Number(row.date.m) = Number(t)
    BY <1>1, PaddedText
  <1> QED BY <1>2, MonthCondition DEF InMonth

LEMMA DayAsked ==
  ASSUME NEW date \in TypedDate, NEW row \in ExpenseRow
  PROVE  LET c == Condition_Date(AsString(date))
         IN  /\ IsCondition(c) /\ Parses(c)
             /\ Holds(c, row) <=> SameDay(row.date, date)
  <1>1. row.date \in StoredDate
    BY RowParts
  <1>2. row.date = AsString(date) <=> SameDay(row.date, date)
    BY <1>1, AsStringDate
  <1> QED BY <1>2, DateCondition

LEMMA StoredDayAsked ==
  ASSUME NEW date \in StoredDate, NEW row \in ExpenseRow
  PROVE  LET c == Condition_Date(date)
         IN  /\ IsCondition(c) /\ Parses(c)
             /\ Holds(c, row) <=> SameDay(row.date, date)
  <1>1. date \in TypedDate
    BY StoredDateParts
  <1>2. date = AsString(date)
    BY <1>1, AsStringDate DEF SameDay
  <1> QED BY <1>1, <1>2, DayAsked

\* What a request asks of the date.
DateAsked(r, row) ==
  /\ "thisMonth" \in r.flags => InMonth(row.date, Number(Today.m), Today.y)
  /\ "today" \in r.flags => SameDay(row.date, Today)
  /\ "thisYear" \in r.flags => row.date.y = Today.y
  /\ "yesterday" \in r.flags => SameDay(row.date, Yesterday)
  /\ "yesterday" \notin r.flags /\ r.date # None => SameDay(row.date, r.date)
  /\ r.month # None => InMonth(row.date, Number(r.month), YearAsked(r))
  /\ r.year # None => row.date.y = r.year

LEMMA RequestParts ==
  ASSUME NEW r \in ListRequest
  PROVE  /\ r.month # None => r.month \in TypedDigits
         /\ r.date # None => r.date \in StoredDate
         /\ r.range # None => r.range[1] \in TypedDate /\ r.range[2] \in TypedDate
         /\ Today \in TypedDate /\ Yesterday \in TypedDate
  BY QueriesAssumption DEF ListRequest, Optional

LEMMA DateConditionsMean ==
  ASSUME NEW r \in ListRequest, NEW row \in ExpenseRow
  PROVE  /\ IsCondition(DateConditions(r)) /\ Parses(DateConditions(r))
         /\ Holds(DateConditions(r), row) <=> DateAsked(r, row)
  <1> DEFINE year == IF r.year # None THEN r.year ELSE Today.y
             c1 == Condition_Month(Padded(Today.m), Today.y)
             c2 == Condition_Date(AsString(Today))
             c3 == Condition_Year(Today.y)
             c4 == Condition_Date(AsString(Yesterday))
             c5 == Condition_Date(r.date)
             c6 == Condition_Month(FixMonthName(r.month), year)
             c7 == Condition_Year(r.year)
             w1 == When("thisMonth" \in r.flags, c1)
             w2 == When("today" \in r.flags, c2)
             w3 == When("thisYear" \in r.flags, c3)
             w4 == When("yesterday" \in r.flags, c4)
             w5 == When("yesterday" \notin r.flags /\ r.date # None, c5)
             w6 == When(r.month # None, c6)
             w7 == When(r.month = None /\ r.year # None, c7)
  <1>0. DateConditions(r) = w1 \o w2 \o w3 \o w4 \o w5 \o w6 \o w7
    BY DEF DateConditions
  <1>t. Today.m \in TypedDigits
    BY RequestParts DEF TypedDate
  <1>1. /\ IsCondition(c1) /\ Parses(c1)
        /\ Holds(c1, row) <=> InMonth(row.date, Number(Today.m), Today.y)
    BY <1>t, MonthAsked
  <1>2. /\ IsCondition(c2) /\ Parses(c2)
        /\ Holds(c2, row) <=> SameDay(row.date, Today)
    BY RequestParts, DayAsked
  <1>3. /\ IsCondition(c3) /\ Parses(c3)
        /\ Holds(c3, row) <=> row.date.y = Today.y
    BY YearCondition
  <1>4. /\ IsCondition(c4) /\ Parses(c4)
        /\ Holds(c4, row) <=> SameDay(row.date, Yesterday)
    BY RequestParts, DayAsked
  <1>5. /\ IsCondition(c5) /\ Parses(c5)
        /\ r.date # None => (Holds(c5, row) <=> SameDay(row.date, r.date))
    BY RequestParts, StoredDayAsked, DateCondition
  <1>6. /\ IsCondition(c6) /\ Parses(c6)
        /\ r.month # None =>
             (Holds(c6, row) <=> InMonth(row.date, Number(r.month), year))
    BY RequestParts, MonthAsked, MonthCondition DEF FixMonthName
  <1>7. /\ IsCondition(c7) /\ Parses(c7)
        /\ Holds(c7, row) <=> row.date.y = r.year
    BY YearCondition
  <1>w1. /\ IsCondition(w1) /\ Parses(w1)
         /\ Holds(w1, row) <=> ("thisMonth" \in r.flags => Holds(c1, row))
    <2> HIDE DEF c1
    <2> QED BY <1>1, EmptyCondition DEF When
  <1>w2. /\ IsCondition(w2) /\ Parses(w2)
         /\ Holds(w2, row) <=> ("today" \in r.flags => Holds(c2, row))
    <2> HIDE DEF c2
    <2> QED BY <1>2, EmptyCondition DEF When
  <1>w3. /\ IsCondition(w3) /\ Parses(w3)
         /\ Holds(w3, row) <=> ("thisYear" \in r.flags => Holds(c3, row))
    <2> HIDE DEF c3
    <2> QED BY <1>3, EmptyCondition DEF When
  <1>w4. /\ IsCondition(w4) /\ Parses(w4)
         /\ Holds(w4, row) <=> ("yesterday" \in r.flags => Holds(c4, row))
    <2> HIDE DEF c4
    <2> QED BY <1>4, EmptyCondition DEF When
  <1>w5. /\ IsCondition(w5) /\ Parses(w5)
         /\ Holds(w5, row) <=>
              ("yesterday" \notin r.flags /\ r.date # None => Holds(c5, row))
    <2> HIDE DEF c5
    <2> QED BY <1>5, WhenCondition
  <1>w6. /\ IsCondition(w6) /\ Parses(w6)
         /\ Holds(w6, row) <=> (r.month # None => Holds(c6, row))
    <2> HIDE DEF c6
    <2> QED BY <1>6, WhenCondition
  <1>w7. /\ IsCondition(w7) /\ Parses(w7)
         /\ Holds(w7, row) <=> (r.month = None /\ r.year # None => Holds(c7, row))
    <2> HIDE DEF c7
    <2> QED BY <1>7, WhenCondition
  <1>y. YearAsked(r) = year
    BY DEF YearAsked
  <1> DEFINE all == w1 \o w2 \o w3 \o w4 \o w5 \o w6 \o w7
  <1>8. /\ IsCondition(all) /\ Parses(all)
        /\ Holds(all, row) <=>
             /\ Holds(w1, row) /\ Holds(w2, row) /\ Holds(w3, row)
             /\ Holds(w4, row) /\ Holds(w5, row) /\ Holds(w6, row)
             /\ Holds(w7, row)
    <2> HIDE DEF w1, w2, w3, w4, w5, w6, w7
    <2>1. IsCondition(w1 \o w2) /\ Parses(w1 \o w2)
          /\ (Holds(w1 \o w2, row) <=> Holds(w1, row) /\ Holds(w2, row))
      BY <1>w1, <1>w2, ConcatCondition
    <2>2. IsCondition(w1 \o w2 \o w3) /\ Parses(w1 \o w2 \o w3)
          /\ (Holds(w1 \o w2 \o w3, row) <=>
                Holds(w1 \o w2, row) /\ Holds(w3, row))
      BY <1>w3, <2>1, ConcatCondition
    <2>3. IsCondition(w1 \o w2 \o w3 \o w4) /\ Parses(w1 \o w2 \o w3 \o w4)
          /\ (Holds(w1 \o w2 \o w3 \o w4, row) <=>
                Holds(w1 \o w2 \o w3, row) /\ Holds(w4, row))
      BY <1>w4, <2>2, ConcatCondition
    <2>4. IsCondition(w1 \o w2 \o w3 \o w4 \o w5)
          /\ Parses(w1 \o w2 \o w3 \o w4 \o w5)
          /\ (Holds(w1 \o w2 \o w3 \o w4 \o w5, row) <=>
                Holds(w1 \o w2 \o w3 \o w4, row) /\ Holds(w5, row))
      BY <1>w5, <2>3, ConcatCondition
    <2>5. IsCondition(w1 \o w2 \o w3 \o w4 \o w5 \o w6)
          /\ Parses(w1 \o w2 \o w3 \o w4 \o w5 \o w6)
          /\ (Holds(w1 \o w2 \o w3 \o w4 \o w5 \o w6, row) <=>
                Holds(w1 \o w2 \o w3 \o w4 \o w5, row) /\ Holds(w6, row))
      BY <1>w6, <2>4, ConcatCondition
    <2>6. IsCondition(all) /\ Parses(all)
          /\ (Holds(all, row) <=>
                Holds(w1 \o w2 \o w3 \o w4 \o w5 \o w6, row) /\ Holds(w7, row))
      BY <1>w7, <2>5, ConcatCondition
    <2> QED BY <2>1, <2>2, <2>3, <2>4, <2>5, <2>6
  <1>9. r.month # None /\ r.year # None =>
          (InMonth(row.date, Number(r.month), year) => row.date.y = r.year)
    BY DEF InMonth
  <1> HIDE DEF w1, w2, w3, w4, w5, w6, w7, c1, c2, c3, c4, c5, c6, c7, year, all
  <1>10. Holds(all, row) <=> DateAsked(r, row)
    BY <1>1, <1>2, <1>3, <1>4, <1>5, <1>6, <1>7, <1>w1, <1>w2, <1>w3, <1>w4,
       <1>w5, <1>w6, <1>w7, <1>y, <1>8, <1>9 DEF DateAsked
  <1>11. DateConditions(r) = all
    BY <1>0 DEF all
  <1> QED BY <1>8, <1>10, <1>11
CategoryAsked(r, row) ==
  /\ r.category # None => row.category \in r.category
  /\ r.category = None /\ r.ignoreCategory # None =>
       row.category \notin r.ignoreCategory

LEMMA CategoryConditionsMean ==
  ASSUME NEW r, NEW row \in ExpenseRow
  PROVE  /\ IsCondition(CategoryConditions(r)) /\ Parses(CategoryConditions(r))
         /\ Holds(CategoryConditions(r), row) <=> CategoryAsked(r, row)
  <1> DEFINE known == r.ignoreCategory \cap ToSet(Categories)
             c1 == <<AnyOf({Condition_Category(c) : c \in r.category})>>
             c2 == <<AllOf({Condition_IgnoreCategory(c) : c \in known})>>
             w1 == When(r.category # None, c1)
             w2 == When(r.category = None /\ r.ignoreCategory # None, c2)
  <1>0. CategoryConditions(r) = w1 \o w2
    BY DEF CategoryConditions
  <1>1. /\ IsCondition(c1) /\ Parses(c1)
        /\ Holds(c1, row) <=> row.category \in r.category
    BY AnyCategory
  <1>2. /\ IsCondition(c2) /\ Parses(c2)
        /\ Holds(c2, row) <=> row.category \notin known
    <2> HIDE DEF known
    <2> QED BY NoCategory
  <1>3. row.category \notin known <=> row.category \notin r.ignoreCategory
    BY RowParts DEF CategoryIds
  <1> HIDE DEF c1, c2
  <1>4. /\ IsCondition(w1) /\ Parses(w1)
        /\ Holds(w1, row) <=> (r.category # None => Holds(c1, row))
    BY <1>1, WhenCondition
  <1>5. /\ IsCondition(w2) /\ Parses(w2)
        /\ Holds(w2, row) <=>
             (r.category = None /\ r.ignoreCategory # None => Holds(c2, row))
    BY <1>2, WhenCondition
  <1> HIDE DEF w1, w2, known
  <1>6. /\ IsCondition(w1 \o w2) /\ Parses(w1 \o w2)
        /\ Holds(w1 \o w2, row) <=> Holds(w1, row) /\ Holds(w2, row)
    BY <1>4, <1>5, ConcatCondition
  <1> QED BY <1>0, <1>1, <1>2, <1>3, <1>4, <1>5, <1>6 DEF CategoryAsked

TagsAsked(r, row) ==
  /\ r.tags # None => \E t \in r.tags, u \in row.tags : <<u, t>> \in Within
  /\ r.tags = None /\ r.ignoreTags # None =>
       \A t \in r.ignoreTags, u \in row.tags : <<u, t>> \notin Within
  /\ (r.tags = None /\ r.ignoreTags = None /\ "excludeTags" \in r.flags) =>
       row.tags = {}

LEMMA TagConditionsMean ==
  ASSUME NEW r, NEW row \in ExpenseRow
  PROVE  /\ IsCondition(TagConditions(r))
         /\ Parses(TagConditions(r)) =>
              (Holds(TagConditions(r), row) <=> TagsAsked(r, row))
  <1> DEFINE c1 == <<AnyOf({Condition_ListTagFilter(t) : t \in r.tags})>>
             c2 == <<AllOf({Condition_IgnoreTags(t) : t \in r.ignoreTags})>>
             c3 == Only(Condition_NoTags)
             bare == r.tags = None /\ r.ignoreTags = None /\ "excludeTags" \in r.flags
             w1 == When(r.tags # None, c1)
             w2 == When(r.tags = None /\ r.ignoreTags # None, c2)
             w3 == When(bare, c3)
  <1>0. TagConditions(r) = w1 \o w2 \o w3
    BY DEF TagConditions
  <1>1. /\ IsCondition(c1) /\ Parses(c1)
        /\ Holds(c1, row) <=> \E t \in r.tags, u \in row.tags : <<u, t>> \in Within
    BY AnyTag
  <1>2. /\ IsCondition(c2)
        /\ Parses(c2) => r.ignoreTags = {} /\ Holds(c2, row)
    BY LeaveTagsOut
  <1>3. IsCondition(c3) /\ Parses(c3) /\ (Holds(c3, row) <=> row.tags = {})
    BY WithoutTags
  <1> HIDE DEF c1, c2, c3
  <1>4. /\ IsCondition(w1) /\ Parses(w1)
        /\ Holds(w1, row) <=> (r.tags # None => Holds(c1, row))
    BY <1>1, WhenCondition
  <1>5. /\ IsCondition(w2)
        /\ Parses(w2) <=> (r.tags = None /\ r.ignoreTags # None => Parses(c2))
        /\ Holds(w2, row) <=>
             (r.tags = None /\ r.ignoreTags # None => Holds(c2, row))
    BY <1>2, WhenCondition
  <1>6. /\ IsCondition(w3) /\ Parses(w3)
        /\ Holds(w3, row) <=> (bare => Holds(c3, row))
    BY <1>3, EmptyCondition DEF When
  <1> HIDE DEF w1, w2, w3
  <1>7. /\ IsCondition(w1 \o w2)
        /\ Parses(w1 \o w2) <=> Parses(w1) /\ Parses(w2)
        /\ Holds(w1 \o w2, row) <=> Holds(w1, row) /\ Holds(w2, row)
    BY <1>4, <1>5, ConcatCondition
  <1>8. /\ IsCondition(w1 \o w2 \o w3)
        /\ Parses(w1 \o w2 \o w3) <=> Parses(w1 \o w2) /\ Parses(w3)
        /\ Holds(w1 \o w2 \o w3, row) <=> Holds(w1 \o w2, row) /\ Holds(w3, row)
    BY <1>6, <1>7, ConcatCondition
  <1>9. ASSUME Parses(w1 \o w2 \o w3)
        PROVE  Holds(w1 \o w2 \o w3, row) <=> TagsAsked(r, row)
    <2>1. r.tags = None /\ r.ignoreTags # None => r.ignoreTags = {} /\ Holds(c2, row)
      BY <1>2, <1>5, <1>7, <1>8, <1>9
    <2>2. Holds(w2, row)
      BY <1>5, <2>1
    <2>3. r.tags = None /\ r.ignoreTags # None =>
            \A t \in r.ignoreTags, u \in row.tags : <<u, t>> \notin Within
      BY <2>1
    <2> QED BY <1>1, <1>3, <1>4, <1>6, <1>7, <1>8, <2>2, <2>3 DEF TagsAsked
  <1> QED BY <1>0, <1>8, <1>9

LEMMA RangeAsked ==
  ASSUME NEW from \in TypedDate, NEW to \in TypedDate, NEW row \in ExpenseRow
  PROVE  LET c == Condition_Between(AsString(from), AsString(to))
         IN  /\ IsCondition(c) /\ Parses(c)
             /\ Holds(c, row) <=>
                  DayNumber(row.date) \in DayNumber(from) .. DayNumber(to)
  <1>1. row.date \in StoredDate /\ row.date \in TypedDate
    BY RowParts, StoredDateParts
  <1>2. /\ AsString(from) \in StoredDate /\ DayNumber(AsString(from)) = DayNumber(from)
        /\ AsString(to) \in StoredDate /\ DayNumber(AsString(to)) = DayNumber(to)
    BY AsStringDate
  <1>3. /\ TextAtMost(AsString(from), row.date) <=>
             DayNumber(from) <= DayNumber(row.date)
        /\ TextAtMost(row.date, AsString(to)) <=>
             DayNumber(row.date) <= DayNumber(to)
    BY <1>1, <1>2, TextOrder
  <1>4. /\ DayNumber(from) \in Nat /\ DayNumber(to) \in Nat
        /\ DayNumber(row.date) \in Nat
    BY <1>1, DayNumberType
  <1>5. DayNumber(row.date) \in DayNumber(from) .. DayNumber(to) <=>
          DayNumber(from) <= DayNumber(row.date) /\ DayNumber(row.date) <= DayNumber(to)
    BY <1>4
  <1> QED BY <1>3, <1>5, BetweenCondition

\* The conditions of a request that SQLite accepts hold of the rows that the user asked for.
LEMMA ListConditionMeans ==
  ASSUME NEW r \in ListRequest, NEW row \in ExpenseRow, Parses(ListCondition(r))
  PROVE  Holds(ListCondition(r), row) <=> Asked(r, row)
  <1> DEFINE a == Condition_Account
             d == DateConditions(r)
             n0 == Condition_ListNameFilter(r.name)
             n == When(r.name # None, n0)
             l0 == Condition_LocationFilter(r.location)
             l == When(r.location # None, l0)
             c == CategoryConditions(r)
             t == TagConditions(r)
             b0 == Condition_Between(AsString(r.range[1]), AsString(r.range[2]))
             b == When(r.range # None, b0)
  <1>0. ListCondition(r) = a \o d \o n \o l \o c \o t \o b
    BY DEF ListCondition
  <1>1. IsCondition(a) /\ Parses(a) /\ (Holds(a, row) <=> row.account = CurrentAccount)
    BY AccountCondition
  <1>2. IsCondition(d) /\ Parses(d) /\ (Holds(d, row) <=> DateAsked(r, row))
    BY DateConditionsMean
  <1>3. /\ IsCondition(n0) /\ Parses(n0)
        /\ Holds(n0, row) <=> <<row.name, r.name>> \in Within
    BY NameCondition
  <1>4. /\ IsCondition(l0) /\ Parses(l0)
        /\ Holds(l0, row) <=> row.location = r.location
    BY LocationCondition
  <1>5. IsCondition(c) /\ Parses(c) /\ (Holds(c, row) <=> CategoryAsked(r, row))
    BY CategoryConditionsMean
  <1>6. IsCondition(t) /\ (Parses(t) => (Holds(t, row) <=> TagsAsked(r, row)))
    BY TagConditionsMean
  <1>7. /\ IsCondition(b0) /\ Parses(b0)
        /\ r.range # None =>
             (Holds(b0, row) <=> DayNumber(row.date) \in
                                   DayNumber(r.range[1]) .. DayNumber(r.range[2]))
    <2>1. IsCondition(b0) /\ Parses(b0)
      BY BetweenCondition
    <2>2. ASSUME r.range # None
          PROVE  Holds(b0, row) <=> DayNumber(row.date) \in
                                      DayNumber(r.range[1]) .. DayNumber(r.range[2])
      <3>1. r.range[1] \in TypedDate /\ r.range[2] \in TypedDate
        BY <2>2, RequestParts
      <3> QED BY <3>1, RangeAsked
    <2> QED BY <2>1, <2>2
  <1> HIDE DEF a, d, n0, l0, c, t, b0
  <1>8. /\ IsCondition(n) /\ Parses(n)
        /\ Holds(n, row) <=> (r.name # None => Holds(n0, row))
    BY <1>3, WhenCondition
  <1>9. /\ IsCondition(l) /\ Parses(l)
        /\ Holds(l, row) <=> (r.location # None => Holds(l0, row))
    BY <1>4, WhenCondition
  <1>10. /\ IsCondition(b) /\ Parses(b)
         /\ Holds(b, row) <=> (r.range # None => Holds(b0, row))
    BY <1>7, WhenCondition
  <1> HIDE DEF n, l, b
  <1>11. /\ IsCondition(a \o d)
         /\ Holds(a \o d, row) <=> Holds(a, row) /\ Holds(d, row)
    BY <1>1, <1>2, ConcatCondition
  <1>12. /\ IsCondition(a \o d \o n)
         /\ Holds(a \o d \o n, row) <=> Holds(a \o d, row) /\ Holds(n, row)
    BY <1>8, <1>11, ConcatCondition
  <1>13. /\ IsCondition(a \o d \o n \o l)
         /\ Holds(a \o d \o n \o l, row) <=> Holds(a \o d \o n, row) /\ Holds(l, row)
    BY <1>9, <1>12, ConcatCondition
  <1>14. /\ IsCondition(a \o d \o n \o l \o c)
         /\ Holds(a \o d \o n \o l \o c, row) <=>
              Holds(a \o d \o n \o l, row) /\ Holds(c, row)
    BY <1>5, <1>13, ConcatCondition
  <1>15. /\ IsCondition(a \o d \o n \o l \o c \o t)
         /\ Parses(a \o d \o n \o l \o c \o t) => Parses(t)
         /\ Holds(a \o d \o n \o l \o c \o t, row) <=>
              Holds(a \o d \o n \o l \o c, row) /\ Holds(t, row)
    BY <1>6, <1>14, ConcatCondition
  <1>16. /\ Parses(a \o d \o n \o l \o c \o t \o b) =>
              Parses(a \o d \o n \o l \o c \o t)
         /\ Holds(a \o d \o n \o l \o c \o t \o b, row) <=>
              Holds(a \o d \o n \o l \o c \o t, row) /\ Holds(b, row)
    BY <1>10, <1>15, ConcatCondition
  <1>17. Parses(t)
    BY <1>0, <1>15, <1>16
  <1>18. Holds(ListCondition(r), row) <=>
           /\ row.account = CurrentAccount
           /\ DateAsked(r, row)
           /\ r.name # None => <<row.name, r.name>> \in Within
           /\ r.location # None => row.location = r.location
           /\ CategoryAsked(r, row)
           /\ TagsAsked(r, row)
           /\ r.range # None => DayNumber(row.date) \in
                                  DayNumber(r.range[1]) .. DayNumber(r.range[2])
    BY <1>0, <1>1, <1>2, <1>3, <1>4, <1>5, <1>6, <1>7, <1>8, <1>9, <1>10, <1>11,
       <1>12, <1>13, <1>14, <1>15, <1>16, <1>17
  <1> QED BY <1>18, Zenon DEF Asked, DateAsked, CategoryAsked, TagsAsked
-----------------------------------------------------------------------------
(***************************************************************************)
(* The types.                                                              *)
(***************************************************************************)
TableOK == IsTable(expenses, ExpenseRow) /\ IsFiniteSet(DOMAIN expenses)

LEMMA RowOfTable ==
  ASSUME TableOK, NEW i \in DOMAIN expenses
  PROVE  expenses[i] \in ExpenseRow /\ i \in RowId
  BY DEF TableOK, IsTable

LEMMA RowsOfTable ==
  ASSUME TableOK, NEW rows, rows \subseteq DOMAIN expenses
  PROVE  /\ IsFiniteSet(rows) /\ rows \subseteq RowId
         /\ \A i \in rows : PricesOf(expenses)[i] = expenses[i].price
                            /\ PricesOf(expenses)[i] \in Nat
         /\ SumOver(PricesOf(expenses), rows) \in Nat
  <1>1. IsFiniteSet(rows) /\ rows \subseteq RowId
    BY FS_Subset, RowOfTable DEF TableOK
  <1>2. \A i \in rows : PricesOf(expenses)[i] = expenses[i].price
                        /\ PricesOf(expenses)[i] \in Nat
    BY RowOfTable, RowParts DEF PricesOf
  <1>3. SumOver(PricesOf(expenses), rows) \in Nat
    BY <1>1, <1>2, SumType
  <1> QED BY <1>1, <1>2, <1>3

LEMMA SelectedRows ==
  ASSUME NEW c
  PROVE  Select(c) \subseteq DOMAIN expenses
  BY DEF Select

\* A sequence that SQLite or std::sort makes of some rows has each of them once.
LEMMA ArrangedRows ==
  ASSUME NEW rows, IsFiniteSet(rows), NEW s \in SetToSeqs(rows)
  PROVE  s \in Seq(rows) /\ ToSet(s) = rows /\ Len(s) = Cardinality(rows)
  <1>1. PICK n \in Nat : n = Cardinality(rows)
    BY FS_CardinalityType
  <1>2. s \in [1 .. n -> rows] /\ \A i, j \in 1 .. n : i # j => s[i] # s[j]
    BY <1>1 DEF SetToSeqs
  <1>3. s \in Seq(rows) /\ Len(s) = n
    BY <1>2, FunctionIsText
  <1>4. s \in Injection(1 .. n, rows)
    BY <1>2 DEF Injection, IsInjective
  <1>5. IsFiniteSet(1 .. n) /\ Cardinality(1 .. n) = n
    BY FS_Interval
  <1>6. s \in Surjection(1 .. n, rows)
    BY <1>1, <1>4, <1>5, FS_Injection
  <1>7. ToSet(s) = rows
    BY <1>2, <1>6 DEF ToSet, Surjection
  <1> QED BY <1>1, <1>3, <1>7

\* A listing is one sequence of the rows that are selected.
LEMMA ListedRows ==
  ASSUME TableOK, NEW rows, rows \subseteq DOMAIN expenses, NEW s,
         \/ s \in ByCalendar(rows)
         \/ \E col, descending : s \in OrderedBy(rows, col, descending)
  PROVE  s \in Seq(RowId) /\ ToSet(s) = rows /\ s \in Seq(rows)
  <1>1. s \in SetToSeqs(rows)
    BY DEF ByCalendar, OrderedBy
  <1>2. IsFiniteSet(rows) /\ rows \subseteq RowId
    BY RowsOfTable
  <1>3. s \in Seq(rows) /\ ToSet(s) = rows
    BY <1>1, <1>2, ArrangedRows
  <1>4. s \in Seq(RowId)
    BY <1>2, <1>3, SeqMonotonic
  <1> QED BY <1>3, <1>4

\* What list selects is what the user asked for.
LEMMA SelectedAsAsked ==
  ASSUME TableOK, NEW r \in ListRequests, Parses(ListCondition(r))
  PROVE  Select(ListCondition(r)) = {i \in DOMAIN expenses : Asked(r, expenses[i])}
  <1>1. r \in ListRequest
    BY QueriesAssumption
  <1>2. \A i \in DOMAIN expenses :
          Holds(ListCondition(r), expenses[i]) <=> Asked(r, expenses[i])
    BY <1>1, RowOfTable, ListConditionMeans
  <1> QED BY <1>2 DEF Select
LEMMA ConstantsTyped ==
  /\ Categories \in Seq(Nat) /\ Len(Categories) \in Nat
  /\ \A k \in 1 .. Len(Categories) : Categories[k] \in Nat /\ Categories[k] \in CategoryIds
  /\ \A j, k \in 1 .. Len(Categories) : Categories[j] = Categories[k] => j = k
  /\ \A id \in CategoryIds : \E k \in 1 .. Len(Categories) : Categories[k] = id
  /\ MaxWrite \in Nat
  <1>1. Categories \in Seq(Nat) /\ MaxWrite \in Nat
    BY QueriesAssumption
  <1>2. Len(Categories) \in Nat /\ DOMAIN Categories = 1 .. Len(Categories)
    BY <1>1, LenProperties
  <1>3. \A k \in 1 .. Len(Categories) : Categories[k] \in Nat
    BY <1>1, ElementOfSeq
  <1>4. \A j, k \in 1 .. Len(Categories) : Categories[j] = Categories[k] => j = k
    BY <1>2, QueriesAssumption DEF IsInjective
  <1> QED BY <1>1, <1>2, <1>3, <1>4 DEF CategoryIds, ToSet

\* What is left of the categories: the k-th of them and those behind it.
LEMMA LeftOverParts ==
  ASSUME NEW k \in 1 .. Len(Categories) + 1
  PROVE  /\ Len(LeftOver(k)) = Len(Categories) - k + 1
         /\ LeftOver(k) = <<>> <=> k = Len(Categories) + 1
         /\ k <= Len(Categories) =>
              /\ Head(LeftOver(k)) = Categories[k]
              /\ Tail(LeftOver(k)) = LeftOver(k + 1)
  <1>1. PICK n \in Nat : n = Len(Categories)
    BY ConstantsTyped
  <1>2. Categories \in Seq(Nat) /\ k \in 1 .. n + 1
    BY <1>1, ConstantsTyped
  <1>3. CASE k = n + 1
    <2>1. LeftOver(k) = <<>>
      BY <1>1, <1>3, SubSeqEmpty DEF LeftOver
    <2> QED BY <1>1, <1>3, <2>1
  <1>4. CASE k \in 1 .. n
    <2>1. \A i \in k .. n : Categories[i] \in Nat
      BY <1>1, <1>4, ConstantsTyped
    <2>2. Len(SubSeq(Categories, k, n)) = n - k + 1
      BY <1>4, <2>1, SubSeqProperties
    <2>3. /\ Head(SubSeq(Categories, k, n)) = Categories[k]
          /\ Tail(SubSeq(Categories, k, n)) = SubSeq(Categories, k + 1, n)
      BY <1>1, <1>2, <1>4, HeadTailOfSubSeq
    <2>4. n - k + 1 # 0 /\ k # n + 1
      BY <1>4
    <2>5. SubSeq(Categories, k, n) # <<>>
      BY <2>2, <2>4
    <2> QED BY <1>1, <2>2, <2>3, <2>4, <2>5 DEF LeftOver
  <1> QED BY <1>2, <1>3, <1>4
PricesTyped(q) == DOMAIN q \subseteq CategoryIds /\ q \in [DOMAIN q -> Nat]

LEMMA ResultsParts ==
  ASSUME NEW p, Results(p)
  PROVE  /\ Len(p) \in Nat /\ DOMAIN p = 1 .. Len(p)
         /\ p = [k \in 1 .. Len(p) |-> p[k]]
         /\ \A k \in 1 .. Len(p) : PricesTyped(p[k])
  <1>1. /\ Len(p) \in Nat /\ DOMAIN p = 1 .. Len(p)
        /\ p \in [1 .. Len(p) -> ToSet(p)]
    BY LenProperties DEF Results
  <1> QED BY <1>1 DEF Results, PricesTyped

LEMMA ResultsMade ==
  ASSUME NEW n \in Nat, NEW p, p = [k \in 1 .. n |-> p[k]],
         \A k \in 1 .. n : PricesTyped(p[k])
  PROVE  Results(p) /\ Len(p) = n
  <1>1. DOMAIN p = 1 .. n
    OBVIOUS
  <1>2. p \in [1 .. n -> ToSet(p)]
    BY <1>1 DEF ToSet
  <1>3. p \in Seq(ToSet(p)) /\ Len(p) = n
    BY <1>2, FunctionIsText
  <1> QED BY <1>1, <1>3 DEF Results, PricesTyped

LEMMA ResultsExcept ==
  ASSUME NEW p, Results(p), NEW n \in 1 .. Len(p), NEW q, PricesTyped(q)
  PROVE  LET t == [p EXCEPT ![n] = q]
         IN  /\ Results(t) /\ Len(t) = Len(p)
             /\ t[n] = q /\ \A k \in 1 .. Len(p) : k # n => t[k] = p[k]
  <1> DEFINE t == [p EXCEPT ![n] = q]
  <1>1. PICK m \in Nat : m = Len(p)
    BY ResultsParts
  <1>2. p = [k \in 1 .. m |-> p[k]] /\ \A k \in 1 .. m : PricesTyped(p[k])
    BY <1>1, ResultsParts
  <1>3. /\ t = [k \in 1 .. m |-> t[k]] /\ t[n] = q
        /\ \A k \in 1 .. m : k # n => t[k] = p[k]
    BY <1>1, <1>2
  <1>4. \A k \in 1 .. m : PricesTyped(t[k])
    BY <1>2, <1>3
  <1> HIDE DEF t
  <1>5. Results(t) /\ Len(t) = m
    BY <1>3, <1>4, ResultsMade
  <1> QED BY <1>1, <1>3, <1>5 DEF t

LEMMA ResultsAppend ==
  ASSUME NEW p, Results(p)
  PROVE  LET t == Append(p, <<>>)
         IN  /\ Results(t) /\ Len(t) = Len(p) + 1
             /\ t[Len(p) + 1] = <<>> /\ \A k \in 1 .. Len(p) : t[k] = p[k]
  <1> DEFINE t == Append(p, <<>>)
             S == ToSet(p) \cup {<<>>}
  <1>1. PICK m \in Nat : m = Len(p)
    BY ResultsParts
  <1>2. p \in Seq(S) /\ <<>> \in S
    <2>1. p \in Seq(ToSet(p)) /\ ToSet(p) \subseteq S
      BY DEF Results
    <2> HIDE DEF S
    <2>2. p \in Seq(S)
      BY <2>1, SeqMonotonic
    <2> QED BY <2>2 DEF S
  <1> HIDE DEF S
  <1>3. /\ t \in Seq(S) /\ Len(t) = m + 1
        /\ \A i \in 1 .. m : t[i] = p[i]
        /\ t[m + 1] = <<>>
    BY <1>1, <1>2, AppendProperties
  <1> HIDE DEF t
  <1>4. t = [k \in 1 .. m + 1 |-> t[k]]
    BY <1>3, LenProperties
  <1>5. PricesTyped(<<>>)
    <2>1. DOMAIN <<>> = {}
      OBVIOUS
    <2>2. <<>> = [k \in {} |-> 0]
      OBVIOUS
    <2> QED BY <2>1, <2>2 DEF PricesTyped
  <1>6. \A k \in 1 .. m + 1 : PricesTyped(t[k])
    <2>1. ASSUME NEW k \in 1 .. m + 1
          PROVE  PricesTyped(t[k])
      <3>1. CASE k \in 1 .. m
        BY <1>1, <1>3, <3>1, ResultsParts
      <3>2. CASE k = m + 1
        BY <1>3, <1>5, <3>2
      <3> QED BY <3>1, <3>2
    <2> QED BY <2>1
  <1>7. m + 1 \in Nat
    OBVIOUS
  <1>8. Results(t) /\ Len(t) = m + 1
    BY <1>4, <1>6, <1>7, ResultsMade
  <1> QED BY <1>1, <1>3, <1>8 DEF t
\* A job that reports, as it is in one step and in the next.
Reporting(j) ==
  \/ j.r \in ReportRequests /\ ReportJob(j, <<ReportPeriod(j.r)>>, FALSE)
  \/ /\ j.r \in CompareRequests /\ CompareValid(j.r)
     /\ ReportJob(j, ComparePeriods(j.r), TRUE)

ReportOf(j, op, results, left) ==
  [op |-> op, r |-> j.r, periods |-> j.periods, includeZero |-> j.includeZero,
   results |-> results, left |-> left, since |-> j.since]

LEMMA ReportingOK ==
  ASSUME NEW j, JobOK(j), j.op \in {"report", "reported"}
  PROVE  Reporting(j)
  <1>1. /\ j \notin {Idle, Off} /\ \A status : j # Done(status)
        /\ j.op \notin {"select", "sum", "shown"}
    BY DEF Idle, Off, Done
  <1>2. \/ j.r \in ReportRequests /\ ReportJob(j, <<ReportPeriod(j.r)>>, FALSE)
        \/ /\ j.r \in CompareRequests /\ CompareValid(j.r)
           /\ ReportJob(j, ComparePeriods(j.r), TRUE)
    BY <1>1, Zenon DEF JobOK
  <1> QED BY <1>2, Zenon DEF Reporting

LEMMA ReportParts ==
  ASSUME NEW j, Reporting(j)
  PROVE  /\ j = ReportOf(j, j.op, j.results, j.left)
         /\ j.since \in 0 .. MaxWrite
         /\ \E k \in 1 .. Len(Categories) + 1 : j.left = LeftOver(k)
         /\ Results(j.results)
         /\ Len(j.results) \in 1 .. Len(j.periods)
         /\ \/ /\ j.r \in ReportRequests /\ j.periods = <<ReportPeriod(j.r)>>
               /\ j.includeZero = FALSE
            \/ /\ j.r \in CompareRequests /\ CompareValid(j.r)
               /\ j.periods = ComparePeriods(j.r) /\ j.includeZero = TRUE
  <1>1. ASSUME NEW periods, NEW zero, ReportJob(j, periods, zero)
        PROVE  /\ j.periods = periods /\ j.includeZero = zero
               /\ j = ReportOf(j, j.op, j.results, j.left)
               /\ j.since \in 0 .. MaxWrite
               /\ \E k \in 1 .. Len(Categories) + 1 : j.left = LeftOver(k)
               /\ Results(j.results)
               /\ Len(j.results) \in 1 .. Len(j.periods)
    <2>1. j.periods = periods /\ j.includeZero = zero
      BY <1>1 DEF ReportJob
    <2> QED BY <1>1, <2>1 DEF ReportJob, ReportOf
  <1>2. CASE j.r \in ReportRequests /\ ReportJob(j, <<ReportPeriod(j.r)>>, FALSE)
    BY <1>1, <1>2, Zenon
  <1>3. CASE /\ j.r \in CompareRequests /\ CompareValid(j.r)
             /\ ReportJob(j, ComparePeriods(j.r), TRUE)
    BY <1>1, <1>3, Zenon
  <1> QED BY <1>2, <1>3, Zenon DEF Reporting

LEMMA ReportGoesOn ==
  ASSUME NEW j, Reporting(j), NEW op \in {"report", "reported"},
         NEW results, Results(results), Len(results) \in 1 .. Len(j.periods),
         NEW k \in 1 .. Len(Categories) + 1
  PROVE  LET n == ReportOf(j, op, results, LeftOver(k))
         IN  JobOK(n) /\ Reporting(n)
  <1> DEFINE n == ReportOf(j, op, results, LeftOver(k))
  <1>1. /\ n.op = op /\ n.r = j.r /\ n.periods = j.periods
        /\ n.includeZero = j.includeZero /\ n.results = results
        /\ n.left = LeftOver(k) /\ n.since = j.since
    BY DEF ReportOf
  <1>2. Reporting(n)
    <2>1. CASE j.r \in ReportRequests /\ ReportJob(j, <<ReportPeriod(j.r)>>, FALSE)
      <3>1. j.periods = <<ReportPeriod(j.r)>> /\ j.includeZero = FALSE
        BY <2>1 DEF ReportJob
      <3> QED BY <1>1, <2>1, <3>1 DEF ReportJob, Reporting, ReportOf
    <2>2. CASE /\ j.r \in CompareRequests /\ CompareValid(j.r)
               /\ ReportJob(j, ComparePeriods(j.r), TRUE)
      <3>1. j.periods = ComparePeriods(j.r) /\ j.includeZero = TRUE
        BY <2>2 DEF ReportJob
      <3> QED BY <1>1, <2>2, <3>1 DEF ReportJob, Reporting, ReportOf
    <2> QED BY <2>1, <2>2 DEF Reporting
  <1>3. JobOK(n)
    BY <1>1, <1>2 DEF JobOK, Reporting
  <1> QED BY <1>2, <1>3

LEMMA ComparePeriodsParts ==
  ASSUME NEW r \in CompareRequests, CompareValid(r)
  PROVE  /\ FromMonth(r) \in 1 .. 12 /\ ToMonth(r) \in 1 .. 12
         /\ FromMonth(r) < ToMonth(r)
         /\ Len(ComparePeriods(r)) = ToMonth(r) - FromMonth(r) + 1
         /\ DOMAIN ComparePeriods(r) = 1 .. ToMonth(r) - FromMonth(r) + 1
         /\ Len(ComparePeriods(r)) \in Nat /\ Len(ComparePeriods(r)) >= 2
  <1>1. PICK from \in 1 .. 12, to \in 1 .. 12 :
          from = FromMonth(r) /\ to = ToMonth(r) /\ from < to
    BY DEF CompareValid, FromMonth, ToMonth
  <1>2. PICK n \in Nat : n = to - from + 1 /\ n >= 2
    BY <1>1
  <1>3. DOMAIN ComparePeriods(r) = 1 .. n
    BY <1>1, <1>2 DEF ComparePeriods
  <1>4. Len(ComparePeriods(r)) = n
    <2>1. ComparePeriods(r) \in [1 .. n -> ToSet(ComparePeriods(r))]
      BY <1>1, <1>2, <1>3 DEF ComparePeriods, ToSet
    <2> QED BY <2>1, FunctionIsText
  <1> QED BY <1>1, <1>2, <1>3, <1>4

LEMMA ReportLengths ==
  ASSUME NEW j, Reporting(j)
  PROVE  /\ Len(j.results) \in Nat \ {0} /\ Len(j.periods) \in Nat \ {0}
         /\ Len(j.results) <= Len(j.periods)
         /\ Len(j.results) \in 1 .. Len(j.results)
  <1>1. /\ \/ j.periods = <<ReportPeriod(j.r)>>
           \/ /\ j.r \in CompareRequests /\ CompareValid(j.r)
              /\ j.periods = ComparePeriods(j.r)
        /\ Results(j.results) /\ Len(j.results) \in 1 .. Len(j.periods)
    BY ReportParts
  <1>2. PICK m \in Nat : m = Len(j.results)
    BY <1>1, ResultsParts
  <1>3. Len(<<ReportPeriod(j.r)>>) \in Nat
    OBVIOUS
  <1>4. PICK n \in Nat : n = Len(j.periods)
    BY <1>1, <1>3, ComparePeriodsParts
  <1>5. m \in 1 .. n
    BY <1>1, <1>2, <1>4
  <1> QED BY <1>2, <1>4, <1>5

LEMMA AllLeftOver == Categories = LeftOver(1) /\ 1 \in 1 .. Len(Categories) + 1
  <1>1. Categories \in Seq(Nat) /\ Len(Categories) \in Nat
    BY ConstantsTyped
  <1>2. SubSeq(Categories, 1, Len(Categories)) = Categories
    BY <1>1
  <1> QED BY <1>1, <1>2 DEF LeftOver

LEMMA ReportStarts ==
  ASSUME NEW r, NEW periods, NEW zero, writes \in 0 .. MaxWrite,
         \/ r \in ReportRequests /\ periods = <<ReportPeriod(r)>> /\ zero = FALSE
         \/ /\ r \in CompareRequests /\ CompareValid(r)
            /\ periods = ComparePeriods(r) /\ zero = TRUE
  PROVE  JobOK(Reports(r, periods, zero)) /\ Reporting(Reports(r, periods, zero))
  <1> DEFINE n == Reports(r, periods, zero)
  <1>1. /\ n.op = "report" /\ n.r = r /\ n.periods = periods
        /\ n.includeZero = zero /\ n.results = << <<>> >> /\ n.left = Categories
        /\ n.since = writes
    BY DEF Reports
  <1>2. Results(<< <<>> >>) /\ Len(<< <<>> >>) = 1
    <2>1. << <<>> >> = [k \in 1 .. 1 |-> << <<>> >>[k]]
      OBVIOUS
    <2>2. \A k \in 1 .. 1 : PricesTyped(<< <<>> >>[k])
      <3>1. DOMAIN <<>> = {} /\ <<>> = [k \in {} |-> 0]
        OBVIOUS
      <3>2. PricesTyped(<<>>)
        BY <3>1 DEF PricesTyped
      <3> QED BY <3>2
    <2>3. 1 \in Nat
      OBVIOUS
    <2> QED BY <2>1, <2>2, <2>3, ResultsMade
  <1>3. Categories = LeftOver(1) /\ 1 \in 1 .. Len(Categories) + 1
    BY AllLeftOver
  <1>4. 1 \in 1 .. Len(periods)
    <2>1. CASE periods = <<ReportPeriod(r)>>
      BY <2>1
    <2>2. CASE periods = ComparePeriods(r) /\ r \in CompareRequests /\ CompareValid(r)
      BY <2>2, ComparePeriodsParts
    <2> QED BY <2>1, <2>2
  <1>5. n = [op |-> n.op, r |-> n.r, periods |-> periods, includeZero |-> zero,
             results |-> n.results, left |-> n.left, since |-> n.since]
    BY DEF Reports
  <1>6. ReportJob(n, periods, zero)
    BY <1>1, <1>2, <1>3, <1>4, <1>5 DEF ReportJob
  <1> HIDE DEF n
  <1>7. Reporting(n)
    BY <1>1, <1>6 DEF Reporting
  <1>8. JobOK(n)
    BY <1>1, <1>7 DEF JobOK, Reporting
  <1> QED BY <1>7, <1>8 DEF n
TotalOf(k) == SumOf(WithCategory(job.periods[Len(job.results)], k))

PricesWith(k) ==
  LET old == job.results[Len(job.results)]
  IN  IF job.includeZero \/ TotalOf(k) # 0
      THEN WithRow(old, Categories[k], TotalOf(k)) ELSE old

Replaced(j, results, left) == [j EXCEPT !.left = left, !.results = results]
Printed(j) == [j EXCEPT !.op = "reported"]

LEMMA ReportExcept ==
  ASSUME NEW j, j = ReportOf(j, j.op, j.results, j.left), NEW results, NEW left
  PROVE  /\ Replaced(j, results, left) = ReportOf(j, j.op, results, left)
         /\ Printed(j) = ReportOf(j, "reported", j.results, j.left)
  <1>1. PICK op, r, periods, zero, old, rest, since :
          /\ j = [op |-> op, r |-> r, periods |-> periods, includeZero |-> zero,
                  results |-> old, left |-> rest, since |-> since]
    BY Zenon DEF ReportOf
  <1>2. /\ j.op = op /\ j.r = r /\ j.periods = periods /\ j.includeZero = zero
        /\ j.results = old /\ j.left = rest /\ j.since = since
    BY <1>1
  <1>3. Replaced(j, results, left) =
          [op |-> op, r |-> r, periods |-> periods, includeZero |-> zero,
           results |-> results, left |-> left, since |-> since]
    <2> DEFINE a == [j EXCEPT !.left = left]
    <2>1. a = [op |-> op, r |-> r, periods |-> periods, includeZero |-> zero,
               results |-> old, left |-> left, since |-> since]
      BY <1>1
    <2>2. Replaced(j, results, left) = [a EXCEPT !.results = results]
      BY DEF Replaced
    <2> HIDE DEF a
    <2>3. [a EXCEPT !.results = results] =
            [op |-> op, r |-> r, periods |-> periods, includeZero |-> zero,
             results |-> results, left |-> left, since |-> since]
      BY <2>1
    <2> QED BY <2>2, <2>3
  <1>4. Printed(j) =
          [op |-> "reported", r |-> r, periods |-> periods, includeZero |-> zero,
           results |-> old, left |-> rest, since |-> since]
    BY <1>1 DEF Printed
  <1> QED BY <1>2, <1>3, <1>4, Zenon DEF ReportOf

LEMMA SumOfType ==
  ASSUME TableOK, NEW c
  PROVE  SumOf(c) \in Nat
  <1>1. Select(c) \subseteq DOMAIN expenses
    BY SelectedRows
  <1> QED BY <1>1, RowsOfTable DEF SumOf

\* What SelectCategory does when the k-th category is the first of those left.
LEMMA SelectCategoryDoes ==
  ASSUME TypeOK, SelectCategory
  PROVE  /\ Reporting(job)
         /\ \E k \in 1 .. Len(Categories) :
              /\ job.left = LeftOver(k)
              /\ TotalOf(k) \in Nat /\ PricesTyped(PricesWith(k))
              /\ job' = ReportOf(job, "report",
                                 [job.results EXCEPT ![Len(job.results)] = PricesWith(k)],
                                 LeftOver(k + 1))
  <1>1. Reporting(job) /\ job.op = "report" /\ job.left # <<>>
    BY ReportingOK DEF TypeOK, SelectCategory
  <1>2. PICK k \in 1 .. Len(Categories) + 1 : job.left = LeftOver(k)
    BY <1>1, ReportParts
  <1>3. PICK n \in Nat : n = Len(Categories)
    BY ConstantsTyped
  <1>4. k \in 1 .. n /\ k + 1 \in 1 .. n + 1
    BY <1>1, <1>2, <1>3, LeftOverParts
  <1>5. /\ Head(job.left) = Categories[k] /\ Tail(job.left) = LeftOver(k + 1)
        /\ Len(job.left) = n - k + 1
    BY <1>2, <1>3, <1>4, LeftOverParts
  <1>6. n - (n - k + 1) + 1 = k
    BY <1>4
  <1>7. TotalOf(k) \in Nat
    BY SumOfType DEF TotalOf, TypeOK, TableOK
  <1>8. PICK m \in Nat : m = Len(job.results) /\ m \in 1 .. m
    <2>1. /\ Results(job.results) /\ Len(job.results) \in 1 .. Len(job.periods)
      BY <1>1, ReportParts
    <2> QED BY <2>1, ResultsParts
  <1>9. PricesTyped(job.results[m])
    <2>1. Results(job.results)
      BY <1>1, ReportParts
    <2> QED BY <1>8, <2>1, ResultsParts
  <1>10. PricesTyped(PricesWith(k))
    <2> DEFINE old == job.results[m]
               new == WithRow(old, Categories[k], TotalOf(k))
    <2>1. Categories[k] \in CategoryIds
      BY <1>3, <1>4, ConstantsTyped
    <2>2. PricesTyped(new)
      <3>1. DOMAIN new = DOMAIN old \cup {Categories[k]}
        BY DEF WithRow
      <3>2. \A i \in DOMAIN new : new[i] \in Nat
        BY <1>7, <1>9 DEF WithRow, PricesTyped
      <3>3. new = [i \in DOMAIN new |-> new[i]]
        BY DEF WithRow
      <3> HIDE DEF new
      <3>4. DOMAIN new \subseteq CategoryIds
        BY <1>9, <2>1, <3>1 DEF PricesTyped
      <3> QED BY <3>2, <3>3, <3>4 DEF PricesTyped
    <2>3. PricesWith(k) = old \/ PricesWith(k) = new
      BY <1>8 DEF PricesWith
    <2> QED BY <1>9, <2>2, <2>3
  <1>11. job' = [job EXCEPT !.left = LeftOver(k + 1),
                            !.results = [job.results EXCEPT
                                           ![Len(job.results)] = PricesWith(k)]]
    BY <1>3, <1>5, <1>6 DEF SelectCategory, CategoriesAfter, PricesWith, TotalOf
  <1>12. job = ReportOf(job, job.op, job.results, job.left)
    BY <1>1, ReportParts
  <1>13. job' = ReportOf(job, "report",
                         [job.results EXCEPT ![Len(job.results)] = PricesWith(k)],
                         LeftOver(k + 1))
    <2> DEFINE new == [job.results EXCEPT ![Len(job.results)] = PricesWith(k)]
               left == LeftOver(k + 1)
    <2>1. job' = Replaced(job, new, left)
      BY <1>11 DEF Replaced
    <2> HIDE DEF new, left
    <2>2. job' = ReportOf(job, job.op, new, left)
      BY <1>12, <2>1, ReportExcept
    <2>3. job' = ReportOf(job, "report", new, left)
      BY <1>1, <2>2, Zenon
    <2> QED BY <2>3 DEF new, left
  <1> QED BY <1>1, <1>2, <1>3, <1>4, <1>7, <1>10, <1>13

LEMMA NextMonthDoes ==
  ASSUME TypeOK, NextMonth
  PROVE  /\ Reporting(job) /\ job.left = <<>> /\ job.op = "report"
         /\ Len(job.results) + 1 \in 1 .. Len(job.periods)
         /\ job' = ReportOf(job, "report", Append(job.results, <<>>), LeftOver(1))
  <1>1. /\ Reporting(job) /\ job.op = "report" /\ job.left = <<>>
        /\ Len(job.results) < Len(job.periods)
    BY ReportingOK DEF TypeOK, NextMonth, MonthsLeft
  <1>2. Categories = LeftOver(1)
    BY AllLeftOver
  <1>3. job = ReportOf(job, job.op, job.results, job.left)
    BY <1>1, ReportParts
  <1>4. job' = [job EXCEPT !.left = LeftOver(1), !.results = Append(job.results, <<>>)]
    BY <1>2 DEF NextMonth
  <1>5. job' = ReportOf(job, "report", Append(job.results, <<>>), LeftOver(1))
    <2> DEFINE new == Append(job.results, <<>>)
               left == LeftOver(1)
    <2>1. job' = Replaced(job, new, left)
      BY <1>4 DEF Replaced
    <2> HIDE DEF new, left
    <2>2. job' = ReportOf(job, job.op, new, left)
      BY <1>3, <2>1, ReportExcept
    <2>3. job' = ReportOf(job, "report", new, left)
      BY <1>1, <2>2, Zenon
    <2> QED BY <2>3 DEF new, left
  <1>6. Len(job.results) \in Nat /\ Len(job.periods) \in Nat
    <2>1. /\ \/ job.periods = <<ReportPeriod(job.r)>>
             \/ /\ job.r \in CompareRequests /\ CompareValid(job.r)
                /\ job.periods = ComparePeriods(job.r)
          /\ Results(job.results)
      BY <1>1, ReportParts
    <2>2. Len(<<ReportPeriod(job.r)>>) \in Nat
      OBVIOUS
    <2> QED BY <2>1, <2>2, ComparePeriodsParts, ResultsParts
  <1>7. Len(job.results) + 1 \in 1 .. Len(job.periods)
    BY <1>1, <1>6
  <1> QED BY <1>1, <1>5, <1>7
-----------------------------------------------------------------------------
(***************************************************************************)
(* Type correctness.                                                       *)
(***************************************************************************)
LEMMA RequestsTyped ==
  /\ ListRequests \subseteq ListRequest
  /\ ReportRequests \subseteq ReportRequest
  /\ CompareRequests \subseteq CompareRequest
  BY QueriesAssumption

LEMMA WaitsOK ==
  JobOK(Idle) /\ JobOK(Off) /\ \A status \in Failures : JobOK(Done(status))
  BY Zenon DEF JobOK

LEMMA ListingOK ==
  ASSUME NEW r \in ListRequests, NEW shown \in Seq(RowId), NEW total \in Nat,
         NEW since \in 0 .. MaxWrite
  PROVE  /\ JobOK([op |-> "select", r |-> r, since |-> since])
         /\ JobOK([op |-> "sum", r |-> r, shown |-> shown, since |-> since])
         /\ JobOK(Shown(r, shown, total, since))
  <1>1. JobOK([op |-> "select", r |-> r, since |-> since])
    BY DEF JobOK
  <1>2. JobOK([op |-> "sum", r |-> r, shown |-> shown, since |-> since])
    BY DEF JobOK
  <1>3. JobOK(Shown(r, shown, total, since))
    BY DEF JobOK, Shown
  <1> QED BY <1>1, <1>2, <1>3

\* What a listing between its statements holds.
LEMMA ListingParts ==
  ASSUME JobOK(job), job.op \in {"select", "sum", "shown"}
  PROVE  /\ job.r \in ListRequests /\ job.since \in 0 .. MaxWrite
         /\ job.op = "select" =>
              job = [op |-> "select", r |-> job.r, since |-> job.since]
         /\ job.op # "select" => job.shown \in Seq(RowId)
  <1>1. /\ job \notin {Idle, Off} /\ \A status : job # Done(status)
        /\ job.op \notin {"report", "reported"}
    BY DEF Idle, Off, Done
  <1>2. /\ job.r \in ListRequests
        /\ \/ job \in [op : {"select"}, r : {job.r}, since : 0 .. MaxWrite]
           \/ job \in [op : {"sum"}, r : {job.r}, shown : Seq(RowId),
                       since : 0 .. MaxWrite]
           \/ job \in [op : {"shown"}, r : {job.r}, shown : Seq(RowId),
                       total : Nat, since : 0 .. MaxWrite]
    BY <1>1 DEF JobOK
  <1>3. CASE job \in [op : {"select"}, r : {job.r}, since : 0 .. MaxWrite]
    BY <1>2, <1>3
  <1>4. CASE job \in [op : {"sum"}, r : {job.r}, shown : Seq(RowId),
                      since : 0 .. MaxWrite]
    BY <1>2, <1>4
  <1>5. CASE job \in [op : {"shown"}, r : {job.r}, shown : Seq(RowId),
                      total : Nat, since : 0 .. MaxWrite]
    BY <1>2, <1>5
  <1> QED BY <1>2, <1>3, <1>4, <1>5

\* The three ways in which the rows of a listing are read.
LEMMA ListSelectDoes ==
  ASSUME TypeOK, ListSelect
  PROVE  LET r == job.r
             rows == Select(ListCondition(r))
         IN  /\ r \in ListRequests /\ job.since \in 0 .. MaxWrite
             /\ \/ ~Selects(r) /\ job' = Shown(r, <<>>, 0, job.since)
                \/ ~Selects(r) /\ job' = Done("DBError")
                \/ /\ Selects(r)
                   /\ \E s \in Seq(rows) :
                        /\ s \in Seq(RowId) /\ ToSet(s) = rows
                        /\ SumOver(PricesOf(expenses), rows) \in Nat
                        /\ \/ job' = Shown(r, s, SumOver(PricesOf(expenses), rows),
                                           job.since)
                           \/ job' = [op |-> "sum", r |-> r, shown |-> s,
                                      since |-> job.since]
  <1> DEFINE r == job.r
             rows == Select(ListCondition(r))
             total == SumOver(PricesOf(expenses), rows)
  <1>1. r \in ListRequests /\ job.since \in 0 .. MaxWrite
    BY ListingParts DEF TypeOK, ListSelect
  <1>2. TableOK /\ rows \subseteq DOMAIN expenses
    BY SelectedRows DEF TypeOK, TableOK
  <1>3. total \in Nat
    BY <1>2, RowsOfTable
  <1>4. CASE ~Selects(r)
    BY <1>1, <1>4 DEF ListSelect
  <1>5. CASE Selects(r)
    <2>1. \/ \E s \in ByCalendar(rows) : job' = Shown(r, s, total, job.since)
          \/ \E s \in OrderedBy(rows, OrderColumn(r), "descending" \in r.flags) :
               job' = [op |-> "sum", r |-> r, shown |-> s, since |-> job.since]
      BY <1>5, Zenon DEF ListSelect
    <2>2. CASE \E s \in ByCalendar(rows) : job' = Shown(r, s, total, job.since)
      <3>1. PICK s \in ByCalendar(rows) : job' = Shown(r, s, total, job.since)
        BY <2>2
      <3>2. s \in Seq(RowId) /\ ToSet(s) = rows /\ s \in Seq(rows)
        BY <1>2, <3>1, ListedRows
      <3> QED BY <1>1, <1>3, <1>5, <3>1, <3>2, Zenon
    <2>3. CASE \E s \in OrderedBy(rows, OrderColumn(r), "descending" \in r.flags) :
                 job' = [op |-> "sum", r |-> r, shown |-> s, since |-> job.since]
      <3>1. PICK s \in OrderedBy(rows, OrderColumn(r), "descending" \in r.flags) :
              job' = [op |-> "sum", r |-> r, shown |-> s, since |-> job.since]
        BY <2>3
      <3>2. \E col, descending : s \in OrderedBy(rows, col, descending)
        BY <3>1, Zenon
      <3>3. s \in Seq(RowId) /\ ToSet(s) = rows /\ s \in Seq(rows)
        BY <1>2, <3>2, ListedRows
      <3> QED BY <1>1, <1>3, <1>5, <3>1, <3>3, Zenon
    <2> QED BY <2>1, <2>2, <2>3
  <1> QED BY <1>4, <1>5

LEMMA ListSumDoes ==
  ASSUME TypeOK, ListSum
  PROVE  /\ job.r \in ListRequests /\ job.since \in 0 .. MaxWrite
         /\ job.shown \in Seq(RowId)
         /\ SumOf(ListCondition(job.r)) \in Nat
         /\ job' = Shown(job.r, job.shown, SumOf(ListCondition(job.r)), job.since)
  <1>1. TableOK
    BY DEF TypeOK, TableOK
  <1>2. SumOf(ListCondition(job.r)) \in Nat
    BY <1>1, SumOfType
  <1> QED BY <1>2, ListingParts DEF TypeOK, ListSum

LEMMA ListsTyped ==
  ASSUME TypeOK
  PROVE  /\ List => JobOK(job')
         /\ ListSelect => JobOK(job')
         /\ ListSum => JobOK(job')
  <1>1. ASSUME List PROVE JobOK(job')
    <2>1. PICK r \in ListRequests :
            \/ job' = Done("CategoryDoesNotExist") \/ job' = Done("GeneralFailure")
            \/ job' = [op |-> "select", r |-> r, since |-> writes]
      BY <1>1 DEF List
    <2>2. writes \in 0 .. MaxWrite
      BY DEF TypeOK
    <2>3. <<>> \in Seq(RowId) /\ 0 \in Nat
      OBVIOUS
    <2>4. JobOK([op |-> "select", r |-> r, since |-> writes])
      BY <2>2, <2>3, ListingOK, Zenon
    <2>5. JobOK(Done("CategoryDoesNotExist")) /\ JobOK(Done("GeneralFailure"))
      BY WaitsOK DEF Failures
    <2> QED BY <2>1, <2>4, <2>5, Zenon
  <1>2. ASSUME ListSelect PROVE JobOK(job')
    <2>1. <<>> \in Seq(RowId) /\ 0 \in Nat
      OBVIOUS
    <2>2. job.r \in ListRequests /\ job.since \in 0 .. MaxWrite
      BY <1>2, ListSelectDoes
    <2>3. JobOK(Shown(job.r, <<>>, 0, job.since))
      BY <2>1, <2>2, ListingOK, Zenon
    <2>4. JobOK(Done("DBError"))
      BY WaitsOK DEF Failures
    <2>5. ASSUME NEW s \in Seq(RowId), NEW total \in Nat
          PROVE  /\ JobOK(Shown(job.r, s, total, job.since))
                 /\ JobOK([op |-> "sum", r |-> job.r, shown |-> s,
                           since |-> job.since])
      BY <2>2, ListingOK, Zenon
    <2>6. CASE Selects(job.r)
      <3>1. PICK s \in Seq(RowId), total \in Nat :
              \/ job' = Shown(job.r, s, total, job.since)
              \/ job' = [op |-> "sum", r |-> job.r, shown |-> s, since |-> job.since]
        BY <1>2, <2>6, ListSelectDoes, Zenon
      <3> QED BY <2>5, <3>1, Zenon
    <2>7. CASE ~Selects(job.r)
      BY <1>2, <2>3, <2>4, <2>7, ListSelectDoes, Zenon
    <2> QED BY <2>6, <2>7
  <1>3. ASSUME ListSum PROVE JobOK(job')
    BY <1>3, ListSumDoes, ListingOK
  <1> QED BY <1>1, <1>2, <1>3

\* What the three statements of a report, or of a comparison, make of the job.
LEMMA ReportsStart ==
  ASSUME TypeOK, Report \/ CompareMonths
  PROVE  \/ job' = Done("InvalidParameterValue")
         \/ \E r, periods, zero :
              /\ job' = Reports(r, periods, zero)
              /\ \/ /\ r \in ReportRequests /\ periods = <<ReportPeriod(r)>>
                    /\ zero = FALSE
                 \/ /\ r \in CompareRequests /\ CompareValid(r)
                    /\ periods = ComparePeriods(r) /\ zero = TRUE
  <1>1. CASE Report
    BY <1>1, Zenon DEF Report
  <1>2. CASE CompareMonths
    <2>1. PICK r \in CompareRequests :
            job' = IF CompareValid(r)
                   THEN Reports(r, ComparePeriods(r), ZeroIncluded)
                   ELSE Done("InvalidParameterValue")
      BY <1>2 DEF CompareMonths
    <2>2. ZeroIncluded = TRUE
      BY DEF ZeroIncluded
    <2>3. CASE CompareValid(r)
      BY <2>1, <2>2, <2>3, Zenon
    <2>4. CASE ~CompareValid(r)
      BY <2>1, <2>4
    <2> QED BY <2>3, <2>4
  <1> QED BY <1>1, <1>2

LEMMA ReportsStartReport ==
  ASSUME TypeOK, Report \/ CompareMonths
  PROVE  \/ job'.op = "done"
         \/ job'.op = "report" /\ job'.since = writes
  <1>1. CASE job' = Done("InvalidParameterValue")
    BY <1>1 DEF Done
  <1>2. CASE \E r, periods, zero : job' = Reports(r, periods, zero)
    BY <1>2 DEF Reports
  <1> QED BY <1>1, <1>2, ReportsStart, Zenon

LEMMA PrintReportDoes ==
  ASSUME TypeOK, PrintReport
  PROVE  /\ Reporting(job) /\ job.op = "report" /\ job.left = <<>>
         /\ job.left = LeftOver(Len(Categories) + 1)
         /\ Len(Categories) + 1 \in 1 .. Len(Categories) + 1
         /\ Len(job.results) = Len(job.periods)
         /\ \/ job' = Off
            \/ job' = ReportOf(job, "reported", job.results,
                               LeftOver(Len(Categories) + 1))
  <1>1. /\ Reporting(job) /\ job.op = "report" /\ job.left = <<>>
        /\ ~(Len(job.results) < Len(job.periods))
    BY ReportingOK DEF TypeOK, PrintReport, MonthsLeft
  <1>2. PICK k \in 1 .. Len(Categories) + 1 : job.left = LeftOver(k)
    BY <1>1, ReportParts
  <1>3. k = Len(Categories) + 1
    BY <1>1, <1>2, LeftOverParts
  <1>4. job = ReportOf(job, job.op, job.results, job.left)
    BY <1>1, ReportParts
  <1>5. job' = Off \/ job' = Printed(job)
    BY DEF PrintReport, Printed
  <1>6. job' = Off \/ job' = ReportOf(job, "reported", job.results, job.left)
    BY <1>4, <1>5, ReportExcept
  <1>7. Len(job.results) = Len(job.periods)
    <2>1. Len(job.results) \in 1 .. Len(job.periods)
      BY <1>1, ReportParts
    <2>2. Len(job.results) \in Nat /\ Len(job.periods) \in Nat
      BY <1>1, ReportLengths
    <2> QED BY <1>1, <2>1, <2>2
  <1>8. Len(Categories) + 1 \in 1 .. Len(Categories) + 1
    BY ConstantsTyped
  <1> QED BY <1>1, <1>2, <1>3, <1>6, <1>7, <1>8, Zenon

LEMMA ReportsTyped ==
  ASSUME TypeOK
  PROVE  /\ Report \/ CompareMonths => JobOK(job')
         /\ SelectCategory => JobOK(job')
         /\ NextMonth => JobOK(job')
         /\ PrintReport => JobOK(job')
  <1>1. ASSUME Report \/ CompareMonths PROVE JobOK(job')
    <2>1. writes \in 0 .. MaxWrite
      BY DEF TypeOK
    <2>2. CASE job' = Done("InvalidParameterValue")
      BY <2>2, WaitsOK DEF Failures
    <2>3. CASE job' # Done("InvalidParameterValue")
      <3>1. PICK r, periods, zero :
              /\ job' = Reports(r, periods, zero)
              /\ \/ /\ r \in ReportRequests /\ periods = <<ReportPeriod(r)>>
                    /\ zero = FALSE
                 \/ /\ r \in CompareRequests /\ CompareValid(r)
                    /\ periods = ComparePeriods(r) /\ zero = TRUE
        BY <1>1, <2>3, ReportsStart, Zenon
      <3>2. JobOK(Reports(r, periods, zero))
        BY <2>1, <3>1, ReportStarts, Zenon
      <3> QED BY <3>1, <3>2
    <2> QED BY <2>2, <2>3
  <1>2. ASSUME SelectCategory PROVE JobOK(job')
    <2>1. PICK k \in 1 .. Len(Categories) :
            /\ PricesTyped(PricesWith(k))
            /\ job' = ReportOf(job, "report",
                               [job.results EXCEPT ![Len(job.results)] = PricesWith(k)],
                               LeftOver(k + 1))
      BY <1>2, SelectCategoryDoes, Zenon
    <2>2. /\ Reporting(job) /\ Results(job.results)
          /\ Len(job.results) \in 1 .. Len(job.periods)
      BY <1>2, SelectCategoryDoes, ReportParts
    <2>3. PICK new : new = [job.results EXCEPT ![Len(job.results)] = PricesWith(k)]
      OBVIOUS
    <2>4. Len(job.results) \in 1 .. Len(job.results)
      BY <2>2, ReportLengths
    <2>5. Results(new) /\ Len(new) = Len(job.results)
      BY <2>1, <2>2, <2>3, <2>4, ResultsExcept
    <2>6. k + 1 \in 1 .. Len(Categories) + 1
      BY ConstantsTyped
    <2>7. JobOK(ReportOf(job, "report", new, LeftOver(k + 1)))
      BY <2>2, <2>5, <2>6, ReportGoesOn
    <2> QED BY <2>1, <2>3, <2>7
  <1>3. ASSUME NextMonth PROVE JobOK(job')
    <2>1. /\ Reporting(job) /\ Results(job.results)
          /\ Len(job.results) + 1 \in 1 .. Len(job.periods)
          /\ job' = ReportOf(job, "report", Append(job.results, <<>>), LeftOver(1))
      BY <1>3, NextMonthDoes, ReportParts
    <2>2. PICK new : new = Append(job.results, <<>>)
      OBVIOUS
    <2>3. Results(new) /\ Len(new) = Len(job.results) + 1
      BY <2>1, <2>2, ResultsAppend
    <2>4. 1 \in 1 .. Len(Categories) + 1
      BY ConstantsTyped
    <2>5. JobOK(ReportOf(job, "report", new, LeftOver(1)))
      BY <2>1, <2>3, <2>4, ReportGoesOn
    <2> QED BY <2>1, <2>2, <2>5
  <1>4. ASSUME PrintReport PROVE JobOK(job')
    <2>1. /\ Reporting(job) /\ Results(job.results)
          /\ Len(job.results) \in 1 .. Len(job.periods)
          /\ Len(Categories) + 1 \in 1 .. Len(Categories) + 1
          /\ \/ job' = Off
             \/ job' = ReportOf(job, "reported", job.results,
                                LeftOver(Len(Categories) + 1))
      BY <1>4, PrintReportDoes, ReportParts
    <2>2. JobOK(ReportOf(job, "reported", job.results, LeftOver(Len(Categories) + 1)))
      BY <2>1, ReportGoesOn
    <2> QED BY <2>1, <2>2, WaitsOK
  <1> QED BY <1>1, <1>2, <1>3, <1>4

\* A write of another session leaves a table of readable expenses.
LEMMA WriteKeepsTable ==
  ASSUME TypeOK, Write
  PROVE  IsTable(expenses', ExpenseRow) /\ IsFiniteSet(DOMAIN expenses')
  <1>1. IsTable(expenses, ExpenseRow) /\ IsFiniteSet(DOMAIN expenses)
    BY DEF TypeOK
  <1>2. ASSUME NEW id \in NextRowId(expenses), NEW row \in RowValues,
               expenses' = WithRow(expenses, id, row)
        PROVE  IsTable(expenses', ExpenseRow) /\ IsFiniteSet(DOMAIN expenses')
    <2>1. row \in ExpenseRow
      BY QueriesAssumption
    <2>2. id \in RowId
      BY <1>1, NextRowIdFresh
    <2>3. /\ IsTable(expenses', ExpenseRow)
          /\ DOMAIN expenses' = DOMAIN expenses \cup {id}
      BY <1>1, <1>2, <2>1, <2>2, WithRowType
    <2> QED BY <1>1, <2>3, FS_AddElement
  <1>3. ASSUME NEW id \in DOMAIN expenses, NEW c \in ToSet(Categories),
               expenses' = [expenses EXCEPT ![id].category = c]
        PROVE  IsTable(expenses', ExpenseRow) /\ IsFiniteSet(DOMAIN expenses')
    <2>1. [expenses[id] EXCEPT !.category = c] \in ExpenseRow
      BY <1>1 DEF IsTable, ExpenseRow, CategoryIds
    <2>2. /\ DOMAIN expenses' = DOMAIN expenses
          /\ expenses' \in [DOMAIN expenses -> ExpenseRow]
      BY <1>1, <1>3, <2>1 DEF IsTable
    <2> QED BY <1>1, <2>2 DEF IsTable
  <1>4. ASSUME NEW id \in DOMAIN expenses, expenses' = WithoutRows(expenses, {id})
        PROVE  IsTable(expenses', ExpenseRow) /\ IsFiniteSet(DOMAIN expenses')
    <2>1. /\ IsTable(expenses', ExpenseRow)
          /\ DOMAIN expenses' = DOMAIN expenses \ {id}
      BY <1>1, <1>4, WithoutRowsType
    <2> QED BY <1>1, <2>1, FS_RemoveElement
  <1> QED BY <1>2, <1>3, <1>4 DEF Write

(***************************************************************************)
(* The queries keep to their types: an expense stays readable whatever      *)
(* other sessions write, a listing holds row ids, and compareMonths never   *)
(* goes through more months than its range has.                            *)
(***************************************************************************)
THEOREM QueriesTypeCorrect == Spec => []TypeOK
  <1>1. Init => TypeOK
    <2> SUFFICES ASSUME Init PROVE TypeOK
      OBVIOUS
    <2>1. IsTable(expenses, ExpenseRow) /\ IsFiniteSet(DOMAIN expenses)
      BY QueriesAssumption DEF Init
    <2>2. writes \in 0 .. MaxWrite
      BY ConstantsTyped DEF Init
    <2> QED BY <2>1, <2>2, WaitsOK DEF Init, TypeOK
  <1>2. TypeOK /\ [Next]_vars => TypeOK'
    <2> SUFFICES ASSUME TypeOK, [Next]_vars PROVE TypeOK'
      OBVIOUS
    <2>1. ASSUME UNCHANGED <<expenses, writes>>, JobOK(job') PROVE TypeOK'
      BY <2>1 DEF TypeOK
    <2>2. CASE List
      BY <2>1, <2>2, ListsTyped DEF List
    <2>3. CASE Report
      BY <2>1, <2>3, ReportsTyped DEF Report
    <2>4. CASE CompareMonths
      BY <2>1, <2>4, ReportsTyped DEF CompareMonths
    <2>5. CASE ListSelect
      BY <2>1, <2>5, ListsTyped DEF ListSelect
    <2>6. CASE ListSum
      BY <2>1, <2>6, ListsTyped DEF ListSum
    <2>7. CASE SelectCategory
      BY <2>1, <2>7, ReportsTyped DEF SelectCategory
    <2>8. CASE NextMonth
      BY <2>1, <2>8, ReportsTyped DEF NextMonth
    <2>9. CASE PrintReport
      BY <2>1, <2>9, ReportsTyped DEF PrintReport
    <2>10. CASE Return
      BY <2>1, <2>10, WaitsOK DEF Return
    <2>11. CASE Write
      <3>1. IsTable(expenses', ExpenseRow) /\ IsFiniteSet(DOMAIN expenses')
        BY <2>11, WriteKeepsTable
      <3>2. writes' \in 0 .. MaxWrite
        BY <2>11, ConstantsTyped DEF Write, TypeOK
      <3>3. JobOK(job')
        BY <2>11 DEF Write, TypeOK
      <3> QED BY <3>1, <3>2, <3>3 DEF TypeOK
    <2>12. CASE UNCHANGED vars
      BY <2>12 DEF vars, TypeOK
    <2> QED BY <2>2, <2>3, <2>4, <2>5, <2>6, <2>7, <2>8, <2>9, <2>10, <2>11,
               <2>12 DEF Next, QueryStep
  <1> QED BY <1>1, <1>2, PTL DEF Spec
-----------------------------------------------------------------------------
(***************************************************************************)
(* Listings.                                                               *)
(***************************************************************************)
AskedFor(r) == {i \in DOMAIN expenses : Asked(r, expenses[i])}

\* What is shown, or is about to be, once the rows are read.
LEMMA ListReadsWhatIsAsked ==
  ASSUME TypeOK, ListSelect, Selects(job.r)
  PROVE  /\ ToSet(job'.shown) = AskedFor(job.r)
         /\ job'.op = "shown" =>
              job'.total = SumOver(PricesOf(expenses), AskedFor(job.r))
  <1> DEFINE r == job.r
             rows == Select(ListCondition(r))
  <1>1. TableOK /\ r \in ListRequests /\ Parses(ListCondition(r))
    BY ListSelectDoes DEF TypeOK, TableOK, Selects
  <1>2. rows = AskedFor(r)
    BY <1>1, SelectedAsAsked DEF AskedFor
  <1>3. PICK s \in Seq(rows) :
          /\ ToSet(s) = rows
          /\ \/ job' = Shown(r, s, SumOver(PricesOf(expenses), rows), job.since)
             \/ job' = [op |-> "sum", r |-> r, shown |-> s, since |-> job.since]
    BY ListSelectDoes, Zenon
  <1> HIDE DEF rows
  <1>4. CASE job' = Shown(r, s, SumOver(PricesOf(expenses), rows), job.since)
    <2>1. /\ job'.shown = s
          /\ job'.total = SumOver(PricesOf(expenses), rows)
      BY <1>4 DEF Shown
    <2> QED BY <1>2, <1>3, <2>1
  <1>5. CASE job' = [op |-> "sum", r |-> r, shown |-> s, since |-> job.since]
    <2>1. job'.shown = s /\ job'.op = "sum"
      BY <1>5
    <2> QED BY <1>2, <1>3, <2>1
  <1> QED BY <1>3, <1>4, <1>5

(***************************************************************************)
(* What list shows are the expenses that the options of the line ask for,  *)
(* by the calendar and not by the texts of dates, for every table and every *)
(* request that SQLite accepts.                                            *)
(***************************************************************************)
THEOREM ListShowsWhatIsAsked == Spec => ListedAsAsked
  <1>1. TypeOK /\ [Next]_vars =>
          (ListSelect /\ Selects(job.r) =>
             ToSet(job'.shown) =
               {i \in DOMAIN expenses : Asked(job.r, expenses[i])})
    BY ListReadsWhatIsAsked DEF AskedFor
  <1> QED BY <1>1, QueriesTypeCorrect, PTL DEF Spec, ListedAsAsked

\* A command that is being executed began when there were no more writes than
\* there are now.
SinceInv == job.op \notin {"idle", "done", "off"} => job.since <= writes

LEMMA JobSince ==
  ASSUME JobOK(job), job.op \notin {"idle", "done", "off"}
  PROVE  job.since \in 0 .. MaxWrite
  <1>1. CASE job.op \in {"select", "sum", "shown"}
    BY <1>1, ListingParts
  <1>2. CASE job.op \in {"report", "reported"}
    BY <1>2, ReportingOK, ReportParts
  <1>3. job \notin {Idle, Off} /\ \A status : job # Done(status)
    BY DEF Idle, Off, Done
  <1> QED BY <1>1, <1>2, <1>3 DEF JobOK

LEMMA SinceInvariant == Spec => []SinceInv
  <1>1. Init => SinceInv
    BY DEF Init, SinceInv, Idle
  <1>2. TypeOK /\ SinceInv /\ [Next]_vars => SinceInv'
    <2> SUFFICES ASSUME TypeOK, SinceInv, [Next]_vars PROVE SinceInv'
      OBVIOUS
    <2>1. writes \in 0 .. MaxWrite /\ MaxWrite \in Nat
      BY ConstantsTyped DEF TypeOK
    <2>2. CASE List
      <3>1. writes' = writes
        BY <2>2 DEF List
      <3>2. PICK r \in ListRequests :
              \/ job' = Done("CategoryDoesNotExist")
              \/ job' = Done("GeneralFailure")
              \/ job' = [op |-> "select", r |-> r, since |-> writes]
        BY <2>2 DEF List
      <3> QED BY <2>1, <3>1, <3>2 DEF SinceInv, Done
    <2>3. CASE Report \/ CompareMonths
      <3>1. writes' = writes
        BY <2>3 DEF Report, CompareMonths
      <3>2. job'.op = "done" \/ job'.since = writes
        BY <2>3, ReportsStartReport
      <3> QED BY <2>1, <3>1, <3>2 DEF SinceInv
    <2>4. CASE ListSelect
      <3>1. writes' = writes /\ job.since <= writes
        BY <2>4 DEF ListSelect, SinceInv
      <3>2. job'.op = "done" \/ job'.since = job.since
        BY <2>4, ListSelectDoes DEF Done, Shown
      <3> QED BY <3>1, <3>2 DEF SinceInv
    <2>5. CASE ListSum
      <3>1. writes' = writes /\ job.since <= writes
        BY <2>5 DEF ListSum, SinceInv
      <3>2. job'.since = job.since
        BY <2>5, ListSumDoes DEF Shown
      <3> QED BY <3>1, <3>2 DEF SinceInv
    <2>6. CASE SelectCategory \/ NextMonth \/ PrintReport
      <3>1. writes' = writes /\ job.since <= writes
        BY <2>6 DEF SelectCategory, NextMonth, PrintReport, SinceInv
      <3>2. job' = Off \/ job'.since = job.since
        BY <2>6, SelectCategoryDoes, NextMonthDoes, PrintReportDoes DEF ReportOf
      <3> QED BY <3>1, <3>2 DEF SinceInv, Off
    <2>7. CASE Return
      BY <2>7 DEF Return, Idle, SinceInv
    <2>8. CASE Write
      <3>1. writes' = writes + 1 /\ job' = job
        BY <2>8 DEF Write
      <3>2. CASE job.op \in {"idle", "done", "off"}
        BY <3>1, <3>2 DEF SinceInv
      <3>3. CASE job.op \notin {"idle", "done", "off"}
        <4>1. job.since \in 0 .. MaxWrite
          BY <3>3, JobSince DEF TypeOK
        <4>2. job.since <= writes
          BY <3>3 DEF SinceInv
        <4>3. job.since <= writes + 1
          BY <2>1, <4>1, <4>2
        <4> QED BY <3>1, <4>3 DEF SinceInv
      <3> QED BY <3>2, <3>3
    <2>9. CASE UNCHANGED vars
      BY <2>9 DEF vars, SinceInv
    <2> QED BY <2>2, <2>3, <2>4, <2>5, <2>6, <2>7, <2>8, <2>9 DEF Next, QueryStep
  <1> QED BY <1>1, <1>2, QueriesTypeCorrect, PTL DEF Spec

(***************************************************************************)
(* The total below a listing is the sum of the prices that the user asked   *)
(* for, whether ProcessDBTable asked the database for it or the display    *)
(* added the rows up, as long as no other session has written.             *)
(***************************************************************************)
THEOREM TotalMatches == Spec => []TotalOfShown
  <1>1. Init => TotalOfShown
    BY DEF Init, TotalOfShown, Idle
  <1>2. TypeOK /\ SinceInv /\ TotalOfShown /\ [Next]_vars => TotalOfShown'
    <2> SUFFICES ASSUME TypeOK, SinceInv, TotalOfShown, [Next]_vars
                 PROVE  TotalOfShown'
      OBVIOUS
    <2>1. ASSUME job'.op # "shown" PROVE TotalOfShown'
      BY <2>1 DEF TotalOfShown
    <2>2. CASE List
      <3>1. PICK r \in ListRequests :
              \/ job' = Done("CategoryDoesNotExist")
              \/ job' = Done("GeneralFailure")
              \/ job' = [op |-> "select", r |-> r, since |-> writes]
        BY <2>2 DEF List
      <3>2. job'.op # "shown"
        BY <3>1 DEF Done
      <3> QED BY <2>1, <3>2
    <2>3. CASE Report \/ CompareMonths
      <3>1. job'.op # "shown"
        BY <2>3, ReportsStartReport
      <3> QED BY <2>1, <3>1
    <2>4. CASE ListSelect
      <3>1. CASE Selects(job.r)
        <4>1. /\ job'.op = "shown" =>
                   job'.total = SumOver(PricesOf(expenses), AskedFor(job.r))
          BY <2>4, <3>1, ListReadsWhatIsAsked
        <4>2. job'.r = job.r
          BY <2>4, <3>1, ListSelectDoes DEF Shown
        <4>3. expenses' = expenses
          BY <2>4 DEF ListSelect
        <4> QED BY <4>1, <4>2, <4>3 DEF TotalOfShown, AskedFor, PricesOf
      <3>2. CASE ~Selects(job.r)
        <4>1. job' = Done("DBError") \/ job' = Shown(job.r, <<>>, 0, job.since)
          BY <2>4, <3>2, ListSelectDoes
        <4>2. job'.op = "done" \/ job'.r = job.r
          BY <4>1 DEF Done, Shown
        <4> QED BY <2>1, <3>2, <4>2, Zenon DEF TotalOfShown
      <3> QED BY <3>1, <3>2
    <2>5. CASE ListSum
      <3>1. CASE Selects(job.r)
        <4>1. TableOK /\ job.r \in ListRequests /\ Parses(ListCondition(job.r))
          BY <2>5, <3>1, ListSumDoes DEF TypeOK, TableOK, Selects
        <4>2. Select(ListCondition(job.r)) = AskedFor(job.r)
          BY <4>1, SelectedAsAsked DEF AskedFor
        <4>3. /\ job'.total = SumOver(PricesOf(expenses), AskedFor(job.r))
              /\ job'.r = job.r
          BY <2>5, <4>2, ListSumDoes DEF Shown, SumOf
        <4>4. expenses' = expenses
          BY <2>5 DEF ListSum
        <4> QED BY <4>3, <4>4 DEF TotalOfShown, AskedFor, PricesOf
      <3>2. CASE ~Selects(job.r)
        <4>1. job'.r = job.r
          BY <2>5, ListSumDoes DEF Shown
        <4> QED BY <3>2, <4>1, Zenon DEF TotalOfShown
      <3> QED BY <3>1, <3>2
    <2>6. CASE SelectCategory \/ NextMonth \/ PrintReport
      <3>1. job'.op # "shown"
        BY <2>6, SelectCategoryDoes, NextMonthDoes, PrintReportDoes
           DEF ReportOf, Off
      <3> QED BY <2>1, <3>1
    <2>7. CASE Return
      BY <2>1, <2>7 DEF Return, Idle
    <2>8. CASE Write
      <3>1. writes' = writes + 1 /\ job' = job
        BY <2>8 DEF Write
      <3>2. CASE job.op = "shown"
        <4>1. job.since \in 0 .. MaxWrite /\ job.since <= writes
          BY <3>2, ListingParts DEF TypeOK, SinceInv
        <4>2. writes \in 0 .. MaxWrite /\ MaxWrite \in Nat
          BY ConstantsTyped DEF TypeOK
        <4>3. job.since # writes + 1
          BY <4>1, <4>2
        <4> QED BY <3>1, <4>3 DEF TotalOfShown
      <3>3. CASE job.op # "shown"
        BY <2>1, <3>1, <3>3
      <3> QED BY <3>2, <3>3
    <2>9. CASE UNCHANGED vars
      BY <2>9 DEF vars, TotalOfShown, PricesOf
    <2> QED BY <2>2, <2>3, <2>4, <2>5, <2>6, <2>7, <2>8, <2>9 DEF Next, QueryStep
  <1> QED BY <1>1, <1>2, QueriesTypeCorrect, SinceInvariant, PTL DEF Spec
-----------------------------------------------------------------------------
(***************************************************************************)
(* Reports.  What a report has read so far is the sum over the rows of its  *)
(* period in the categories that it has gone through.                      *)
(***************************************************************************)
\* The categories before the k-th.
Read(k) == {Categories[j] : j \in 1 .. k - 1}

RowsIn(r, m, ids) ==
  {i \in DOMAIN expenses :
     InPeriod(r, m, expenses[i].date) /\ expenses[i].category \in ids}

Counts(r, m, ids, prices) ==
  /\ DOMAIN prices \subseteq ids
  /\ SumOver(prices, DOMAIN prices) = SumOver(PricesOf(expenses), RowsIn(r, m, ids))

\* The m-th period has been read for the categories before the k-th.
Reached(j, m, k) ==
  IF m < Len(j.results) THEN k = Len(Categories) + 1 ELSE j.left = LeftOver(k)

ReportInv ==
  job.op \in {"report", "reported"} =>
    /\ job.op = "reported" =>
         job.left = <<>> /\ Len(job.results) = Len(job.periods)
    /\ \A m \in 1 .. Len(job.results), k \in 1 .. Len(Categories) + 1 :
         Reached(job, m, k) =>
           /\ job.includeZero => DOMAIN job.results[m] = Read(k)
           /\ job.since = writes => Counts(job.r, m, Read(k), job.results[m])

LEMMA ReadCategories ==
  /\ Read(1) = {}
  /\ Read(Len(Categories) + 1) = CategoryIds
  /\ \A k \in 1 .. Len(Categories) :
       /\ Read(k + 1) = Read(k) \cup {Categories[k]}
       /\ Categories[k] \notin Read(k)
  <1>1. PICK n \in Nat : n = Len(Categories)
    BY ConstantsTyped
  <1>2. Read(1) = {}
    BY DEF Read
  <1>3. Read(n + 1) = CategoryIds
    <2>1. \A k \in 1 .. n : Categories[k] \in CategoryIds
      BY <1>1, ConstantsTyped
    <2>2. \A id \in CategoryIds : \E k \in 1 .. n : Categories[k] = id
      BY <1>1, ConstantsTyped
    <2>3. n + 1 - 1 = n
      OBVIOUS
    <2> QED BY <2>1, <2>2, <2>3 DEF Read
  <1>4. ASSUME NEW k \in 1 .. n
        PROVE  /\ Read(k + 1) = Read(k) \cup {Categories[k]}
               /\ Categories[k] \notin Read(k)
    <2>1. k + 1 - 1 = k /\ 1 .. k = (1 .. k - 1) \cup {k}
      OBVIOUS
    <2>2. Read(k + 1) = Read(k) \cup {Categories[k]}
      BY <2>1 DEF Read
    <2>3. \A j \in 1 .. k - 1 : Categories[j] # Categories[k]
      <3>1. \A j \in 1 .. k - 1 : j \in 1 .. n /\ j # k
        OBVIOUS
      <3> QED BY <1>1, <3>1, ConstantsTyped
    <2> QED BY <2>2, <2>3 DEF Read
  <1> QED BY <1>1, <1>2, <1>3, <1>4

LEMMA LeftOverTells ==
  ASSUME NEW j \in 1 .. Len(Categories) + 1, NEW k \in 1 .. Len(Categories) + 1,
         LeftOver(j) = LeftOver(k)
  PROVE  j = k
  <1>1. PICK n \in Nat : n = Len(Categories)
    BY ConstantsTyped
  <1>2. n - j + 1 = n - k + 1
    BY <1>1, LeftOverParts
  <1> QED BY <1>1, <1>2

LEMMA MonthDigits ==
  ASSUME NEW n \in 1 .. 12
  PROVE  Digits(n) \in TypedDigits /\ Number(Digits(n)) = n
  <1>1. CASE n < 10
    <2>1. Digits(n) = <<n>> /\ n \in 0 .. 9
      BY <1>1 DEF Digits
    <2>2. <<n>> \in [1 .. 1 -> 0 .. 9] /\ Len(<<n>>) = 1 /\ <<n>>[1] = n
      BY <2>1
    <2> QED BY <2>1, <2>2 DEF TypedDigits, Number
  <1>2. CASE n \in {10, 11, 12}
    <2>1. PICK u : u = n % 10
      OBVIOUS
    <2>2. n \div 10 = 1 /\ u = n - 10 /\ u \in 0 .. 9
      BY <1>2, <2>1
    <2>3. Digits(n) = <<1, u>>
      BY <1>2, <2>1, <2>2 DEF Digits
    <2>4. <<1, u>> \in [1 .. 2 -> 0 .. 9] /\ Len(<<1, u>>) = 2
          /\ <<1, u>>[1] = 1 /\ <<1, u>>[2] = u
      BY <2>2
    <2>5. Number(<<1, u>>) = n
      BY <2>2, <2>4 DEF Number
    <2> QED BY <2>3, <2>4, <2>5 DEF TypedDigits, TwoDigits
  <1> QED BY <1>1, <1>2

\* The condition of a period holds of the rows of that period, by the calendar.
LEMMA ReportPeriodMeans ==
  ASSUME NEW r \in ReportRequests, NEW row \in ExpenseRow
  PROVE  /\ IsCondition(ReportPeriod(r))
         /\ \A m : Holds(ReportPeriod(r), row) <=> InPeriod(r, m, row.date)
  <1>1. /\ r \in ReportRequest /\ Today \in TypedDate
        /\ Today.m \in TypedDigits
    BY QueriesAssumption DEF TypedDate
  <1>2. r.month # None => r.month \in TypedDigits
    BY <1>1 DEF ReportRequest, Optional
  <1>3. "flags" \in DOMAIN r
    BY <1>1 DEF ReportRequest
  <1>4. CASE "today" \in r.flags
    BY <1>1, <1>3, <1>4, DayAsked, Zenon DEF ReportPeriod, InPeriod
  <1>5. CASE "today" \notin r.flags /\ r.month # None
    <2>1. ReportPeriod(r) = Condition_Month(Padded(r.month), YearAsked(r))
      BY <1>5 DEF ReportPeriod, FixMonthName, YearAsked
    <2>2. \A m : InPeriod(r, m, row.date) <=>
                   InMonth(row.date, Number(r.month), YearAsked(r))
      BY <1>3, <1>5 DEF InPeriod
    <2> QED BY <1>2, <1>5, <2>1, <2>2, MonthAsked
  <1>6. CASE "today" \notin r.flags /\ r.month = None /\ r.year # None
    <2>1. ReportPeriod(r) = Condition_Year(r.year)
      BY <1>6 DEF ReportPeriod
    <2>2. \A m : InPeriod(r, m, row.date) <=> row.date.y = r.year
      BY <1>3, <1>6 DEF InPeriod
    <2> QED BY <2>1, <2>2, YearCondition
  <1>7. CASE /\ "today" \notin r.flags /\ r.month = None /\ r.year = None
             /\ "thisMonth" \in r.flags
    <2>1. ReportPeriod(r) = Condition_Month(Padded(Today.m), Today.y)
      BY <1>7 DEF ReportPeriod
    <2>2. \A m : InPeriod(r, m, row.date) <=>
                   InMonth(row.date, Number(Today.m), Today.y)
      BY <1>3, <1>7 DEF InPeriod
    <2> QED BY <1>1, <2>1, <2>2, MonthAsked
  <1>8. CASE /\ "today" \notin r.flags /\ r.month = None /\ r.year = None
             /\ "thisMonth" \notin r.flags /\ "thisYear" \in r.flags
    <2>1. ReportPeriod(r) = Condition_Year(Today.y)
      BY <1>8 DEF ReportPeriod
    <2>2. \A m : InPeriod(r, m, row.date) <=> row.date.y = Today.y
      BY <1>3, <1>8 DEF InPeriod
    <2> QED BY <2>1, <2>2, YearCondition
  <1>9. CASE /\ "today" \notin r.flags /\ r.month = None /\ r.year = None
             /\ "thisMonth" \notin r.flags /\ "thisYear" \notin r.flags
    <2>1. ReportPeriod(r) = <<>>
      BY <1>9 DEF ReportPeriod
    <2>2. \A m : InPeriod(r, m, row.date)
      BY <1>3, <1>9 DEF InPeriod
    <2> QED BY <2>1, <2>2, EmptyCondition
  <1> QED BY <1>4, <1>5, <1>6, <1>7, <1>8, <1>9

LEMMA ComparePeriodMeans ==
  ASSUME NEW r \in CompareRequests, CompareValid(r), NEW row \in ExpenseRow,
         NEW m \in 1 .. Len(ComparePeriods(r))
  PROVE  /\ IsCondition(ComparePeriods(r)[m])
         /\ Holds(ComparePeriods(r)[m], row) <=> InPeriod(r, m, row.date)
  <1>1. PICK from \in 1 .. 12, to \in 1 .. 12 :
          /\ from = FromMonth(r) /\ to = ToMonth(r)
          /\ Len(ComparePeriods(r)) = to - from + 1
    BY ComparePeriodsParts
  <1>2. PICK i \in 1 .. to - from + 1 : i = m
    BY <1>1
  <1>3. PICK n \in 1 .. 12 : n = from + i - 1
    <2>1. from + i - 1 \in 1 .. 12
      BY <1>2
    <2> QED BY <2>1, Zenon
  <1>4. ComparePeriods(r)[i] = Condition_Month(Padded(Digits(n)), YearAsked(r))
    BY <1>1, <1>3 DEF ComparePeriods, FixMonthName, YearAsked
  <1>5. "flags" \notin DOMAIN r
    BY QueriesAssumption DEF CompareRequest
  <1>6. InPeriod(r, i, row.date) <=> InMonth(row.date, n, YearAsked(r))
    BY <1>1, <1>3, <1>5 DEF InPeriod
  <1>7. Digits(n) \in TypedDigits /\ Number(Digits(n)) = n
    BY MonthDigits
  <1>8. /\ IsCondition(Condition_Month(Padded(Digits(n)), YearAsked(r)))
        /\ Holds(Condition_Month(Padded(Digits(n)), YearAsked(r)), row) <=>
             InMonth(row.date, Number(Digits(n)), YearAsked(r))
    BY <1>7, MonthAsked
  <1> QED BY <1>2, <1>4, <1>6, <1>7, <1>8

\* The rows that the SELECT for the k-th category of the m-th period finds.
LEMMA CategorySelected ==
  ASSUME TableOK, NEW j, Reporting(j), NEW m \in 1 .. Len(j.periods),
         NEW k \in 1 .. Len(Categories)
  PROVE  Select(WithCategory(j.periods[m], k)) = RowsIn(j.r, m, {Categories[k]})
  <1>1. ASSUME NEW row \in ExpenseRow
        PROVE  /\ IsCondition(j.periods[m])
               /\ Holds(j.periods[m], row) <=> InPeriod(j.r, m, row.date)
    <2>1. CASE j.r \in ReportRequests /\ j.periods = <<ReportPeriod(j.r)>>
      <3>1. Len(<<ReportPeriod(j.r)>>) = 1
        OBVIOUS
      <3>2. m = 1 /\ j.periods[m] = ReportPeriod(j.r)
        BY <2>1, <3>1
      <3> QED BY <2>1, <3>2, ReportPeriodMeans
    <2>2. CASE /\ j.r \in CompareRequests /\ CompareValid(j.r)
               /\ j.periods = ComparePeriods(j.r)
      BY <2>2, ComparePeriodMeans
    <2> QED BY <2>1, <2>2, ReportParts
  <1>2. ASSUME NEW row \in ExpenseRow
        PROVE  Holds(WithCategory(j.periods[m], k), row) <=>
                 InPeriod(j.r, m, row.date) /\ row.category = Categories[k]
    BY <1>1, CategoryCondition, ConcatCondition DEF WithCategory
  <1>3. \A i \in DOMAIN expenses : expenses[i] \in ExpenseRow
    BY RowOfTable
  <1>4. \A i \in DOMAIN expenses :
          Holds(WithCategory(j.periods[m], k), expenses[i]) <=>
            /\ InPeriod(j.r, m, expenses[i].date)
            /\ expenses[i].category \in {Categories[k]}
    BY <1>2, <1>3
  <1> QED BY <1>4, Zenon DEF Select, RowsIn

LEMMA NothingCounted ==
  ASSUME TableOK, NEW r, NEW m
  PROVE  Counts(r, m, Read(1), <<>>) /\ DOMAIN <<>> = Read(1)
  <1>1. DOMAIN <<>> = {} /\ Read(1) = {}
    BY ReadCategories
  <1>2. RowsIn(r, m, {}) = {}
    BY DEF RowsIn
  <1>3. IsFiniteSet({})
    BY FS_EmptySet
  <1>4. SumOver(<<>>, {}) = 0 /\ SumOver(PricesOf(expenses), {}) = 0
    BY <1>3, SumStep
  <1> QED BY <1>1, <1>2, <1>4 DEF Counts

LEMMA CategoriesFinite == IsFiniteSet(CategoryIds)
  <1>1. PICK n \in Nat : n = Len(Categories)
    BY ConstantsTyped
  <1>2. /\ Categories \in Seq(CategoryIds)
        /\ \A id \in CategoryIds : \E k \in 1 .. n : Categories[k] = id
    <2>1. /\ Categories \in [1 .. n -> CategoryIds]
      BY <1>1, ConstantsTyped
    <2> QED BY <1>1, <2>1, FunctionIsText, ConstantsTyped
  <1> QED BY <1>1, <1>2 DEF IsFiniteSet

\* One more SELECT: its sum goes to a category that has none yet, and the rows
\* that it has added up are in no category before.
LEMMA CategoryCounted ==
  ASSUME TableOK, NEW j, Reporting(j), NEW m \in 1 .. Len(j.periods),
         NEW k \in 1 .. Len(Categories), NEW old, PricesTyped(old),
         Counts(j.r, m, Read(k), old),
         NEW total, total = SumOf(WithCategory(j.periods[m], k)), NEW new,
         \/ new = WithRow(old, Categories[k], total)
         \/ new = old /\ total = 0
  PROVE  Counts(j.r, m, Read(k + 1), new)
  <1> DEFINE c == Categories[k]
             before == RowsIn(j.r, m, Read(k))
             found == RowsIn(j.r, m, {c})
             f == PricesOf(expenses)
  <1>1. /\ Read(k + 1) = Read(k) \cup {c} /\ c \notin Read(k)
        /\ c \in CategoryIds
    BY ReadCategories, ConstantsTyped
  <1>2. /\ before \subseteq DOMAIN expenses /\ found \subseteq DOMAIN expenses
        /\ RowsIn(j.r, m, Read(k + 1)) = before \cup found
        /\ before \cap found = {}
    BY <1>1 DEF RowsIn
  <1>3. /\ IsFiniteSet(before) /\ IsFiniteSet(found)
        /\ \A i \in before : f[i] \in Nat
        /\ \A i \in found : f[i] \in Nat
        /\ SumOver(f, before) \in Nat /\ SumOver(f, found) \in Nat
    BY <1>2, RowsOfTable
  <1>4. total = SumOver(f, found)
    BY CategorySelected DEF SumOf
  <1>5. SumOver(f, RowsIn(j.r, m, Read(k + 1))) = SumOver(f, before) + total
    <2> HIDE DEF before, found, f
    <2>1. SumOver(f, before \cup found) = SumOver(f, before) + SumOver(f, found)
      BY <1>2, <1>3, SumUnion
    <2> QED BY <1>2, <1>4, <2>1
  <1>6. DOMAIN old \subseteq Read(k) /\ SumOver(old, DOMAIN old) = SumOver(f, before)
    BY DEF Counts
  <1>7. CASE new = old /\ total = 0
    <2> HIDE DEF before, found, f
    <2>1. SumOver(new, DOMAIN new) = SumOver(f, before) + total
      BY <1>3, <1>6, <1>7
    <2>2. DOMAIN new \subseteq Read(k + 1)
      BY <1>1, <1>6, <1>7
    <2> QED BY <1>5, <2>1, <2>2 DEF Counts, f
  <1>8. CASE new = WithRow(old, c, total)
    <2>1. /\ DOMAIN new = DOMAIN old \cup {c} /\ c \notin DOMAIN old
          /\ new[c] = total /\ \A i \in DOMAIN old : new[i] = old[i]
      BY <1>1, <1>6, <1>8 DEF WithRow
    <2>2. /\ IsFiniteSet(DOMAIN old) /\ IsFiniteSet(DOMAIN new)
      <3>1. IsFiniteSet(CategoryIds)
        BY CategoriesFinite
      <3>2. DOMAIN old \subseteq CategoryIds /\ DOMAIN new \subseteq CategoryIds
        BY <1>1, <2>1 DEF PricesTyped
      <3> QED BY <3>1, <3>2, FS_Subset
    <2>3. total \in Nat /\ \A i \in DOMAIN old : old[i] \in Nat
      BY <1>3, <1>4 DEF PricesTyped
    <2>4. \A i \in DOMAIN new : new[i] \in Nat
      BY <2>1, <2>3
    <2>5. c \in DOMAIN new /\ DOMAIN new \ {c} = DOMAIN old
      BY <2>1
    <2>6. PICK s \in Nat : s = SumOver(old, DOMAIN old)
      BY <1>3, <1>6
    <2>7. SumOver(new, DOMAIN old) = s
      BY <2>1, <2>2, <2>6, SumAgrees
    <2>8. SumOver(new, DOMAIN new) = new[c] + SumOver(new, DOMAIN new \ {c})
      BY <2>2, <2>4, <2>5, SumWithout
    <2>9. SumOver(new, DOMAIN new) = total + s
      BY <2>1, <2>5, <2>7, <2>8
    <2>10. SumOver(f, RowsIn(j.r, m, Read(k + 1))) = s + total
      BY <1>5, <1>6, <2>6
    <2>11. DOMAIN new \subseteq Read(k + 1)
      BY <1>1, <1>6, <2>1
    <2> QED BY <2>3, <2>9, <2>10, <2>11 DEF Counts
  <1> QED BY <1>7, <1>8

LEMMA ReportInvStarts ==
  ASSUME TypeOK, Report \/ CompareMonths
  PROVE  ReportInv'
  <1>1. CASE job' = Done("InvalidParameterValue")
    BY <1>1 DEF Done, ReportInv
  <1>2. CASE \E r, periods, zero : job' = Reports(r, periods, zero)
    <2>1. PICK r, periods, zero : job' = Reports(r, periods, zero)
      BY <1>2
    <2>2. /\ job'.op = "report" /\ job'.r = r /\ job'.results = << <<>> >>
          /\ job'.left = Categories
      BY <2>1 DEF Reports
    <2>3. Len(<< <<>> >>) = 1 /\ << <<>> >>[1] = <<>>
      OBVIOUS
    <2>4. Categories = LeftOver(1) /\ 1 \in 1 .. Len(Categories) + 1
      BY AllLeftOver
    <2>5. ASSUME NEW m \in 1 .. 1, NEW k \in 1 .. Len(Categories) + 1,
                 Reached(job', m, k)
          PROVE  m = 1 /\ k = 1
      <3>1. LeftOver(k) = LeftOver(1)
        BY <2>2, <2>3, <2>4, <2>5 DEF Reached
      <3> QED BY <2>4, <2>5, <3>1, LeftOverTells
    <2>6. Counts(r, 1, Read(1), <<>>) /\ DOMAIN <<>> = Read(1)
      BY NothingCounted DEF TypeOK, TableOK
    <2>7. expenses' = expenses
      BY DEF Report, CompareMonths
    <2>8. Counts(r, 1, Read(1), <<>>)'
      BY <2>6, <2>7 DEF Counts, RowsIn, PricesOf
    <2> QED BY <2>2, <2>3, <2>5, <2>6, <2>8 DEF ReportInv
  <1> QED BY <1>1, <1>2, ReportsStart

\* What the invariant says of the period in hand.
LEMMA ReportInvNow ==
  ASSUME TypeOK, ReportInv, Reporting(job), job.op = "report",
         NEW k \in 1 .. Len(Categories) + 1, job.left = LeftOver(k)
  PROVE  LET n == Len(job.results)
         IN  /\ job.includeZero => DOMAIN job.results[n] = Read(k)
             /\ job.since = writes => Counts(job.r, n, Read(k), job.results[n])
  <1>1. PICK n \in Nat : n = Len(job.results) /\ n \in 1 .. n
    BY ReportLengths
  <1>2. Reached(job, n, k)
    BY <1>1 DEF Reached
  <1> QED BY <1>1, <1>2 DEF ReportInv

LEMMA ReportInvCategory ==
  ASSUME TypeOK, ReportInv, SelectCategory
  PROVE  ReportInv'
  <1> DEFINE n == Len(job.results)
             old == job.results[n]
  <1>1. PICK k \in 1 .. Len(Categories) :
          /\ job.left = LeftOver(k) /\ TotalOf(k) \in Nat
          /\ job' = ReportOf(job, "report", [job.results EXCEPT ![n] = PricesWith(k)],
                             LeftOver(k + 1))
          /\ PricesTyped(PricesWith(k))
    BY SelectCategoryDoes, Zenon
  <1>2. PICK new : new = PricesWith(k)
    OBVIOUS
  <1>3. PICK results : results = [job.results EXCEPT ![n] = new]
    OBVIOUS
  <1>4. /\ Reporting(job) /\ Results(job.results) /\ job.op = "report"
        /\ expenses' = expenses /\ writes' = writes
    BY SelectCategoryDoes, ReportParts DEF SelectCategory
  <1>5. n \in Nat \ {0} /\ n \in 1 .. n /\ n \in 1 .. Len(job.periods)
    BY <1>4, ReportLengths
  <1>6. /\ Results(results) /\ Len(results) = n /\ results[n] = new
        /\ \A m \in 1 .. n : m # n => results[m] = job.results[m]
    BY <1>1, <1>2, <1>3, <1>4, <1>5, ResultsExcept
  <1>7. /\ job'.op = "report" /\ job'.r = job.r /\ job'.since = job.since
        /\ job'.includeZero = job.includeZero
        /\ job'.results = results /\ job'.left = LeftOver(k + 1)
    BY <1>1, <1>2, <1>3 DEF ReportOf
  <1>8. k \in 1 .. Len(Categories) + 1 /\ k + 1 \in 1 .. Len(Categories) + 1
    BY ConstantsTyped
  <1>9. /\ job.includeZero => DOMAIN old = Read(k)
        /\ job.since = writes => Counts(job.r, n, Read(k), old)
    BY <1>1, <1>4, <1>8, ReportInvNow
  <1>10. new = IF job.includeZero \/ TotalOf(k) # 0
               THEN WithRow(old, Categories[k], TotalOf(k)) ELSE old
    BY <1>2 DEF PricesWith
  <1>11. job.includeZero => DOMAIN new = Read(k + 1)
    BY <1>9, <1>10, ReadCategories DEF WithRow
  <1>12. job.since = writes => Counts(job.r, n, Read(k + 1), new)
    <2> SUFFICES ASSUME job.since = writes
                 PROVE  Counts(job.r, n, Read(k + 1), new)
      OBVIOUS
    <2>1. TableOK /\ PricesTyped(old)
      BY <1>4, <1>5, ResultsParts DEF TypeOK, TableOK
    <2>2. TotalOf(k) = SumOf(WithCategory(job.periods[n], k))
      BY DEF TotalOf
    <2>3. \/ new = WithRow(old, Categories[k], TotalOf(k))
          \/ new = old /\ TotalOf(k) = 0
      BY <1>10
    <2> HIDE DEF n, old
    <2> QED BY <1>4, <1>5, <1>9, <2>1, <2>2, <2>3, CategoryCounted
  <1> HIDE DEF n, old
  <1>13. ASSUME NEW m \in 1 .. n, NEW i \in 1 .. Len(Categories) + 1,
                Reached(job', m, i)
         PROVE  /\ job.includeZero => DOMAIN results[m] = Read(i)
                /\ job.since = writes => Counts(job.r, m, Read(i), results[m])
    <2>1. CASE m < n
      <3>1. i = Len(Categories) + 1 /\ results[m] = job.results[m]
        BY <1>5, <1>6, <1>7, <1>13, <2>1 DEF Reached
      <3>2. Reached(job, m, i)
        BY <2>1, <3>1 DEF Reached, n
      <3>3. m \in 1 .. Len(job.results)
        BY DEF n
      <3> QED BY <1>4, <3>1, <3>2, <3>3 DEF ReportInv
    <2>2. CASE ~(m < n)
      <3>1. m = n
        BY <1>5, <2>2
      <3>2. LeftOver(i) = LeftOver(k + 1)
        BY <1>6, <1>7, <1>13, <2>2 DEF Reached
      <3>3. i = k + 1
        BY <1>8, <3>2, LeftOverTells
      <3> QED BY <1>6, <1>11, <1>12, <3>1, <3>3
    <2> QED BY <2>1, <2>2
  <1>14. ASSUME NEW r, NEW m, NEW ids, NEW prices, Counts(r, m, ids, prices)
         PROVE  Counts(r, m, ids, prices)'
    BY <1>4, <1>14 DEF Counts, RowsIn, PricesOf
  <1> QED BY <1>4, <1>6, <1>7, <1>13, <1>14 DEF ReportInv

LEMMA ReportInvMonth ==
  ASSUME TypeOK, ReportInv, NextMonth
  PROVE  ReportInv'
  <1> DEFINE n == Len(job.results)
  <1>1. /\ Reporting(job) /\ Results(job.results) /\ job.op = "report"
        /\ job.left = <<>>
        /\ job' = ReportOf(job, "report", Append(job.results, <<>>), LeftOver(1))
        /\ expenses' = expenses /\ writes' = writes
    BY NextMonthDoes, ReportParts DEF NextMonth
  <1>2. n \in Nat \ {0}
    BY <1>1, ReportLengths
  <1>3. PICK results : results = Append(job.results, <<>>)
    OBVIOUS
  <1>4. /\ Results(results) /\ Len(results) = n + 1 /\ results[n + 1] = <<>>
        /\ \A m \in 1 .. n : results[m] = job.results[m]
    BY <1>1, <1>3, ResultsAppend
  <1>5. /\ job'.op = "report" /\ job'.r = job.r /\ job'.since = job.since
        /\ job'.includeZero = job.includeZero
        /\ job'.results = results /\ job'.left = LeftOver(1)
    BY <1>1, <1>3 DEF ReportOf
  <1>6. 1 \in 1 .. Len(Categories) + 1
        /\ Len(Categories) + 1 \in 1 .. Len(Categories) + 1
    BY ConstantsTyped
  <1>7. job.left = LeftOver(Len(Categories) + 1)
    BY <1>1, <1>6, LeftOverParts
  <1> HIDE DEF n
  <1>8. ASSUME NEW m \in 1 .. n + 1, NEW i \in 1 .. Len(Categories) + 1,
               Reached(job', m, i)
        PROVE  /\ job.includeZero => DOMAIN results[m] = Read(i)
               /\ job.since = writes => Counts(job.r, m, Read(i), results[m])
    <2>1. CASE m < n + 1
      <3>1. m \in 1 .. n
        BY <1>2, <2>1
      <3>2. i = Len(Categories) + 1 /\ results[m] = job.results[m]
        BY <1>4, <1>5, <1>8, <2>1, <3>1 DEF Reached
      <3>3. Reached(job, m, i)
        BY <1>7, <3>2 DEF Reached
      <3>4. m \in 1 .. Len(job.results)
        BY <3>1 DEF n
      <3> QED BY <1>1, <3>2, <3>3, <3>4 DEF ReportInv
    <2>2. CASE ~(m < n + 1)
      <3>1. m = n + 1
        BY <1>2, <2>2
      <3>2. LeftOver(i) = LeftOver(1)
        BY <1>4, <1>5, <1>8, <2>2 DEF Reached
      <3>3. i = 1
        BY <1>6, <3>2, LeftOverTells
      <3>4. Counts(job.r, m, Read(1), <<>>) /\ DOMAIN <<>> = Read(1)
        BY NothingCounted DEF TypeOK, TableOK
      <3> QED BY <1>4, <3>1, <3>3, <3>4
    <2> QED BY <2>1, <2>2
  <1>9. ASSUME NEW r, NEW m, NEW ids, NEW prices, Counts(r, m, ids, prices)
        PROVE  Counts(r, m, ids, prices)'
    BY <1>1, <1>9 DEF Counts, RowsIn, PricesOf
  <1> QED BY <1>1, <1>4, <1>5, <1>8, <1>9 DEF ReportInv

LEMMA ReportInvPrint ==
  ASSUME TypeOK, ReportInv, PrintReport
  PROVE  ReportInv'
  <1>1. /\ Reporting(job) /\ job.op = "report" /\ job.left = <<>>
        /\ job.left = LeftOver(Len(Categories) + 1)
        /\ Len(job.results) = Len(job.periods)
        /\ expenses' = expenses /\ writes' = writes
    BY PrintReportDoes DEF PrintReport
  <1> SUFFICES ASSUME job' # Off PROVE ReportInv'
    BY DEF ReportInv, Off
  <1>2. /\ job'.op = "reported" /\ job'.r = job.r /\ job'.since = job.since
        /\ job'.includeZero = job.includeZero /\ job'.periods = job.periods
        /\ job'.results = job.results /\ job'.left = job.left
    BY <1>1, PrintReportDoes DEF ReportOf
  <1>3. \A m, k : Reached(job', m, k) <=> Reached(job, m, k)
    BY <1>2 DEF Reached
  <1>4. ASSUME NEW r, NEW m, NEW ids, NEW prices, Counts(r, m, ids, prices)
        PROVE  Counts(r, m, ids, prices)'
    BY <1>1, <1>4 DEF Counts, RowsIn, PricesOf
  <1> QED BY <1>1, <1>2, <1>3, <1>4 DEF ReportInv

LEMMA ReportInvWrite ==
  ASSUME TypeOK, SinceInv, ReportInv, Write
  PROVE  ReportInv'
  <1>1. writes' = writes + 1 /\ job' = job
    BY DEF Write
  <1>2. CASE job.op \in {"report", "reported"}
    <2>1. job.since \in 0 .. MaxWrite /\ job.since <= writes
      BY <1>2, JobSince DEF TypeOK, SinceInv
    <2>2. writes \in 0 .. MaxWrite /\ MaxWrite \in Nat
      BY ConstantsTyped DEF TypeOK
    <2>3. job'.since # writes'
      BY <1>1, <2>1, <2>2
    <2> QED BY <1>1, <1>2, <2>3 DEF ReportInv, Reached
  <1>3. CASE job.op \notin {"report", "reported"}
    BY <1>1, <1>3 DEF ReportInv
  <1> QED BY <1>2, <1>3

LEMMA ReportInvariant == Spec => []ReportInv
  <1>1. Init => ReportInv
    BY DEF Init, ReportInv, Idle
  <1>2. TypeOK /\ SinceInv /\ ReportInv /\ [Next]_vars => ReportInv'
    <2> SUFFICES ASSUME TypeOK, SinceInv, ReportInv, [Next]_vars PROVE ReportInv'
      OBVIOUS
    <2>1. ASSUME job'.op \notin {"report", "reported"} PROVE ReportInv'
      BY <2>1 DEF ReportInv
    <2>2. CASE List
      <3>1. PICK r \in ListRequests :
              \/ job' = Done("CategoryDoesNotExist")
              \/ job' = Done("GeneralFailure")
              \/ job' = [op |-> "select", r |-> r, since |-> writes]
        BY <2>2 DEF List
      <3>2. job'.op \notin {"report", "reported"}
        BY <3>1 DEF Done
      <3> QED BY <2>1, <3>2
    <2>3. CASE Report \/ CompareMonths
      BY <2>3, ReportInvStarts
    <2>4. CASE ListSelect
      <3>1. job'.op \in {"done", "sum", "shown"}
        BY <2>4, ListSelectDoes DEF Done, Shown
      <3> QED BY <2>1, <3>1
    <2>5. CASE ListSum
      <3>1. job'.op = "shown"
        BY <2>5, ListSumDoes DEF Shown
      <3> QED BY <2>1, <3>1
    <2>6. CASE SelectCategory
      BY <2>6, ReportInvCategory
    <2>7. CASE NextMonth
      BY <2>7, ReportInvMonth
    <2>8. CASE PrintReport
      BY <2>8, ReportInvPrint
    <2>9. CASE Return
      BY <2>1, <2>9 DEF Return, Idle
    <2>10. CASE Write
      BY <2>10, ReportInvWrite
    <2>11. CASE UNCHANGED vars
      <3>1. expenses' = expenses /\ job' = job /\ writes' = writes
        BY <2>11 DEF vars
      <3>2. ASSUME NEW r, NEW m, NEW ids, NEW prices, Counts(r, m, ids, prices)
            PROVE  Counts(r, m, ids, prices)'
        BY <3>1, <3>2 DEF Counts, RowsIn, PricesOf
      <3> QED BY <3>1, <3>2 DEF ReportInv, Reached
    <2> QED BY <2>2, <2>3, <2>4, <2>5, <2>6, <2>7, <2>8, <2>9, <2>10, <2>11
            DEF Next, QueryStep
  <1> QED BY <1>1, <1>2, QueriesTypeCorrect, SinceInvariant, PTL DEF Spec

\* What is known when a report is printed.
LEMMA WhenReported ==
  ASSUME TypeOK, ReportInv, job.op = "reported", NEW m \in DOMAIN job.results
  PROVE  /\ Reporting(job) /\ DOMAIN job.results = 1 .. Len(job.results)
         /\ Len(job.results) = Len(job.periods)
         /\ job.includeZero => DOMAIN job.results[m] = CategoryIds
         /\ job.since = writes => Counts(job.r, m, CategoryIds, job.results[m])
  <1>1. Reporting(job) /\ job.left = <<>> /\ Len(job.results) = Len(job.periods)
    BY ReportingOK DEF TypeOK, ReportInv
  <1>2. DOMAIN job.results = 1 .. Len(job.results)
    BY <1>1, ReportParts, ResultsParts
  <1>3. PICK k \in 1 .. Len(Categories) + 1 : job.left = LeftOver(k)
    BY <1>1, ReportParts
  <1>4. k = Len(Categories) + 1
    BY <1>1, <1>3, LeftOverParts
  <1>5. Reached(job, m, k)
    BY <1>3, <1>4 DEF Reached
  <1>6. Read(k) = CategoryIds
    BY <1>4, ReadCategories
  <1> QED BY <1>1, <1>2, <1>5, <1>6 DEF ReportInv

(***************************************************************************)
(* The amounts of report and of compareMonths add up to what was spent in   *)
(* the period: one SELECT for every category, the condition of the last one *)
(* taken off first, counts each expense of the period once, and leaving a   *)
(* category without expenses out changes nothing.                          *)
(***************************************************************************)
THEOREM ReportsAlwaysAddUp == Spec => []ReportsAddUp
  <1>1. TypeOK /\ ReportInv => ReportsAddUp
    <2> SUFFICES ASSUME TypeOK, ReportInv, job.op = "reported",
                        job.since = writes, NEW k \in DOMAIN job.results
                 PROVE  SumOver(job.results[k], DOMAIN job.results[k]) =
                          SumOver(PricesOf(expenses),
                                  {i \in DOMAIN expenses :
                                     InPeriod(job.r, k, expenses[i].date)})
      BY DEF ReportsAddUp
    <2>1. Counts(job.r, k, CategoryIds, job.results[k])
      BY WhenReported
    <2>2. \A i \in DOMAIN expenses : expenses[i].category \in CategoryIds
      BY RowOfTable, RowParts DEF TypeOK, TableOK
    <2>3. RowsIn(job.r, k, CategoryIds) =
            {i \in DOMAIN expenses : InPeriod(job.r, k, expenses[i].date)}
      BY <2>2 DEF RowsIn
    <2> QED BY <2>1, <2>3 DEF Counts
  <1> QED BY <1>1, QueriesTypeCorrect, ReportInvariant, PTL

(***************************************************************************)
(* PrintComparisonReport looks the categories of the first month up in the  *)
(* others: each month has them all, and there are at least two months.     *)
(***************************************************************************)
THEOREM ComparisonsComplete == Spec => []ComparisonComplete
  <1>1. TypeOK /\ ReportInv => ComparisonComplete
    <2> SUFFICES ASSUME TypeOK, ReportInv, job.op = "reported"
                 PROVE  /\ \A k \in DOMAIN job.results :
                             DOMAIN job.results[k] = DOMAIN job.results[1]
                        /\ job.r \in CompareRequests => Len(job.results) + 1 >= 3
      BY DEF ComparisonComplete
    <2>1. Reporting(job) /\ Len(job.results) = Len(job.periods)
      BY ReportingOK DEF TypeOK, ReportInv
    <2>2. Results(job.results) /\ Len(job.results) \in Nat \ {0}
      BY <2>1, ReportParts, ReportLengths
    <2>3. DOMAIN job.results = 1 .. Len(job.results)
      BY <2>2, ResultsParts
    <2>4. 1 \in DOMAIN job.results
      BY <2>2, <2>3
    <2>5. CASE job.r \in ReportRequests /\ job.periods = <<ReportPeriod(job.r)>>
      <3>1. Len(<<ReportPeriod(job.r)>>) = 1
        OBVIOUS
      <3>2. DOMAIN job.results = {1}
        BY <2>1, <2>3, <2>5, <3>1
      <3>3. job.r \notin CompareRequests
        <4>1. "flags" \in DOMAIN job.r
          BY <2>5, QueriesAssumption DEF ReportRequest
        <4>2. \A r \in CompareRequests : "flags" \notin DOMAIN r
          BY QueriesAssumption DEF CompareRequest
        <4> QED BY <4>1, <4>2
      <3> QED BY <3>2, <3>3
    <2>6. CASE /\ job.r \in CompareRequests /\ CompareValid(job.r)
               /\ job.periods = ComparePeriods(job.r) /\ job.includeZero = TRUE
      <3>1. \A k \in DOMAIN job.results : DOMAIN job.results[k] = CategoryIds
        BY <2>6, WhenReported
      <3>2. PICK n \in Nat : n = Len(job.results)
        BY <2>2
      <3>3. n >= 2
        BY <2>1, <2>6, <3>2, ComparePeriodsParts
      <3>4. n + 1 >= 3
        BY <3>3
      <3> QED BY <2>4, <3>1, <3>2, <3>4
    <2> QED BY <2>1, <2>5, <2>6, ReportParts
  <1> QED BY <1>1, QueriesTypeCorrect, ReportInvariant, PTL
-----------------------------------------------------------------------------
(***************************************************************************)
(* The order of a listing.                                                 *)
(***************************************************************************)
LEMMA NeighboursOf ==
  ASSUME TableOK, NEW rows, rows \subseteq DOMAIN expenses, NEW s \in Seq(rows),
         NEW k \in 2 .. Len(s)
  PROVE  /\ k - 1 \in DOMAIN s /\ k \in k - 1 + 1 .. Len(s)
         /\ s[k] \in DOMAIN expenses /\ s[k - 1] \in DOMAIN expenses
         /\ s[k] \in RowId /\ s[k - 1] \in RowId
         /\ expenses[s[k]] \in ExpenseRow /\ expenses[s[k - 1]] \in ExpenseRow
  <1>1. PICK n \in Nat : n = Len(s) /\ DOMAIN s = 1 .. n
    BY LenProperties
  <1>2. k \in 1 .. n /\ k - 1 \in 1 .. n /\ k \in k - 1 + 1 .. n
    BY <1>1
  <1>3. s[k] \in rows /\ s[k - 1] \in rows
    BY <1>1, <1>2
  <1> QED BY <1>1, <1>2, <1>3, RowOfTable

LEMMA CalendarOrder ==
  ASSUME TableOK, NEW rows, rows \subseteq DOMAIN expenses,
         NEW s \in ByCalendar(rows), NEW k \in 2 .. Len(s)
  PROVE  DayNumber(expenses[s[k - 1]].date) <= DayNumber(expenses[s[k]].date)
  <1>1. s \in Seq(rows)
    BY ListedRows
  <1>2. PICK a \in StoredDate, b \in StoredDate :
          a = expenses[s[k - 1]].date /\ b = expenses[s[k]].date
    BY <1>1, NeighboursOf, RowParts
  <1>3. ~Before(expenses[s[k]].date, expenses[s[k - 1]].date)
    BY <1>1, NeighboursOf DEF ByCalendar
  <1>4. a \in TypedDate /\ b \in TypedDate
    BY StoredDateParts
  <1>5. ~(DayNumber(b) < DayNumber(a))
    BY <1>2, <1>3, <1>4, DayNumberEqual
  <1>6. PICK x \in Nat, y \in Nat : x = DayNumber(a) /\ y = DayNumber(b)
    BY <1>4, DayNumberType
  <1>7. x <= y
    BY <1>5, <1>6
  <1> QED BY <1>2, <1>6, <1>7

LEMMA CategoryNumbers == CategoryIds \subseteq Nat
  <1>1. Categories \in Seq(Nat)
    BY QueriesAssumption
  <1> QED BY <1>1 DEF CategoryIds, ToSet

LEMMA SQLOrder ==
  ASSUME TableOK, NEW i \in DOMAIN expenses, NEW k \in DOMAIN expenses,
         expenses[i].account = expenses[k].account,
         NEW col \in OrderColumns, ~Less(col, k, i)
  PROVE  Follows(col, i, k)
  <1>1. /\ expenses[i] \in ExpenseRow /\ expenses[k] \in ExpenseRow
        /\ i \in Nat /\ k \in Nat
    BY RowOfTable DEF RowId
  <1>2. CASE col = "row_id"
    BY <1>1, <1>2 DEF Less, Follows
  <1>3. CASE col = "price"
    <2>1. PICK x \in Nat, y \in Nat : x = expenses[i].price /\ y = expenses[k].price
      BY <1>1, RowParts
    <2>2. ~(y < x)
      BY <1>3, <2>1 DEF Less
    <2>3. x <= y
      BY <2>2
    <2> QED BY <1>3, <2>1, <2>3 DEF Follows
  <1>4. CASE col = "date"
    <2>1. expenses[i].date \in StoredDate /\ expenses[k].date \in StoredDate
      BY <1>1, RowParts
    <2>2. TextAtMost(expenses[i].date, expenses[k].date)
      BY <1>4 DEF Less
    <2>3. DayNumber(expenses[i].date) <= DayNumber(expenses[k].date)
      BY <2>1, <2>2, TextOrder
    <2> QED BY <1>4, <2>3 DEF Follows
  <1>5. CASE col \in {"name", "location"}
    BY <1>5 DEF Less, Follows
  <1>6. CASE col = "category_id"
    <2>1. PICK x \in Nat, y \in Nat :
            x = expenses[i].category /\ y = expenses[k].category
      BY <1>1, RowParts, CategoryNumbers
    <2>2. ~(y < x)
      BY <1>6, <2>1 DEF Less
    <2>3. x <= y
      BY <2>2
    <2> QED BY <1>6, <2>1, <2>3 DEF Follows
  <1>7. CASE col = "tags"
    BY <1>7 DEF Less, Follows
  <1>8. CASE col = "account_id"
    BY <1>8 DEF Follows
  <1> QED BY <1>2, <1>3, <1>4, <1>5, <1>6, <1>7, <1>8 DEF OrderColumns

LEMMA SelectedOrder ==
  ASSUME TableOK, NEW rows, rows \subseteq DOMAIN expenses,
         \A i \in rows : expenses[i].account = CurrentAccount,
         NEW r, Selects(r),
         NEW s \in OrderedBy(rows, OrderColumn(r), "descending" \in r.flags),
         NEW k \in 2 .. Len(s)
  PROVE  IF "descending" \in r.flags THEN Follows(OrderColumn(r), s[k], s[k - 1])
                                     ELSE Follows(OrderColumn(r), s[k - 1], s[k])
  <1>1. \E col, descending : s \in OrderedBy(rows, col, descending)
    BY Zenon
  <1>2. s \in Seq(rows)
    BY <1>1, ListedRows
  <1>3. IF "descending" \in r.flags THEN ~Less(OrderColumn(r), s[k - 1], s[k])
                                    ELSE ~Less(OrderColumn(r), s[k], s[k - 1])
    BY <1>2, NeighboursOf DEF OrderedBy
  <1>4. /\ s[k] \in DOMAIN expenses /\ s[k - 1] \in DOMAIN expenses
        /\ expenses[s[k]].account = expenses[s[k - 1]].account
    BY <1>2, NeighboursOf
  <1>5. OrderColumn(r) \in OrderColumns
    BY DEF Selects
  <1> QED BY <1>3, <1>4, <1>5, SQLOrder

\* Rows of a listing, which are all of the current account.
LEMMA ListedAccount ==
  ASSUME TypeOK, ListSelect, Selects(job.r)
  PROVE  \A i \in Select(ListCondition(job.r)) :
           expenses[i].account = CurrentAccount
  <1>1. TableOK /\ job.r \in ListRequests /\ Parses(ListCondition(job.r))
    BY ListSelectDoes DEF TypeOK, TableOK, Selects
  <1> QED BY <1>1, SelectedAsAsked DEF Asked

(***************************************************************************)
(* For every request for which list keeps the order that the line asks for, *)
(* the rows come in it, up or down; and by the calendar where no order is  *)
(* asked for: SQLite's order of the texts of dates, std::sort and the map  *)
(* of DisplayByDate agree on it.  What a range and --byDate make of        *)
(* --descending is shown by the run list_descending.                       *)
(***************************************************************************)
THEOREM ListingsInOrder == Spec => ListedInOrder
  <1>1. ASSUME TypeOK, ListSelect, Selects(job.r), OrderKept(job.r)
        PROVE  LET col == OrderColumn(job.r)
                   s == job'.shown
               IN  \A k \in 2 .. Len(s) :
                     IF "descending" \in job.r.flags
                     THEN Follows(col, s[k], s[k - 1])
                     ELSE Follows(col, s[k - 1], s[k])
    <2> DEFINE r == job.r
               rows == Select(ListCondition(r))
    <2>1. TableOK /\ rows \subseteq DOMAIN expenses
      BY <1>1, SelectedRows DEF TypeOK, TableOK
    <2>2. CASE r.range # None \/ "byDate" \in r.flags
      <3>1. PICK s \in ByCalendar(rows) :
              job' = Shown(r, s, SumOver(PricesOf(expenses), rows), job.since)
        BY <1>1, <2>2, Zenon DEF ListSelect
      <3>2. job'.shown = s
        BY <3>1 DEF Shown
      <3>3. \A k \in 2 .. Len(s) : Follows("date", s[k - 1], s[k])
        BY <2>1, CalendarOrder DEF Follows
      <3>4. "descending" \notin r.flags /\ OrderColumn(r) = "date"
        BY <1>1, <2>2 DEF OrderKept, OrderColumn
      <3> HIDE DEF rows
      <3> QED BY <3>2, <3>3, <3>4
    <2>3. CASE r.range = None /\ "byDate" \notin r.flags
      <3>1. PICK s \in OrderedBy(rows, OrderColumn(r), "descending" \in r.flags) :
              job' = [op |-> "sum", r |-> r, shown |-> s, since |-> job.since]
        BY <1>1, <2>3, Zenon DEF ListSelect
      <3>2. job'.shown = s
        BY <3>1
      <3>3. \A i \in rows : expenses[i].account = CurrentAccount
        BY <1>1, ListedAccount
      <3>4. \A k \in 2 .. Len(s) :
              IF "descending" \in r.flags
              THEN Follows(OrderColumn(r), s[k], s[k - 1])
              ELSE Follows(OrderColumn(r), s[k - 1], s[k])
        BY <1>1, <2>1, <3>1, <3>3, SelectedOrder
      <3> HIDE DEF rows
      <3> QED BY <3>2, <3>4
    <2> QED BY <2>2, <2>3
  <1> QED BY <1>1, QueriesTypeCorrect, PTL DEF Spec, ListedInOrder
=============================================================================
