----------------------------- MODULE MCSessions -----------------------------
(***************************************************************************)
(* Instances of Sessions for TLC.                                          *)
(***************************************************************************)
EXTENDS Sessions

CONSTANTS p1, p2, a1, a2, c1, c2, t1, t2, n1, d1, dot, word

OneProc == {p1}
TwoProcs == {p1, p2}

TwoAccounts == {a1, a2}
TwoCategories == {c1, c2}
\* c2 is in no database: a category that the user may still name.
OneCategory == [i \in {1} |-> c1]
BothCategories == {[i \in {1, 2} |-> IF i = 1 THEN c1 ELSE c2]}
\* Categories are entered by hand, and the first of these was taken out again,
\* so that no id of a category is that of the expense.
HandFilled == {[i \in {2, 3} |-> IF i = 2 THEN c1 ELSE c2]}
NoneOrOne == {EmptyTable, OneCategory}

TwoTags == {t1, t2}
TagLists == {<<t1>>, <<t1, t2>>, <<t2, t2>>}
BothOrders == {<<t1, t2>>, <<t2, t1>>}
OneTag == {t1}
RepeatedTag == {<<t1>>, <<t1, t1>>}

OneText == {n1}
OnePrice == {d1}
GoodPrices == {d1, word}
AnyPrice == {d1, dot, word}

CategoryAndTags == {"category", "tags"}
CheckedAttrs == {"category", "price", "tags"}
AnyAttr == Attribute
RawNames == {"category_id", "account_id"}

OneId == {1}
TwoIds == {1, 2}
ThreeIds == {1, 2, 3}
=============================================================================
