-------------------------------- MODULE Dates --------------------------------
(***************************************************************************)
(* The texts in which a user gives a date, and what DBHandler/DateTime.cpp *)
(* and the conversions of Utilities make of them.  A text is a record of   *)
(* its name and of the fields between its dashes, three at most.  A field  *)
(* is a number, a word (it begins with a letter), empty, or long: digits   *)
(* that no int holds.                                                      *)
(***************************************************************************)
EXTENDS Integers, Sequences

MaxInt == 2147483647

Num(n) == [kind |-> "number", n |-> n]
Empty == [kind |-> "empty", n |-> 0]
AWord == [kind |-> "word", n |-> 0]
Long == [kind |-> "long", n |-> MaxInt]

Field == [kind : {"number"}, n : 0 .. MaxInt] \cup {Empty, AWord, Long}
Fields == [1 .. 1 -> Field] \cup [1 .. 2 -> Field] \cup [1 .. 3 -> Field]

\* A dash before the first digit is a sign.
IsSigned(fields) == Len(fields) > 1 /\ fields[1] = Empty
NumberAt(fields) == IF IsSigned(fields) THEN 2 ELSE 1

\* IsNumeric<int>: operator>> stopped at the end of the text, whether or not
\* it has found a number.
IsNumeric(fields) ==
  Len(fields) = NumberAt(fields) /\ fields[NumberAt(fields)].kind # "word"

\* std::stoi, which throws where there is no int.
StoiThrows(fields) == fields[NumberAt(fields)].kind # "number"
Stoi(fields) ==
  IF IsSigned(fields) THEN -fields[2].n ELSE fields[1].n

IsValidDay(n) == n \in 0 .. 31
IsValidMonth(n) == n \in 0 .. 12

DayNames == {"Sunday", "Monday", "Tuesday", "Wednesday", "Thursday", "Friday",
             "Saturday"}
IsValidDayName(name) == name \in DayNames

\* A day that is no number is read as 0, and one that is too long as the
\* largest int; a year or a month that is no number leaves the day at -1.
IsValidDateString(fields) ==
  /\ Len(fields) = 3
  /\ fields[1].kind = "number" /\ fields[2].kind = "number"
  /\ fields[3] # Empty

\* DateTime(text)
AsDate(fields) == [y |-> fields[1].n, m |-> fields[2].n, d |-> fields[3].n]

\* DateTime::operator< and operator==
Before(a, b) ==
  \/ a.y < b.y
  \/ a.y = b.y /\ a.m < b.m
  \/ a.y = b.y /\ a.m = b.m /\ a.d < b.d
SameDate(a, b) == a.y = b.y /\ a.m = b.m /\ a.d = b.d
=============================================================================
