-------------------------------- MODULE Diary --------------------------------
(***************************************************************************)
(* What the reminders promise: a diary of entries, each with the days on   *)
(* which it is due.  Whoever opens the diary and reads it to its end is    *)
(* told what is due, and nothing else; midnight may pass meanwhile.        *)
(***************************************************************************)
EXTENDS Tables

CONSTANT LastDay  \* days are counted from 1

VARIABLES
  day,       \* the present day
  entries,   \* entry -> the days on which it is due
  opened,    \* the day on which the diary was opened, 0 when it is not read
  announced  \* the entries that the last reading has announced

diary == <<day, entries, opened, announced>>

Init ==
  /\ day \in 1 .. LastDay
  /\ entries = EmptyTable /\ opened = 0 /\ announced = {}

NewDay ==
  /\ day' \in day + 1 .. LastDay
  /\ UNCHANGED <<entries, opened, announced>>

Enter ==
  /\ opened = 0
  /\ \E id \in NextRowId(entries), days \in SUBSET (1 .. LastDay) :
       entries' = WithRow(entries, id, days)
  /\ UNCHANGED <<day, opened, announced>>

Open ==
  /\ opened = 0 /\ opened' = day /\ announced' = {}
  /\ UNCHANGED <<day, entries>>

\* The entries due on all days since the diary was opened, and on some.
DueThroughout == {i \in DOMAIN entries : opened .. day \subseteq entries[i]}
DueSometime == {i \in DOMAIN entries : (opened .. day) \cap entries[i] # {}}

Announce ==
  /\ opened # 0 /\ opened' = 0
  /\ announced' \in SUBSET DueSometime /\ DueThroughout \subseteq announced'
  /\ UNCHANGED <<day, entries>>

\* The reader goes away.
Close ==
  /\ opened' = 0 /\ announced' = {}
  /\ UNCHANGED <<day, entries>>

Next == NewDay \/ Enter \/ Open \/ Announce \/ Close

DiarySpec == Init /\ [][Next]_diary
=============================================================================
