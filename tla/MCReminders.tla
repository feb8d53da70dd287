----------------------------- MODULE MCReminders -----------------------------
(***************************************************************************)
(* An instance of Reminders for TLC: days of which some are easily         *)
(* mistaken for others, and lines with the texts that the conversions tell *)
(* apart.                                                                  *)
(***************************************************************************)
EXTENDS Reminders

Day(y, m, d, name) == [y |-> y, m |-> m, d |-> d, dayName |-> name]

\* The fifth of March, of April and of March a year later, and the third of May.
SomeDays ==
  <<Day(2024, 3, 5, "Tuesday"), Day(2024, 4, 5, "Friday"),
    Day(2024, 5, 3, "Friday"), Day(2025, 3, 5, "Wednesday")>>

Param(type, mandatory, index) ==
  [type |-> type, isMandatory |-> mandatory, inOrderIndex |-> index,
   numValues |-> 1]

SomeCommands ==
  [addReminder |->
     [flags |-> {},
      parameters |-> [name |-> Param("text", TRUE, 1),
                      type |-> Param("text", TRUE, 2),
                      dateData |-> Param("text", FALSE, 3)]],
   list |-> [flags |-> {"reminders"}, parameters |-> [p \in {} |-> 0]],
   removeReminders |->
     [flags |-> {}, parameters |-> [ids |-> Param("text", TRUE, 1)]]]

Arg(dashes, name, fields) ==
  [dashes |-> dashes, name |-> name, fields |-> fields, passes |-> {}]
Text(name, fields) == Arg(0, name, fields)
Word(name) == Text(name, <<AWord>>)
dateData == Arg(1, "dateData", <<Empty, AWord>>)

rent == Word("rent")
five == Text("5", <<Num(5)>>)

Dated(m, d) == Text("date", <<Num(2024), Num(m), Num(d)>>)

\* For each type a text that is meant, and texts that slip through some test.
TextsFor ==
  [OneTime |-> {Dated(4, 5), Text("2025-3-x", <<Num(2025), Num(3), AWord>>),
                Text("2025-3", <<Num(2025), Num(3)>>)},
   Daily |-> {rent},
   Weekly |-> {Word("Tuesday"), Word("tuesday")},
   Monthly |-> {five, Text("", <<Empty>>), Text("-0", <<Empty, Num(0)>>),
                Text("99999999999", <<Long>>), Text("40", <<Num(40)>>), rent},
   Yearly |-> {Text("3-5", <<Num(3), Num(5)>>), Text("31-12", <<Num(31), Num(12)>>),
               Text("3-", <<Num(3), Empty>>), Text("-5", <<Empty, Num(5)>>), five},
   Hourly |-> {five}]

Line(command, args) == [command |-> command, args |-> args]

SomeLines ==
  UNION {{Line("addReminder", <<rent, Word(type), dateData, text>>) :
            text \in TextsFor[type]} : type \in DOMAIN TextsFor}
  \cup {Line("addReminder", <<dateData, five, rent, Word("Monthly")>>),
        Line("addReminder", <<rent, Word("Daily")>>),
        Line("addReminder", <<rent, Word("Monthly"), dateData>>),
        Line("addReminder", <<rent, dateData, five>>),
        Line("list", <<Arg(2, "reminders", <<Empty, Empty, AWord>>)>>),
        Line("removeReminders", <<five>>), Line("remind", <<five>>)}

Past == {rent}
=============================================================================
