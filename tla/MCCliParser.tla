----------------------------- MODULE MCCliParser -----------------------------
(***************************************************************************)
(* An instance of CliParser for TLC: commands of cliConfig.json, each with *)
(* every line of a few words.                                              *)
(***************************************************************************)
EXTENDS CliParser

Param(type, mandatory, index, n) ==
  [type |-> type, isMandatory |-> mandatory, inOrderIndex |-> index,
   numValues |-> n]

\* -1, the index of a parameter without one, is 0 here.
SomeCommands ==
  [addAccount |->
     [flags |-> {},
      parameters |-> [name |-> Param("alphaNumeric", TRUE, 1, 1),
                      description |-> Param("alphaNumeric", FALSE, 0, 1)]],
   update |->
     [flags |-> {},
      parameters |-> [row_id |-> Param("integer", TRUE, 1, 1),
                      attributeName |-> Param("text", TRUE, 2, 1),
                      attributeValue |-> Param("text", TRUE, 3, 1)]],
   list |->
     [flags |-> {"today", "tags"},
      parameters |-> [date |-> Param("date", FALSE, 0, 1),
                      range |-> Param("date", FALSE, 0, 2),
                      tags |-> Param("text", FALSE, 0, 1)]],
   addReminder |->
     [flags |-> {},
      parameters |-> [name |-> Param("text", TRUE, 1, 1),
                      type |-> Param("text", TRUE, 2, 1),
                      dateData |-> Param("text", FALSE, 3, 1)]]]

Arg(dashes, name, passes) == [dashes |-> dashes, name |-> name, passes |-> passes]

food == Arg(0, "food", {"alphaNumeric"})
tea_cup == Arg(0, "tea-cup", {})
seven == Arg(0, "7", {"alphaNumeric", "double", "integer"})
date1 == Arg(0, "2024-03-05", {"date"})
date2 == Arg(0, "2024-03-06", {"date"})

Option(name) == Arg(1, name, {})
Flag(name) == Arg(2, name, {})

Words ==
  [addAccount |-> {food, tea_cup, date1, Option("name"), Option("description"),
                   Flag("today")},
   update |-> {food, seven, Option("row_id")},
   list |-> {food, date1, date2, Option("range"), Option("tags"), Flag("tags")},
   addReminder |-> {food, Option("dateData"), Option("month")},
   lst |-> {food}]

MaxWords == [addAccount |-> 3, update |-> 4, list |-> 4, addReminder |-> 4,
             lst |-> 1]

SeqsUpTo(S, n) == UNION {[1 .. k -> S] : k \in 0 .. n}

SomeLines ==
  UNION {{[command |-> c, args |-> args] :
            args \in SeqsUpTo(Words[c], MaxWords[c])} : c \in DOMAIN Words}

Past == {tea_cup, date2}
=============================================================================
