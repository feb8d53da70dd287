------------------------------ MODULE Reminders ------------------------------
(***************************************************************************)
(* Reminders, from the line that adds one to the start that shows it: the  *)
(* program shows at each start what is due (CliApp::UpdateReminders), and  *)
(* its loop gives each line to the parser, and the line that the parser    *)
(* has accepted to a handler.  The parser is CliParser, whose variables and *)
(* actions these are, with texts that also have fields (Dates).            *)
(***************************************************************************)
EXTENDS CliParser, Dates, Tables

CONSTANTS
  Calendar,  \* the days on which the program may run, in their order
  MaxRow     \* bound on the row ids of reminders

ASSUME RemindersAssumption ==
  /\ Calendar # <<>> /\ MaxRow \in Nat
  /\ Calendar \in Seq([y : Nat, m : 1 .. 12, d : 1 .. 31, dayName : DayNames])
  /\ \A arg \in Args : arg.fields \in Fields
  /\ "addReminder" \in DOMAIN Commands =>
       {"name", "type"} \subseteq Mandatory("addReminder")

VARIABLES
  reminders,  \* the table
  now,        \* the present day of the calendar
  job,        \* what the process does
  shown       \* the reminders shown since the start of the process

programVars == <<reminders, now, job, shown, vars>>

ReminderType == {"OneTime", "Daily", "Weekly", "Monthly", "Yearly"}

Off == [at |-> "off"]
Console == [at |-> "console"]
Looking(since, left) == [at |-> "looking", since |-> since, left |-> left]
Inserting(row) == [at |-> "inserting", row |-> row]

Today == Calendar[now]

ProgramInit ==
  /\ reminders = EmptyTable /\ now \in DOMAIN Calendar
  /\ job = Off /\ shown = {}
  /\ Init

\* The process ends, and with it the parser.
End ==
  /\ job' = Off /\ shown' = {}
  /\ m_CurrentCommandName' = "" /\ m_Flags' = {}
  /\ m_UserParameters' = NoParameters /\ step' = Prompt
  /\ UNCHANGED <<reminders, now>>

\* A handler returns, and the loop takes the next line.
Answer ==
  /\ job' = Console /\ NextLine
  /\ UNCHANGED <<now, shown>>
-----------------------------------------------------------------------------
(***************************************************************************)
(* CliApp::UpdateReminders.                                                *)
(***************************************************************************)
\* SplitString(text, '-').front() and back()
Front(fields) == <<fields[1]>>
Back(fields) == <<fields[Len(fields)]>>

DueThrows(row, today) ==
  LET fields == row.date_data.fields IN
  \/ row.type = "Monthly" /\ StoiThrows(fields)
  \/ /\ row.type = "Yearly"
     /\ \/ StoiThrows(Back(fields))
        \/ today.d = Stoi(Back(fields)) /\ StoiThrows(Front(fields))

DueDayFirst(row, today) ==
  LET fields == row.date_data.fields IN
  CASE row.type = "OneTime" -> SameDate(today, AsDate(fields))
    [] row.type = "Daily" -> TRUE
    [] row.type = "Weekly" -> today.dayName = row.date_data.name
    [] row.type = "Monthly" -> today.d = Stoi(fields)
    [] row.type = "Yearly" ->
         today.d = Stoi(Front(fields)) /\ today.m = Stoi(Back(fields))

Due(row, today) ==
  LET fields == row.date_data.fields IN
  CASE row.type = "OneTime" -> SameDate(today, AsDate(fields))
    [] row.type = "Daily" -> TRUE
    [] row.type = "Weekly" -> today.dayName = row.date_data.name
    [] row.type = "Monthly" -> today.d = Stoi(fields)
    [] row.type = "Yearly" ->
         today.d = Stoi(Back(fields)) /\ today.m = Stoi(Front(fields))

\* The rows are selected, unless SQLite refuses; then there is only a message.
Start ==
  /\ job = Off
  /\ job' \in {Looking(now, DOMAIN reminders), Console}
  /\ UNCHANGED <<reminders, now, shown, vars>>

SameLeft(left, i) == left
OthersLeft(left, i) == left \ {i}

\* One turn of the loop, which asks for the date anew.
Look ==
  /\ job.at = "looking"
  /\ \E i \in job.left :
       /\ \A k \in job.left : i <= k
       /\ \/ DueThrows(reminders[i], Today) /\ End
          \/ /\ ~DueThrows(reminders[i], Today)
             /\ job' = [job EXCEPT !.left = OthersLeft(@, i)]
             /\ shown' = IF Due(reminders[i], Today) THEN shown \cup {i}
                         ELSE shown
             /\ UNCHANGED <<reminders, now, vars>>

LookedAtAll ==
  /\ job.at = "looking" /\ job.left = {}
  /\ job' = Console
  /\ UNCHANGED <<reminders, now, shown, vars>>
-----------------------------------------------------------------------------
(***************************************************************************)
(* The loop of CliApp::Start, and AddReminder.                             *)
(***************************************************************************)
ReadLine ==
  /\ job.at = "console" /\ Parse
  /\ UNCHANGED <<reminders, now, job, shown>>

ParseLine ==
  /\ job.at = "console" /\ Validate
  /\ UNCHANGED <<reminders, now, job, shown>>

\* The parser has printed the usage.
Rejected ==
  /\ job.at = "console" /\ step.at = "rejected"
  /\ Answer /\ UNCHANGED reminders

\* The parser has read past its arguments and ended the process.
ReadPastEnd ==
  /\ job.at = "console" /\ step.at = "off"
  /\ End

Accepted(command) ==
  /\ job.at = "console" /\ step.at = "accepted"
  /\ m_CurrentCommandName = command

Given(p) == p \in DOMAIN m_UserParameters
Option(p) == m_UserParameters[p][1]

\* Were the texts converted by atoi, which makes 0 of what is no number.
NothingThrows(type, fields) == FALSE

\* AddReminder::Validate throws at std::stoi.
ValidateThrows(type, fields) ==
  \/ type = "Monthly" /\ IsNumeric(fields) /\ StoiThrows(fields)
  \/ /\ type = "Yearly" /\ Len(fields) = 2
     /\ IsNumeric(Back(fields)) /\ IsNumeric(Front(fields))
     /\ \/ StoiThrows(Back(fields))
        \/ IsValidDay(Stoi(Back(fields))) /\ StoiThrows(Front(fields))

IsValidReminder(type, text, today) ==
  LET fields == text.fields IN
  CASE type = "OneTime" ->
         IsValidDateString(fields) /\ ~Before(AsDate(fields), today)
    [] type = "Daily" -> TRUE
    [] type = "Weekly" -> IsValidDayName(text.name)
    [] type = "Monthly" -> IsNumeric(fields) /\ IsValidDay(Stoi(fields))
    [] type = "Yearly" ->
         /\ Len(fields) = 2
         /\ IsNumeric(Back(fields)) /\ IsNumeric(Front(fields))
         /\ IsValidDay(Stoi(Back(fields))) /\ IsValidMonth(Stoi(Front(fields)))

\* Execute up to the statement; at("dateData") throws without that option.
AddReminder ==
  /\ Accepted("addReminder")
  /\ LET type == Option("type").name
         text == Option("dateData")
         throws == ~Given("dateData") \/ ValidateThrows(type, text.fields)
     IN  \/ /\ type \notin ReminderType
            /\ Answer /\ UNCHANGED reminders
         \/ /\ type \in ReminderType /\ throws
            /\ End
         \/ /\ type \in ReminderType /\ ~throws
            /\ ~IsValidReminder(type, text, Today)
            /\ Answer /\ UNCHANGED reminders
         \/ /\ type \in ReminderType /\ ~throws
            /\ IsValidReminder(type, text, Today)
            /\ job' = Inserting([name |-> Option("name"), type |-> type,
                                 date_data |-> text])
            /\ UNCHANGED <<reminders, now, shown, vars>>

\* SQLite inserts the row or refuses.
InsertReminder ==
  /\ job.at = "inserting"
  /\ \/ \E id \in NextRowId(reminders) :
          id <= MaxRow /\ reminders' = WithRow(reminders, id, job.row)
     \/ UNCHANGED reminders
  /\ Answer

\* list --reminders, which renders a table after the columns of its first row.
ListReminders ==
  /\ Accepted("list") /\ "reminders" \in m_Flags
  /\ \/ reminders = EmptyTable /\ End
     \/ Answer /\ UNCHANGED reminders

\* removeReminders is in cliConfig.json, and no handler is registered for it.
NoHandler ==
  /\ Accepted("removeReminders")
  /\ Answer /\ UNCHANGED reminders
-----------------------------------------------------------------------------
\* A day or several pass.
NewDay ==
  /\ now' \in {k \in DOMAIN Calendar : k > now}
  /\ UNCHANGED <<reminders, job, shown, vars>>

\* The user quits, or closes the window at any time.
Kill == job # Off /\ End

Work ==
  \/ Look \/ LookedAtAll \/ ParseLine \/ Rejected \/ ReadPastEnd
  \/ AddReminder \/ InsertReminder \/ ListReminders \/ NoHandler

ProgramNext == Start \/ ReadLine \/ Work \/ NewDay \/ Kill

ProgramSpec == ProgramInit /\ [][ProgramNext]_programVars

\* A start and a command run on their own; nobody need type another line.
ProgramLiveSpec == ProgramSpec /\ WF_programVars(Work)
-----------------------------------------------------------------------------
(***************************************************************************)
(* Properties.                                                             *)
(***************************************************************************)
\* The days a reminder is meant for: those whose date is spelled so.
FallsOn(row, today) ==
  CASE row.type = "OneTime" ->
         row.date_data.fields = <<Num(today.y), Num(today.m), Num(today.d)>>
    [] row.type = "Daily" -> TRUE
    [] row.type = "Weekly" -> row.date_data.name = today.dayName
    [] row.type = "Monthly" -> row.date_data.fields = <<Num(today.d)>>
    [] row.type = "Yearly" ->
         row.date_data.fields = <<Num(today.m), Num(today.d)>>

DaysOf(row) == {k \in DOMAIN Calendar : FallsOn(row, Calendar[k])}

\* Reminders keep the promise of Diary: a start that reads the table to its
\* end shows the reminders that fall on the day it runs on, and no others; if
\* midnight passes meanwhile, what falls on both days is shown for certain.
PromisedDiary == INSTANCE Diary
  WITH LastDay <- Len(Calendar), day <- now,
       entries <- [i \in DOMAIN reminders |-> DaysOf(reminders[i])],
       opened <- IF job.at = "looking" THEN job.since ELSE 0,
       announced <- IF job.at = "looking" THEN {} ELSE shown

ImplementsDiary == PromisedDiary!DiarySpec

\* A row of reminders is of a known type, and a job has what its next step needs.
RemindersOK ==
  /\ IsTable(reminders, {reminders[i] : i \in DOMAIN reminders})
  /\ \A i \in DOMAIN reminders : reminders[i].type \in ReminderType
  /\ now \in DOMAIN Calendar
  /\ job.at \in {"off", "console", "looking", "inserting"}
  /\ job.at = "looking" =>
       job.left \subseteq DOMAIN reminders /\ job.since \in 1 .. now
  /\ job.at = "inserting" => job.row.type \in ReminderType
  /\ shown \subseteq DOMAIN reminders

\* No reminder that was accepted, whatever its text, throws at a later start:
\* such a row could not be removed, and would end every start from then on.
NoReminderStopsAStart ==
  \A i \in DOMAIN reminders, k \in DOMAIN Calendar :
    ~DueThrows(reminders[i], Calendar[k])

\* What is stored is what the line says, by the grammar of the whole line and
\* not by the parser's loop: several steps of the parser, the handler and the
\* singleton's state of earlier lines lie between.
StoredAsTyped ==
  [][\A id \in DOMAIN reminders' \ DOMAIN reminders : ~step.strayed =>
       LET said == Meaning("addReminder", step.line.args) IN
       /\ WellFormed("addReminder", step.line.args)
       /\ {"name", "type", "dateData"} \subseteq DOMAIN said
       /\ reminders'[id] = [name |-> said.name[1], type |-> said.type[1].name,
                            date_data |-> said.dateData[1]]]_programVars

\* Every start and every line comes to the console or ends the process.
BackAtConsole ==
  []<>(job = Off \/ (job = Console /\ step = Prompt))
=============================================================================
