--------------------------- MODULE RemindersProofs ---------------------------
(***************************************************************************)
(* That the reminders keep the promise of Diary, for every calendar and    *)
(* every line, and that no reminder stops a start.                         *)
(***************************************************************************)
EXTENDS Reminders, CliParserProofs, TablesProofs

\* A row as AddReminder::Validate lets it through, on whatever day.
Sound(row) ==
  /\ row.type \in ReminderType /\ row.date_data.fields \in Fields
  /\ row.type = "OneTime" => IsValidDateString(row.date_data.fields)
  /\ row.type = "Monthly" =>
       /\ IsNumeric(row.date_data.fields)
       /\ ~StoiThrows(row.date_data.fields)
  /\ row.type = "Yearly" =>
       /\ Len(row.date_data.fields) = 2
       /\ ~StoiThrows(Back(row.date_data.fields))
       /\ ~StoiThrows(Front(row.date_data.fields))

RowsOK ==
  /\ IsTable(reminders, {reminders[i] : i \in DOMAIN reminders})
  /\ \A i \in DOMAIN reminders : Sound(reminders[i])

\* What is shown while the table is read: of the rows behind the present one,
\* those due on every day since the start, and none that was due on no day.
LookingOK ==
  /\ job = Looking(job.since, job.left)
  /\ job.since \in 1 .. now /\ job.left \subseteq DOMAIN reminders
  /\ \A i \in shown : (job.since .. now) \cap DaysOf(reminders[i]) # {}
  /\ \A i \in DOMAIN reminders \ job.left :
       job.since .. now \subseteq DaysOf(reminders[i]) => i \in shown

JobOK ==
  /\ now \in DOMAIN Calendar
  /\ shown \subseteq DOMAIN reminders
  /\ job = Off => shown = {}
  /\ \/ job = Off
     \/ job = Console
     \/ LookingOK
     \/ job = Inserting(job.row) /\ Sound(job.row)

ProgramInv == ParserInv /\ RowsOK /\ JobOK
-----------------------------------------------------------------------------
\* A day of the calendar has a month and a day of the month.
LEMMA CalendarDay ==
  ASSUME NEW k \in DOMAIN Calendar
  PROVE  /\ Calendar[k] \in [y : Nat, m : 1 .. 12, d : 1 .. 31,
                             dayName : DayNames]
         /\ k \in 1 .. Len(Calendar) /\ Len(Calendar) \in Nat
  <1> DEFINE Day == [y : Nat, m : 1 .. 12, d : 1 .. 31, dayName : DayNames]
  <1>1. Calendar \in Seq(Day)
    BY RemindersAssumption
  <1> HIDE DEF Day
  <1>2. /\ Len(Calendar) \in Nat /\ DOMAIN Calendar = 1 .. Len(Calendar)
        /\ Calendar \in [1 .. Len(Calendar) -> Day]
    BY <1>1, LenProperties
  <1> QED BY <1>2 DEF Day

\* A field that is a number is the text of that number.
LEMMA FieldIsNum ==
  ASSUME NEW f \in Field
  PROVE  /\ f.n \in Nat
         /\ f.kind = "number" => f = Num(f.n)
         /\ f # Empty /\ f.n \in 1 .. 31 => f.kind = "number"
  <1>1. MaxInt \in Nat /\ MaxInt > 31
    BY SMT DEF MaxInt
  <1>2. CASE f \in [kind : {"number"}, n : 0 .. MaxInt]
    BY <1>1, <1>2 DEF Num, Empty
  <1>3. CASE f \in {Empty, AWord, Long}
    BY <1>1, <1>3 DEF Empty, AWord, Long
  <1> QED BY <1>2, <1>3 DEF Field

\* Texts of one, two and three fields.
LEMMA FieldsOfLength ==
  ASSUME NEW fields \in Fields
  PROVE  /\ Len(fields) \in 1 .. 3 /\ DOMAIN fields = 1 .. Len(fields)
         /\ \A i \in 1 .. Len(fields) : fields[i] \in Field
         /\ Len(fields) = 1 => fields = <<fields[1]>>
         /\ Len(fields) = 2 => fields = <<fields[1], fields[2]>>
         /\ Len(fields) = 3 => fields = <<fields[1], fields[2], fields[3]>>
  <1>1. PICK k \in 1 .. 3 : fields \in [1 .. k -> Field]
    BY DEF Fields
  <1>2. fields \in Seq(Field)
    BY <1>1, SeqDef
  <1>3. DOMAIN fields = 1 .. Len(fields) /\ Len(fields) \in Nat
    BY <1>2, LenProperties
  <1>4. Len(fields) = k
    BY <1>1, <1>3
  <1>5. CASE k = 1
    BY <1>1, <1>4, <1>5
  <1>6. CASE k = 2
    BY <1>1, <1>4, <1>6
  <1>7. CASE k = 3
    BY <1>1, <1>4, <1>7
  <1> QED BY <1>1, <1>3, <1>4, <1>5, <1>6, <1>7

\* What Validate lets through without throwing is sound.
LEMMA ValidatedSound ==
  ASSUME NEW name, NEW type \in ReminderType, NEW text, text.fields \in Fields,
         NEW today, ~ValidateThrows(type, text.fields),
         IsValidReminder(type, text, today)
  PROVE  Sound([name |-> name, type |-> type, date_data |-> text])
  <1> DEFINE fields == text.fields
  <1>1. type = "OneTime" => IsValidDateString(fields)
    BY DEF IsValidReminder
  <1>2. type = "Monthly" => IsNumeric(fields) /\ ~StoiThrows(fields)
    BY DEF IsValidReminder, ValidateThrows
  <1>3. type = "Yearly" =>
          /\ Len(fields) = 2
          /\ ~StoiThrows(Back(fields)) /\ ~StoiThrows(Front(fields))
    BY DEF IsValidReminder, ValidateThrows
  <1> QED BY <1>1, <1>2, <1>3 DEF Sound

\* A sound row throws on no day.
LEMMA SoundDoesNotThrow ==
  ASSUME NEW row, Sound(row), NEW today
  PROVE  ~DueThrows(row, today)
  BY DEF Sound, DueThrows

\* std::stoi of one field that is a number.
LEMMA StoiOfOne ==
  ASSUME NEW f \in Field, ~StoiThrows(<<f>>)
  PROVE  f = Num(f.n) /\ Stoi(<<f>>) = f.n
  <1>1. ~IsSigned(<<f>>) /\ NumberAt(<<f>>) = 1
    BY DEF IsSigned, NumberAt
  <1>2. f.kind = "number" /\ Stoi(<<f>>) = f.n
    BY <1>1 DEF StoiThrows, Stoi
  <1> QED BY <1>2, FieldIsNum

\* Texts whose numbers are the same are the same.
LEMMA NumEqual ==
  ASSUME NEW a, NEW b
  PROVE  (Num(a) = Num(b)) <=> (a = b)
  BY DEF Num

\* UpdateReminders shows a sound row exactly on the days it is meant for.
LEMMA DueIsFallsOn ==
  ASSUME NEW row, Sound(row), NEW k \in DOMAIN Calendar
  PROVE  Due(row, Calendar[k]) <=> FallsOn(row, Calendar[k])
  <1> DEFINE today == Calendar[k]
             fields == row.date_data.fields
  <1>1. today.m \in 1 .. 12 /\ today.d \in 1 .. 31 /\ today.y \in Nat
    BY CalendarDay
  <1>2. row.type \in ReminderType /\ fields \in Fields
    BY DEF Sound
  <1>3. CASE row.type \in {"Daily", "Weekly"}
    BY <1>3 DEF Due, FallsOn
  <1>4. CASE row.type = "OneTime"
    <2>1. /\ Len(fields) = 3 /\ fields[1].kind = "number"
          /\ fields[2].kind = "number" /\ fields[3] # Empty
      BY <1>4 DEF Sound, IsValidDateString
    <2>2. /\ fields = <<fields[1], fields[2], fields[3]>>
          /\ fields[1] \in Field /\ fields[2] \in Field /\ fields[3] \in Field
      BY <1>2, <2>1, FieldsOfLength
    <2>3. fields[1] = Num(fields[1].n) /\ fields[2] = Num(fields[2].n)
      BY <2>1, <2>2, FieldIsNum
    <2>4. fields[3].n \in 1 .. 31 => fields[3] = Num(fields[3].n)
      BY <2>1, <2>2, FieldIsNum
    <2>5. Due(row, today) <=>
            /\ today.y = fields[1].n /\ today.m = fields[2].n
            /\ today.d = fields[3].n
      BY <1>4 DEF Due, SameDate, AsDate
    <2>6. FallsOn(row, today) <=>
            fields = <<Num(today.y), Num(today.m), Num(today.d)>>
      BY <1>4 DEF FallsOn
    <2>7. ASSUME Due(row, today) PROVE FallsOn(row, today)
      <3>1. fields[3] = Num(fields[3].n)
        BY <1>1, <2>4, <2>5, <2>7
      <3> HIDE DEF fields, today
      <3> QED BY <2>2, <2>3, <2>5, <2>6, <2>7, <3>1
    <2>8. ASSUME FallsOn(row, today) PROVE Due(row, today)
      <3>1. /\ fields[1] = Num(today.y) /\ fields[2] = Num(today.m)
            /\ fields[3] = Num(today.d)
        BY <2>6, <2>8
      <3> HIDE DEF fields, today
      <3> QED BY <2>5, <3>1 DEF Num
    <2> QED BY <2>7, <2>8
  <1>5. CASE row.type = "Monthly"
    <2>1. IsNumeric(fields) /\ ~StoiThrows(fields)
      BY <1>5 DEF Sound
    <2>2. /\ Due(row, today) <=> today.d = Stoi(fields)
          /\ FallsOn(row, today) <=> fields = <<Num(today.d)>>
      BY <1>5 DEF Due, FallsOn
    <2>3. CASE Len(fields) = 1
      <3>1. fields = <<fields[1]>> /\ fields[1] \in Field
        BY <1>2, <2>3, FieldsOfLength
      <3> DEFINE f == fields[1]
      <3> HIDE DEF f
      <3>2. fields = <<f>> /\ f \in Field
        BY <3>1 DEF f
      <3> HIDE DEF fields, today
      <3>3. f = Num(f.n) /\ Stoi(<<f>>) = f.n
        BY <2>1, <3>2, StoiOfOne
      <3>4. fields = <<Num(today.d)>> <=> f = Num(today.d)
        BY <3>2
      <3> QED BY <2>2, <3>2, <3>3, <3>4, NumEqual DEF today
    <2>4. CASE Len(fields) # 1
      <3>1. Len(fields) = 2 /\ IsSigned(fields) /\ fields[2] \in Field
        BY <1>2, <2>1, <2>4, FieldsOfLength DEF IsNumeric, NumberAt
      <3>2. Stoi(fields) = -fields[2].n /\ fields[2].n \in Nat
        BY <3>1, FieldIsNum DEF Stoi
      <3>3. today.d # Stoi(fields)
        BY <1>1, <3>2
      <3>4. fields # <<Num(today.d)>>
        BY <2>4
      <3> QED BY <2>2, <3>3, <3>4
    <2> QED BY <2>3, <2>4
  <1>6. CASE row.type = "Yearly"
    <2>1. /\ Len(fields) = 2
          /\ ~StoiThrows(Back(fields)) /\ ~StoiThrows(Front(fields))
      BY <1>6 DEF Sound
    <2>2. /\ fields = <<fields[1], fields[2]>>
          /\ fields[1] \in Field /\ fields[2] \in Field
      BY <1>2, <2>1, FieldsOfLength
    <2>3. Front(fields) = <<fields[1]>> /\ Back(fields) = <<fields[2]>>
      BY <2>1 DEF Front, Back
    <2>4. /\ Due(row, today) <=>
               today.d = Stoi(Back(fields)) /\ today.m = Stoi(Front(fields))
          /\ FallsOn(row, today) <=> fields = <<Num(today.m), Num(today.d)>>
      BY <1>6 DEF Due, FallsOn
    <2> HIDE DEF fields, today
    <2>5. fields[1] = Num(fields[1].n) /\ Stoi(Front(fields)) = fields[1].n
      BY <2>1, <2>2, <2>3, StoiOfOne
    <2>6. fields[2] = Num(fields[2].n) /\ Stoi(Back(fields)) = fields[2].n
      BY <2>1, <2>2, <2>3, StoiOfOne
    <2>7. fields = <<Num(today.m), Num(today.d)>> <=>
            fields[1] = Num(today.m) /\ fields[2] = Num(today.d)
      BY <2>2
    <2> QED BY <2>4, <2>5, <2>6, <2>7, NumEqual DEF today
  <1> QED BY <1>2, <1>3, <1>4, <1>5, <1>6 DEF ReminderType
-----------------------------------------------------------------------------
\* The invariant holds of an empty table with no process.
LEMMA ProgramInitInv == ProgramInit => ProgramInv
  <1> SUFFICES ASSUME ProgramInit PROVE ProgramInv
    OBVIOUS
  <1>1. ParserInv
    BY InitInv DEF ProgramInit
  <1>2. RowsOK
    BY EmptyTableType DEF ProgramInit, RowsOK, EmptyTable
  <1>3. JobOK
    BY DEF ProgramInit, JobOK, EmptyTable
  <1> QED BY <1>1, <1>2, <1>3 DEF ProgramInv

\* The process may end at any time.
LEMMA EndInv ==
  ASSUME ProgramInv, End
  PROVE  ProgramInv'
  <1>1. StepOK' /\ KeptOK' /\ ValuesCounted' /\ MandatoryCounted'
    <2>1. StepOK'
      BY DEF End, StepOK, Prompt
    <2>2. KeptOK'
      BY DEF End, KeptOK, NoParameters
    <2>3. ValuesCounted' /\ MandatoryCounted'
      BY DEF End, ValuesCounted, MandatoryCounted, Prompt
    <2> QED BY <2>1, <2>2, <2>3
  <1>2. RowsOK'
    BY DEF End, ProgramInv, RowsOK
  <1>3. JobOK'
    BY DEF End, ProgramInv, JobOK
  <1> QED BY <1>1, <1>2, <1>3 DEF ProgramInv, ParserInv

\* Steps that leave the table alone and the job at the console.
LEMMA ConsoleInv ==
  ASSUME ProgramInv, [Next]_vars, job' = Console, UNCHANGED <<now, shown>>,
         UNCHANGED reminders
  PROVE  ProgramInv'
  <1>1. ParserInv'
    BY NextInv DEF ProgramInv
  <1>2. RowsOK'
    BY DEF ProgramInv, RowsOK
  <1>3. JobOK'
    BY DEF ProgramInv, JobOK, Console, Off
  <1> QED BY <1>1, <1>2, <1>3 DEF ProgramInv

\* Steps of the parser alone.
LEMMA ParserStepInv ==
  ASSUME ProgramInv, [Next]_vars, UNCHANGED <<reminders, now, job, shown>>
  PROVE  ProgramInv'
  <1>1. ParserInv'
    BY NextInv DEF ProgramInv
  <1>2. RowsOK'
    BY DEF ProgramInv, RowsOK
  <1>3. JobOK'
    BY DEF ProgramInv, JobOK, LookingOK, DaysOf
  <1> QED BY <1>1, <1>2, <1>3 DEF ProgramInv

\* A start looks at rows that are there.
LEMMA StartInv == ProgramInv /\ Start => ProgramInv'
  <1> SUFFICES ASSUME ProgramInv, Start PROVE ProgramInv'
    OBVIOUS
  <1>1. /\ job = Off /\ shown = {} /\ shown' = {}
        /\ UNCHANGED <<reminders, now, vars>>
        /\ job' \in {Looking(now, DOMAIN reminders), Console}
        /\ now \in Nat \ {0}
    <2>1. now \in 1 .. Len(Calendar) /\ Len(Calendar) \in Nat
      BY CalendarDay DEF ProgramInv, JobOK
    <2> QED BY <2>1 DEF Start, ProgramInv, JobOK
  <1>2. CASE job' = Console
    BY <1>1, <1>2, ConsoleInv
  <1>3. CASE job' = Looking(now, DOMAIN reminders)
    <2>1. ParserInv'
      BY <1>1, NextInv DEF ProgramInv
    <2>2. RowsOK'
      BY <1>1 DEF ProgramInv, RowsOK
    <2>3. LookingOK'
      BY <1>1, <1>3 DEF LookingOK, Looking
    <2>4. JobOK'
      BY <1>1, <1>3, <2>3 DEF ProgramInv, JobOK, Looking, Off
    <2> QED BY <2>1, <2>2, <2>4 DEF ProgramInv
  <1> QED BY <1>1, <1>2, <1>3

\* No row makes a start throw.
LEMMA RowsDoNotThrow ==
  ASSUME ProgramInv, NEW i \in DOMAIN reminders, NEW today
  PROVE  ~DueThrows(reminders[i], today)
  BY SoundDoesNotThrow DEF ProgramInv, RowsOK

\* A process that is looking is in a state of LookingOK.
LEMMA LookingAt ==
  ASSUME ProgramInv, job.at = "looking"
  PROVE  LookingOK
  BY DEF ProgramInv, JobOK, Off, Console, Inserting

\* Looking at a row takes it from those that are left, or ends the process.
LEMMA LookInv ==
  ASSUME ProgramInv, Look
  PROVE  /\ ProgramInv'
         /\ LookingOK' /\ job'.since = job.since
         /\ UNCHANGED <<reminders, now, vars>>
  <1>1. job.at = "looking" /\ LookingOK
    BY LookingAt DEF Look
  <1>2. PICK i \in job.left :
          \/ DueThrows(reminders[i], Today) /\ End
          \/ /\ ~DueThrows(reminders[i], Today)
             /\ job' = [job EXCEPT !.left = OthersLeft(@, i)]
             /\ shown' = IF Due(reminders[i], Today) THEN shown \cup {i}
                         ELSE shown
             /\ UNCHANGED <<reminders, now, vars>>
    BY DEF Look
  <1>3. i \in DOMAIN reminders /\ Sound(reminders[i]) /\ now \in DOMAIN Calendar
    BY <1>1, <1>2 DEF LookingOK, ProgramInv, RowsOK, JobOK
  <1>4. ~DueThrows(reminders[i], Today)
    BY <1>3, RowsDoNotThrow
  <1>5. Due(reminders[i], Today) <=> now \in DaysOf(reminders[i])
    BY <1>3, DueIsFallsOn DEF Today, DaysOf
  <1>6. /\ UNCHANGED <<reminders, now, vars>>
        /\ shown' = IF now \in DaysOf(reminders[i]) THEN shown \cup {i} ELSE shown
        /\ job' = Looking(job.since, job.left \ {i})
    BY <1>1, <1>2, <1>4, <1>5 DEF OthersLeft, LookingOK, Looking
  <1>7. job'.since = job.since /\ job'.left = job.left \ {i}
    BY <1>6 DEF Looking
  <1>8. now \in job.since .. now
    BY <1>1, <1>3, CalendarDay DEF LookingOK
  <1>9. LookingOK'
    <2>1. job' = Looking(job'.since, job'.left)
      BY <1>6, <1>7
    <2>2. job'.since \in 1 .. now' /\ job'.left \subseteq DOMAIN reminders'
      BY <1>1, <1>6, <1>7 DEF LookingOK
    <2>3. \A k \in shown' :
            (job'.since .. now') \cap DaysOf(reminders'[k]) # {}
      BY <1>1, <1>6, <1>7, <1>8 DEF LookingOK
    <2>4. ASSUME NEW k \in DOMAIN reminders' \ job'.left,
                 job'.since .. now' \subseteq DaysOf(reminders'[k])
          PROVE  k \in shown'
      <3>1. CASE k = i
        BY <1>6, <1>7, <1>8, <2>4, <3>1
      <3>2. CASE k # i
        BY <1>1, <1>6, <1>7, <2>4, <3>2 DEF LookingOK
      <3> QED BY <3>1, <3>2
    <2> QED BY <2>1, <2>2, <2>3, <2>4 DEF LookingOK
  <1>10. JobOK'
    <2>1. shown' \subseteq DOMAIN reminders' /\ now' \in DOMAIN Calendar
      BY <1>3, <1>6 DEF ProgramInv, JobOK
    <2>2. job' # Off
      BY <1>6 DEF Looking, Off
    <2> QED BY <1>9, <2>1, <2>2 DEF JobOK
  <1>11. ParserInv' /\ RowsOK'
    BY <1>6, NextInv DEF ProgramInv, RowsOK
  <1> QED BY <1>6, <1>7, <1>9, <1>10, <1>11 DEF ProgramInv

\* Midnight leaves a later day in the calendar.
LEMMA NewDayInv == ProgramInv /\ NewDay => ProgramInv'
  <1> SUFFICES ASSUME ProgramInv, NewDay PROVE ProgramInv'
    OBVIOUS
  <1>1. /\ now' \in DOMAIN Calendar /\ now' > now
        /\ UNCHANGED <<reminders, job, shown, vars>>
    BY DEF NewDay
  <1>2. now \in Nat /\ now' \in Nat
    <2>1. now \in DOMAIN Calendar
      BY DEF ProgramInv, JobOK
    <2> QED BY <1>1, <2>1, CalendarDay
  <1>3. LookingOK => LookingOK'
    <2> SUFFICES ASSUME LookingOK PROVE LookingOK'
      OBVIOUS
    <2>1. job.since .. now \subseteq job.since .. now' /\ job.since \in 1 .. now'
      BY <1>1, <1>2 DEF LookingOK
    <2> QED BY <1>1, <2>1 DEF LookingOK
  <1>4. JobOK'
    BY <1>1, <1>3 DEF ProgramInv, JobOK
  <1>5. ParserInv' /\ RowsOK'
    BY <1>1, NextInv DEF ProgramInv, RowsOK
  <1> QED BY <1>4, <1>5 DEF ProgramInv

\* The handler is given texts whose fields are fields.
LEMMA OptionFields ==
  ASSUME ParserInv, step.at = "accepted", NEW p \in DOMAIN m_UserParameters
  PROVE  Option(p) \in Args /\ Option(p).fields \in Fields
  <1>1. /\ Command \in DOMAIN Commands /\ p \in DOMAIN Parameters(Command)
        /\ Len(m_UserParameters[p]) = Parameters(Command)[p].numValues
        /\ m_UserParameters[p] \in Seq(Args)
    BY DEF ParserInv, StepOK, KeptOK, ValuesCounted
  <1>2. Parameters(Command)[p].numValues \in Nat \ {0}
    BY <1>1, CliParserAssumption
  <1>3. 1 \in 1 .. Len(m_UserParameters[p])
    BY <1>1, <1>2
  <1>4. m_UserParameters[p][1] \in Args
    BY <1>1, <1>3, ElementOfSeq
  <1> QED BY <1>4, RemindersAssumption DEF Option

\* What AddReminder::Validate lets through no conversion of a later start throws on.
LEMMA AddReminderInv ==
  ASSUME ProgramInv, AddReminder
  PROVE  /\ ProgramInv'
         /\ \/ End
            \/ /\ job = Console /\ job'.at \in {"console", "inserting"}
               /\ UNCHANGED <<reminders, now, shown>>
  <1> DEFINE type == Option("type").name
             text == Option("dateData")
             throws == ~Given("dateData") \/ ValidateThrows(type, text.fields)
             row == [name |-> Option("name"), type |-> type, date_data |-> text]
  <1>1. /\ job.at = "console" /\ step.at = "accepted"
        /\ \/ Answer /\ UNCHANGED reminders
           \/ End
           \/ /\ type \in ReminderType /\ ~throws
              /\ IsValidReminder(type, text, Today)
              /\ job' = Inserting(row)
              /\ UNCHANGED <<reminders, now, shown, vars>>
    BY DEF AddReminder, Accepted
  <1>2. job = Console
    BY <1>1 DEF ProgramInv, JobOK, LookingOK, Off, Looking, Inserting
  <1>3. CASE End
    BY <1>3, EndInv
  <1>4. CASE Answer /\ UNCHANGED reminders
    <2>1. [Next]_vars /\ job' = Console /\ UNCHANGED <<now, shown>>
      BY <1>4 DEF Answer, Next, ParseStep
    <2> QED BY <1>2, <1>4, <2>1, ConsoleInv DEF Console
  <1>5. CASE /\ type \in ReminderType /\ ~throws
             /\ IsValidReminder(type, text, Today)
             /\ job' = Inserting(row)
             /\ UNCHANGED <<reminders, now, shown, vars>>
    <2>1. "dateData" \in DOMAIN m_UserParameters
      BY <1>5 DEF Given
    <2>2. text.fields \in Fields
      BY <1>1, <2>1, OptionFields DEF ProgramInv
    <2>3. ~ValidateThrows(type, text.fields)
      BY <1>5
    <2> HIDE DEF type, text, throws
    <2>4. Sound(row)
      BY <1>5, <2>2, <2>3, ValidatedSound
    <2> HIDE DEF row
    <2>5. job' = Inserting(job'.row) /\ Sound(job'.row) /\ job' # Off
          /\ job'.at = "inserting"
      BY <1>5, <2>4 DEF Inserting, Off
    <2>6. ParserInv' /\ RowsOK'
      BY <1>5, NextInv DEF ProgramInv, RowsOK
    <2>7. Sound(job.row)'
      BY <2>5 DEF Sound
    <2>8. JobOK'
      BY <1>5, <2>5, <2>7 DEF ProgramInv, JobOK
    <2> QED BY <1>2, <1>5, <2>5, <2>6, <2>8 DEF ProgramInv
  <1> QED BY <1>1, <1>3, <1>4, <1>5

\* The row inserted is the one that was validated.
LEMMA InsertReminderInv ==
  ASSUME ProgramInv, InsertReminder
  PROVE  /\ ProgramInv'
         /\ job = Inserting(job.row) /\ job' = Console
         /\ UNCHANGED <<now, shown>>
  <1>1. /\ job.at = "inserting" /\ [Next]_vars /\ job' = Console
        /\ UNCHANGED <<now, shown>>
    BY DEF InsertReminder, Answer, Next, ParseStep
  <1>2. job = Inserting(job.row) /\ Sound(job.row)
    BY <1>1 DEF ProgramInv, JobOK, LookingOK, Off, Console, Looking
  <1>3. CASE UNCHANGED reminders
    BY <1>1, <1>2, <1>3, ConsoleInv
  <1>4. ASSUME NEW id \in NextRowId(reminders),
               reminders' = WithRow(reminders, id, job.row)
        PROVE  ProgramInv'
    <2> DEFINE Rows == {r \in {reminders[i] : i \in DOMAIN reminders}
                                \cup {job.row} : Sound(r)}
    <2>1. IsTable(reminders, Rows)
      <3>1. \A i \in DOMAIN reminders : reminders[i] \in Rows
        BY DEF ProgramInv, RowsOK
      <3> QED BY <3>1 DEF IsTable, ProgramInv, RowsOK
    <2>2. job.row \in Rows
      BY <1>2
    <2> HIDE DEF Rows
    <2>3. id \in RowId
      BY <2>1, NextRowIdFresh
    <2>4. /\ IsTable(reminders', Rows)
          /\ DOMAIN reminders' = DOMAIN reminders \cup {id}
      BY <1>4, <2>1, <2>2, <2>3, WithRowType
    <2>5. RowsOK'
      <3>1. \A i \in DOMAIN reminders' : Sound(reminders'[i])
        BY <2>4 DEF IsTable, Rows
      <3>2. reminders' \in [DOMAIN reminders' ->
                              {reminders'[i] : i \in DOMAIN reminders'}]
        BY <2>4 DEF IsTable
      <3>3. IsTable(reminders, {reminders[i] : i \in DOMAIN reminders})'
        BY <2>4, <3>2 DEF IsTable
      <3> QED BY <3>1, <3>3 DEF RowsOK, Sound
    <2>6. ParserInv'
      BY <1>1, NextInv DEF ProgramInv
    <2>7. JobOK'
      BY <1>1, <2>4 DEF ProgramInv, JobOK, Console, Off
    <2> QED BY <2>5, <2>6, <2>7 DEF ProgramInv
  <1> QED BY <1>1, <1>2, <1>3, <1>4 DEF InsertReminder

\* The loop answers, or the process ends.
LEMMA AnswerInv ==
  ASSUME ProgramInv, job.at = "console", Answer, UNCHANGED reminders
  PROVE  ProgramInv'
  BY ConsoleInv DEF Answer, Next, ParseStep

\* The process is at its console.
LEMMA LookedAtAllInv ==
  ASSUME ProgramInv, LookedAtAll
  PROVE  ProgramInv' /\ LookingOK /\ job.left = {} /\ job' = Console
  BY LookingAt, ConsoleInv DEF LookedAtAll

\* The steps of a process that is at the console, or that ends.
AtConsole == ReadLine \/ ParseLine \/ Rejected \/ ReadPastEnd \/ ListReminders
               \/ NoHandler \/ Kill

\* At the console the parser moves, and the rows stay.
LEMMA AtConsoleInv ==
  ASSUME ProgramInv, AtConsole
  PROVE  /\ ProgramInv'
         /\ \/ End
            \/ /\ job.at = "console" /\ job' = Console
               /\ UNCHANGED <<reminders, now, shown>>
  <1>1. job.at = "console" => job = Console
    BY DEF ProgramInv, JobOK, LookingOK, Off, Looking, Inserting
  <1>2. CASE End
    BY <1>2, EndInv
  <1>3. CASE job.at = "console" /\ Answer /\ UNCHANGED reminders
    BY <1>3, AnswerInv DEF Answer
  <1>4. CASE /\ job.at = "console" /\ [Next]_vars
             /\ UNCHANGED <<reminders, now, job, shown>>
    BY <1>1, <1>4, ParserStepInv
  <1>5. \/ End
        \/ job.at = "console" /\ Answer /\ UNCHANGED reminders
        \/ /\ job.at = "console" /\ (Parse \/ Validate)
           /\ UNCHANGED <<reminders, now, job, shown>>
    BY DEF AtConsole, ReadLine, ParseLine, Rejected, ReadPastEnd, ListReminders,
           NoHandler, Accepted, Kill
  <1> QED BY <1>2, <1>3, <1>4, <1>5 DEF Next, ParseStep

\* The invariant is inductive.
LEMMA ProgramNextInv == ProgramInv /\ [ProgramNext]_programVars => ProgramInv'
  <1> SUFFICES ASSUME ProgramInv, [ProgramNext]_programVars PROVE ProgramInv'
    OBVIOUS
  <1>1. CASE UNCHANGED programVars
    BY <1>1, ParserStepInv DEF programVars
  <1>2. CASE Start \/ NewDay
    BY <1>2, StartInv, NewDayInv
  <1>3. CASE Look \/ LookedAtAll
    BY <1>3, LookInv, LookedAtAllInv
  <1>4. CASE AddReminder \/ InsertReminder
    BY <1>4, AddReminderInv, InsertReminderInv
  <1>5. CASE AtConsole
    BY <1>5, AtConsoleInv
  <1> QED BY <1>1, <1>2, <1>3, <1>4, <1>5 DEF ProgramNext, Work, AtConsole
-----------------------------------------------------------------------------
\* The invariant gives the type invariant.
LEMMA ProgramInvOK == ProgramInv => RemindersOK
  <1> SUFFICES ASSUME ProgramInv PROVE RemindersOK
    OBVIOUS
  <1>1. /\ IsTable(reminders, {reminders[i] : i \in DOMAIN reminders})
        /\ \A i \in DOMAIN reminders : reminders[i].type \in ReminderType
    BY DEF ProgramInv, RowsOK, Sound
  <1>2. now \in DOMAIN Calendar /\ shown \subseteq DOMAIN reminders
    BY DEF ProgramInv, JobOK
  <1>3. job.at \in {"off", "console", "looking", "inserting"}
    BY DEF ProgramInv, JobOK, LookingOK, Off, Console, Looking, Inserting
  <1>4. job.at = "looking" =>
          job.left \subseteq DOMAIN reminders /\ job.since \in 1 .. now
    BY LookingAt DEF LookingOK
  <1>5. job.at = "inserting" => job.row.type \in ReminderType
    BY DEF ProgramInv, JobOK, LookingOK, Off, Console, Looking, Sound
  <1> QED BY <1>1, <1>2, <1>3, <1>4, <1>5 DEF RemindersOK

\* The rows of reminders are of known types, and what a start has shown are rows
\* of the table.
THEOREM RemindersTypeCorrect == ProgramSpec => []RemindersOK
  <1>1. ProgramInit => ProgramInv
    BY ProgramInitInv
  <1>2. ProgramInv /\ [ProgramNext]_programVars => ProgramInv'
    BY ProgramNextInv
  <1>3. ProgramInv => RemindersOK
    BY ProgramInvOK
  <1> QED BY <1>1, <1>2, <1>3, PTL DEF ProgramSpec

\* No row that AddReminder has let into the table, from whatever line, makes
\* UpdateReminders throw on any day of the calendar.
THEOREM NoStoredReminderThrows == ProgramSpec => []NoReminderStopsAStart
  <1>1. ProgramInit => ProgramInv
    BY ProgramInitInv
  <1>2. ProgramInv /\ [ProgramNext]_programVars => ProgramInv'
    BY ProgramNextInv
  <1>3. ProgramInv => NoReminderStopsAStart
    BY RowsDoNotThrow DEF NoReminderStopsAStart
  <1> QED BY <1>1, <1>2, <1>3, PTL DEF ProgramSpec
-----------------------------------------------------------------------------
(***************************************************************************)
(* The refinement of Diary.                                                *)
(***************************************************************************)
Entered == [i \in DOMAIN reminders |-> DaysOf(reminders[i])]
Opened == IF job.at = "looking" THEN job.since ELSE 0
Announced == IF job.at = "looking" THEN {} ELSE shown

\* Steps that Diary does not see.
LEMMA UnseenStep ==
  ASSUME UNCHANGED <<reminders, now, Opened, Announced>>
  PROVE  UNCHANGED PromisedDiary!diary
  BY DEF PromisedDiary!diary, DaysOf, Opened, Announced

\* A process that ends closes the diary.
LEMMA EndCloses ==
  ASSUME End
  PROVE  PromisedDiary!Close
  <1>1. Opened' = 0 /\ Announced' = {}
    BY DEF End, Off, Opened, Announced
  <1>2. UNCHANGED <<now, Entered>>
    BY DEF End, Entered, DaysOf
  <1> QED BY <1>1, <1>2 DEF PromisedDiary!Close, Opened, Announced, Entered

\* The initial states are those of a diary.
LEMMA InitDiary == ProgramInit => PromisedDiary!Init
  <1> SUFFICES ASSUME ProgramInit PROVE PromisedDiary!Init
    OBVIOUS
  <1>1. now \in 1 .. Len(Calendar)
    BY CalendarDay DEF ProgramInit
  <1>2. Entered = EmptyTable
    BY DEF ProgramInit, Entered, EmptyTable
  <1>3. Opened = 0 /\ Announced = {}
    BY DEF ProgramInit, Opened, Announced, Off
  <1> QED BY <1>1, <1>2, <1>3
          DEF PromisedDiary!Init, PromisedDiary!EmptyTable, EmptyTable, Entered,
              Opened, Announced

\* A start opens the diary, or shows nothing if SQLite refuses.
LEMMA StartOpens ==
  ASSUME ProgramInv, Start
  PROVE  PromisedDiary!Open \/ UNCHANGED PromisedDiary!diary
  <1>1. /\ job = Off /\ shown = {} /\ shown' = {}
        /\ job' \in {Looking(now, DOMAIN reminders), Console}
        /\ UNCHANGED <<reminders, now>>
    BY DEF Start, ProgramInv, JobOK
  <1>2. Opened = 0 /\ Announced = {} /\ Announced' = {} /\ UNCHANGED Entered
    BY <1>1 DEF Off, Opened, Announced, Entered, DaysOf
  <1>3. CASE job' = Console
    <2>1. Opened' = 0
      BY <1>3 DEF Console, Opened
    <2> QED BY <1>1, <1>2, <2>1, UnseenStep
  <1>4. CASE job' = Looking(now, DOMAIN reminders)
    <2>1. Opened' = now
      BY <1>4 DEF Looking, Opened
    <2> QED BY <1>1, <1>2, <2>1
            DEF PromisedDiary!Open, Opened, Announced, Entered
  <1> QED BY <1>1, <1>3, <1>4

\* While the rows are read the diary stays open, and nothing is announced yet.
LEMMA LookUnseen ==
  ASSUME ProgramInv, Look
  PROVE  UNCHANGED PromisedDiary!diary
  <1>1. /\ job.at = "looking" /\ job'.at = "looking" /\ job'.since = job.since
        /\ UNCHANGED <<reminders, now>>
    BY LookInv DEF Look, LookingOK, Looking
  <1> QED BY <1>1, UnseenStep DEF Opened, Announced

\* At the end of the loop the rows shown are those due.
LEMMA LookedAnnounces ==
  ASSUME ProgramInv, LookedAtAll
  PROVE  PromisedDiary!Announce
  <1>1. /\ LookingOK /\ job.left = {} /\ job.at = "looking" /\ job' = Console
        /\ shown \subseteq DOMAIN reminders
        /\ UNCHANGED <<reminders, now, shown>>
    BY LookedAtAllInv DEF LookedAtAll, ProgramInv, JobOK
  <1>2. /\ Opened = job.since /\ Opened # 0 /\ Opened' = 0
        /\ Announced' = shown /\ UNCHANGED <<now, Entered>>
    BY <1>1 DEF LookingOK, Console, Opened, Announced, Entered, DaysOf
  <1>3. DOMAIN Entered = DOMAIN reminders
        /\ \A i \in DOMAIN reminders : Entered[i] = DaysOf(reminders[i])
    BY DEF Entered
  <1>4. shown \subseteq {i \in DOMAIN Entered : (Opened .. now) \cap Entered[i] # {}}
    BY <1>1, <1>2, <1>3 DEF LookingOK
  <1>5. {i \in DOMAIN Entered : Opened .. now \subseteq Entered[i]} \subseteq shown
    BY <1>1, <1>2, <1>3 DEF LookingOK
  <1> QED BY <1>2, <1>4, <1>5
          DEF PromisedDiary!Announce, PromisedDiary!DueSometime,
              PromisedDiary!DueThroughout, Opened, Announced, Entered

\* A day passes in the diary too.
LEMMA NewDayUnfolds ==
  ASSUME ProgramInv, NewDay
  PROVE  PromisedDiary!NewDay
  <1>1. /\ now' \in DOMAIN Calendar /\ now' > now /\ now \in DOMAIN Calendar
        /\ UNCHANGED <<reminders, job, shown>>
    BY DEF NewDay, ProgramInv, JobOK
  <1>2. now \in Nat /\ now' \in 1 .. Len(Calendar) /\ Len(Calendar) \in Nat
    BY <1>1, CalendarDay
  <1>3. now' \in now + 1 .. Len(Calendar)
    BY <1>1, <1>2
  <1>4. UNCHANGED <<Entered, Opened, Announced>>
    BY <1>1 DEF Entered, Opened, Announced, DaysOf
  <1> QED BY <1>3, <1>4 DEF PromisedDiary!NewDay, Entered, Opened, Announced

\* The row inserted is an entry with the days it falls on.
LEMMA InsertEnters ==
  ASSUME ProgramInv, InsertReminder
  PROVE  PromisedDiary!Enter \/ UNCHANGED PromisedDiary!diary
  <1>1. job = Inserting(job.row) /\ job' = Console /\ UNCHANGED <<now, shown>>
    BY InsertReminderInv
  <1>2. Opened = 0 /\ Opened' = 0 /\ UNCHANGED Announced
    BY <1>1 DEF Inserting, Console, Opened, Announced
  <1>3. CASE UNCHANGED reminders
    BY <1>1, <1>2, <1>3, UnseenStep
  <1>4. ASSUME NEW id \in NextRowId(reminders),
               reminders' = WithRow(reminders, id, job.row)
        PROVE  PromisedDiary!Enter
    <2> DEFINE days == DaysOf(job.row)
    <2>1. days \in SUBSET (1 .. Len(Calendar))
      BY CalendarDay DEF DaysOf
    <2>2. DOMAIN Entered = DOMAIN reminders
      BY DEF Entered
    <2>3. id \in PromisedDiary!NextRowId(Entered)
      BY <2>2 DEF NextRowId, PromisedDiary!NextRowId
    <2>4. Entered' = PromisedDiary!WithRow(Entered, id, days)
      <3>1. Entered' = [i \in DOMAIN reminders' |-> DaysOf(reminders'[i])]
        BY DEF Entered, DaysOf
      <3>2. /\ DOMAIN reminders' = DOMAIN reminders \cup {id}
            /\ \A i \in DOMAIN reminders' :
                 reminders'[i] = IF i = id THEN job.row ELSE reminders[i]
        BY <1>4 DEF WithRow
      <3>3. \A i \in DOMAIN reminders' :
              DaysOf(reminders'[i]) = IF i = id THEN days ELSE Entered[i]
        BY <3>2 DEF Entered
      <3> HIDE DEF days
      <3> QED BY <2>2, <3>1, <3>2, <3>3 DEF PromisedDiary!WithRow
    <2> HIDE DEF days
    <2> QED BY <1>1, <1>2, <2>1, <2>3, <2>4
            DEF PromisedDiary!Enter, Entered, Opened, Announced
  <1> QED BY <1>3, <1>4 DEF InsertReminder

\* The console and the handlers that insert nothing.
LEMMA OthersUnseen ==
  ASSUME ProgramInv, AddReminder \/ AtConsole
  PROVE  PromisedDiary!Close \/ UNCHANGED PromisedDiary!diary
  <1>1. CASE End
    BY <1>1, EndCloses
  <1>2. CASE /\ job.at = "console" /\ job'.at \in {"console", "inserting"}
             /\ UNCHANGED <<reminders, now, shown>>
    BY <1>2, UnseenStep DEF Opened, Announced
  <1>3. \/ End
        \/ /\ job.at = "console" /\ job'.at \in {"console", "inserting"}
           /\ UNCHANGED <<reminders, now, shown>>
    BY AddReminderInv, AtConsoleInv DEF Console
  <1> QED BY <1>1, <1>2, <1>3

\* Every step of the program is one of the diary or leaves the diary as it is.
LEMMA StepsOfDiary ==
  ProgramInv /\ [ProgramNext]_programVars
    => [PromisedDiary!Next]_PromisedDiary!diary
  <1> SUFFICES ASSUME ProgramInv, [ProgramNext]_programVars
               PROVE  PromisedDiary!Next \/ UNCHANGED PromisedDiary!diary
    OBVIOUS
  <1> USE DEF PromisedDiary!Next
  <1>1. CASE UNCHANGED programVars
    BY <1>1, UnseenStep DEF programVars, Opened, Announced
  <1>2. CASE Start
    BY <1>2, StartOpens
  <1>3. CASE NewDay
    BY <1>3, NewDayUnfolds
  <1>4. CASE Look
    BY <1>4, LookUnseen
  <1>5. CASE LookedAtAll
    BY <1>5, LookedAnnounces
  <1>6. CASE InsertReminder
    BY <1>6, InsertEnters
  <1>7. CASE AddReminder \/ AtConsole
    BY <1>7, OthersUnseen
  <1> QED BY <1>1, <1>2, <1>3, <1>4, <1>5, <1>6, <1>7
          DEF ProgramNext, Work, AtConsole

\* Every start that reads the table to its end shows what is due on its day and
\* nothing else, for every calendar, every line and every row that was stored.
THEOREM RemindersKeepTheDiary == ProgramSpec => ImplementsDiary
  <1>1. ProgramInit => ProgramInv /\ PromisedDiary!Init
    BY ProgramInitInv, InitDiary
  <1>2. ProgramInv /\ [ProgramNext]_programVars => ProgramInv'
    BY ProgramNextInv
  <1>3. ProgramInv /\ [ProgramNext]_programVars
          => [PromisedDiary!Next]_PromisedDiary!diary
    BY StepsOfDiary
  <1> QED BY <1>1, <1>2, <1>3, PTL
          DEF ProgramSpec, ImplementsDiary, PromisedDiary!DiarySpec
=============================================================================
