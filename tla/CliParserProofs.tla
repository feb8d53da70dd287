--------------------------- MODULE CliParserProofs ---------------------------
(***************************************************************************)
(* That the parser leaves a handler what the handler takes for granted,    *)
(* and means by a line what its grammar says, for every cliConfig.json of  *)
(* the assumed form and every line.  Of TablesProofs it takes what is said *)
(* there of the least of some natural numbers.                             *)
(***************************************************************************)
EXTENDS CliParser, TablesProofs, SequenceTheorems, FiniteSetTheorems

LineStep == [at : {"accepted", "rejected"}, line : Lines, strayed : BOOLEAN]
LoopStep ==
  [at : {"validate"}, line : Lines, argIndex : Nat \ {0},
   mandatoryOptionIndex : Nat \ {0}, isValid : BOOLEAN, strayed : BOOLEAN]

\* Parse has one of its program counters, and works on the line of the command
\* that it has stored.
StepOK ==
  /\ step \in {Prompt, [at |-> "off"]} \cup LineStep \cup LoopStep
  /\ step.at \in {"validate", "accepted"} =>
       Command \in DOMAIN Commands /\ m_CurrentCommandName = Command
  /\ step.at = "validate" =>
       step.mandatoryOptionIndex <= NumMandatoryParameters(Command) + 1

\* Flags and parameters are those of the command of the line.
KeptOK ==
  /\ m_UserParameters \in [DOMAIN m_UserParameters -> Seq(Args)]
  /\ m_CurrentCommandName \in DOMAIN Commands =>
       /\ m_Flags \subseteq Commands[m_CurrentCommandName].flags
       /\ DOMAIN m_UserParameters \subseteq
            DOMAIN Parameters(m_CurrentCommandName)

\* While no argument was found wrong, every parameter has as many values as it
\* takes.
ValuesCounted ==
  (step.at = "validate" /\ step.isValid) \/ step.at = "accepted" =>
    \A p \in DOMAIN m_UserParameters :
      Len(m_UserParameters[p]) = Parameters(Command)[p].numValues

\* mandatoryOptionIndex counts the mandatory parameters that have a value.
MandatoryCounted ==
  /\ step.at = "validate" =>
       \A p \in Mandatory(Command) :
         Parameters(Command)[p].inOrderIndex < step.mandatoryOptionIndex =>
           p \in DOMAIN m_UserParameters
  /\ step.at = "accepted" => Mandatory(Command) \subseteq DOMAIN m_UserParameters

ParserInv == StepOK /\ KeptOK /\ ValuesCounted /\ MandatoryCounted
-----------------------------------------------------------------------------
\* What insert leaves of the map.
LEMMA InsertedType ==
  ASSUME NEW parameters, NEW S, parameters \in [DOMAIN parameters -> Seq(S)],
         NEW p, NEW values \in Seq(S)
  PROVE  /\ Inserted(parameters, p, values) \in
              [DOMAIN parameters \cup {p} -> Seq(S)]
         /\ DOMAIN Inserted(parameters, p, values) = DOMAIN parameters \cup {p}
         /\ \A q \in DOMAIN parameters :
              Inserted(parameters, p, values)[q] = parameters[q]
         /\ p \notin DOMAIN parameters =>
              Inserted(parameters, p, values)[p] = values
  BY DEF Inserted

\* The count of the mandatory parameters is a number.
LEMMA CountType ==
  ASSUME NEW c \in DOMAIN Commands
  PROVE  NumMandatoryParameters(c) \in Nat
  BY CliParserAssumption, FS_CardinalityType DEF NumMandatoryParameters

\* GetParameterAtIndex finds the mandatory parameter of the index.
LEMMA ParameterAtIndexFound ==
  ASSUME NEW c \in DOMAIN Commands, NEW k \in 1 .. NumMandatoryParameters(c)
  PROVE  /\ ParameterAtIndex(c, k) \in Mandatory(c)
         /\ Parameters(c)[ParameterAtIndex(c, k)].inOrderIndex = k
         /\ \A p \in Mandatory(c) :
              Parameters(c)[p].inOrderIndex = k => p = ParameterAtIndex(c, k)
  <1> DEFINE index(p) == Parameters(c)[p].inOrderIndex
  <1>1. PICK p \in Mandatory(c) : index(p) = k
    <2>1. k \in {index(p) : p \in Mandatory(c)}
      BY CliParserAssumption
    <2> QED BY <2>1
  <1>2. p \in DOMAIN Parameters(c)
    BY <1>1 DEF Mandatory
  <1>3. /\ ParameterAtIndex(c, k) \in DOMAIN Parameters(c)
        /\ index(ParameterAtIndex(c, k)) = k
    BY <1>1, <1>2 DEF ParameterAtIndex
  <1>4. ParameterAtIndex(c, k) = p
    BY <1>1, <1>3, CliParserAssumption
  <1>5. \A q \in Mandatory(c) : index(q) = k => q = p
    BY <1>1, CliParserAssumption DEF Mandatory
  <1> QED BY <1>1, <1>4, <1>5

-----------------------------------------------------------------------------
\* The invariant holds of the parser that CliApp has just filled with commands.
LEMMA InitInv == Init => ParserInv
  <1> SUFFICES ASSUME Init PROVE ParserInv
    OBVIOUS
  <1>1. StepOK
    BY DEF Init, StepOK, Prompt
  <1>2. KeptOK
    BY DEF Init, KeptOK, NoParameters
  <1>3. ValuesCounted /\ MandatoryCounted
    BY DEF Init, ValuesCounted, MandatoryCounted, Prompt
  <1> QED BY <1>1, <1>2, <1>3 DEF ParserInv

\* Parse clears what an earlier line has left, so that nothing need be counted.
LEMMA ParseInv == ParserInv /\ Parse => ParserInv'
  <1> SUFFICES ASSUME ParserInv, Parse PROVE ParserInv'
    OBVIOUS
  <1>1. PICK line \in Lines :
          /\ Clear /\ m_CurrentCommandName' = line.command
          /\ step' = IF line.command \notin DOMAIN Commands
                     THEN [at |-> "rejected", line |-> line, strayed |-> FALSE]
                     ELSE [at |-> "validate", line |-> line, argIndex |-> 1,
                           mandatoryOptionIndex |-> 1, isValid |-> TRUE,
                           strayed |-> FALSE]
    BY DEF Parse
  <1>2. m_Flags' = {} /\ DOMAIN m_UserParameters' = {}
    BY <1>1 DEF Clear, NoParameters
  <1>3. KeptOK'
    BY <1>1, <1>2 DEF KeptOK, Clear, NoParameters
  <1>4. StepOK'
    <2>1. CASE line.command \notin DOMAIN Commands
      BY <1>1, <2>1 DEF StepOK, LineStep
    <2>2. CASE line.command \in DOMAIN Commands
      <3>1. step' = [at |-> "validate", line |-> line, argIndex |-> 1,
                     mandatoryOptionIndex |-> 1, isValid |-> TRUE,
                     strayed |-> FALSE]
        BY <1>1, <2>2
      <3>2. step' \in LoopStep
        BY <3>1 DEF LoopStep
      <3>3. NumMandatoryParameters(line.command) \in Nat
        BY <2>2, CountType
      <3> QED BY <1>1, <2>2, <3>1, <3>2, <3>3 DEF StepOK, Command
    <2> QED BY <2>1, <2>2
  <1>5. ValuesCounted'
    BY <1>2 DEF ValuesCounted
  <1>6. MandatoryCounted'
    <2>1. step'.at # "accepted"
      BY <1>1
    <2>2. ASSUME step'.at = "validate", NEW p \in Mandatory(Command)'
          PROVE  ~(Parameters(Command)[p].inOrderIndex < step.mandatoryOptionIndex)'
      <3>1. line.command \in DOMAIN Commands /\ step'.mandatoryOptionIndex = 1
        BY <1>1, <2>2
      <3>2. Command' = line.command
        BY <1>1, <3>1 DEF Command
      <3>3. Parameters(line.command)[p].inOrderIndex \in
              1 .. NumMandatoryParameters(line.command)
        BY <2>2, <3>1, <3>2, CliParserAssumption
      <3> QED BY <3>1, <3>2, <3>3, CountType
    <2> QED BY <2>1, <2>2 DEF MandatoryCounted
  <1> QED BY <1>3, <1>4, <1>5, <1>6 DEF ParserInv

\* What every step of the loop may use.
LEMMA LoopFacts ==
  ASSUME ParserInv, InLoop
  PROVE  /\ step \in LoopStep /\ step.line \in Lines
         /\ Command \in DOMAIN Commands /\ m_CurrentCommandName = Command
         /\ step.line.args \in Seq(Args)
         /\ step.argIndex \in 1 .. Len(step.line.args)
         /\ NumMandatoryParameters(Command) \in Nat
         /\ step.mandatoryOptionIndex \in 1 .. NumMandatoryParameters(Command) + 1
         /\ CurrArg \in Args
  <1>1. step.at = "validate" /\ step.argIndex <= Len(step.line.args)
    BY DEF InLoop
  <1>2. step \in LoopStep
    BY <1>1 DEF ParserInv, StepOK, Prompt, LineStep
  <1>3. step.line \in Lines /\ step.argIndex \in Nat \ {0}
        /\ step.mandatoryOptionIndex \in Nat \ {0}
    BY <1>2 DEF LoopStep
  <1>4. step.line.args \in Seq(Args)
    BY <1>3, CliParserAssumption
  <1>5. Command \in DOMAIN Commands /\ m_CurrentCommandName = Command
    BY <1>1 DEF ParserInv, StepOK
  <1>6. Len(step.line.args) \in Nat
    BY <1>4, LenProperties
  <1>7. step.argIndex \in 1 .. Len(step.line.args)
    BY <1>1, <1>3, <1>6
  <1>8. CurrArg \in Args
    BY <1>4, <1>7, ElementOfSeq DEF CurrArg
  <1>9. NumMandatoryParameters(Command) \in Nat
    BY <1>5, CountType
  <1>10. step.mandatoryOptionIndex \in 1 .. NumMandatoryParameters(Command) + 1
    BY <1>1, <1>3, <1>9 DEF ParserInv, StepOK
  <1> QED BY <1>2, <1>3, <1>4, <1>5, <1>7, <1>8, <1>9, <1>10

\* The values that an option is given: those kept are arguments, and if all pass
\* the test there are numValues of them.
LEMMA ValuesRead ==
  ASSUME ParserInv, InLoop, CurrArg.name \in DOMAIN Parameters(Command),
         NEW strays \in [1 .. Prop.numValues -> Stray]
  PROVE  /\ Prop.numValues \in Nat \ {0}
         /\ Cardinality(GoodOnes(strays)) \in 0 .. Prop.numValues
         /\ KeptValues(strays) \in Seq(Args)
         /\ Len(KeptValues(strays)) = Cardinality(GoodOnes(strays))
         /\ AllGood(strays) => Cardinality(GoodOnes(strays)) = Prop.numValues
  <1> DEFINE n == Prop.numValues
             args == step.line.args
             i == step.argIndex
             given == GivenValues(strays)
             good == GoodOnes(strays)
  <1>a. args \in Seq(Args) /\ i \in 1 .. Len(args) /\ Command \in DOMAIN Commands
    BY LoopFacts
  <1>b. n \in Nat \ {0}
    BY <1>a, CliParserAssumption DEF Prop
  <1>c. strays \in [1 .. n -> Stray]
    OBVIOUS
  <1>d. given = SubSeq(args \o strays, i + 1, i + n)
    BY DEF GivenValues, ArgsWith
  <1>e. good \subseteq DOMAIN given
    BY DEF GoodOnes
  <1> HIDE DEF n, args, i, given, good
  <1>1. strays \in Seq(Args) /\ Len(strays) = n
    <2>1. strays \in [1 .. n -> Args]
      BY <1>c DEF Args
    <2>2. strays \in Seq(Args)
      BY <1>b, <2>1, SeqDef
    <2>3. DOMAIN strays = 1 .. n /\ DOMAIN strays = 1 .. Len(strays)
      BY <2>1, <2>2, LenProperties
    <2>4. Len(strays) \in Nat
      BY <2>2, LenProperties
    <2> QED BY <1>b, <2>2, <2>3, <2>4
  <1>2. /\ args \o strays \in Seq(Args)
        /\ Len(args \o strays) = Len(args) + n
    BY <1>a, <1>1, ConcatProperties
  <1>3. Len(args) \in Nat
    BY <1>a, LenProperties
  <1>4. ASSUME NEW k \in i + 1 .. i + n PROVE (args \o strays)[k] \in Args
    <2>1. k \in 1 .. Len(args \o strays)
      BY <1>a, <1>b, <1>2, <1>3
    <2> QED BY <1>2, <2>1, ElementOfSeq
  <1>5. given \in Seq(Args) /\ Len(given) = n
    <2>1. i + 1 \in Int /\ i + n \in Int
      BY <1>a, <1>b, <1>3
    <2> DEFINE all == args \o strays
               from == i + 1
               to == i + n
    <2>a. \A k \in from .. to : all[k] \in Args
      BY <1>4
    <2>b. given = SubSeq(all, from, to)
      BY <1>d
    <2> HIDE DEF all, from, to
    <2>c. from \in Int /\ to \in Int
      BY <2>1 DEF from, to
    <2>d. /\ SubSeq(all, from, to) \in Seq(Args)
          /\ Len(SubSeq(all, from, to)) = IF from <= to THEN to - from + 1 ELSE 0
      BY <2>a, <2>c, SubSeqProperties
    <2>2. from <= to /\ to - from + 1 = n
      BY <1>a, <1>b, <1>3 DEF from, to
    <2> QED BY <2>b, <2>d, <2>2
  <1>6. DOMAIN given = 1 .. n
    BY <1>5, LenProperties
  <1>7. IsFiniteSet(1 .. n) /\ Cardinality(1 .. n) = n
    BY <1>b, FS_Interval
  <1>8. IsFiniteSet(good) /\ Cardinality(good) <= n
    <2>1. good \in SUBSET (1 .. n)
      BY <1>e, <1>6
    <2>2. Cardinality(good) <= Cardinality(1 .. n) /\ IsFiniteSet(good)
      BY <1>7, <2>1, FS_Subset
    <2> QED BY <1>7, <2>2
  <1>9. Cardinality(good) \in 0 .. n
    BY <1>b, <1>8, FS_CardinalityType
  <1>10. ASSUME NEW k \in 1 .. Cardinality(good) PROVE given[k] \in Args
    <2>1. k \in 1 .. Len(given)
      BY <1>b, <1>5, <1>9
    <2> QED BY <1>5, <2>1, ElementOfSeq
  <1>11. /\ SubSeq(given, 1, Cardinality(good)) \in Seq(Args)
         /\ Len(SubSeq(given, 1, Cardinality(good))) = Cardinality(good)
    BY <1>9, <1>10, SubSeqProperties
  <1>12. good = DOMAIN given => Cardinality(good) = n
    BY <1>6, <1>7
  <1> QED BY <1>b, <1>9, <1>11, <1>12 DEF KeptValues, AllGood, n, good, given

\* A step that only leaves the loop.
LEMMA BreakInv ==
  ASSUME ParserInv, InLoop, NEW valid \in BOOLEAN, Break(valid),
         UNCHANGED <<m_CurrentCommandName, m_Flags, m_UserParameters>>
  PROVE  ParserInv'
  <1>0. /\ step \in LoopStep /\ m_CurrentCommandName = Command
        /\ step.line.args \in Seq(Args)
        /\ step.mandatoryOptionIndex <= NumMandatoryParameters(Command) + 1
        /\ Command \in DOMAIN Commands
    BY LoopFacts
  <1>1. Len(step.line.args) \in Nat
    BY <1>0, LenProperties
  <1>a. PICK ok \in BOOLEAN :
          /\ ok => step.isValid
          /\ step' = [step EXCEPT !.argIndex = Len(step.line.args) + 1,
                                  !.isValid = ok]
    <2>1. (step.isValid /\ valid) \in BOOLEAN
      BY Zenon
    <2> QED BY <2>1, Zenon DEF Break
  <1>2. /\ step' \in LoopStep /\ step'.line = step.line /\ step'.at = "validate"
        /\ step'.mandatoryOptionIndex = step.mandatoryOptionIndex
        /\ step'.isValid => step.isValid
    <2> DEFINE n == Len(step.line.args) + 1
    <2>0. n \in Nat \ {0}
      BY <1>1
    <2>a. step \in LoopStep /\ step' = [step EXCEPT !.argIndex = n, !.isValid = ok]
      BY <1>0, <1>a
    <2> HIDE DEF n
    <2>1. step' \in LoopStep
      BY <2>0, <2>a DEF LoopStep
    <2>2. step'.isValid = ok
      BY <1>0, <1>1, <1>a DEF LoopStep
    <2>3. step'.line = step.line
        /\ step'.mandatoryOptionIndex = step.mandatoryOptionIndex
      BY <1>0, <1>1, <1>a DEF LoopStep
    <2>4. step'.at = "validate"
      BY <2>1 DEF LoopStep
    <2> QED BY <1>a, <2>1, <2>2, <2>3, <2>4
  <1>3. step.at = "validate" /\ Command' = Command
    BY <1>2 DEF InLoop, Command
  <1>4. StepOK'
    BY <1>0, <1>2, <1>3 DEF StepOK
  <1>5. KeptOK'
    BY DEF ParserInv, KeptOK
  <1>6. ValuesCounted'
    BY <1>2, <1>3 DEF ParserInv, ValuesCounted
  <1>7. MandatoryCounted'
    BY <1>2, <1>3 DEF ParserInv, MandatoryCounted
  <1> QED BY <1>4, <1>5, <1>6, <1>7 DEF ParserInv

\* A flag is kept only if the command has it.
LEMMA ValidateFlagInv == ParserInv /\ ValidateFlag => ParserInv'
  <1> SUFFICES ASSUME ParserInv, ValidateFlag PROVE ParserInv'
    OBVIOUS
  <1>1. InLoop /\ UNCHANGED <<m_CurrentCommandName, m_UserParameters>>
    BY DEF ValidateFlag
  <1>2. CASE Break(FALSE) /\ UNCHANGED m_Flags
    BY <1>1, <1>2, BreakInv
  <1>3. CASE /\ HasFlag(Command, CurrArg.name)
             /\ m_Flags' = m_Flags \cup {CurrArg.name}
             /\ step' = [step EXCEPT !.argIndex = NextArg(@)]
    <2>1. step \in LoopStep /\ m_CurrentCommandName = Command
          /\ Command \in DOMAIN Commands /\ step.at = "validate"
          /\ step.mandatoryOptionIndex <= NumMandatoryParameters(Command) + 1
      BY <1>1, LoopFacts DEF InLoop
    <2> DEFINE n == NextArg(step.argIndex)
    <2>2. n \in Nat \ {0}
      BY <2>1 DEF NextArg, LoopStep
    <2>3. step' = [step EXCEPT !.argIndex = n]
      BY <1>3
    <2> HIDE DEF n
    <2>4. step' \in LoopStep
      BY <2>1, <2>2, <2>3 DEF LoopStep
    <2>5. /\ step'.at = step.at /\ step'.isValid = step.isValid
          /\ step'.mandatoryOptionIndex = step.mandatoryOptionIndex
          /\ Command' = Command
      BY <2>1, <2>3 DEF LoopStep, Command
    <2>6. StepOK'
      BY <1>1, <2>1, <2>4, <2>5 DEF StepOK
    <2>7. KeptOK'
      BY <1>1, <1>3, <2>1 DEF ParserInv, KeptOK, HasFlag
    <2>8. ValuesCounted' /\ MandatoryCounted'
      BY <1>1, <2>1, <2>5 DEF ParserInv, ValuesCounted, MandatoryCounted
    <2> QED BY <2>6, <2>7, <2>8 DEF ParserInv
  <1> QED BY <1>2, <1>3 DEF ValidateFlag

\* An argument is given to parameter p, with as many values as it takes unless
\* the line is found to be invalid.
LEMMA GivenInv ==
  ASSUME ParserInv, InLoop, NEW p \in DOMAIN Parameters(Command),
         NEW values \in Seq(Args),
         m_UserParameters' = Inserted(m_UserParameters, p, values),
         UNCHANGED <<m_CurrentCommandName, m_Flags>>,
         step' \in LoopStep, step'.line = step.line,
         step'.isValid =>
           step.isValid /\ Len(values) = Parameters(Command)[p].numValues,
         step'.mandatoryOptionIndex \in
           step.mandatoryOptionIndex .. NumMandatoryParameters(Command) + 1,
         \A q \in Mandatory(Command) :
           Parameters(Command)[q].inOrderIndex < step'.mandatoryOptionIndex =>
             q = p \/ Parameters(Command)[q].inOrderIndex < step.mandatoryOptionIndex
  PROVE  ParserInv'
  <1>1. /\ step.at = "validate" /\ step'.at = "validate"
        /\ Command \in DOMAIN Commands /\ m_CurrentCommandName = Command
        /\ Command' = Command
    BY LoopFacts DEF InLoop, LoopStep, Command
  <1>2. m_UserParameters \in [DOMAIN m_UserParameters -> Seq(Args)]
    BY DEF ParserInv, KeptOK
  <1>3. /\ m_UserParameters' \in [DOMAIN m_UserParameters \cup {p} -> Seq(Args)]
        /\ DOMAIN m_UserParameters' = DOMAIN m_UserParameters \cup {p}
        /\ \A q \in DOMAIN m_UserParameters :
             m_UserParameters'[q] = m_UserParameters[q]
        /\ p \notin DOMAIN m_UserParameters => m_UserParameters'[p] = values
    <2> DEFINE new == Inserted(m_UserParameters, p, values)
    <2>1. /\ new \in [DOMAIN m_UserParameters \cup {p} -> Seq(Args)]
          /\ DOMAIN new = DOMAIN m_UserParameters \cup {p}
          /\ \A q \in DOMAIN m_UserParameters : new[q] = m_UserParameters[q]
          /\ p \notin DOMAIN m_UserParameters => new[p] = values
      BY <1>2, InsertedType, ZenonT(60)
    <2>2. m_UserParameters' = new
      OBVIOUS
    <2> HIDE DEF new
    <2> QED BY <2>1, <2>2
  <1>4. StepOK'
    BY <1>1, LoopFacts DEF StepOK
  <1>5. KeptOK'
    BY <1>1, <1>3 DEF ParserInv, KeptOK
  <1>6. ValuesCounted'
    <2> SUFFICES ASSUME step'.isValid, NEW q \in DOMAIN m_UserParameters'
                 PROVE  Len(m_UserParameters'[q]) = Parameters(Command)[q].numValues
      BY <1>1 DEF ValuesCounted
    <2>1. CASE q \in DOMAIN m_UserParameters
      BY <1>1, <1>3, <2>1 DEF ParserInv, ValuesCounted
    <2>2. CASE q \notin DOMAIN m_UserParameters
      BY <1>3, <2>2
    <2> QED BY <2>1, <2>2
  <1>7. MandatoryCounted'
    <2> SUFFICES ASSUME NEW q \in Mandatory(Command),
                        Parameters(Command)[q].inOrderIndex <
                          step'.mandatoryOptionIndex
                 PROVE  q \in DOMAIN m_UserParameters'
      BY <1>1 DEF MandatoryCounted
    <2> QED BY <1>1, <1>3 DEF ParserInv, MandatoryCounted
  <1> QED BY <1>4, <1>5, <1>6, <1>7 DEF ParserInv

\* An option is kept with all its values, or the line is no longer valid.
LEMMA ValidateOptionInv == ParserInv /\ ValidateOption => ParserInv'
  <1> SUFFICES ASSUME ParserInv, ValidateOption PROVE ParserInv'
    OBVIOUS
  <1>1. InLoop /\ UNCHANGED <<m_CurrentCommandName, m_Flags>>
    BY DEF ValidateOption
  <1>2. CASE Break(FALSE) /\ UNCHANGED m_UserParameters
    BY <1>1, <1>2, BreakInv
  <1>3. CASE step' = [at |-> "off"] /\ UNCHANGED m_UserParameters
    <2>1. step'.at = "off" /\ StepOK'
      BY <1>3 DEF StepOK
    <2>2. KeptOK'
      BY <1>1, <1>3 DEF ParserInv, KeptOK
    <2> QED BY <2>1, <2>2 DEF ParserInv, ValuesCounted, MandatoryCounted
  <1>4. ASSUME NEW strays \in [1 .. Prop.numValues -> Stray],
               CurrArg.name \in DOMAIN Parameters(Command),
               m_UserParameters' =
                 Inserted(m_UserParameters, CurrArg.name, KeptValues(strays)),
               step' = [step EXCEPT !.argIndex = NextArg(@ + NumRead(strays)),
                                    !.isValid = @ /\ AllGood(strays),
                                    !.strayed = @ \/ ReadsPast(strays)]
        PROVE  ParserInv'
    <2> DEFINE n == Prop.numValues
               count == Cardinality(GoodOnes(strays))
    <2>1. /\ step \in LoopStep /\ step.line \in Lines /\ Command \in DOMAIN Commands
          /\ step.line.args \in Seq(Args)
          /\ step.argIndex \in 1 .. Len(step.line.args)
          /\ NumMandatoryParameters(Command) \in Nat
          /\ step.mandatoryOptionIndex \in 1 .. NumMandatoryParameters(Command) + 1
      BY <1>1, LoopFacts
    <2>2. /\ n \in Nat \ {0} /\ count \in 0 .. n
          /\ KeptValues(strays) \in Seq(Args)
          /\ Len(KeptValues(strays)) = count
          /\ AllGood(strays) => count = n
      BY <1>1, <1>4, ValuesRead
    <2> DEFINE next == NextArg(step.argIndex + NumRead(strays))
    <2>4. next \in Nat \ {0}
      <3>1. NumRead(strays) \in Nat
        BY <2>2 DEF NumRead
      <3>2. step.argIndex \in Nat
        BY <2>1 DEF LoopStep
      <3> QED BY <3>1, <3>2 DEF NextArg
    <2>5. PICK ok \in BOOLEAN, st \in BOOLEAN :
            /\ ok => step.isValid /\ AllGood(strays)
            /\ step' = [step EXCEPT !.argIndex = next, !.isValid = ok,
                                    !.strayed = st]
      <3>1. /\ (step.isValid /\ AllGood(strays)) \in BOOLEAN
            /\ (step.strayed \/ ReadsPast(strays)) \in BOOLEAN
        BY Zenon
      <3> QED BY <1>4, <3>1, Zenon
    <2> HIDE DEF next
    <2>6. step' \in LoopStep
      BY <2>1, <2>4, <2>5 DEF LoopStep
    <2>7. /\ step'.line = step.line /\ step'.isValid = ok
          /\ step'.mandatoryOptionIndex = step.mandatoryOptionIndex
      BY <2>1, <2>5 DEF LoopStep
    <2>8. step'.isValid => step.isValid /\ Len(KeptValues(strays)) = n
      BY <2>2, <2>5, <2>7
    <2>9. step'.mandatoryOptionIndex \in
            step.mandatoryOptionIndex .. NumMandatoryParameters(Command) + 1
      BY <2>1, <2>7
    <2>10. \A q \in Mandatory(Command) :
             Parameters(Command)[q].inOrderIndex < step'.mandatoryOptionIndex =>
               q = CurrArg.name
                 \/ Parameters(Command)[q].inOrderIndex < step.mandatoryOptionIndex
      BY <2>7
    <2> QED BY <1>1, <1>4, <2>2, <2>6, <2>7, <2>8, <2>9, <2>10, GivenInv DEF Prop
  <1> QED BY <1>1, <1>2, <1>3, <1>4, Zenon DEF ValidateOption

\* A plain argument fills the place of one more mandatory parameter.
LEMMA ValidatePlainInv == ParserInv /\ ValidatePlain => ParserInv'
  <1> SUFFICES ASSUME ParserInv, ValidatePlain PROVE ParserInv'
    OBVIOUS
  <1> DEFINE k == step.mandatoryOptionIndex
             p == ParameterAtIndex(Command, k)
  <1>1. InLoop /\ UNCHANGED <<m_CurrentCommandName, m_Flags>>
    BY DEF ValidatePlain
  <1>2. ASSUME NEW valid \in BOOLEAN, Break(valid), UNCHANGED m_UserParameters
        PROVE  ParserInv'
    BY <1>1, <1>2, BreakInv
  <1>3. CASE /\ k <= NumMandatoryParameters(Command)
             /\ m_UserParameters' = Inserted(m_UserParameters, p, <<CurrArg>>)
             /\ step' = [step EXCEPT !.argIndex = NextArg(@),
                                     !.mandatoryOptionIndex = @ + 1]
    <2>1. /\ step \in LoopStep /\ Command \in DOMAIN Commands
          /\ NumMandatoryParameters(Command) \in Nat /\ CurrArg \in Args
          /\ k \in 1 .. NumMandatoryParameters(Command)
          /\ step.argIndex \in Nat
      BY <1>1, <1>3, LoopFacts
    <2>2. /\ p \in Mandatory(Command)
          /\ \A q \in Mandatory(Command) :
               Parameters(Command)[q].inOrderIndex = k => q = p
      BY <2>1, ParameterAtIndexFound
    <2>3. p \in DOMAIN Parameters(Command) /\ Parameters(Command)[p].numValues = 1
      BY <2>1, <2>2, CliParserAssumption DEF Mandatory
    <2>4. <<CurrArg>> \in Seq(Args) /\ Len(<<CurrArg>>) = 1
      BY <2>1
    <2> DEFINE next == NextArg(step.argIndex)
    <2>5. next \in Nat \ {0} /\ k + 1 \in Nat \ {0}
      BY <2>1 DEF NextArg
    <2>6. step' = [step EXCEPT !.argIndex = next, !.mandatoryOptionIndex = k + 1]
      BY <1>3
    <2> HIDE DEF next
    <2>7. step' \in LoopStep
      BY <2>1, <2>5, <2>6 DEF LoopStep
    <2>8. /\ step'.line = step.line /\ step'.isValid = step.isValid
          /\ step'.mandatoryOptionIndex = k + 1
      BY <2>1, <2>6 DEF LoopStep
    <2>9. step'.mandatoryOptionIndex \in k .. NumMandatoryParameters(Command) + 1
      BY <2>1, <2>8
    <2>10. \A q \in Mandatory(Command) :
             Parameters(Command)[q].inOrderIndex < step'.mandatoryOptionIndex =>
               q = p \/ Parameters(Command)[q].inOrderIndex < k
      <3> SUFFICES ASSUME NEW q \in Mandatory(Command),
                          Parameters(Command)[q].inOrderIndex < k + 1
                   PROVE  q = p \/ Parameters(Command)[q].inOrderIndex < k
        BY <2>8
      <3>1. Parameters(Command)[q].inOrderIndex \in
              1 .. NumMandatoryParameters(Command)
        BY <2>1, CliParserAssumption
      <3> QED BY <2>1, <2>2, <3>1
    <2> HIDE DEF p
    <2> QED BY <1>1, <1>3, <2>3, <2>4, <2>7, <2>8, <2>9, <2>10, GivenInv
  <1> QED BY <1>2, <1>3, Zenon DEF ValidatePlain

\* Validate accepts what has all places filled and no value refused.
LEMMA ValidateEndInv == ParserInv /\ ValidateEnd => ParserInv'
  <1> SUFFICES ASSUME ParserInv, ValidateEnd PROVE ParserInv'
    OBVIOUS
  <1>1. /\ step.at = "validate"
        /\ step' = [at |-> IF AllMandatory /\ step.isValid THEN "accepted"
                           ELSE "rejected",
                    line |-> step.line, strayed |-> step.strayed]
        /\ UNCHANGED <<m_CurrentCommandName, m_Flags, m_UserParameters>>
    BY DEF ValidateEnd
  <1>2. step \in LoopStep
    BY <1>1 DEF ParserInv, StepOK, Prompt, LineStep
  <1>3. step' \in LineStep /\ step'.line = step.line
    BY <1>1, <1>2 DEF LoopStep, LineStep
  <1>4. Command \in DOMAIN Commands /\ m_CurrentCommandName = Command
    BY <1>1 DEF ParserInv, StepOK
  <1>5. step'.at = "accepted" => AllMandatory /\ step.isValid
    BY <1>1
  <1>6. StepOK'
    BY <1>1, <1>3, <1>4 DEF StepOK, LineStep, Command
  <1>7. KeptOK'
    BY <1>1 DEF ParserInv, KeptOK
  <1>8. step'.at # "validate" /\ Command' = Command
    BY <1>3 DEF LineStep, Command
  <1>9. ValuesCounted'
    BY <1>1, <1>5, <1>8 DEF ParserInv, ValuesCounted
  <1>10. MandatoryCounted'
    <2> SUFFICES ASSUME AllMandatory, NEW p \in Mandatory(Command)
                 PROVE  p \in DOMAIN m_UserParameters
      BY <1>1, <1>5, <1>8 DEF MandatoryCounted
    <2>1. Parameters(Command)[p].inOrderIndex \in
            1 .. NumMandatoryParameters(Command)
      BY <1>4, CliParserAssumption
    <2>2. /\ step.mandatoryOptionIndex \in Nat
          /\ NumMandatoryParameters(Command) \in Nat
      BY <1>2, <1>4, CountType DEF LoopStep
    <2>3. Parameters(Command)[p].inOrderIndex < step.mandatoryOptionIndex
      BY <2>1, <2>2 DEF AllMandatory
    <2> QED BY <1>1, <2>3 DEF ParserInv, MandatoryCounted
  <1> QED BY <1>6, <1>7, <1>9, <1>10 DEF ParserInv

\* Between two lines the parser keeps what it has.
LEMMA NextLineInv == ParserInv /\ NextLine => ParserInv'
  BY DEF ParserInv, NextLine, StepOK, KeptOK, ValuesCounted, MandatoryCounted,
         Prompt
-----------------------------------------------------------------------------
\* The invariant is inductive.
LEMMA NextInv == ParserInv /\ [Next]_vars => ParserInv'
  <1> SUFFICES ASSUME ParserInv, [Next]_vars PROVE ParserInv'
    OBVIOUS
  <1>1. CASE Parse
    BY <1>1, ParseInv
  <1>2. CASE Validate
    BY <1>2, ValidateFlagInv, ValidateOptionInv, ValidatePlainInv, ValidateEndInv
       DEF Validate
  <1>3. CASE NextLine
    BY <1>3, NextLineInv
  <1>4. CASE UNCHANGED vars
    BY <1>4 DEF vars, ParserInv, StepOK, KeptOK, ValuesCounted, MandatoryCounted,
                Command
  <1> QED BY <1>1, <1>2, <1>3, <1>4 DEF Next, ParseStep

\* The invariant gives the type invariant.
LEMMA ParserInvTypeOK == ParserInv => TypeOK
  <1> SUFFICES ASSUME ParserInv PROVE TypeOK
    OBVIOUS
  <1>1. step.at \in {"prompt", "validate", "accepted", "rejected", "off"}
    BY DEF ParserInv, StepOK, Prompt, LineStep, LoopStep
  <1>2. ASSUME step.at = "validate"
        PROVE  /\ Command \in DOMAIN Commands /\ step.argIndex \in Nat \ {0}
               /\ step.mandatoryOptionIndex \in
                    1 .. NumMandatoryParameters(Command) + 1
    <2>1. step \in LoopStep
      BY <1>2 DEF ParserInv, StepOK, Prompt, LineStep
    <2>2. /\ Command \in DOMAIN Commands
          /\ step.mandatoryOptionIndex <= NumMandatoryParameters(Command) + 1
      BY <1>2 DEF ParserInv, StepOK
    <2>3. NumMandatoryParameters(Command) \in Nat
      BY <2>2, CountType
    <2> QED BY <2>1, <2>2, <2>3 DEF LoopStep
  <1> QED BY <1>1, <1>2 DEF TypeOK, ParserInv, KeptOK

\* In every accepted state the counts hold, whatever was read on the way.
LEMMA ParserInvValues == ParserInv => HandlersFindValues
  BY DEF ParserInv, ValuesCounted, MandatoryCounted, HandlersFindValues

\* The parser stays at an argument of its line, and keeps flags and parameters
\* of the current command.
THEOREM ParserTypeCorrect == Spec => []TypeOK
  <1>1. Init => ParserInv
    BY InitInv
  <1>2. ParserInv /\ [Next]_vars => ParserInv'
    BY NextInv
  <1>3. ParserInv => TypeOK
    BY ParserInvTypeOK
  <1> QED BY <1>1, <1>2, <1>3, PTL DEF Spec

\* Whenever the parser has accepted a line, the handler finds every mandatory
\* parameter and as many values as each parameter takes, also when the loop has
\* read past the end of the line.
THEOREM ParserHandlersFindValues == Spec => []HandlersFindValues
  <1>1. Init => ParserInv
    BY InitInv
  <1>2. ParserInv /\ [Next]_vars => ParserInv'
    BY NextInv
  <1>3. ParserInv => HandlersFindValues
    BY ParserInvValues
  <1> QED BY <1>1, <1>2, <1>3, PTL DEF Spec
-----------------------------------------------------------------------------
(***************************************************************************)
(* What a line means.  The grammar says which arguments head a flag, an    *)
(* option with its values or a plain argument.  At each turn of the loop,  *)
(* argIndex is at the next head, and the flags and parameters are what the *)
(* heads before it say; or the line is not well formed and will be         *)
(* rejected.                                                               *)
(***************************************************************************)
HeadsBefore(c, args, a) == {h \in Heads(c, args) : h < a}

PlainBefore(c, args, a) == {h \in HeadsBefore(c, args, a) : IsPlain(args[h])}

FlagsBefore(c, args, a) ==
  {args[h].name : h \in {g \in HeadsBefore(c, args, a) : IsFlag(args[g])}}

\* What WellFormed asks of a head.
GoodHead(c, args, h) ==
  /\ IsFlag(args[h]) => args[h].name \in Commands[c].flags
  /\ IsOption(args[h]) =>
       /\ args[h].name \in DOMAIN Parameters(c)
       /\ h + NumValues(c, args[h]) <= Len(args)
       /\ \A i \in 1 .. NumValues(c, args[h]) :
            ValidateArg(args[h + i], Parameters(c)[args[h].name].type)
  /\ IsPlain(args[h]) => \E p \in Mandatory(c) :
       /\ Parameters(c)[p].inOrderIndex = PlainIndex(c, args, h)
       /\ ValidateArg(args[h], Parameters(c)[p].type)

\* What a head gives to its parameter.
ValuesAt(c, args, h) ==
  IF IsPlain(args[h]) THEN <<args[h]>> ELSE Values(c, args, h)

\* No value of an option before a is at a or behind it.
AtHead(c, args, a) ==
  \A h \in HeadsBefore(c, args, a) : h + NumValues(c, args[h]) < a

\* Each parameter that was given values before a has those of its first giver.
GivenBefore(c, args, a, parameters) ==
  /\ DOMAIN parameters =
       {q \in DOMAIN Parameters(c) : \E h \in Givers(c, args, q) : h < a}
  /\ \A q \in DOMAIN parameters : \E h \in Givers(c, args, q) :
       /\ h < a /\ \A g \in Givers(c, args, q) : h <= g
       /\ parameters[q] = ValuesAt(c, args, h)

OnTrack(c, args, a, index, flags, parameters) ==
  /\ a \in 1 .. Len(args) + 1
  /\ AtHead(c, args, a)
  /\ \A h \in HeadsBefore(c, args, a) : GoodHead(c, args, h)
  /\ index = Cardinality(PlainBefore(c, args, a)) + 1
  /\ flags = FlagsBefore(c, args, a)
  /\ GivenBefore(c, args, a, parameters)

\* The line is not well formed, and what has been seen of it forbids to accept
\* it: a refused argument, a missing one, or a value read past the end.
Doomed(c, args, s) ==
  /\ ~WellFormed(c, args)
  /\ \/ ~s.isValid \/ s.strayed
     \/ /\ s.argIndex > Len(args)
        /\ s.mandatoryOptionIndex <= NumMandatoryParameters(c)

Tracked ==
  /\ step.isValid /\ ~step.strayed
  /\ OnTrack(Command, step.line.args, step.argIndex,
             step.mandatoryOptionIndex, m_Flags, m_UserParameters)

MeaningInv ==
  /\ step.at = "validate" =>
       Tracked \/ Doomed(Command, step.line.args, step)
  /\ AcceptsWellFormed /\ ParsedAsMeant
-----------------------------------------------------------------------------
(***************************************************************************)
(* The heads of a line.                                                    *)
(***************************************************************************)
LEMMA NumValuesType ==
  ASSUME NEW c \in DOMAIN Commands, NEW arg
  PROVE  /\ NumValues(c, arg) \in Nat
         /\ ~IsOption(arg) => NumValues(c, arg) = 0
         /\ IsOption(arg) /\ arg.name \in DOMAIN Parameters(c) =>
              /\ NumValues(c, arg) = Parameters(c)[arg.name].numValues
              /\ NumValues(c, arg) \in Nat \ {0}
  BY CliParserAssumption DEF NumValues

\* H picks, of the first n arguments, those that are no value of one before.
HeadsUpTo(c, args, n, H) ==
  /\ H \subseteq 1 .. n
  /\ \A i \in 1 .. n :
       i \in H <=> ~\E h \in H : h < i /\ i <= h + NumValues(c, args[h])

\* Whether one more argument is a head follows from the heads before it.
LEMMA OneMoreHead ==
  ASSUME NEW c \in DOMAIN Commands, NEW args, NEW n \in Nat \ {0},
         NEW G, HeadsUpTo(c, args, n - 1, G)
  PROVE  \E H : HeadsUpTo(c, args, n, H)
  <1> DEFINE free == ~\E h \in G : n <= h + NumValues(c, args[h])
             H == IF free THEN G \cup {n} ELSE G
  <1>1. G \subseteq 1 .. n - 1
    BY DEF HeadsUpTo
  <1>2. /\ \A i \in 1 .. n - 1 : i < n /\ ~(n < i) /\ i # n
        /\ \A i \in 1 .. n : i = n \/ i \in 1 .. n - 1
        /\ ~(n < n)
    OBVIOUS
  <1>3. H \subseteq 1 .. n
    BY <1>1
  <1>4. n \in H <=> free
    BY <1>1, <1>2
  <1>5. \A h \in H : h = n \/ h \in G
    OBVIOUS
  <1>6. \A h \in G : h \in H /\ h < n
    BY <1>1, <1>2
  <1>7. ASSUME NEW i \in 1 .. n - 1
        PROVE  i \in H <=> ~\E h \in H : h < i /\ i <= h + NumValues(c, args[h])
    <2>1. i \in H <=> i \in G
      BY <1>2
    <2>2. i \in G <=> ~\E h \in G : h < i /\ i <= h + NumValues(c, args[h])
      BY DEF HeadsUpTo
    <2>3. \A h \in H : h < i => h \in G
      BY <1>2, <1>5
    <2> HIDE DEF H
    <2> QED BY <2>1, <2>2, <2>3, <1>6
  <1>8. n \in H <=> ~\E h \in H : h < n /\ n <= h + NumValues(c, args[h])
    <2>1. (\E h \in H : h < n /\ n <= h + NumValues(c, args[h]))
            <=> \E h \in G : n <= h + NumValues(c, args[h])
      BY <1>2, <1>5, <1>6
    <2> QED BY <1>4, <2>1
  <1>9. HeadsUpTo(c, args, n, H)
    <2> HIDE DEF H, free
    <2> QED BY <1>2, <1>3, <1>7, <1>8 DEF HeadsUpTo
  <1> QED BY <1>9

\* A line has heads: were there none, there would be a shortest part of it
\* without.
LEMMA HeadsExist ==
  ASSUME NEW c \in DOMAIN Commands, NEW args, NEW N \in Nat
  PROVE  \E H : HeadsUpTo(c, args, N, H)
  <1> DEFINE S == {n \in 0 .. N : ~\E H : HeadsUpTo(c, args, n, H)}
  <1>1. CASE S = {}
    BY <1>1
  <1>2. CASE S # {}
    <2>1. S \subseteq Nat
      OBVIOUS
    <2>2. PICK n \in S : \A k \in S : n <= k
      BY <1>2, <2>1, LeastNat
    <2>3. n # 0
      <3>1. HeadsUpTo(c, args, 0, {})
        BY DEF HeadsUpTo
      <3> QED BY <3>1
    <2>4. n - 1 \in 0 .. N /\ ~(n <= n - 1) /\ n \in Nat \ {0}
      BY <2>3
    <2>5. PICK G : HeadsUpTo(c, args, n - 1, G)
      BY <2>2, <2>4
    <2> QED BY <2>4, <2>5, OneMoreHead
  <1> QED BY <1>1, <1>2

LEMMA HeadsSolve ==
  ASSUME NEW c \in DOMAIN Commands, NEW args \in Seq(Args)
  PROVE  /\ Heads(c, args) \subseteq 1 .. Len(args)
         /\ \A i \in 1 .. Len(args) :
              i \in Heads(c, args) <=>
                ~\E h \in Heads(c, args) :
                   h < i /\ i <= h + NumValues(c, args[h])
  <1>1. Len(args) \in Nat /\ DOMAIN args = 1 .. Len(args)
    BY LenProperties
  <1>2. PICK H : HeadsUpTo(c, args, Len(args), H)
    BY <1>1, HeadsExist
  <1>3. /\ H \in SUBSET DOMAIN args
        /\ \A i \in DOMAIN args :
             i \in H <=> ~\E h \in H : h < i /\ i <= h + NumValues(c, args[h])
    BY <1>1, <1>2 DEF HeadsUpTo
  <1>4. /\ Heads(c, args) \in SUBSET DOMAIN args
        /\ \A i \in DOMAIN args :
             i \in Heads(c, args) <=>
               ~\E h \in Heads(c, args) :
                  h < i /\ i <= h + NumValues(c, args[h])
    BY <1>3 DEF Heads
  <1> QED BY <1>1, <1>4

\* The argument behind the values of a head is the next head.
LEMMA HeadsAdvance ==
  ASSUME NEW c \in DOMAIN Commands, NEW args \in Seq(Args),
         NEW a \in 1 .. Len(args), AtHead(c, args, a)
  PROVE  LET next == a + NumValues(c, args[a]) + 1 IN
         /\ a \in Heads(c, args)
         /\ HeadsBefore(c, args, next) = HeadsBefore(c, args, a) \cup {a}
         /\ AtHead(c, args, next)
  <1> DEFINE H == Heads(c, args)
             n == NumValues(c, args[a])
             next == a + n + 1
  <1>1. /\ H \subseteq 1 .. Len(args)
        /\ \A i \in 1 .. Len(args) :
             i \in H <=> ~\E h \in H : h < i /\ i <= h + NumValues(c, args[h])
    BY HeadsSolve
  <1>2. Len(args) \in Nat /\ a \in Nat /\ H \subseteq Nat
    BY <1>1, LenProperties
  <1>3. \A h : NumValues(c, args[h]) \in Nat
    BY NumValuesType
  <1>4. \A h \in H : h < a => h + NumValues(c, args[h]) < a
    BY DEF AtHead, HeadsBefore
  <1>5. a \in H
    <2>1. ASSUME NEW h \in H, h < a, a <= h + NumValues(c, args[h])
          PROVE  FALSE
      BY <1>2, <1>3, <1>4, <2>1
    <2> QED BY <1>1, <2>1
  <1>6. \A h \in H : h < next <=> h < a \/ h = a
    <2> SUFFICES ASSUME NEW h \in H PROVE h < next <=> h < a \/ h = a
      OBVIOUS
    <2>1. h \in Nat /\ n \in Nat
      BY <1>2, <1>3
    <2>2. a < h /\ h <= a + n => FALSE
      BY <1>1, <1>5
    <2> QED BY <1>2, <2>1, <2>2
  <1>7. HeadsBefore(c, args, next) = HeadsBefore(c, args, a) \cup {a}
    BY <1>5, <1>6 DEF HeadsBefore
  <1>8. AtHead(c, args, next)
    <2> SUFFICES ASSUME NEW h \in H, h < next
                 PROVE  h + NumValues(c, args[h]) < next
      BY DEF AtHead, HeadsBefore
    <2>1. CASE h = a
      BY <1>2, <1>3, <2>1
    <2>2. CASE h < a
      <3>1. h + NumValues(c, args[h]) < a /\ h \in Nat /\ n \in Nat
        BY <1>2, <1>3, <1>4, <2>2
      <3>2. NumValues(c, args[h]) \in Nat
        BY <1>3
      <3> QED BY <1>2, <3>1, <3>2
    <2> QED BY <1>6, <2>1, <2>2
  <1> QED BY <1>5, <1>7, <1>8

\* The plain heads are finitely many.
LEMMA PlainFinite ==
  ASSUME NEW c \in DOMAIN Commands, NEW args \in Seq(Args), NEW a
  PROVE  /\ IsFiniteSet(PlainBefore(c, args, a))
         /\ Cardinality(PlainBefore(c, args, a)) \in Nat
  <1>1. Len(args) \in Nat
    BY LenProperties
  <1>2. IsFiniteSet(1 .. Len(args))
    BY <1>1, FS_Interval
  <1>3. PlainBefore(c, args, a) \in SUBSET (1 .. Len(args))
    BY HeadsSolve DEF PlainBefore, HeadsBefore
  <1>4. IsFiniteSet(PlainBefore(c, args, a))
    BY <1>2, <1>3, FS_Subset
  <1> QED BY <1>4, FS_CardinalityType

\* mandatoryOptionIndex at a plain head is its index among the plain heads.
LEMMA PlainIndexCounts ==
  ASSUME NEW c \in DOMAIN Commands, NEW args \in Seq(Args),
         NEW a \in Heads(c, args), IsPlain(args[a])
  PROVE  PlainIndex(c, args, a) = Cardinality(PlainBefore(c, args, a)) + 1
  <1>1. Heads(c, args) \subseteq Nat
    BY HeadsSolve, LenProperties
  <1>2. \A g \in Heads(c, args) : g <= a <=> g < a \/ g = a
    BY <1>1
  <1>3. {g \in PlainHeads(c, args) : g <= a} = PlainBefore(c, args, a) \cup {a}
    BY <1>2 DEF PlainHeads, PlainBefore, HeadsBefore
  <1>4. a \notin PlainBefore(c, args, a)
    BY <1>1 DEF PlainBefore, HeadsBefore
  <1>5. Cardinality(PlainBefore(c, args, a) \cup {a}) =
          Cardinality(PlainBefore(c, args, a)) + 1
    BY <1>4, PlainFinite, FS_AddElement
  <1> QED BY <1>3, <1>5 DEF PlainIndex

\* What one head adds to the heads, flags and plain heads before.
LEMMA BeforeAdvance ==
  ASSUME NEW c \in DOMAIN Commands, NEW args \in Seq(Args),
         NEW a \in 1 .. Len(args), AtHead(c, args, a)
  PROVE  LET next == a + NumValues(c, args[a]) + 1 IN
         /\ FlagsBefore(c, args, next) =
              IF IsFlag(args[a])
              THEN FlagsBefore(c, args, a) \cup {args[a].name}
              ELSE FlagsBefore(c, args, a)
         /\ Cardinality(PlainBefore(c, args, next)) =
              IF IsPlain(args[a])
              THEN Cardinality(PlainBefore(c, args, a)) + 1
              ELSE Cardinality(PlainBefore(c, args, a))
  <1> DEFINE next == a + NumValues(c, args[a]) + 1
  <1>1. HeadsBefore(c, args, next) = HeadsBefore(c, args, a) \cup {a}
    BY HeadsAdvance
  <1>2. a \notin PlainBefore(c, args, a)
    BY LenProperties DEF PlainBefore, HeadsBefore
  <1>3. Cardinality(PlainBefore(c, args, a) \cup {a}) =
          Cardinality(PlainBefore(c, args, a)) + 1
    BY <1>2, PlainFinite, FS_AddElement
  <1> HIDE DEF next
  <1>4. FlagsBefore(c, args, next) =
          IF IsFlag(args[a])
          THEN FlagsBefore(c, args, a) \cup {args[a].name}
          ELSE FlagsBefore(c, args, a)
    BY <1>1 DEF FlagsBefore
  <1>5. PlainBefore(c, args, next) =
          IF IsPlain(args[a]) THEN PlainBefore(c, args, a) \cup {a}
          ELSE PlainBefore(c, args, a)
    BY <1>1 DEF PlainBefore
  <1> QED BY <1>3, <1>4, <1>5 DEF next

LEMMA GiversAdvance ==
  ASSUME NEW c \in DOMAIN Commands, NEW args \in Seq(Args),
         NEW a \in 1 .. Len(args), AtHead(c, args, a), NEW q
  PROVE  LET next == a + NumValues(c, args[a]) + 1 IN
         \A h \in Givers(c, args, q) :
           h \in Nat /\ (h < next <=> h < a \/ h = a)
  <1> DEFINE next == a + NumValues(c, args[a]) + 1
  <1>1. /\ a \in Heads(c, args)
        /\ HeadsBefore(c, args, next) = HeadsBefore(c, args, a) \cup {a}
    BY HeadsAdvance
  <1>2. Heads(c, args) \subseteq Nat /\ a \in Nat
    BY HeadsSolve, LenProperties
  <1> HIDE DEF next
  <1>3. \A h \in Heads(c, args) : h < next <=> h < a \/ h = a
    BY <1>1, <1>2 DEF HeadsBefore
  <1>4. Givers(c, args, q) \subseteq Heads(c, args)
    BY DEF Givers
  <1> QED BY <1>2, <1>3, <1>4 DEF next

\* A head that gives nothing to a parameter leaves the parameters right.
LEMMA GivenKept ==
  ASSUME NEW c \in DOMAIN Commands, NEW args \in Seq(Args),
         NEW a \in 1 .. Len(args), AtHead(c, args, a), NEW parameters,
         GivenBefore(c, args, a, parameters),
         \A q \in DOMAIN Parameters(c) : a \notin Givers(c, args, q)
  PROVE  GivenBefore(c, args, a + NumValues(c, args[a]) + 1, parameters)
  <1> DEFINE next == a + NumValues(c, args[a]) + 1
  <1>1. \A q \in DOMAIN Parameters(c) : \A h \in Givers(c, args, q) :
          h < next <=> h < a
    BY GiversAdvance
  <1> HIDE DEF next
  <1>2. DOMAIN parameters =
          {q \in DOMAIN Parameters(c) : \E h \in Givers(c, args, q) : h < next}
    BY <1>1 DEF GivenBefore
  <1>3. \A q \in DOMAIN parameters : \E h \in Givers(c, args, q) :
          /\ h < next /\ \A g \in Givers(c, args, q) : h <= g
          /\ parameters[q] = ValuesAt(c, args, h)
    BY <1>1, <1>2 DEF GivenBefore
  <1> QED BY <1>2, <1>3 DEF GivenBefore, next

\* insert does what the first giver of each parameter asks for.
LEMMA GivenInserted ==
  ASSUME NEW c \in DOMAIN Commands, NEW args \in Seq(Args),
         NEW a \in 1 .. Len(args), AtHead(c, args, a), NEW parameters,
         GivenBefore(c, args, a, parameters), NEW p \in DOMAIN Parameters(c),
         \A q \in DOMAIN Parameters(c) : a \in Givers(c, args, q) <=> q = p
  PROVE  GivenBefore(c, args, a + NumValues(c, args[a]) + 1,
                     Inserted(parameters, p, ValuesAt(c, args, a)))
  <1> DEFINE next == a + NumValues(c, args[a]) + 1
             new == Inserted(parameters, p, ValuesAt(c, args, a))
  <1>1. \A q \in DOMAIN Parameters(c) : \A h \in Givers(c, args, q) :
          h \in Nat /\ (h < next <=> h < a \/ h = a)
    BY GiversAdvance
  <1>2. /\ DOMAIN new = DOMAIN parameters \cup {p}
        /\ \A q \in DOMAIN parameters : new[q] = parameters[q]
        /\ p \notin DOMAIN parameters => new[p] = ValuesAt(c, args, a)
    BY DEF Inserted
  <1> HIDE DEF next, new
  <1>3. a \in Givers(c, args, p) /\ a < next
    BY <1>1
  <1>4. DOMAIN parameters =
          {q \in DOMAIN Parameters(c) : \E h \in Givers(c, args, q) : h < a}
    BY DEF GivenBefore
  <1>5. \A q \in DOMAIN Parameters(c) :
          (\E h \in Givers(c, args, q) : h < next)
            <=> q \in DOMAIN parameters \/ q = p
    BY <1>1, <1>3, <1>4
  <1>6. DOMAIN new =
          {q \in DOMAIN Parameters(c) : \E h \in Givers(c, args, q) : h < next}
    BY <1>2, <1>4, <1>5
  <1>7. ASSUME NEW q \in DOMAIN new
        PROVE  \E h \in Givers(c, args, q) :
                 /\ h < next /\ \A g \in Givers(c, args, q) : h <= g
                 /\ new[q] = ValuesAt(c, args, h)
    <2>1. CASE q \in DOMAIN parameters
      <3>1. PICK h \in Givers(c, args, q) :
              /\ h < a /\ \A g \in Givers(c, args, q) : h <= g
              /\ parameters[q] = ValuesAt(c, args, h)
        BY <2>1 DEF GivenBefore
      <3>2. h < next
        BY <1>1, <1>4, <2>1, <3>1
      <3> QED BY <1>2, <2>1, <3>1, <3>2
    <2>2. CASE q \notin DOMAIN parameters
      <3>1. q = p /\ new[q] = ValuesAt(c, args, a)
        BY <1>2, <2>2
      <3>2. \A g \in Givers(c, args, p) : ~(g < a) /\ g \in Nat /\ a \in Nat
        BY <1>1, <1>3, <1>4, <2>2, <3>1
      <3>3. \A g \in Givers(c, args, p) : a <= g
        BY <3>2
      <3> QED BY <1>3, <3>1, <3>3
    <2> QED BY <2>1, <2>2
  <1> QED BY <1>6, <1>7 DEF GivenBefore, next, new
-----------------------------------------------------------------------------
(***************************************************************************)
(* One turn of the loop.                                                   *)
(***************************************************************************)
\* A head that is not good, and plain heads that are too few, make the line no
\* line of the command.
LEMMA BadHead ==
  ASSUME NEW c, NEW args, NEW h \in Heads(c, args), ~GoodHead(c, args, h)
  PROVE  ~WellFormed(c, args)
  BY DEF WellFormed, GoodHead, PlainHeads

\* What the loop does with a good head keeps it on its track.
LEMMA TrackAdvance ==
  ASSUME NEW c \in DOMAIN Commands, NEW args \in Seq(Args),
         NEW a \in 1 .. Len(args), NEW index \in Nat, NEW flags,
         NEW parameters,
         OnTrack(c, args, a, index, flags, parameters), GoodHead(c, args, a),
         NEW next \in Nat, next = a + NumValues(c, args[a]) + 1,
         next <= Len(args) + 1,
         NEW index2 \in Nat, IsPlain(args[a]) => index2 = index + 1,
         ~IsPlain(args[a]) => index2 = index,
         NEW flags2, IsFlag(args[a]) => flags2 = flags \cup {args[a].name},
         ~IsFlag(args[a]) => flags2 = flags,
         NEW parameters2, GivenBefore(c, args, next, parameters2)
  PROVE  OnTrack(c, args, next, index2, flags2, parameters2)
  <1>1. AtHead(c, args, a)
    BY DEF OnTrack
  <1>2. /\ AtHead(c, args, next)
        /\ HeadsBefore(c, args, next) = HeadsBefore(c, args, a) \cup {a}
    BY <1>1, HeadsAdvance
  <1>3. /\ FlagsBefore(c, args, next) = flags2
        /\ Cardinality(PlainBefore(c, args, next)) =
             IF IsPlain(args[a])
             THEN Cardinality(PlainBefore(c, args, a)) + 1
             ELSE Cardinality(PlainBefore(c, args, a))
    BY <1>1, BeforeAdvance DEF OnTrack
  <1>4. index2 = Cardinality(PlainBefore(c, args, next)) + 1
    <2>1. Cardinality(PlainBefore(c, args, a)) \in Nat
      BY PlainFinite
    <2> QED BY <1>3, <2>1 DEF OnTrack
  <1>5. \A h \in HeadsBefore(c, args, next) : GoodHead(c, args, h)
    BY <1>2 DEF OnTrack
  <1>6. next \in 1 .. Len(args) + 1
    BY NumValuesType, LenProperties
  <1> QED BY <1>2, <1>3, <1>4, <1>5, <1>6 DEF OnTrack

\* Before the first argument there is nothing to keep.
LEMMA TrackStart ==
  ASSUME NEW c \in DOMAIN Commands, NEW args \in Seq(Args)
  PROVE  OnTrack(c, args, 1, 1, {}, NoParameters)
  <1>1. Heads(c, args) \subseteq 1 .. Len(args) /\ Len(args) \in Nat
    BY HeadsSolve, LenProperties
  <1>2. HeadsBefore(c, args, 1) = {}
    BY <1>1 DEF HeadsBefore
  <1>3. Cardinality(PlainBefore(c, args, 1)) = 0
    BY <1>2, FS_EmptySet DEF PlainBefore
  <1>4. FlagsBefore(c, args, 1) = {}
    BY <1>2 DEF FlagsBefore
  <1>5. \A q : \A h \in Givers(c, args, q) : ~(h < 1)
    BY <1>1 DEF Givers
  <1>6. GivenBefore(c, args, 1, NoParameters)
    BY <1>5 DEF GivenBefore, NoParameters
  <1> QED BY <1>1, <1>2, <1>3, <1>4, <1>6 DEF OnTrack, AtHead

LEMMA InitMeaning == Init => MeaningInv
  <1>1. Init => step = Prompt
    BY DEF Init
  <1>2. Prompt.at = "prompt"
    BY DEF Prompt
  <1> QED BY <1>1, <1>2 DEF MeaningInv, AcceptsWellFormed, ParsedAsMeant

LEMMA ParseMeaning == ParserInv /\ Parse => MeaningInv'
  <1> SUFFICES ASSUME ParserInv, Parse PROVE MeaningInv'
    OBVIOUS
  <1>1. PICK line \in Lines :
          /\ Clear
          /\ step' = IF line.command \notin DOMAIN Commands
                     THEN [at |-> "rejected", line |-> line, strayed |-> FALSE]
                     ELSE [at |-> "validate", line |-> line, argIndex |-> 1,
                           mandatoryOptionIndex |-> 1, isValid |-> TRUE,
                           strayed |-> FALSE]
    BY DEF Parse
  <1>2. CASE line.command \notin DOMAIN Commands
    <2>1. step'.at = "rejected" /\ Command' = line.command
      BY <1>1, <1>2 DEF Command
    <2> QED BY <1>2, <2>1 DEF MeaningInv, AcceptsWellFormed, ParsedAsMeant
  <1>3. CASE line.command \in DOMAIN Commands
    <2>1. step' = [at |-> "validate", line |-> line, argIndex |-> 1,
                   mandatoryOptionIndex |-> 1, isValid |-> TRUE,
                   strayed |-> FALSE]
      BY <1>1, <1>3
    <2>2. /\ step'.at = "validate" /\ step'.line = line
          /\ step'.argIndex = 1 /\ step'.mandatoryOptionIndex = 1
          /\ step'.isValid /\ ~step'.strayed /\ Command' = line.command
      BY <2>1 DEF Command
    <2>3. line.args \in Seq(Args)
      BY CliParserAssumption
    <2>4. OnTrack(line.command, line.args, 1, 1, {}, NoParameters)
      BY <1>3, <2>3, TrackStart
    <2>5. Tracked'
      BY <1>1, <2>2, <2>4 DEF Tracked, Clear
    <2> QED BY <2>2, <2>5 DEF MeaningInv, AcceptsWellFormed, ParsedAsMeant
  <1> QED BY <1>2, <1>3

\* A line that is doomed stays so: isValid is never set again, nor is strayed
\* reset.
LEMMA DoomStays ==
  ASSUME ParserInv, InLoop, Doomed(Command, step.line.args, step),
         step'.at = "validate", step'.line = step.line,
         step'.isValid => step.isValid, step.strayed => step'.strayed
  PROVE  MeaningInv'
  <1>1. ~(step.argIndex > Len(step.line.args))
    BY LoopFacts, LenProperties
  <1>2. ~step'.isValid \/ step'.strayed
    BY <1>1 DEF Doomed
  <1>3. Command' = Command
    BY DEF Command
  <1>4. Doomed(Command, step.line.args, step')
    BY <1>2 DEF Doomed
  <1>5. Doomed(Command, step.line.args, step)'
    BY <1>3, <1>4
  <1> QED BY <1>5 DEF MeaningInv, AcceptsWellFormed, ParsedAsMeant

\* What leaves the loop dooms the line.
LEMMA BreakMeaning ==
  ASSUME ParserInv, MeaningInv, InLoop, NEW valid \in BOOLEAN, Break(valid),
         Tracked => /\ ~WellFormed(Command, step.line.args)
                    /\ ~valid \/ step.mandatoryOptionIndex <=
                                   NumMandatoryParameters(Command)
  PROVE  MeaningInv'
  <1>0. /\ step \in LoopStep /\ step.line.args \in Seq(Args)
        /\ step.at = "validate"
    BY LoopFacts DEF InLoop
  <1>1. Len(step.line.args) \in Nat
    BY <1>0, LenProperties
  <1>2. PICK ok \in BOOLEAN :
          /\ ok => step.isValid /\ valid
          /\ step' = [step EXCEPT !.argIndex = Len(step.line.args) + 1,
                                  !.isValid = ok]
    <2>1. (step.isValid /\ valid) \in BOOLEAN
      BY Zenon
    <2> QED BY <2>1, Zenon DEF Break
  <1>3. /\ step'.line = step.line /\ step'.at = "validate"
        /\ step'.argIndex = Len(step.line.args) + 1
        /\ step'.mandatoryOptionIndex = step.mandatoryOptionIndex
        /\ step'.isValid = ok /\ step'.strayed = step.strayed
    BY <1>0, <1>2 DEF LoopStep
  <1>4. CASE Doomed(Command, step.line.args, step)
    BY <1>2, <1>3, <1>4, DoomStays
  <1>5. CASE Tracked
    <2>1. step'.argIndex > Len(step.line.args)
      BY <1>1, <1>3
    <2>2. \/ ~step'.isValid
          \/ step'.mandatoryOptionIndex <= NumMandatoryParameters(Command)
      BY <1>2, <1>3, <1>5
    <2>3. Doomed(Command, step.line.args, step')
      BY <1>5, <2>1, <2>2 DEF Doomed
    <2>4. Command' = Command
      BY <1>3 DEF Command
    <2>5. Doomed(Command, step.line.args, step)'
      BY <1>3, <2>3, <2>4
    <2> QED BY <1>3, <2>5 DEF MeaningInv, AcceptsWellFormed, ParsedAsMeant
  <1> QED BY <1>0, <1>4, <1>5 DEF MeaningInv

\* What every turn of the loop that is on its track may use.
LEMMA TrackFacts ==
  ASSUME ParserInv, InLoop, Tracked
  PROVE  /\ step.argIndex \in Heads(Command, step.line.args)
         /\ CurrArg = step.line.args[step.argIndex]
         /\ IsPlain(CurrArg) =>
              PlainIndex(Command, step.line.args, step.argIndex) =
                step.mandatoryOptionIndex
  <1>1. /\ Command \in DOMAIN Commands /\ step.line.args \in Seq(Args)
        /\ step.argIndex \in 1 .. Len(step.line.args)
    BY LoopFacts
  <1>2. step.argIndex \in Heads(Command, step.line.args)
    BY <1>1, HeadsAdvance DEF Tracked, OnTrack
  <1> QED BY <1>1, <1>2, PlainIndexCounts DEF CurrArg, Tracked, OnTrack

\* A turn that goes on to the next head.
LEMMA TrackMeaning ==
  ASSUME ParserInv, InLoop, Tracked,
         GoodHead(Command, step.line.args, step.argIndex),
         step'.at = "validate", step'.line = step.line,
         step'.isValid, ~step'.strayed,
         step'.argIndex = step.argIndex + NumValues(Command, CurrArg) + 1,
         step'.argIndex <= Len(step.line.args) + 1,
         step'.mandatoryOptionIndex =
           IF IsPlain(CurrArg) THEN step.mandatoryOptionIndex + 1
           ELSE step.mandatoryOptionIndex,
         m_Flags' = IF IsFlag(CurrArg) THEN m_Flags \cup {CurrArg.name}
                    ELSE m_Flags,
         GivenBefore(Command, step.line.args, step'.argIndex, m_UserParameters')
  PROVE  MeaningInv'
  <1>1. /\ Command \in DOMAIN Commands /\ step.line.args \in Seq(Args)
        /\ step.argIndex \in 1 .. Len(step.line.args)
        /\ CurrArg = step.line.args[step.argIndex]
    BY LoopFacts DEF CurrArg
  <1>2. OnTrack(Command, step.line.args, step'.argIndex,
                step'.mandatoryOptionIndex, m_Flags', m_UserParameters')
    <2>1. PICK c, args, a, next, index2, flags2, parameters2 :
            /\ c = Command /\ args = step.line.args /\ a = step.argIndex
            /\ next = step'.argIndex /\ index2 = step'.mandatoryOptionIndex
            /\ flags2 = m_Flags' /\ parameters2 = m_UserParameters'
      OBVIOUS
    <2>2. /\ next = a + NumValues(c, args[a]) + 1
          /\ next <= Len(args) + 1
          /\ IsPlain(args[a]) => index2 = step.mandatoryOptionIndex + 1
          /\ ~IsPlain(args[a]) => index2 = step.mandatoryOptionIndex
          /\ IsFlag(args[a]) => flags2 = m_Flags \cup {args[a].name}
          /\ ~IsFlag(args[a]) => flags2 = m_Flags
          /\ GivenBefore(c, args, next, parameters2)
      BY <1>1, <2>1
    <2>3. step.mandatoryOptionIndex \in Nat
      BY LoopFacts
    <2>4. next \in Nat /\ index2 \in Nat
      <3>1. a \in Nat /\ NumValues(c, args[a]) \in Nat
        BY <1>1, <2>1, NumValuesType
      <3> QED BY <2>2, <2>3, <3>1
    <2>5. /\ c \in DOMAIN Commands /\ args \in Seq(Args)
          /\ a \in 1 .. Len(args) /\ GoodHead(c, args, a)
          /\ OnTrack(c, args, a, step.mandatoryOptionIndex, m_Flags,
                     m_UserParameters)
      BY <1>1, <2>1 DEF Tracked
    <2>6. OnTrack(c, args, next, index2, flags2, parameters2)
      BY <2>2, <2>3, <2>4, <2>5, TrackAdvance
    <2> QED BY <2>1, <2>6
  <1>3. Command' = Command
    BY DEF Command
  <1>4. Tracked'
    BY <1>2, <1>3 DEF Tracked
  <1> QED BY <1>4 DEF MeaningInv, AcceptsWellFormed, ParsedAsMeant

\* A flag that the command has is kept; another one ends the loop.
LEMMA ValidateFlagMeaning ==
  ParserInv /\ MeaningInv /\ ValidateFlag => MeaningInv'
  <1> SUFFICES ASSUME ParserInv, MeaningInv, ValidateFlag PROVE MeaningInv'
    OBVIOUS
  <1> DEFINE args == step.line.args
             a == step.argIndex
  <1>1. /\ InLoop /\ IsFlag(CurrArg) /\ CurrArg = args[a]
        /\ UNCHANGED <<m_CurrentCommandName, m_UserParameters>>
    BY DEF ValidateFlag, CurrArg
  <1>2. /\ step \in LoopStep /\ step.at = "validate"
        /\ Command \in DOMAIN Commands
        /\ args \in Seq(Args) /\ a \in 1 .. Len(args)
    BY <1>1, LoopFacts DEF InLoop
  <1>3. ~IsOption(CurrArg) /\ ~IsPlain(CurrArg)
    BY <1>1 DEF IsFlag, IsOption, IsPlain
  <1>4. CASE ~HasFlag(Command, CurrArg.name) /\ Break(FALSE)
    <2>1. ASSUME Tracked PROVE ~WellFormed(Command, args)
      <3>1. ~GoodHead(Command, args, a)
        BY <1>1, <1>4 DEF GoodHead, HasFlag
      <3> QED BY <1>1, <2>1, <3>1, TrackFacts, BadHead
    <2> QED BY <1>1, <1>4, <2>1, BreakMeaning
  <1>5. CASE /\ HasFlag(Command, CurrArg.name)
             /\ m_Flags' = m_Flags \cup {CurrArg.name}
             /\ step' = [step EXCEPT !.argIndex = NextArg(@)]
    <2>1. step' = [step EXCEPT !.argIndex = a + 1]
      BY <1>5 DEF NextArg
    <2>2. /\ step'.at = "validate" /\ step'.line = step.line
          /\ step'.isValid = step.isValid /\ step'.strayed = step.strayed
          /\ step'.argIndex = a + 1
          /\ step'.mandatoryOptionIndex = step.mandatoryOptionIndex
      BY <1>2, <2>1 DEF LoopStep
    <2>3. CASE Doomed(Command, step.line.args, step)
      BY <1>1, <2>2, <2>3, DoomStays
    <2>4. CASE Tracked
      <3>1. GoodHead(Command, args, a)
        BY <1>1, <1>3, <1>5 DEF GoodHead, HasFlag
      <3>2. NumValues(Command, CurrArg) = 0
        BY <1>2, <1>3, NumValuesType
      <3>3. step'.argIndex = a + NumValues(Command, CurrArg) + 1
        BY <1>2, <2>2, <3>2
      <3>4. step'.argIndex <= Len(args) + 1
        BY <1>2, <2>2, LenProperties
      <3>5. \A q : a \notin Givers(Command, args, q)
        BY <1>1, <1>3 DEF Givers
      <3>6. AtHead(Command, args, a) /\ GivenBefore(Command, args, a, m_UserParameters)
        BY <2>4 DEF Tracked, OnTrack
      <3>7. GivenBefore(Command, args, step'.argIndex, m_UserParameters)
        BY <1>1, <1>2, <3>3, <3>5, <3>6, GivenKept
      <3> QED BY <1>1, <1>3, <1>5, <2>2, <2>4, <3>1, <3>3, <3>4, <3>7,
                 TrackMeaning DEF Tracked
    <2> QED BY <1>2, <2>3, <2>4 DEF MeaningInv
  <1> QED BY <1>4, <1>5 DEF ValidateFlag

\* A plain argument is the value of the next mandatory parameter, or ends the
\* loop: with a mandatory parameter left, or as one too many.
LEMMA ValidatePlainMeaning ==
  ParserInv /\ MeaningInv /\ ValidatePlain => MeaningInv'
  <1> SUFFICES ASSUME ParserInv, MeaningInv, ValidatePlain PROVE MeaningInv'
    OBVIOUS
  <1> DEFINE args == step.line.args
             a == step.argIndex
             k == step.mandatoryOptionIndex
             p == ParameterAtIndex(Command, k)
             num == NumMandatoryParameters(Command)
             index(q) == Parameters(Command)[q].inOrderIndex
  <1>1. /\ InLoop /\ IsPlain(CurrArg) /\ CurrArg = args[a]
        /\ UNCHANGED <<m_CurrentCommandName, m_Flags>>
    BY DEF ValidatePlain, CurrArg
  <1>2. /\ step \in LoopStep /\ step.at = "validate"
        /\ Command \in DOMAIN Commands
        /\ args \in Seq(Args) /\ a \in 1 .. Len(args)
        /\ num \in Nat /\ k \in 1 .. num + 1
    BY <1>1, LoopFacts DEF InLoop
  <1>3. ~IsOption(CurrArg) /\ ~IsFlag(CurrArg)
    BY <1>1 DEF IsFlag, IsOption, IsPlain
  <1>4. Tracked => /\ a \in Heads(Command, args)
                   /\ PlainIndex(Command, args, a) = k
    BY <1>1, TrackFacts
  <1>5. CASE k > num /\ Break(FALSE) /\ UNCHANGED m_UserParameters
    <2>1. ASSUME Tracked PROVE ~WellFormed(Command, args)
      <3>1. \A q \in Mandatory(Command) : index(q) \in 1 .. num
        BY <1>2, CliParserAssumption
      <3>2. \A q \in Mandatory(Command) : index(q) # k
        BY <1>2, <1>5, <3>1
      <3>3. ~GoodHead(Command, args, a)
        BY <1>1, <1>4, <2>1, <3>2 DEF GoodHead
      <3> QED BY <1>4, <2>1, <3>3, BadHead
    <2> QED BY <1>1, <1>5, <2>1, BreakMeaning
  <1>6. CASE /\ k <= num /\ Break(TRUE) /\ UNCHANGED m_UserParameters
             /\ ~ValidateArg(CurrArg, Parameters(Command)[p].type)
    <2>1. ASSUME Tracked PROVE ~WellFormed(Command, args)
      <3>1. \A q \in Mandatory(Command) : index(q) = k => q = p
        BY <1>2, <1>6, ParameterAtIndexFound
      <3>2. ~GoodHead(Command, args, a)
        BY <1>1, <1>4, <1>6, <2>1, <3>1 DEF GoodHead
      <3> QED BY <1>4, <2>1, <3>2, BadHead
    <2> QED BY <1>1, <1>6, <2>1, BreakMeaning
  <1>7. CASE /\ k <= num
             /\ ValidateArg(CurrArg, Parameters(Command)[p].type)
             /\ m_UserParameters' = Inserted(m_UserParameters, p, <<CurrArg>>)
             /\ step' = [step EXCEPT !.argIndex = NextArg(@),
                                     !.mandatoryOptionIndex = @ + 1]
    <2>1. step' = [step EXCEPT !.argIndex = a + 1, !.mandatoryOptionIndex = k + 1]
      BY <1>7 DEF NextArg
    <2>2. /\ step'.at = "validate" /\ step'.line = step.line
          /\ step'.isValid = step.isValid /\ step'.strayed = step.strayed
          /\ step'.argIndex = a + 1
          /\ step'.mandatoryOptionIndex = k + 1
      BY <1>2, <2>1 DEF LoopStep
    <2>3. CASE Doomed(Command, step.line.args, step)
      BY <1>1, <2>2, <2>3, DoomStays
    <2>4. CASE Tracked
      <3>1. p \in Mandatory(Command) /\ index(p) = k
        BY <1>2, <1>7, ParameterAtIndexFound
      <3>2. p \in DOMAIN Parameters(Command)
        BY <3>1 DEF Mandatory
      <3>3. \A q \in DOMAIN Parameters(Command) : index(q) = k <=> q = p
        BY <1>2, <3>1, CliParserAssumption
      <3>4. GoodHead(Command, args, a)
        BY <1>1, <1>3, <1>4, <1>7, <2>4, <3>1 DEF GoodHead
      <3>5. NumValues(Command, CurrArg) = 0
        BY <1>2, <1>3, NumValuesType
      <3>6. step'.argIndex = a + NumValues(Command, CurrArg) + 1
        BY <1>2, <2>2, <3>5
      <3>7. step'.argIndex <= Len(args) + 1
        BY <1>2, <2>2, LenProperties
      <3>8. \A q \in DOMAIN Parameters(Command) :
              a \in Givers(Command, args, q) <=> q = p
        BY <1>1, <1>3, <1>4, <2>4, <3>3 DEF Givers
      <3>9. /\ AtHead(Command, args, a)
            /\ GivenBefore(Command, args, a, m_UserParameters)
        BY <2>4 DEF Tracked, OnTrack
      <3>10. ValuesAt(Command, args, a) = <<CurrArg>>
        BY <1>1 DEF ValuesAt
      <3> HIDE DEF p
      <3>11. GivenBefore(Command, args, step'.argIndex, m_UserParameters')
        BY <1>1, <1>2, <1>7, <3>2, <3>6, <3>8, <3>9, <3>10, GivenInserted
      <3> QED BY <1>1, <1>3, <2>2, <2>4, <3>4, <3>6, <3>7, <3>11,
                 TrackMeaning DEF Tracked
    <2> QED BY <1>2, <2>3, <2>4 DEF MeaningInv
  <1> QED BY <1>5, <1>6, <1>7, Zenon DEF ValidatePlain

\* The values that an option is given are all good and in the line exactly if
\* its head is good.
LEMMA OptionValues ==
  ASSUME ParserInv, InLoop, IsOption(CurrArg),
         CurrArg.name \in DOMAIN Parameters(Command),
         NEW strays \in [1 .. Prop.numValues -> Stray]
  PROVE  LET args == step.line.args
             a == step.argIndex
         IN  /\ ~AllGood(strays) \/ ReadsPast(strays) =>
                  ~GoodHead(Command, args, a)
             /\ AllGood(strays) /\ ~ReadsPast(strays) =>
                  /\ GoodHead(Command, args, a)
                  /\ NumRead(strays) = NumValues(Command, CurrArg)
                  /\ a + NumValues(Command, CurrArg) <= Len(args)
                  /\ KeptValues(strays) = Values(Command, args, a)
  <1> DEFINE args == step.line.args
             a == step.argIndex
             n == Prop.numValues
             good == GoodOnes(strays)
             given == GivenValues(strays)
             inLine == SubSeq(args, a + 1, a + n)
             type == Parameters(Command)[CurrArg.name].type
  <1>1. /\ args \in Seq(Args) /\ a \in 1 .. Len(args) /\ Len(args) \in Nat
        /\ Command \in DOMAIN Commands /\ CurrArg = args[a]
    BY LoopFacts, LenProperties DEF CurrArg
  <1>2. /\ n \in Nat \ {0} /\ Cardinality(good) \in 0 .. n
        /\ KeptValues(strays) = SubSeq(given, 1, Cardinality(good))
        /\ AllGood(strays) => Cardinality(good) = n
        /\ AllGood(strays) <=> good = DOMAIN given
    BY ValuesRead DEF KeptValues, AllGood
  <1>0. /\ a \in Nat /\ n \in Nat /\ Len(args) \in Nat
        /\ 1 <= a /\ a <= Len(args) /\ 1 <= n
    BY <1>1, <1>2
  <1>3. n = NumValues(Command, CurrArg) /\ Prop.type = type
    BY <1>1, NumValuesType DEF Prop
  <1>4. ~IsFlag(CurrArg) /\ ~IsPlain(CurrArg)
    BY DEF IsFlag, IsOption, IsPlain
  <1>5. strays \in Seq(Args) /\ Len(strays) = n
    <2>1. strays \in [1 .. n -> Args]
      BY DEF Args
    <2>2. strays \in Seq(Args)
      BY <1>2, <2>1, SeqDef
    <2> QED BY <1>2, <2>1, <2>2, LenProperties
  <1>6. given = SubSeq(args \o strays, a + 1, a + n)
    BY DEF GivenValues, ArgsWith
  <1>7. /\ given \in Seq(Args) /\ Len(given) = n /\ DOMAIN given = 1 .. n
    <2> DEFINE all == args \o strays
    <2>1. all \in Seq(Args) /\ Len(all) = Len(args) + n
      <3>1. args \in Seq(Args) /\ strays \in Seq(Args) /\ Len(strays) = n
        BY <1>1, <1>5
      <3> HIDE DEF args, n
      <3> QED BY <3>1, ConcatProperties
    <2>2. a + 1 \in Int /\ a + n \in Int /\ a + 1 <= a + n
          /\ (a + n) - (a + 1) + 1 = n
      BY <1>1, <1>2
    <2>3. \A i \in a + 1 .. a + n : i \in 1 .. Len(all)
      <3>1. Len(all) = Len(args) + n
        BY <2>1
      <3> HIDE DEF all, args, a, n
      <3> QED BY <1>0, <3>1
    <2>4. \A i \in a + 1 .. a + n : all[i] \in Args
      BY <2>1, <2>3, ElementOfSeq
    <2>5. given = SubSeq(all, a + 1, a + n)
      BY <1>6
    <2> HIDE DEF all, given, args, a, n
    <2>6. /\ SubSeq(all, a + 1, a + n) \in Seq(Args)
          /\ Len(SubSeq(all, a + 1, a + n)) =
               IF a + 1 <= a + n THEN (a + n) - (a + 1) + 1 ELSE 0
      BY <2>2, <2>4, SubSeqProperties
    <2> QED BY <2>2, <2>5, <2>6, LenProperties
  <1>8. good = {i \in 1 .. n : \A k \in 1 .. i : ValidateArg(given[k], type)}
    BY <1>3, <1>7 DEF GoodOnes
  <1>9. ASSUME a + n <= Len(args)
        PROVE  given = inLine /\ \A i \in 1 .. n : given[i] = args[a + i]
    <2>1. a + 1 \in 1 .. Len(args) /\ a + n \in 1 .. Len(args)
      <3> HIDE DEF args, a, n
      <3> QED BY <1>0, <1>9
    <2>2. given = inLine
      BY <1>1, <1>5, <1>6, <2>1, SubSeqOfConcat1
    <2>3. \A i \in a + 1 .. a + n : args[i] \in Args
      BY <1>1, <1>2, <2>1, ElementOfSeq
    <2>4. a + 1 \in Int /\ a + n \in Int
      BY <2>1
    <2>5. \A i \in 1 .. (a + n) - (a + 1) + 1 :
            SubSeq(args, a + 1, a + n)[i] = args[(a + 1) + i - 1]
      <3> HIDE DEF args, a, n
      <3> QED BY <2>3, <2>4, SubSeqProperties
    <2>6. \A i \in 1 .. n : /\ i \in 1 .. (a + n) - (a + 1) + 1
                            /\ (a + 1) + i - 1 = a + i
      <3> HIDE DEF args, a, n
      <3> QED BY <1>0
    <2> QED BY <2>2, <2>5, <2>6
  <1>10. GoodHead(Command, args, a) <=>
           /\ a + n <= Len(args)
           /\ \A i \in 1 .. n : ValidateArg(args[a + i], type)
    BY <1>1, <1>3, <1>4 DEF GoodHead
  <1> HIDE DEF args, a, n, good, given, inLine, type
  <1>11. ~AllGood(strays) => ~GoodHead(Command, args, a)
    <2> SUFFICES ASSUME ~AllGood(strays), a + n <= Len(args)
                 PROVE  \E i \in 1 .. n : ~ValidateArg(args[a + i], type)
      BY <1>10
    <2>1. PICK i \in 1 .. n : \E k \in 1 .. i : ~ValidateArg(given[k], type)
      BY <1>2, <1>7, <1>8
    <2>2. PICK k \in 1 .. i : ~ValidateArg(given[k], type)
      BY <2>1
    <2>3. k \in 1 .. n
      BY <1>2, <2>1
    <2> QED BY <1>9, <2>2, <2>3
  <1>12. NumRead(strays) = Cardinality(good) + IF AllGood(strays) THEN 0 ELSE 1
    BY DEF NumRead, good
  <1>13. NumRead(strays) \in 0 .. n
    <2>1. CASE AllGood(strays)
      BY <1>2, <1>12, <2>1
    <2>2. CASE ~AllGood(strays)
      <3>1. IsFiniteSet(1 .. n) /\ Cardinality(1 .. n) = n
        BY <1>2, FS_Interval
      <3>2. good \in SUBSET (1 .. n) /\ good # 1 .. n
        BY <1>2, <1>7, <1>8, <2>2
      <3>3. Cardinality(good) # n
        BY <3>1, <3>2, FS_Subset
      <3> QED BY <1>2, <1>12, <2>2, <3>3
    <2> QED BY <2>1, <2>2
  <1>14. ReadsPast(strays) <=> a + NumRead(strays) > Len(args)
    BY DEF ReadsPast, a, args
  <1>15. ReadsPast(strays) => ~GoodHead(Command, args, a)
    BY <1>1, <1>2, <1>10, <1>13, <1>14 DEF args, a
  <1>16. ASSUME AllGood(strays), ~ReadsPast(strays)
         PROVE  /\ GoodHead(Command, args, a)
                /\ NumRead(strays) = n /\ a + n <= Len(args)
                /\ KeptValues(strays) = inLine
    <2>1. NumRead(strays) = n /\ Cardinality(good) = n
      BY <1>2, <1>12, <1>16
    <2>2. a + n <= Len(args)
      BY <1>1, <1>2, <1>14, <1>16, <2>1 DEF args, a
    <2>3. \A i \in 1 .. n : ValidateArg(given[i], type)
      BY <1>2, <1>7, <1>8, <1>16
    <2>4. GoodHead(Command, args, a)
      BY <1>9, <1>10, <2>2, <2>3
    <2>5. KeptValues(strays) = given
      BY <1>2, <1>7, <2>1, SubSeqFull
    <2> QED BY <1>9, <2>1, <2>2, <2>4, <2>5
  <1>17. inLine = Values(Command, args, a)
    BY <1>1, <1>3 DEF Values, inLine, args, a
  <1> QED BY <1>3, <1>11, <1>15, <1>16, <1>17 DEF args, a

\* An option is kept with its values, or the line is refused at a value, at the
\* name, or for the values that it lacks.
LEMMA ValidateOptionMeaning ==
  ParserInv /\ MeaningInv /\ ValidateOption => MeaningInv'
  <1> SUFFICES ASSUME ParserInv, MeaningInv, ValidateOption PROVE MeaningInv'
    OBVIOUS
  <1> DEFINE args == step.line.args
             a == step.argIndex
             p == CurrArg.name
  <1>1. /\ InLoop /\ IsOption(CurrArg) /\ CurrArg = args[a]
        /\ UNCHANGED <<m_CurrentCommandName, m_Flags>>
    BY DEF ValidateOption, CurrArg
  <1>2. /\ step \in LoopStep /\ step.at = "validate"
        /\ Command \in DOMAIN Commands
        /\ args \in Seq(Args) /\ a \in 1 .. Len(args) /\ Len(args) \in Nat
    BY <1>1, LoopFacts, LenProperties DEF InLoop
  <1>3. ~IsFlag(CurrArg) /\ ~IsPlain(CurrArg)
    BY <1>1 DEF IsFlag, IsOption, IsPlain
  <1>4. CASE p \notin DOMAIN Parameters(Command) /\ Break(FALSE)
    <2>1. ASSUME Tracked PROVE ~WellFormed(Command, args)
      <3>1. ~GoodHead(Command, args, a)
        BY <1>1, <1>4 DEF GoodHead
      <3> QED BY <1>1, <2>1, <3>1, TrackFacts, BadHead
    <2> QED BY <1>1, <1>4, <2>1, BreakMeaning
  <1>5. CASE step' = [at |-> "off"]
    <2>1. step'.at = "off"
      BY <1>5
    <2> QED BY <2>1 DEF MeaningInv, AcceptsWellFormed, ParsedAsMeant
  <1>6. ASSUME NEW strays \in [1 .. Prop.numValues -> Stray],
               p \in DOMAIN Parameters(Command),
               m_UserParameters' =
                 Inserted(m_UserParameters, p, KeptValues(strays)),
               step' = [step EXCEPT !.argIndex = NextArg(@ + NumRead(strays)),
                                    !.isValid = @ /\ AllGood(strays),
                                    !.strayed = @ \/ ReadsPast(strays)]
        PROVE  MeaningInv'
    <2> DEFINE next == NextArg(a + NumRead(strays))
    <2>1. PICK ok \in BOOLEAN, st \in BOOLEAN :
            /\ ok <=> step.isValid /\ AllGood(strays)
            /\ st <=> step.strayed \/ ReadsPast(strays)
            /\ step' = [step EXCEPT !.argIndex = next, !.isValid = ok,
                                    !.strayed = st]
      <3>1. /\ (step.isValid /\ AllGood(strays)) \in BOOLEAN
            /\ (step.strayed \/ ReadsPast(strays)) \in BOOLEAN
        BY Zenon
      <3> QED BY <1>6, <3>1, Zenon
    <2> HIDE DEF next
    <2>2. /\ step'.at = "validate" /\ step'.line = step.line
          /\ step'.isValid = ok /\ step'.strayed = st
          /\ step'.argIndex = next
          /\ step'.mandatoryOptionIndex = step.mandatoryOptionIndex
      BY <1>2, <2>1 DEF LoopStep
    <2>3. CASE Doomed(Command, step.line.args, step)
      BY <1>1, <2>1, <2>2, <2>3, DoomStays
    <2>4. CASE Tracked /\ (~AllGood(strays) \/ ReadsPast(strays))
      <3>1. ~GoodHead(Command, args, a)
        BY <1>1, <1>6, <2>4, OptionValues
      <3>2. ~WellFormed(Command, args)
        BY <1>1, <2>4, <3>1, TrackFacts, BadHead
      <3>3. Doomed(Command, args, step')
        BY <2>1, <2>2, <2>4, <3>2 DEF Doomed
      <3>4. Command' = Command
        BY <2>2 DEF Command
      <3>5. Doomed(Command, step.line.args, step)'
        BY <2>2, <3>3, <3>4
      <3> QED BY <2>2, <3>5 DEF MeaningInv, AcceptsWellFormed, ParsedAsMeant
    <2>5. CASE Tracked /\ AllGood(strays) /\ ~ReadsPast(strays)
      <3> DEFINE n == NumValues(Command, CurrArg)
      <3>1. /\ GoodHead(Command, args, a)
            /\ NumRead(strays) = n /\ a + n <= Len(args)
            /\ KeptValues(strays) = Values(Command, args, a)
        BY <1>1, <1>6, <2>5, OptionValues
      <3>2. n \in Nat
        BY <1>2, NumValuesType
      <3>3. next = a + n + 1
        BY <3>1 DEF next, NextArg
      <3>4. next <= Len(args) + 1
        BY <1>2, <3>1, <3>2, <3>3
      <3>5. \A q : a \in Givers(Command, args, q) <=> q = p
        BY <1>1, <1>3, <2>5, TrackFacts DEF Givers
      <3>6. /\ AtHead(Command, args, a)
            /\ GivenBefore(Command, args, a, m_UserParameters)
        BY <2>5 DEF Tracked, OnTrack
      <3>7. ValuesAt(Command, args, a) = KeptValues(strays)
        BY <1>1, <1>3, <3>1 DEF ValuesAt
      <3>8. GivenBefore(Command, args, next, m_UserParameters')
        BY <1>1, <1>2, <1>6, <3>3, <3>5, <3>6, <3>7, GivenInserted
      <3>9. step'.isValid /\ ~step'.strayed
        BY <2>1, <2>2, <2>5 DEF Tracked
      <3> QED BY <1>1, <1>3, <2>2, <2>5, <3>1, <3>3, <3>4, <3>8, <3>9,
                 TrackMeaning
    <2> QED BY <1>2, <2>3, <2>4, <2>5 DEF MeaningInv
  <1> QED BY <1>4, <1>5, <1>6, Zenon DEF ValidateOption

\* At the end of its line the parser has seen every head.
LEMMA TrackEnd ==
  ASSUME NEW c \in DOMAIN Commands, NEW args \in Seq(Args),
         NEW a, NEW index, NEW flags, NEW parameters, NEW S,
         OnTrack(c, args, a, index, flags, parameters), a > Len(args),
         parameters \in [DOMAIN parameters -> S]
  PROVE  /\ index = Cardinality(PlainHeads(c, args)) + 1
         /\ Cardinality(PlainHeads(c, args)) \in Nat
         /\ WellFormed(c, args) <=>
              Cardinality(PlainHeads(c, args)) = NumMandatoryParameters(c)
         /\ flags = {args[h].name :
                       h \in {g \in Heads(c, args) : IsFlag(args[g])}}
         /\ parameters = Meaning(c, args)
  <1>1. /\ Heads(c, args) \subseteq 1 .. Len(args) /\ Len(args) \in Nat
        /\ a \in 1 .. Len(args) + 1
    BY HeadsSolve, LenProperties DEF OnTrack
  <1>2. \A h \in Heads(c, args) : h < a /\ h \in Nat
    BY <1>1
  <1>3. HeadsBefore(c, args, a) = Heads(c, args)
    BY <1>2 DEF HeadsBefore
  <1>4. PlainBefore(c, args, a) = PlainHeads(c, args)
    BY <1>3 DEF PlainBefore, PlainHeads
  <1>5. Cardinality(PlainHeads(c, args)) \in Nat
    BY <1>4, PlainFinite
  <1>6. \A h \in Heads(c, args) : GoodHead(c, args, h)
    BY <1>3 DEF OnTrack
  <1>7. WellFormed(c, args) <=>
          Cardinality(PlainHeads(c, args)) = NumMandatoryParameters(c)
    BY <1>6 DEF WellFormed, GoodHead, PlainHeads
  <1>8. flags = {args[h].name : h \in {g \in Heads(c, args) : IsFlag(args[g])}}
    BY <1>3 DEF OnTrack, FlagsBefore
  <1>9. DOMAIN parameters =
          {q \in DOMAIN Parameters(c) : Givers(c, args, q) # {}}
    <2>1. \A q : \A h \in Givers(c, args, q) : h < a
      BY <1>2 DEF Givers
    <2>2. DOMAIN parameters =
            {q \in DOMAIN Parameters(c) : \E h \in Givers(c, args, q) : h < a}
      BY DEF OnTrack, GivenBefore
    <2> QED BY <2>1, <2>2
  <1>10. ASSUME NEW q \in DOMAIN parameters
         PROVE  parameters[q] = Meaning(c, args)[q]
    <2>1. PICK h \in Givers(c, args, q) :
            /\ \A g \in Givers(c, args, q) : h <= g
            /\ parameters[q] = ValuesAt(c, args, h)
      BY DEF OnTrack, GivenBefore
    <2>2. Givers(c, args, q) \subseteq Nat
      BY <1>2 DEF Givers
    <2>3. FirstOf(Givers(c, args, q)) = h
      <3>1. /\ FirstOf(Givers(c, args, q)) \in Givers(c, args, q)
            /\ \A g \in Givers(c, args, q) : FirstOf(Givers(c, args, q)) <= g
        BY <2>1 DEF FirstOf
      <3>2. FirstOf(Givers(c, args, q)) <= h /\ h <= FirstOf(Givers(c, args, q))
        BY <2>1, <3>1
      <3>3. FirstOf(Givers(c, args, q)) \in Nat /\ h \in Nat
        BY <2>2, <3>1
      <3> QED BY <3>2, <3>3
    <2>4. q \in {r \in DOMAIN Parameters(c) : Givers(c, args, r) # {}}
      BY <1>9
    <2>5. Meaning(c, args)[q] = ValuesAt(c, args, FirstOf(Givers(c, args, q)))
      BY <2>4 DEF Meaning, ValuesAt
    <2> QED BY <2>1, <2>3, <2>5
  <1>11. parameters = Meaning(c, args)
    BY <1>9, <1>10 DEF Meaning
  <1> QED BY <1>4, <1>5, <1>7, <1>8, <1>11 DEF OnTrack

\* Validate accepts a line that has kept to its track and has all its mandatory
\* arguments, and no other one.
LEMMA ValidateEndMeaning ==
  ParserInv /\ MeaningInv /\ ValidateEnd => MeaningInv'
  <1> SUFFICES ASSUME ParserInv, MeaningInv, ValidateEnd PROVE MeaningInv'
    OBVIOUS
  <1> DEFINE args == step.line.args
             num == NumMandatoryParameters(Command)
             k == step.mandatoryOptionIndex
  <1>1. /\ step.at = "validate" /\ step.argIndex > Len(args)
        /\ step' = [at |-> IF AllMandatory /\ step.isValid THEN "accepted"
                           ELSE "rejected",
                    line |-> step.line, strayed |-> step.strayed]
        /\ UNCHANGED <<m_CurrentCommandName, m_Flags, m_UserParameters>>
    BY DEF ValidateEnd
  <1>2. step \in LoopStep
    BY <1>1 DEF ParserInv, StepOK, Prompt, LineStep
  <1>3. /\ Command \in DOMAIN Commands /\ k <= num + 1
        /\ k \in Nat \ {0} /\ num \in Nat /\ args \in Seq(Args)
    BY <1>1, <1>2, CountType, CliParserAssumption
       DEF ParserInv, StepOK, LoopStep
  <1>4. /\ step'.line = step.line /\ step'.strayed = step.strayed
        /\ step'.at = "accepted" => AllMandatory /\ step.isValid
        /\ step'.at = "rejected" => ~AllMandatory \/ ~step.isValid
        /\ step'.at # "validate"
    BY <1>1
  <1>5. Command' = Command
    BY <1>4 DEF Command
  <1>6. AllMandatory <=> k - 1 >= num
    BY DEF AllMandatory
  <1>7. CASE Tracked
    <2>1. PICK S : m_UserParameters \in [DOMAIN m_UserParameters -> S]
      BY DEF ParserInv, KeptOK
    <2>2. OnTrack(Command, args, step.argIndex, k, m_Flags, m_UserParameters)
      BY <1>7 DEF Tracked
    <2>3. /\ k = Cardinality(PlainHeads(Command, args)) + 1
          /\ Cardinality(PlainHeads(Command, args)) \in Nat
          /\ WellFormed(Command, args) <=>
               Cardinality(PlainHeads(Command, args)) = num
          /\ m_Flags = {args[h].name :
                          h \in {g \in Heads(Command, args) : IsFlag(args[g])}}
          /\ m_UserParameters = Meaning(Command, args)
      BY <1>1, <1>3, <2>1, <2>2, TrackEnd
    <2>4. WellFormed(Command, args) <=> AllMandatory
      BY <1>3, <1>6, <2>3
    <2>5. AcceptsWellFormed'
      BY <1>4, <1>5, <1>7, <2>4 DEF AcceptsWellFormed, Tracked
    <2>6. ParsedAsMeant'
      BY <1>1, <1>4, <1>5, <2>3 DEF ParsedAsMeant
    <2> QED BY <1>4, <2>5, <2>6 DEF MeaningInv
  <1>8. CASE Doomed(Command, args, step)
    <2>1. ~WellFormed(Command, args)
      BY <1>8 DEF Doomed
    <2>2. AllMandatory /\ step.isValid => step.strayed
      BY <1>3, <1>6, <1>8 DEF Doomed
    <2>3. step'.at = "accepted" => step'.strayed
      BY <1>4, <2>2
    <2>4. AcceptsWellFormed'
      BY <1>4, <1>5, <2>1, <2>3 DEF AcceptsWellFormed
    <2>5. ParsedAsMeant'
      BY <2>3 DEF ParsedAsMeant
    <2> QED BY <1>4, <2>4, <2>5 DEF MeaningInv
  <1> QED BY <1>1, <1>7, <1>8 DEF MeaningInv

LEMMA NextLineMeaning == NextLine => MeaningInv'
  <1> SUFFICES ASSUME NextLine PROVE MeaningInv'
    OBVIOUS
  <1>1. step'.at = "prompt"
    BY DEF NextLine, Prompt
  <1> QED BY <1>1 DEF MeaningInv, AcceptsWellFormed, ParsedAsMeant

LEMMA NextMeaning == ParserInv /\ MeaningInv /\ [Next]_vars => MeaningInv'
  <1> SUFFICES ASSUME ParserInv, MeaningInv, [Next]_vars PROVE MeaningInv'
    OBVIOUS
  <1>1. CASE Parse
    BY <1>1, ParseMeaning
  <1>2. CASE Validate
    BY <1>2, ValidateFlagMeaning, ValidateOptionMeaning, ValidatePlainMeaning,
       ValidateEndMeaning DEF Validate
  <1>3. CASE NextLine
    BY <1>3, NextLineMeaning
  <1>4. CASE UNCHANGED vars
    BY <1>4 DEF vars, MeaningInv, Tracked, AcceptsWellFormed, ParsedAsMeant,
                Command
  <1> QED BY <1>1, <1>2, <1>3, <1>4 DEF Next, ParseStep

LEMMA MeaningInvariant == Spec => []MeaningInv
  BY InitInv, NextInv, InitMeaning, NextMeaning, PTL DEF Spec

\* Of any command and any line, the parser accepts what the grammar calls well
\* formed and rejects everything else, except that it may accept a line whose
\* last option lacks a value.
THEOREM ParserAcceptsWellFormed == Spec => []AcceptsWellFormed
  <1>1. MeaningInv => AcceptsWellFormed
    BY DEF MeaningInv
  <1> QED BY <1>1, MeaningInvariant, PTL

\* What a handler reads after its line is accepted is what the line says: its
\* flags, the values of each parameter from the first argument that gives any,
\* and nothing of an earlier line.
THEOREM ParserMeansTheLine == Spec => []ParsedAsMeant
  <1>1. MeaningInv => ParsedAsMeant
    BY DEF MeaningInv
  <1> QED BY <1>1, MeaningInvariant, PTL
=============================================================================
