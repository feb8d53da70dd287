------------------------------ MODULE CliParser ------------------------------
(***************************************************************************)
(* The parser of the command line (CLIParser/), a singleton that keeps the *)
(* command, the flags and the parameters of the line it has parsed last    *)
(* until the handler reads them (AsJson).  cliConfig.json gives it the     *)
(* commands.  An argument is what the parser can tell of a text: the       *)
(* number of dashes before it, the name behind them, and the tests of      *)
(* CLIParser/Utils.cpp that the text passes.                               *)
(***************************************************************************)
EXTENDS Naturals, Sequences, FiniteSets

CONSTANTS
  Commands,  \* name -> its flags and its parameters, each with its type,
             \* whether it is mandatory, its inOrderIndex and its numValues
  Lines,     \* what the user types: a command name and arguments
  Stray      \* what may be read where there is no argument

Parameters(c) == Commands[c].parameters
Mandatory(c) == {p \in DOMAIN Parameters(c) : Parameters(c)[p].isMandatory}
NumMandatoryParameters(c) == Cardinality(Mandatory(c))

\* The arguments that the parser may meet.
Args ==
  Stray \cup UNION {{line.args[i] : i \in DOMAIN line.args} : line \in Lines}

\* In cliConfig.json the mandatory parameters of a command have the indexes from
\* 1 on, which no other one has, and take one value.
ASSUME CliParserAssumption ==
  /\ \A c \in DOMAIN Commands :
       /\ IsFiniteSet(Mandatory(c))
       /\ {Parameters(c)[p].inOrderIndex : p \in Mandatory(c)} =
            1 .. NumMandatoryParameters(c)
       /\ \A p \in Mandatory(c) :
            /\ Parameters(c)[p].numValues = 1
            /\ \A q \in DOMAIN Parameters(c) :
                 Parameters(c)[q].inOrderIndex = Parameters(c)[p].inOrderIndex
                   => p = q
       /\ \A p \in DOMAIN Parameters(c) : Parameters(c)[p].numValues \in Nat \ {0}
  /\ \A line \in Lines : line.args \in Seq(Args)

VARIABLES
  m_CurrentCommandName, m_Flags, m_UserParameters,
  step       \* where Parse is, in which line

vars == <<m_CurrentCommandName, m_Flags, m_UserParameters, step>>

NoParameters == [p \in {} |-> <<>>]

Prompt == [at |-> "prompt"]

Init ==
  /\ m_CurrentCommandName = "" /\ m_Flags = {}
  /\ m_UserParameters = NoParameters
  /\ step = Prompt

IsFlag(arg) == arg.dashes = 2
IsOption(arg) == arg.dashes = 1
IsPlain(arg) == arg.dashes = 0

TakesAnyFlag(c, flag) == TRUE
HasFlag(c, flag) == flag \in Commands[c].flags

\* ValidCommand::GetParameterAtIndex
ParameterAtIndex(c, k) ==
  CHOOSE p \in DOMAIN Parameters(c) : Parameters(c)[p].inOrderIndex = k

\* The cases of ValidateArg, each of which runs into the next one.
Cases == <<"double", "alphaNumeric", "integer", "date">>

ValidateArg(arg, type) ==
  \/ type = "text"
  \/ \E i \in DOMAIN Cases : \E k \in i .. Len(Cases) :
       Cases[i] = type /\ Cases[k] \in arg.passes

\* unordered_map::insert leaves the value of a key that is there.
Inserted(parameters, p, values) ==
  [q \in DOMAIN parameters \cup {p} |->
    IF q \in DOMAIN parameters THEN parameters[q] ELSE values]

NotCleared ==
  UNCHANGED <<m_Flags, m_UserParameters>>
Clear ==
  m_Flags' = {} /\ m_UserParameters' = NoParameters

\* Parse up to the loop of Validate.  A line without a word is not parsed.
Parse ==
  /\ step = Prompt
  /\ \E line \in Lines :
       /\ Clear /\ m_CurrentCommandName' = line.command
       /\ step' = IF line.command \notin DOMAIN Commands
                  THEN [at |-> "rejected", line |-> line, strayed |-> FALSE]
                  ELSE [at |-> "validate", line |-> line, argIndex |-> 1,
                        mandatoryOptionIndex |-> 1, isValid |-> TRUE,
                        strayed |-> FALSE]

CurrArg == step.line.args[step.argIndex]
InLoop == step.at = "validate" /\ step.argIndex <= Len(step.line.args)
Command == step.line.command

\* The ++argIndex at the foot of the loop.
SameArg(i) == i
NextArg(i) == i + 1

\* break out of the loop
Break(isValid) ==
  step' = [step EXCEPT !.argIndex = Len(step.line.args) + 1,
                       !.isValid = @ /\ isValid]

ValidateFlag ==
  /\ InLoop /\ IsFlag(CurrArg)
  /\ \/ /\ ~HasFlag(Command, CurrArg.name)
        /\ Break(FALSE)
        /\ UNCHANGED m_Flags
     \/ /\ HasFlag(Command, CurrArg.name)
        /\ m_Flags' = m_Flags \cup {CurrArg.name}
        /\ step' = [step EXCEPT !.argIndex = NextArg(@)]
  /\ UNCHANGED <<m_CurrentCommandName, m_UserParameters>>

\* The arguments of the line, and what lies behind the end of the vector.
ArgsWith(strays) == step.line.args \o strays

Prop == Parameters(Command)[CurrArg.name]

\* The numValues arguments behind the option, those of them before the first that
\* fails its test, and how many the inner loop has read.
GivenValues(strays) ==
  SubSeq(ArgsWith(strays), step.argIndex + 1, step.argIndex + Prop.numValues)
GoodOnes(strays) ==
  {i \in DOMAIN GivenValues(strays) :
    \A k \in 1 .. i : ValidateArg(GivenValues(strays)[k], Prop.type)}
AllGood(strays) == GoodOnes(strays) = DOMAIN GivenValues(strays)
KeptValues(strays) ==
  SubSeq(GivenValues(strays), 1, Cardinality(GoodOnes(strays)))
NumRead(strays) ==
  Cardinality(GoodOnes(strays)) + IF AllGood(strays) THEN 0 ELSE 1
ReadsPast(strays) == step.argIndex + NumRead(strays) > Len(step.line.args)

\* args[argIndex] past the end of the vector is undefined: some text, or the
\* end of the process.
ValidateOption ==
  /\ InLoop /\ IsOption(CurrArg)
  /\ \/ /\ CurrArg.name \notin DOMAIN Parameters(Command)
        /\ Break(FALSE)
        /\ UNCHANGED m_UserParameters
     \/ /\ CurrArg.name \in DOMAIN Parameters(Command)
        /\ \E strays \in [1 .. Prop.numValues -> Stray] :
             \/ /\ m_UserParameters' =
                     Inserted(m_UserParameters, CurrArg.name, KeptValues(strays))
                /\ step' = [step EXCEPT
                              !.argIndex = NextArg(@ + NumRead(strays)),
                              !.isValid = @ /\ AllGood(strays),
                              !.strayed = @ \/ ReadsPast(strays)]
             \/ /\ ReadsPast(strays)
                /\ step' = [at |-> "off"]
                /\ UNCHANGED m_UserParameters
  /\ UNCHANGED <<m_CurrentCommandName, m_Flags>>

ValidatePlain ==
  /\ InLoop /\ IsPlain(CurrArg)
  /\ LET k == step.mandatoryOptionIndex
         p == ParameterAtIndex(Command, k)
     IN  \/ /\ k > NumMandatoryParameters(Command)
            /\ Break(FALSE)
            /\ UNCHANGED m_UserParameters
         \/ /\ k <= NumMandatoryParameters(Command)
            /\ ~ValidateArg(CurrArg, Parameters(Command)[p].type)
            /\ Break(TRUE)
            /\ UNCHANGED m_UserParameters
         \/ /\ k <= NumMandatoryParameters(Command)
            /\ ValidateArg(CurrArg, Parameters(Command)[p].type)
            /\ m_UserParameters' = Inserted(m_UserParameters, p, <<CurrArg>>)
            /\ step' = [step EXCEPT !.argIndex = NextArg(@),
                                    !.mandatoryOptionIndex = @ + 1]
  /\ UNCHANGED <<m_CurrentCommandName, m_Flags>>

AlmostAllMandatory ==
  step.mandatoryOptionIndex >= NumMandatoryParameters(Command)
AllMandatory ==
  step.mandatoryOptionIndex - 1 >= NumMandatoryParameters(Command)

\* Validate returns.
ValidateEnd ==
  /\ step.at = "validate" /\ step.argIndex > Len(step.line.args)
  /\ step' = [at |-> IF AllMandatory /\ step.isValid THEN "accepted"
                     ELSE "rejected",
              line |-> step.line, strayed |-> step.strayed]
  /\ UNCHANGED <<m_CurrentCommandName, m_Flags, m_UserParameters>>

\* The handler has read AsJson, or the usage was printed.
NextLine ==
  /\ step.at \in {"accepted", "rejected"}
  /\ step' = Prompt
  /\ UNCHANGED <<m_CurrentCommandName, m_Flags, m_UserParameters>>

Validate == ValidateFlag \/ ValidateOption \/ ValidatePlain \/ ValidateEnd

ParseStep == Validate \/ NextLine

Next == Parse \/ ParseStep

Spec == Init /\ [][Next]_vars

\* Parse runs on its own.
LiveSpec == Spec /\ WF_vars(ParseStep)
-----------------------------------------------------------------------------
(***************************************************************************)
(* What the parser promises, by the grammar of its documentation: flags    *)
(* --flag, options -key value and plain arguments in their order.          *)
(***************************************************************************)
NumValues(c, arg) ==
  IF IsOption(arg) /\ arg.name \in DOMAIN Parameters(c)
  THEN Parameters(c)[arg.name].numValues ELSE 0

\* The arguments that are no value of an option before them.
Heads(c, args) ==
  CHOOSE H \in SUBSET DOMAIN args :
    \A i \in DOMAIN args :
      i \in H <=>
        ~\E h \in H : h < i /\ i <= h + NumValues(c, args[h])

Values(c, args, h) == SubSeq(args, h + 1, h + NumValues(c, args[h]))

PlainHeads(c, args) == {h \in Heads(c, args) : IsPlain(args[h])}
PlainIndex(c, args, h) == Cardinality({g \in PlainHeads(c, args) : g <= h})

\* The arguments make a line of the command.
WellFormed(c, args) ==
  /\ \A h \in Heads(c, args) :
       /\ IsFlag(args[h]) => args[h].name \in Commands[c].flags
       /\ IsOption(args[h]) =>
            /\ args[h].name \in DOMAIN Parameters(c)
            /\ h + NumValues(c, args[h]) <= Len(args)
            /\ \A i \in 1 .. NumValues(c, args[h]) :
                 ValidateArg(args[h + i], Parameters(c)[args[h].name].type)
  /\ Cardinality(PlainHeads(c, args)) = NumMandatoryParameters(c)
  /\ \A h \in PlainHeads(c, args) : \E p \in Mandatory(c) :
       /\ Parameters(c)[p].inOrderIndex = PlainIndex(c, args, h)
       /\ ValidateArg(args[h], Parameters(c)[p].type)

\* The arguments that give p a value, of which the first one counts.
Givers(c, args, p) ==
  {h \in Heads(c, args) :
     \/ IsOption(args[h]) /\ args[h].name = p
     \/ /\ IsPlain(args[h])
        /\ Parameters(c)[p].inOrderIndex = PlainIndex(c, args, h)}

FirstOf(S) == CHOOSE h \in S : \A g \in S : h <= g

Meaning(c, args) ==
  [p \in {q \in DOMAIN Parameters(c) : Givers(c, args, q) # {}} |->
    LET h == FirstOf(Givers(c, args, p)) IN
    IF IsPlain(args[h]) THEN <<args[h]>> ELSE Values(c, args, h)]
-----------------------------------------------------------------------------
\* Parse is at an argument of its line, past them or at no line, and keeps
\* flags and parameters that the current command has.
TypeOK ==
  /\ step.at \in {"prompt", "validate", "accepted", "rejected", "off"}
  /\ step.at = "validate" =>
       /\ Command \in DOMAIN Commands /\ step.argIndex \in Nat \ {0}
       /\ step.mandatoryOptionIndex \in 1 .. NumMandatoryParameters(Command) + 1
  /\ m_CurrentCommandName \in DOMAIN Commands =>
       /\ m_Flags \subseteq Commands[m_CurrentCommandName].flags
       /\ DOMAIN m_UserParameters \subseteq
            DOMAIN Parameters(m_CurrentCommandName)

\* A line is accepted exactly if it is well formed, as long as none of its
\* options lacks a value.
AcceptsWellFormed ==
  /\ step.at = "accepted" /\ ~step.strayed =>
       WellFormed(Command, step.line.args)
  /\ step.at = "rejected" /\ Command \in DOMAIN Commands =>
       ~WellFormed(Command, step.line.args)

\* What a handler is given is what this line says and nothing of an earlier
\* one: its flags, and for every parameter the values behind the first
\* argument that names it.
ParsedAsMeant ==
  step.at = "accepted" /\ ~step.strayed =>
    /\ m_Flags = {step.line.args[h].name :
                    h \in {g \in Heads(Command, step.line.args) :
                             IsFlag(step.line.args[g])}}
    /\ m_UserParameters = Meaning(Command, step.line.args)

\* A handler may take front() of every mandatory parameter, and at(0) and
\* at(1) of a range, also when a value was read past the end of the line.
HandlersFindValues ==
  step.at = "accepted" =>
    /\ Mandatory(Command) \subseteq DOMAIN m_UserParameters
    /\ \A p \in DOMAIN m_UserParameters :
         Len(m_UserParameters[p]) = Parameters(Command)[p].numValues

\* Every line is answered, or ends the process.
ParseEnds == step.at = "validate" ~> step.at \in {"accepted", "rejected", "off"}
=============================================================================
