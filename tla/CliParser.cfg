\* Every line of up to four words of four commands. A line may end the process.
CONSTANTS
  Commands <- SomeCommands
  Lines <- SomeLines
  Stray <- Past
CHECK_DEADLOCK FALSE
SPECIFICATION LiveSpec
INVARIANTS
  TypeOK
  AcceptsWellFormed
  ParsedAsMeant
  HandlersFindValues
PROPERTIES
  ParseEnds
