\* Two reminders, added and looked at on days of two years, with kills.
CONSTANTS
  Commands <- SomeCommands
  Lines <- SomeLines
  Stray <- Past
  Calendar <- SomeDays
  MaxRow = 2
SPECIFICATION ProgramLiveSpec
INVARIANTS
  RemindersOK
  NoReminderStopsAStart
PROPERTIES
  ImplementsDiary
  StoredAsTyped
  BackAtConsole
