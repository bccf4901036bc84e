SPECIFICATION Spec
CONSTANTS
  Arguments <- SmallArguments
  MaxArguments = 4
  IntBits = 4
  LongBits = 8
  ScriptRuns = 2
  MaxSaved = 2
INVARIANTS
  OptionsAreObeyed
  SavedPagesArePresent
  DatabasesEndOnce
CHECK_DEADLOCK FALSE
