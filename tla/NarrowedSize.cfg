SPECIFICATION Spec
CONSTANTS
  Arguments <- LargeArguments
  MaxArguments = 3
  IntBits = 4
  LongBits = 8
  ScriptRuns = 2
  MaxSaved = 2
INVARIANT
  CacheSizeIsObeyed
CHECK_DEADLOCK FALSE
