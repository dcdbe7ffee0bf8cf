SPECIFICATION ConnSpec
CONSTANTS
  UsedMethods <- Some
  PipeMethods <- Some
  LocationFields <- AllFields
  ScriptErrors = FALSE
  ReadTimeout = TRUE
  Mishaps = {"multiRejected"}
  MaxRetries = 2
  MaxFaults = 3
INVARIANT NothingPending
