SPECIFICATION ConnectionsSpec
CONSTANTS
  UsedMethods <- AllButHoles
  PipeMethods <- Some
  LocationFields <- AllFields
  ScriptErrors = FALSE
  ReadTimeout = TRUE
  Mishaps = {"multiFunction"}
  MaxRetries = 2
  MaxFaults = 3
  SequenceMod = 5
  MaxRows = 1
  MaxLeft = 1
  Dsns <- MCDsns
INVARIANTS OwnReplies RepliesUnderstood NothingPending
INVARIANTS AllRowsOrError InSequence StreamIsEmpty NoWaitInVain NothingWrittenClosed
