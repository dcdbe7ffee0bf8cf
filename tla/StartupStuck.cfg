SPECIFICATION Spec
\* When every start is used up and all is sold, nothing more happens.
CHECK_DEADLOCK FALSE
CONSTANTS
  f1 = f1
  f2 = f2
  NULL = NULL
  Server = {s1, s2}
  FoodRows <- MCFoodRows
  InitStock <- MCInitStock
  InitMark <- MCInitMark
  MaxRetries = 1
  MaxStarts = 4
  MaxCrashes = 1
  MaxErrors = 0
  MaxCuts = 0
PROPERTIES WaitersServe
