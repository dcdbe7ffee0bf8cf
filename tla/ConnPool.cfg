SPECIFICATION PoolSpec
\* Goroutines call Get finitely often, and then nothing more happens.
CHECK_DEADLOCK FALSE
CONSTANTS
  NULL = NULL
  Proc = {p1, p2, reaper, closer}
  Reaper = reaper
  Closer = closer
  Conn = {c1, c2, c3, c4, c5, c6}
  PoolSize = 2
  MaxFails = 1
  MaxGets = 3
INVARIANTS PoolTypeOK SlotsAddUp NeverStuck NothingLeaks
PROPERTIES ImplementsPool EveryGetReturns
