SPECIFICATION PoolSpec
\* Goroutines call Get finitely often, and then nothing more happens.
CHECK_DEADLOCK FALSE
CONSTANTS
  NULL = NULL
  Proc = {p1, p2, reaper}
  Reaper = reaper
  Closer = NULL
  Conn = {c1, c2, c3, c4, c5, c6}
  PoolSize = 1
  MaxFails = 0
  MaxGets = 3
INVARIANTS WaitsOnlyIfBusy
