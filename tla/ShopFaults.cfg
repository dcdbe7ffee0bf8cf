SPECIFICATION WarmFairSpec
\* Clients send finitely many requests, and then nothing more happens.
CHECK_DEADLOCK FALSE
CONSTANTS
  f1 = f1
  f2 = f2
  u1 = u1
  u2 = u2
  t1 = t1
  t2 = t2
  t3 = t3
  t4 = t4
  c1 = c1
  c2 = c2
  c3 = c3
  NULL = NULL
  Food = {f1, f2}
  User = {u1, u2}
  Token = {t1, t2, t3, t4, t5, t6}
  Cart = {c1, c2, c3, c4, c5}
  OrderId = {o1, o2}
  Server = {s1, s2}
  Proc = {p1, p2}
  MaxRetries = 1
  MaxFaults = 2
  InitStock <- MCInitStock
  LineFloor <- MCLineFloor
  MadeUp <- Inventions
  StartUsers <- TwoUsers
  StartCarts <- TwoCarts
  StartLines <- TwoLines
  Requests <- EveryKind
  Counts <- FaultCounts
INVARIANTS AnsweredOrdersStand CachesAgree
PROPERTIES UsesRedis EveryRequestEnds
