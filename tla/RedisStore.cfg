SPECIFICATION RedisSpec
CONSTANTS
  f1 = f1
  f2 = f2
  Food = {f1, f2}
  User = {u1, u2}
  Token = {t1, t2}
  Cart = {c1, c2}
  OrderId = {o1, o2}
  NULL = NULL
  InitStock <- MCInitStock
  Counts <- MCCounts
  LineFloor <- MCLineFloor
SYMMETRY Symmetry
INVARIANTS TypeOK NoOversell AdminAgreesWithUsers StockConserved WithinLimit
PROPERTIES OrdersFrozen ImplementsSale
