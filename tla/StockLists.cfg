SPECIFICATION ListsSpec
CONSTANTS
  Server = {s1, s2}
  f1 = f1
  f2 = f2
  Food = {f1, f2}
  NoList = NoList
  MaxSales = 2
  MaxFails = 1
  MaxCrashes = 1
  Buyer = {u1, u2}
  LToken = {t1, t2}
  LCart = {c1, c2}
  LOrder = {o1, o2}
  LFood = {f1, f2}
  None = None
  OpeningStock <- MCOpening
  LCounts <- MCCounts
  LineBound = 0
INVARIANTS ListsAreSnapshots IndexesAgree LegacyOrdersAgree
PROPERTIES ListsAdvance EventuallyShown LegacyImplementsSale
