-------------------------- MODULE RedisStoreProofs --------------------------
(***************************************************************************)
(* What RedisStore guarantees for every set of users, tokens, carts and    *)
(* foods, for every opening stock and for every count clients send.        *)
(***************************************************************************)
EXTENDS RedisStore, HashTheorems, TLAPS

(* The two indexes place_order.lua writes, user:<u>:order and order:user,  *)
(* are inverse to each other.  Neither AdminAgreesWithUsers nor            *)
(* OrdersFrozen is inductive without it.                                   *)
IndexesAgree ==
  /\ \A u \in User : userOrder[u] # NULL => orderUser[userOrder[u]] = u
  /\ \A o \in OrderId : orderUser[o] # NULL => userOrder[orderUser[o]] = o

IInv == TypeOK /\ NoOversell /\ IndexesAgree

-----------------------------------------------------------------------------
(* Hashes.                                                                 *)

\* HINCRBY of a field of F keeps a hash a hash over F.
LEMMA HIncrByIsHash ==
  ASSUME NEW F, NEW h, IsHash(h, F), NEW f \in F, NEW n \in Int
  PROVE  IsHash(HIncrBy(h, f, n), F)
<1>1. Line(h, f) + n \in Int
  BY DEF IsHash, Line
<1> QED
  BY <1>1 DEF IsHash, HIncrBy, HSet

\* Writing one key of a map of hashes with a hash keeps it such a map.
LEMMA ExceptIsHashMap ==
  ASSUME NEW K, NEW F, NEW m, IsHashMap(m, K, F), NEW k \in K,
         NEW h, IsHash(h, F)
  PROVE  IsHashMap([m EXCEPT ![k] = h], K, F)
<1> DEFINE m2 == [m EXCEPT ![k] = h]
<1>1. m2 = [j \in K |-> m2[j]]
  BY DEF IsHashMap
<1>2. \A j \in K : IsHash(m2[j], F)
  BY DEF IsHashMap
<1> QED
  BY <1>1, <1>2 DEF IsHashMap

\* Taking items from a stock in which they all are leaves nothing negative.
LEMMA TakeInStock ==
  ASSUME NEW F, NEW h \in [F -> Int], NEW items, IsHash(items, F),
         \A f \in F : h[f] >= 0,
         \A f \in DOMAIN items : h[f] - items[f] >= 0
  PROVE  /\ Take(h, items) \in [F -> Int]
         /\ \A f \in F : Take(h, items)[f] >= 0
<1>1. \A f \in F : h[f] - Line(items, f) \in Int /\ h[f] - Line(items, f) >= 0
  BY DEF IsHash, Line
<1> QED
  BY <1>1 DEF Take

-----------------------------------------------------------------------------
(* The inductive invariant.                                                *)

\* The keys Redis starts with, the stock copied from MySQL among them.
LEMMA InitIInv == RedisInit => IInv
<1> SUFFICES ASSUME RedisInit PROVE IInv
  OBVIOUS
<1> USE StoreAssumption DEF RedisInit
<1>1. IsHash(EmptyHash, Food)
  BY DEF IsHash, EmptyHash
<1>2. TypeOK
  BY <1>1 DEF TypeOK, IsHashMap
<1>3. NoOversell /\ IndexesAgree
  BY DEF NoOversell, IndexesAgree
<1> QED
  BY <1>2, <1>3 DEF IInv

\* A SET of an owner key touches neither orders nor stock.
LEMMA SetKeepsIInv ==
  ASSUME IInv, NEW u \in User,
         (\E t \in Token : SetToken(t, u)) \/ (\E c \in Cart : SetCartUser(c, u))
  PROVE  IInv'
<1>1. TypeOK'
  BY DEF IInv, TypeOK, SetToken, SetCartUser, IsHashMap
<1>2. (NoOversell /\ IndexesAgree)'
  BY DEF IInv, NoOversell, IndexesAgree, SetToken, SetCartUser
<1> QED
  BY <1>1, <1>2 DEF IInv

\* add_food.lua writes one line of one cart.
LEMMA AddFoodKeepsIInv ==
  ASSUME IInv, NEW t \in Token, NEW c \in Cart, NEW f \in Food, NEW n \in Counts,
         AddFood(t, c, f, n)
  PROVE  IInv'
<1>1. IsHashMap(cart', Cart, Food)
  <2>1. CASE UNCHANGED cart
    BY <2>1 DEF IInv, TypeOK, IsHashMap
  <2>2. CASE cart' = [cart EXCEPT ![c] = HIncrBy(@, f, n)]
    <3>1. IsHash(HIncrBy(cart[c], f, n), Food)
      BY HIncrByIsHash, StoreAssumption DEF IInv, TypeOK, IsHashMap
    <3> QED
      BY <2>2, <3>1, ExceptIsHashMap DEF IInv, TypeOK
  <2> QED
    BY <2>1, <2>2 DEF AddFood
<1>2. TypeOK'
  BY <1>1 DEF IInv, TypeOK, AddFood, IsHashMap
<1>3. (NoOversell /\ IndexesAgree)'
  BY DEF IInv, NoOversell, IndexesAgree, AddFood
<1> QED
  BY <1>2, <1>3 DEF IInv

\* A successful place_order.lua: every line was checked against the stock,
\* the user had no order, and the order id had no user.
LEMMA PlaceOrderKeepsIInv ==
  ASSUME IInv, NEW c \in Cart, NEW o \in OrderId, NEW t \in Token,
         PlaceOrderReply(c, t) = OK => orderUser[o] = NULL,
         PlaceOrder(c, o, t)
  PROVE  IInv'
<1>1. CASE UNCHANGED <<foodStock, order, userOrder, orderUser>>
  BY <1>1 DEF IInv, TypeOK, IsHashMap, NoOversell, IndexesAgree, PlaceOrder
<1>2. CASE PlaceOrderReply(c, t) = OK /\ RecordOrder(c, o, cartUser[c])
  <2> DEFINE u == cartUser[c]
  <2>1. /\ u \in User
        /\ userOrder[u] = NULL
        /\ \A f \in DOMAIN cart[c] : ~ (foodStock[f] - cart[c][f] < 0)
    BY <1>2 DEF IInv, TypeOK, PlaceOrderReply, OK, CartNotFound,
                NotAuthorized, OrderLimited, OutOfStock
  <2>2. IsHash(cart[c], Food)
    BY DEF IInv, TypeOK, IsHashMap
  <2>3. foodStock' \in [Food -> Int] /\ NoOversell'
    <3>1. \A f \in DOMAIN cart[c] : foodStock[f] - cart[c][f] >= 0
      BY <2>1, <2>2 DEF IInv, TypeOK, IsHash
    <3> QED
      BY <1>2, <2>2, <3>1, TakeInStock DEF IInv, TypeOK, NoOversell, RecordOrder
  <2>4. IsHashMap(order', OrderId, Food)
    <3>1. IsHash(HSetAll(order[o], cart[c]), Food)
      BY <2>2 DEF IInv, TypeOK, IsHashMap, IsHash, HSetAll
    <3> QED
      BY <1>2, <3>1, ExceptIsHashMap DEF IInv, TypeOK, RecordOrder
  <2>5. TypeOK'
    BY <1>2, <2>1, <2>3, <2>4 DEF IInv, TypeOK, PlaceOrder, RecordOrder, IsHashMap
  <2>6. IndexesAgree'
    BY <1>2, <2>1, StoreAssumption DEF IInv, TypeOK, IndexesAgree, RecordOrder
  <2> QED
    BY <2>3, <2>5, <2>6 DEF IInv
<1> QED
  BY <1>1, <1>2 DEF PlaceOrder

\* Every command Redis executes keeps the invariant.
LEMMA NextIInv == IInv /\ [RedisStep]_redisVars => IInv'
<1> SUFFICES ASSUME IInv, [RedisStep]_redisVars PROVE IInv'
  OBVIOUS
<1>1. CASE UNCHANGED redisVars
  BY <1>1 DEF IInv, TypeOK, IsHashMap, NoOversell, IndexesAgree, redisVars
<1>2. CASE \E t \in Token, u \in User : SetToken(t, u)
  BY <1>2, SetKeepsIInv
<1>3. CASE \E c \in Cart, u \in User : SetCartUser(c, u)
  BY <1>3, SetKeepsIInv
<1>4. CASE \E t \in Token, c \in Cart, f \in Food, n \in Counts : AddFood(t, c, f, n)
  BY <1>4, AddFoodKeepsIInv
<1>5. CASE \E c \in Cart, o \in OrderId, t \in Token :
             (PlaceOrderReply(c, t) = OK => orderUser[o] = NULL) /\ PlaceOrder(c, o, t)
  BY <1>5, PlaceOrderKeepsIInv
<1> QED
  BY <1>1, <1>2, <1>3, <1>4, <1>5 DEF RedisStep, RedisNext

\* The invariant holds in every state Redis reaches.
THEOREM InvariantIInv == RedisSpec => []IInv
<1>1. [RedisNext]_redisVars => [RedisStep]_redisVars
  BY DEF RedisStep
<1> QED
  BY InitIInv, NextIInv, <1>1, PTL DEF RedisSpec

-----------------------------------------------------------------------------
(* The results.                                                            *)

\* Every key of Redis always holds a value of its kind.
THEOREM TypeCorrect == RedisSpec => []TypeOK
<1>1. IInv => TypeOK
  BY DEF IInv
<1> QED
  BY InvariantIInv, <1>1, PTL

\* No food is ever oversold, whatever the opening stock and the counts.
THEOREM NeverOversold == RedisSpec => []NoOversell
<1>1. IInv => NoOversell
  BY DEF IInv
<1> QED
  BY InvariantIInv, <1>1, PTL

\* The two indexes make the two views of the orders one.
LEMMA IndexesMakeViews == IInv => AdminAgreesWithUsers
<1> SUFFICES ASSUME IInv PROVE AdminAgreesWithUsers
  OBVIOUS
<1>1. ASSUME NEW r \in AdminQuery PROVE \E u \in User : r \in OrdersOf(u)
  <2>1. PICK o \in OrderId : /\ orderUser[o] # NULL
                             /\ r = [id |-> o, user |-> orderUser[o], items |-> order[o]]
    BY <1>1 DEF AdminQuery
  <2>2. orderUser[o] \in User /\ userOrder[orderUser[o]] = o /\ o # NULL
    BY <2>1, StoreAssumption DEF IInv, TypeOK, IndexesAgree
  <2>3. r \in OrdersOf(orderUser[o])
    BY <2>1, <2>2 DEF OrdersOf
  <2> QED
    BY <2>2, <2>3
<1>2. ASSUME NEW u \in User, NEW r \in OrdersOf(u) PROVE r \in AdminQuery
  <2>1. /\ userOrder[u] # NULL
        /\ r = [id |-> userOrder[u], user |-> u, items |-> order[userOrder[u]]]
    BY <1>2 DEF OrdersOf
  <2>2. userOrder[u] \in OrderId /\ orderUser[userOrder[u]] = u /\ u # NULL
    BY <2>1, StoreAssumption DEF IInv, TypeOK, IndexesAgree
  <2> QED
    BY <2>1, <2>2 DEF AdminQuery
<1> QED
  BY <1>1, <1>2 DEF AdminAgreesWithUsers

\* The administrator's listing is always the union of the users' orders.
THEOREM AdminView == RedisSpec => []AdminAgreesWithUsers
  BY InvariantIInv, IndexesMakeViews, PTL

\* No command changes or withdraws an order the administrator could list.
LEMMA StepFreezesOrders ==
  IInv /\ [RedisStep]_redisVars => [AdminQuery \subseteq AdminQuery']_redisVars
<1> SUFFICES ASSUME IInv, RedisStep PROVE AdminQuery \subseteq AdminQuery'
  OBVIOUS
<1>1. CASE UNCHANGED <<orderUser, order>>
  BY <1>1 DEF AdminQuery
<1>2. CASE \E c \in Cart, o \in OrderId, t \in Token :
             orderUser[o] = NULL /\ RecordOrder(c, o, cartUser[c])
  <2>1. PICK c \in Cart, o \in OrderId :
               orderUser[o] = NULL /\ RecordOrder(c, o, cartUser[c])
    BY <1>2
  <2>2. \A p \in OrderId : orderUser[p] # NULL =>
               orderUser'[p] = orderUser[p] /\ order'[p] = order[p]
    BY <2>1 DEF IInv, TypeOK, IsHashMap, RecordOrder
  <2> QED
    BY <2>2 DEF AdminQuery
<1> QED
  BY <1>1, <1>2 DEF RedisStep, RedisNext, SetToken, SetCartUser, AddFood, PlaceOrder

\* So none is ever changed or withdrawn.
THEOREM PlacedOrdersFrozen == RedisSpec => OrdersFrozen
<1>1. [RedisNext]_redisVars => [RedisStep]_redisVars
  BY DEF RedisStep
<1> QED
  BY InvariantIInv, StepFreezesOrders, <1>1, PTL DEF RedisSpec, OrdersFrozen

-----------------------------------------------------------------------------
(* The sums: limits and conservation.                                      *)

(* The pieces in carts and orders, counted.  Every hash and the list of    *)
(* orders stay finite, since a command adds at most one field or one       *)
(* order; without that a sum has no value.  place_order.lua writes into an *)
(* order's hash what is in the cart, and no more, because the hash of an   *)
(* order id nobody has is empty.                                           *)
Tallies ==
  /\ \A c \in Cart : IsFiniteSet(DOMAIN cart[c]) /\ Total(cart[c]) <= CartLimit
  /\ \A o \in OrderId : IsFiniteSet(DOMAIN order[o]) /\ Total(order[o]) <= CartLimit
  /\ \A o \in OrderId : orderUser[o] = NULL => order[o] = EmptyHash
  /\ IsFiniteSet(AdminQuery)
  /\ StockConserved

\* Nothing is in a cart or in an order when Redis starts.
LEMMA InitTallies == RedisInit => Tallies
<1> SUFFICES ASSUME RedisInit PROVE Tallies
  OBVIOUS
<1>1. DOMAIN EmptyHash = {} /\ IsFiniteSet({}) /\ Total(EmptyHash) = 0
  BY FS_EmptySet, TotalEmpty DEF EmptyHash
<1>2. AdminQuery = {}
  BY DEF RedisInit, AdminQuery
<1>3. StockConserved
  <2> SUFFICES ASSUME NEW f \in Food
               PROVE  foodStock[f] + Total([r \in AdminQuery |-> Line(r.items, f)]) = InitStock[f]
    BY DEF StockConserved
  <2>1. Total([r \in AdminQuery |-> Line(r.items, f)]) = 0
    BY <1>2, TotalEmpty
  <2> QED
    BY <2>1, StoreAssumption DEF RedisInit
<1> QED
  BY <1>1, <1>2, <1>3 DEF RedisInit, Tallies, CartLimit

\* add_food.lua compares the total with the limit and increments a line in
\* one step.
LEMMA AddFoodKeepsTallies ==
  ASSUME IInv, Tallies, NEW t \in Token, NEW c \in Cart, NEW f \in Food, NEW n \in Counts,
         AddFood(t, c, f, n)
  PROVE  Tallies'
<1>1. UNCHANGED <<orderUser, order, foodStock>>
  BY DEF AddFood
<1>2. ASSUME NEW d \in Cart
      PROVE  IsFiniteSet(DOMAIN cart'[d]) /\ Total(cart'[d]) <= CartLimit
  <2>1. CASE cart'[d] = cart[d]
    BY <2>1 DEF Tallies
  <2>2. CASE /\ AddFoodReply(t, c, n) = OK
             /\ cart'[d] = HIncrBy(cart[c], f, n)
    <3>1. /\ IsFiniteSet(DOMAIN cart[c])
          /\ \A x \in DOMAIN cart[c] : cart[c][x] \in Int
          /\ n \in Int
      BY StoreAssumption DEF IInv, TypeOK, IsHashMap, IsHash, Tallies
    <3>2. /\ IsFiniteSet(DOMAIN HIncrBy(cart[c], f, n))
          /\ Total(HIncrBy(cart[c], f, n)) = Total(cart[c]) + n
      BY <3>1, TotalHIncrBy
    <3>3. ~ (Total(cart[c]) + n > CartLimit)
      BY <2>2 DEF AddFoodReply, OK, FoodLimited, CartNotFound, NotYourCart
    <3>4. Total(cart[c]) \in Int
      BY <3>1, TotalInt
    <3> QED
      BY <2>2, <3>1, <3>2, <3>3, <3>4 DEF CartLimit
  <2> QED
    BY <2>1, <2>2 DEF IInv, TypeOK, IsHashMap, AddFood
<1>3. AdminQuery' = AdminQuery
  BY <1>1 DEF AdminQuery
<1> QED
  BY <1>1, <1>2, <1>3 DEF Tallies, StockConserved

\* What place_order.lua does to the listing when it answers OK: one more
\* record, with the lines of the cart.
LEMMA RecordOrderLists ==
  ASSUME IInv, Tallies, NEW c \in Cart, NEW o \in OrderId, NEW u \in User,
         orderUser[o] = NULL, RecordOrder(c, o, u)
  PROVE  /\ order'[o] = cart[c]
         /\ \A p \in OrderId : p # o => order'[p] = order[p] /\ orderUser'[p] = orderUser[p]
         /\ orderUser'[o] = u
         /\ [id |-> o, user |-> u, items |-> cart[c]] \notin AdminQuery
         /\ AdminQuery' = AdminQuery \cup {[id |-> o, user |-> u, items |-> cart[c]]}
<1>1. order'[o] = cart[c]
  <2>1. order[o] = EmptyHash
    BY DEF Tallies
  <2>2. HSetAll(EmptyHash, cart[c]) = [g \in DOMAIN cart[c] |-> cart[c][g]]
    BY DEF HSetAll, EmptyHash
  <2>3. cart[c] = [g \in DOMAIN cart[c] |-> cart[c][g]]
    BY DEF IInv, TypeOK, IsHashMap, IsHash
  <2> QED
    BY <2>1, <2>2, <2>3 DEF IInv, TypeOK, IsHashMap, RecordOrder
<1>2. \A p \in OrderId : p # o => order'[p] = order[p] /\ orderUser'[p] = orderUser[p]
  BY DEF IInv, TypeOK, IsHashMap, RecordOrder
<1>3. orderUser'[o] = u /\ u # NULL
  BY StoreAssumption DEF IInv, TypeOK, RecordOrder
<1>4. [id |-> o, user |-> u, items |-> cart[c]] \notin AdminQuery
  BY DEF AdminQuery
<1>5. AdminQuery' = AdminQuery \cup {[id |-> o, user |-> u, items |-> cart[c]]}
  <2>1. {p \in OrderId : orderUser'[p] # NULL} = {p \in OrderId : orderUser[p] # NULL} \cup {o}
    BY <1>2, <1>3
  <2> QED
    BY <1>1, <1>2, <1>3, <2>1 DEF AdminQuery
<1> QED
  BY <1>1, <1>2, <1>3, <1>4, <1>5

\* A successful place_order.lua takes from the stock what it records.
LEMMA PlaceOrderKeepsTallies ==
  ASSUME IInv, Tallies, NEW c \in Cart, NEW o \in OrderId, NEW t \in Token,
         PlaceOrderReply(c, t) = OK => orderUser[o] = NULL,
         PlaceOrder(c, o, t)
  PROVE  Tallies'
<1>1. CASE UNCHANGED <<foodStock, order, userOrder, orderUser>>
  BY <1>1 DEF Tallies, PlaceOrder, StockConserved, AdminQuery
<1>2. CASE PlaceOrderReply(c, t) = OK /\ RecordOrder(c, o, cartUser[c])
  <2> DEFINE u == cartUser[c]
             new == [id |-> o, user |-> u, items |-> cart[c]]
  <2>1. u \in User /\ orderUser[o] = NULL
    BY <1>2 DEF IInv, TypeOK, PlaceOrderReply, OK, CartNotFound
  <2>2. /\ order'[o] = cart[c]
        /\ \A p \in OrderId : p # o => order'[p] = order[p] /\ orderUser'[p] = orderUser[p]
        /\ orderUser'[o] = u
        /\ new \notin AdminQuery
        /\ AdminQuery' = AdminQuery \cup {new}
    BY <1>2, <2>1, RecordOrderLists
  <2>3. IsHash(cart[c], Food)
    BY DEF IInv, TypeOK, IsHashMap
  <2>4. \A d \in Cart : IsFiniteSet(DOMAIN cart'[d]) /\ Total(cart'[d]) <= CartLimit
    BY DEF Tallies, PlaceOrder
  <2>5. \A p \in OrderId : IsFiniteSet(DOMAIN order'[p]) /\ Total(order'[p]) <= CartLimit
    BY <2>2 DEF Tallies
  <2>6. \A p \in OrderId : orderUser'[p] = NULL => order'[p] = EmptyHash
    BY <2>1, <2>2, StoreAssumption DEF Tallies
  <2>7. IsFiniteSet(AdminQuery')
    BY <2>2, FS_AddElement DEF Tallies
  <2>8. StockConserved'
    <3> SUFFICES ASSUME NEW f \in Food
                 PROVE  foodStock'[f] + Total([r \in AdminQuery' |-> Line(r.items, f)])
                          = InitStock[f]
      BY DEF StockConserved
    <3> DEFINE sold == [r \in AdminQuery |-> Line(r.items, f)]
    <3>1. \A r \in AdminQuery : Line(r.items, f) \in Int
      BY DEF AdminQuery, IInv, TypeOK, IsHashMap, IsHash, Line
    <3>2. Line(cart[c], f) \in Int
      BY <2>3 DEF IsHash, Line
    <3>3. [r \in AdminQuery' |-> Line(r.items, f)] = HSet(sold, new, Line(cart[c], f))
      BY <2>2 DEF HSet
    <3>4. /\ DOMAIN sold = AdminQuery
          /\ \A r \in DOMAIN sold : sold[r] \in Int
          /\ Line(sold, new) = 0
      BY <2>2, <3>1 DEF Line
    <3>5. IsFiniteSet(AdminQuery) /\ foodStock[f] + Total(sold) = InitStock[f]
      BY DEF Tallies, StockConserved
    <3>6. foodStock'[f] = foodStock[f] - Line(cart[c], f)
      BY <1>2 DEF IInv, TypeOK, RecordOrder, Take
    <3> HIDE DEF sold, new, u
    <3>7. Total(HSet(sold, new, Line(cart[c], f))) = Total(sold) - 0 + Line(cart[c], f)
      BY <3>2, <3>4, <3>5, TotalHSet
    <3>8. Total(sold) \in Int /\ foodStock[f] \in Int
      BY <3>4, <3>5, TotalInt DEF IInv, TypeOK
    <3> QED
      BY <3>2, <3>3, <3>5, <3>6, <3>7, <3>8
  <2> QED
    BY <2>4, <2>5, <2>6, <2>7, <2>8 DEF Tallies
<1> QED
  BY <1>1, <1>2 DEF PlaceOrder

\* Every command Redis executes keeps the sums.
LEMMA NextTallies == IInv /\ Tallies /\ [RedisStep]_redisVars => Tallies'
<1> SUFFICES ASSUME IInv, Tallies, [RedisStep]_redisVars PROVE Tallies'
  OBVIOUS
<1>1. CASE UNCHANGED <<cart, orderUser, order, foodStock>>
  BY <1>1 DEF Tallies, StockConserved, AdminQuery
<1>2. CASE \E t \in Token, c \in Cart, f \in Food, n \in Counts : AddFood(t, c, f, n)
  BY <1>2, AddFoodKeepsTallies
<1>3. CASE \E c \in Cart, o \in OrderId, t \in Token :
             (PlaceOrderReply(c, t) = OK => orderUser[o] = NULL) /\ PlaceOrder(c, o, t)
  BY <1>3, PlaceOrderKeepsTallies
<1> QED
  BY <1>1, <1>2, <1>3 DEF RedisStep, RedisNext, redisVars, SetToken, SetCartUser

\* The sums are right in every state Redis reaches.
THEOREM InvariantTallies == RedisSpec => []Tallies
<1>1. [RedisNext]_redisVars => [RedisStep]_redisVars
  BY DEF RedisStep
<1> QED
  BY InvariantIInv, InitTallies, NextTallies, <1>1, PTL DEF RedisSpec

\* Every piece that left the stock is in exactly one listed order.
THEOREM NothingLost == RedisSpec => []StockConserved
<1>1. Tallies => StockConserved
  BY DEF Tallies
<1> QED
  BY InvariantTallies, <1>1, PTL

\* No cart and no order ever holds more than three pieces in total, for counts and
\* lines within StoreAssumption, which the doubles of add_food.lua add exactly.
THEOREM LimitKept == RedisSpec => []WithinLimit
<1>1. Tallies => WithinLimit
  BY DEF Tallies, WithinLimit, AdminQuery
<1> QED
  BY InvariantTallies, <1>1, PTL

-----------------------------------------------------------------------------
(* The store implements the sale.                                          *)

\* Both modules read the same RedisHash.
LEMMA SameHashes ==
  \A h, g, F : /\ SaleOfStore!IsHash(h, F) = IsHash(h, F)
               /\ SaleOfStore!Total(h) = Total(h)
               /\ SaleOfStore!Take(h, g) = Take(h, g)
<1>1. \A h, F : SaleOfStore!IsHash(h, F) = IsHash(h, F)
  BY DEF IsHash, SaleOfStore!IsHash
<1>2. \A h, g : SaleOfStore!Take(h, g) = Take(h, g)
  BY DEF Take, Line, SaleOfStore!Take, SaleOfStore!Line
<1>3. \A h : SaleOfStore!Total(h) = Total(h)
  BY DEF Total, FoldFunction, FoldFunctionOnSet, MapThenFoldSet,
         SaleOfStore!Total, SaleOfStore!FoldFunction,
         SaleOfStore!FoldFunctionOnSet, SaleOfStore!MapThenFoldSet
<1> QED
  BY <1>1, <1>2, <1>3

\* No order can be mistaken for "no order".
LEMMA HashIsNotNull ==
  ASSUME NEW h, IsHash(h, Food)
  PROVE  h # NULL
  BY StoreAssumption DEF IsHash

\* A successful place_order.lua is a purchase of the sale.
LEMMA PlaceOrderBuys ==
  ASSUME IInv, Tallies, NEW c \in Cart, NEW o \in OrderId, NEW t \in Token,
         NEW u \in User, u = cartUser[c], PlaceOrderReply(c, t) = OK, orderUser[o] = NULL,
         RecordOrder(c, o, u)
  PROVE  SaleOfStore!Buy(u)
<1> DEFINE bought == [v \in User |-> PlacedBy(v)]
           items == cart[c]
<1>1. /\ userOrder[u] = NULL
      /\ \A f \in DOMAIN items : ~ (foodStock[f] - items[f] < 0)
  BY DEF IInv, TypeOK, PlaceOrderReply, OK, CartNotFound,
         NotAuthorized, OrderLimited, OutOfStock
<1>2. /\ order'[o] = items
      /\ \A p \in OrderId : p # o => order'[p] = order[p]
  BY <1>1, RecordOrderLists, ZenonT(60)
<1>3. IsHash(items, Food) /\ items # NULL
  BY HashIsNotNull DEF IInv, TypeOK, IsHashMap
<1>4. Total(items) <= CartLimit
  BY DEF Tallies
<1>5. \A f \in DOMAIN items : items[f] <= foodStock[f]
  BY <1>1, <1>3 DEF IInv, TypeOK, IsHash
<1>6. bought[u] = NULL
  BY <1>1 DEF PlacedBy
<1>7. bought' = [bought EXCEPT ![u] = items]
  <2>1. userOrder' = [userOrder EXCEPT ![u] = o] /\ userOrder \in [User -> OrderId \cup {NULL}]
    BY DEF RecordOrder, IInv, TypeOK
  <2>2. PlacedBy(u)' = items
    BY <1>1, <1>2, <2>1, StoreAssumption DEF PlacedBy
  <2>3. ASSUME NEW v \in User, v # u
        PROVE  PlacedBy(v)' = PlacedBy(v)
    <3>1. userOrder'[v] = userOrder[v] /\ userOrder[v] # o
      BY <1>1, <2>1, <2>3, StoreAssumption DEF IInv, IndexesAgree, TypeOK
    <3> QED
      BY <1>2, <2>1, <3>1 DEF PlacedBy
  <2>4. \A v \in User : PlacedBy(v)' = IF v = u THEN items ELSE PlacedBy(v)
    BY <2>2, <2>3
  <2>5. bought' = [v \in User |-> PlacedBy(v)']
    OBVIOUS
  <2> QED
    BY <2>4, <2>5
<1>8. foodStock' = Take(foodStock, items)
  BY DEF RecordOrder
<1>9. bought'[u] = items
  BY <1>1, <1>7
<1> QED
  BY <1>3, <1>4, <1>5, <1>6, <1>7, <1>8, <1>9, SameHashes, ZenonT(60) DEF SaleOfStore!Buy

\* Redis starts with nothing bought.
LEMMA InitSells == RedisInit => SaleOfStore!SaleInit
  BY DEF RedisInit, SaleOfStore!SaleInit, PlacedBy

\* Every command is a purchase or changes nothing the sale sees.
LEMMA StepSells ==
  IInv /\ Tallies /\ [RedisStep]_redisVars => [SaleOfStore!SaleNext]_SaleOfStore!saleVars
<1> SUFFICES ASSUME IInv, Tallies, [RedisStep]_redisVars
             PROVE  [SaleOfStore!SaleNext]_SaleOfStore!saleVars
  OBVIOUS
<1>1. CASE UNCHANGED <<userOrder, order, foodStock>>
  BY <1>1 DEF SaleOfStore!saleVars, PlacedBy
<1>2. CASE \E c \in Cart, o \in OrderId, t \in Token :
             /\ PlaceOrderReply(c, t) = OK /\ orderUser[o] = NULL
             /\ RecordOrder(c, o, cartUser[c])
  <2>1. PICK c \in Cart, o \in OrderId, t \in Token :
             /\ PlaceOrderReply(c, t) = OK /\ orderUser[o] = NULL
             /\ RecordOrder(c, o, cartUser[c])
    BY <1>2
  <2>2. PICK u \in User : u = cartUser[c]
    BY <2>1 DEF IInv, TypeOK, PlaceOrderReply, OK, CartNotFound
  <2>3. SaleOfStore!Buy(u)
    BY <2>1, <2>2, PlaceOrderBuys
  <2> QED
    BY <2>3 DEF SaleOfStore!SaleNext
<1> QED
  BY <1>1, <1>2 DEF RedisStep, RedisNext, redisVars, SetToken, SetCartUser, AddFood, PlaceOrder

\* The store implements the sale: whatever servers, tokens, carts and
\* retries do, Redis shows purchases that keep the rules, and nothing else.
THEOREM StoreImplementsSale == RedisSpec => ImplementsSale
<1>1. [RedisNext]_redisVars => [RedisStep]_redisVars
  BY DEF RedisStep
<1> QED
  BY InvariantIInv, InvariantTallies, InitSells, StepSells, <1>1, PTL
     DEF RedisSpec, ImplementsSale, SaleOfStore!SaleSpec
=============================================================================
