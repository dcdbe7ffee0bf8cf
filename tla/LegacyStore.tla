---------------------------- MODULE LegacyStore -----------------------------
(***************************************************************************)
(* Redis as the Python server (app.py, model.py, lua/) used it before the  *)
(* Go server.  The stock of a food is kept in two sorted sets under the    *)
(* time of its last change, food:stock:kind says which food a change was   *)
(* of and food:stock:count what it left; a hash has that time by food.     *)
(* A member <time * 10^7 + n> with score <time> is the pair of the time    *)
(* and of what the scripts read of the member, its remainder by 10^7.      *)
(***************************************************************************)
EXTENDS Integers, FiniteSets, FiniteSetsExt, RedisHash

CONSTANTS Buyer, LToken, LCart, LOrder, LFood,
          OpeningStock,          \* the stock read from MySQL
          LCounts,               \* the counts clients put in PATCH /carts/{cartid}
          None,
          LineBound              \* BOUND: no line is brought below it

StockBase == 10000000     \* TIME_BASE
LastTime  == 900719924    \* the last time whose members are below 2^53
Most      == 1000000

\* "nobody" is what a cart without a user belongs to; None is nothing stored.
\* Negative lines put pieces back, and a stock of 10^7 runs into the time: not
\* even if every order had the lowest lines would a stock get there, nor the
\* time to where Lua's doubles are not exact.  Ids of foods are below 10^7.
ASSUME LegacyAssumption ==
  /\ OpeningStock \in [LFood -> Nat] /\ IsFiniteSet(LFood) /\ IsFiniteSet(LOrder)
  /\ LCounts \subseteq Int /\ \A n \in LCounts : -Most <= n /\ n <= Most
  /\ LineBound \in Int /\ -Most <= LineBound /\ LineBound <= 0
  /\ \A f \in LFood : OpeningStock[f] - Cardinality(LOrder) * LineBound < StockBase
  /\ Cardinality(LFood) * (1 + Cardinality(LOrder)) <= LastTime
  /\ "nobody" \notin Buyer /\ None \notin Buyer \cup LCart \cup LOrder
  /\ \A F \in SUBSET LFood : None \notin [F -> Int]   \* no purchase is no hash

VARIABLES
  tokenOf,      \* token:<token>:user
  cartOf,       \* cart:<cart>:user
  lines,        \* cart:<cart>
  orderOf,      \* user:<user>:order
  buyerOf,      \* order:<order>:user
  orderCart,    \* order:cart
  kind, count,  \* food:stock:kind, food:stock:count
  lastUpdate,   \* food:last_update_time
  timestamp,
  purchase      \* history: the lines a buyer's order was placed with

stockKeys == <<kind, count, lastUpdate, timestamp>>
orderKeys == <<orderOf, buyerOf, orderCart, purchase>>
legacyVars == <<tokenOf, cartOf, lines, orderKeys, stockKeys>>

\* init_cache_and_redis: the foods are stored one after another.
LegacyInit ==
  /\ tokenOf = [t \in LToken |-> None] /\ cartOf = [c \in LCart |-> None]
  /\ lines = [c \in LCart |-> EmptyHash]
  /\ orderOf = [u \in Buyer |-> None] /\ buyerOf = [o \in LOrder |-> None]
  /\ orderCart = [o \in LOrder |-> None] /\ purchase = [u \in Buyer |-> None]
  /\ timestamp = Cardinality(LFood)
  /\ lastUpdate = CHOOSE order \in [LFood -> 1 .. timestamp] :
                    \A f, g \in LFood : order[f] = order[g] => f = g
  /\ kind = {<<lastUpdate[f], f>> : f \in LFood}
  /\ count = {<<lastUpdate[f], OpeningStock[f]>> : f \in LFood}

-----------------------------------------------------------------------------
(* Sorted sets: ZRANGEBYSCORE key s s, and ZREMRANGEBYSCORE key s s.        *)

AtScore(z, s) == {r \in z : r[1] = s}
Without(z, s) == z \ AtScore(z, s)

\* The stock the scripts find for a food: the lowest member of its last score.
StockOf(f) ==
  LET found == {r[2] : r \in AtScore(count, lastUpdate[f])}
  IN  CHOOSE n \in found : \A m \in found : n <= m

-----------------------------------------------------------------------------
(* Slips.                                                                  *)

\* The old change stays in food:stock:kind.
StoreChangeKept(s, f, n) ==
  [clock |-> s.clock + 1,
   count |-> Without(s.count, s.last[f]) \cup {<<s.clock + 1, n % StockBase>>},
   kind  |-> s.kind \cup {<<s.clock + 1, f>>},
   last  |-> [s.last EXCEPT ![f] = s.clock + 1]]

\* The time is taken once for all lines of an order.
StoreChangeAtOnce(s, f, n) ==
  [clock |-> timestamp + 1,
   count |-> Without(s.count, s.last[f]) \cup {<<timestamp + 1, n % StockBase>>},
   kind  |-> Without(s.kind, s.last[f]) \cup {<<timestamp + 1, f>>},
   last  |-> [s.last EXCEPT ![f] = timestamp + 1]]

\* No look at an earlier order.
LegacyReplyAgain(c, t) ==
  IF cartOf[c] = None THEN -1
  ELSE IF tokenOf[t] # cartOf[c] THEN -2
  ELSE IF \E f \in DOMAIN lines[c] : StockOf(f) - lines[c][f] < 0 THEN -3
  ELSE 0

-----------------------------------------------------------------------------
(* login and cart_create.  Ids are drawn at random: which of those that    *)
(* are not used yet makes no difference.                                   *)

Unused(key) == {k \in DOMAIN key : key[k] = None}
Draw(key) == CHOOSE k \in Unused(key) : TRUE

LegacyLogin(u) ==
  /\ Unused(tokenOf) # {}
  /\ tokenOf' = [tokenOf EXCEPT ![Draw(tokenOf)] = u]
  /\ UNCHANGED <<cartOf, lines, orderKeys, stockKeys>>

\* check_token takes a generator for a user, so that any token is let in: the
\* cart of one that does not exist belongs to "None".
LegacyCreateCart(t) ==
  /\ Unused(cartOf) # {}
  /\ cartOf' = [cartOf EXCEPT ![Draw(cartOf)] = IF tokenOf[t] = None THEN "nobody" ELSE tokenOf[t]]
  /\ UNCHANGED <<tokenOf, lines, orderKeys, stockKeys>>

(* lua/add_food.lua, for a food of the cache.                              *)
LegacyAddFood(t, c, f, n) ==
  /\ cartOf[c] # None /\ cartOf[c] = tokenOf[t]
  /\ Total(lines[c]) + n <= 3
  /\ Line(lines[c], f) + n >= LineBound
  /\ lines' = [lines EXCEPT ![c] = HIncrBy(@, f, n)]
  /\ UNCHANGED <<tokenOf, cartOf, orderKeys, stockKeys>>

(* lua/place_order.lua.                                                    *)

LegacyReply(c, t) ==
  IF cartOf[c] = None THEN -1
  ELSE IF tokenOf[t] # cartOf[c] THEN -2
  ELSE IF orderOf[cartOf[c]] # None THEN -4
  ELSE IF \E f \in DOMAIN lines[c] : StockOf(f) - lines[c][f] < 0 THEN -3
  ELSE 0

\* One line of the order: the change before is taken out of both sorted sets.
StoreChange(s, f, n) ==
  [clock |-> s.clock + 1,
   count |-> Without(s.count, s.last[f]) \cup {<<s.clock + 1, n % StockBase>>},
   kind  |-> Without(s.kind, s.last[f]) \cup {<<s.clock + 1, f>>},
   last  |-> [s.last EXCEPT ![f] = s.clock + 1]]

\* The lines of the order one after another.
StoreLines(items) ==
  FoldSet(LAMBDA f, s : StoreChange(s, f, StockOf(f) - items[f]),
          [clock |-> timestamp, count |-> count, kind |-> kind, last |-> lastUpdate],
          DOMAIN items)

RecordPurchase(c, o, u) ==
  /\ LET s == StoreLines(lines[c])
     IN  /\ timestamp' = s.clock /\ lastUpdate' = s.last
         /\ count' = s.count /\ kind' = s.kind
  /\ orderOf' = [orderOf EXCEPT ![u] = o]
  /\ buyerOf' = [buyerOf EXCEPT ![o] = u]
  /\ orderCart' = [orderCart EXCEPT ![o] = c]
  /\ purchase' = [purchase EXCEPT ![u] = lines[c]]

LegacyPlaceOrder(c, t) ==
  /\ \/ /\ LegacyReply(c, t) = 0
        /\ Unused(buyerOf) # {}
        /\ RecordPurchase(c, Draw(buyerOf), cartOf[c])
     \/ LegacyReply(c, t) # 0 /\ UNCHANGED <<stockKeys, orderKeys>>
  /\ UNCHANGED <<tokenOf, cartOf, lines>>

LegacyNext ==
  \/ \E u \in Buyer : LegacyLogin(u)
  \/ \E t \in LToken : LegacyCreateCart(t)
  \/ \E t \in LToken, c \in LCart, f \in LFood, n \in LCounts : LegacyAddFood(t, c, f, n)
  \/ \E c \in LCart, t \in LToken : LegacyPlaceOrder(c, t)

LegacySpec == LegacyInit /\ [][LegacyNext]_legacyVars

-----------------------------------------------------------------------------
(* GET /orders: the lines the cart of the order has now.                    *)
LegacyOrder(u) ==
  IF orderOf[u] = None THEN EmptyHash ELSE lines[orderCart[orderOf[u]]]

-----------------------------------------------------------------------------
(* Correctness.                                                            *)

\* The two sorted sets and the hash agree: each food has one change, at a time
\* of its own that has been, though the scripts take the old one out of either
\* set by the time alone.
IndexesAgree ==
  /\ kind = {<<lastUpdate[f], f>> : f \in LFood}
  /\ count = {<<lastUpdate[f], StockOf(f)>> : f \in LFood}
  /\ \A f, g \in LFood : lastUpdate[f] = lastUpdate[g] => f = g
  /\ \A f \in LFood : lastUpdate[f] <= timestamp

\* The order a buyer and the administrator see is one of the cart the order was
\* placed from, and the two keys of an order name each other.
LegacyOrdersAgree ==
  /\ \A o \in LOrder : buyerOf[o] # None => orderOf[buyerOf[o]] = o /\ cartOf[orderCart[o]] = buyerOf[o]
  /\ \A u \in Buyer : orderOf[u] # None => buyerOf[orderOf[u]] = u /\ Total(LegacyOrder(u)) <= 3

\* The scripts implement the sale: nothing is oversold or lost, and a buyer
\* buys once.
LegacySale == INSTANCE Sale WITH
  User <- Buyer, Food <- LFood, InitStock <- OpeningStock, OrderLimit <- 3,
  stock <- [f \in LFood |-> StockOf(f)],
  bought <- purchase

LegacyImplementsSale == LegacySale!SaleSpec
=============================================================================
