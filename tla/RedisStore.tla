----------------------------- MODULE RedisStore -----------------------------
(***************************************************************************)
(* The state the three servers of the flash sale share: one Redis, its     *)
(* keys (model_design.md) and the commands the servers send it.  Redis     *)
(* runs one command or one Lua script at a time, so each is one action,    *)
(* taken on behalf of any server, at any moment and with any arguments a   *)
(* server may pass: retries and late deliveries of a command are further   *)
(* occurrences of its action.                                              *)
(***************************************************************************)
EXTENDS Integers, FiniteSets, RedisHash

CONSTANTS User, Token, Cart, OrderId, Food,
          InitStock,    \* the stock read from MySQL
          Counts,       \* the counts clients put in PATCH /carts/:cartid
          NULL          \* the reply to GET of a key that does not exist

CONSTANTS LineFloor     \* BOUND: no line of a cart is brought below it

\* The scripts add and compare in Lua's doubles, the model in integers.  Within
\* these limits no sum reaches 2^53 and the two are the same.  Beyond them they
\* are not: patches of -2^60 of one food, 60 of another and 2^60 of the first
\* are all accepted by add_food.lua, and leave 60 pieces.
Many == 1000000
Most == 1000000000

ASSUME StoreAssumption ==
  /\ InitStock \in [Food -> Nat] /\ \A f \in Food : InitStock[f] <= Most
  /\ Counts \subseteq Int /\ \A n \in Counts : -Many <= n /\ n <= Many
  /\ LineFloor \in Int /\ -Most <= LineFloor
  /\ IsFiniteSet(Food) /\ Cardinality(Food) <= Many
  /\ IsFiniteSet(User) /\ Cardinality(User) <= Many
  /\ NULL \notin User \cup OrderId
  /\ \A F \in SUBSET Food : NULL \notin [F -> Int]   \* a nil reply is no hash

VARIABLES tokenUser,    \* token:<token>:user  -> user
          cartUser,     \* cart:<cart>:user    -> user
          cart,         \* cart:<cart>         -> {food: count}
          userOrder,    \* user:<user>:order   -> order
          orderUser,    \* order:user          -> {order: user}
          order,        \* order:<order>       -> {food: count}
          foodStock     \* food:stock          -> {food: stock}

redisVars == <<tokenUser, cartUser, cart, userOrder, orderUser, order, foodStock>>

RedisInit ==
  /\ tokenUser = [t \in Token |-> NULL]
  /\ cartUser  = [c \in Cart |-> NULL]
  /\ cart      = [c \in Cart |-> EmptyHash]
  /\ userOrder = [u \in User |-> NULL]
  /\ orderUser = [o \in OrderId |-> NULL]
  /\ order     = [o \in OrderId |-> EmptyHash]
  /\ foodStock = InitStock

-----------------------------------------------------------------------------
(* The replies of the scripts.                                             *)

OK            == 0
CartNotFound  == -1     \* both scripts
NotAuthorized == -2     \* place_order.lua
OutOfStock    == -3     \* place_order.lua
OrderLimited  == -4     \* place_order.lua
FoodLimited   == -3     \* add_food.lua
NotYourCart   == -4     \* add_food.lua

\* Pieces of food in a cart, and so in an order.
CartLimit == 3

-----------------------------------------------------------------------------
(* Slips one could make in the scripts, to see that the properties below   *)
(* notice them.  They take no part in the specification.                   *)

\* HSET order:user with the field and the value swapped.
RecordOrderSwapped(c, o, u) ==
  /\ foodStock' = Take(foodStock, cart[c])
  /\ order'     = [order EXCEPT ![o] = HSetAll(@, cart[c])]
  /\ userOrder' = [userOrder EXCEPT ![u] = o]
  /\ orderUser' = [orderUser EXCEPT ![o] = o]

\* No SET of user:<u>:order; no HSET of the stock.
RecordOrderUnknown(c, o, u) ==
  /\ foodStock' = Take(foodStock, cart[c])
  /\ order'     = [order EXCEPT ![o] = HSetAll(@, cart[c])]
  /\ orderUser' = [orderUser EXCEPT ![o] = u]
  /\ UNCHANGED userOrder

RecordOrderFree(c, o, u) ==
  /\ order'     = [order EXCEPT ![o] = HSetAll(@, cart[c])]
  /\ userOrder' = [userOrder EXCEPT ![u] = o]
  /\ orderUser' = [orderUser EXCEPT ![o] = u]
  /\ UNCHANGED foodStock

\* The limit compared before the count is added.
AddFoodReplyLate(t, c, n) ==
  IF cartUser[c] = NULL THEN CartNotFound
  ELSE IF cartUser[c] # tokenUser[t] THEN NotYourCart
  ELSE IF Total(cart[c]) > CartLimit THEN FoodLimited
  ELSE OK

\* HSET in the place of HINCRBY.
AddFoodOverwrites(t, c, f, n) ==
  /\ \/ Total(cart[c]) + n <= CartLimit /\ cart' = [cart EXCEPT ![c] = HSet(@, f, n)]
     \/ Total(cart[c]) + n > CartLimit /\ UNCHANGED cart
  /\ UNCHANGED <<tokenUser, cartUser, userOrder, orderUser, order, foodStock>>

\* An order that goes on sharing the lines of the user's carts.
AddFoodShared(t, c, f, n) ==
  LET u == cartUser[c]
  IN  /\ u # NULL /\ u = tokenUser[t]
      /\ cart' = [cart EXCEPT ![c] = HIncrBy(@, f, n)]
      /\ order' = [o \in OrderId |-> IF o = userOrder[u] THEN cart'[c] ELSE order[o]]
      /\ UNCHANGED <<tokenUser, cartUser, userOrder, orderUser, foodStock>>

\* One piece more than there is; no check for an earlier order.
PlaceOrderReplyOffByOne(c, t) ==
  IF cartUser[c] = NULL THEN -1
  ELSE IF tokenUser[t] # cartUser[c] THEN -2
  ELSE IF userOrder[cartUser[c]] # NULL THEN -4
  ELSE IF \E f \in DOMAIN cart[c] : foodStock[f] - cart[c][f] < -1 THEN -3
  ELSE 0

PlaceOrderReplyAgain(c, t) ==
  IF cartUser[c] = NULL THEN -1
  ELSE IF tokenUser[t] # cartUser[c] THEN -2
  ELSE IF \E f \in DOMAIN cart[c] : foodStock[f] - cart[c][f] < 0 THEN -3
  ELSE 0

\* Stock written line by line while the lines are still being checked.
PlaceOrderUnchecked(c, o, t) ==
  LET u == cartUser[c]
      short == {f \in DOMAIN cart[c] : foodStock[f] - cart[c][f] < 0}
      ready == [f \in DOMAIN cart[c] \ short |-> cart[c][f]]
  IN  /\ u # NULL /\ u = tokenUser[t] /\ userOrder[u] = NULL
      /\ foodStock' = Take(foodStock, ready)
      /\ IF short = {}
         THEN /\ order'     = [order EXCEPT ![o] = HSetAll(@, cart[c])]
              /\ userOrder' = [userOrder EXCEPT ![u] = o]
              /\ orderUser' = [orderUser EXCEPT ![o] = u]
         ELSE UNCHANGED <<order, userOrder, orderUser>>
      /\ UNCHANGED <<tokenUser, cartUser, cart>>

\* The order recorded before the stock is looked at.
PlaceOrderHasty(c, o, t) ==
  LET u == cartUser[c]
  IN  /\ IF u # NULL /\ u = tokenUser[t] /\ userOrder[u] = NULL
         THEN /\ order'     = [order EXCEPT ![o] = HSetAll(@, cart[c])]
              /\ userOrder' = [userOrder EXCEPT ![u] = o]
              /\ orderUser' = [orderUser EXCEPT ![o] = u]
              /\ foodStock' = Take(foodStock, cart[c])
         ELSE UNCHANGED <<order, userOrder, orderUser, foodStock>>
      /\ UNCHANGED <<tokenUser, cartUser, cart>>

-----------------------------------------------------------------------------
(* SET token:<t>:user u                                                    *)
SetToken(t, u) ==
  /\ tokenUser' = [tokenUser EXCEPT ![t] = u]
  /\ UNCHANGED <<cartUser, cart, userOrder, orderUser, order, foodStock>>

(* SET cart:<c>:user u                                                     *)
SetCartUser(c, u) ==
  /\ cartUser' = [cartUser EXCEPT ![c] = u]
  /\ UNCHANGED <<tokenUser, cart, userOrder, orderUser, order, foodStock>>

(* add_food.lua: what it answers, and the line it increments when it       *)
(* answers OK.  A count may be negative.                                   *)
AddFoodReply(t, c, n) ==
  IF cartUser[c] = NULL THEN CartNotFound
  ELSE IF cartUser[c] # tokenUser[t] THEN NotYourCart
  ELSE IF Total(cart[c]) + n > CartLimit THEN FoodLimited
  ELSE OK

AddFood(t, c, f, n) ==
  /\ \/ /\ AddFoodReply(t, c, n) = OK
        /\ cart' = [cart EXCEPT ![c] = HIncrBy(@, f, n)]
     \/ /\ AddFoodReply(t, c, n) # OK
        /\ UNCHANGED cart
  /\ UNCHANGED <<tokenUser, cartUser, userOrder, orderUser, order, foodStock>>

(* place_order.lua: it checks every line of the cart against the stock     *)
(* before it writes, and leaves the cart as it is.                         *)
PlaceOrderReply(c, t) ==
  IF cartUser[c] = NULL THEN CartNotFound
  ELSE IF tokenUser[t] # cartUser[c] THEN NotAuthorized
  ELSE IF userOrder[cartUser[c]] # NULL THEN OrderLimited
  ELSE IF \E f \in DOMAIN cart[c] : foodStock[f] - cart[c][f] < 0 THEN OutOfStock
  ELSE OK

RecordOrder(c, o, u) ==
  /\ foodStock' = Take(foodStock, cart[c])
  /\ order'     = [order EXCEPT ![o] = HSetAll(@, cart[c])]
  /\ userOrder' = [userOrder EXCEPT ![u] = o]
  /\ orderUser' = [orderUser EXCEPT ![o] = u]

PlaceOrder(c, o, t) ==
  /\ \/ PlaceOrderReply(c, t) = OK /\ RecordOrder(c, o, cartUser[c])
     \/ /\ PlaceOrderReply(c, t) # OK
        /\ UNCHANGED <<foodStock, order, userOrder, orderUser>>
  /\ UNCHANGED <<tokenUser, cartUser, cart>>

(* What the servers may send.  Tokens, cart ids and order ids are drawn at *)
(* random for one request (RandString): a token or a cart id stands for    *)
(* one user, and an order id is recorded at most once, since a repeated    *)
(* request finds the user's order.  ShopServer shows that the servers keep *)
(* to this when no two draws are the same.                                 *)
RedisNext ==
  \/ \E t \in Token, u \in User : tokenUser[t] \in {NULL, u} /\ SetToken(t, u)
  \/ \E c \in Cart, u \in User : cartUser[c] \in {NULL, u} /\ SetCartUser(c, u)
  \/ \E t \in Token, c \in Cart, f \in Food, n \in Counts :
        Line(cart[c], f) + n >= LineFloor /\ AddFood(t, c, f, n)
  \/ \E c \in Cart, o \in OrderId, t \in Token :
        (PlaceOrderReply(c, t) = OK => orderUser[o] = NULL) /\ PlaceOrder(c, o, t)

RedisSpec == RedisInit /\ [][RedisNext]_redisVars

\* A step of RedisNext, or one that takes a line below the bound.
RedisStep ==
  \/ RedisNext
  \/ \E t \in Token, c \in Cart, f \in Food, n \in Counts : AddFood(t, c, f, n)

-----------------------------------------------------------------------------
(* The two views of the orders.                                            *)

\* admin_query.lua: every order of order:user with its user and its lines.
AdminQuery == {[id |-> o, user |-> orderUser[o], items |-> order[o]] :
                 o \in {o \in OrderId : orderUser[o] # NULL}}

\* GET user:<u>:order and HGETALL order:<id>.
OrdersOf(u) == IF userOrder[u] = NULL THEN {}
               ELSE {[id |-> userOrder[u], user |-> u, items |-> order[userOrder[u]]]}

-----------------------------------------------------------------------------
(* Correctness.                                                            *)

\* Every key of Redis holds a value of its kind: users and orders under the
\* owner keys, hashes of integers under the carts, the orders and the stock.
TypeOK ==
  /\ tokenUser \in [Token -> User \cup {NULL}]
  /\ cartUser \in [Cart -> User \cup {NULL}]
  /\ IsHashMap(cart, Cart, Food)
  /\ userOrder \in [User -> OrderId \cup {NULL}]
  /\ orderUser \in [OrderId -> User \cup {NULL}]
  /\ IsHashMap(order, OrderId, Food)
  /\ foodStock \in [Food -> Int]

\* No food is oversold: place_order.lua never leaves a stock below zero,
\* whatever carts compete for the last pieces and however lines changed
\* between the patch of a cart and its order.
NoOversell == \A f \in Food : foodStock[f] >= 0

\* The orders the administrator lists are exactly the orders the users see,
\* so each user has at most one, no order belongs to two users, and both
\* see the same lines.
AdminAgreesWithUsers == AdminQuery = UNION {OrdersOf(u) : u \in User}

\* Every piece of food that left the stock is in exactly one listed order:
\* stock and orders, written by separate HSETs, add up to the opening stock.
StockConserved ==
  LET Sold(f) == Total([r \in AdminQuery |-> Line(r.items, f)])
  IN  \A f \in Food : foodStock[f] + Sold(f) = InitStock[f]

\* However many patches race on a cart, it never holds more than three
\* pieces, and no order does.
WithinLimit ==
  /\ \A c \in Cart : Total(cart[c]) <= CartLimit
  /\ \A r \in AdminQuery : Total(r.items) <= CartLimit

\* An order that was placed keeps its user and its lines, though its cart
\* can still be patched, and the user can still try to order.
OrdersFrozen == [][AdminQuery \subseteq AdminQuery']_redisVars

\* The store implements the sale: the scripts, over tokens, carts and ids,
\* are purchases of the abstract sale or change nothing it sees.
PlacedBy(u) == IF userOrder[u] = NULL THEN NULL ELSE order[userOrder[u]]

SaleOfStore == INSTANCE Sale WITH
  OrderLimit <- CartLimit,
  None       <- NULL,
  stock      <- foodStock,
  bought     <- [u \in User |-> PlacedBy(u)]

ImplementsSale == SaleOfStore!SaleSpec

\* README.md: an order has at most three pieces of food in total.  A line
\* below zero, which counts of -1 produce, makes room for a line above three.
NoLineAboveLimit ==
  \A r \in AdminQuery : \A f \in DOMAIN r.items : r.items[f] <= CartLimit
=============================================================================
