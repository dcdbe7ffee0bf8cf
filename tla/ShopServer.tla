----------------------------- MODULE ShopServer -----------------------------
(***************************************************************************)
(* The HTTP servers of the flash sale (main.go, model.go) over one Redis.  *)
(* Every request is a goroutine of its own; its handler runs between two   *)
(* calls of Redis without interference, except for the token cache of its  *)
(* server, which it reads and fills in separate critical sections.         *)
(*                                                                         *)
(* A call of Redis is a loop of attempts (redis.go, process).  An attempt  *)
(* that ends in a network error is repeated, whether or not Redis has      *)
(* executed it or still will: each attempt is a message in net, and Redis  *)
(* executes the messages in any order.                                     *)
(***************************************************************************)
EXTENDS RedisStore, FiniteSets

CONSTANTS Server, Proc,
          Requests,     \* what clients send
          MadeUp,       \* tokens and cart ids clients make up
          MaxRetries    \* Options.MaxRetries

CONSTANTS MaxFaults     \* BOUND: network errors and crashes in a behaviour

ASSUME ShopAssumption ==
  /\ MaxRetries \in Nat
  /\ MaxFaults \in Nat
  /\ NULL \notin Server \cup Token \cup Cart
  /\ OrderId \cap (Token \cup Cart) = {} /\ MadeUp \subseteq Token \cup Cart

VARIABLES tokenCache,   \* cache_token_user of each server
          pc,           \* where the handler of each request stands
          srv, req,     \* the server it runs on, what it was asked
          drawn,        \* the token, cart id or order id it drew
          call,         \* its call of Redis
          answer,       \* what the client was answered
          net,          \* attempts Redis has not executed yet
          told,         \* ids the clients have been answered
          toldBefore,   \* told, when the request arrived
          faults

handlerVars == <<pc, srv, req, drawn, call, answer, toldBefore>>
shopVars == <<redisVars, tokenCache, handlerVars, net, told, faults>>

NoCall == [cmd |-> NULL, try |-> 0, state |-> "none", val |-> NULL]

\* The requests of main.go, with the fields the handlers read.
Login(u)           == [kind |-> "login", user |-> u]
PostCarts(t)       == [kind |-> "carts", token |-> t]
Patch(t, c, f, n)  == [kind |-> "patch", token |-> t, cart |-> c, food |-> f, count |-> n]
PostOrders(t, c)   == [kind |-> "order", token |-> t, cart |-> c]
GetOrders(t)       == [kind |-> "orders", token |-> t]
GetAdminOrders(t)  == [kind |-> "admin", token |-> t]

\* NULL stands for a user name, and for a food id, that does not exist.
Forms ==
  {Login(u) : u \in User \cup {NULL}} \cup {PostCarts(t) : t \in Token}
    \cup {Patch(t, c, f, n) : t \in Token, c \in Cart, f \in Food \cup {NULL}, n \in Counts}
    \cup {PostOrders(t, c) : t \in Token, c \in Cart}
    \cup {GetOrders(t) : t \in Token} \cup {GetAdminOrders(t) : t \in Token}

ASSUME RequestAssumption == Requests \subseteq Forms

ShopInit ==
  /\ tokenCache = [s \in Server |-> [t \in Token |-> NULL]]
  /\ pc = [p \in Proc |-> "idle"]
  /\ srv = [p \in Proc |-> NULL]
  /\ req = [p \in Proc |-> NULL]
  /\ drawn = [p \in Proc |-> NULL]
  /\ call = [p \in Proc |-> NoCall]
  /\ answer = [p \in Proc |-> NULL]
  /\ toldBefore = [p \in Proc |-> {}]
  /\ net = {}
  /\ faults = 0

-----------------------------------------------------------------------------
(* Redis executes one attempt.                                             *)

IsWrite(cmd) == cmd.op \in {"SetToken", "SetCartUser", "AddFood", "PlaceOrder"}

Effect(cmd) ==
  \/ cmd.op = "SetToken" /\ SetToken(cmd.token, cmd.user)
  \/ cmd.op = "SetCartUser" /\ SetCartUser(cmd.cart, cmd.user)
  \/ cmd.op = "AddFood" /\ AddFood(cmd.token, cmd.cart, cmd.food, cmd.count)
  \/ cmd.op = "PlaceOrder" /\ PlaceOrder(cmd.cart, cmd.id, cmd.token)
  \/ ~ IsWrite(cmd) /\ UNCHANGED redisVars

ReplyTo(cmd) ==
  CASE cmd.op \in {"SetToken", "SetCartUser"} -> OK
    [] cmd.op = "AddFood"    -> AddFoodReply(cmd.token, cmd.cart, cmd.count)
    [] cmd.op = "PlaceOrder" -> PlaceOrderReply(cmd.cart, cmd.token)
    [] cmd.op = "GetToken"   -> tokenUser[cmd.token]
    [] cmd.op = "GetOrderId" -> userOrder[cmd.user]
    [] cmd.op = "GetItems"   -> order[cmd.id]
    [] cmd.op = "AdminQuery" -> AdminQuery

Attempt(p, c) == [proc |-> p, try |-> c.try, cmd |-> c.cmd]

-----------------------------------------------------------------------------
(* Slips one could make in the servers; they take no part in the           *)
(* specification.                                                          *)

\* A reply that answers a repeated command is not taken.
ExecuteOnce(m) ==
  LET p == m.proc
  IN  /\ m \in net
      /\ Effect(m.cmd)
      /\ net' = net \ {m}
      /\ call' = IF m.try = 0 /\ m = Attempt(p, call[p])
                 THEN [call EXCEPT ![p].state = "replied", ![p].val = ReplyTo(m.cmd)]
                 ELSE call
      /\ UNCHANGED <<tokenCache, pc, srv, req, drawn, answer, told, toldBefore, faults>>

-----------------------------------------------------------------------------
(* The calls of Redis.                                                     *)

\* The reply reaches the handler only if it still waits for this attempt.
Execute(m) ==
  LET p == m.proc
  IN  /\ m \in net
      /\ Effect(m.cmd)
      /\ net' = net \ {m}
      /\ call' = IF call[p].state = "sent" /\ m = Attempt(p, call[p])
                 THEN [call EXCEPT ![p].state = "replied", ![p].val = ReplyTo(m.cmd)]
                 ELSE call
      /\ UNCHANGED <<tokenCache, pc, srv, req, drawn, answer, told, toldBefore, faults>>

\* The handler starts a call.
Issue(p, cmd) ==
  LET c == [cmd |-> cmd, try |-> 0, state |-> "sent", val |-> NULL]
  IN  /\ call' = [call EXCEPT ![p] = c]
      /\ net' = net \cup {Attempt(p, c)}

\* An attempt ends in a network error or a timeout: the command was executed
\* already, is executed later or is lost; the loop goes on with the next
\* attempt or, after MaxRetries of them, gives up.
NetworkError(p) ==
  LET c == call[p]
      next == [c EXCEPT !.try = @ + 1, !.state = "sent", !.val = NULL]
      again == c.try < MaxRetries
  IN  /\ c.state \in {"sent", "replied"}
      /\ faults < MaxFaults
      /\ faults' = faults + 1
      /\ call' = [call EXCEPT ![p] = IF again THEN next ELSE [c EXCEPT !.state = "failed", !.val = NULL]]
      /\ \E left \in {net, net \ {Attempt(p, c)}} :
            /\ IsWrite(c.cmd) \/ left = net \ {Attempt(p, c)}
            /\ net' = IF again THEN left \cup {Attempt(p, next)} ELSE left
      /\ UNCHANGED <<redisVars, tokenCache, pc, srv, req, drawn, answer, told, toldBefore>>

\* The pool has no connection for the attempt: process returns at once.
NoConnection(p) ==
  LET c == call[p]
  IN  /\ c.state = "sent"
      /\ Attempt(p, c) \in net
      /\ faults < MaxFaults
      /\ faults' = faults + 1
      /\ call' = [call EXCEPT ![p].state = "failed"]
      /\ net' = net \ {Attempt(p, c)}
      /\ UNCHANGED <<redisVars, tokenCache, pc, srv, req, drawn, answer, told, toldBefore>>

Finished(p) == call[p].state \in {"replied", "failed"}
Failed(p)   == call[p].state = "failed"
Val(p)      == call[p].val

-----------------------------------------------------------------------------
(* Steps of a handler.                                                     *)

\* The handler goes on at l.
Goto(p, l) ==
  /\ pc' = [pc EXCEPT ![p] = l]
  /\ UNCHANGED <<redisVars, srv, req, drawn, answer, told, toldBefore, faults>>

\* The handler issues cmd and waits at l.
CallRedis(p, l, cmd) == Goto(p, l) /\ Issue(p, cmd) /\ UNCHANGED tokenCache

\* Slip: an id another request has drawn, and not yet told, is drawn again.
DrawAgainAndCall(p, id, cmd) ==
  /\ id \notin told \cup MadeUp
  /\ drawn' = [drawn EXCEPT ![p] = id]
  /\ pc' = [pc EXCEPT ![p] = "call"]
  /\ Issue(p, cmd)
  /\ UNCHANGED <<redisVars, tokenCache, srv, req, answer, told, toldBefore, faults>>

\* The handler draws id first: no two draws have ever been the same.
DrawAndCall(p, id, cmd) ==
  /\ id \notin told \cup MadeUp
  /\ \A q \in Proc : drawn[q] # id
  /\ drawn' = [drawn EXCEPT ![p] = id]
  /\ pc' = [pc EXCEPT ![p] = "call"]
  /\ Issue(p, cmd)
  /\ UNCHANGED <<redisVars, tokenCache, srv, req, answer, told, toldBefore, faults>>

\* The client is answered, and told the ids.
Answer(p, status, body, ids) ==
  /\ pc' = [pc EXCEPT ![p] = "done"]
  /\ answer' = [answer EXCEPT ![p] = [status |-> status, body |-> body]]
  /\ told' = told \cup ids
  /\ call' = [call EXCEPT ![p] = NoCall]
  /\ UNCHANGED <<redisVars, srv, req, drawn, net, toldBefore, faults>>

Refuse(p, status, why) == Answer(p, status, why, {}) /\ UNCHANGED tokenCache

Cached(p) == tokenCache[srv[p]][req[p].token]
CacheToken(p, t, u) == tokenCache' = [tokenCache EXCEPT ![srv[p]][t] = u]

\* A client sends a request to one of the servers, with ids it was told
\* or makes up.
Receive(p, s, rq) ==
  /\ pc[p] = "idle"
  /\ \A k \in DOMAIN rq : rq[k] \in Token \cup Cart => rq[k] \in told \cup MadeUp
  /\ pc' = [pc EXCEPT ![p] = IF rq.kind = "login" THEN "handle" ELSE "check"]
  /\ srv' = [srv EXCEPT ![p] = s]
  /\ req' = [req EXCEPT ![p] = rq]
  /\ toldBefore' = [toldBefore EXCEPT ![p] = told]
  /\ UNCHANGED <<redisVars, tokenCache, drawn, call, answer, net, told, faults>>

\* TokenChecker and get_token_user: a token the server does not know is
\* read from Redis, outside the mutex, and cached.
CheckToken(p) ==
  /\ pc[p] = "check"
  /\ \/ Cached(p) # NULL /\ Goto(p, "handle") /\ UNCHANGED <<tokenCache, call, net>>
     \/ Cached(p) = NULL /\ CallRedis(p, "checking", [op |-> "GetToken", token |-> req[p].token])

TokenRead(p) ==
  /\ pc[p] = "checking"
  /\ Finished(p)
  /\ \/ Val(p) = NULL /\ Refuse(p, 401, "INVALID_ACCESS_TOKEN")
     \/ /\ Val(p) # NULL
        /\ CacheToken(p, req[p].token, Val(p))
        /\ call' = [call EXCEPT ![p] = NoCall]
        /\ Goto(p, "handle")
        /\ UNCHANGED net

At(p, l, kind) == pc[p] = l /\ req[p].kind = kind
Returned(p, kind) == At(p, "call", kind) /\ Finished(p)

\* Slip: the token is only cached, not stored.
PostLoginLocal(p) ==
  /\ At(p, "handle", "login")
  /\ \E t \in Token :
       /\ t \notin told /\ \A q \in Proc : drawn[q] # t
       /\ CacheToken(p, t, req[p].user)
       /\ Answer(p, 200, t, {t})

\* PostLogin: the error of the SET is not looked at.
PostLogin(p) ==
  /\ At(p, "handle", "login")
  /\ LET u == req[p].user
     IN  \/ u \notin User /\ Refuse(p, 403, "USER_AUTH_FAIL")
         \/ /\ u \in User
            /\ \E t \in Token : DrawAndCall(p, t, [op |-> "SetToken", token |-> t, user |-> u])

LoggedIn(p) ==
  /\ Returned(p, "login")
  /\ CacheToken(p, drawn[p], req[p].user)
  /\ Answer(p, 200, drawn[p], {drawn[p]})

\* Create_cart: nor here.
CreateCart(p) ==
  /\ At(p, "handle", "carts")
  /\ \E c \in Cart : DrawAndCall(p, c, [op |-> "SetCartUser", cart |-> c, user |-> Cached(p)])

CartCreated(p) ==
  /\ Returned(p, "carts")
  /\ Answer(p, 200, drawn[p], {drawn[p]})
  /\ UNCHANGED tokenCache

CartAddFood(p) ==
  /\ At(p, "handle", "patch")
  /\ \/ req[p].food \notin Food /\ Refuse(p, 404, "FOOD_NOT_FOUND")
     \/ /\ req[p].food \in Food
        /\ CallRedis(p, "call", [op |-> "AddFood", token |-> req[p].token, cart |-> req[p].cart,
                                 food |-> req[p].food, count |-> req[p].count])

FoodAdded(p) ==
  /\ Returned(p, "patch")
  /\ ~ Failed(p)
  /\ \/ Val(p) = OK /\ Refuse(p, 204, "")
     \/ Val(p) = CartNotFound /\ Refuse(p, 404, "CART_NOT_FOUND")
     \/ Val(p) = FoodLimited /\ Refuse(p, 403, "FOOD_OUT_OF_LIMIT")
     \/ Val(p) = NotYourCart /\ Refuse(p, 401, "NOT_AUTHORIZED_TO_ACCESS_CART")

PostOrder(p) ==
  /\ At(p, "handle", "order")
  /\ \E o \in OrderId : DrawAndCall(p, o, [op |-> "PlaceOrder", cart |-> req[p].cart,
                                           id |-> o, token |-> req[p].token])

\* Slip: without L.Fatal, the reply of a failed call stays 0 (model.go:205).
OrderPostedZero(p) ==
  /\ Returned(p, "order")
  /\ \/ /\ Failed(p) \/ Val(p) = OK
        /\ Answer(p, 200, drawn[p], {drawn[p]})
        /\ UNCHANGED tokenCache
     \/ ~ Failed(p) /\ Val(p) # OK /\ Refuse(p, 403, "ORDER_OUT_OF_LIMIT")

OrderPosted(p) ==
  /\ Returned(p, "order")
  /\ ~ Failed(p)
  /\ \/ Val(p) = OK /\ Answer(p, 200, drawn[p], {drawn[p]}) /\ UNCHANGED tokenCache
     \/ Val(p) = CartNotFound /\ Refuse(p, 404, "CART_NOT_FOUND")
     \/ Val(p) = NotAuthorized /\ Refuse(p, 401, "NOT_AUTHORIZED_TO_ACCESS_CART")
     \/ Val(p) = OutOfStock /\ Refuse(p, 403, "FOOD_OUT_OF_STOCK")
     \/ Val(p) = OrderLimited /\ Refuse(p, 403, "ORDER_OUT_OF_LIMIT")

\* GetOrder: two reads; a failed one reads as nothing.
GetOrder(p) ==
  /\ At(p, "handle", "orders")
  /\ CallRedis(p, "call", [op |-> "GetOrderId", user |-> Cached(p)])

OrderIdRead(p) ==
  /\ Returned(p, "orders")
  /\ \/ Val(p) = NULL /\ Refuse(p, 200, {})
     \/ Val(p) # NULL /\ CallRedis(p, "items", [op |-> "GetItems", id |-> Val(p)])

OrderItemsRead(p) ==
  /\ At(p, "items", "orders")
  /\ Finished(p)
  /\ LET items == IF Failed(p) THEN EmptyHash ELSE Val(p)
     IN  Refuse(p, 200, {[id |-> call[p].cmd.id, user |-> Cached(p), items |-> items]})

\* AdminGetOrder panics on an error; net/http then closes the connection.
AdminGetOrder(p) ==
  /\ At(p, "handle", "admin")
  /\ CallRedis(p, "call", [op |-> "AdminQuery"])

AdminQueried(p) ==
  /\ Returned(p, "admin")
  /\ \/ Failed(p) /\ Refuse(p, 0, "closed")
     \/ ~ Failed(p) /\ Refuse(p, 200, Val(p))

\* The process of server s ends with its handlers and its cache, and starts
\* again with an empty one.
Die(s) ==
  LET lost == {p \in Proc : srv[p] = s /\ pc[p] # "done"}
  IN  /\ pc' = [p \in Proc |-> IF p \in lost THEN "done" ELSE pc[p]]
      /\ answer' = [p \in Proc |-> IF p \in lost THEN [status |-> 0, body |-> "closed"] ELSE answer[p]]
      /\ call' = [p \in Proc |-> IF p \in lost THEN NoCall ELSE call[p]]
      /\ tokenCache' = [tokenCache EXCEPT ![s] = [t \in Token |-> NULL]]
      /\ UNCHANGED <<redisVars, srv, req, drawn, net, told, toldBefore>>

\* L.Fatal of Cart_add_food and PostOrder.
Fatal(p) ==
  /\ Returned(p, "patch") \/ Returned(p, "order")
  /\ Failed(p)
  /\ Die(srv[p])
  /\ UNCHANGED faults

Crash(s) ==
  /\ faults < MaxFaults
  /\ \E p \in Proc : srv[p] = s /\ pc[p] # "done"
  /\ Die(s)
  /\ faults' = faults + 1

Handler(p) ==
  \/ CheckToken(p) \/ TokenRead(p)
  \/ PostLogin(p) \/ LoggedIn(p)
  \/ CreateCart(p) \/ CartCreated(p)
  \/ CartAddFood(p) \/ FoodAdded(p)
  \/ PostOrder(p) \/ OrderPosted(p)
  \/ GetOrder(p) \/ OrderIdRead(p) \/ OrderItemsRead(p)
  \/ AdminGetOrder(p) \/ AdminQueried(p)
  \/ Fatal(p)

ShopNext ==
  \/ \E p \in Proc, s \in Server, rq \in Requests : Receive(p, s, rq)
  \/ \E m \in net : Execute(m)
  \/ \E p \in Proc : Handler(p) \/ NetworkError(p) \/ NoConnection(p)
  \/ \E s \in Server : Crash(s)

\* Redis executes what reaches it, and no handler is left unscheduled.
Fairness == \A p \in Proc : /\ WF_shopVars(Handler(p))
                            /\ WF_shopVars(\E m \in net : m.proc = p /\ Execute(m))

ShopSpec == /\ RedisInit /\ ShopInit /\ told = {}
            /\ [][ShopNext]_shopVars
            /\ Fairness

-----------------------------------------------------------------------------
(* Correctness.                                                            *)

Done(p, kind) == pc[p] = "done" /\ req[p].kind = kind
Answered(p, kind, status) == Done(p, kind) /\ answer[p].status = status
OwnerOf(p) == tokenUser[req[p].token]

\* README.md: an order POST /orders answered with success is the one the
\* administrator lists for that user; no retry, crash or other server undoes
\* it or puts another one in its place.
AnsweredOrdersStand ==
  \A p \in Proc : Answered(p, "order", 200) =>
    \E r \in AdminQuery : r.id = answer[p].body /\ r.user = OwnerOf(p)

\* An order that POST /orders refused was not placed.
RefusedOrdersAbsent ==
  \A p \in Proc :
    Done(p, "order") /\ answer[p].status \notin {0, 200} /\ drawn[p] # NULL
      => orderUser[drawn[p]] = NULL

\* Once a client was told of an order, requests that arrive later, on any
\* server, are shown it: GET /orders of its user and GET /admin/orders.
ToldOrdersShown ==
  \A p \in Proc, o \in OrderId :
    /\ Answered(p, "admin", 200) \/ (Answered(p, "orders", 200) /\ orderUser[o] = OwnerOf(p))
    /\ o \in toldBefore[p]
    => \E r \in answer[p].body : r.id = o

\* What the two queries show is a real order with all of its lines, though
\* GET /orders reads the id and the lines in two calls.
ShownOrdersReal ==
  \A p \in Proc :
    Answered(p, "orders", 200) \/ Answered(p, "admin", 200) => answer[p].body \subseteq AdminQuery

\* Every patch that was accepted has been added once, none that was refused:
\* with nothing in flight, the lines of a cart are those it started with and
\* the sums of its accepted patches and of some whose connection was closed.
PatchedOnceFrom(start) ==
  LET Patches(c, f, status) == {p \in Proc : /\ Answered(p, "patch", status)
                                             /\ req[p].cart = c /\ req[p].food = f}
      Quiet == net = {} /\ \A p \in Proc : pc[p] \in {"idle", "done"}
  IN  Quiet => \A c \in Cart, f \in Food : \E unsure \in SUBSET Patches(c, f, 0) :
                 LET added == Patches(c, f, 204) \cup unsure
                 IN  Line(cart[c], f) = Line(start[c], f) + Total([p \in added |-> req[p].count])

\* The token and the cart id a client is given are known to every server:
\* they are in the Redis the servers share.
GivenIdsShared ==
  \A p \in Proc :
    /\ Answered(p, "login", 200) => tokenUser[answer[p].body] = req[p].user
    /\ Answered(p, "carts", 200) => cartUser[answer[p].body] = OwnerOf(p)

\* The private caches of the servers never attribute a token to another user
\* than Redis does, through crashes, refills and attempts executed late.
CachesAgree ==
  \A s \in Server, t \in Token : tokenCache[s][t] # NULL => tokenUser[t] \in {NULL, tokenCache[s][t]}

\* The servers use Redis as RedisStore describes: ids stay unique and an
\* order id is never recorded twice, in spite of retries and late attempts.
UsesRedis == [][RedisStep]_redisVars

\* Every request is answered, or its connection is closed.
EveryRequestEnds == \A p \in Proc : pc[p] # "idle" ~> pc[p] = "done"
=============================================================================
