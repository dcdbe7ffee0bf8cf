-------------------------- MODULE ShopServerProofs ---------------------------
(***************************************************************************)
(* What the servers guarantee together, for any number of them, of         *)
(* requests, of retries and of faults: they use Redis as RedisStore        *)
(* allows, so that everything proved of the store holds of the whole shop, *)
(* their token caches agree with it, and orders that were answered stand;  *)
(* and what they guarantee besides until the first fault.                  *)
(***************************************************************************)
EXTENDS ShopServer, RedisStoreProofs

-----------------------------------------------------------------------------
(* The inductive invariant.                                                *)

Stages == {"idle", "check", "checking", "handle", "call", "items", "done"}

Typed ==
  /\ tokenCache \in [Server -> [Token -> User \cup {NULL}]]
  /\ pc \in [Proc -> Stages]
  /\ srv \in [Proc -> Server \cup {NULL}]
  /\ req \in [Proc -> Requests \cup {NULL}]
  /\ drawn \in [Proc -> Token \cup Cart \cup OrderId \cup {NULL}]
  /\ answer = [p \in Proc |-> answer[p]]
  /\ call = [p \in Proc |-> call[p]]
  /\ \A p \in Proc : call[p] = [cmd |-> call[p].cmd, try |-> call[p].try,
                                state |-> call[p].state, val |-> call[p].val]

\* An id is drawn once, and names the request it was drawn for.
DrawsDiffer == \A p, q \in Proc : drawn[p] # NULL /\ drawn[p] = drawn[q] => p = q

\* Request p drew id.
Draws(p, kind, id) == id # NULL /\ drawn[p] = id /\ req[p].kind = kind

\* The token was drawn for a login of that user: there is one such user.
Owns(t, u) == \E q \in Proc : Draws(q, "login", t) /\ req[q].user = u /\ u \in User

\* Where the keys of Redis and the entries of the caches come from.
Origins ==
  /\ \A t \in Token : tokenUser[t] # NULL => Owns(t, tokenUser[t])
  /\ \A s \in Server, t \in Token : tokenCache[s][t] # NULL => Owns(t, tokenCache[s][t])
  /\ \A c \in Cart : cartUser[c] # NULL =>
       \E q \in Proc : Draws(q, "carts", c) /\ Owns(req[q].token, cartUser[c])
  /\ \A o \in OrderId : orderUser[o] # NULL =>
       \E q \in Proc : /\ Draws(q, "order", o)
                       /\ tokenUser[req[q].token] = orderUser[o]
                       /\ cartUser[req[q].cart] = orderUser[o]

\* The command of a request that may write: always the same, however often it
\* is repeated and whenever Redis executes it.
Writes(p, cmd) ==
  /\ pc[p] # "idle"
  /\ \/ /\ req[p].kind = "login" /\ req[p].user \in User /\ drawn[p] \in Token
        /\ cmd = [op |-> "SetToken", token |-> drawn[p], user |-> req[p].user]
     \/ /\ req[p].kind = "carts" /\ drawn[p] \in Cart
        /\ \E u \in User : /\ Owns(req[p].token, u)
                           /\ cmd = [op |-> "SetCartUser", cart |-> drawn[p], user |-> u]
     \/ /\ req[p].kind = "patch" /\ req[p].food \in Food
        /\ cmd = [op |-> "AddFood", token |-> req[p].token, cart |-> req[p].cart,
                  food |-> req[p].food, count |-> req[p].count]
     \/ /\ req[p].kind = "order" /\ drawn[p] \in OrderId
        /\ cmd = [op |-> "PlaceOrder", cart |-> req[p].cart, id |-> drawn[p], token |-> req[p].token]

Messages == \A m \in net : m.proc \in Proc /\ (IsWrite(m.cmd) => Writes(m.proc, m.cmd))

\* How far a request is, and what it has.
Stage(p) ==
  /\ pc[p] = "idle" => srv[p] = NULL
  /\ pc[p] # "idle" => req[p] \in Requests /\ srv[p] \in Server
  /\ pc[p] \in {"idle", "check", "checking", "handle"} => drawn[p] = NULL
  /\ pc[p] \in {"check", "checking", "items"} => req[p].kind # "login"
  /\ drawn[p] # NULL =>
       \/ req[p].kind = "login" /\ drawn[p] \in Token
       \/ req[p].kind = "carts" /\ drawn[p] \in Cart
       \/ req[p].kind = "order" /\ drawn[p] \in OrderId
  /\ pc[p] \in {"handle", "call", "items"} /\ req[p].kind # "login" => Cached(p) # NULL

\* Its call of Redis.
Calls(p) ==
  /\ pc[p] \in {"idle", "check", "handle", "done"} => call[p] = NoCall
  /\ pc[p] = "checking" => call[p].cmd = [op |-> "GetToken", token |-> req[p].token]
  /\ pc[p] = "call" =>
       \/ IsWrite(call[p].cmd) /\ Writes(p, call[p].cmd)
       \/ ~ IsWrite(call[p].cmd) /\ req[p].kind \in {"orders", "admin"}
  /\ pc[p] = "items" => ~ IsWrite(call[p].cmd) /\ req[p].kind = "orders"

\* What Redis has replied to it.
Replies(p) ==
  /\ call[p].state # "replied" => call[p].val = NULL
  /\ call[p].state = "replied" /\ pc[p] = "checking" /\ call[p].val # NULL
       => Owns(req[p].token, call[p].val)
  /\ call[p].state = "replied" /\ pc[p] = "call" /\ req[p].kind = "order" /\ call[p].val = OK
       => orderUser[drawn[p]] # NULL

\* An order that was answered with success is recorded.
Promise(p) ==
  Answered(p, "order", 200) =>
    drawn[p] # NULL /\ answer[p].body = drawn[p] /\ orderUser[drawn[p]] # NULL

Request(p) == Stage(p) /\ Calls(p) /\ Replies(p) /\ Promise(p)

ShopInv ==
  /\ IInv /\ Tallies
  /\ Typed /\ DrawsDiffer /\ Origins /\ Messages
  /\ \A p \in Proc : Request(p)
-----------------------------------------------------------------------------
(* Requests, and what is kept of them.                                     *)

\* The requests of main.go have the fields their handlers read.
LEMMA FieldsOfRequests ==
  ASSUME NEW rq \in Requests
  PROVE  /\ rq.kind \in {"login", "carts", "patch", "order", "orders", "admin"}
         /\ rq.kind = "login" => rq.user \in User \cup {NULL}
         /\ rq.kind # "login" => rq.token \in Token
         /\ rq.kind \in {"patch", "order"} => rq.cart \in Cart
         /\ rq.kind = "patch" => rq.count \in Counts
<1>1. rq \in Forms
  BY RequestAssumption
<1>2. CASE rq \in {Login(u) : u \in User \cup {NULL}}
  BY <1>2 DEF Login
<1>3. CASE rq \in {PostCarts(t) : t \in Token}
  BY <1>3 DEF PostCarts
<1>4. CASE rq \in {Patch(t, c, f, n) : t \in Token, c \in Cart, f \in Food \cup {NULL}, n \in Counts}
  BY <1>4 DEF Patch
<1>5. CASE rq \in {PostOrders(t, c) : t \in Token, c \in Cart}
  BY <1>5 DEF PostOrders
<1>6. CASE rq \in {GetOrders(t) : t \in Token} \cup {GetAdminOrders(t) : t \in Token}
  BY <1>6 DEF GetOrders, GetAdminOrders
<1> QED
  BY <1>1, <1>2, <1>3, <1>4, <1>5, <1>6 DEF Forms

\* A token has one user.
LEMMA OwnerIsOne ==
  ASSUME DrawsDiffer, NEW t, NEW u, NEW v, Owns(t, u), Owns(t, v)
  PROVE  u = v
  BY DEF Owns, Draws, DrawsDiffer

\* What no step takes back.
Grows ==
  /\ \A p \in Proc : pc[p] # "idle" => pc'[p] # "idle" /\ req'[p] = req[p]
  /\ \A p \in Proc : drawn[p] # NULL => drawn'[p] = drawn[p]
  /\ \A t \in Token : tokenUser[t] # NULL => tokenUser'[t] = tokenUser[t]
  /\ \A c \in Cart : cartUser[c] # NULL => cartUser'[c] = cartUser[c]
  /\ \A o \in OrderId : orderUser[o] # NULL => orderUser'[o] = orderUser[o]

LEMMA DrawsStay ==
  ASSUME ShopInv, Grows, NEW p \in Proc, NEW kind, NEW id, Draws(p, kind, id)
  PROVE  req'[p] = req[p] /\ Draws(p, kind, id)'
<1>1. drawn[p] # NULL /\ pc[p] # "idle"
  BY DEF Draws, ShopInv, Request, Stage, Typed, Stages
<1> QED
  BY <1>1 DEF Draws, Grows

LEMMA OwnsStays ==
  ASSUME ShopInv, Grows, NEW t, NEW u, Owns(t, u)
  PROVE  Owns(t, u)'
<1>1. PICK q \in Proc : Draws(q, "login", t) /\ req[q].user = u /\ u \in User
  BY DEF Owns
<1>2. req'[q] = req[q] /\ Draws(q, "login", t)'
  BY <1>1, DrawsStay
<1> QED
  BY <1>1, <1>2 DEF Owns

LEMMA WritesStay ==
  ASSUME ShopInv, Grows, NEW p \in Proc, NEW cmd, Writes(p, cmd)
  PROVE  Writes(p, cmd)'
<1>1. pc[p] # "idle" /\ pc'[p] # "idle" /\ req'[p] = req[p]
  BY DEF Writes, Grows
<1>2. drawn[p] \in Token \cup Cart \cup OrderId => drawn'[p] = drawn[p]
  BY ShopAssumption, StoreAssumption DEF Grows
<1>3. \A t, u : Owns(t, u) => Owns(t, u)'
  BY OwnsStays
<1> QED
  BY <1>1, <1>2, <1>3 DEF Writes

\* The part of the state that is the request's own.
Same(p) ==
  /\ pc'[p] = pc[p] /\ srv'[p] = srv[p] /\ req'[p] = req[p] /\ drawn'[p] = drawn[p]
  /\ call'[p] = call[p] /\ answer'[p] = answer[p]

\* The server of the request keeps its user in the cache.
KeepsCached(p) ==
  pc[p] \in {"handle", "call", "items"} /\ srv[p] \in Server /\ req[p].token \in Token /\ Cached(p) # NULL
    => tokenCache'[srv[p]][req[p].token] # NULL

LEMMA RequestStays ==
  ASSUME ShopInv, Grows, NEW p \in Proc, Same(p), KeepsCached(p)
  PROVE  Request(p)'
<1>1. Request(p)
  BY DEF ShopInv
<1>2. Stage(p)'
  <2>1. CASE pc[p] = "idle"
    BY <1>1, <2>1 DEF Request, Stage, Same
  <2>2. CASE pc[p] # "idle"
    <3>1. req[p] \in Requests /\ srv[p] \in Server
      BY <1>1, <2>2 DEF Request, Stage
    <3>2. req[p].kind # "login" => req[p].token \in Token
      BY <3>1, FieldsOfRequests
    <3> QED
      BY <1>1, <3>1, <3>2 DEF Request, Stage, Same, KeepsCached, Cached
  <2> QED BY <2>1, <2>2
<1>3. Calls(p)'
  BY <1>1, WritesStay DEF Request, Calls, Same
<1>4. orderUser[drawn[p]] # NULL /\ drawn[p] \in OrderId => orderUser'[drawn[p]] # NULL
  BY DEF Grows
<1>5. req[p].kind = "order" /\ pc[p] \in {"call", "done"} /\ drawn[p] # NULL => drawn[p] \in OrderId
  BY <1>1 DEF Request, Stage
<1>6. Replies(p)'
  <2>1. pc[p] = "call" /\ req[p].kind = "order" => drawn[p] \in OrderId
    BY <1>1 DEF Request, Calls, Writes
  <2> QED
    BY <1>1, <1>4, <2>1, OwnsStays DEF Request, Replies, Same
<1>7. Promise(p)'
  BY <1>1, <1>4, <1>5 DEF Request, Promise, Answered, Done, Same
<1> QED
  BY <1>2, <1>3, <1>6, <1>7 DEF Request

-----------------------------------------------------------------------------
(* Steps that Redis takes no part in.                                      *)

\* Caches are filled, with the owners of the tokens.
CachesGrow ==
  /\ tokenCache' \in [Server -> [Token -> User \cup {NULL}]]
  /\ \A s \in Server, t \in Token : tokenCache[s][t] # NULL => tokenCache'[s][t] # NULL
  /\ \A s \in Server, t \in Token :
       tokenCache'[s][t] # tokenCache[s][t] => Owns(t, tokenCache'[s][t])

\* A step of request p alone.
Alone(p) ==
  /\ UNCHANGED redisVars
  /\ CachesGrow
  /\ \A q \in Proc \ {p} : Same(q)
  /\ pc[p] # "idle" => pc'[p] # "idle" /\ req'[p] = req[p]
  /\ drawn[p] # NULL => drawn'[p] = drawn[p]

\* Redis is left alone, and what enters a cache is the owner of a token.
LEMMA OriginsStay ==
  ASSUME ShopInv, Grows, UNCHANGED redisVars,
         \A s \in Server, t \in Token :
           tokenCache'[s][t] \in {NULL, tokenCache[s][t]} \/ Owns(t, tokenCache'[s][t])
  PROVE  Origins'
<1>1. UNCHANGED <<tokenUser, cartUser, orderUser>>
  BY DEF redisVars
<1>2. \A t, u : Owns(t, u) => Owns(t, u)'
  BY OwnsStays
<1>3. \A t \in Token : tokenUser'[t] # NULL => Owns(t, tokenUser[t])'
  BY <1>1, <1>2 DEF ShopInv, Origins
<1>4. \A s \in Server, t \in Token : tokenCache'[s][t] # NULL => Owns(t, tokenCache[s][t])'
  BY <1>2 DEF ShopInv, Origins
<1>5. ASSUME NEW c \in Cart, cartUser'[c] # NULL
      PROVE  (\E q \in Proc : Draws(q, "carts", c) /\ Owns(req[q].token, cartUser[c]))'
  <2>1. PICK q \in Proc : Draws(q, "carts", c) /\ Owns(req[q].token, cartUser[c])
    BY <1>1, <1>5 DEF ShopInv, Origins
  <2>2. req'[q] = req[q] /\ Draws(q, "carts", c)'
    BY <2>1, DrawsStay DEF Grows
  <2>3. Owns(req[q].token, cartUser[c])'
    BY <1>1, <1>2, <2>1, <2>2
  <2> QED
    BY <2>2, <2>3
<1>6. ASSUME NEW o \in OrderId, orderUser'[o] # NULL
      PROVE  (\E q \in Proc : /\ Draws(q, "order", o)
                              /\ tokenUser[req[q].token] = orderUser[o]
                              /\ cartUser[req[q].cart] = orderUser[o])'
  <2>1. PICK q \in Proc : /\ Draws(q, "order", o)
                          /\ tokenUser[req[q].token] = orderUser[o]
                          /\ cartUser[req[q].cart] = orderUser[o]
    BY <1>1, <1>6 DEF ShopInv, Origins
  <2>2. req'[q] = req[q] /\ Draws(q, "order", o)'
    BY <2>1, DrawsStay DEF Grows
  <2> QED
    BY <1>1, <2>1, <2>2
<1> QED
  BY <1>3, <1>4, <1>5, <1>6 DEF Origins

LEMMA AloneKeeps ==
  ASSUME ShopInv, NEW p \in Proc, Alone(p),
         Typed', DrawsDiffer', Messages', Request(p)'
  PROVE  ShopInv'
<1>1. Grows
  BY DEF Alone, Grows, redisVars, Same
<1>2. IInv' /\ Tallies'
  BY NextIInv, NextTallies DEF Alone, ShopInv
<1>3. Origins'
  BY <1>1, OriginsStay DEF Alone, CachesGrow
<1>4. ASSUME NEW q \in Proc \ {p} PROVE Request(q)'
  <2>1. KeepsCached(q)
    BY DEF KeepsCached, Alone, CachesGrow, Cached
  <2> QED
    BY <1>1, <2>1, RequestStays DEF Alone
<1> QED
  BY <1>2, <1>3, <1>4 DEF ShopInv
\* The messages that were under way stay what they are.
LEMMA MessagesStay ==
  ASSUME ShopInv, Grows, net' \subseteq net
  PROVE  Messages'
  BY WritesStay DEF ShopInv, Messages

LEMMA CachesStay ==
  ASSUME ShopInv, UNCHANGED tokenCache
  PROVE  CachesGrow
  BY DEF ShopInv, Typed, CachesGrow

\* The client is answered.
LEMMA AnswerKeeps ==
  ASSUME ShopInv, NEW p \in Proc, pc[p] # "idle",
         NEW status, NEW body, NEW ids, Answer(p, status, body, ids), CachesGrow,
         req[p].kind = "order" /\ status = 200
           => body = drawn[p] /\ drawn[p] # NULL /\ orderUser[drawn[p]] # NULL
  PROVE  ShopInv'
<1>1. /\ pc'[p] = "done" /\ call'[p] = NoCall
      /\ answer'[p] = [status |-> status, body |-> body]
      /\ UNCHANGED <<redisVars, srv, req, drawn, net>>
      /\ \A q \in Proc \ {p} : Same(q)
  BY DEF ShopInv, Typed, Answer, Same
<1>2. Alone(p)
  BY <1>1 DEF Alone
<1>3. Typed'
  BY <1>1 DEF Answer, ShopInv, Typed, Stages, CachesGrow, NoCall
<1>4. DrawsDiffer' /\ Messages'
  <2>1. Grows
    BY <1>1, <1>2 DEF Grows, Alone, redisVars, Same
  <2> QED
    BY <1>1, <2>1, MessagesStay DEF ShopInv, DrawsDiffer
<1>5. Request(p)'
  <2>1. Stage(p) /\ UNCHANGED orderUser
    BY <1>1 DEF ShopInv, Request, redisVars
  <2>2. Stage(p)'
    BY <1>1, <2>1 DEF Stage
  <2>3. Calls(p)' /\ Replies(p)'
    BY <1>1 DEF Calls, Replies, NoCall
  <2>4. Promise(p)'
    BY <1>1, <2>1 DEF Promise, Answered, Done
  <2> QED
    BY <2>2, <2>3, <2>4 DEF Request
<1> QED
  BY <1>2, <1>3, <1>4, <1>5, AloneKeeps

\* A refusal, or an answer that leaves the caches alone.
LEMMA RefuseKeeps ==
  ASSUME ShopInv, NEW p \in Proc, pc[p] # "idle", NEW status, NEW why, Refuse(p, status, why),
         req[p].kind # "order" \/ status # 200
  PROVE  ShopInv'
<1>1. Answer(p, status, why, {}) /\ CachesGrow
  BY CachesStay DEF Refuse
<1> QED
  BY <1>1, AnswerKeeps

\* A command that fits the stage the handler waits at.
Fits(p, l, cmd) ==
  \/ /\ l = "checking" /\ pc[p] = "check"
     /\ cmd = [op |-> "GetToken", token |-> req[p].token]
  \/ /\ l = "call" /\ pc[p] = "handle" /\ req[p].kind # "login"
     /\ \/ IsWrite(cmd) /\ Writes(p, cmd)
        \/ ~ IsWrite(cmd) /\ req[p].kind \in {"orders", "admin"}
  \/ /\ l = "items" /\ pc[p] = "call" /\ req[p].kind = "orders"
     /\ ~ IsWrite(cmd)

\* A call of Redis.
LEMMA CallKeeps ==
  ASSUME ShopInv, NEW p \in Proc, NEW l, NEW cmd, CallRedis(p, l, cmd), Fits(p, l, cmd)
  PROVE  ShopInv'
<1> DEFINE c == [cmd |-> cmd, try |-> 0, state |-> "sent", val |-> NULL]
<1>1. /\ pc'[p] = l /\ call'[p] = c
      /\ UNCHANGED <<redisVars, tokenCache, srv, req, drawn, answer>>
      /\ net' = net \cup {Attempt(p, c)}
      /\ \A q \in Proc \ {p} : Same(q)
  BY DEF ShopInv, Typed, CallRedis, Goto, Issue, Same
<1>2. l \in {"checking", "call", "items"} /\ pc[p] # "idle" /\ Request(p)
  BY DEF Fits, ShopInv
<1>3. Alone(p)
  BY <1>1, <1>2, CachesStay DEF Alone
<1>4. Typed'
  BY <1>1, <1>2 DEF CallRedis, Goto, Issue, ShopInv, Typed, Stages
<1>5. Grows
  BY <1>1, <1>2 DEF Grows, Same, redisVars
<1>6. IsWrite(cmd) => Writes(p, cmd)'
  BY <1>5, WritesStay DEF Fits, IsWrite
<1>7. DrawsDiffer' /\ Messages'
  <2>1. Attempt(p, c).proc = p /\ Attempt(p, c).cmd = cmd
    BY DEF Attempt
  <2>2. \A m \in net : m.proc \in Proc /\ (IsWrite(m.cmd) => Writes(m.proc, m.cmd)')
    BY <1>5, WritesStay DEF ShopInv, Messages
  <2> QED
    BY <1>1, <1>6, <2>1, <2>2 DEF ShopInv, DrawsDiffer, Messages
<1>8. Request(p)'
  <2>1. Stage(p)'
    BY <1>1, <1>2 DEF Request, Stage, Cached, Fits
  <2>2. Calls(p)'
    BY <1>1, <1>2, <1>6 DEF Calls, Fits
  <2>3. Replies(p)' /\ Promise(p)'
    BY <1>1, <1>2 DEF Replies, Promise, Answered, Done
  <2> QED
    BY <2>1, <2>2, <2>3 DEF Request
<1> QED
  BY <1>3, <1>4, <1>7, <1>8, AloneKeeps

\* The command with an id the request draws.
Carries(p, id, cmd) ==
  \/ /\ req[p].kind = "login" /\ req[p].user \in User /\ id \in Token
     /\ cmd = [op |-> "SetToken", token |-> id, user |-> req[p].user]
  \/ /\ req[p].kind = "carts" /\ id \in Cart
     /\ cmd = [op |-> "SetCartUser", cart |-> id, user |-> Cached(p)]
  \/ /\ req[p].kind = "order" /\ id \in OrderId
     /\ cmd = [op |-> "PlaceOrder", cart |-> req[p].cart, id |-> id, token |-> req[p].token]

LEMMA DrawKeeps ==
  ASSUME ShopInv, NEW p \in Proc, NEW id, NEW cmd, pc[p] = "handle",
         DrawAndCall(p, id, cmd), Carries(p, id, cmd)
  PROVE  ShopInv'
<1> DEFINE c == [cmd |-> cmd, try |-> 0, state |-> "sent", val |-> NULL]
<1>1. /\ pc'[p] = "call" /\ call'[p] = c /\ drawn'[p] = id
      /\ UNCHANGED <<redisVars, tokenCache, srv, req, answer>>
      /\ net' = net \cup {Attempt(p, c)}
      /\ \A q \in Proc \ {p} : Same(q)
      /\ \A q \in Proc : drawn[q] # id
  BY DEF ShopInv, Typed, DrawAndCall, Issue, Same
<1>2. Request(p) /\ drawn[p] = NULL /\ req[p] \in Requests /\ srv[p] \in Server
  BY DEF ShopInv, Request, Stage
<1>3. id \in Token \cup Cart \cup OrderId /\ id # NULL
  BY StoreAssumption, ShopAssumption DEF Carries
<1>4. Alone(p)
  BY <1>1, <1>2, CachesStay DEF Alone
<1>5. Typed'
  BY <1>1, <1>3 DEF DrawAndCall, Issue, ShopInv, Typed, Stages
<1>6. Grows
  BY <1>1, <1>2 DEF Grows, redisVars, Same
<1>7. IsWrite(cmd) /\ Writes(p, cmd)'
  <2>1. CASE req[p].kind = "carts"
    <3>1. req[p].token \in Token /\ Cached(p) # NULL
      BY <1>2, <2>1, FieldsOfRequests DEF Request, Stage
    <3>2. Owns(req[p].token, Cached(p)) /\ Cached(p) \in User
      BY <1>2, <3>1 DEF ShopInv, Origins, Typed, Cached
    <3>3. \A t, u : Owns(t, u) => Owns(t, u)'
      BY <1>6, OwnsStays
    <3> QED
      BY <1>1, <1>2, <2>1, <3>2, <3>3 DEF Carries, Writes, IsWrite
  <2>2. CASE req[p].kind # "carts"
    BY <1>1, <1>2, <2>2 DEF Carries, Writes, IsWrite
  <2> QED BY <2>1, <2>2
<1>8. DrawsDiffer'
  BY <1>1, <1>3 DEF ShopInv, DrawsDiffer, Same
<1>9. Messages'
  <2>1. Attempt(p, c).proc = p /\ Attempt(p, c).cmd = cmd
    BY DEF Attempt
  <2>2. \A m \in net : m.proc \in Proc /\ (IsWrite(m.cmd) => Writes(m.proc, m.cmd)')
    BY <1>6, WritesStay DEF ShopInv, Messages
  <2> QED
    BY <1>1, <1>7, <2>1, <2>2 DEF Messages
<1>10. Request(p)'
  <2>1. Stage(p)'
    BY <1>1, <1>2, <1>3 DEF Request, Stage, Cached, Carries
  <2>2. Calls(p)'
    BY <1>1, <1>7 DEF Calls
  <2>3. Replies(p)' /\ Promise(p)'
    BY <1>1 DEF Replies, Promise, Answered, Done
  <2> QED
    BY <2>1, <2>2, <2>3 DEF Request
<1> QED
  BY <1>4, <1>5, <1>8, <1>9, <1>10, AloneKeeps
-----------------------------------------------------------------------------
(* The steps of a handler, one by one.                                     *)

LEMMA ReceiveKeeps ==
  ASSUME ShopInv, NEW p \in Proc, NEW s \in Server, NEW rq \in Requests, Receive(p, s, rq)
  PROVE  ShopInv'
<1>1. /\ pc[p] = "idle" /\ pc'[p] \in {"handle", "check"} /\ (pc'[p] = "handle" <=> rq.kind = "login")
      /\ req'[p] = rq /\ srv'[p] = s
      /\ UNCHANGED <<redisVars, tokenCache, drawn, call, answer, net>>
      /\ \A q \in Proc \ {p} : Same(q)
  BY DEF ShopInv, Typed, Receive, Same
<1>2. Request(p) /\ drawn[p] = NULL /\ call[p] = NoCall
  BY <1>1 DEF ShopInv, Request, Stage, Calls
<1>3. Typed'
  BY <1>1 DEF Receive, ShopInv, Typed, Stages
<1>4. Grows /\ Alone(p)
  BY <1>1, <1>2, CachesStay DEF Grows, Alone, Same, redisVars
<1>5. DrawsDiffer' /\ Messages'
  BY <1>1, <1>4, MessagesStay DEF ShopInv, DrawsDiffer
<1>6. Request(p)'
  BY <1>1, <1>2 DEF Request, Stage, Calls, Replies, Promise, Answered, Done, NoCall
<1> QED
  BY <1>3, <1>4, <1>5, <1>6, AloneKeeps

\* The handler goes on without a call.
LEMMA HandleKeeps ==
  ASSUME ShopInv, NEW p \in Proc, pc[p] \in {"check", "checking"}, Goto(p, "handle"),
         CachesGrow, tokenCache'[srv[p]][req[p].token] # NULL,
         call' = [call EXCEPT ![p] = NoCall], UNCHANGED net
  PROVE  ShopInv'
<1>1. /\ pc'[p] = "handle" /\ call'[p] = NoCall
      /\ UNCHANGED <<redisVars, srv, req, drawn, answer, net>>
      /\ \A q \in Proc \ {p} : Same(q)
  BY DEF ShopInv, Typed, Goto, Same
<1>2. Request(p)
  BY DEF ShopInv
<1>3. Typed'
  BY <1>1 DEF Goto, ShopInv, Typed, Stages, CachesGrow, NoCall
<1>4. Alone(p)
  BY <1>1 DEF Alone
<1>5. DrawsDiffer' /\ Messages'
  <2>1. Grows
    BY <1>1 DEF Grows, Same, redisVars
  <2> QED
    BY <1>1, <2>1, MessagesStay DEF ShopInv, DrawsDiffer
<1>6. Request(p)'
  BY <1>1, <1>2 DEF Request, Stage, Calls, Replies, Promise, Answered, Done, Cached, NoCall
<1> QED
  BY <1>3, <1>4, <1>5, <1>6, AloneKeeps

\* A token is cached with its owner.
LEMMA CacheTokenGrows ==
  ASSUME ShopInv, NEW p \in Proc, srv[p] \in Server, NEW t \in Token, NEW u, u # NULL,
         CacheToken(p, t, u), Owns(t, u)
  PROVE  CachesGrow /\ tokenCache'[srv[p]][t] = u
<1>1. u \in User
  BY DEF Owns
<1> QED
  BY <1>1 DEF ShopInv, Typed, CacheToken, CachesGrow

LEMMA CheckTokenKeeps ==
  ASSUME ShopInv, NEW p \in Proc, CheckToken(p)
  PROVE  ShopInv'
<1>1. pc[p] = "check" /\ Request(p) /\ call[p] = NoCall
  BY DEF CheckToken, ShopInv, Request, Calls
<1>2. CASE Cached(p) # NULL /\ Goto(p, "handle") /\ UNCHANGED <<tokenCache, call, net>>
  <2>1. call' = [call EXCEPT ![p] = NoCall]
    BY <1>1, <1>2 DEF ShopInv, Typed
  <2> QED
    BY <1>1, <1>2, <2>1, CachesStay, HandleKeeps DEF Cached
<1>3. CASE CallRedis(p, "checking", [op |-> "GetToken", token |-> req[p].token])
  BY <1>1, <1>3, CallKeeps DEF Fits
<1> QED
  BY <1>2, <1>3 DEF CheckToken

LEMMA TokenReadKeeps ==
  ASSUME ShopInv, NEW p \in Proc, TokenRead(p)
  PROVE  ShopInv'
<1>1. /\ pc[p] = "checking" /\ Request(p) /\ req[p] \in Requests /\ srv[p] \in Server
      /\ req[p].token \in Token
  BY FieldsOfRequests DEF TokenRead, ShopInv, Request, Stage
<1>2. CASE Refuse(p, 401, "INVALID_ACCESS_TOKEN")
  BY <1>1, <1>2, RefuseKeeps
<1>3. CASE /\ Val(p) # NULL
           /\ CacheToken(p, req[p].token, Val(p))
           /\ call' = [call EXCEPT ![p] = NoCall]
           /\ Goto(p, "handle")
           /\ UNCHANGED net
  <2>1. Owns(req[p].token, Val(p))
    BY <1>1, <1>3 DEF Request, Replies, Val
  <2>2. CachesGrow /\ tokenCache'[srv[p]][req[p].token] = Val(p)
    BY <1>1, <1>3, <2>1, CacheTokenGrows
  <2> QED
    BY <1>1, <1>3, <2>2, HandleKeeps
<1> QED
  BY <1>2, <1>3 DEF TokenRead

\* The handlers of main.go but for the ends of a process.
HandlerSteps(p) ==
  \/ CheckToken(p) \/ TokenRead(p)
  \/ PostLogin(p) \/ LoggedIn(p)
  \/ CreateCart(p) \/ CartCreated(p)
  \/ CartAddFood(p) \/ FoodAdded(p)
  \/ PostOrder(p) \/ OrderPosted(p)
  \/ GetOrder(p) \/ OrderIdRead(p) \/ OrderItemsRead(p)
  \/ AdminGetOrder(p) \/ AdminQueried(p)

LEMMA HandlerStepsKeep ==
  ASSUME ShopInv, NEW p \in Proc, HandlerSteps(p)
  PROVE  ShopInv'
<1>1. Request(p)
  BY DEF ShopInv
<1>2. CASE CheckToken(p) \/ TokenRead(p)
  BY <1>2, CheckTokenKeeps, TokenReadKeeps
<1>3. CASE PostLogin(p)
  <2>1. CASE Refuse(p, 403, "USER_AUTH_FAIL")
    BY <1>3, <2>1, RefuseKeeps DEF PostLogin, At
  <2>2. CASE /\ req[p].user \in User
             /\ \E t \in Token : DrawAndCall(p, t, [op |-> "SetToken", token |-> t, user |-> req[p].user])
    <3>1. PICK t \in Token : DrawAndCall(p, t, [op |-> "SetToken", token |-> t, user |-> req[p].user])
      BY <2>2
    <3> QED
      BY <1>3, <2>2, <3>1, DrawKeeps DEF PostLogin, At, Carries
  <2> QED
    BY <1>3, <2>1, <2>2 DEF PostLogin
<1>4. CASE LoggedIn(p)
  <2>1. /\ pc[p] = "call" /\ req[p].kind = "login" /\ req[p].user \in User /\ drawn[p] \in Token
        /\ srv[p] \in Server
    BY <1>1, <1>4 DEF LoggedIn, Returned, At, Request, Stage, Calls, Writes
  <2>2. Owns(drawn[p], req[p].user) /\ req[p].user # NULL /\ drawn[p] # NULL
    BY <2>1, StoreAssumption, ShopAssumption DEF Owns, Draws
  <2>3. CachesGrow
    BY <1>4, <2>1, <2>2, CacheTokenGrows DEF LoggedIn
  <2> QED
    BY <1>4, <2>1, <2>3, AnswerKeeps DEF LoggedIn
<1>5. CASE CreateCart(p)
  <2>1. PICK c \in Cart : DrawAndCall(p, c, [op |-> "SetCartUser", cart |-> c, user |-> Cached(p)])
    BY <1>5 DEF CreateCart
  <2> QED
    BY <1>5, <2>1, DrawKeeps DEF CreateCart, At, Carries
<1>6. CASE CartCreated(p)
  BY <1>6, AnswerKeeps, CachesStay DEF CartCreated, Returned, At
<1>7. CASE CartAddFood(p)
  <2>1. CASE Refuse(p, 404, "FOOD_NOT_FOUND")
    BY <1>7, <2>1, RefuseKeeps DEF CartAddFood, At
  <2>2. CASE /\ req[p].food \in Food
             /\ CallRedis(p, "call", [op |-> "AddFood", token |-> req[p].token, cart |-> req[p].cart,
                                      food |-> req[p].food, count |-> req[p].count])
    <3>1. req[p] \in Requests
      BY <1>1, <1>7 DEF CartAddFood, At, Request, Stage
    <3> QED
      BY <1>7, <2>2, <3>1, CallKeeps DEF CartAddFood, At, Fits, IsWrite, Writes
  <2> QED
    BY <1>7, <2>1, <2>2 DEF CartAddFood
<1>8. CASE FoodAdded(p)
  BY <1>8, RefuseKeeps, ZenonT(60) DEF FoodAdded, Returned, At
<1>9. CASE PostOrder(p)
  <2>1. PICK o \in OrderId : DrawAndCall(p, o, [op |-> "PlaceOrder", cart |-> req[p].cart,
                                                id |-> o, token |-> req[p].token])
    BY <1>9 DEF PostOrder
  <2> QED
    BY <1>9, <2>1, DrawKeeps DEF PostOrder, At, Carries
<1>10. CASE OrderPosted(p)
  <2>1. /\ pc[p] = "call" /\ req[p].kind = "order" /\ call[p].state = "replied"
        /\ drawn[p] \in OrderId /\ drawn[p] # NULL
    BY <1>1, <1>10, StoreAssumption
       DEF OrderPosted, Returned, At, Finished, Failed, Request, Calls, Writes
  <2>2. CASE Val(p) = OK /\ Answer(p, 200, drawn[p], {drawn[p]}) /\ UNCHANGED tokenCache
    BY <1>1, <2>1, <2>2, AnswerKeeps, CachesStay DEF Request, Replies, Val
  <2>3. CASE \E status \in {401, 403, 404} : \E why : Refuse(p, status, why)
    BY <2>1, <2>3, RefuseKeeps
  <2> QED
    BY <1>10, <2>2, <2>3 DEF OrderPosted
<1>11. CASE GetOrder(p)
  BY <1>11, CallKeeps DEF GetOrder, At, Fits, IsWrite
<1>12. CASE OrderIdRead(p)
  <2>1. pc[p] = "call" /\ req[p].kind = "orders"
    BY <1>12 DEF OrderIdRead, Returned, At
  <2>2. CASE Refuse(p, 200, {})
    BY <2>1, <2>2, RefuseKeeps
  <2>3. CASE CallRedis(p, "items", [op |-> "GetItems", id |-> Val(p)])
    BY <2>1, <2>3, CallKeeps DEF Fits, IsWrite
  <2> QED
    BY <1>12, <2>2, <2>3 DEF OrderIdRead
<1>13. CASE OrderItemsRead(p)
  <2>1. PICK body : Refuse(p, 200, body)
    BY <1>13 DEF OrderItemsRead
  <2> QED
    BY <1>13, <2>1, RefuseKeeps DEF OrderItemsRead, At
<1>14. CASE AdminGetOrder(p)
  BY <1>14, CallKeeps DEF AdminGetOrder, At, Fits, IsWrite
<1>15. CASE AdminQueried(p)
  BY <1>15, RefuseKeeps DEF AdminQueried, Returned, At
<1> QED
  BY <1>2, <1>3, <1>4, <1>5, <1>6, <1>7, <1>8, <1>9, <1>10, <1>11, <1>12, <1>13, <1>14, <1>15
     DEF HandlerSteps
-----------------------------------------------------------------------------
(* Attempts that fail, and processes that end.                             *)

\* A call goes on with another attempt of the same command, or fails.
LEMMA AttemptKeeps ==
  ASSUME ShopInv, NEW p \in Proc, pc[p] \in {"checking", "call", "items"},
         NEW c, c = [cmd |-> call[p].cmd, try |-> c.try, state |-> c.state, val |-> NULL],
         c.state # "replied",
         call' = [call EXCEPT ![p] = c],
         \A m \in net' : m \in net \/ (m.proc = p /\ m.cmd = call[p].cmd),
         UNCHANGED <<redisVars, tokenCache, pc, srv, req, drawn, answer>>
  PROVE  ShopInv'
<1>1. call'[p] = c /\ \A q \in Proc \ {p} : Same(q)
  BY DEF ShopInv, Typed, Same
<1>2. Alone(p) /\ Grows
  BY <1>1, CachesStay DEF Alone, Grows, redisVars
<1>3. Typed'
  BY <1>1 DEF ShopInv, Typed
<1>4. Request(p)
  BY DEF ShopInv
<1>5. IsWrite(call[p].cmd) => Writes(p, call[p].cmd)
  BY <1>4 DEF Request, Calls, IsWrite
<1>6. \A cmd : \A q \in Proc : Writes(q, cmd) => Writes(q, cmd)'
  BY <1>2, WritesStay
<1>7. DrawsDiffer' /\ Messages'
  BY <1>5, <1>6 DEF ShopInv, DrawsDiffer, Messages
<1>8. Request(p)'
  <2>1. Stage(p)' /\ Promise(p)'
    BY <1>4 DEF Request, Stage, Cached, Promise, Answered, Done, redisVars
  <2>2. c.cmd = call[p].cmd /\ c.val = NULL
    OBVIOUS
  <2>3. Calls(p)'
    BY <1>1, <1>4, <1>6, <2>2 DEF Request, Calls
  <2>4. Replies(p)'
    BY <1>1, <2>2 DEF Replies
  <2> QED
    BY <2>1, <2>3, <2>4 DEF Request
<1> QED
  BY <1>2, <1>3, <1>7, <1>8, AloneKeeps

LEMMA FailuresKeep ==
  ASSUME ShopInv, NEW p \in Proc, NetworkError(p) \/ NoConnection(p)
  PROVE  ShopInv'
<1> DEFINE c == call[p]
<1>1. /\ c = [cmd |-> c.cmd, try |-> c.try, state |-> c.state, val |-> c.val]
      /\ Request(p)
  BY DEF ShopInv, Typed
<1>2. c.state \in {"sent", "replied"}
  BY DEF NetworkError, NoConnection
<1>3. pc[p] \in {"checking", "call", "items"}
  BY <1>1, <1>2 DEF Request, Calls, NoCall, ShopInv, Typed, Stages
<1>4. CASE NetworkError(p)
  <2> DEFINE next == [c EXCEPT !.try = @ + 1, !.state = "sent", !.val = NULL]
             d == IF c.try < MaxRetries THEN next ELSE [c EXCEPT !.state = "failed", !.val = NULL]
  <2>1. /\ call' = [call EXCEPT ![p] = d]
        /\ \A m \in net' : m \in net \/ m = Attempt(p, next)
        /\ UNCHANGED <<redisVars, tokenCache, pc, srv, req, drawn, answer>>
    BY <1>4 DEF NetworkError
  <2>2. next.cmd = c.cmd /\ Attempt(p, next).proc = p /\ Attempt(p, next).cmd = c.cmd
    BY <1>1 DEF Attempt
  <2>3. /\ d = [cmd |-> c.cmd, try |-> d.try, state |-> d.state, val |-> NULL]
        /\ d.state # "replied"
    BY <1>1
  <2> HIDE DEF d, next
  <2> QED
    BY <1>3, <2>1, <2>2, <2>3, AttemptKeeps
<1>5. CASE NoConnection(p)
  <2> DEFINE d == [c EXCEPT !.state = "failed"]
  <2>1. /\ call' = [call EXCEPT ![p] = d]
        /\ \A m \in net' : m \in net
        /\ UNCHANGED <<redisVars, tokenCache, pc, srv, req, drawn, answer>>
    BY <1>5 DEF NoConnection, ShopInv, Typed
  <2>2. c.val = NULL
    BY <1>1, <1>5 DEF NoConnection, Request, Replies
  <2>3. /\ d = [cmd |-> c.cmd, try |-> d.try, state |-> d.state, val |-> NULL]
        /\ d.state # "replied"
    BY <1>1, <2>2
  <2> HIDE DEF d
  <2> QED
    BY <1>3, <2>1, <2>3, AttemptKeeps
<1> QED
  BY <1>4, <1>5

\* A process ends with its handlers and its cache; Redis keeps what it has,
\* and messages are still under way.
LEMMA DieKeeps ==
  ASSUME ShopInv, NEW s \in Server, Die(s)
  PROVE  ShopInv'
<1> DEFINE lost == {p \in Proc : srv[p] = s /\ pc[p] # "done"}
<1>1. /\ \A p \in lost : /\ pc'[p] = "done" /\ call'[p] = NoCall
                         /\ answer'[p] = [status |-> 0, body |-> "closed"]
      /\ \A p \in Proc \ lost : Same(p)
      /\ UNCHANGED <<redisVars, srv, req, drawn, net>>
  BY DEF ShopInv, Typed, Die, Same
<1>2. \A p \in Proc : pc[p] = "idle" => p \notin lost
  BY ShopAssumption DEF ShopInv, Request, Stage
<1>3. Grows
  BY <1>1 DEF Grows, redisVars, Same
<1>4. IInv' /\ Tallies'
  BY <1>1, NextIInv, NextTallies DEF ShopInv
<1>5. Typed'
  BY DEF ShopInv, Typed, Stages, Die, NoCall
<1>6. DrawsDiffer' /\ Messages'
  BY <1>1, <1>3, MessagesStay DEF ShopInv, DrawsDiffer
<1>7. Origins'
  <2>1. \A r \in Server, t \in Token : tokenCache'[r][t] \in {NULL, tokenCache[r][t]}
    BY DEF ShopInv, Typed, Die
  <2> QED
    BY <1>1, <1>3, <2>1, OriginsStay
<1>8. ASSUME NEW p \in lost PROVE Request(p)'
  <2>1. Request(p)
    BY DEF ShopInv
  <2> QED
    BY <1>1, <1>2, <2>1 DEF Request, Stage, Calls, Replies, Promise, Answered, Done, NoCall
<1>9. ASSUME NEW p \in Proc \ lost PROVE Request(p)'
  <2>1. KeepsCached(p)
    BY DEF ShopInv, Typed, KeepsCached, Cached, Die
  <2> QED
    BY <1>1, <1>3, <2>1, RequestStays
<1> QED
  BY <1>4, <1>5, <1>6, <1>7, <1>8, <1>9 DEF ShopInv

-----------------------------------------------------------------------------
(* Redis executes an attempt, of whichever age.                            *)

\* What a message does is one of the steps of RedisStore.  The ids it carries
\* are its request's: a token or a cart id that has a user has this one, and
\* an order id that is recorded was recorded for this user, whose next order
\* place_order.lua refuses.
LEMMA EffectIsStep ==
  ASSUME ShopInv, NEW m \in net, Effect(m.cmd)
  PROVE  /\ [RedisStep]_redisVars
         /\ \A t \in Token : tokenUser[t] # NULL => tokenUser'[t] = tokenUser[t]
         /\ \A c \in Cart : cartUser[c] # NULL => cartUser'[c] = cartUser[c]
         /\ \A o \in OrderId : orderUser[o] # NULL => orderUser'[o] = orderUser[o]
         /\ \A t \in Token : tokenUser'[t] # NULL => Owns(t, tokenUser'[t])
         /\ \A c \in Cart : cartUser'[c] # NULL =>
              \E q \in Proc : Draws(q, "carts", c) /\ Owns(req[q].token, cartUser'[c])
         /\ \A o \in OrderId : orderUser'[o] # NULL =>
              \E q \in Proc : /\ Draws(q, "order", o)
                              /\ tokenUser'[req[q].token] = orderUser'[o]
                              /\ cartUser'[req[q].cart] = orderUser'[o]
<1> DEFINE p == m.proc
<1>1. p \in Proc /\ (IsWrite(m.cmd) => Writes(p, m.cmd)) /\ Request(p)
  BY DEF ShopInv, Messages
<1>2. CASE ~ IsWrite(m.cmd)
  <2>1. UNCHANGED redisVars
    BY <1>2 DEF Effect, IsWrite
  <2> QED
    BY <2>1 DEF redisVars, ShopInv, Origins
<1>3. CASE IsWrite(m.cmd)
  <2>1. Writes(p, m.cmd) /\ pc[p] # "idle" /\ req[p] \in Requests
    BY <1>1, <1>3 DEF Writes, Request, Stage
  <2> DEFINE rq == req[p]
  <2>2. CASE rq.kind = "login"
    <3> DEFINE t == drawn[p]
               u == rq.user
    <3>1. /\ SetToken(t, u) /\ t \in Token /\ u \in User /\ t # NULL
      BY <1>3, <2>1, <2>2, ShopAssumption DEF Writes, Effect
    <3>2. Owns(t, u)
      BY <1>1, <2>2, <3>1 DEF Owns, Draws
    <3>3. tokenUser[t] \in {NULL, u}
      BY <3>1, <3>2, OwnerIsOne DEF ShopInv, Origins
    <3>4. RedisStep
      BY <3>1, <3>3 DEF RedisStep, RedisNext
    <3>5. /\ tokenUser' = [tokenUser EXCEPT ![t] = u] /\ tokenUser \in [Token -> User \cup {NULL}]
          /\ UNCHANGED <<cartUser, orderUser>>
      BY <3>1 DEF SetToken, ShopInv, IInv, TypeOK
    <3>6. \A x \in Token : tokenUser[x] # NULL => tokenUser'[x] = tokenUser[x]
      BY <3>3, <3>5
    <3>7. \A x \in Token : tokenUser'[x] # NULL => Owns(x, tokenUser'[x])
      BY <3>2, <3>5 DEF ShopInv, Origins
    <3>8. \A o \in OrderId : orderUser'[o] # NULL =>
             \E q \in Proc : /\ Draws(q, "order", o)
                             /\ tokenUser'[req[q].token] = orderUser'[o]
                             /\ cartUser'[req[q].cart] = orderUser'[o]
      <4> SUFFICES ASSUME NEW o \in OrderId, orderUser[o] # NULL
                   PROVE  \E q \in Proc : /\ Draws(q, "order", o)
                                          /\ tokenUser'[req[q].token] = orderUser[o]
                                          /\ cartUser[req[q].cart] = orderUser[o]
        BY <3>5
      <4>1. PICK q \in Proc : /\ Draws(q, "order", o)
                              /\ tokenUser[req[q].token] = orderUser[o]
                              /\ cartUser[req[q].cart] = orderUser[o]
        BY DEF ShopInv, Origins
      <4>2. req[q] \in Requests
        BY <4>1 DEF ShopInv, Request, Stage, Draws, Typed, Stages
      <4>3. req[q].token \in Token
        BY <4>1, <4>2, FieldsOfRequests DEF Draws
      <4> QED
        BY <3>6, <4>1, <4>3
    <3>9. \A c \in Cart : cartUser'[c] # NULL =>
             \E q \in Proc : Draws(q, "carts", c) /\ Owns(req[q].token, cartUser'[c])
      BY <3>5 DEF ShopInv, Origins
    <3> QED
      BY <3>4, <3>5, <3>6, <3>7, <3>8, <3>9
  <2>3. CASE rq.kind = "carts"
    <3> DEFINE c == drawn[p]
    <3>0. PICK u \in User : /\ c \in Cart /\ Owns(rq.token, u)
                            /\ m.cmd = [op |-> "SetCartUser", cart |-> c, user |-> u]
      BY <2>1, <2>3 DEF Writes
    <3>1. SetCartUser(c, u) /\ c \in Cart /\ c # NULL /\ Owns(rq.token, u)
      BY <1>3, <3>0, ShopAssumption DEF Effect
    <3>2. Draws(p, "carts", c)
      BY <2>3, <3>1 DEF Draws
    <3>3. cartUser[c] \in {NULL, u}
      <4> SUFFICES ASSUME cartUser[c] # NULL PROVE cartUser[c] = u
        OBVIOUS
      <4>1. PICK q \in Proc : Draws(q, "carts", c) /\ Owns(req[q].token, cartUser[c])
        BY <3>1 DEF ShopInv, Origins
      <4>2. q = p
        BY <1>1, <3>2, <4>1 DEF ShopInv, DrawsDiffer, Draws
      <4> QED
        BY <3>1, <4>1, <4>2, OwnerIsOne DEF ShopInv
    <3>4. RedisStep
      BY <3>1, <3>3 DEF RedisStep, RedisNext
    <3>5. /\ cartUser' = [cartUser EXCEPT ![c] = u] /\ cartUser \in [Cart -> User \cup {NULL}]
          /\ UNCHANGED <<tokenUser, orderUser>>
      BY <3>1 DEF SetCartUser, ShopInv, IInv, TypeOK
    <3>6. \A x \in Cart : cartUser[x] # NULL => cartUser'[x] = cartUser[x]
      BY <3>3, <3>5
    <3>7. \A x \in Cart : cartUser'[x] # NULL =>
             \E q \in Proc : Draws(q, "carts", x) /\ Owns(req[q].token, cartUser'[x])
      BY <1>1, <3>1, <3>2, <3>5 DEF ShopInv, Origins
    <3>8. \A o \in OrderId : orderUser'[o] # NULL =>
             \E q \in Proc : /\ Draws(q, "order", o)
                             /\ tokenUser'[req[q].token] = orderUser'[o]
                             /\ cartUser'[req[q].cart] = orderUser'[o]
      <4> SUFFICES ASSUME NEW o \in OrderId, orderUser[o] # NULL
                   PROVE  \E q \in Proc : /\ Draws(q, "order", o)
                                          /\ tokenUser[req[q].token] = orderUser[o]
                                          /\ cartUser'[req[q].cart] = orderUser[o]
        BY <3>5
      <4>1. PICK q \in Proc : /\ Draws(q, "order", o)
                              /\ tokenUser[req[q].token] = orderUser[o]
                              /\ cartUser[req[q].cart] = orderUser[o]
        BY DEF ShopInv, Origins
      <4>2. req[q] \in Requests
        BY <4>1 DEF ShopInv, Request, Stage, Draws, Typed, Stages
      <4>3. req[q].cart \in Cart
        BY <4>1, <4>2, FieldsOfRequests DEF Draws
      <4> QED
        BY <3>6, <4>1, <4>3
    <3>9. \A t \in Token : tokenUser'[t] # NULL => Owns(t, tokenUser'[t])
      BY <3>5 DEF ShopInv, Origins
    <3> QED
      BY <3>4, <3>5, <3>6, <3>7, <3>8, <3>9
  <2>4. CASE rq.kind = "patch"
    <3>1. /\ AddFood(rq.token, rq.cart, rq.food, rq.count)
          /\ rq.token \in Token /\ rq.cart \in Cart /\ rq.food \in Food /\ rq.count \in Counts
      BY <1>3, <2>1, <2>4, FieldsOfRequests DEF Writes, Effect
    <3>2. UNCHANGED <<tokenUser, cartUser, orderUser>>
      BY <3>1 DEF AddFood
    <3> QED
      BY <3>1, <3>2 DEF RedisStep, ShopInv, Origins
  <2>5. CASE rq.kind = "order"
    <3> DEFINE o == drawn[p]
               u == cartUser[rq.cart]
    <3>1. /\ PlaceOrder(rq.cart, o, rq.token)
          /\ rq.token \in Token /\ rq.cart \in Cart /\ o \in OrderId /\ o # NULL
      BY <1>3, <2>1, <2>5, FieldsOfRequests, StoreAssumption DEF Writes, Effect
    <3>2. Draws(p, "order", o)
      BY <2>5, <3>1 DEF Draws
    <3>3. ASSUME PlaceOrderReply(rq.cart, rq.token) = OK
          PROVE  /\ orderUser[o] = NULL /\ u # NULL /\ u \in User
                 /\ tokenUser[rq.token] = u
      <4>1. u # NULL /\ tokenUser[rq.token] = u /\ userOrder[u] = NULL
        BY <3>3 DEF PlaceOrderReply, OK, CartNotFound, NotAuthorized, OrderLimited, OutOfStock
      <4>2. u \in User
        BY <3>1, <4>1 DEF ShopInv, IInv, TypeOK
      <4>3. ASSUME orderUser[o] # NULL PROVE FALSE
        <5>1. PICK q \in Proc : Draws(q, "order", o) /\ cartUser[req[q].cart] = orderUser[o]
          BY <3>1, <4>3 DEF ShopInv, Origins
        <5>2. q = p
          BY <1>1, <3>2, <5>1 DEF ShopInv, DrawsDiffer, Draws
        <5>3. userOrder[u] = o
          BY <3>1, <4>3, <5>1, <5>2 DEF ShopInv, IInv, IndexesAgree
        <5> QED
          BY <3>1, <4>1, <5>3
      <4> QED
        BY <4>1, <4>2, <4>3
    <3>4. RedisStep
      BY <3>1, <3>3 DEF RedisStep, RedisNext
    <3>5. UNCHANGED <<tokenUser, cartUser>>
      BY <3>1 DEF PlaceOrder
    <3>6. CASE UNCHANGED orderUser
      BY <3>4, <3>5, <3>6 DEF ShopInv, Origins
    <3>7. CASE PlaceOrderReply(rq.cart, rq.token) = OK /\ RecordOrder(rq.cart, o, u)
      <4>1. orderUser' = [orderUser EXCEPT ![o] = u] /\ orderUser \in [OrderId -> User \cup {NULL}]
        BY <3>7 DEF RecordOrder, ShopInv, IInv, TypeOK
      <4>2. \A x \in OrderId : orderUser'[x] # NULL =>
               \E q \in Proc : /\ Draws(q, "order", x)
                               /\ tokenUser[req[q].token] = orderUser'[x]
                               /\ cartUser[req[q].cart] = orderUser'[x]
        <5> SUFFICES ASSUME NEW x \in OrderId, orderUser'[x] # NULL
                     PROVE  \E q \in Proc : /\ Draws(q, "order", x)
                                            /\ tokenUser[req[q].token] = orderUser'[x]
                                            /\ cartUser[req[q].cart] = orderUser'[x]
          OBVIOUS
        <5>1. CASE x = o
          BY <1>1, <3>1, <3>2, <3>3, <3>7, <4>1, <5>1
        <5>2. CASE x # o
          BY <4>1, <5>2 DEF ShopInv, Origins
        <5> QED
          BY <5>1, <5>2
      <4> QED
        BY <3>3, <3>4, <3>5, <3>7, <4>1, <4>2 DEF ShopInv, Origins
    <3> QED
      BY <3>1, <3>6, <3>7 DEF PlaceOrder
  <2> QED
    BY <2>1, <2>2, <2>3, <2>4, <2>5 DEF Writes
<1> QED
  BY <1>2, <1>3
LEMMA ExecuteKeeps ==
  ASSUME ShopInv, NEW m \in net, Execute(m)
  PROVE  ShopInv' /\ [RedisStep]_redisVars
<1> DEFINE p == m.proc
           rq == req[p]
           matched == call[p].state = "sent" /\ m = Attempt(p, call[p])
<1>1. /\ Effect(m.cmd) /\ net' = net \ {m}
      /\ UNCHANGED <<tokenCache, pc, srv, req, drawn, answer>>
      /\ \/ /\ matched
            /\ call' = [call EXCEPT ![p].state = "replied", ![p].val = ReplyTo(m.cmd)]
         \/ ~ matched /\ call' = call
  BY DEF Execute
<1>2. /\ [RedisStep]_redisVars
      /\ \A t \in Token : tokenUser[t] # NULL => tokenUser'[t] = tokenUser[t]
      /\ \A c \in Cart : cartUser[c] # NULL => cartUser'[c] = cartUser[c]
      /\ \A o \in OrderId : orderUser[o] # NULL => orderUser'[o] = orderUser[o]
      /\ \A t \in Token : tokenUser'[t] # NULL => Owns(t, tokenUser'[t])
      /\ \A c \in Cart : cartUser'[c] # NULL =>
           \E q \in Proc : Draws(q, "carts", c) /\ Owns(req[q].token, cartUser'[c])
      /\ \A o \in OrderId : orderUser'[o] # NULL =>
           \E q \in Proc : /\ Draws(q, "order", o)
                           /\ tokenUser'[req[q].token] = orderUser'[o]
                           /\ cartUser'[req[q].cart] = orderUser'[o]
  BY <1>1, EffectIsStep
<1>3. p \in Proc /\ (IsWrite(m.cmd) => Writes(p, m.cmd)) /\ Request(p)
  BY DEF ShopInv, Messages
<1>4. Grows
  BY <1>1, <1>2 DEF Grows
<1>5. IInv' /\ Tallies'
  BY <1>2, NextIInv, NextTallies DEF ShopInv
<1>6. Typed'
  BY <1>1, <1>3 DEF ShopInv, Typed
<1>7. DrawsDiffer' /\ Messages'
  BY <1>1, <1>4, MessagesStay DEF ShopInv, DrawsDiffer
<1>8. Origins'
  <2>1. \A q \in Proc : \A kind, id : Draws(q, kind, id) <=> Draws(q, kind, id)'
    BY <1>1 DEF Draws
  <2>2. \A t, u : Owns(t, u) <=> Owns(t, u)'
    BY <1>1, <2>1 DEF Owns
  <2> QED
    BY <1>1, <1>2, <2>1, <2>2 DEF ShopInv, Origins
<1>9. ASSUME NEW q \in Proc, call'[q] = call[q] PROVE Request(q)'
  <2>1. Same(q) /\ KeepsCached(q)
    BY <1>1, <1>9 DEF Same, KeepsCached, Cached
  <2> QED
    BY <1>4, <2>1, RequestStays
<1>10. ASSUME matched PROVE Request(p)'
  <2>1. /\ call'[p] = [cmd |-> call[p].cmd, try |-> call[p].try,
                       state |-> "replied", val |-> ReplyTo(m.cmd)]
        /\ m.cmd = call[p].cmd
    BY <1>1, <1>3, <1>10 DEF ShopInv, Typed, Attempt
  <2>2. Stage(p)' /\ Promise(p)'
    <3>1. drawn[p] \in OrderId /\ orderUser[drawn[p]] # NULL => orderUser'[drawn[p]] # NULL
      BY <1>2
    <3>2. pc[p] # "idle" => req[p] \in Requests
      BY <1>3 DEF Request, Stage
    <3> QED
      BY <1>1, <1>3, <3>1 DEF Request, Stage, Cached, Promise, Answered, Done
  <2>3. pc[p] \in {"checking", "call", "items"}
    BY <1>3, <1>10 DEF Request, Calls, NoCall, ShopInv, Typed, Stages
  <2>4. \A cmd : Writes(p, cmd) => Writes(p, cmd)'
    BY <1>3, <1>4, WritesStay
  <2>5. Calls(p)'
    BY <1>1, <1>3, <2>1, <2>3, <2>4 DEF Request, Calls
  <2>6. Replies(p)'
    <3>1. CASE pc[p] = "checking"
      <4>1. req[p] \in Requests /\ m.cmd = [op |-> "GetToken", token |-> rq.token] /\ rq.token \in Token
        BY <1>3, <2>1, <3>1, FieldsOfRequests DEF Request, Stage, Calls
      <4>2. ReplyTo(m.cmd) = tokenUser[rq.token]
        BY <4>1 DEF ReplyTo
      <4>3. tokenUser[rq.token] # NULL => Owns(rq.token, tokenUser[rq.token])
        BY <4>1 DEF ShopInv, Origins
      <4>4. \A t, u : Owns(t, u) => Owns(t, u)'
        BY <1>4, OwnsStays
      <4> QED
        BY <1>1, <2>1, <3>1, <4>2, <4>3, <4>4 DEF Replies
    <3>2. CASE pc[p] = "call" /\ rq.kind = "order"
      <4>1. /\ m.cmd = [op |-> "PlaceOrder", cart |-> rq.cart, id |-> drawn[p], token |-> rq.token]
            /\ drawn[p] \in OrderId /\ rq.cart \in Cart
        BY <1>3, <2>1, <3>2, FieldsOfRequests DEF Request, Stage, Calls, Writes
      <4>2. ReplyTo(m.cmd) = PlaceOrderReply(rq.cart, rq.token) /\ PlaceOrder(rq.cart, drawn[p], rq.token)
        BY <1>1, <4>1 DEF ReplyTo, Effect, IsWrite
      <4>3. ASSUME PlaceOrderReply(rq.cart, rq.token) = OK PROVE orderUser'[drawn[p]] # NULL
        <5>1. RecordOrder(rq.cart, drawn[p], cartUser[rq.cart])
          BY <4>2, <4>3 DEF PlaceOrder
        <5>2. cartUser[rq.cart] # NULL
          BY <4>3 DEF PlaceOrderReply, OK, CartNotFound
        <5> QED
          BY <4>1, <5>1, <5>2 DEF RecordOrder, ShopInv, IInv, TypeOK
      <4> QED
        BY <1>1, <2>1, <3>2, <4>2, <4>3 DEF Replies
    <3>3. CASE pc[p] # "checking" /\ ~ (pc[p] = "call" /\ rq.kind = "order")
      BY <1>1, <2>1, <3>3 DEF Replies
    <3> QED
      BY <3>1, <3>2, <3>3
  <2> QED
    BY <2>2, <2>5, <2>6 DEF Request
<1>11. \A q \in Proc : call'[q] = call[q] \/ (q = p /\ matched)
  BY <1>1, <1>3 DEF ShopInv, Typed
<1>12. \A q \in Proc : Request(q)'
  BY <1>9, <1>10, <1>11
<1> QED
  BY <1>2, <1>5, <1>6, <1>7, <1>8, <1>12 DEF ShopInv

-----------------------------------------------------------------------------
(* The results.                                                            *)

LEMMA InitShopInv == RedisInit /\ ShopInit => ShopInv
<1> SUFFICES ASSUME RedisInit, ShopInit PROVE ShopInv
  OBVIOUS
<1>1. IInv /\ Tallies
  BY InitIInv, InitTallies
<1>2. Typed
  BY DEF ShopInit, Typed, Stages, NoCall
<1>3. DrawsDiffer /\ Messages
  BY DEF ShopInit, DrawsDiffer, Messages
<1>4. Origins
  BY DEF RedisInit, ShopInit, Origins
<1>5. ASSUME NEW p \in Proc PROVE Request(p)
  BY DEF ShopInit, Request, Stage, Calls, Replies, Promise, Answered, Done, NoCall
<1> QED
  BY <1>1, <1>2, <1>3, <1>4, <1>5 DEF ShopInv

\* Every step of the shop keeps the invariant, and is one of the steps of
\* RedisStore or leaves Redis alone.
LEMMA NextShopInv == ShopInv /\ [ShopNext]_shopVars => ShopInv' /\ [RedisStep]_redisVars
<1> SUFFICES ASSUME ShopInv, [ShopNext]_shopVars PROVE ShopInv' /\ [RedisStep]_redisVars
  OBVIOUS
<1>1. CASE UNCHANGED shopVars
  <2>1. UNCHANGED redisVars
    BY <1>1 DEF shopVars
  <2>2. IInv' /\ Tallies'
    BY <2>1, NextIInv, NextTallies DEF ShopInv
  <2>3. Grows /\ \A p \in Proc : Same(p) /\ KeepsCached(p)
    BY <1>1 DEF shopVars, handlerVars, redisVars, Grows, Same, KeepsCached, Cached
  <2>4. Typed' /\ DrawsDiffer'
    BY <1>1 DEF shopVars, handlerVars, ShopInv, Typed, DrawsDiffer
  <2>5. Messages'
    BY <1>1, <2>3, MessagesStay DEF shopVars
  <2>6. Origins'
    BY <1>1, <2>1, <2>3, OriginsStay DEF shopVars
  <2>7. \A p \in Proc : Request(p)'
    BY <2>3, RequestStays
  <2> QED
    BY <2>1, <2>2, <2>4, <2>5, <2>6, <2>7 DEF ShopInv
<1>2. ASSUME NEW p \in Proc, NEW s \in Server, NEW rq \in Requests, Receive(p, s, rq)
      PROVE  ShopInv' /\ UNCHANGED redisVars
  BY <1>2, ReceiveKeeps DEF Receive
<1>3. ASSUME NEW m \in net, Execute(m) PROVE ShopInv' /\ [RedisStep]_redisVars
  BY <1>3, ExecuteKeeps
<1>4. ASSUME NEW p \in Proc, HandlerSteps(p) PROVE ShopInv' /\ UNCHANGED redisVars
  <2>1. UNCHANGED redisVars
    BY <1>4, ZenonT(60) DEF HandlerSteps, CheckToken, TokenRead, PostLogin, LoggedIn, CreateCart, CartCreated,
                CartAddFood, FoodAdded, PostOrder, OrderPosted, GetOrder, OrderIdRead,
                OrderItemsRead, AdminGetOrder, AdminQueried,
                Goto, CallRedis, DrawAndCall, Answer, Refuse
  <2> QED
    BY <1>4, <2>1, HandlerStepsKeep
<1>5. ASSUME NEW p \in Proc, NetworkError(p) \/ NoConnection(p)
      PROVE  ShopInv' /\ UNCHANGED redisVars
  BY <1>5, FailuresKeep DEF NetworkError, NoConnection
<1>6. ASSUME NEW s \in Server, Die(s) PROVE ShopInv' /\ UNCHANGED redisVars
  BY <1>6, DieKeeps DEF Die
<1>7. ASSUME NEW p \in Proc, Fatal(p) PROVE ShopInv' /\ UNCHANGED redisVars
  <2>1. srv[p] \in Server
    BY <1>7 DEF Fatal, Returned, At, ShopInv, Request, Stage
  <2> QED
    BY <1>6, <1>7, <2>1 DEF Fatal
<1>8. ASSUME NEW s \in Server, Crash(s) PROVE ShopInv' /\ UNCHANGED redisVars
  BY <1>6, <1>8 DEF Crash
<1> QED
  BY <1>1, <1>2, <1>3, <1>4, <1>5, <1>7, <1>8 DEF ShopNext, Handler, HandlerSteps

\* And no step takes back what a request is, drew or stored.
LEMMA NextGrows == ShopInv /\ [ShopNext]_shopVars => Grows
<1> SUFFICES ASSUME ShopInv, [ShopNext]_shopVars PROVE Grows
  OBVIOUS
<1>1. \A p \in Proc : /\ pc[p] \in {"idle", "handle"} => drawn[p] = NULL
                      /\ pc[p] = "idle" => srv[p] = NULL
  BY DEF ShopInv, Request, Stage
<1>2. CASE UNCHANGED shopVars
  BY <1>2 DEF shopVars, handlerVars, redisVars, Grows
<1>3. ASSUME NEW p \in Proc, NEW s \in Server, NEW rq \in Requests, Receive(p, s, rq) PROVE Grows
  BY <1>3 DEF Receive, Grows, redisVars, ShopInv, Typed
<1>4. ASSUME NEW m \in net, Execute(m) PROVE Grows
  BY <1>4, EffectIsStep DEF Execute, Grows
<1>5. ASSUME NEW p \in Proc, HandlerSteps(p) PROVE Grows
  <2>1. pc[p] # "idle" /\ UNCHANGED <<redisVars, req>>
    BY <1>5, ZenonT(60) DEF HandlerSteps, CheckToken, TokenRead, PostLogin, LoggedIn, CreateCart, CartCreated,
                CartAddFood, FoodAdded, PostOrder, OrderPosted, GetOrder, OrderIdRead,
                OrderItemsRead, AdminGetOrder, AdminQueried, At, Returned,
                Goto, CallRedis, DrawAndCall, Answer, Refuse
  <2>2. \E l \in Stages \ {"idle"} : pc' = [pc EXCEPT ![p] = l]
    BY <1>5, ZenonT(60) DEF HandlerSteps, CheckToken, TokenRead, PostLogin, LoggedIn, CreateCart, CartCreated,
                CartAddFood, FoodAdded, PostOrder, OrderPosted, GetOrder, OrderIdRead,
                OrderItemsRead, AdminGetOrder, AdminQueried,
                Goto, CallRedis, DrawAndCall, Answer, Refuse, Stages
  <2>3. UNCHANGED drawn \/ (pc[p] = "handle" /\ \E id : drawn' = [drawn EXCEPT ![p] = id])
    <3>1. CASE PostLogin(p)
      BY <3>1 DEF PostLogin, At, DrawAndCall, Refuse, Answer
    <3>2. CASE CreateCart(p)
      BY <3>2 DEF CreateCart, At, DrawAndCall
    <3>3. CASE PostOrder(p)
      BY <3>3 DEF PostOrder, At, DrawAndCall
    <3>4. CASE ~ PostLogin(p) /\ ~ CreateCart(p) /\ ~ PostOrder(p)
      BY <1>5, <3>4, ZenonT(60) DEF HandlerSteps, CheckToken, TokenRead, LoggedIn, CartCreated, CartAddFood,
                        FoodAdded, OrderPosted, GetOrder, OrderIdRead, OrderItemsRead,
                        AdminGetOrder, AdminQueried, Goto, CallRedis, Answer, Refuse
    <3> QED
      BY <3>1, <3>2, <3>3, <3>4
  <2>4. \A q \in Proc : pc[q] # "idle" => pc'[q] # "idle"
    BY <2>2 DEF ShopInv, Typed
  <2>5. \A q \in Proc : drawn[q] # NULL => drawn'[q] = drawn[q]
    <3>1. CASE UNCHANGED drawn
      BY <3>1
    <3>2. CASE pc[p] = "handle" /\ \E id : drawn' = [drawn EXCEPT ![p] = id]
      <4>1. PICK id : drawn' = [drawn EXCEPT ![p] = id]
        BY <3>2
      <4>2. drawn[p] = NULL
        BY <1>1, <3>2
      <4>3. DOMAIN drawn = Proc
        BY DEF ShopInv, Typed
      <4> QED
        BY <4>1, <4>2, <4>3
    <3> QED
      BY <2>3, <3>1, <3>2
  <2> QED
    BY <2>1, <2>4, <2>5 DEF Grows, redisVars
<1>6. ASSUME NEW p \in Proc, NetworkError(p) \/ NoConnection(p) PROVE Grows
  BY <1>6 DEF NetworkError, NoConnection, Grows, redisVars
<1>7. ASSUME NEW s \in Server, Die(s) PROVE Grows
  BY <1>7 DEF Die, Grows, redisVars
<1>8. ASSUME NEW p \in Proc, Fatal(p) PROVE Grows
  <2>1. srv[p] \in Server
    BY <1>8 DEF Fatal, Returned, At, ShopInv, Request, Stage
  <2> QED
    BY <1>7, <1>8, <2>1 DEF Fatal
<1>9. ASSUME NEW s \in Server, Crash(s) PROVE Grows
  BY <1>7, <1>9 DEF Crash
<1> QED
  BY <1>2, <1>3, <1>4, <1>5, <1>6, <1>8, <1>9 DEF ShopNext, Handler, HandlerSteps

\* The invariant, whatever is sent, drawn, repeated, lost, late or ended.
THEOREM ShopInvariant == ShopSpec => []ShopInv
  BY InitShopInv, NextShopInv, PTL DEF ShopSpec

\* The servers use Redis as RedisStore allows: no retry, late attempt or
\* crash gives an id a second user or records an order id twice.
THEOREM ServersUseRedis == ShopSpec => UsesRedis
  BY ShopInvariant, NextShopInv, PTL DEF ShopSpec, UsesRedis

\* So the sale of all servers together is the abstract sale: nothing is
\* oversold, lost, bought twice or above the limit, through retries of
\* POST /orders on any server.
THEOREM ShopImplementsSale == ShopSpec => ImplementsSale
<1>1. ShopInv => IInv /\ Tallies
  BY DEF ShopInv
<1> QED
  BY ShopInvariant, ServersUseRedis, InitSells, StepSells, <1>1, PTL
     DEF ShopSpec, UsesRedis, ImplementsSale, SaleOfStore!SaleSpec

\* And its safety properties are the shop's.
THEOREM ShopNeverOversells ==
  ShopSpec => [](NoOversell /\ AdminAgreesWithUsers /\ StockConserved /\ WithinLimit) /\ OrdersFrozen
<1>1. ShopInv => IInv /\ Tallies /\ NoOversell /\ AdminAgreesWithUsers /\ StockConserved /\ WithinLimit
  BY IndexesMakeViews DEF ShopInv, IInv, Tallies, WithinLimit, AdminQuery
<1> QED
  BY ShopInvariant, ServersUseRedis, StepFreezesOrders, <1>1, PTL
     DEF UsesRedis, OrdersFrozen

\* The token caches of the servers never attribute a token to another user
\* than Redis does.
THEOREM CachesNeverDisagree == ShopSpec => []CachesAgree
<1>1. ShopInv => CachesAgree
  BY OwnerIsOne DEF ShopInv, Origins, CachesAgree
<1> QED
  BY ShopInvariant, <1>1, PTL

\* An order that POST /orders answered with success is listed for its user,
\* for good.
THEOREM PromisesKept == ShopSpec => []AnsweredOrdersStand
<1>1. ShopInv => AnsweredOrdersStand
  <2> SUFFICES ASSUME ShopInv, NEW p \in Proc, Answered(p, "order", 200)
               PROVE  \E r \in AdminQuery : r.id = answer[p].body /\ r.user = OwnerOf(p)
    BY DEF AnsweredOrdersStand
  <2> DEFINE o == drawn[p]
  <2>1. o \in OrderId /\ o # NULL /\ answer[p].body = o /\ orderUser[o] # NULL
    BY DEF ShopInv, Request, Stage, Promise, Answered, Done
  <2>2. PICK q \in Proc : Draws(q, "order", o) /\ tokenUser[req[q].token] = orderUser[o]
    BY <2>1 DEF ShopInv, Origins
  <2>3. q = p
    BY <2>1, <2>2 DEF ShopInv, DrawsDiffer, Draws
  <2>4. [id |-> o, user |-> orderUser[o], items |-> order[o]] \in AdminQuery
    BY <2>1 DEF AdminQuery
  <2> QED
    BY <2>1, <2>2, <2>3, <2>4 DEF OwnerOf
<1> QED
  BY ShopInvariant, <1>1, PTL
-----------------------------------------------------------------------------
(* What they guarantee until the first network error or crash: every        *)
(* attempt is executed while its handler waits for it, and its reply is     *)
(* what the handler gets.                                                  *)

\* The orders the client of p was told of before, and may look for, are in ids.
Sees(p, ids) ==
  \A o \in OrderId \cap toldBefore[p] :
    req[p].kind = "admin" \/ orderUser[o] = OwnerOf(p) => o \in ids

\* The body of an answer is a part of the administrator's list.
Lists(p, body) == body \subseteq AdminQuery /\ Sees(p, {r.id : r \in body})

\* What a read command of p asks for at l.
AsksFor(p, l, cmd) ==
  /\ l = "call" /\ req[p].kind = "orders" => cmd = [op |-> "GetOrderId", user |-> OwnerOf(p)]
  /\ l = "call" /\ req[p].kind = "admin" => cmd = [op |-> "AdminQuery"]
  /\ l = "items" => \E o \in OrderId : /\ cmd = [op |-> "GetItems", id |-> o]
                                       /\ orderUser[o] = OwnerOf(p) /\ Sees(p, {o})

\* The reply of Redis is still true, or was when the request arrived.
Knows(p) ==
  LET v == Val(p)
  IN  call[p].state = "replied" =>
        /\ pc[p] = "checking" /\ v # NULL => tokenUser[req[p].token] = v
        /\ At(p, "call", "login") => tokenUser[drawn[p]] = req[p].user
        /\ At(p, "call", "carts") => cartUser[drawn[p]] = OwnerOf(p)
        /\ At(p, "call", "orders") =>
             Sees(p, {v}) /\ (v # NULL => v \in OrderId /\ orderUser[v] = OwnerOf(p))
        /\ At(p, "call", "admin") => Lists(p, v)
        /\ pc[p] = "items" => v = order[call[p].cmd.id]

\* The order of a call that has not succeeded is not recorded.
NotYet(p) ==
  At(p, "call", "order") /\ ~ (call[p].state = "replied" /\ Val(p) = OK)
    => orderUser[drawn[p]] = NULL

\* What an answer to p may say.
Truth(p, status, body) ==
  /\ req[p].kind = "login" /\ status = 200 =>
       body \in Token /\ tokenUser[body] = req[p].user /\ req[p].user \in User
  /\ req[p].kind = "carts" /\ status = 200 =>
       body \in Cart /\ cartUser[body] = OwnerOf(p) /\ OwnerOf(p) # NULL
  /\ req[p].kind = "orders" /\ status = 200 => Lists(p, body) /\ OwnerOf(p) # NULL
  /\ req[p].kind = "admin" /\ status = 200 => Lists(p, body)
  /\ req[p].kind = "order" /\ status # 200 /\ drawn[p] # NULL => orderUser[drawn[p]] = NULL

CalmRequest(p) ==
  /\ call[p].state \in {"none", "sent", "replied"}
  /\ AsksFor(p, pc[p], call[p].cmd)
  /\ Knows(p) /\ NotYet(p)
  /\ pc[p] = "done" => Truth(p, answer[p].status, answer[p].body)

\* Redis executes an attempt while its handler waits for it.
InStep == \A m \in net : call[m.proc].state = "sent" /\ m = Attempt(m.proc, call[m.proc])

\* A cached token is in Redis, an order id a client was told is recorded.
Known ==
  /\ \A s \in Server, t \in Token : tokenCache[s][t] # NULL => tokenUser[t] = tokenCache[s][t]
  /\ \A o \in OrderId \cap told : orderUser[o] # NULL
  /\ \A p \in Proc : toldBefore[p] \subseteq told

Calm == InStep /\ Known /\ \A p \in Proc : CalmRequest(p)

CalmInv ==
  /\ ShopInv
  /\ faults \in Nat /\ toldBefore = [p \in Proc |-> toldBefore[p]]
  /\ faults = 0 => Calm

-----------------------------------------------------------------------------
(* What stays true of a request while others go on.                        *)

\* The handler runs for the user its token has in Redis.
LEMMA HasOwner ==
  ASSUME ShopInv, Known, NEW p \in Proc, pc[p] \in {"handle", "call", "items"}, req[p].kind # "login"
  PROVE  /\ req[p] \in Requests /\ req[p].token \in Token
         /\ OwnerOf(p) = Cached(p) /\ OwnerOf(p) \in User /\ OwnerOf(p) # NULL
<1>1. req[p] \in Requests /\ srv[p] \in Server /\ Cached(p) # NULL
  BY DEF ShopInv, Request, Stage
<1>2. req[p].token \in Token
  BY <1>1, FieldsOfRequests
<1>3. tokenCache[srv[p]][req[p].token] \in User \cup {NULL}
  BY <1>1, <1>2 DEF ShopInv, Typed
<1> QED
  BY <1>1, <1>2, <1>3 DEF Known, Cached, OwnerOf

\* A step that adds to what Redis has.
RedisGrows == Grows /\ AdminQuery \subseteq AdminQuery'

LEMMA LinesStay ==
  ASSUME RedisGrows, NEW o \in OrderId, orderUser[o] # NULL
  PROVE  orderUser'[o] = orderUser[o] /\ order'[o] = order[o]
<1> DEFINE r == [id |-> o, user |-> orderUser[o], items |-> order[o]]
<1>1. r \in AdminQuery'
  BY DEF RedisGrows, AdminQuery
<1>2. PICK x \in OrderId : r = [id |-> x, user |-> orderUser'[x], items |-> order'[x]]
  BY <1>1 DEF AdminQuery
<1>3. x = o /\ order[o] = order'[x] /\ orderUser[o] = orderUser'[x]
  BY <1>2
<1> QED
  BY <1>3

LEMMA OwnerStays ==
  ASSUME ShopInv, Grows, NEW p \in Proc, pc[p] # "idle", req[p].kind # "login", OwnerOf(p) # NULL
  PROVE  OwnerOf(p)' = OwnerOf(p)
<1>1. req[p] \in Requests
  BY DEF ShopInv, Request, Stage
<1>2. req[p].token \in Token
  BY <1>1, FieldsOfRequests
<1> QED
  BY <1>2 DEF Grows, OwnerOf

\* The orders a request may look for are recorded already.
LEMMA SeesStays ==
  ASSUME ShopInv, Known, Grows, NEW p \in Proc, pc[p] # "idle", UNCHANGED toldBefore[p],
         req[p].kind = "admin" \/ (req[p].kind # "login" /\ OwnerOf(p) # NULL),
         NEW ids, Sees(p, ids)
  PROVE  Sees(p, ids)'
<1>1. req'[p] = req[p]
  BY DEF Grows
<1>2. \A o \in OrderId \cap toldBefore[p] : orderUser'[o] = orderUser[o]
  BY DEF Known, Grows
<1>3. CASE req[p].kind = "admin"
  BY <1>1, <1>3 DEF Sees
<1>4. CASE req[p].kind # "login" /\ OwnerOf(p) # NULL
  <2>1. OwnerOf(p)' = OwnerOf(p)
    BY <1>4, OwnerStays
  <2> QED
    BY <1>1, <1>2, <2>1 DEF Sees
<1> QED
  BY <1>3, <1>4

LEMMA ListsStay ==
  ASSUME ShopInv, Known, RedisGrows, NEW p \in Proc, pc[p] # "idle", UNCHANGED toldBefore[p],
         req[p].kind = "admin" \/ (req[p].kind # "login" /\ OwnerOf(p) # NULL),
         NEW body, Lists(p, body)
  PROVE  Lists(p, body)'
<1> DEFINE ids == {r.id : r \in body}
<1>1. Sees(p, ids)'
  BY SeesStays DEF Lists, RedisGrows
<1> QED
  BY <1>1 DEF Lists, RedisGrows

\* No order is recorded under the id the request drew.
StaysAbsent(p) ==
  req[p].kind = "order" /\ drawn[p] # NULL /\ orderUser[drawn[p]] = NULL
    => orderUser'[drawn[p]] = NULL

LEMMA TruthStays ==
  ASSUME ShopInv, Known, RedisGrows, NEW p \in Proc, pc[p] # "idle", UNCHANGED toldBefore[p],
         UNCHANGED drawn[p], StaysAbsent(p),
         NEW status, NEW body, Truth(p, status, body)
  PROVE  Truth(p, status, body)'
<1>1. req'[p] = req[p]
  BY DEF RedisGrows, Grows
<1>2. CASE req[p].kind = "login"
  BY <1>1, <1>2, StoreAssumption DEF Truth, RedisGrows, Grows
<1>3. CASE req[p].kind \in {"carts", "orders", "admin"} /\ status = 200
  <2>1. OwnerOf(p) # NULL => OwnerOf(p)' = OwnerOf(p)
    BY <1>3, OwnerStays DEF RedisGrows
  <2> QED
    BY <1>1, <1>3, <2>1, ListsStay DEF Truth, RedisGrows, Grows
<1>4. CASE req[p].kind = "order" /\ status # 200
  BY <1>1, <1>4 DEF Truth, StaysAbsent
<1> QED
  BY <1>1, <1>2, <1>3, <1>4 DEF Truth

\* What a request asks for and was replied stays true.
LEMMA CalmRequestStays ==
  ASSUME ShopInv, Known, RedisGrows, NEW p \in Proc, CalmRequest(p), Same(p),
         UNCHANGED toldBefore[p], StaysAbsent(p)
  PROVE  CalmRequest(p)'
<1>1. Request(p) /\ call'[p] = call[p] /\ pc'[p] = pc[p] /\ drawn'[p] = drawn[p] /\ answer'[p] = answer[p]
  BY DEF ShopInv, Same
<1>2. CASE pc[p] \in {"idle", "check", "handle"}
  BY <1>1, <1>2 DEF Request, Calls, CalmRequest, AsksFor, Knows, NotYet, NoCall, At
<1>3. CASE pc[p] = "checking"
  <2>1. req'[p] = req[p] /\ req[p] \in Requests /\ req[p].kind # "login"
    BY <1>1, <1>3 DEF Same, Request, Stage
  <2>2. req[p].token \in Token
    BY <2>1, FieldsOfRequests
  <2> QED
    BY <1>1, <1>3, <2>1, <2>2
       DEF CalmRequest, AsksFor, Knows, NotYet, At, Val, RedisGrows, Grows
<1>4. CASE pc[p] = "done"
  <2>1. Truth(p, answer[p].status, answer[p].body)'
    BY <1>1, <1>4, TruthStays DEF CalmRequest
  <2> QED
    BY <1>1, <1>4, <2>1 DEF CalmRequest, AsksFor, Knows, NotYet, At, Request, Calls, NoCall
<1>5. CASE pc[p] \in {"call", "items"} /\ req[p].kind = "login"
  <2>1. req'[p] = req[p] /\ pc[p] = "call" /\ req[p].user \in User /\ drawn[p] \in Token
    BY <1>1, <1>5 DEF Same, Request, Stage, Calls, Writes
  <2> QED
    BY <1>1, <1>5, <2>1, StoreAssumption
       DEF CalmRequest, AsksFor, Knows, NotYet, At, RedisGrows, Grows
<1>6. CASE pc[p] \in {"call", "items"} /\ req[p].kind # "login"
  <2>1. /\ req'[p] = req[p] /\ OwnerOf(p) # NULL /\ OwnerOf(p) \in User /\ req[p].token \in Token
        /\ OwnerOf(p)' = OwnerOf(p)
    BY <1>1, <1>6, HasOwner, OwnerStays DEF Same, RedisGrows
  <2>2. \A ids : Sees(p, ids) => Sees(p, ids)'
    BY <1>6, <2>1, SeesStays DEF RedisGrows
  <2>3. \A o \in OrderId : orderUser[o] # NULL => orderUser'[o] = orderUser[o] /\ order'[o] = order[o]
    BY LinesStay
  <2>4. AsksFor(p, pc[p], call[p].cmd)'
    BY <1>1, <1>6, <2>1, <2>2, <2>3 DEF CalmRequest, AsksFor
  <2>5. Knows(p)'
    <3>1. CASE At(p, "call", "carts")
      <4>1. drawn[p] \in Cart
        BY <1>1, <3>1 DEF At, Request, Calls, Writes
      <4> QED
        BY <1>1, <2>1, <3>1, <4>1 DEF At, Knows, CalmRequest, RedisGrows, Grows
    <3>2. CASE At(p, "call", "orders")
      BY <1>1, <2>1, <2>2, <2>3, <3>2 DEF At, Knows, Val, CalmRequest
    <3>3. CASE At(p, "call", "admin")
      BY <1>1, <2>1, <3>3, ListsStay DEF At, Knows, Val, CalmRequest
    <3>4. CASE pc[p] = "items"
      <4>1. PICK o \in OrderId : /\ call[p].cmd = [op |-> "GetItems", id |-> o]
                                 /\ orderUser[o] = OwnerOf(p)
        BY <3>4 DEF CalmRequest, AsksFor
      <4> QED
        BY <1>1, <2>1, <2>3, <3>4, <4>1 DEF Knows, At, Val, CalmRequest
    <3>5. CASE ~ (At(p, "call", "carts") \/ At(p, "call", "orders") \/ At(p, "call", "admin") \/ pc[p] = "items")
      BY <1>1, <1>6, <2>1, <3>5 DEF At, Knows
    <3> QED
      BY <3>1, <3>2, <3>3, <3>4, <3>5
  <2>6. NotYet(p)'
    <3>1. pc[p] = "call" /\ req[p].kind = "order" => drawn[p] # NULL
      BY <1>1, StoreAssumption DEF Request, Calls, Writes
    <3> QED
      BY <1>1, <2>1, <3>1 DEF NotYet, At, Val, CalmRequest, StaysAbsent
  <2> QED
    BY <1>1, <1>6, <2>4, <2>5, <2>6 DEF CalmRequest
<1> QED
  BY <1>2, <1>3, <1>4, <1>5, <1>6 DEF ShopInv, Typed, Stages

-----------------------------------------------------------------------------
(* Steps that Redis takes no part in.                                      *)

\* Redis is left alone; clients are told of nothing that is not there.
CalmAlone(p) ==
  /\ UNCHANGED redisVars
  /\ \A q \in Proc \ {p} : Same(q) /\ UNCHANGED toldBefore[q]
  /\ told \subseteq told' /\ toldBefore'[p] \subseteq told'
  /\ \A o \in OrderId \cap told' : o \in told \/ orderUser[o] # NULL
  /\ \A s \in Server, t \in Token :
       tokenCache'[s][t] # NULL => tokenCache'[s][t] \in {tokenCache[s][t], tokenUser[t]}

LEMMA AloneCalm ==
  ASSUME ShopInv, Calm, Grows, NEW p \in Proc, CalmAlone(p), InStep', CalmRequest(p)'
  PROVE  Calm'
<1>1. Known'
  BY DEF Calm, Known, CalmAlone, redisVars
<1>2. ASSUME NEW q \in Proc \ {p} PROVE CalmRequest(q)'
  <2>1. RedisGrows /\ StaysAbsent(q) /\ Same(q) /\ UNCHANGED toldBefore[q]
    BY DEF CalmAlone, RedisGrows, StaysAbsent, redisVars, AdminQuery
  <2> QED
    BY <2>1, CalmRequestStays DEF Calm
<1> QED
  BY <1>1, <1>2 DEF Calm

\* Without a call to wait for, a request has no attempt under way.
LEMMA InStepLess ==
  ASSUME InStep, NEW p, call[p].state # "sent", net' = net,
         \A q \in Proc \ {p} : call'[q] = call[q], \A m \in net : m.proc \in Proc
  PROVE  InStep'
  BY DEF InStep, Attempt

\* What holds of p depends on Redis and on what p keeps.
LEMMA TruthSame ==
  ASSUME UNCHANGED <<redisVars, req, drawn, toldBefore>>, NEW p \in Proc,
         NEW status, NEW body, Truth(p, status, body)
  PROVE  Truth(p, status, body)'
  BY DEF Truth, Lists, Sees, OwnerOf, AdminQuery, redisVars

\* The client is answered with the truth.
LEMMA AnswerCalm ==
  ASSUME ShopInv, Calm, NEW p \in Proc, pc[p] # "idle", call[p].state # "sent",
         NEW status, NEW body, NEW ids, Answer(p, status, body, ids),
         Truth(p, status, body), \A o \in OrderId \cap ids : orderUser[o] # NULL,
         \A s \in Server, t \in Token :
           tokenCache'[s][t] # NULL => tokenCache'[s][t] \in {tokenCache[s][t], tokenUser[t]}
  PROVE  Calm'
<1>1. /\ pc'[p] = "done" /\ call'[p] = NoCall
      /\ answer'[p] = [status |-> status, body |-> body]
      /\ UNCHANGED <<redisVars, srv, req, drawn, net, toldBefore>> /\ told' = told \cup ids
      /\ \A q \in Proc \ {p} : Same(q) /\ call'[q] = call[q]
  BY DEF ShopInv, Typed, Answer, Same
<1>2. CalmAlone(p)
  BY <1>1 DEF CalmAlone, Calm, Known
<1>3. Grows
  BY <1>1 DEF Grows, redisVars, Same
<1>4. InStep'
  BY <1>1, InStepLess DEF Calm, ShopInv, Messages
<1>5. CalmRequest(p)'
  <2>1. Truth(p, status, body)'
    BY <1>1, TruthSame
  <2> QED
    BY <1>1, <2>1 DEF CalmRequest, AsksFor, Knows, NotYet, At, NoCall
<1> QED
  BY <1>2, <1>3, <1>4, <1>5, AloneCalm

LEMMA RefuseCalm ==
  ASSUME ShopInv, Calm, NEW p \in Proc, pc[p] # "idle", call[p].state # "sent",
         NEW status, NEW why, Refuse(p, status, why), Truth(p, status, why)
  PROVE  Calm'
  BY AnswerCalm DEF Refuse

\* A call of Redis.
LEMMA CallCalm ==
  ASSUME ShopInv, Calm, NEW p \in Proc, pc[p] # "idle", call[p].state # "sent",
         NEW l, l \in {"checking", "call", "items"}, NEW cmd, CallRedis(p, l, cmd),
         AsksFor(p, l, cmd), l # "call" \/ req[p].kind # "order"
  PROVE  Calm'
<1> DEFINE c == [cmd |-> cmd, try |-> 0, state |-> "sent", val |-> NULL]
<1>1. /\ pc'[p] = l /\ call'[p] = c
      /\ UNCHANGED <<redisVars, tokenCache, srv, req, drawn, answer, told, toldBefore>>
      /\ net' = net \cup {Attempt(p, c)}
      /\ \A q \in Proc \ {p} : Same(q) /\ call'[q] = call[q]
  BY DEF ShopInv, Typed, CallRedis, Goto, Issue, Same
<1>2. CalmAlone(p)
  BY <1>1 DEF CalmAlone, Calm, Known
<1>3. Grows
  BY <1>1 DEF Grows, redisVars, Same
<1>4. InStep'
  BY <1>1 DEF Calm, InStep, Attempt, ShopInv, Messages
<1>5. CalmRequest(p)'
  <2>1. AsksFor(p, l, cmd)'
    BY <1>1 DEF AsksFor, Sees, OwnerOf, redisVars
  <2> QED
    BY <1>1, <2>1 DEF CalmRequest, Knows, NotYet, At, Val, redisVars
<1> QED
  BY <1>2, <1>3, <1>4, <1>5, AloneCalm

\* The same with an id nobody has drawn, under which nothing is recorded.
LEMMA DrawCalm ==
  ASSUME ShopInv, Calm, NEW p \in Proc, pc[p] = "handle",
         NEW id, NEW cmd, DrawAndCall(p, id, cmd), Carries(p, id, cmd)
  PROVE  Calm'
<1> DEFINE c == [cmd |-> cmd, try |-> 0, state |-> "sent", val |-> NULL]
<1>1. /\ pc'[p] = "call" /\ call'[p] = c /\ drawn'[p] = id
      /\ UNCHANGED <<redisVars, tokenCache, srv, req, answer, told, toldBefore>>
      /\ net' = net \cup {Attempt(p, c)}
      /\ \A q \in Proc : drawn[q] # id
      /\ \A q \in Proc \ {p} : Same(q) /\ call'[q] = call[q]
  BY DEF ShopInv, Typed, DrawAndCall, Issue, Same
<1>2. drawn[p] = NULL /\ call[p].state # "sent"
  <2>1. drawn[p] = NULL /\ call[p] = NoCall
    BY DEF ShopInv, Request, Stage, Calls
  <2> QED
    BY <2>1 DEF NoCall
<1>3. CalmAlone(p)
  BY <1>1 DEF CalmAlone, Calm, Known
<1>4. Grows
  BY <1>1, <1>2 DEF Grows, redisVars, Same
<1>5. InStep'
  BY <1>1, <1>2 DEF Calm, InStep, Attempt, ShopInv, Messages
<1>6. id \in OrderId => orderUser[id] = NULL
  BY <1>1 DEF ShopInv, Origins, Draws
<1>7. CalmRequest(p)'
  BY <1>1, <1>6 DEF CalmRequest, AsksFor, Knows, NotYet, At, Val, redisVars, Carries
<1> QED
  BY <1>3, <1>4, <1>5, <1>7, AloneCalm

\* The handler goes on without a call.
LEMMA HandleCalm ==
  ASSUME ShopInv, Calm, NEW p \in Proc, pc[p] \in {"check", "checking"}, Goto(p, "handle"),
         call[p].state # "sent", call' = [call EXCEPT ![p] = NoCall], UNCHANGED net,
         \A s \in Server, t \in Token :
           tokenCache'[s][t] # NULL => tokenCache'[s][t] \in {tokenCache[s][t], tokenUser[t]}
  PROVE  Calm'
<1>1. /\ pc'[p] = "handle" /\ call'[p] = NoCall
      /\ UNCHANGED <<redisVars, srv, req, drawn, answer, net, told, toldBefore>>
      /\ \A q \in Proc \ {p} : Same(q) /\ call'[q] = call[q]
  BY DEF ShopInv, Typed, Goto, Same
<1>2. CalmAlone(p)
  BY <1>1 DEF CalmAlone, Calm, Known
<1>3. Grows
  BY <1>1 DEF Grows, redisVars, Same
<1>4. InStep'
  BY <1>1, InStepLess DEF Calm, ShopInv, Messages
<1>5. CalmRequest(p)'
  BY <1>1 DEF CalmRequest, AsksFor, Knows, NotYet, At, NoCall
<1> QED
  BY <1>2, <1>3, <1>4, <1>5, AloneCalm

\* A request remembers what its client was told of.
LEMMA ReceiveCalm ==
  ASSUME ShopInv, Calm, toldBefore = [q \in Proc |-> toldBefore[q]],
         NEW p \in Proc, NEW s \in Server, NEW rq \in Requests, Receive(p, s, rq)
  PROVE  Calm'
<1>1. /\ pc[p] = "idle" /\ pc'[p] \in {"handle", "check"}
      /\ UNCHANGED <<redisVars, tokenCache, drawn, call, answer, net, told>>
      /\ toldBefore'[p] = told
      /\ \A q \in Proc \ {p} : Same(q) /\ UNCHANGED toldBefore[q]
  BY DEF ShopInv, Typed, Receive, Same
<1>2. call[p] = NoCall /\ drawn[p] = NULL
  BY <1>1 DEF ShopInv, Request, Calls, Stage
<1>3. CalmAlone(p)
  BY <1>1 DEF CalmAlone, Calm, Known
<1>4. Grows
  BY <1>1 DEF Grows, redisVars, Same
<1>5. InStep'
  BY <1>1 DEF Calm, InStep, Attempt
<1>6. CalmRequest(p)'
  BY <1>1, <1>2 DEF CalmRequest, AsksFor, Knows, NotYet, At, NoCall
<1> QED
  BY <1>3, <1>4, <1>5, <1>6, AloneCalm

-----------------------------------------------------------------------------
(* The steps of a handler, one by one.                                     *)

\* A handler that goes on has its reply.
LEMMA HasReply ==
  ASSUME ShopInv, Calm, NEW p \in Proc, Finished(p)
  PROVE  call[p].state = "replied" /\ ~ Failed(p)
  BY DEF Calm, CalmRequest, Finished, Failed

LEMMA TokenStepsCalm ==
  ASSUME ShopInv, Calm, NEW p \in Proc, CheckToken(p) \/ TokenRead(p)
  PROVE  Calm'
<1>1. /\ Request(p) /\ CalmRequest(p) /\ pc[p] \in {"check", "checking"}
      /\ req[p] \in Requests /\ req[p].token \in Token /\ req[p].kind # "login"
      /\ srv[p] \in Server
  BY FieldsOfRequests DEF ShopInv, Calm, Request, Stage, CheckToken, TokenRead
<1>2. CASE CheckToken(p)
  <2>1. call[p] = NoCall /\ call[p].state # "sent" /\ pc[p] = "check"
    BY <1>1, <1>2 DEF CheckToken, Request, Calls, NoCall
  <2>2. CASE Goto(p, "handle") /\ UNCHANGED <<tokenCache, call, net>>
    <3>1. call' = [call EXCEPT ![p] = NoCall]
      BY <2>1, <2>2 DEF ShopInv, Typed
    <3> QED
      BY <1>1, <2>1, <2>2, <3>1, HandleCalm
  <2>3. CASE CallRedis(p, "checking", [op |-> "GetToken", token |-> req[p].token])
    BY <1>1, <2>1, <2>3, CallCalm DEF AsksFor
  <2> QED
    BY <1>2, <2>2, <2>3 DEF CheckToken
<1>3. CASE TokenRead(p)
  <2>1. call[p].state = "replied" /\ pc[p] = "checking"
    BY <1>3, HasReply DEF TokenRead
  <2>2. CASE Refuse(p, 401, "INVALID_ACCESS_TOKEN")
    <3>1. drawn[p] = NULL
      BY <1>1, <2>1 DEF Request, Stage
    <3> QED
      BY <1>1, <2>1, <2>2, <3>1, RefuseCalm DEF Truth
  <2>3. CASE /\ Val(p) # NULL
             /\ CacheToken(p, req[p].token, Val(p))
             /\ call' = [call EXCEPT ![p] = NoCall]
             /\ Goto(p, "handle")
             /\ UNCHANGED net
    <3>1. tokenUser[req[p].token] = Val(p)
      BY <1>1, <2>1, <2>3 DEF CalmRequest, Knows
    <3>2. \A s \in Server, t \in Token :
            tokenCache'[s][t] # NULL => tokenCache'[s][t] \in {tokenCache[s][t], tokenUser[t]}
      BY <2>3, <3>1 DEF CacheToken, ShopInv, Typed
    <3> QED
      BY <1>1, <2>1, <2>3, <3>2, HandleCalm
  <2> QED
    BY <1>3, <2>2, <2>3 DEF TokenRead
<1> QED
  BY <1>2, <1>3

\* The handlers of PATCH, POST and of the queries.
LEMMA HandlerStepsCalm ==
  ASSUME ShopInv, Calm, NEW p \in Proc, HandlerSteps(p)
  PROVE  Calm'
<1>1. Request(p) /\ CalmRequest(p) /\ (drawn[p] # NULL => pc[p] \notin {"check", "checking", "handle"})
  BY DEF ShopInv, Calm, Request, Stage
<1>2. CASE CheckToken(p) \/ TokenRead(p)
  BY <1>2, TokenStepsCalm
<1>3. pc[p] = "handle" => call[p].state # "sent" /\ drawn[p] = NULL
  BY <1>1 DEF Request, Stage, Calls, NoCall
<1>4. \A kind : Returned(p, kind) =>
        /\ pc[p] = "call" /\ req[p].kind = kind /\ At(p, "call", kind)
        /\ call[p].state = "replied" /\ ~ Failed(p)
  BY HasReply DEF Returned, At
<1>5. \A kind : At(p, "handle", kind) => pc[p] = "handle" /\ req[p].kind = kind
  BY DEF At
<1>6. UNCHANGED tokenCache => \A s \in Server, t \in Token :
        tokenCache'[s][t] # NULL => tokenCache'[s][t] \in {tokenCache[s][t], tokenUser[t]}
  OBVIOUS
<1>7. CASE PostLogin(p)
  <2>1. CASE Refuse(p, 403, "USER_AUTH_FAIL")
    BY <1>3, <1>5, <1>7, <2>1, RefuseCalm DEF PostLogin, Truth
  <2>2. CASE /\ req[p].user \in User
             /\ \E t \in Token : DrawAndCall(p, t, [op |-> "SetToken", token |-> t, user |-> req[p].user])
    <3>1. PICK t \in Token : DrawAndCall(p, t, [op |-> "SetToken", token |-> t, user |-> req[p].user])
      BY <2>2
    <3> QED
      BY <1>5, <1>7, <2>2, <3>1, DrawCalm DEF PostLogin, Carries
  <2> QED
    BY <1>7, <2>1, <2>2 DEF PostLogin
<1>8. CASE LoggedIn(p)
  <2>1. /\ pc[p] = "call" /\ req[p].kind = "login" /\ call[p].state = "replied"
        /\ srv[p] \in Server /\ req[p].user \in User /\ drawn[p] \in Token
        /\ tokenUser[drawn[p]] = req[p].user
    BY <1>1, <1>4, <1>8
       DEF LoggedIn, Request, Stage, Calls, Writes, CalmRequest, Knows
  <2>2. Truth(p, 200, drawn[p])
    BY <2>1 DEF Truth
  <2>3. \A o \in OrderId \cap {drawn[p]} : orderUser[o] # NULL
    BY <2>1, ShopAssumption
  <2>4. \A s \in Server, t \in Token :
          tokenCache'[s][t] # NULL => tokenCache'[s][t] \in {tokenCache[s][t], tokenUser[t]}
    BY <1>8, <2>1 DEF LoggedIn, CacheToken, ShopInv, Typed
  <2> QED
    BY <1>8, <2>1, <2>2, <2>3, <2>4, AnswerCalm DEF LoggedIn
<1>9. CASE CreateCart(p)
  <2>1. PICK c \in Cart : DrawAndCall(p, c, [op |-> "SetCartUser", cart |-> c, user |-> Cached(p)])
    BY <1>9 DEF CreateCart
  <2> QED
    BY <1>5, <1>9, <2>1, DrawCalm DEF CreateCart, Carries
<1>10. CASE CartCreated(p)
  <2>1. /\ pc[p] = "call" /\ req[p].kind = "carts" /\ call[p].state = "replied"
        /\ drawn[p] \in Cart /\ cartUser[drawn[p]] = OwnerOf(p) /\ OwnerOf(p) # NULL
    BY <1>1, <1>4, <1>10, HasOwner
       DEF CartCreated, Request, Calls, Writes, CalmRequest, Knows, Calm
  <2>2. Truth(p, 200, drawn[p])
    BY <2>1 DEF Truth
  <2>3. \A o \in OrderId \cap {drawn[p]} : orderUser[o] # NULL
    BY <2>1, ShopAssumption
  <2> QED
    BY <1>6, <1>10, <2>1, <2>2, <2>3, AnswerCalm DEF CartCreated
<1>11. CASE CartAddFood(p)
  <2>1. CASE Refuse(p, 404, "FOOD_NOT_FOUND")
    BY <1>3, <1>5, <1>11, <2>1, RefuseCalm DEF CartAddFood, Truth
  <2>2. CASE CallRedis(p, "call", [op |-> "AddFood", token |-> req[p].token, cart |-> req[p].cart,
                                   food |-> req[p].food, count |-> req[p].count])
    BY <1>3, <1>5, <1>11, <2>2, CallCalm DEF CartAddFood, AsksFor
  <2> QED
    BY <1>11, <2>1, <2>2 DEF CartAddFood
<1>12. CASE FoodAdded(p)
  <2>1. PICK status, why : Refuse(p, status, why)
    BY <1>12, ZenonT(60) DEF FoodAdded
  <2>2. pc[p] = "call" /\ req[p].kind = "patch" /\ call[p].state = "replied"
    BY <1>4, <1>12 DEF FoodAdded
  <2> QED
    BY <2>1, <2>2, RefuseCalm DEF Truth
<1>13. CASE PostOrder(p)
  <2>1. PICK o \in OrderId : DrawAndCall(p, o, [op |-> "PlaceOrder", cart |-> req[p].cart,
                                                id |-> o, token |-> req[p].token])
    BY <1>13 DEF PostOrder
  <2> QED
    BY <1>5, <1>13, <2>1, DrawCalm DEF PostOrder, Carries
<1>14. CASE OrderPosted(p)
  <2>1. pc[p] = "call" /\ req[p].kind = "order" /\ call[p].state = "replied" /\ At(p, "call", "order")
    BY <1>4, <1>14 DEF OrderPosted
  <2>2. CASE Val(p) = OK /\ Answer(p, 200, drawn[p], {drawn[p]}) /\ UNCHANGED tokenCache
    <3>1. \A o \in OrderId \cap {drawn[p]} : orderUser[o] # NULL
      BY <1>1, <2>1, <2>2 DEF Request, Replies, Val
    <3> QED
      BY <1>6, <2>1, <2>2, <3>1, AnswerCalm DEF Truth
  <2>3. CASE Val(p) # OK /\ \E status, why : Refuse(p, status, why)
    <3>1. PICK status, why : Refuse(p, status, why)
      BY <2>3
    <3>2. orderUser[drawn[p]] = NULL
      BY <1>1, <2>1, <2>3 DEF CalmRequest, NotYet
    <3> QED
      BY <2>1, <3>1, <3>2, RefuseCalm DEF Truth
  <2> QED
    BY <1>14, <2>2, <2>3 DEF OrderPosted, OK, CartNotFound, NotAuthorized, OutOfStock, OrderLimited
<1>15. CASE GetOrder(p)
  <2>1. OwnerOf(p) = Cached(p)
    BY <1>5, <1>15, HasOwner DEF GetOrder, Calm
  <2> QED
    BY <1>3, <1>5, <1>15, <2>1, CallCalm DEF GetOrder, AsksFor
<1>16. CASE OrderIdRead(p)
  <2>1. /\ pc[p] = "call" /\ req[p].kind = "orders" /\ call[p].state = "replied"
        /\ OwnerOf(p) # NULL /\ Sees(p, {Val(p)})
        /\ Val(p) # NULL => Val(p) \in OrderId /\ orderUser[Val(p)] = OwnerOf(p)
    BY <1>1, <1>4, <1>16, HasOwner DEF OrderIdRead, CalmRequest, Knows, Calm
  <2>2. CASE Val(p) = NULL /\ Refuse(p, 200, {})
    <3>1. Lists(p, {})
      BY <2>1, <2>2, StoreAssumption DEF Lists, Sees
    <3> QED
      BY <2>1, <2>2, <3>1, RefuseCalm DEF Truth
  <2>3. CASE Val(p) # NULL /\ CallRedis(p, "items", [op |-> "GetItems", id |-> Val(p)])
    BY <2>1, <2>3, CallCalm DEF AsksFor
  <2> QED
    BY <1>16, <2>2, <2>3 DEF OrderIdRead
<1>17. CASE OrderItemsRead(p)
  <2>1. pc[p] = "items" /\ req[p].kind = "orders" /\ call[p].state = "replied" /\ ~ Failed(p)
    BY <1>17, HasReply DEF OrderItemsRead, At
  <2>2. OwnerOf(p) = Cached(p) /\ OwnerOf(p) # NULL
    BY <2>1, HasOwner DEF Calm
  <2>3. PICK o \in OrderId : /\ call[p].cmd = [op |-> "GetItems", id |-> o]
                             /\ orderUser[o] = OwnerOf(p) /\ Sees(p, {o})
    BY <1>1, <2>1 DEF CalmRequest, AsksFor
  <2>4. Val(p) = order[o]
    BY <1>1, <2>1, <2>3 DEF CalmRequest, Knows
  <2> DEFINE body == {[id |-> o, user |-> OwnerOf(p), items |-> order[o]]}
  <2>5. Refuse(p, 200, body)
    BY <1>17, <2>1, <2>2, <2>3, <2>4 DEF OrderItemsRead
  <2>6. Lists(p, body)
    <3>1. {r.id : r \in body} = {o}
      OBVIOUS
    <3> QED
      BY <2>2, <2>3, <3>1 DEF Lists, AdminQuery
  <2> HIDE DEF body
  <2> QED
    BY <2>1, <2>2, <2>5, <2>6, RefuseCalm DEF Truth
<1>18. CASE AdminGetOrder(p)
  BY <1>3, <1>5, <1>18, CallCalm DEF AdminGetOrder, AsksFor
<1>19. CASE AdminQueried(p)
  <2>1. /\ pc[p] = "call" /\ req[p].kind = "admin" /\ call[p].state = "replied" /\ ~ Failed(p)
        /\ Lists(p, Val(p))
    BY <1>1, <1>4, <1>19 DEF AdminQueried, CalmRequest, Knows
  <2> QED
    BY <1>19, <2>1, RefuseCalm DEF AdminQueried, Truth
<1> QED
  BY <1>2, <1>7, <1>8, <1>9, <1>10, <1>11, <1>12, <1>13, <1>14, <1>15, <1>16, <1>17, <1>18, <1>19
     DEF HandlerSteps

-----------------------------------------------------------------------------
(* Redis executes an attempt, which its handler waits for.                 *)

\* The writes are told apart by their requests.
LEMMA WritesByKind ==
  ASSUME NEW p, NEW cmd, Writes(p, cmd)
  PROVE  /\ cmd.op = "PlaceOrder" =>
              /\ req[p].kind = "order" /\ drawn[p] \in OrderId
              /\ cmd = [op |-> "PlaceOrder", cart |-> req[p].cart, id |-> drawn[p],
                        token |-> req[p].token]
         /\ cmd.op = "AddFood" => req[p].kind = "patch"
<1>1. CASE req[p].kind = "login"
  <2>1. cmd = [op |-> "SetToken", token |-> drawn[p], user |-> req[p].user]
    BY <1>1 DEF Writes
  <2> QED
    BY <2>1
<1>2. CASE req[p].kind = "carts"
  <2>1. PICK u : cmd = [op |-> "SetCartUser", cart |-> drawn[p], user |-> u]
    BY <1>2 DEF Writes
  <2> QED
    BY <2>1
<1>3. CASE req[p].kind = "patch"
  <2>1. cmd = [op |-> "AddFood", token |-> req[p].token, cart |-> req[p].cart,
               food |-> req[p].food, count |-> req[p].count]
    BY <1>3 DEF Writes
  <2> QED
    BY <1>3, <2>1
<1>4. CASE req[p].kind = "order"
  BY <1>4 DEF Writes
<1> QED
  BY <1>1, <1>2, <1>3, <1>4 DEF Writes

\* The only id a message can record is the one its request drew.
LEMMA RecordsOwnDraw ==
  ASSUME ShopInv, NEW m \in net, Effect(m.cmd),
         NEW o \in OrderId, orderUser[o] = NULL, orderUser'[o] # NULL
  PROVE  /\ m.proc \in Proc /\ drawn[m.proc] = o /\ req[m.proc].kind = "order"
         /\ m.cmd.op = "PlaceOrder" /\ ReplyTo(m.cmd) = OK
<1>1. m.proc \in Proc /\ (IsWrite(m.cmd) => Writes(m.proc, m.cmd))
  BY DEF ShopInv, Messages
<1>2. PICK c, i, t : /\ m.cmd.op = "PlaceOrder" /\ PlaceOrder(c, i, t)
                     /\ c = m.cmd.cart /\ i = m.cmd.id /\ t = m.cmd.token
  BY DEF Effect, SetToken, SetCartUser, AddFood, redisVars
<1>3. /\ m.cmd = [op |-> "PlaceOrder", cart |-> req[m.proc].cart, id |-> drawn[m.proc],
                  token |-> req[m.proc].token]
      /\ req[m.proc].kind = "order"
  <2>1. Writes(m.proc, m.cmd)
    BY <1>1, <1>2 DEF IsWrite
  <2> QED
    BY <1>2, <2>1, WritesByKind
<1>4. PlaceOrderReply(c, t) = OK /\ RecordOrder(c, i, cartUser[c])
  BY <1>2 DEF PlaceOrder
<1>5. i = o
  BY <1>4 DEF RecordOrder, ShopInv, IInv, TypeOK
<1> QED
  BY <1>1, <1>2, <1>3, <1>4, <1>5 DEF ReplyTo

LEMMA ExecuteCalm ==
  ASSUME ShopInv, Calm, NEW m \in net, Execute(m)
  PROVE  Calm'
<1> DEFINE p == m.proc
           rq == req[p]
<1>1. /\ p \in Proc /\ Request(p) /\ CalmRequest(p)
      /\ call[p].state = "sent" /\ m = Attempt(p, call[p]) /\ m.cmd = call[p].cmd
      /\ IsWrite(m.cmd) => Writes(p, m.cmd)
  BY DEF ShopInv, Messages, Calm, InStep, Attempt
<1>2. /\ Effect(m.cmd) /\ net' = net \ {m}
      /\ call' = [call EXCEPT ![p].state = "replied", ![p].val = ReplyTo(m.cmd)]
      /\ UNCHANGED <<tokenCache, pc, srv, req, drawn, answer, told, toldBefore>>
  BY <1>1 DEF Execute
<1>3. /\ call'[p] = [cmd |-> m.cmd, try |-> call[p].try, state |-> "replied", val |-> ReplyTo(m.cmd)]
      /\ \A q \in Proc \ {p} : Same(q)
  <2>1. /\ call = [q \in Proc |-> call[q]]
        /\ call[p] = [cmd |-> call[p].cmd, try |-> call[p].try, state |-> call[p].state,
                      val |-> call[p].val]
    BY <1>1 DEF ShopInv, Typed
  <2>2. \A q \in Proc \ {p} : call'[q] = call[q]
    BY <1>2, <2>1
  <2>3. call'[p] = [cmd |-> m.cmd, try |-> call[p].try, state |-> "replied", val |-> ReplyTo(m.cmd)]
    BY <1>1, <1>2, <2>1
  <2> QED
    BY <1>2, <2>2, <2>3 DEF Same
<1>4. RedisGrows
  <2>1. Grows /\ [RedisStep]_redisVars
    BY <1>2, EffectIsStep DEF Grows
  <2>2. CASE UNCHANGED redisVars
    BY <2>1, <2>2 DEF RedisGrows, redisVars, AdminQuery
  <2>3. CASE ~ UNCHANGED redisVars
    BY <2>1, <2>3, StepFreezesOrders DEF RedisGrows, ShopInv
  <2> QED
    BY <2>2, <2>3
<1>5. Known'
  BY <1>2, <1>4 DEF Calm, Known, RedisGrows, Grows
<1>6. InStep'
  <2> SUFFICES ASSUME NEW k \in net, k # m
               PROVE  call'[k.proc].state = "sent" /\ k = Attempt(k.proc, call'[k.proc])
    BY <1>2 DEF InStep, Attempt
  <2>1. k.proc \in Proc /\ call[k.proc].state = "sent" /\ k = Attempt(k.proc, call[k.proc])
    BY DEF Calm, InStep, ShopInv, Messages
  <2>2. k.proc # p
    BY <1>1, <2>1
  <2> QED
    BY <1>3, <2>1, <2>2 DEF Same
<1>7. /\ call'[p].cmd = m.cmd /\ call'[p].state = "replied" /\ Val(p)' = ReplyTo(m.cmd)
      /\ UNCHANGED <<pc, req, drawn, answer, toldBefore>>
  <2>1. call'[p].cmd = m.cmd /\ call'[p].state = "replied" /\ call'[p].val = ReplyTo(m.cmd)
    BY <1>3
  <2> QED
    BY <1>2, <2>1 DEF Val
<1>8. ASSUME NEW q \in Proc \ {p} PROVE CalmRequest(q)'
  <2>1. StaysAbsent(q)
    <3> SUFFICES ASSUME req[q].kind = "order", drawn[q] # NULL, orderUser[drawn[q]] = NULL,
                        orderUser'[drawn[q]] # NULL
                 PROVE  FALSE
      BY DEF StaysAbsent
    <3>1. drawn[q] \in OrderId
      BY DEF ShopInv, Request, Stage
    <3>2. drawn[p] = drawn[q]
      BY <1>2, <3>1, RecordsOwnDraw
    <3> QED
      BY <1>1, <3>2 DEF ShopInv, DrawsDiffer
  <2> QED
    BY <1>2, <1>3, <1>4, <2>1, CalmRequestStays DEF Calm
<1>9. CalmRequest(p)'
  <2>1. pc[p] \in {"checking", "call", "items"}
    BY <1>1 DEF Request, Calls, NoCall, ShopInv, Typed, Stages
  <2>2. pc[p] # "idle" /\ rq \in Requests
    BY <1>1, <2>1 DEF Request, Stage
  <2>3. CASE pc[p] = "checking"
    <3>1. rq.token \in Token /\ m.cmd = [op |-> "GetToken", token |-> rq.token]
      BY <1>1, <2>2, <2>3, FieldsOfRequests DEF Request, Stage, Calls
    <3>2. ReplyTo(m.cmd) = tokenUser[rq.token]
      BY <3>1 DEF ReplyTo
    <3> QED
      BY <1>2, <1>3, <1>4, <2>3, <3>1, <3>2
         DEF CalmRequest, AsksFor, Knows, NotYet, At, Val, RedisGrows, Grows
  <2>4. CASE At(p, "call", "login")
    <3>1. /\ rq.user \in User /\ drawn[p] \in Token
          /\ m.cmd = [op |-> "SetToken", token |-> drawn[p], user |-> rq.user]
      BY <1>1, <2>4 DEF At, Request, Stage, Calls, Writes
    <3>2. SetToken(drawn[p], rq.user)
      BY <1>2, <3>1 DEF Effect, IsWrite
    <3>3. tokenUser'[drawn[p]] = rq.user
      BY <3>1, <3>2 DEF SetToken, ShopInv, IInv, TypeOK
    <3> QED
      BY <1>2, <1>3, <2>4, <3>3 DEF CalmRequest, AsksFor, Knows, NotYet, At
  <2>5. CASE At(p, "call", "patch")
    BY <1>2, <1>3, <2>5 DEF CalmRequest, AsksFor, Knows, NotYet, At
  <2>6. CASE At(p, "call", "order")
    <3>1. /\ m.cmd = [op |-> "PlaceOrder", cart |-> rq.cart, id |-> drawn[p], token |-> rq.token]
          /\ drawn[p] \in OrderId
      BY <1>1, <2>6 DEF At, Request, Stage, Calls, Writes
    <3>2. orderUser[drawn[p]] = NULL
      BY <1>1, <2>6 DEF CalmRequest, NotYet
    <3>3. orderUser'[drawn[p]] # NULL => ReplyTo(m.cmd) = OK
      BY <1>2, <3>1, <3>2, RecordsOwnDraw
    <3> QED
      BY <1>2, <1>3, <2>6, <3>3 DEF CalmRequest, AsksFor, Knows, NotYet, At, Val
  <2>7. CASE pc[p] \in {"call", "items"} /\ rq.kind \in {"carts", "orders", "admin"}
    <3>1. /\ OwnerOf(p) # NULL /\ OwnerOf(p) \in User /\ rq.token \in Token
          /\ OwnerOf(p)' = OwnerOf(p)
      <4>1. rq.kind # "login" /\ pc[p] \in {"handle", "call", "items"} /\ Known /\ Grows
        BY <1>4, <2>7 DEF Calm, RedisGrows
      <4>2. OwnerOf(p) # NULL /\ OwnerOf(p) \in User /\ rq.token \in Token
        BY <1>1, <4>1, HasOwner
      <4> QED
        BY <1>1, <2>2, <4>1, <4>2, OwnerStays
    <3>2. \A ids : Sees(p, ids) => Sees(p, ids)'
      BY <1>1, <1>2, <1>4, <2>2, <2>7, <3>1, SeesStays DEF Calm, RedisGrows
    <3>3. CASE At(p, "call", "carts")
      <4>1. PICK u \in User : /\ drawn[p] \in Cart /\ Owns(rq.token, u)
                              /\ m.cmd = [op |-> "SetCartUser", cart |-> drawn[p], user |-> u]
        BY <1>1, <3>3 DEF At, Request, Calls, Writes
      <4>2. u = OwnerOf(p)
        <5>1. Owns(rq.token, OwnerOf(p))
          BY <3>1 DEF OwnerOf, ShopInv, Origins
        <5> QED
          BY <4>1, <5>1, OwnerIsOne DEF ShopInv
      <4>3. cartUser'[drawn[p]] = u
        BY <1>2, <4>1 DEF Effect, IsWrite, SetCartUser, ShopInv, IInv, TypeOK
      <4> QED
        BY <1>2, <1>3, <3>1, <3>3, <4>2, <4>3 DEF CalmRequest, AsksFor, Knows, NotYet, At
    <3>4. CASE At(p, "call", "orders")
      <4> DEFINE u == OwnerOf(p)
      <4>1. m.cmd = [op |-> "GetOrderId", user |-> u]
        BY <1>1, <3>4 DEF CalmRequest, AsksFor, At
      <4>2. ReplyTo(m.cmd) = userOrder[u] /\ UNCHANGED redisVars
        BY <1>2, <4>1 DEF ReplyTo, Effect, IsWrite
      <4>3. Sees(p, {userOrder[u]})
        BY <3>1, <3>4 DEF Sees, At, ShopInv, IInv, IndexesAgree
      <4>4. userOrder[u] # NULL => userOrder[u] \in OrderId /\ orderUser[userOrder[u]] = u
        BY <3>1 DEF ShopInv, IInv, IndexesAgree, TypeOK
      <4>5. Sees(p, {userOrder[u]})'
        BY <1>2, <4>2, <4>3 DEF Sees, OwnerOf, redisVars
      <4> QED
        <5>1. /\ UNCHANGED <<pc, req, orderUser, userOrder>>
              /\ OwnerOf(p)' = u /\ Val(p)' = userOrder[u]
          BY <1>7, <3>1, <4>2 DEF redisVars
        <5>2. AsksFor(p, pc[p], call[p].cmd)'
          BY <1>3, <3>4, <4>1, <5>1 DEF AsksFor, At
        <5>3. Knows(p)' /\ NotYet(p)'
          <6>1. pc'[p] = "call" /\ req'[p].kind = "orders"
            BY <3>4, <5>1 DEF At
          <6>2. Sees(p, {Val(p)})'
            BY <4>5, <5>1
          <6>3. Val(p)' # NULL => Val(p)' \in OrderId /\ orderUser'[Val(p)'] = OwnerOf(p)'
            BY <4>4, <5>1
          <6> QED
            BY <6>1, <6>2, <6>3 DEF Knows, NotYet, At
        <5> QED
          BY <1>7, <3>4, <5>2, <5>3 DEF CalmRequest, At
    <3>5. CASE At(p, "call", "admin")
      <4>1. m.cmd = [op |-> "AdminQuery"]
        BY <1>1, <3>5 DEF CalmRequest, AsksFor, At
      <4>2. ReplyTo(m.cmd) = AdminQuery /\ UNCHANGED redisVars
        BY <1>2, <4>1 DEF ReplyTo, Effect, IsWrite
      <4>3. Lists(p, AdminQuery)
        <5>1. \A o \in OrderId \cap toldBefore[p] : orderUser[o] # NULL
          BY <1>1 DEF Calm, Known
        <5>2. \A o \in OrderId : orderUser[o] # NULL => o \in {r.id : r \in AdminQuery}
          <6> SUFFICES ASSUME NEW o \in OrderId, orderUser[o] # NULL
                       PROVE  \E r \in AdminQuery : r.id = o
            OBVIOUS
          <6>1. [id |-> o, user |-> orderUser[o], items |-> order[o]] \in AdminQuery
            BY DEF AdminQuery
          <6> QED
            BY <6>1
        <5> QED
          BY <5>1, <5>2 DEF Lists, Sees
      <4>4. Lists(p, AdminQuery)'
        BY <1>2, <4>2, <4>3 DEF Lists, Sees, OwnerOf, AdminQuery, redisVars
      <4> QED
        <5>1. UNCHANGED <<pc, req>> /\ Val(p)' = AdminQuery' /\ call'[p].cmd = [op |-> "AdminQuery"]
          BY <1>7, <4>1, <4>2 DEF AdminQuery, redisVars
        <5>2. AsksFor(p, pc[p], call[p].cmd)' /\ Knows(p)' /\ NotYet(p)'
          BY <3>5, <4>4, <5>1 DEF AsksFor, Knows, NotYet, At
        <5> QED
          BY <1>7, <3>5, <5>2 DEF CalmRequest, At
    <3>6. CASE pc[p] = "items"
      <4>1. PICK o \in OrderId : /\ m.cmd = [op |-> "GetItems", id |-> o]
                                 /\ orderUser[o] = OwnerOf(p) /\ Sees(p, {o})
        BY <1>1, <3>6 DEF CalmRequest, AsksFor
      <4>2. ReplyTo(m.cmd) = order[o] /\ UNCHANGED redisVars
        BY <1>2, <4>1 DEF ReplyTo, Effect, IsWrite
      <4> QED
        <5>1. /\ UNCHANGED <<pc, req, orderUser, order>> /\ OwnerOf(p)' = OwnerOf(p)
              /\ Val(p)' = order[o] /\ call'[p].cmd = [op |-> "GetItems", id |-> o]
          BY <1>7, <3>1, <4>1, <4>2 DEF redisVars
        <5>2. Sees(p, {o})'
          BY <3>2, <4>1
        <5>3. AsksFor(p, pc[p], call[p].cmd)' /\ Knows(p)' /\ NotYet(p)'
          <6>1. pc'[p] = "items"
            BY <3>6, <5>1
          <6>2. AsksFor(p, pc[p], call[p].cmd)'
            BY <4>1, <5>1, <5>2, <6>1 DEF AsksFor
          <6>3. Knows(p)' /\ NotYet(p)'
            BY <5>1, <6>1 DEF Knows, NotYet, At
          <6> QED
            BY <6>2, <6>3
        <5> QED
          BY <1>7, <3>6, <5>3 DEF CalmRequest
    <3> QED
      BY <1>1, <2>7, <3>3, <3>4, <3>5, <3>6 DEF At
  <2>8. rq.kind \in {"login", "carts", "patch", "order", "orders", "admin"}
    BY <2>2, FieldsOfRequests
  <2> QED
    BY <1>1, <2>1, <2>3, <2>4, <2>5, <2>6, <2>7, <2>8 DEF At, Request, Calls, Stage
<1> QED
  BY <1>5, <1>6, <1>8, <1>9 DEF Calm

-----------------------------------------------------------------------------
(* The lines of the carts.                                                 *)

\* Redis has added the count of p to line f of cart c, and p knows.
Adds(p, c, f) ==
  /\ pc[p] # "idle" /\ req[p].kind = "patch" /\ req[p].cart = c /\ req[p].food = f
  /\ \/ pc[p] = "call" /\ call[p].state = "replied" /\ Val(p) = OK
     \/ pc[p] = "done" /\ answer[p].status = 204

Added(c, f) == {p \in Proc : Adds(p, c, f)}

\* Until the first fault, a line is the sum of the counts that were added.
LineSums ==
  \A c \in Cart, f \in Food :
    /\ IsFiniteSet(Added(c, f))
    /\ Line(cart[c], f) = Total([p \in Added(c, f) |-> req[p].count])

SumsInv == CalmInv /\ (faults = 0 => LineSums)

\* One more count in a sum.
LEMMA SumOneMore ==
  ASSUME NEW S, IsFiniteSet(S), NEW x, x \notin S, NEW k,
         \A y \in S \cup {x} : k[y].count \in Int
  PROVE  Total([y \in S \cup {x} |-> k[y].count]) = Total([y \in S |-> k[y].count]) + k[x].count
<1> DEFINE h == [y \in S |-> k[y].count]
           g == [y \in S \cup {x} |-> k[y].count]
<1>1. g = HSet(h, x, k[x].count)
  BY DEF HSet
<1>2. Total(HSet(h, x, k[x].count)) = Total(h) - Line(h, x) + k[x].count
  BY TotalHSet
<1>3. Line(h, x) = 0 /\ Total(h) \in Int
  BY TotalInt DEF Line
<1> QED
  BY <1>1, <1>2, <1>3

LEMMA CountsAreInt ==
  ASSUME ShopInv, NEW p \in Proc, NEW c, NEW f, Adds(p, c, f)
  PROVE  req[p].count \in Int
<1>1. req[p] \in Requests /\ req[p].kind = "patch"
  BY DEF Adds, ShopInv, Request, Stage
<1> QED
  BY <1>1, FieldsOfRequests, StoreAssumption

LEMMA SumsStay ==
  ASSUME LineSums, UNCHANGED cart,
         \A p \in Proc : \A c, f : Adds(p, c, f)' <=> Adds(p, c, f),
         \A p \in Proc : pc[p] # "idle" => req'[p] = req[p]
  PROVE  LineSums'
<1> SUFFICES ASSUME NEW c \in Cart, NEW f \in Food
             PROVE  /\ IsFiniteSet(Added(c, f)')
                    /\ Line(cart'[c], f) = Total([p \in Added(c, f)' |-> req'[p].count])
  BY DEF LineSums
<1>1. Added(c, f)' = Added(c, f)
  BY DEF Added
<1>2. [p \in Added(c, f)' |-> req'[p].count] = [p \in Added(c, f) |-> req[p].count]
  BY <1>1 DEF Added, Adds
<1> QED
  BY <1>1, <1>2 DEF LineSums

LEMMA AnswersStatus ==
  ASSUME ShopInv, NEW p \in Proc, NEW status, NEW why, Refuse(p, status, why)
  PROVE  pc'[p] = "done" /\ answer'[p].status = status
  BY DEF ShopInv, Typed, Refuse, Answer

LEMMA HandlerStepsSum ==
  ASSUME ShopInv, Calm, LineSums, NEW p \in Proc, HandlerSteps(p)
  PROVE  LineSums'
<1>1. Request(p) /\ pc[p] # "idle"
  BY DEF ShopInv, HandlerSteps, CheckToken, TokenRead, PostLogin, LoggedIn, CreateCart, CartCreated,
         CartAddFood, FoodAdded, PostOrder, OrderPosted, GetOrder, OrderIdRead,
         OrderItemsRead, AdminGetOrder, AdminQueried, At, Returned
<1>2. UNCHANGED <<cart, req>>
  BY ZenonT(60) DEF HandlerSteps, CheckToken, TokenRead, PostLogin, LoggedIn, CreateCart, CartCreated,
         CartAddFood, FoodAdded, PostOrder, OrderPosted, GetOrder, OrderIdRead,
         OrderItemsRead, AdminGetOrder, AdminQueried,
         Goto, CallRedis, DrawAndCall, Answer, Refuse, redisVars
<1>3. \A q \in Proc \ {p} : pc'[q] = pc[q] /\ call'[q] = call[q] /\ answer'[q] = answer[q]
  <2>1. DOMAIN pc = Proc /\ DOMAIN call = Proc /\ DOMAIN answer = Proc
    BY DEF ShopInv, Typed
  <2>2. \E l : pc' = [pc EXCEPT ![p] = l]
    BY ZenonT(60) DEF HandlerSteps, CheckToken, TokenRead, PostLogin, LoggedIn, CreateCart, CartCreated,
           CartAddFood, FoodAdded, PostOrder, OrderPosted, GetOrder, OrderIdRead,
           OrderItemsRead, AdminGetOrder, AdminQueried,
           Goto, CallRedis, DrawAndCall, Answer, Refuse
  <2>3. UNCHANGED call \/ \E c : call' = [call EXCEPT ![p] = c]
    BY ZenonT(60) DEF HandlerSteps, CheckToken, TokenRead, PostLogin, LoggedIn, CreateCart, CartCreated,
           CartAddFood, FoodAdded, PostOrder, OrderPosted, GetOrder, OrderIdRead,
           OrderItemsRead, AdminGetOrder, AdminQueried,
           Goto, CallRedis, Issue, DrawAndCall, Answer, Refuse
  <2>4. \A q \in Proc \ {p} : answer'[q] = answer[q]
    <3> DEFINE Stays == \A q \in Proc \ {p} : answer'[q] = answer[q]
    <3>1. \A status, body, ids : Answer(p, status, body, ids) => Stays
      BY <2>1 DEF Answer
    <3>2. \A status, why : Refuse(p, status, why) => Stays
      BY <3>1, Zenon DEF Refuse
    <3>3. \A l : Goto(p, l) => Stays
      BY DEF Goto
    <3>4. \A l, cmd : CallRedis(p, l, cmd) => Stays
      BY <3>3, Zenon DEF CallRedis
    <3>5. \A id, cmd : DrawAndCall(p, id, cmd) => Stays
      BY DEF DrawAndCall
    <3> HIDE DEF Stays
    <3>6. TokenRead(p) => Stays
      BY <3>2, <3>3, Zenon DEF TokenRead
    <3>7. PostLogin(p) => Stays
      BY <3>2, <3>5, Zenon DEF PostLogin
    <3>8. CartAddFood(p) => Stays
      BY <3>2, <3>4, Zenon DEF CartAddFood
    <3>9. FoodAdded(p) \/ AdminQueried(p) => Stays
      BY <3>2, ZenonT(60) DEF FoodAdded, AdminQueried
    <3>10. OrderIdRead(p) => Stays
      BY <3>2, <3>4, Zenon DEF OrderIdRead
    <3>11. OrderItemsRead(p) => Stays
      BY <3>2, Zenon DEF OrderItemsRead
    <3>12. LoggedIn(p) \/ CartCreated(p) \/ OrderPosted(p) => Stays
      BY <3>1, <3>2, ZenonT(60) DEF LoggedIn, CartCreated, OrderPosted
    <3>13. CheckToken(p) => Stays
      BY <3>3, <3>4, Zenon DEF CheckToken
    <3>14. CreateCart(p) \/ PostOrder(p) => Stays
      BY <3>5, Zenon DEF CreateCart, PostOrder
    <3>15. GetOrder(p) \/ AdminGetOrder(p) => Stays
      BY <3>4, Zenon DEF GetOrder, AdminGetOrder
    <3>16. Stays
      BY <3>6, <3>7, <3>8, <3>9, <3>10, <3>11, <3>12, <3>13, <3>14, <3>15 DEF HandlerSteps
    <3> QED
      BY <3>16 DEF Stays
  <2> QED
    BY <2>1, <2>2, <2>3, <2>4
<1>4. \A q \in Proc \ {p} : \A c, f : Adds(q, c, f)' <=> Adds(q, c, f)
  BY <1>2, <1>3 DEF Adds, Val
<1>5. \A c, f : Adds(p, c, f)' <=> Adds(p, c, f)
  <2>1. CASE req[p].kind # "patch"
    BY <1>2, <2>1 DEF Adds
  <2>2. CASE CheckToken(p)
    <3>1. pc[p] = "check" /\ pc'[p] \in {"handle", "checking"}
      BY <2>2 DEF CheckToken, Goto, CallRedis, ShopInv, Typed
    <3> QED
      BY <3>1 DEF Adds
  <2>3. CASE TokenRead(p)
    <3>1. pc'[p] = "handle" \/ (pc'[p] = "done" /\ answer'[p].status = 401)
      BY <2>3, AnswersStatus DEF TokenRead, Goto, ShopInv, Typed
    <3>2. pc[p] = "checking"
      BY <2>3 DEF TokenRead
    <3> QED
      BY <3>1, <3>2 DEF Adds
  <2>4. CASE CartAddFood(p)
    <3>1. /\ pc[p] = "handle"
          /\ \/ pc'[p] = "call" /\ call'[p].state = "sent"
             \/ answer'[p].status = 404 /\ pc'[p] = "done"
      BY <2>4, AnswersStatus DEF CartAddFood, At, CallRedis, Goto, Issue, ShopInv, Typed
    <3> QED
      BY <3>1 DEF Adds
  <2>5. CASE FoodAdded(p)
    <3>1. pc[p] = "call" /\ call[p].state = "replied"
      BY <2>5, HasReply DEF FoodAdded, Returned, At
    <3>2. pc'[p] = "done" /\ (answer'[p].status = 204 <=> Val(p) = OK)
      <4>1. CASE Val(p) = OK /\ Refuse(p, 204, "")
        <5>1. Val(p) = OK /\ \E why : Refuse(p, 204, why)
          BY <4>1, Zenon
        <5> QED
          BY <5>1, AnswersStatus
      <4>2. CASE Val(p) = CartNotFound /\ Refuse(p, 404, "CART_NOT_FOUND")
        BY <4>2, AnswersStatus DEF OK, CartNotFound
      <4>3. CASE Val(p) = FoodLimited /\ Refuse(p, 403, "FOOD_OUT_OF_LIMIT")
        BY <4>3, AnswersStatus DEF OK, FoodLimited
      <4>4. CASE Val(p) = NotYourCart /\ Refuse(p, 401, "NOT_AUTHORIZED_TO_ACCESS_CART")
        BY <4>4, AnswersStatus DEF OK, NotYourCart
      <4> QED
        BY <2>5, <4>1, <4>2, <4>3, <4>4 DEF FoodAdded
    <3> QED
      BY <1>2, <3>1, <3>2 DEF Adds
  <2> QED
    BY <2>1, <2>2, <2>3, <2>4, <2>5
       DEF HandlerSteps, PostLogin, LoggedIn, CreateCart, CartCreated, PostOrder, OrderPosted,
           GetOrder, OrderIdRead, OrderItemsRead, AdminGetOrder, AdminQueried, At, Returned
<1> QED
  BY <1>2, <1>4, <1>5, SumsStay

\* An AddFood that succeeds adds one count to one line, and one request to
\* those that added to it.
LEMMA ExecuteSum ==
  ASSUME ShopInv, Calm, LineSums, NEW m \in net, Execute(m)
  PROVE  LineSums'
<1> DEFINE p == m.proc
           rq == req[p]
<1>1. /\ p \in Proc /\ Request(p) /\ call[p].state = "sent" /\ m = Attempt(p, call[p])
      /\ m.cmd = call[p].cmd
  BY DEF ShopInv, Messages, Calm, InStep, Attempt
<1>2. /\ Effect(m.cmd)
      /\ call' = [call EXCEPT ![p].state = "replied", ![p].val = ReplyTo(m.cmd)]
      /\ UNCHANGED <<pc, req, answer>>
  BY <1>1 DEF Execute
<1>3. /\ call'[p].state = "replied" /\ call'[p].val = ReplyTo(m.cmd)
      /\ \A q \in Proc \ {p} : call'[q] = call[q]
  <2>1. /\ call = [q \in Proc |-> call[q]]
        /\ call[p] = [cmd |-> call[p].cmd, try |-> call[p].try, state |-> call[p].state,
                      val |-> call[p].val]
    BY <1>1 DEF ShopInv, Typed
  <2>2. \A q \in Proc \ {p} : call'[q] = call[q]
    BY <1>2, <2>1
  <2>3. call'[p] = [cmd |-> m.cmd, try |-> call[p].try, state |-> "replied", val |-> ReplyTo(m.cmd)]
    BY <1>1, <1>2, <2>1
  <2> QED
    BY <2>2, <2>3
<1>4. pc[p] \in {"checking", "call", "items"} /\ rq \in Requests /\ pc[p] # "idle"
  BY <1>1 DEF Request, Calls, Stage, NoCall, ShopInv, Typed, Stages
<1>5. \A q \in Proc \ {p} : \A c, f : Adds(q, c, f)' <=> Adds(q, c, f)
  BY <1>2, <1>3, ZenonT(60) DEF Adds, Val
<1>6. \A c, f : ~ Adds(p, c, f)
  BY <1>1, <1>4 DEF Adds
<1>7. CASE At(p, "call", "patch")
  <2> DEFINE a == rq.cart
             g == rq.food
             n == rq.count
  <2>1. /\ m.cmd = [op |-> "AddFood", token |-> rq.token, cart |-> a, food |-> g, count |-> n]
        /\ a \in Cart /\ g \in Food /\ n \in Int
    BY <1>1, <1>4, <1>7, FieldsOfRequests, StoreAssumption DEF At, Request, Calls, Writes
  <2>2. AddFood(rq.token, a, g, n) /\ ReplyTo(m.cmd) = AddFoodReply(rq.token, a, n)
    BY <1>2, <2>1 DEF Effect, IsWrite, ReplyTo
  <2>3. \A c, f : Adds(p, c, f)' <=> c = a /\ f = g /\ ReplyTo(m.cmd) = OK
    BY <1>2, <1>3, <1>7 DEF Adds, At, Val
  <2>4. CASE ReplyTo(m.cmd) # OK
    <3>1. UNCHANGED cart
      BY <2>2, <2>4 DEF AddFood
    <3> QED
      BY <1>2, <1>5, <1>6, <2>3, <2>4, <3>1, SumsStay
  <2>5. CASE ReplyTo(m.cmd) = OK
    <3>1. cart' = [cart EXCEPT ![a] = HIncrBy(@, g, n)] /\ cart = [c \in Cart |-> cart[c]]
      BY <2>2, <2>5 DEF AddFood, ShopInv, IInv, TypeOK, IsHashMap
    <3> SUFFICES ASSUME NEW c \in Cart, NEW f \in Food
                 PROVE  /\ IsFiniteSet(Added(c, f)')
                        /\ Line(cart'[c], f) = Total([q \in Added(c, f)' |-> req[q].count])
      BY <1>2 DEF LineSums
    <3>2. /\ IsFiniteSet(Added(c, f))
          /\ Line(cart[c], f) = Total([q \in Added(c, f) |-> req[q].count])
      BY DEF LineSums
    <3>3. CASE c = a /\ f = g
      <4>1. Added(c, f)' = Added(c, f) \cup {p} /\ p \notin Added(c, f)
        BY <1>1, <1>5, <1>6, <2>3, <2>5, <3>3 DEF Added
      <4>2. IsFiniteSet(Added(c, f)')
        BY <3>2, <4>1, FS_AddElement
      <4>3. \A q \in Added(c, f) \cup {p} : req[q].count \in Int
        BY <2>1, CountsAreInt DEF Added
      <4>4. Line(cart'[c], f) = Line(cart[c], f) + n
        BY <3>1, <3>3 DEF HIncrBy, HSet, Line
      <4> QED
        <5>1. Total([q \in Added(c, f) \cup {p} |-> req[q].count])
                = Total([q \in Added(c, f) |-> req[q].count]) + req[p].count
          BY <3>2, <4>1, <4>3, SumOneMore
        <5> QED
          BY <3>2, <4>1, <4>2, <4>4, <5>1
    <3>4. CASE c # a \/ f # g
      <4>1. Added(c, f)' = Added(c, f)
        BY <1>5, <1>6, <2>3, <3>4 DEF Added
      <4>2. Line(cart'[c], f) = Line(cart[c], f)
        BY <3>1, <3>4 DEF HIncrBy, HSet, Line
      <4> QED
        BY <3>2, <4>1, <4>2
    <3> QED
      BY <3>3, <3>4
  <2> QED
    BY <2>4, <2>5
<1>8. CASE ~ At(p, "call", "patch")
  <2>1. \A c, f : ~ Adds(p, c, f)'
    BY <1>2, <1>4, <1>8 DEF Adds, At
  <2>2. m.cmd.op # "AddFood"
    <3> SUFFICES ASSUME m.cmd.op = "AddFood" PROVE FALSE
      OBVIOUS
    <3>1. IsWrite(m.cmd)
      BY DEF IsWrite
    <3>2. Writes(p, m.cmd) /\ pc[p] = "call"
      BY <1>1, <1>4, <3>1 DEF Request, Calls
    <3> QED
      BY <1>8, <3>2, WritesByKind DEF At
  <2>3. UNCHANGED cart
    BY <1>2, <2>2 DEF Effect, SetToken, SetCartUser, PlaceOrder, redisVars
  <2> QED
    BY <1>2, <1>5, <1>6, <2>1, <2>3, SumsStay
<1> QED
  BY <1>7, <1>8

-----------------------------------------------------------------------------
(* The results.                                                            *)

LEMMA InitCalm == RedisInit /\ ShopInit /\ told = {} => CalmInv
<1> SUFFICES ASSUME RedisInit, ShopInit, told = {} PROVE CalmInv
  OBVIOUS
<1>1. ShopInv
  BY InitShopInv
<1>2. InStep /\ Known
  BY DEF ShopInit, InStep, Known
<1>3. ASSUME NEW p \in Proc PROVE CalmRequest(p)
  BY DEF ShopInit, NoCall, CalmRequest, AsksFor, Knows, NotYet, At
<1> QED
  BY <1>1, <1>2, <1>3 DEF CalmInv, Calm, ShopInit

\* Only a network error makes a call fail, and only a failed call or a crash
\* ends a process.
LEMMA NextCalm == CalmInv /\ [ShopNext]_shopVars => CalmInv'
<1> SUFFICES ASSUME CalmInv, [ShopNext]_shopVars PROVE CalmInv'
  OBVIOUS
<1> DEFINE Kept == /\ faults' \in Nat /\ (faults' = 0 => faults = 0)
                   /\ (toldBefore = [q \in Proc |-> toldBefore[q]])'
<1>1. ShopInv'
  BY NextShopInv DEF CalmInv
<1>2. CASE UNCHANGED shopVars
  <2>1. Kept /\ Grows
    BY <1>2 DEF CalmInv, shopVars, handlerVars, redisVars, Grows
  <2>2. ASSUME NEW p \in Proc, CalmRequest(p), Known PROVE CalmRequest(p)'
    <3>1. RedisGrows /\ Same(p) /\ StaysAbsent(p) /\ UNCHANGED toldBefore[p]
      BY <1>2, <2>1 DEF shopVars, handlerVars, redisVars, RedisGrows, Same, StaysAbsent, AdminQuery
    <3> QED
      BY <2>2, <3>1, CalmRequestStays DEF CalmInv
  <2>3. (InStep => InStep') /\ (Known => Known')
    BY <1>2 DEF shopVars, handlerVars, redisVars, InStep, Known, Attempt
  <2> QED
    BY <1>1, <2>1, <2>2, <2>3 DEF CalmInv, Calm
<1>3. ASSUME NEW p \in Proc, NEW s \in Server, NEW rq \in Requests, Receive(p, s, rq) PROVE CalmInv'
  <2>1. Kept
    BY <1>3 DEF Receive, CalmInv
  <2> QED
    BY <1>1, <1>3, <2>1, ReceiveCalm DEF CalmInv
<1>4. ASSUME NEW m \in net, Execute(m) PROVE CalmInv'
  <2>1. Kept
    BY <1>4 DEF Execute, CalmInv
  <2> QED
    BY <1>1, <1>4, <2>1, ExecuteCalm DEF CalmInv
<1>5. ASSUME NEW p \in Proc, HandlerSteps(p) PROVE CalmInv'
  <2>1. Kept
    BY <1>5, ZenonT(60) DEF CalmInv, HandlerSteps, CheckToken, TokenRead, PostLogin, LoggedIn, CreateCart, CartCreated,
                CartAddFood, FoodAdded, PostOrder, OrderPosted, GetOrder, OrderIdRead,
                OrderItemsRead, AdminGetOrder, AdminQueried,
                Goto, CallRedis, DrawAndCall, Answer, Refuse
  <2> QED
    BY <1>1, <1>5, <2>1, HandlerStepsCalm DEF CalmInv
<1>6. ASSUME NEW p \in Proc, NetworkError(p) \/ NoConnection(p) PROVE CalmInv'
  <2>1. faults' = faults + 1 /\ UNCHANGED toldBefore
    BY <1>6 DEF NetworkError, NoConnection
  <2> QED
    BY <1>1, <2>1 DEF CalmInv
<1>7. ASSUME NEW s \in Server, Crash(s) PROVE CalmInv'
  <2>1. faults' = faults + 1 /\ UNCHANGED toldBefore
    BY <1>7 DEF Crash, Die
  <2> QED
    BY <1>1, <2>1 DEF CalmInv
<1>8. ASSUME NEW p \in Proc, Fatal(p) PROVE CalmInv'
  <2>1. UNCHANGED faults /\ UNCHANGED toldBefore /\ Failed(p)
    BY <1>8 DEF Fatal, Die
  <2>2. ~ Calm
    BY <2>1 DEF Calm, CalmRequest, Failed
  <2> QED
    BY <1>1, <2>1, <2>2 DEF CalmInv
<1> QED
  BY <1>2, <1>3, <1>4, <1>5, <1>6, <1>7, <1>8 DEF ShopNext, Handler, HandlerSteps

\* The invariant, whatever is sent and drawn.
THEOREM CalmInvariant == ShopSpec => []CalmInv
  BY InitCalm, NextCalm, PTL DEF ShopSpec

\* Until the first fault, the token and the cart id a client was given are
\* known to every server: they are in Redis when the answer is sent.
THEOREM CalmIdsShared == ShopSpec => [](faults = 0 => GivenIdsShared)
<1>1. Calm => GivenIdsShared
  BY DEF Calm, CalmRequest, Truth, GivenIdsShared, Answered, Done
<1> QED
  BY CalmInvariant, <1>1, PTL DEF CalmInv

\* Until the first fault, an order that POST /orders refused was not placed,
\* whatever other orders the user sends to other servers.
THEOREM CalmRefusalsTrue == ShopSpec => [](faults = 0 => RefusedOrdersAbsent)
<1>1. Calm => RefusedOrdersAbsent
  BY DEF Calm, CalmRequest, Truth, RefusedOrdersAbsent, Done
<1> QED
  BY CalmInvariant, <1>1, PTL DEF CalmInv

\* Until the first fault, an order a client was told of is shown to every
\* request that arrives later, on any server.
THEOREM CalmOrdersShown == ShopSpec => [](faults = 0 => ToldOrdersShown)
<1>1. Calm => ToldOrdersShown
  BY DEF Calm, CalmRequest, Truth, Lists, Sees, ToldOrdersShown, Answered, Done
<1> QED
  BY CalmInvariant, <1>1, PTL DEF CalmInv

\* Until the first fault, what the two queries show is a real order with all
\* of its lines, though another server may be changing the cart.
THEOREM CalmShownReal == ShopSpec => [](faults = 0 => ShownOrdersReal)
<1>1. Calm => ShownOrdersReal
  BY DEF Calm, CalmRequest, Truth, Lists, ShownOrdersReal, Answered, Done
<1> QED
  BY CalmInvariant, <1>1, PTL DEF CalmInv

LEMMA InitSums == RedisInit /\ ShopInit => LineSums
<1> SUFFICES ASSUME RedisInit, ShopInit, NEW c \in Cart, NEW f \in Food
             PROVE  /\ IsFiniteSet(Added(c, f))
                    /\ Line(cart[c], f) = Total([p \in Added(c, f) |-> req[p].count])
  BY DEF LineSums
<1>1. Added(c, f) = {}
  BY DEF ShopInit, Added, Adds
<1>2. Line(cart[c], f) = 0
  BY DEF RedisInit, EmptyHash, Line
<1>3. Total([p \in Added(c, f) |-> req[p].count]) = 0
  BY <1>1, TotalEmpty
<1> QED
  BY <1>1, <1>2, <1>3, FS_EmptySet

LEMMA NextSums == SumsInv /\ [ShopNext]_shopVars => SumsInv'
<1> SUFFICES ASSUME SumsInv, [ShopNext]_shopVars PROVE SumsInv'
  OBVIOUS
<1>1. CalmInv' /\ ShopInv /\ (faults = 0 => Calm /\ LineSums)
  BY NextCalm DEF SumsInv, CalmInv
<1>2. CASE UNCHANGED shopVars
  <2>1. LineSums => LineSums'
    <3>1. UNCHANGED <<cart, pc, req, call, answer>>
      BY <1>2 DEF shopVars, handlerVars, redisVars
    <3> QED
      BY <3>1, SumsStay DEF Adds, Val
  <2> QED
    BY <1>1, <1>2, <2>1 DEF SumsInv, shopVars
<1>3. ASSUME NEW p \in Proc, NEW s \in Server, NEW rq \in Requests, Receive(p, s, rq) PROVE SumsInv'
  <2>1. /\ pc[p] = "idle" /\ pc'[p] \in {"handle", "check"}
        /\ UNCHANGED <<redisVars, call, answer, faults>>
        /\ \A q \in Proc \ {p} : Same(q)
    BY <1>1, <1>3 DEF ShopInv, Typed, Receive, Same
  <2>2. LineSums => LineSums'
    <3>1. \A q \in Proc : \A c, f : Adds(q, c, f)' <=> Adds(q, c, f)
      BY <2>1 DEF Adds, Val, Same
    <3> QED
      BY <2>1, <3>1, SumsStay DEF Same, redisVars
  <2> QED
    BY <1>1, <2>1, <2>2 DEF SumsInv
<1>4. ASSUME NEW m \in net, Execute(m) PROVE SumsInv'
  <2>1. UNCHANGED faults
    BY <1>4 DEF Execute
  <2> QED
    BY <1>1, <1>4, <2>1, ExecuteSum DEF SumsInv
<1>5. ASSUME NEW p \in Proc, HandlerSteps(p) PROVE SumsInv'
  <2>1. UNCHANGED faults
    BY <1>5, ZenonT(60) DEF HandlerSteps, CheckToken, TokenRead, PostLogin, LoggedIn, CreateCart, CartCreated,
                CartAddFood, FoodAdded, PostOrder, OrderPosted, GetOrder, OrderIdRead,
                OrderItemsRead, AdminGetOrder, AdminQueried,
                Goto, CallRedis, DrawAndCall, Answer, Refuse
  <2> QED
    BY <1>1, <1>5, <2>1, HandlerStepsSum DEF SumsInv
<1>6. ASSUME \E p \in Proc : NetworkError(p) \/ NoConnection(p) \/ Fatal(p) PROVE SumsInv'
  <2>1. faults' = faults + 1 \/ (UNCHANGED faults /\ \E p \in Proc : Failed(p))
    BY <1>6 DEF NetworkError, NoConnection, Fatal, Die
  <2>2. faults' = 0 => faults' # faults + 1
    BY DEF SumsInv, CalmInv
  <2> QED
    BY <1>1, <2>1, <2>2 DEF SumsInv, Calm, CalmRequest, Failed
<1>7. ASSUME NEW s \in Server, Crash(s) PROVE SumsInv'
  <2>1. faults' = faults + 1
    BY <1>7 DEF Crash
  <2> QED
    BY <1>1, <2>1 DEF SumsInv, CalmInv
<1> QED
  BY <1>2, <1>3, <1>4, <1>5, <1>6, <1>7 DEF ShopNext, Handler, HandlerSteps

\* Until the first fault, no patch that was accepted is lost or added twice
\* and none that was refused is added: patches of all servers only race
\* inside Redis.
THEOREM CalmPatchesOnce ==
  ShopSpec => [](faults = 0 => PatchedOnceFrom([c \in Cart |-> EmptyHash]))
<1> DEFINE start == [c \in Cart |-> EmptyHash]
<1>1. ASSUME SumsInv, faults = 0 PROVE PatchedOnceFrom(start)
  <2> DEFINE Patches(c, f, status) == {p \in Proc : /\ Answered(p, "patch", status)
                                                    /\ req[p].cart = c /\ req[p].food = f}
             added(c, f) == Patches(c, f, 204) \cup {}
  <2> SUFFICES ASSUME \A p \in Proc : pc[p] \in {"idle", "done"}, NEW c \in Cart, NEW f \in Food
               PROVE  Line(cart[c], f) = Line(start[c], f) + Total([p \in added(c, f) |-> req[p].count])
    BY DEF PatchedOnceFrom
  <2>1. added(c, f) = Added(c, f)
    BY DEF Added, Adds, Answered, Done
  <2>2. /\ Line(cart[c], f) = Total([p \in Added(c, f) |-> req[p].count])
        /\ IsFiniteSet(Added(c, f)) /\ \A p \in Added(c, f) : req[p].count \in Int
    BY <1>1, CountsAreInt DEF SumsInv, CalmInv, LineSums, Added
  <2>3. Total([p \in Added(c, f) |-> req[p].count]) \in Int
    BY <2>2, TotalInt
  <2>4. Line(start[c], f) = 0
    BY DEF EmptyHash, Line
  <2> QED
    BY <2>1, <2>2, <2>3, <2>4
<1>2. RedisInit /\ ShopInit /\ told = {} => SumsInv
  BY InitCalm, InitSums DEF SumsInv
<1> QED
  BY <1>1, <1>2, NextSums, PTL DEF ShopSpec
=============================================================================
