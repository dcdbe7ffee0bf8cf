---------------------------- MODULE MCShopServer ----------------------------
(* ShopServer on small instances.  Behaviours start with users logged in   *)
(* and carts created: a state the servers reach through requests that were *)
(* all answered, after which every server restarted.                       *)
EXTENDS ShopServer, TLC

CONSTANTS f1, f2, u1, u2, t1, t2, t3, t4, c1, c2, c3

CONSTANTS StartUsers,    \* token -> user
          StartCarts,    \* cart -> user
          StartLines     \* cart -> lines

MCInitStock == f1 :> 3 @@ f2 :> 1
MCLineFloor == -6

StartCart == [c \in Cart |-> IF c \in DOMAIN StartLines THEN StartLines[c] ELSE EmptyHash]

WarmInit ==
  /\ tokenUser = [t \in Token |-> IF t \in DOMAIN StartUsers THEN StartUsers[t] ELSE NULL]
  /\ cartUser  = [c \in Cart |-> IF c \in DOMAIN StartCarts THEN StartCarts[c] ELSE NULL]
  /\ cart      = StartCart
  /\ userOrder = [u \in User |-> NULL]
  /\ orderUser = [o \in OrderId |-> NULL]
  /\ order     = [o \in OrderId |-> EmptyHash]
  /\ foodStock = InitStock
  /\ told = DOMAIN StartUsers \cup DOMAIN StartCarts
  /\ ShopInit

WarmSpec == WarmInit /\ [][ShopNext]_shopVars
WarmFairSpec == WarmSpec /\ Fairness

\* u1 is logged in twice, u2 once; each has a cart.
TwoUsers == t1 :> u1 @@ t2 :> u1 @@ t3 :> u2
TwoCarts == c1 :> u1 @@ c2 :> u2
TwoLines == c1 :> (f1 :> 2) @@ c2 :> (f1 :> 2 @@ f2 :> 1)

\* c3 was never created, nobody was given t4.
Inventions == {c3, t4}
Nothing == {}

\* Orders of both users compete for f1 while patches, some of them refused,
\* change c1, u2 logs in once more and u1 creates a cart.
OrderRequests ==
  {PostOrders(t1, c1), PostOrders(t2, c1), PostOrders(t3, c2), PostOrders(t3, c1),
   Patch(t1, c1, f1, -1), Patch(t2, c1, f2, 1), Patch(t3, c1, f1, 1),
   GetOrders(t1), GetAdminOrders(t3), Login(u2), PostCarts(t1)}
OrderCounts == {-1, 1}

FaultCounts == {-1}

\* Requests of each kind, some of them refused.
EveryKind ==
  {Login(u1), Login(u2), Login(NULL), PostCarts(t3), Patch(t1, c1, f1, -1), Patch(t4, c1, f1, -1),
   Patch(t1, c1, NULL, -1), PostOrders(t1, c1), PostOrders(t3, c3), GetOrders(t1), GetAdminOrders(t3)}

\* ShopServer's property for carts that are not empty at the start: no patch
\* that was accepted is lost or added twice, no refused one is added.
PatchedOnce == PatchedOnceFrom(StartCart)

Symmetric == Permutations(Server) \cup Permutations(Proc) \cup Permutations(OrderId)
=============================================================================
