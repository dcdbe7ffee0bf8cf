----------------------------- MODULE StockList ------------------------------
(***************************************************************************)
(* The list of foods each server answers GET /foods with.  One goroutine   *)
(* per server copies the stock of Redis into cache_food_stock every six    *)
(* seconds and builds the list from it, while orders go on taking stock.   *)
(* A stock is abstracted to its version: how often Redis has changed it.   *)
(***************************************************************************)
EXTENDS Naturals

CONSTANTS Server, Food,
          MaxSales, MaxFails, MaxCrashes,  \* BOUNDS: orders, failed HGETALLs, ends of servers
          NoList                           \* ret_get_foods before the first assignment

ASSUME StockListAssumption ==
  /\ MaxSales \in Nat /\ MaxFails \in Nat /\ MaxCrashes \in Nat
  /\ NoList \notin [Food -> Nat]

VARIABLES
  stock,      \* food:stock
  stocks,     \* history: every value food:stock has had
  cache,      \* cache_food_stock, by server
  shown,      \* ret_get_foods, by server: the list it points to, and the one whose length it has
  pc,
  reply,      \* the reply to HGETALL
  todo,       \* the fields of it not stored yet
  sales, fails, crashes

listVars == <<stock, stocks, cache, shown, pc, reply, todo, sales, fails, crashes>>

Opening == [f \in Food |-> 0]
Showing(l) == [list |-> l, length |-> l]

ListInit ==
  /\ stock = Opening /\ stocks = {Opening}
  /\ cache = [s \in Server |-> Opening]
  /\ shown = [s \in Server |-> Showing(NoList)]
  /\ pc = [s \in Server |-> "down"]
  /\ reply = [s \in Server |-> Opening]
  /\ todo = [s \in Server |-> {}]
  /\ sales = 0 /\ fails = 0 /\ crashes = 0

-----------------------------------------------------------------------------
(* place_order.lua: an order takes from the stock of all its foods.         *)
TakeStock(fs) ==
  /\ sales < MaxSales
  /\ sales' = sales + 1
  /\ stock' = [f \in Food |-> IF f \in fs THEN stock[f] + 1 ELSE stock[f]]
  /\ stocks' = stocks \cup {stock'}
  /\ UNCHANGED <<cache, shown, pc, reply, todo, fails, crashes>>

(* A server has the stock of MySQL before its goroutine starts.             *)
StartRefresher(s) ==
  /\ pc[s] = "down"
  /\ cache' = [cache EXCEPT ![s] = Opening]
  /\ pc' = [pc EXCEPT ![s] = "build"]
  /\ UNCHANGED <<stock, stocks, shown, reply, todo, sales, fails, crashes>>

ServerEnds(s) ==
  /\ pc[s] # "down" /\ crashes < MaxCrashes
  /\ crashes' = crashes + 1
  /\ shown' = [shown EXCEPT ![s] = Showing(NoList)]
  /\ pc' = [pc EXCEPT ![s] = "down"]
  /\ todo' = [todo EXCEPT ![s] = {}]
  /\ UNCHANGED <<stock, stocks, cache, reply, sales, fails>>

-----------------------------------------------------------------------------
(* The goroutine.                                                          *)

\* The list of all foods is built from the cache, which nobody else writes.
\* Its assignment to ret_get_foods takes no lock and is two writes: a GET
\* /foods in between has the length of the one list and the other's bytes.
Build(s) ==
  /\ pc[s] = "build"
  /\ shown' = [shown EXCEPT ![s].length = cache[s]]
  /\ pc' = [pc EXCEPT ![s] = "assign"]
  /\ UNCHANGED <<stock, stocks, cache, reply, todo, sales, fails, crashes>>

Assign(s) ==
  /\ pc[s] = "assign"
  /\ shown' = [shown EXCEPT ![s].list = shown[s].length]
  /\ pc' = [pc EXCEPT ![s] = "sleep"]
  /\ UNCHANGED <<stock, stocks, cache, reply, todo, sales, fails, crashes>>

\* Slip: the cache is emptied before the reply is looked at.
HGetAllClears(s) ==
  /\ pc[s] = "sleep"
  /\ \/ /\ reply' = [reply EXCEPT ![s] = stock]
        /\ todo' = [todo EXCEPT ![s] = Food]
        /\ UNCHANGED <<fails, cache>>
     \/ /\ fails < MaxFails /\ fails' = fails + 1
        /\ cache' = [cache EXCEPT ![s] = Opening]
        /\ UNCHANGED <<reply, todo>>
  /\ pc' = [pc EXCEPT ![s] = "fill"]
  /\ UNCHANGED <<stock, stocks, shown, sales, crashes>>

\* HGETALL food:stock, when six seconds are over.  The reply to a call that
\* fails is empty, and so is that of Redis before it is filled.
HGetAll(s) ==
  /\ pc[s] = "sleep"
  /\ \/ /\ reply' = [reply EXCEPT ![s] = stock]
        /\ todo' = [todo EXCEPT ![s] = Food]
        /\ UNCHANGED fails
     \/ /\ fails < MaxFails /\ fails' = fails + 1
        /\ UNCHANGED <<reply, todo>>
  /\ pc' = [pc EXCEPT ![s] = "fill"]
  /\ UNCHANGED <<stock, stocks, cache, shown, sales, crashes>>

\* Slip: HGET of each food in the place of one HGETALL.
FillReadsLate(s) ==
  /\ pc[s] = "fill" /\ todo[s] # {}
  /\ \E f \in todo[s] :
       /\ cache' = [cache EXCEPT ![s][f] = stock[f]]
       /\ todo' = [todo EXCEPT ![s] = @ \ {f}]
  /\ UNCHANGED <<stock, stocks, shown, pc, reply, sales, fails, crashes>>

\* A stock of the reply is stored in the cache.
Fill(s) ==
  /\ pc[s] = "fill" /\ todo[s] # {}
  /\ \E f \in todo[s] :
       /\ cache' = [cache EXCEPT ![s][f] = reply[s][f]]
       /\ todo' = [todo EXCEPT ![s] = @ \ {f}]
  /\ UNCHANGED <<stock, stocks, shown, pc, reply, sales, fails, crashes>>

\* Slip: the loop starts below the assignment.
AgainWithoutList(s) ==
  /\ pc[s] = "fill" /\ todo[s] = {}
  /\ pc' = [pc EXCEPT ![s] = "sleep"]
  /\ UNCHANGED <<stock, stocks, cache, shown, reply, todo, sales, fails, crashes>>

Again(s) ==
  /\ pc[s] = "fill" /\ todo[s] = {}
  /\ pc' = [pc EXCEPT ![s] = "build"]
  /\ UNCHANGED <<stock, stocks, cache, shown, reply, todo, sales, fails, crashes>>

Refresh(s) == Build(s) \/ Assign(s) \/ HGetAll(s) \/ Fill(s) \/ Again(s)

ListNext ==
  \/ \E fs \in SUBSET Food \ {{}} : TakeStock(fs)
  \/ \E s \in Server : StartRefresher(s) \/ ServerEnds(s) \/ Refresh(s)

\* The goroutine is scheduled, its sleep and its call end.
ListFairness == \A s \in Server : WF_listVars(Refresh(s))

ListSpec == ListInit /\ [][ListNext]_listVars /\ ListFairness

-----------------------------------------------------------------------------
(* Correctness.                                                            *)

\* A list shows the stocks of one moment: an order of several foods is in it
\* with all of them or not at all, though the stocks are copied one by one
\* and orders, failed calls and restarts come in between.
ListsAreSnapshots == \A s \in Server : shown[s].list \in stocks \cup {NoList}

\* The list of a server that goes on running never shows a sale undone.
ListsAdvance ==
  [][\A s \in Server :
       LET old == shown[s].list
           new == shown'[s].list
       IN  old # NoList /\ new # NoList => \A f \in Food : new[f] >= old[f]]_listVars

\* "serve from cache, ensure Eventual Consistency" (Get_foods): when sales
\* end, every server comes to show the stock of Redis, and keeps showing it.
EventuallyShown ==
  \A s \in Server : <>[](pc[s] # "down" => shown[s] = Showing(stock))
=============================================================================
