-------------------------- MODULE StockListsProofs --------------------------
(***************************************************************************)
(* Theorems about the two programs that serve the sale.                    *)
(*                                                                         *)
(* The Go servers (StockList): what GET /foods shows is the stock of one   *)
(* moment, and never an earlier one than it showed before: for any foods   *)
(* and servers, and without the bounds on orders, failed calls and         *)
(* restarts mattering.                                                     *)
(*                                                                         *)
(* The Python server (LegacyStore): its sorted sets agree, so that its     *)
(* scripts find the stock of every food, and with that they implement the  *)
(* sale: for any buyers, tokens, carts, order ids, foods and counts.       *)
(***************************************************************************)
EXTENDS StockList, LegacyStore, HashTheorems, FunctionTheorems, TLAPS

-----------------------------------------------------------------------------
(* The lists of the Go servers.                                            *)

Stock == [Food -> Nat]
Lists == Stock \cup {NoList}

\* No stock of the one is above the other's: it was the stock of Redis before.
Precedes(a, b) == \A f \in Food : a[f] <= b[f]

Typed ==
  /\ stock \in Stock /\ stocks \subseteq Stock
  /\ cache \in [Server -> Stock]
  /\ reply \in [Server -> Stock]
  /\ shown \in [Server -> [list : Lists, length : Lists]]
  /\ pc \in [Server -> {"down", "build", "assign", "sleep", "fill"}]
  /\ todo \in [Server -> SUBSET Food]

\* Redis has never had more sold than now.
Newest == stock \in stocks /\ Opening \in stocks /\ \A v \in stocks : Precedes(v, stock)

\* Outside the loop that fills it the cache is a stock that Redis had; inside
\* it is on the way from one such stock to a later one.
Filling(s) ==
  /\ reply[s] \in stocks /\ Precedes(cache[s], reply[s])
  /\ \A f \in Food \ todo[s] : cache[s][f] = reply[s][f]

CacheOf(s) ==
  /\ pc[s] # "fill" => todo[s] = {}
  /\ pc[s] \in {"build", "assign", "sleep"} => cache[s] \in stocks
  /\ pc[s] = "fill" => (todo[s] = {} /\ cache[s] \in stocks) \/ Filling(s)

\* The list shown is no later than the cache the next one is built from.
ShownBy(s) ==
  /\ shown[s].list \in stocks \cup {NoList}
  /\ shown[s].list # NoList => pc[s] # "down" /\ Precedes(shown[s].list, cache[s])
  /\ pc[s] = "assign" => shown[s].length = cache[s]

ListInv == Typed /\ Newest /\ \A s \in Server : CacheOf(s) /\ ShownBy(s)

-----------------------------------------------------------------------------
\* A cache whose stocks are all stored is the reply.
LEMMA Filled ==
  ASSUME Typed, NEW s \in Server, Filling(s), todo[s] = {}
  PROVE  cache[s] \in stocks
<1>1. cache[s] \in Stock /\ reply[s] \in Stock
  BY DEF Typed
<1>2. \A f \in Food : cache[s][f] = reply[s][f]
  BY DEF Filling
<1>3. cache[s] = reply[s]
  BY <1>1, <1>2 DEF Stock
<1> QED BY <1>3 DEF Filling

LEMMA InitListInv == ListInit => ListInv
<1> SUFFICES ASSUME ListInit PROVE ListInv
  OBVIOUS
<1>1. Opening \in Stock
  BY DEF Opening, Stock
<1>2. Typed
  BY <1>1 DEF ListInit, Typed, Lists, Showing
<1>3. Newest
  BY DEF ListInit, Newest, Precedes, Opening
<1>4. \A s \in Server : CacheOf(s) /\ ShownBy(s)
  BY DEF ListInit, CacheOf, ShownBy, Showing
<1> QED BY <1>2, <1>3, <1>4 DEF ListInv

\* The history only grows, and the stock of Redis with it.
LEMMA TakeStockKeepsListInv ==
  ASSUME ListInv, NEW fs \in SUBSET Food, TakeStock(fs)
  PROVE  ListInv'
<1>1. stock' \in Stock /\ Precedes(stock, stock')
  BY DEF ListInv, Typed, TakeStock, Stock, Precedes
<1>2. stocks' = stocks \cup {stock'} /\ UNCHANGED <<cache, shown, pc, reply, todo>>
  BY DEF TakeStock
<1>3. Typed'
  BY <1>1, <1>2 DEF ListInv, Typed
<1>4. Newest'
  <2>1. \A v \in stocks : Precedes(v, stock')
    <3> SUFFICES ASSUME NEW v \in stocks, NEW f \in Food PROVE v[f] <= stock'[f]
      BY DEF Precedes
    <3>1. v[f] <= stock[f] /\ stock[f] <= stock'[f]
      BY <1>1 DEF ListInv, Newest, Precedes
    <3>2. v[f] \in Nat /\ stock[f] \in Nat /\ stock'[f] \in Nat
      BY <1>1 DEF ListInv, Typed, Stock
    <3> QED BY <3>1, <3>2
  <2>2. Precedes(stock', stock')
    BY <1>1 DEF Precedes, Stock
  <2>3. Opening' \in stocks'
    BY <1>2 DEF ListInv, Newest, Opening
  <2> QED BY <1>2, <2>1, <2>2, <2>3 DEF Newest, Precedes
<1>5. ASSUME NEW s \in Server PROVE (CacheOf(s) /\ ShownBy(s))'
  BY <1>2 DEF ListInv, CacheOf, ShownBy, Filling, Precedes
<1> QED BY <1>3, <1>4, <1>5 DEF ListInv

\* A step of a server leaves Redis and the other servers alone.
ServerStep(s) == StartRefresher(s) \/ ServerEnds(s) \/ Refresh(s)

OthersStay(s) ==
  \A t \in Server \ {s} :
    /\ cache'[t] = cache[t] /\ reply'[t] = reply[t] /\ shown'[t] = shown[t]
    /\ pc'[t] = pc[t] /\ todo'[t] = todo[t]

LEMMA StepOfOne ==
  ASSUME Typed, NEW s \in Server, ServerStep(s)
  PROVE  Typed' /\ OthersStay(s) /\ UNCHANGED <<stock, stocks>>
<1>1. Opening \in Stock
  BY DEF Opening, Stock
<1>2. CASE StartRefresher(s)
  BY <1>1, <1>2 DEF StartRefresher, Typed, OthersStay
<1>3. CASE ServerEnds(s)
  BY <1>3 DEF ServerEnds, Typed, OthersStay, Showing, Lists
<1>4. CASE Build(s)
  BY <1>4 DEF Build, Typed, OthersStay, Lists
<1>5. CASE Assign(s)
  BY <1>5 DEF Assign, Typed, OthersStay, Lists
<1>6. CASE HGetAll(s)
  BY <1>6 DEF HGetAll, Typed, OthersStay
<1>7. CASE Fill(s)
  BY <1>7 DEF Fill, Typed, OthersStay, Stock
<1>8. CASE Again(s)
  BY <1>8 DEF Again, Typed, OthersStay
<1> QED BY <1>2, <1>3, <1>4, <1>5, <1>6, <1>7, <1>8 DEF ServerStep, Refresh

LEMMA StepKeepsOwn ==
  ASSUME ListInv, NEW s \in Server, ServerStep(s)
  PROVE  (CacheOf(s) /\ ShownBy(s))'
<1>1. Typed' /\ UNCHANGED <<stock, stocks>>
  BY StepOfOne DEF ListInv
<1>2. cache[s] \in Stock /\ CacheOf(s) /\ ShownBy(s)
  BY DEF ListInv, Typed
<1>3. CASE StartRefresher(s)
  BY <1>1, <1>2, <1>3 DEF ListInv, Typed, Newest, StartRefresher, CacheOf, ShownBy
<1>4. CASE ServerEnds(s)
  BY <1>1, <1>4 DEF ListInv, Typed, ServerEnds, CacheOf, ShownBy, Showing
<1>5. CASE Build(s)
  <2>1. shown'[s].list = shown[s].list /\ shown'[s].length = cache[s] /\ pc'[s] = "assign" /\ cache' = cache
    BY <1>5 DEF ListInv, Typed, Build
  <2> QED BY <1>1, <1>2, <1>5, <2>1 DEF Build, CacheOf, ShownBy
<1>6. CASE Assign(s)
  <2>1. shown'[s].list = cache[s] /\ pc'[s] = "sleep" /\ cache' = cache
      /\ cache[s] \in stocks /\ todo'[s] = {}
    BY <1>2, <1>6 DEF ListInv, Typed, Assign, ShownBy, CacheOf
  <2>2. Precedes(cache[s], cache[s])
    BY <1>2 DEF Precedes, Stock
  <2> QED BY <1>1, <2>1, <2>2 DEF CacheOf, ShownBy, Precedes
<1>7. CASE HGetAll(s)
  <2>1. pc'[s] = "fill" /\ cache[s] \in stocks /\ UNCHANGED <<cache, shown>>
    BY <1>2, <1>7 DEF ListInv, Typed, HGetAll, CacheOf
  <2>2. ShownBy(s)'
    BY <1>1, <1>2, <1>7, <2>1 DEF HGetAll, ShownBy, Precedes
  <2>3. Precedes(cache[s], stock) /\ stock \in stocks
    BY <2>1 DEF ListInv, Newest
  <2>4. CASE reply' = [reply EXCEPT ![s] = stock] /\ todo' = [todo EXCEPT ![s] = Food]
    <3>1. reply'[s] = stock /\ todo'[s] = Food
      BY <2>4 DEF ListInv, Typed
    <3> QED BY <1>1, <2>1, <2>2, <2>3, <3>1 DEF CacheOf, Filling, Precedes
  <2>5. CASE UNCHANGED <<reply, todo>>
    <3>1. todo[s] = {}
      BY <1>2, <1>7 DEF HGetAll, CacheOf
    <3> QED BY <1>1, <2>1, <2>2, <2>5, <3>1 DEF CacheOf
  <2> QED BY <1>7, <2>4, <2>5 DEF HGetAll
<1>8. CASE Fill(s)
  <2>1. PICK f \in todo[s] : /\ cache' = [cache EXCEPT ![s][f] = reply[s][f]]
                             /\ todo' = [todo EXCEPT ![s] = @ \ {f}]
    BY <1>8 DEF Fill
  <2>2. f \in Food /\ Filling(s) /\ pc[s] = "fill" /\ UNCHANGED <<shown, reply, pc>>
    BY <1>2, <1>8, <2>1 DEF ListInv, Typed, Fill, CacheOf
  <2>3. todo'[s] = todo[s] \ {f} /\ cache'[s] = [cache[s] EXCEPT ![f] = reply[s][f]]
    BY <2>1 DEF ListInv, Typed
  <2>4. reply[s][f] \in Nat /\ cache[s][f] <= reply[s][f]
    BY <2>2 DEF ListInv, Typed, Stock, Filling, Precedes
  <2>5. Filling(s)'
    BY <1>1, <1>2, <2>2, <2>3, <2>4 DEF Filling, Precedes, Stock
  <2>6. Precedes(cache[s], cache'[s])
    BY <1>2, <2>2, <2>3, <2>4 DEF Precedes, Stock
  <2>7. ShownBy(s)'
    <3> SUFFICES ASSUME shown[s].list # NoList PROVE Precedes(shown[s].list, cache'[s])
      BY <1>1, <1>2, <2>2 DEF ShownBy
    <3>1. shown[s].list \in Stock /\ cache'[s] \in Stock
      BY <1>1 DEF ListInv, Typed, Lists
    <3>2. Precedes(shown[s].list, cache[s])
      BY <1>2 DEF ShownBy
    <3> QED BY <1>2, <2>6, <3>1, <3>2 DEF Precedes, Stock
  <2> QED BY <2>2, <2>5, <2>7 DEF CacheOf
<1>9. CASE Again(s)
  <2>1. cache[s] \in stocks
    BY <1>2, <1>9, Filled DEF ListInv, Again, CacheOf
  <2>2. pc'[s] = "build" /\ todo[s] = {} /\ UNCHANGED <<cache, shown, reply, todo>>
    BY <1>9 DEF ListInv, Typed, Again
  <2> QED BY <1>1, <1>2, <2>1, <2>2 DEF CacheOf, ShownBy
<1> QED BY <1>3, <1>4, <1>5, <1>6, <1>7, <1>8, <1>9 DEF ServerStep, Refresh

LEMMA StepKeepsListInv ==
  ASSUME ListInv, NEW s \in Server, ServerStep(s)
  PROVE  ListInv'
<1>1. Typed' /\ OthersStay(s) /\ UNCHANGED <<stock, stocks>>
  BY StepOfOne DEF ListInv
<1>2. Newest'
  BY <1>1 DEF ListInv, Newest, Opening, Precedes
<1>3. (CacheOf(s) /\ ShownBy(s))'
  BY StepKeepsOwn
<1>4. ASSUME NEW t \in Server \ {s} PROVE (CacheOf(t) /\ ShownBy(t))'
  BY <1>1, <1>4 DEF ListInv, OthersStay, CacheOf, ShownBy, Filling, Precedes
<1> QED BY <1>1, <1>2, <1>3, <1>4 DEF ListInv

LEMMA NextListInv == ListInv /\ [ListNext]_listVars => ListInv'
<1> SUFFICES ASSUME ListInv, [ListNext]_listVars PROVE ListInv'
  OBVIOUS
<1>1. CASE UNCHANGED listVars
  BY <1>1 DEF listVars, ListInv, Typed, Newest, CacheOf, ShownBy, Filling, Precedes, Opening
<1>2. ASSUME NEW fs \in SUBSET Food, TakeStock(fs) PROVE ListInv'
  BY <1>2, TakeStockKeepsListInv
<1>3. ASSUME NEW s \in Server, ServerStep(s) PROVE ListInv'
  BY <1>3, StepKeepsListInv
<1> QED BY <1>1, <1>2, <1>3 DEF ListNext, ServerStep

\* The invariant, whatever is ordered, fails or ends, and when.
THEOREM ListInvariant == ListSpec => []ListInv
<1> QED BY InitListInv, NextListInv, PTL DEF ListSpec

\* Every list that GET /foods answers with holds the stocks of one moment
\* (cache_food_stock is filled food by food while orders go on).
THEOREM ListsShowOneMoment == ListSpec => []ListsAreSnapshots
<1>1. ListInv => ListsAreSnapshots
  BY DEF ListInv, ShownBy, ListsAreSnapshots
<1> QED BY <1>1, ListInvariant, PTL

-----------------------------------------------------------------------------
LEMMA StepAdvances ==
  ASSUME ListInv, NEW s \in Server, ServerStep(s), shown[s].list # NoList, shown'[s].list # NoList
  PROVE  Precedes(shown[s].list, shown'[s].list)
<1>1. shown[s].list \in Stock /\ cache[s] \in Stock /\ ShownBy(s)
  BY DEF ListInv, Typed, Lists
<1>2. pc[s] # "down"
  BY <1>1 DEF ShownBy
<1>3. ~ StartRefresher(s) /\ ~ ServerEnds(s)
  BY <1>2 DEF StartRefresher, ServerEnds, ListInv, Typed, Showing
<1>4. CASE Assign(s)
  <2>1. shown'[s].list = cache[s]
    BY <1>1, <1>4 DEF ListInv, Typed, Assign, ShownBy
  <2> QED BY <1>1, <2>1 DEF ShownBy
<1>5. CASE Build(s) \/ HGetAll(s) \/ Fill(s) \/ Again(s)
  <2>1. shown'[s].list = shown[s].list
    BY <1>5 DEF ListInv, Typed, Build, HGetAll, Fill, Again
  <2> QED BY <1>1, <2>1 DEF Precedes, Stock
<1> QED BY <1>3, <1>4, <1>5 DEF ServerStep, Refresh

\* No list takes a sale back that an earlier list of this server showed.
THEOREM ListsOnlyAdvance == ListSpec => ListsAdvance
<1> DEFINE Advance ==
      \A s \in Server :
         LET old == shown[s].list
             new == shown'[s].list
         IN  old # NoList /\ new # NoList => \A f \in Food : new[f] >= old[f]
<1>1. ASSUME ListInv, [ListNext]_listVars PROVE [Advance]_listVars
  <2>1. CASE UNCHANGED listVars
    BY <2>1
  <2>2. ASSUME NEW fs \in SUBSET Food, TakeStock(fs) PROVE Advance
    BY <1>1, <2>2 DEF TakeStock, ListInv, Typed, Lists, Stock
  <2>3. ASSUME NEW s \in Server, ServerStep(s) PROVE Advance
    <3> SUFFICES ASSUME NEW t \in Server, shown[t].list # NoList, shown'[t].list # NoList
                 PROVE  \A f \in Food : shown'[t].list[f] >= shown[t].list[f]
      OBVIOUS
    <3>1. shown[t].list \in Stock /\ shown'[t].list \in Stock
      BY <1>1, <2>3, StepOfOne DEF ListInv, Typed, Lists
    <3>2. Precedes(shown[t].list, shown'[t].list)
      <4>1. CASE t = s
        BY <1>1, <2>3, <4>1, StepAdvances
      <4>2. CASE t # s
        BY <1>1, <2>3, <3>1, <4>2, StepOfOne DEF ListInv, OthersStay, Precedes, Stock
      <4> QED BY <4>1, <4>2
    <3> QED BY <3>1, <3>2 DEF Precedes, Stock
  <2> QED BY <1>1, <2>1, <2>2, <2>3 DEF ListNext, ServerStep
<1>2. [][ListNext]_listVars /\ []ListInv => [][Advance]_listVars
  BY <1>1, PTL
<1> QED BY <1>2, ListInvariant, PTL DEF ListSpec, ListsAdvance

-----------------------------------------------------------------------------
(* The lines of an order, one after another, are a recursive function.  It *)
(* exists, as the sums of HashTheorems do, and by the same argument.       *)

Start == [clock |-> timestamp, count |-> count, kind |-> kind, last |-> lastUpdate]

\* it[T] is what the lines of the foods in T have made of the sorted sets.
IsRun(it, items, D) ==
  it = [T \in SUBSET D |->
          IF T = {} THEN Start
          ELSE StoreChange(it[T \ {Pick(T)}], Pick(T), StockOf(Pick(T)) - items[Pick(T)])]

Run(items) == CHOOSE it : IsRun(it, items, DOMAIN items)

\* The unfolding of the function for a set of foods.
LEMMA RunUnfolds ==
  ASSUME NEW it, NEW items, NEW D, IsRun(it, items, D), NEW T \in SUBSET D
  PROVE  /\ T = {} => it[T] = Start
         /\ T # {} => it[T] = StoreChange(it[T \ {Pick(T)}], Pick(T),
                                          StockOf(Pick(T)) - items[Pick(T)])
<1>1. it[T] = IF T = {} THEN Start
              ELSE StoreChange(it[T \ {Pick(T)}], Pick(T), StockOf(Pick(T)) - items[Pick(T)])
  BY DEF IsRun
<1> QED BY <1>1

\* Two such functions agree on a set both know.
LEMMA RunsAgree ==
  ASSUME NEW C, IsFiniteSet(C), NEW A, C \subseteq A, NEW B, C \subseteq B, NEW items,
         NEW i, IsRun(i, items, A), NEW j, IsRun(j, items, B)
  PROVE  i[C] = j[C]
<1> DEFINE T == {S \in SUBSET C : i[S] # j[S]}
<1> SUFFICES ASSUME T # {} PROVE FALSE
  OBVIOUS
<1>1. T \in SUBSET (SUBSET C)
  OBVIOUS
<1>2. PICK S \in T : \A U \in T : U \subseteq S => U = S
  <2> HIDE DEF T
  <2> QED BY <1>1, LeastSubset
<1>3. CASE S = {}
  BY <1>3, RunUnfolds
<1>4. CASE S # {}
  <2>1. Pick(S) \in S
    BY <1>4, PickIsIn
  <2>2. i[S \ {Pick(S)}] = j[S \ {Pick(S)}]
    BY <1>2, <2>1
  <2>3. S \in SUBSET A /\ S \in SUBSET B
    OBVIOUS
  <2> QED BY <1>2, <1>4, <2>2, <2>3, RunUnfolds
<1> QED BY <1>3, <1>4

\* The recursive function exists.
LEMMA RunExists ==
  ASSUME NEW items, NEW D, IsFiniteSet(D)
  PROVE  \E it : IsRun(it, items, D)
<1> DEFINE T == {S \in SUBSET D : ~ \E it : IsRun(it, items, S)}
<1> SUFFICES ASSUME T # {} PROVE FALSE
  OBVIOUS
<1>1. PICK S \in T : \A U \in T : U \subseteq S => U = S
  <2>1. T \in SUBSET (SUBSET D)
    OBVIOUS
  <2> HIDE DEF T
  <2> QED BY <2>1, LeastSubset
<1> DEFINE F(U) == CHOOSE it : IsRun(it, items, U)
           Next(U, before) == StoreChange(before, Pick(U), StockOf(Pick(U)) - items[Pick(U)])
           it == [U \in SUBSET S |->
                    IF U = {} THEN Start
                    ELSE Next(U, F(U \ {Pick(U)})[U \ {Pick(U)}])]
<1>2. \A U \in SUBSET S : U # S => IsRun(F(U), items, U)
  BY <1>1
<1>3. \A U \in SUBSET S : U # S => it[U] = F(U)[U]
  <2> SUFFICES ASSUME NEW U \in SUBSET S, U # S PROVE it[U] = F(U)[U]
    OBVIOUS
  <2>1. IsRun(F(U), items, U)
    BY <1>2
  <2> HIDE DEF F
  <2>2. CASE U = {}
    BY <2>1, <2>2, RunUnfolds
  <2>3. CASE U # {}
    <3> DEFINE V == U \ {Pick(U)}
    <3>1. Pick(U) \in U
      BY <2>3, PickIsIn
    <3>2. V \in SUBSET S /\ V # S
      BY <3>1
    <3>3. IsRun(F(V), items, V)
      BY <1>2, <3>2
    <3>4. F(U)[V] = F(V)[V]
      <4>1. V \subseteq U /\ IsFiniteSet(V)
        BY <1>1, FS_Subset
      <4> HIDE DEF V
      <4> QED BY <2>1, <3>3, <4>1, RunsAgree
    <3>5. F(U)[U] = Next(U, F(U)[V])
      BY <2>1, <2>3, RunUnfolds
    <3>6. it[U] = Next(U, F(V)[V])
      BY <2>3
    <3> QED BY <3>4, <3>5, <3>6
  <2> QED BY <2>2, <2>3
<1>4. IsRun(it, items, S)
  <2>1. \A U \in SUBSET S : U # {} => /\ U \ {Pick(U)} \in SUBSET S
                                      /\ U \ {Pick(U)} # S
    BY PickIsIn
  <2>2. \A U \in SUBSET S : U # {} => F(U \ {Pick(U)})[U \ {Pick(U)}] = it[U \ {Pick(U)}]
    BY <1>3, <2>1
  <2>3. it = [U \in SUBSET S |-> IF U = {} THEN Start ELSE Next(U, it[U \ {Pick(U)}])]
    <3> HIDE DEF F, Next
    <3>1. \A U \in SUBSET S : it[U] = IF U = {} THEN Start ELSE Next(U, it[U \ {Pick(U)}])
      BY <2>2
    <3>2. it = [U \in SUBSET S |-> it[U]]
      OBVIOUS
    <3> HIDE DEF it
    <3> QED BY <3>1, <3>2
  <2> HIDE DEF it
  <2> QED BY <2>3 DEF IsRun
<1> QED BY <1>1, <1>4

\* What an order leaves of the sorted sets.
LEMMA StoreLinesIsRun ==
  ASSUME NEW items, IsFiniteSet(DOMAIN items)
  PROVE  /\ IsRun(Run(items), items, DOMAIN items)
         /\ StoreLines(items) = Run(items)[DOMAIN items]
<1>1. IsRun(Run(items), items, DOMAIN items)
  BY RunExists DEF Run
<1>2. StoreLines(items) = Run(items)[DOMAIN items]
  BY DEF StoreLines, FoldSet, MapThenFoldSet, Run, IsRun, Pick, Start
<1> QED BY <1>1, <1>2

-----------------------------------------------------------------------------
(* The inductive invariant.                                                *)

\* In the sorted sets of s each food has one change, at a time of its own that
\* has been, and n is the stock it left.
Shelves(s, n) ==
  /\ s.clock \in Int /\ s.last \in [LFood -> Int]
  /\ \A f, g \in LFood : s.last[f] = s.last[g] => f = g
  /\ \A f \in LFood : s.last[f] <= s.clock
  /\ s.kind = {<<s.last[f], f>> : f \in LFood}
  /\ s.count = {<<s.last[f], n[f]>> : f \in LFood}

Stocks == [f \in LFood |-> StockOf(f)]

Types ==
  /\ tokenOf \in [LToken -> Buyer \cup {None}]
  /\ cartOf \in [LCart -> Buyer \cup {None, "nobody"}]
  /\ IsHashMap(lines, LCart, LFood)
  /\ orderOf \in [Buyer -> LOrder \cup {None}]
  /\ buyerOf \in [LOrder -> Buyer \cup {None}]
  /\ orderCart \in [LOrder -> LCart \cup {None}]
  /\ purchase = [u \in Buyer |-> purchase[u]]

Limited == \A c \in LCart : Total(lines[c]) <= 3

\* The keys of an order name each other, and its cart is its buyer's.
Paired ==
  /\ \A o \in LOrder : buyerOf[o] # None => /\ orderOf[buyerOf[o]] = o
                                            /\ orderCart[o] \in LCart
                                            /\ cartOf[orderCart[o]] = buyerOf[o]
  /\ \A u \in Buyer : orderOf[u] # None => buyerOf[orderOf[u]] = u
  /\ \A u \in Buyer : orderOf[u] = None => purchase[u] = None

Indexed == Shelves(Start, Stocks) /\ Stocks \in [LFood -> Int]

\* No line is below the bound, so an order puts back at most that much of a food,
\* and no stock gets to StockBase: the scripts read the stock they wrote.
Floored == \A c \in LCart : \A f \in DOMAIN lines[c] : LineBound <= lines[c][f]

Sold == {o \in LOrder : buyerOf[o] # None}

Bounded ==
  \A f \in LFood : /\ 0 <= Stocks[f]
                   /\ Stocks[f] <= OpeningStock[f] - Cardinality(Sold) * LineBound

LegacyInv == Types /\ Limited /\ Paired /\ Indexed /\ Floored /\ Bounded

\* The stocks a member of food:stock:count has room for.
Storable == 0 .. StockBase - 1

LEMMA StoredAsIs == StockBase \in Nat /\ \A m \in Storable : m % StockBase = m
<1>1. StockBase \in Nat
  BY SMT DEF StockBase
<1>2. ASSUME NEW m \in Storable PROVE m % StockBase = m
  BY <1>1, <1>2, SMT DEF Storable
<1> QED BY <1>1, <1>2

-----------------------------------------------------------------------------
(* The sorted sets.                                                        *)

\* The scripts find the stock of a food under the time of its last change.
StocksAre(n) == n \in [LFood -> Int] /\ Shelves(Start, n) => Stocks = n

LEMMA StockFound ==
  ASSUME NEW n
  PROVE  StocksAre(n)
<1> SUFFICES ASSUME n \in [LFood -> Int], Shelves(Start, n) PROVE Stocks = n
  BY DEF StocksAre
<1>1. ASSUME NEW f \in LFood PROVE StockOf(f) = n[f]
  <2>1. count = {<<lastUpdate[g], n[g]>> : g \in LFood}
    BY DEF Shelves, Start
  <2>2. \A g \in LFood : lastUpdate[f] = lastUpdate[g] => f = g
    BY DEF Shelves, Start
  <2>3. AtScore(count, lastUpdate[f]) = {<<lastUpdate[f], n[f]>>}
    <3>1. \A r \in AtScore(count, lastUpdate[f]) : r = <<lastUpdate[f], n[f]>>
      BY <2>1, <2>2 DEF AtScore
    <3>2. <<lastUpdate[f], n[f]>> \in AtScore(count, lastUpdate[f])
      BY <2>1 DEF AtScore
    <3> QED BY <3>1, <3>2
  <2>4. StockOf(f) = CHOOSE m \in {n[f]} : \A k \in {n[f]} : m <= k
    BY <2>3 DEF StockOf
  <2> QED BY <2>4
<1> QED BY <1>1 DEF Stocks

\* One line of an order changes the stock of its food, and of that alone.
LEMMA ChangeKeepsShelves ==
  ASSUME NEW s, NEW n \in [LFood -> Int], Shelves(s, n), NEW f \in LFood, NEW m \in Storable
  PROVE  Shelves(StoreChange(s, f, m), [n EXCEPT ![f] = m])
<1> DEFINE t == StoreChange(s, f, m)
<1>1. /\ t.clock = s.clock + 1
      /\ t.last = [s.last EXCEPT ![f] = s.clock + 1]
      /\ t.kind = Without(s.kind, s.last[f]) \cup {<<s.clock + 1, f>>}
      /\ t.count = Without(s.count, s.last[f]) \cup {<<s.clock + 1, m>>}
  BY StoredAsIs DEF StoreChange
<1> HIDE DEF t
<1>2. \A g \in LFood : t.last[g] = IF g = f THEN s.clock + 1 ELSE s.last[g]
  BY <1>1 DEF Shelves
<1>3. t.clock \in Int /\ t.last \in [LFood -> Int] /\ \A g \in LFood : t.last[g] <= t.clock
  BY <1>1, <1>2 DEF Shelves
<1>4. \A g, h \in LFood : t.last[g] = t.last[h] => g = h
  BY <1>2 DEF Shelves
<1>5. t.kind = {<<t.last[g], g>> : g \in LFood}
  <2>1. Without(s.kind, s.last[f]) = {<<s.last[g], g>> : g \in LFood \ {f}}
    BY DEF Shelves, Without, AtScore
  <2>2. {<<s.last[g], g>> : g \in LFood \ {f}} = {<<t.last[g], g>> : g \in LFood \ {f}}
    BY <1>2
  <2>3. <<s.clock + 1, f>> = <<t.last[f], f>>
    BY <1>2
  <2> QED BY <1>1, <2>1, <2>2, <2>3
<1>6. t.count = {<<t.last[g], [n EXCEPT ![f] = m][g]>> : g \in LFood}
  <2> DEFINE k == [n EXCEPT ![f] = m]
  <2>1. \A g \in LFood : k[g] = IF g = f THEN m ELSE n[g]
    OBVIOUS
  <2> HIDE DEF k
  <2>2. Without(s.count, s.last[f]) = {<<s.last[g], n[g]>> : g \in LFood \ {f}}
    BY DEF Shelves, Without, AtScore
  <2>3. {<<s.last[g], n[g]>> : g \in LFood \ {f}} = {<<t.last[g], k[g]>> : g \in LFood \ {f}}
    BY <1>2, <2>1
  <2>4. <<s.clock + 1, m>> = <<t.last[f], k[f]>>
    BY <1>2, <2>1
  <2>5. t.count = {<<t.last[g], k[g]>> : g \in LFood}
    BY <1>1, <2>2, <2>3, <2>4
  <2> QED BY <2>5 DEF k
<1>7. Shelves(t, [n EXCEPT ![f] = m])
  BY <1>3, <1>4, <1>5, <1>6 DEF Shelves
<1> QED BY <1>7 DEF t

\* An order takes its lines from the stock, each once and whatever their order.
LEMMA LinesKeepShelves ==
  ASSUME Indexed, NEW items, IsHash(items, LFood),
         \A f \in DOMAIN items : Stocks[f] - items[f] \in Storable
  PROVE  /\ Shelves(StoreLines(items), Take(Stocks, items))
         /\ Take(Stocks, items) \in [LFood -> Int]
<1> DEFINE D == DOMAIN items
           After(U) == [f \in LFood |-> IF f \in U THEN Stocks[f] - items[f] ELSE Stocks[f]]
           it == Run(items)
           T == {U \in SUBSET D : ~ Shelves(it[U], After(U))}
<1>1. IsFiniteSet(D) /\ D \subseteq LFood
  BY LegacyAssumption, FS_Subset DEF IsHash
<1>2. \A U \in SUBSET D : After(U) \in [LFood -> Int]
  BY DEF Indexed, IsHash
<1>3. \A f \in LFood : StockOf(f) = Stocks[f]
  BY DEF Stocks
<1>4. T = {}
  <2> SUFFICES ASSUME T # {} PROVE FALSE
    OBVIOUS
  <2>1. PICK U \in T : \A V \in T : V \subseteq U => V = U
    <3>1. T \in SUBSET (SUBSET D)
      OBVIOUS
    <3> HIDE DEF T, D
    <3> QED BY <1>1, <3>1, LeastSubset
  <2>2. IsRun(it, items, D)
    BY <1>1, StoreLinesIsRun
  <2>3. CASE U = {}
    <3>1. it[U] = Start
      BY <2>2, <2>3, RunUnfolds
    <3>2. After(U) = Stocks
      BY <2>3 DEF Stocks
    <3> QED BY <2>1, <3>1, <3>2 DEF Indexed
  <2>4. CASE U # {}
    <3> DEFINE x == Pick(U)
               V == U \ {x}
    <3>1. x \in U /\ x \in LFood
      BY <1>1, <2>4, PickIsIn
    <3>2. it[U] = StoreChange(it[V], x, StockOf(x) - items[x])
      <4>1. U \in SUBSET D
        BY <2>1
      <4> HIDE DEF it, D, T
      <4>2. it[U] = StoreChange(it[U \ {Pick(U)}], Pick(U), StockOf(Pick(U)) - items[Pick(U)])
        BY <2>2, <2>4, <4>1, RunUnfolds
      <4> QED BY <4>2
    <3>3. V \notin T /\ V \in SUBSET D
      BY <2>1, <3>1
    <3>4. Shelves(it[V], After(V))
      BY <3>3
    <3>5. StockOf(x) - items[x] \in Storable
      BY <1>3, <3>1
    <3>6. After(U) = [After(V) EXCEPT ![x] = StockOf(x) - items[x]]
      BY <1>3, <3>1
    <3>7. After(V) \in [LFood -> Int]
      BY <1>2, <3>3
    <3>8. Shelves(it[U], After(U))
      <4> DEFINE s == it[V]
                 n == After(V)
                 m == StockOf(x) - items[x]
      <4>1. n \in [LFood -> Int] /\ Shelves(s, n) /\ m \in Storable /\ x \in LFood
        BY <3>1, <3>4, <3>5, <3>7
      <4>2. it[U] = StoreChange(s, x, m) /\ After(U) = [n EXCEPT ![x] = m]
        BY <3>2, <3>6
      <4> HIDE DEF s, n, m, x, it, After
      <4> QED BY <4>1, <4>2, ChangeKeepsShelves
    <3> QED BY <2>1, <3>8
  <2> QED BY <2>3, <2>4
<1>5. Take(Stocks, items) = After(D)
  BY <1>1 DEF Indexed, Take, Line, Stocks
<1>6. Shelves(it[D], After(D))
  BY <1>4
<1> QED BY <1>1, <1>2, <1>5, <1>6, StoreLinesIsRun

-----------------------------------------------------------------------------
(* The invariant holds in every state.                                     *)

\* The foods can be stored one after another.
LEMMA OrderExists ==
  \E order \in [LFood -> 1 .. Cardinality(LFood)] :
    \A f, g \in LFood : order[f] = order[g] => f = g
<1> DEFINE N == 1 .. Cardinality(LFood)
<1>1. ExistsBijection(N, LFood)
  BY LegacyAssumption, FS_CardinalityType
<1>2. ExistsBijection(LFood, N)
  BY <1>1, Fun_ExistsBijSymmetric
<1>3. PICK order \in Bijection(LFood, N) : TRUE
  BY <1>2, Fun_ExistsBij
<1>4. order \in [LFood -> N] /\ \A f, g \in LFood : order[f] = order[g] => f = g
  BY <1>3 DEF Bijection, Injection, IsInjective
<1> QED BY <1>4

LEMMA InitShelves ==
  ASSUME LegacyInit
  PROVE  Shelves(Start, OpeningStock) /\ Stocks = OpeningStock
<1>1. Cardinality(LFood) \in Nat
  BY LegacyAssumption, FS_CardinalityType
<1>2. /\ lastUpdate \in [LFood -> 1 .. Cardinality(LFood)]
      /\ \A f, g \in LFood : lastUpdate[f] = lastUpdate[g] => f = g
  BY OrderExists DEF LegacyInit
<1>3. timestamp = Cardinality(LFood)
  BY DEF LegacyInit
<1>4. Shelves(Start, OpeningStock)
  <2>1. /\ Start.clock = timestamp /\ Start.last = lastUpdate
        /\ Start.kind = kind /\ Start.count = count
    BY DEF Start
  <2>2. timestamp \in Int /\ lastUpdate \in [LFood -> Int]
    BY <1>1, <1>2, <1>3
  <2>3. \A f \in LFood : lastUpdate[f] <= timestamp
    BY <1>1, <1>2, <1>3
  <2>4. /\ kind = {<<lastUpdate[f], f>> : f \in LFood}
        /\ count = {<<lastUpdate[f], OpeningStock[f]>> : f \in LFood}
    BY DEF LegacyInit
  <2> QED BY <1>2, <2>1, <2>2, <2>3, <2>4 DEF Shelves
<1>5. OpeningStock \in [LFood -> Int]
  BY LegacyAssumption
<1> QED BY <1>4, <1>5, StockFound DEF StocksAre

LEMMA InitLegacyInv == LegacyInit => LegacyInv
<1> SUFFICES ASSUME LegacyInit PROVE LegacyInv
  OBVIOUS
<1>1. Types
  BY DEF LegacyInit, Types, IsHashMap, IsHash, EmptyHash
<1>2. Limited
  <2>1. \A c \in LCart : lines[c] = EmptyHash
    BY DEF LegacyInit
  <2>2. Total(EmptyHash) = 0
    BY TotalEmpty DEF EmptyHash
  <2> QED BY <2>1, <2>2 DEF Limited
<1>3. Paired
  BY DEF LegacyInit, Paired
<1>4. Indexed
  BY LegacyAssumption, InitShelves DEF Indexed
<1>5. Floored
  BY DEF LegacyInit, Floored, EmptyHash
<1>6. Bounded
  <2>1. Sold = {}
    BY DEF LegacyInit, Sold
  <2>2. Cardinality(Sold) = 0
    BY <2>1, FS_EmptySet
  <2>3. \A f \in LFood : OpeningStock[f] \in Nat
    BY LegacyAssumption
  <2>4. 0 * LineBound = 0
    BY LegacyAssumption
  <2> QED BY <2>2, <2>3, <2>4, InitShelves DEF Bounded
<1> QED BY <1>1, <1>2, <1>3, <1>4, <1>5, <1>6 DEF LegacyInv

\* A drawn id is one that is not used yet.
LEMMA DrawnIsUnused ==
  \A key : Unused(key) # {} => Draw(key) \in DOMAIN key /\ key[Draw(key)] = None
  BY DEF Unused, Draw

\* What finds the stock is unchanged.
LEMMA StocksStay ==
  ASSUME UNCHANGED stockKeys
  PROVE  Stocks' = Stocks /\ Start' = Start
  BY DEF stockKeys, Stocks, StockOf, AtScore, Start

LEMMA IndexedStays ==
  ASSUME Indexed, UNCHANGED stockKeys
  PROVE  Indexed'
  BY StocksStay DEF Indexed, Shelves

LEMMA BoundsStay ==
  ASSUME Floored, Bounded, UNCHANGED <<stockKeys, buyerOf>>
  PROVE  Bounded' /\ (lines' = lines => Floored')
  BY StocksStay DEF Bounded, Sold, Floored

LEMMA LoginKeepsLegacyInv ==
  ASSUME LegacyInv, NEW u \in Buyer, LegacyLogin(u)
  PROVE  LegacyInv'
<1>1. tokenOf' \in [LToken -> Buyer \cup {None}]
  BY DrawnIsUnused DEF LegacyInv, Types, LegacyLogin
<1>2. UNCHANGED <<cartOf, lines, orderOf, buyerOf, orderCart, purchase, stockKeys>>
  BY DEF LegacyLogin, orderKeys
<1>3. Types'
  BY <1>1, <1>2 DEF LegacyInv, Types, IsHashMap, IsHash
<1>4. Limited' /\ Paired'
  BY <1>2 DEF LegacyInv, Limited, Paired
<1>5. Indexed'
  BY <1>2, IndexedStays DEF LegacyInv
<1>6. Floored' /\ Bounded'
  BY <1>2, BoundsStay DEF LegacyInv
<1> QED BY <1>3, <1>4, <1>5, <1>6 DEF LegacyInv

\* A cart that is drawn was no one's, so no order's either.
LEMMA CreateCartKeepsLegacyInv ==
  ASSUME LegacyInv, NEW t \in LToken, LegacyCreateCart(t)
  PROVE  LegacyInv'
<1> DEFINE d == Draw(cartOf)
<1>1. d \in LCart /\ cartOf[d] = None
  BY DrawnIsUnused DEF LegacyInv, Types, LegacyCreateCart
<1>2. PICK w \in Buyer \cup {"nobody"} : cartOf' = [cartOf EXCEPT ![d] = w]
  BY DEF LegacyInv, Types, LegacyCreateCart
<1>3. UNCHANGED <<tokenOf, lines, orderOf, buyerOf, orderCart, purchase, stockKeys>>
  BY DEF LegacyCreateCart, orderKeys
<1> HIDE DEF d
<1>4. Types'
  BY <1>1, <1>2, <1>3 DEF LegacyInv, Types, IsHashMap, IsHash
<1>5. Limited'
  BY <1>3 DEF LegacyInv, Limited
<1>6. Paired'
  <2>1. ASSUME NEW o \in LOrder, buyerOf[o] # None
        PROVE  cartOf'[orderCart[o]] = cartOf[orderCart[o]]
    BY <1>1, <1>2, <2>1 DEF LegacyInv, Paired, Types
  <2> QED BY <1>3, <2>1 DEF LegacyInv, Paired
<1>7. Indexed'
  BY <1>3, IndexedStays DEF LegacyInv
<1>8. Floored' /\ Bounded'
  BY <1>3, BoundsStay DEF LegacyInv
<1> QED BY <1>4, <1>5, <1>6, <1>7, <1>8 DEF LegacyInv

LEMMA AddFoodKeepsLegacyInv ==
  ASSUME LegacyInv, NEW t \in LToken, NEW c \in LCart, NEW f \in LFood, NEW n \in LCounts,
         LegacyAddFood(t, c, f, n)
  PROVE  LegacyInv'
<1> DEFINE h == HIncrBy(lines[c], f, n)
<1>1. n \in Int
  BY LegacyAssumption
<1>2. IsHash(lines[c], LFood) /\ IsFiniteSet(DOMAIN lines[c])
  BY LegacyAssumption, FS_Subset DEF LegacyInv, Types, IsHashMap, IsHash
<1>3. Total(h) = Total(lines[c]) + n
  BY <1>1, <1>2, TotalHIncrBy DEF IsHash
<1>4. Total(h) <= 3
  BY <1>3 DEF LegacyAddFood
<1>5. IsHash(h, LFood)
  BY <1>1, <1>2 DEF IsHash, HIncrBy, HSet, Line
<1>6. lines' = [lines EXCEPT ![c] = h]
  BY DEF LegacyAddFood
<1>7. UNCHANGED <<tokenOf, cartOf, orderOf, buyerOf, orderCart, purchase, stockKeys>>
  BY DEF LegacyAddFood, orderKeys
<1>13. \A g \in DOMAIN h : LineBound <= h[g]
  <2>1. \A g \in DOMAIN lines[c] : LineBound <= lines[c][g]
    BY DEF LegacyInv, Floored
  <2>2. Line(lines[c], f) + n >= LineBound
    BY DEF LegacyAddFood
  <2>3. Line(lines[c], f) + n \in Int /\ LineBound \in Int
    BY <1>1, <1>2, LegacyAssumption DEF Line, IsHash
  <2> QED BY <2>1, <2>2, <2>3 DEF HIncrBy, HSet
<1> HIDE DEF h
<1>8. IsHashMap(lines', LCart, LFood)
  BY <1>5, <1>6 DEF LegacyInv, Types, IsHashMap
<1>9. Types'
  BY <1>7, <1>8 DEF LegacyInv, Types
<1>10. Limited'
  BY <1>4, <1>6 DEF LegacyInv, Limited, Types, IsHashMap
<1>11. Paired'
  BY <1>7 DEF LegacyInv, Paired
<1>12. Indexed'
  BY <1>7, IndexedStays DEF LegacyInv
<1>14. Floored'
  BY <1>6, <1>13 DEF LegacyInv, Floored, Types, IsHashMap
<1>15. Bounded'
  BY <1>7, BoundsStay DEF LegacyInv
<1> QED BY <1>9, <1>10, <1>11, <1>12, <1>14, <1>15 DEF LegacyInv

\* An order that is placed: whose, of what, and what it does to the stock.
LEMMA Placed ==
  ASSUME LegacyInv, NEW c \in LCart, NEW t \in LToken, LegacyReply(c, t) = 0,
         NEW o \in LOrder, buyerOf[o] = None, RecordPurchase(c, o, cartOf[c])
  PROVE  /\ cartOf[c] \in Buyer /\ orderOf[cartOf[c]] = None
         /\ IsHash(lines[c], LFood)
         /\ \A f \in DOMAIN lines[c] : lines[c][f] <= Stocks[f]
         /\ Stocks' = Take(Stocks, lines[c]) /\ Indexed' /\ Bounded'
<1>1. /\ cartOf[c] # None /\ tokenOf[t] = cartOf[c] /\ orderOf[cartOf[c]] = None
      /\ ~ \E f \in DOMAIN lines[c] : StockOf(f) - lines[c][f] < 0
  BY DEF LegacyReply
<1>2. cartOf[c] \in Buyer
  BY <1>1 DEF LegacyInv, Types
<1>3. IsHash(lines[c], LFood)
  BY DEF LegacyInv, Types, IsHashMap
<1>4. \A f \in DOMAIN lines[c] : lines[c][f] <= Stocks[f]
  <2> SUFFICES ASSUME NEW f \in DOMAIN lines[c] PROVE lines[c][f] <= Stocks[f]
    OBVIOUS
  <2>1. f \in LFood /\ lines[c][f] \in Int
    BY <1>3 DEF IsHash
  <2>2. Stocks[f] = StockOf(f) /\ Stocks[f] \in Int
    BY <2>1 DEF LegacyInv, Indexed, Stocks
  <2>3. ~(StockOf(f) - lines[c][f] < 0)
    BY <1>1
  <2> QED BY <2>1, <2>2, <2>3
<1>11. \A f \in LFood : /\ Take(Stocks, lines[c])[f] >= 0
                         /\ Take(Stocks, lines[c])[f] <= Stocks[f] - LineBound
  <2> SUFFICES ASSUME NEW f \in LFood
               PROVE  /\ Take(Stocks, lines[c])[f] >= 0
                      /\ Take(Stocks, lines[c])[f] <= Stocks[f] - LineBound
    OBVIOUS
  <2>1. Stocks[f] \in Int /\ Stocks[f] >= 0 /\ LineBound \in Int /\ LineBound <= 0
    BY LegacyAssumption DEF LegacyInv, Indexed, Bounded
  <2>2. Take(Stocks, lines[c])[f] = Stocks[f] - Line(lines[c], f)
    BY DEF Take, Stocks
  <2>3. CASE f \in DOMAIN lines[c]
    BY <1>3, <1>4, <2>1, <2>2, <2>3 DEF Line, IsHash, LegacyInv, Floored
  <2>4. CASE f \notin DOMAIN lines[c]
    BY <2>1, <2>2, <2>4 DEF Line
  <2> QED BY <2>3, <2>4
<1>12. \A f \in LFood : /\ Take(Stocks, lines[c])[f] <= OpeningStock[f] - Cardinality(Sold') * LineBound
                         /\ Take(Stocks, lines[c])[f] < StockBase
  <2>1. Sold' = Sold \cup {o} /\ o \notin Sold /\ Sold' \subseteq LOrder /\ Sold \subseteq LOrder
    BY <1>2, LegacyAssumption DEF LegacyInv, Types, RecordPurchase, Sold
  <2>2. IsFiniteSet(Sold) /\ Cardinality(Sold) \in Nat /\ Cardinality(LOrder) \in Nat
    BY <2>1, LegacyAssumption, FS_Subset, FS_CardinalityType
  <2>3. Cardinality(Sold') = Cardinality(Sold) + 1
    BY <2>1, <2>2, FS_AddElement
  <2>4. Cardinality(Sold') <= Cardinality(LOrder)
    BY <2>1, LegacyAssumption, FS_Subset
  <2> SUFFICES ASSUME NEW f \in LFood
               PROVE  /\ Take(Stocks, lines[c])[f] <= OpeningStock[f] - Cardinality(Sold') * LineBound
                      /\ Take(Stocks, lines[c])[f] < StockBase
    OBVIOUS
  <2> DEFINE k == Cardinality(Sold)
             N == Cardinality(LOrder)
             q == Take(Stocks, lines[c])[f]
             b == OpeningStock[f]
             L == LineBound
  <2>5. k \in Nat /\ N \in Nat /\ b \in Nat /\ L \in Int /\ L <= 0 /\ k + 1 <= N
    BY <2>2, <2>3, <2>4, LegacyAssumption
  <2>6. Stocks[f] \in Int /\ Stocks[f] <= b - k * L /\ q <= Stocks[f] - L /\ q \in Int
    BY <1>3, <1>11 DEF LegacyInv, Indexed, Bounded, Take, Line, IsHash
  <2>7. b - N * L < StockBase
    BY LegacyAssumption
  <2>8. Cardinality(Sold') = k + 1
    BY <2>3
  <2> HIDE DEF k, N, q, b, L
  <2>9. (k + 1) * L = k * L + L /\ k * L \in Int
    BY <2>5
  <2>10. N * L <= (k + 1) * L /\ N * L \in Int
    BY <2>5
  <2>11. q <= b - (k + 1) * L /\ q < StockBase
    BY <2>5, <2>6, <2>7, <2>9, <2>10, StoredAsIs
  <2> QED BY <2>8, <2>11 DEF q, b, L
<1>13. \A f \in DOMAIN lines[c] : Stocks[f] - lines[c][f] \in Storable
  <2> SUFFICES ASSUME NEW f \in DOMAIN lines[c] PROVE Stocks[f] - lines[c][f] \in Storable
    OBVIOUS
  <2>1. f \in LFood /\ Stocks[f] - lines[c][f] \in Int
    BY <1>3 DEF LegacyInv, Indexed, IsHash
  <2>2. Take(Stocks, lines[c])[f] = Stocks[f] - lines[c][f]
    BY <2>1 DEF Take, Line, Stocks
  <2> QED BY <1>11, <1>12, <2>1, <2>2, StoredAsIs DEF Storable
<1> DEFINE s == StoreLines(lines[c])
<1> PICK n : n = Take(Stocks, lines[c])
  OBVIOUS
<1>5. Shelves(s, n) /\ n \in [LFood -> Int]
  BY <1>3, <1>13, LinesKeepShelves DEF LegacyInv
<1>6. timestamp' = s.clock /\ lastUpdate' = s.last /\ count' = s.count /\ kind' = s.kind
  BY DEF RecordPurchase
<1> HIDE DEF s
<1>7. Shelves(Start', n)
  BY <1>5, <1>6 DEF Shelves, Start
<1>8. StocksAre(n)'
  BY StockFound, PTL
<1>9. Stocks' = n
  BY <1>5, <1>7, <1>8 DEF StocksAre
<1>10. Indexed'
  BY <1>5, <1>7, <1>9 DEF Indexed
<1>14. Bounded'
  BY <1>9, <1>11, <1>12 DEF Bounded
<1> QED BY <1>1, <1>2, <1>3, <1>4, <1>9, <1>10, <1>14

LEMMA PlaceOrderKeepsLegacyInv ==
  ASSUME LegacyInv, NEW c \in LCart, NEW t \in LToken, LegacyPlaceOrder(c, t)
  PROVE  LegacyInv'
<1>1. UNCHANGED <<tokenOf, cartOf, lines>>
  BY DEF LegacyPlaceOrder
<1>2. CASE LegacyReply(c, t) # 0
  <2>1. UNCHANGED <<stockKeys, orderOf, buyerOf, orderCart, purchase>>
    BY <1>2 DEF LegacyPlaceOrder, orderKeys
  <2>2. Types' /\ Limited' /\ Paired'
    BY <1>1, <2>1 DEF LegacyInv, Types, Limited, Paired
  <2> QED BY <1>1, <2>1, <2>2, IndexedStays, BoundsStay DEF LegacyInv
<1>3. CASE LegacyReply(c, t) = 0
  <2> DEFINE o == Draw(buyerOf)
             u == cartOf[c]
  <2>1. RecordPurchase(c, o, u) /\ Unused(buyerOf) # {}
    BY <1>3 DEF LegacyPlaceOrder
  <2>2. o \in LOrder /\ buyerOf[o] = None
    BY <2>1, DrawnIsUnused DEF LegacyInv, Types
  <2> HIDE DEF o
  <2>3. /\ u \in Buyer /\ orderOf[u] = None /\ IsHash(lines[c], LFood) /\ Indexed' /\ Bounded'
    BY <1>3, <2>1, <2>2, Placed
  <2>4. /\ orderOf' = [orderOf EXCEPT ![u] = o]
        /\ buyerOf' = [buyerOf EXCEPT ![o] = u]
        /\ orderCart' = [orderCart EXCEPT ![o] = c]
        /\ purchase' = [purchase EXCEPT ![u] = lines[c]]
    BY <2>1 DEF RecordPurchase
  <2>5. Types'
    BY <1>1, <2>2, <2>3, <2>4 DEF LegacyInv, Types
  <2>6. Limited'
    BY <1>1 DEF LegacyInv, Limited
  <2>7. Paired'
    <3>1. None \notin Buyer /\ None \notin LOrder
      BY LegacyAssumption
    <3>2. ASSUME NEW p \in LOrder, buyerOf'[p] # None
          PROVE  /\ orderOf'[buyerOf'[p]] = p
                 /\ orderCart'[p] \in LCart /\ cartOf'[orderCart'[p]] = buyerOf'[p]
      <4>1. CASE p = o
        BY <1>1, <2>2, <2>3, <2>4, <4>1 DEF LegacyInv, Types
      <4>2. CASE p # o
        <5>1. buyerOf'[p] = buyerOf[p] /\ orderCart'[p] = orderCart[p]
          BY <2>2, <2>4, <4>2 DEF LegacyInv, Types
        <5>2. /\ buyerOf[p] \in Buyer /\ orderOf[buyerOf[p]] = p
              /\ orderCart[p] \in LCart /\ cartOf[orderCart[p]] = buyerOf[p]
          BY <3>2, <5>1 DEF LegacyInv, Types, Paired
        <5>3. orderOf'[buyerOf[p]] = p
          BY <2>3, <2>4, <3>1, <5>2 DEF LegacyInv, Types
        <5> QED BY <1>1, <5>1, <5>2, <5>3
      <4> QED BY <4>1, <4>2
    <3>3. ASSUME NEW v \in Buyer, orderOf'[v] # None PROVE buyerOf'[orderOf'[v]] = v
      BY <2>2, <2>3, <2>4, <3>1, <3>3 DEF LegacyInv, Types, Paired
    <3>4. ASSUME NEW v \in Buyer, orderOf'[v] = None PROVE purchase'[v] = None
      BY <2>2, <2>3, <2>4, <3>1, <3>4 DEF LegacyInv, Types, Paired
    <3> QED BY <3>2, <3>3, <3>4 DEF Paired
  <2>8. Floored'
    BY <1>1 DEF LegacyInv, Floored
  <2> QED BY <2>3, <2>5, <2>6, <2>7, <2>8 DEF LegacyInv
<1> QED BY <1>2, <1>3

LEMMA NextKeepsLegacyInv == LegacyInv /\ [LegacyNext]_legacyVars => LegacyInv'
<1> SUFFICES ASSUME LegacyInv, [LegacyNext]_legacyVars PROVE LegacyInv'
  OBVIOUS
<1>1. ASSUME NEW u \in Buyer, LegacyLogin(u) PROVE LegacyInv'
  BY <1>1, LoginKeepsLegacyInv
<1>2. ASSUME NEW t \in LToken, LegacyCreateCart(t) PROVE LegacyInv'
  BY <1>2, CreateCartKeepsLegacyInv
<1>3. ASSUME NEW t \in LToken, NEW c \in LCart, NEW f \in LFood, NEW n \in LCounts,
             LegacyAddFood(t, c, f, n)
      PROVE  LegacyInv'
  BY <1>3, AddFoodKeepsLegacyInv
<1>4. ASSUME NEW c \in LCart, NEW t \in LToken, LegacyPlaceOrder(c, t) PROVE LegacyInv'
  BY <1>4, PlaceOrderKeepsLegacyInv
<1>5. ASSUME UNCHANGED legacyVars PROVE LegacyInv'
  <2>1. UNCHANGED <<tokenOf, cartOf, lines, stockKeys, orderOf, buyerOf, orderCart, purchase>>
    BY <1>5 DEF legacyVars, orderKeys
  <2>2. Types' /\ Limited' /\ Paired'
    BY <2>1 DEF LegacyInv, Types, Limited, Paired
  <2> QED BY <2>1, <2>2, IndexedStays, BoundsStay DEF LegacyInv
<1> QED BY <1>1, <1>2, <1>3, <1>4, <1>5 DEF LegacyNext

THEOREM LegacyInvariant == LegacySpec => []LegacyInv
  BY InitLegacyInv, NextKeepsLegacyInv, PTL DEF LegacySpec

-----------------------------------------------------------------------------
(* The properties.                                                         *)

\* Whatever has been ordered within LegacyAssumption, the two sorted sets and the
\* hash of lua/place_order.lua agree: each food has one change, at a time of its
\* own, and its member holds the stock, which never leaves 0 .. 10^7 - 1.
THEOREM SortedSetsAgree == LegacySpec => []IndexesAgree
<1>1. LegacyInv => IndexesAgree
  <2> SUFFICES ASSUME LegacyInv PROVE IndexesAgree
    OBVIOUS
  <2>1. \A f \in LFood : Stocks[f] = StockOf(f)
    BY DEF Stocks
  <2>2. count = {<<lastUpdate[f], StockOf(f)>> : f \in LFood}
    BY <2>1 DEF LegacyInv, Indexed, Shelves, Start
  <2> QED BY <2>2 DEF LegacyInv, Indexed, Shelves, Start, IndexesAgree
<1> QED BY <1>1, LegacyInvariant, PTL

\* What GET /orders and the administrator are shown agrees, and no order shows
\* more than three pieces, whatever is patched into its cart afterwards.
THEOREM OrdersOfCartsAgree == LegacySpec => []LegacyOrdersAgree
<1>1. LegacyInv => LegacyOrdersAgree
  <2> SUFFICES ASSUME LegacyInv PROVE LegacyOrdersAgree
    OBVIOUS
  <2>1. ASSUME NEW u \in Buyer, orderOf[u] # None
        PROVE  buyerOf[orderOf[u]] = u /\ Total(LegacyOrder(u)) <= 3
    <3>1. orderOf[u] \in LOrder /\ buyerOf[orderOf[u]] = u
      BY <2>1 DEF LegacyInv, Types, Paired
    <3>2. orderCart[orderOf[u]] \in LCart
      BY <3>1, LegacyAssumption DEF LegacyInv, Paired
    <3> QED BY <2>1, <3>1, <3>2 DEF LegacyInv, Limited, LegacyOrder
  <2> QED BY <2>1 DEF LegacyInv, Paired, LegacyOrdersAgree
<1> QED BY <1>1, LegacyInvariant, PTL

\* The hashes of the sale are those of the scripts.
LEMMA SameHashes ==
  \A h, g, F : /\ LegacySale!IsHash(h, F) = IsHash(h, F)
               /\ LegacySale!Total(h) = Total(h)
               /\ LegacySale!Take(h, g) = Take(h, g)
<1>1. \A h, F : LegacySale!IsHash(h, F) = IsHash(h, F)
  BY DEF IsHash, LegacySale!IsHash
<1>2. \A h, g : LegacySale!Take(h, g) = Take(h, g)
  BY DEF Take, Line, LegacySale!Take, LegacySale!Line
<1>3. \A h : LegacySale!Total(h) = Total(h)
  BY DEF Total, FoldFunction, FoldFunctionOnSet, MapThenFoldSet,
         LegacySale!Total, LegacySale!FoldFunction,
         LegacySale!FoldFunctionOnSet, LegacySale!MapThenFoldSet
<1> QED BY <1>1, <1>2, <1>3

\* An order that is placed is a purchase of the sale.
LEMMA OrderIsPurchase ==
  ASSUME LegacyInv, NEW c \in LCart, NEW t \in LToken, LegacyReply(c, t) = 0,
         NEW o \in LOrder, buyerOf[o] = None, RecordPurchase(c, o, cartOf[c])
  PROVE  LegacySale!Buy(cartOf[c])
<1> DEFINE u == cartOf[c]
           items == lines[c]
<1>1. /\ u \in Buyer /\ orderOf[u] = None /\ IsHash(items, LFood)
      /\ \A f \in DOMAIN items : items[f] <= Stocks[f]
      /\ Stocks' = Take(Stocks, items)
  BY Placed
<1>2. purchase' = [purchase EXCEPT ![u] = items]
  BY DEF RecordPurchase
<1>3. purchase[u] = None
  BY <1>1 DEF LegacyInv, Paired
<1>4. purchase'[u] = items
  <2>1. purchase = [v \in Buyer |-> purchase[v]]
    BY DEF LegacyInv, Types
  <2> QED BY <1>1, <1>2, <2>1
<1>5. items # None
  <2>1. DOMAIN items \in SUBSET LFood /\ items \in [DOMAIN items -> Int]
    BY <1>1 DEF IsHash
  <2> QED BY <2>1, LegacyAssumption
<1>6. Total(items) <= 3
  BY DEF LegacyInv, Limited
<1> HIDE DEF u, items
<1>7. LegacySale!Buy(u)
  BY <1>1, <1>2, <1>3, <1>4, <1>5, <1>6, SameHashes DEF LegacySale!Buy, Stocks
<1> QED BY <1>7 DEF u

\* The scripts of lua/ implement the sale: one purchase each, of at most three
\* pieces, out of the stock the sorted sets hold, for lines and orders within
\* LegacyAssumption.
THEOREM PythonServerImplementsSale == LegacySpec => LegacyImplementsSale
<1>1. LegacyInit => LegacySale!SaleInit
  <2> SUFFICES ASSUME LegacyInit PROVE LegacySale!SaleInit
    OBVIOUS
  <2>1. Stocks = OpeningStock
    BY InitShelves
  <2> QED BY <2>1 DEF LegacyInit, LegacySale!SaleInit, Stocks
<1>2. LegacyInv /\ [LegacyNext]_legacyVars => [LegacySale!SaleNext]_(LegacySale!saleVars)
  <2> SUFFICES ASSUME LegacyInv, [LegacyNext]_legacyVars
               PROVE  [LegacySale!SaleNext]_(LegacySale!saleVars)
    OBVIOUS
  <2>1. CASE UNCHANGED <<stockKeys, purchase>>
    <3>1. Stocks' = Stocks /\ purchase' = purchase
      BY <2>1, StocksStay
    <3> QED BY <3>1 DEF LegacySale!saleVars, Stocks
  <2>2. ASSUME NEW u \in Buyer, LegacyLogin(u) PROVE UNCHANGED <<stockKeys, purchase>>
    BY <2>2 DEF LegacyLogin, orderKeys
  <2>3. ASSUME NEW t \in LToken, LegacyCreateCart(t) PROVE UNCHANGED <<stockKeys, purchase>>
    BY <2>3 DEF LegacyCreateCart, orderKeys
  <2>4. ASSUME NEW t \in LToken, NEW c \in LCart, NEW f \in LFood, NEW n \in LCounts,
               LegacyAddFood(t, c, f, n)
        PROVE  UNCHANGED <<stockKeys, purchase>>
    BY <2>4 DEF LegacyAddFood, orderKeys
  <2>5. ASSUME NEW c \in LCart, NEW t \in LToken, LegacyPlaceOrder(c, t)
        PROVE  LegacySale!SaleNext \/ UNCHANGED <<stockKeys, purchase>>
    <3>1. CASE LegacyReply(c, t) # 0
      BY <2>5, <3>1 DEF LegacyPlaceOrder, orderKeys
    <3>2. CASE LegacyReply(c, t) = 0
      <4>1. RecordPurchase(c, Draw(buyerOf), cartOf[c]) /\ Unused(buyerOf) # {}
        BY <2>5, <3>2 DEF LegacyPlaceOrder
      <4>3. Draw(buyerOf) \in LOrder /\ buyerOf[Draw(buyerOf)] = None
        BY <4>1, DrawnIsUnused DEF LegacyInv, Types
      <4>2. LegacySale!Buy(cartOf[c]) /\ cartOf[c] \in Buyer
        BY <3>2, <4>1, <4>3, OrderIsPurchase, Placed
      <4> QED BY <4>2 DEF LegacySale!SaleNext
    <3> QED BY <3>1, <3>2
  <2>6. ASSUME UNCHANGED legacyVars PROVE UNCHANGED <<stockKeys, purchase>>
    BY <2>6 DEF legacyVars, orderKeys
  <2> QED BY <2>1, <2>2, <2>3, <2>4, <2>5, <2>6 DEF LegacyNext
<1> QED BY <1>1, <1>2, LegacyInvariant, PTL
        DEF LegacySpec, LegacyImplementsSale, LegacySale!SaleSpec
=============================================================================
