---------------------------- MODULE MCStockLists ----------------------------
(* The two programs that serve the sale, of which one runs: the Go servers  *)
(* with their lists of stock, or the Python server before them.             *)
EXTENDS StockList, LegacyStore, TLC

VARIABLE program

listsVars == <<listVars, legacyVars, program>>

CONSTANTS f1, f2

MCOpening == f1 :> 3 @@ f2 :> 2
MCCounts == {-1, 3}

ListsInit == program \in {"Go", "Python"} /\ ListInit /\ LegacyInit

ListsNext ==
  \/ program = "Go" /\ ListNext /\ UNCHANGED <<legacyVars, program>>
  \/ program = "Python" /\ LegacyNext /\ UNCHANGED <<listVars, program>>

ListsSpec == ListsInit /\ [][ListsNext]_listsVars /\ ListFairness
=============================================================================
