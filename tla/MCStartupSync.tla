--------------------------- MODULE MCStartupSync ----------------------------
(* StartupSync on a small instance: the counter starts at -3 instead of    *)
(* -10000, and servers start as often as it can count.                     *)
EXTENDS StartupSync, TLC

CONSTANTS f1, f2

MCFoodRows == <<f1, f2>>
MCInitStock == f1 :> 1 @@ f2 :> 2
MCInitMark == -3
=============================================================================
