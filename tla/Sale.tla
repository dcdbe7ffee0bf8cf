-------------------------------- MODULE Sale --------------------------------
(***************************************************************************)
(* What the flash sale promises, without servers, tokens, carts or Redis:  *)
(* each user buys at most once, at most OrderLimit pieces of food, and     *)
(* only food that is still in stock.  A purchase takes its food from the   *)
(* stock in the same step and is never changed or withdrawn.               *)
(***************************************************************************)
EXTENDS Integers, RedisHash

CONSTANTS User, Food,
          InitStock,      \* the stock of each food when the sale opens
          OrderLimit,     \* pieces of food in a purchase
          None            \* stands for "no purchase"

VARIABLES stock, bought
saleVars == <<stock, bought>>

SaleInit == /\ stock = InitStock
            /\ bought = [u \in User |-> None]

\* User u buys the items that bought records for it from then on:
\* everything is in stock, and u has not bought before.
Buy(u) ==
  LET items == bought'[u]
  IN  /\ bought[u] = None
      /\ items # None
      /\ IsHash(items, Food)
      /\ Total(items) <= OrderLimit
      /\ \A f \in DOMAIN items : items[f] <= stock[f]
      /\ bought' = [bought EXCEPT ![u] = items]
      /\ stock' = Take(stock, items)

SaleNext == \E u \in User : Buy(u)

SaleSpec == SaleInit /\ [][SaleNext]_saleVars
=============================================================================
