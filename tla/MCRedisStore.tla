---------------------------- MODULE MCRedisStore ----------------------------
(* RedisStore on a small instance: two users who compete for few pieces.   *)
EXTENDS RedisStore, TLC

CONSTANTS f1, f2

MCInitStock == f1 :> 4 @@ f2 :> 2
MCCounts == {-1, 2}
MCLineFloor == -1

Symmetry == Permutations(User) \cup Permutations(Token)
            \cup Permutations(Cart) \cup Permutations(OrderId)
=============================================================================
