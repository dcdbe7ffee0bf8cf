----------------------------- MODULE RedisHash -----------------------------
(***************************************************************************)
(* Redis hashes as the Lua scripts use them.  A hash maps the fields it    *)
(* has to integers; HGETALL lists exactly its domain, a key that does not  *)
(* exist is the hash without fields.                                       *)
(***************************************************************************)
EXTENDS Integers, Functions

\* h is a hash of integers with fields among F.
IsHash(h, F) == DOMAIN h \subseteq F /\ h \in [DOMAIN h -> Int]

\* m gives each key of K such a hash.
IsHashMap(m, K, F) == m = [k \in K |-> m[k]] /\ \A k \in K : IsHash(m[k], F)

EmptyHash == [f \in {} |-> 0]

\* The value of field f; a field the hash does not have counts as 0.
Line(h, f) == IF f \in DOMAIN h THEN h[f] ELSE 0

\* HSET h f v
HSet(h, f, v) == [g \in DOMAIN h \cup {f} |-> IF g = f THEN v ELSE h[g]]

\* HINCRBY h f n
HIncrBy(h, f, n) == HSet(h, f, Line(h, f) + n)

\* HSET h of every line of items.
HSetAll(h, items) ==
  [g \in DOMAIN h \cup DOMAIN items |-> IF g \in DOMAIN items THEN items[g] ELSE h[g]]

\* The sum the scripts make over the values of HGETALL h.
Total(h) == FoldFunction(LAMBDA x, y : x + y, 0, h)

\* HSET h f (h[f] - items[f]) of every line of items.
Take(h, items) == [f \in DOMAIN h |-> h[f] - Line(items, f)]
=============================================================================
