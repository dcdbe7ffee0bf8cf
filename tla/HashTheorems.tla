--------------------------- MODULE HashTheorems ----------------------------
(***************************************************************************)
(* What the sums of RedisHash are.  Total folds a hash with a recursive    *)
(* function, which adds the values in an order CHOOSE picks; for a hash    *)
(* with finitely many fields the function exists, and its sums do not      *)
(* depend on the order.  Induction is the least-element principle (WFMin): *)
(* a least set of fields that would be a counterexample is none.           *)
(***************************************************************************)
EXTENDS RedisHash, FiniteSetTheorems, TLAPS

\* The function over which Total folds: sums over every set of fields of D.
Pick(S) == CHOOSE x \in S : TRUE

IsSum(it, h, D) ==
  it = [S \in SUBSET D |-> IF S = {} THEN 0 ELSE h[Pick(S)] + it[S \ {Pick(S)}]]

Sums(h) == CHOOSE it : IsSum(it, h, DOMAIN h)

\* The sum of the values of the fields in S.
SumOn(h, S) == Sums(h)[S]

-----------------------------------------------------------------------------
(* Existence.                                                              *)

\* What is picked from a set is in it.
LEMMA PickIsIn == \A S : S # {} => Pick(S) \in S
  BY DEF Pick

\* Every set of finite subsets that is not empty has one with no smaller.
LEMMA LeastSubset ==
  ASSUME NEW D, IsFiniteSet(D), NEW T \in SUBSET (SUBSET D), T # {}
  PROVE  \E S \in T : \A U \in T : U \subseteq S => U = S
<1>1. T \subseteq FiniteSubsetsOf(D)
  BY FS_FiniteSubsetsOfFinite
<1>2. IsWellFoundedOn(StrictSubsetOrdering(D), FiniteSubsetsOf(D))
  BY FS_StrictSubsetOrderingWellFounded
<1>3. PICK S \in T : \A U \in T : <<U, S>> \notin StrictSubsetOrdering(D)
  BY <1>1, <1>2, WFMin
<1> QED
  BY <1>3 DEF StrictSubsetOrdering

\* Two such functions agree on a set of fields both know if they add the
\* same values.
LEMMA SumsAgree ==
  ASSUME NEW C, IsFiniteSet(C), NEW A, C \subseteq A, NEW B, C \subseteq B,
         NEW h, NEW g, \A x \in C : h[x] = g[x],
         NEW i, IsSum(i, h, A), NEW j, IsSum(j, g, B)
  PROVE  i[C] = j[C]
<1> DEFINE T == {S \in SUBSET C : i[S] # j[S]}
<1> SUFFICES ASSUME T # {} PROVE FALSE
  OBVIOUS
<1>1. T \in SUBSET (SUBSET C)
  OBVIOUS
<1>2. PICK S \in T : \A U \in T : U \subseteq S => U = S
  <2> HIDE DEF T
  <2> QED
    BY <1>1, LeastSubset
<1>3. CASE S = {}
  BY <1>3 DEF IsSum
<1>4. CASE S # {}
  <2>1. Pick(S) \in S
    BY <1>4, PickIsIn
  <2>2. S \ {Pick(S)} \notin T
    BY <1>2, <2>1
  <2>3. i[S \ {Pick(S)}] = j[S \ {Pick(S)}]
    BY <2>2
  <2>4. i[S] = h[Pick(S)] + i[S \ {Pick(S)}]
    BY <1>4 DEF IsSum
  <2>5. j[S] = g[Pick(S)] + j[S \ {Pick(S)}]
    BY <1>4 DEF IsSum
  <2> QED
    BY <2>1, <2>3, <2>4, <2>5
<1> QED
  BY <1>3, <1>4

\* The recursive function exists.
LEMMA SumsExist ==
  ASSUME NEW h, NEW D, IsFiniteSet(D)
  PROVE  \E it : IsSum(it, h, D)
<1> DEFINE T == {S \in SUBSET D : ~ \E it : IsSum(it, h, S)}
<1> SUFFICES ASSUME T # {} PROVE FALSE
  OBVIOUS
<1>1. PICK S \in T : \A U \in T : U \subseteq S => U = S
  <2>1. T \in SUBSET (SUBSET D)
    OBVIOUS
  <2> HIDE DEF T
  <2> QED
    BY <2>1, LeastSubset
<1> DEFINE F(U) == CHOOSE it : IsSum(it, h, U)
           it == [U \in SUBSET S |->
                    IF U = {} THEN 0
                    ELSE h[Pick(U)] + F(U \ {Pick(U)})[U \ {Pick(U)}]]
<1>2. \A U \in SUBSET S : U # S => IsSum(F(U), h, U)
  BY <1>1
<1>3. \A U \in SUBSET S : U # S => it[U] = F(U)[U]
  <2> SUFFICES ASSUME NEW U \in SUBSET S, U # S PROVE it[U] = F(U)[U]
    OBVIOUS
  <2>1. IsSum(F(U), h, U)
    BY <1>2
  <2> HIDE DEF F
  <2>2. CASE U = {}
    BY <2>1, <2>2 DEF IsSum
  <2>3. CASE U # {}
    <3> DEFINE V == U \ {Pick(U)}
    <3>1. Pick(U) \in U
      BY <2>3, PickIsIn
    <3>2. V \in SUBSET S /\ V # S
      BY <3>1
    <3>3. IsSum(F(V), h, V)
      BY <1>2, <3>2
    <3>4. F(U)[V] = F(V)[V]
      <4>1. V \subseteq U /\ IsFiniteSet(V)
        BY <1>1, FS_Subset
      <4> HIDE DEF V
      <4> QED
        BY <2>1, <3>3, <4>1, SumsAgree
    <3>5. F(U)[U] = h[Pick(U)] + F(U)[V]
      BY <2>1, <2>3 DEF IsSum
    <3>6. it[U] = h[Pick(U)] + F(V)[V]
      BY <2>3
    <3> QED
      BY <3>4, <3>5, <3>6
  <2> QED
    BY <2>2, <2>3
<1>4. IsSum(it, h, S)
  <2>1. \A U \in SUBSET S : U # {} => /\ U \ {Pick(U)} \in SUBSET S
                                      /\ U \ {Pick(U)} # S
    BY PickIsIn
  <2>2. \A U \in SUBSET S : U # {} => F(U \ {Pick(U)})[U \ {Pick(U)}] = it[U \ {Pick(U)}]
    BY <1>3, <2>1
  <2> HIDE DEF F
  <2>3. \A U \in SUBSET S :
          it[U] = IF U = {} THEN 0 ELSE h[Pick(U)] + it[U \ {Pick(U)}]
    BY <2>2
  <2>4. it = [U \in SUBSET S |-> it[U]]
    OBVIOUS
  <2> HIDE DEF it
  <2> QED
    BY <2>3, <2>4 DEF IsSum
<1> QED
  BY <1>1, <1>4

\* The sums over the fields of a hash with finitely many.
LEMMA SumsAreSums ==
  ASSUME NEW h, IsFiniteSet(DOMAIN h)
  PROVE  IsSum(Sums(h), h, DOMAIN h)
  BY SumsExist DEF Sums

-----------------------------------------------------------------------------
(* Sums over sets of fields.                                               *)

\* Equal values have equal sums.
LEMMA SumOnSame ==
  ASSUME NEW h, IsFiniteSet(DOMAIN h), NEW g, IsFiniteSet(DOMAIN g),
         NEW S, S \subseteq DOMAIN h, S \subseteq DOMAIN g,
         \A x \in S : h[x] = g[x]
  PROVE  SumOn(h, S) = SumOn(g, S)
<1>1. IsFiniteSet(S)
  BY FS_Subset
<1>2. IsSum(Sums(h), h, DOMAIN h) /\ IsSum(Sums(g), g, DOMAIN g)
  BY SumsAreSums
<1> QED
  BY <1>1, <1>2, SumsAgree DEF SumOn

\* Over no field the sum is zero.
LEMMA SumOnEmpty ==
  ASSUME NEW h, IsFiniteSet(DOMAIN h)
  PROVE  SumOn(h, {}) = 0
  BY SumsAreSums DEF SumOn, IsSum

\* The unfolding of the recursive function.
LEMMA SumOnPick ==
  ASSUME NEW h, IsFiniteSet(DOMAIN h), NEW S \in SUBSET DOMAIN h, S # {}
  PROVE  /\ Pick(S) \in S
         /\ SumOn(h, S) = h[Pick(S)] + SumOn(h, S \ {Pick(S)})
<1>1. IsSum(Sums(h), h, DOMAIN h)
  BY SumsAreSums
<1> QED
  BY <1>1, PickIsIn DEF SumOn, IsSum

\* A sum of integers is an integer.
LEMMA SumOnInt ==
  ASSUME NEW h, IsFiniteSet(DOMAIN h), \A x \in DOMAIN h : h[x] \in Int
  PROVE  \A S \in SUBSET DOMAIN h : SumOn(h, S) \in Int
<1> DEFINE D == DOMAIN h
           T == {S \in SUBSET D : SumOn(h, S) \notin Int}
<1> SUFFICES ASSUME T # {} PROVE FALSE
  OBVIOUS
<1>1. PICK S \in T : \A U \in T : U \subseteq S => U = S
  <2>1. T \in SUBSET (SUBSET D) /\ IsFiniteSet(D)
    OBVIOUS
  <2> HIDE DEF T, D
  <2> QED
    BY <2>1, LeastSubset
<1>2. CASE S = {}
  BY <1>2, SumOnEmpty
<1>3. CASE S # {}
  <2>1. /\ Pick(S) \in S
        /\ SumOn(h, S) = h[Pick(S)] + SumOn(h, S \ {Pick(S)})
    BY <1>3, SumOnPick
  <2>2. SumOn(h, S \ {Pick(S)}) \in Int
    BY <1>1, <2>1
  <2> QED
    BY <2>1, <2>2
<1> QED
  BY <1>2, <1>3

\* The order of the fields is of no account: any field may be the first.
LEMMA SumOnRemove ==
  ASSUME NEW h, IsFiniteSet(DOMAIN h), \A x \in DOMAIN h : h[x] \in Int
  PROVE  \A S \in SUBSET DOMAIN h : \A x \in S : SumOn(h, S) = h[x] + SumOn(h, S \ {x})
<1> DEFINE D == DOMAIN h
           T == {S \in SUBSET D : \E x \in S : SumOn(h, S) # h[x] + SumOn(h, S \ {x})}
<1> SUFFICES ASSUME T # {} PROVE FALSE
  OBVIOUS
<1>1. PICK S \in T : \A U \in T : U \subseteq S => U = S
  <2>1. T \in SUBSET (SUBSET D) /\ IsFiniteSet(D)
    OBVIOUS
  <2> HIDE DEF T, D
  <2> QED
    BY <2>1, LeastSubset
<1>2. PICK x \in S : SumOn(h, S) # h[x] + SumOn(h, S \ {x})
  BY <1>1
<1> DEFINE y == Pick(S)
           R == S \ {x, y}
<1>3. y \in S /\ SumOn(h, S) = h[y] + SumOn(h, S \ {y})
  BY <1>1, <1>2, SumOnPick
<1>4. x # y
  BY <1>2, <1>3
<1>5. SumOn(h, S \ {y}) = h[x] + SumOn(h, R)
  <2>1. S \ {y} \notin T /\ S \ {y} \in SUBSET D /\ x \in S \ {y}
    BY <1>1, <1>2, <1>3, <1>4
  <2>2. R = (S \ {y}) \ {x}
    OBVIOUS
  <2> QED
    BY <2>1, <2>2
<1>6. SumOn(h, S \ {x}) = h[y] + SumOn(h, R)
  <2>1. S \ {x} \notin T /\ S \ {x} \in SUBSET D /\ y \in S \ {x}
    BY <1>1, <1>2, <1>3, <1>4
  <2>2. R = (S \ {x}) \ {y}
    OBVIOUS
  <2> QED
    BY <2>1, <2>2
<1>7. h[x] \in Int /\ h[y] \in Int /\ SumOn(h, R) \in Int
  BY <1>1, <1>2, <1>3, SumOnInt
<1> HIDE DEF y, R
<1> QED
  BY <1>2, <1>3, <1>5, <1>6, <1>7

-----------------------------------------------------------------------------
(* Total, and what HSET and HINCRBY do to it.                              *)

\* Total is the sum over all fields.
LEMMA TotalIsSum == \A h : Total(h) = SumOn(h, DOMAIN h)
  BY DEF Total, SumOn, Sums, IsSum, Pick, FoldFunction, FoldFunctionOnSet, MapThenFoldSet

\* The total of a hash of integers is an integer.
LEMMA TotalInt ==
  ASSUME NEW h, IsFiniteSet(DOMAIN h), \A x \in DOMAIN h : h[x] \in Int
  PROVE  Total(h) \in Int
  BY TotalIsSum, SumOnInt

\* A hash without fields has the total zero.
LEMMA TotalEmpty ==
  ASSUME NEW h, DOMAIN h = {}
  PROVE  Total(h) = 0
  BY TotalIsSum, SumOnEmpty, FS_EmptySet

\* HSET replaces the old value by the new one; a field the hash did not have
\* counted as zero.
LEMMA TotalHSet ==
  ASSUME NEW h, IsFiniteSet(DOMAIN h), \A x \in DOMAIN h : h[x] \in Int,
         NEW f, NEW v \in Int
  PROVE  /\ IsFiniteSet(DOMAIN HSet(h, f, v))
         /\ Total(HSet(h, f, v)) = Total(h) - Line(h, f) + v
<1> DEFINE g == HSet(h, f, v)
           R == DOMAIN h \ {f}
<1>1. /\ DOMAIN g = DOMAIN h \cup {f}
      /\ \A x \in DOMAIN g : g[x] = IF x = f THEN v ELSE h[x]
  BY DEF HSet
<1> HIDE DEF g
<1>2. IsFiniteSet(DOMAIN g)
  BY <1>1, FS_AddElement
<1>4. DOMAIN g \ {f} = R /\ R \subseteq DOMAIN h /\ R \subseteq DOMAIN g /\ f \in DOMAIN g
  BY <1>1
<1>5. Total(g) = v + SumOn(g, R)
  BY <1>1, <1>2, <1>4, SumOnRemove, TotalIsSum
<1>6. SumOn(g, R) = SumOn(h, R)
  BY <1>1, <1>2, <1>4, SumOnSame
<1>7. Total(h) = Line(h, f) + SumOn(h, R)
  <2>1. CASE f \in DOMAIN h
    BY <2>1, SumOnRemove, TotalIsSum DEF Line
  <2>2. CASE f \notin DOMAIN h
    <3>1. R = DOMAIN h
      BY <2>2
    <3> HIDE DEF R
    <3> QED
      BY <2>2, <3>1, TotalIsSum, TotalInt DEF Line
  <2> QED
    BY <2>1, <2>2
<1>8. SumOn(h, R) \in Int /\ Line(h, f) \in Int
  BY SumOnInt DEF Line
<1> HIDE DEF R
<1> QED
  BY <1>2, <1>5, <1>6, <1>7, <1>8 DEF g

\* HINCRBY adds to the total what it adds to the line.
LEMMA TotalHIncrBy ==
  ASSUME NEW h, IsFiniteSet(DOMAIN h), \A x \in DOMAIN h : h[x] \in Int,
         NEW f, NEW n \in Int
  PROVE  /\ IsFiniteSet(DOMAIN HIncrBy(h, f, n))
         /\ Total(HIncrBy(h, f, n)) = Total(h) + n
<1>1. Line(h, f) \in Int /\ Line(h, f) + n \in Int
  BY DEF Line
<1>2. Total(h) \in Int
  BY TotalInt
<1> QED
  BY <1>1, <1>2, TotalHSet DEF HIncrBy
=============================================================================
