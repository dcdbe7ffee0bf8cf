-------------------------- MODULE RedisConnProofs --------------------------
(***************************************************************************)
(* Theorems about RedisConn: whatever calls follow one another on a        *)
(* connection, and however often a reply is late or lost, each command has *)
(* its own reply and nothing is left for the next who gets the connection. *)
(***************************************************************************)
EXTENDS RedisConn, FiniteSetTheorems, WellFoundedInduction, TLAPS

-----------------------------------------------------------------------------
(* Numbers and sequences.                                                  *)

\* A set of numbers that is not empty has a least one.
LEMMA LeastOf ==
  ASSUME NEW I \in SUBSET Nat, I # {}
  PROVE  \E n \in I : \A m \in I : n <= m
<1>1. PICK k \in I : TRUE
  OBVIOUS
<1> DEFINE T == {0 .. m : m \in {m \in I : m <= k}}
<1>2. T \in SUBSET (SUBSET (0 .. k)) /\ T # {}
  BY <1>1
<1>3. T \subseteq FiniteSubsetsOf(0 .. k)
  BY <1>2, FS_FiniteSubsetsOfFinite, FS_Interval, SMTT(60)
<1>4. IsWellFoundedOn(StrictSubsetOrdering(0 .. k), FiniteSubsetsOf(0 .. k))
  BY FS_StrictSubsetOrderingWellFounded
<1>5. PICK S \in T : \A U \in T : <<U, S>> \notin StrictSubsetOrdering(0 .. k)
  BY <1>2, <1>3, <1>4, WFMin
<1>6. PICK n \in I : n <= k /\ S = 0 .. n
  BY <1>5
<1>7. ASSUME NEW m \in I, m < n
      PROVE  FALSE
  <2>1. 0 .. m \in T
    BY <1>6, <1>7
  <2>2. 0 .. m \subseteq S /\ 0 .. m # S /\ S \subseteq 0 .. k
    BY <1>6, <1>7
  <2> QED
    BY <1>5, <2>1, <2>2 DEF StrictSubsetOrdering
<1> QED
  BY <1>6, <1>7

LEMMA SuffixOf ==
  ASSUME NEW S, NEW s \in Seq(S), NEW n \in 0 .. Len(s)
  PROVE  /\ SubSeq(s, n + 1, Len(s)) \in Seq(S)
         /\ Len(SubSeq(s, n + 1, Len(s))) = Len(s) - n
         /\ \A i \in 1 .. Len(s) - n : SubSeq(s, n + 1, Len(s))[i] = s[i + n]
OBVIOUS

LEMMA NothingIn ==
  ASSUME NEW S, NEW s \in Seq(S), Len(s) = 0
  PROVE  s = <<>>
OBVIOUS

LEMMA ListOf ==
  ASSUME NEW S, NEW n \in Nat, NEW s \in [1 .. n -> S]
  PROVE  s \in Seq(S) /\ Len(s) = n
OBVIOUS

LEMMA SameList ==
  ASSUME NEW S, NEW s \in Seq(S), NEW n \in Nat, Len(s) = n, NEW t, t = [i \in 1 .. n |-> t[i]],
         \A i \in 1 .. n : s[i] = t[i]
  PROVE  s = t
<1>1. s = [i \in 1 .. n |-> s[i]]
  OBVIOUS
<1>2. [i \in 1 .. n |-> s[i]] = [i \in 1 .. n |-> t[i]]
  OBVIOUS
<1> QED
  BY <1>1, <1>2

LEMMA JoinOf ==
  ASSUME NEW S, NEW s \in Seq(S), NEW t \in Seq(S)
  PROVE  /\ s \o t \in Seq(S)
         /\ Len(s \o t) = Len(s) + Len(t)
         /\ \A i \in 1 .. Len(s) : (s \o t)[i] = s[i]
         /\ \A i \in 1 .. Len(t) : (s \o t)[Len(s) + i] = t[i]
OBVIOUS

-----------------------------------------------------------------------------
(* Reading a reply, token by token, is a recursive function.  It exists.   *)

Start(r) == [stack |-> <<r>>, err |-> "none", used |-> 0]

\* f are the states of reader r on the first n tokens.
IsReading(f, r, toks, n) ==
  f = [k \in 0 .. n |-> IF k = 0 THEN Start(r) ELSE ReadToken(f[k - 1], toks[k])]

Reading(r, toks) == CHOOSE f : IsReading(f, r, toks, Len(toks))

\* The reader wants no more, or has met an error.
Done(s) == s.stack = <<>> \/ s.err # "none"

\* Each state from the one before it.
Unfolds(f, r, toks, n) == f[0] = Start(r) /\ \A k \in 1 .. n : f[k] = ReadToken(f[k - 1], toks[k])

LEMMA ReadingUnfolds ==
  ASSUME NEW r, NEW toks, NEW n \in Nat, NEW f, IsReading(f, r, toks, n)
  PROVE  Unfolds(f, r, toks, n)
<1>1. ASSUME NEW k \in 0 .. n
      PROVE  f[k] = IF k = 0 THEN Start(r) ELSE ReadToken(f[k - 1], toks[k])
  BY <1>1 DEF IsReading
<1> QED
  BY <1>1 DEF Unfolds

LEMMA ReadingExists ==
  ASSUME NEW r, NEW toks
  PROVE  \A n \in Nat : \E f : IsReading(f, r, toks, n)
<1> DEFINE I == {n \in Nat : ~ \E f : IsReading(f, r, toks, n)}
<1> SUFFICES ASSUME I # {} PROVE FALSE
  OBVIOUS
<1>1. PICK n \in I : \A m \in I : n <= m
  <2>1. I \in SUBSET Nat
    OBVIOUS
  <2> HIDE DEF I
  <2> QED
    BY <2>1, LeastOf
<1>2. CASE n = 0
  <2>1. IsReading([k \in 0 .. 0 |-> Start(r)], r, toks, 0)
    BY DEF IsReading
  <2> QED
    BY <1>2, <2>1
<1>3. CASE n # 0
  <2>1. n - 1 \in Nat /\ n - 1 \notin I
    BY <1>1, <1>3
  <2>2. PICK f : IsReading(f, r, toks, n - 1)
    BY <2>1
  <2> DEFINE g == [k \in 0 .. n |-> IF k = n THEN ReadToken(f[n - 1], toks[n]) ELSE f[k]]
  <2>3. f[0] = Start(r) /\ \A k \in 1 .. n - 1 : f[k] = ReadToken(f[k - 1], toks[k])
    BY <2>1, <2>2, ReadingUnfolds DEF Unfolds
  <2>4. \A k \in 0 .. n : g[k] = IF k = 0 THEN Start(r) ELSE ReadToken(g[k - 1], toks[k])
    <3>1. \A k \in 0 .. n - 1 : g[k] = f[k]
      BY <2>1
    <3>2. g[0] = Start(r)
      BY <3>1, <2>1, <2>3
    <3>3. \A k \in 1 .. n - 1 : g[k] = ReadToken(g[k - 1], toks[k])
      BY <3>1, <2>1, <2>3
    <3>4. g[n] = ReadToken(g[n - 1], toks[n])
      BY <3>1, <2>1
    <3> HIDE DEF g
    <3> QED
      BY <3>2, <3>3, <3>4
  <2>5. g = [k \in 0 .. n |-> g[k]]
    OBVIOUS
  <2>6. IsReading(g, r, toks, n)
    <3> HIDE DEF g
    <3> QED
      BY <2>4, <2>5 DEF IsReading
  <2> QED
    BY <2>6
<1> QED
  BY <1>2, <1>3

\* Two readings of the same tokens are the same.
LEMMA ReadingsAgree ==
  ASSUME NEW r, NEW toks, NEW n \in Nat, NEW f, IsReading(f, r, toks, n),
         NEW more, NEW m \in Nat, NEW g, IsReading(g, r, more, m),
         NEW l \in Nat, l <= n, l <= m, \A k \in 1 .. l : toks[k] = more[k]
  PROVE  f[l] = g[l]
<1> DEFINE I == {k \in 0 .. l : f[k] # g[k]}
<1> SUFFICES ASSUME f[l] # g[l] PROVE FALSE
  OBVIOUS
<1>0. I # {}
  OBVIOUS
<1>1. PICK k \in I : \A i \in I : k <= i
  <2>1. I \in SUBSET Nat
    OBVIOUS
  <2> HIDE DEF I
  <2> QED
    BY <2>1, <1>0, LeastOf
<1>2. /\ f[0] = Start(r) /\ \A i \in 1 .. n : f[i] = ReadToken(f[i - 1], toks[i])
      /\ g[0] = Start(r) /\ \A i \in 1 .. m : g[i] = ReadToken(g[i - 1], more[i])
  <2>1. Unfolds(f, r, toks, n) /\ Unfolds(g, r, more, m)
    BY ReadingUnfolds
  <2> QED
    BY <2>1 DEF Unfolds
<1>3. k # 0 /\ k - 1 \in 0 .. l /\ k \in 1 .. l
  BY <1>1, <1>2
<1>4. f[k - 1] = g[k - 1]
  BY <1>1, <1>3
<1>5. f[k] = g[k]
  BY <1>2, <1>3, <1>4
<1> QED
  BY <1>1, <1>5

LEMMA TokenTaken ==
  ASSUME NEW s, NEW t
  PROVE  /\ Done(s) => ReadToken(s, t) = s
         /\ ~ Done(s) => ReadToken(s, t).used = s.used + 1
BY DEF ReadToken, Done

\* A reader that is done takes no more tokens; until then it takes each.
Settles(f, n) ==
  /\ \A k \in 0 .. n : f[k].used \in 0 .. k /\ (~ Done(f[k]) => f[k].used = k)
  /\ \A j \in 0 .. n : Done(f[j]) => \A k \in j .. n : f[k] = f[j]

LEMMA ReadingSettles ==
  ASSUME NEW r, NEW toks, NEW n \in Nat, NEW f, IsReading(f, r, toks, n)
  PROVE  Settles(f, n)
<1>1. f[0] = Start(r) /\ \A k \in 1 .. n : f[k] = ReadToken(f[k - 1], toks[k])
  BY ReadingUnfolds DEF Unfolds
<1>2. ASSUME NEW k \in 1 .. n
      PROVE  /\ Done(f[k - 1]) => f[k] = f[k - 1]
             /\ ~ Done(f[k - 1]) => f[k].used = f[k - 1].used + 1
  <2>1. f[k] = ReadToken(f[k - 1], toks[k])
    BY <1>1
  <2> QED
    BY <2>1, TokenTaken
<1>3. \A k \in 0 .. n : f[k].used \in 0 .. k /\ (~ Done(f[k]) => f[k].used = k)
  <2> DEFINE I == {k \in 0 .. n : ~ (f[k].used \in 0 .. k /\ (~ Done(f[k]) => f[k].used = k))}
  <2> SUFFICES ASSUME I # {} PROVE FALSE
    OBVIOUS
  <2>1. PICK k \in I : \A i \in I : k <= i
    <3>1. I \in SUBSET Nat
      OBVIOUS
    <3> HIDE DEF I
    <3> QED
      BY <3>1, LeastOf
  <2>2. k # 0
    BY <2>1, <1>1 DEF Start
  <2>3. k \in 1 .. n /\ k - 1 \in 0 .. n /\ k - 1 \notin I
    BY <2>1, <2>2
  <2>4. f[k - 1].used \in 0 .. k - 1 /\ (~ Done(f[k - 1]) => f[k - 1].used = k - 1)
    BY <2>3
  <2>5. f[k].used \in 0 .. k /\ (~ Done(f[k]) => f[k].used = k)
    BY <2>3, <2>4, <1>2
  <2> QED
    BY <2>1, <2>5
<1>4. ASSUME NEW j \in 0 .. n, Done(f[j])
      PROVE  \A k \in j .. n : f[k] = f[j]
  <2> DEFINE I == {k \in j .. n : f[k] # f[j]}
  <2> SUFFICES ASSUME I # {} PROVE FALSE
    OBVIOUS
  <2>1. PICK k \in I : \A i \in I : k <= i
    <3>1. I \in SUBSET Nat
      OBVIOUS
    <3> HIDE DEF I
    <3> QED
      BY <3>1, LeastOf
  <2>2. k # j
    BY <2>1
  <2>3. k \in 1 .. n /\ k - 1 \in j .. n /\ k - 1 \notin I
    BY <2>1, <2>2
  <2>4. f[k] = f[k - 1]
    BY <2>3, <1>2, <1>4
  <2> QED
    BY <2>1, <2>3, <2>4
<1> QED
  BY <1>3, <1>4 DEF Settles

LEMMA ReadReplyIs ==
  ASSUME NEW T, NEW r, NEW toks \in Seq(T)
  PROVE  /\ IsReading(Reading(r, toks), r, toks, Len(toks))
         /\ ReadReply(r, toks).used = Reading(r, toks)[Len(toks)].used
         /\ LET s == Reading(r, toks)[Len(toks)]
            IN  ReadReply(r, toks).err = IF s.err = "none" /\ s.stack # <<>> THEN "network" ELSE s.err
<1>1. IsReading(Reading(r, toks), r, toks, Len(toks))
  <2>1. Len(toks) \in Nat
    OBVIOUS
  <2> QED
    BY <2>1, ReadingExists DEF Reading
<1>2. ReadReply(r, toks) =
        LET s == Reading(r, toks)[Len(toks)]
        IN  [used |-> s.used, err |-> IF s.err = "none" /\ s.stack # <<>> THEN "network" ELSE s.err]
  BY DEF ReadReply, Reading, IsReading, Start
<1> QED
  BY <1>1, <1>2

\* r reads the whole of the reply a, and waits for it until it is all there.
ReadsWhole(r, a) ==
  /\ a # <<>> /\ ReadReply(r, Front(a)).err = "network"
  /\ ReadReply(r, a).err # "network"

\* The reader of a reply takes what it is to take and not more, whatever comes
\* after it, and a part of the reply is not enough.
LEMMA TakesItsOwn ==
  ASSUME NEW T, NEW r, NEW a \in Seq(T), ReadsWhole(r, a), NEW toks \in Seq(T),
         \A k \in 1 .. Len(toks) : k <= Len(a) => toks[k] = a[k]
  PROVE  /\ Len(a) \in Nat \ {0}
         /\ Len(a) <= Len(toks) => /\ ReadReply(r, toks).used = Len(a)
                                   /\ ReadReply(r, toks).err = ReadReply(r, a).err
                                   /\ ReadReply(r, toks).err # "network"
         /\ Len(toks) < Len(a) => /\ ReadReply(r, toks).used = Len(toks)
                                  /\ ReadReply(r, toks).err = "network"
<1> DEFINE front == SubSeq(a, 1, Len(a) - 1)
<1>1. a # <<>> /\ ReadReply(r, front).err = "network" /\ ReadReply(r, a).err # "network"
  BY DEF ReadsWhole, Front
<1>2. PICK n \in Nat \ {0} : n = Len(a)
  BY <1>1
<1>3. front \in Seq(T) /\ Len(front) = n - 1 /\ \A k \in 1 .. n - 1 : front[k] = a[k]
  BY <1>2
<1>4. PICK m \in Nat : m = Len(toks)
  OBVIOUS
<1> HIDE DEF front
<1>5. PICK f : IsReading(f, r, a, n) /\ f = Reading(r, a)
  BY <1>2, ReadReplyIs
<1>6. PICK g : IsReading(g, r, front, n - 1) /\ g = Reading(r, front)
  BY <1>3, ReadReplyIs
<1>7. PICK h : IsReading(h, r, toks, m) /\ h = Reading(r, toks)
  BY <1>4, ReadReplyIs
<1>8. g[n - 1] = f[n - 1]
  <2>1. PICK p \in Nat : p = n - 1
    BY <1>2
  <2>2. IsReading(g, r, front, p) /\ p <= p /\ IsReading(f, r, a, n) /\ n \in Nat /\ p <= n
    BY <2>1, <1>2, <1>5, <1>6
  <2>3. \A k \in 1 .. p : front[k] = a[k]
    BY <2>1, <1>3
  <2>4. p \in Nat
    BY <2>1
  <2>5. g[p] = f[p]
    BY <2>2, <2>3, <2>4, ReadingsAgree
  <2> QED
    BY <2>1, <2>5
<1>9. /\ \A k \in 0 .. n : f[k].used \in 0 .. k /\ (~ Done(f[k]) => f[k].used = k)
      /\ \A j \in 0 .. n : Done(f[j]) => \A k \in j .. n : f[k] = f[j]
  <2>1. IsReading(f, r, a, n) /\ n \in Nat
    BY <1>2, <1>5
  <2>2. Settles(f, n)
    BY <2>1, ReadingSettles
  <2> QED
    BY <2>2 DEF Settles
<1>10. /\ \A k \in 0 .. m : h[k].used \in 0 .. k /\ (~ Done(h[k]) => h[k].used = k)
       /\ \A j \in 0 .. m : Done(h[j]) => \A k \in j .. m : h[k] = h[j]
  <2>1. IsReading(h, r, toks, m) /\ m \in Nat
    BY <1>4, <1>7
  <2>2. Settles(h, m)
    BY <2>1, ReadingSettles
  <2> QED
    BY <2>2 DEF Settles
<1>11. ReadReply(r, a).err = IF f[n].err = "none" /\ f[n].stack # <<>> THEN "network" ELSE f[n].err
  BY <1>2, <1>5, ReadReplyIs
<1>12. /\ ReadReply(r, toks).used = h[m].used
       /\ ReadReply(r, toks).err = IF h[m].err = "none" /\ h[m].stack # <<>> THEN "network" ELSE h[m].err
  BY <1>4, <1>7, ReadReplyIs
<1>13. ~ Done(f[n - 1])
  <2> SUFFICES ASSUME Done(f[n - 1]) PROVE FALSE
    OBVIOUS
  <2>1. f[n] = f[n - 1]
    BY <1>9
  <2>2. ReadReply(r, front).err = IF g[n - 1].err = "none" /\ g[n - 1].stack # <<>>
                                  THEN "network" ELSE g[n - 1].err
    BY <1>3, <1>6, ReadReplyIs
  <2> QED
    BY <2>1, <2>2, <1>1, <1>8, <1>11
<1>14. f[n].used = n
  <2>1. f[n - 1].used = n - 1
    BY <1>9, <1>13
  <2>2. f[n] = ReadToken(f[n - 1], a[n])
    <3>1. IsReading(f, r, a, n) /\ n \in Nat /\ n \in 1 .. n
      BY <1>2, <1>5
    <3>2. Unfolds(f, r, a, n)
      BY <3>1, ReadingUnfolds
    <3> QED
      BY <3>1, <3>2 DEF Unfolds
  <2>3. f[n].used = f[n - 1].used + 1
    BY <2>2, <1>13, TokenTaken
  <2> QED
    BY <2>1, <2>3
<1>15. ASSUME NEW l \in Nat, l <= n, l <= m
       PROVE  f[l] = h[l]
  <2>1. IsReading(f, r, a, n) /\ IsReading(h, r, toks, m) /\ n \in Nat /\ m \in Nat
    BY <1>2, <1>4, <1>5, <1>7
  <2>2. \A k \in 1 .. l : a[k] = toks[k]
    BY <1>2, <1>4, <1>15
  <2> QED
    BY <2>1, <2>2, <1>15, ReadingsAgree
<1>16. CASE n <= m
  <2>1. f[n] = h[n]
    BY <1>15, <1>16
  <2>2. Done(f[n])
    BY <1>1, <1>11 DEF Done
  <2>3. h[m] = h[n]
    BY <2>1, <2>2, <1>10, <1>16
  <2> QED
    BY <2>1, <2>3, <1>1, <1>2, <1>4, <1>11, <1>12, <1>14, <1>16
<1>17. CASE m < n
  <2>1. f[m] = h[m]
    BY <1>15, <1>17
  <2>2. ~ Done(f[m])
    <3>1. m \in 0 .. n /\ n - 1 \in m .. n
      BY <1>17
    <3> QED
      BY <3>1, <1>9, <1>13
  <2>3. h[m].used = m
    BY <2>1, <2>2, <1>10
  <2> QED
    BY <2>1, <2>2, <2>3, <1>2, <1>4, <1>12, <1>17 DEF Done
<1> QED
  BY <1>16, <1>17

\* No reader takes more than there is.
LEMMA TakesWhatIsThere ==
  ASSUME NEW T, NEW r, NEW toks \in Seq(T)
  PROVE  ReadReply(r, toks).used \in 0 .. Len(toks)
<1>1. PICK n \in Nat : n = Len(toks)
  OBVIOUS
<1>2. Reading(r, toks)[n].used \in 0 .. n
  <2>1. IsReading(Reading(r, toks), r, toks, n)
    BY <1>1, ReadReplyIs
  <2>2. \A k \in 0 .. n : Reading(r, toks)[k].used \in 0 .. k
    BY <2>1, ReadingSettles DEF Settles
  <2> QED
    BY <2>2
<1> QED
  BY <1>1, <1>2, ReadReplyIs

-----------------------------------------------------------------------------
(* So is FlattenSeq.                                                       *)

Join(s, t) == s \o t

LEMMA JoinIs ==
  ASSUME NEW T, NEW s \in Seq(T), NEW t \in Seq(T)
  PROVE  Join(s, t) \in Seq(T) /\ Join(s, <<>>) = s
BY DEF Join

LEMMA JoinAssociates ==
  ASSUME NEW T, NEW s \in Seq(T), NEW t \in Seq(T), NEW u \in Seq(T)
  PROVE  Join(Join(s, t), u) = Join(s, Join(t, u))
BY DEF Join

IsFlat(f, ss, n) == f = [i \in 1 .. n |-> IF i = 1 THEN ss[i] ELSE Join(f[i - 1], ss[i])]

\* Each beginning from the one before it.
Grows(f, ss, n) == f[1] = ss[1] /\ \A i \in 2 .. n : f[i] = Join(f[i - 1], ss[i])

LEMMA FlatGrows ==
  ASSUME NEW ss, NEW n \in Nat \ {0}, NEW f, IsFlat(f, ss, n)
  PROVE  Grows(f, ss, n)
<1>1. ASSUME NEW i \in 1 .. n
      PROVE  f[i] = IF i = 1 THEN ss[i] ELSE Join(f[i - 1], ss[i])
  BY <1>1 DEF IsFlat
<1> QED
  BY <1>1 DEF Grows

LEMMA FlatExists ==
  ASSUME NEW ss
  PROVE  \A n \in Nat \ {0} : \E f : IsFlat(f, ss, n)
<1> DEFINE I == {n \in Nat \ {0} : ~ \E f : IsFlat(f, ss, n)}
<1> SUFFICES ASSUME I # {} PROVE FALSE
  OBVIOUS
<1>1. PICK n \in I : \A m \in I : n <= m
  <2>1. I \in SUBSET Nat
    OBVIOUS
  <2> HIDE DEF I
  <2> QED
    BY <2>1, LeastOf
<1>2. CASE n = 1
  <2>1. IsFlat([i \in 1 .. 1 |-> ss[1]], ss, 1)
    BY DEF IsFlat
  <2> QED
    BY <1>2, <2>1
<1>3. CASE n # 1
  <2>1. n - 1 \in Nat \ {0} /\ n - 1 \notin I /\ n \in Nat
    BY <1>1, <1>3
  <2>2. PICK f : IsFlat(f, ss, n - 1)
    BY <2>1
  <2> DEFINE g == [i \in 1 .. n |-> IF i = n THEN Join(f[n - 1], ss[n]) ELSE f[i]]
  <2>3. Grows(f, ss, n - 1)
    BY <2>1, <2>2, FlatGrows
  <2>4. \A i \in 1 .. n : g[i] = IF i = 1 THEN ss[i] ELSE Join(g[i - 1], ss[i])
    <3>1. \A i \in 1 .. n - 1 : g[i] = f[i]
      BY <2>1
    <3>2. g[1] = ss[1]
      BY <3>1, <2>1, <2>3 DEF Grows
    <3>3. \A i \in 2 .. n - 1 : g[i] = Join(g[i - 1], ss[i])
      BY <3>1, <2>1, <2>3 DEF Grows
    <3>4. g[n] = Join(g[n - 1], ss[n])
      BY <3>1, <2>1
    <3> HIDE DEF g
    <3> QED
      BY <3>2, <3>3, <3>4, <2>1
  <2>5. g = [i \in 1 .. n |-> g[i]]
    OBVIOUS
  <2>6. IsFlat(g, ss, n)
    <3> HIDE DEF g
    <3> QED
      BY <2>4, <2>5 DEF IsFlat
  <2> QED
    BY <2>6
<1> QED
  BY <1>2, <1>3

LEMMA FlattenIs ==
  ASSUME NEW T, NEW ss \in Seq(Seq(T)), NEW n \in Nat \ {0}, Len(ss) = n
  PROVE  \E f : Grows(f, ss, n) /\ FlattenSeq(ss) = f[n]
<1> DEFINE f == CHOOSE f : IsFlat(f, ss, n)
<1>1. IsFlat(f, ss, n)
  BY FlatExists
<1>2. Grows(f, ss, n)
  <2> HIDE DEF f
  <2> QED
    BY <1>1, FlatGrows
<1>3. FlattenSeq(ss) = f[n]
  BY DEF FlattenSeq, IsFlat, Join
<1> QED
  BY <1>2, <1>3

\* What is flattened begins with its first part.
LEMMA FlattenUnfolds ==
  ASSUME NEW T, NEW ss \in Seq(Seq(T)), ss # <<>>
  PROVE  FlattenSeq(ss) = Join(ss[1], FlattenSeq(Tail(ss))) /\ FlattenSeq(ss) \in Seq(T)
<1>1. PICK n \in Nat \ {0} : n = Len(ss)
  OBVIOUS
<1>2. \A i \in 1 .. n : ss[i] \in Seq(T)
  BY <1>1
<1>3. Tail(ss) \in Seq(Seq(T)) /\ Len(Tail(ss)) = n - 1 /\ \A i \in 1 .. n - 1 : Tail(ss)[i] = ss[i + 1]
  BY <1>1
<1>4. PICK f : Grows(f, ss, n) /\ FlattenSeq(ss) = f[n]
  BY <1>1, FlattenIs
<1>5. f[1] = ss[1] /\ \A i \in 2 .. n : f[i] = Join(f[i - 1], ss[i])
  BY <1>4 DEF Grows
<1>6. \A i \in 1 .. n : f[i] \in Seq(T)
  <2> DEFINE I == {i \in 1 .. n : f[i] \notin Seq(T)}
  <2> SUFFICES ASSUME I # {} PROVE FALSE
    OBVIOUS
  <2>1. PICK k \in I : \A i \in I : k <= i
    <3>1. I \in SUBSET Nat
      OBVIOUS
    <3> HIDE DEF I
    <3> QED
      BY <3>1, LeastOf
  <2>2. k # 1 /\ k \in 2 .. n /\ k - 1 \notin I
    BY <2>1, <1>1, <1>2, <1>5
  <2>3. f[k - 1] \in Seq(T) /\ ss[k] \in Seq(T) /\ f[k] = Join(f[k - 1], ss[k])
    BY <2>2, <1>2, <1>5
  <2>4. f[k] \in Seq(T)
    BY <2>3, JoinIs
  <2> QED
    BY <2>1, <2>4
<1>7. CASE n = 1
  <2>1. Tail(ss) = <<>>
    <3>1. Tail(ss) \in Seq(Seq(T)) /\ Len(Tail(ss)) = 0
      BY <1>3, <1>7
    <3> QED
      BY <3>1, NothingIn
  <2>2. FlattenSeq(Tail(ss)) = <<>>
    BY <2>1 DEF FlattenSeq
  <2>3. ss[1] \in Seq(T) /\ Join(ss[1], <<>>) = ss[1]
    <3>1. ss[1] \in Seq(T)
      BY <1>1, <1>2
    <3> QED
      BY <3>1, JoinIs
  <2> QED
    BY <2>2, <2>3, <1>4, <1>5, <1>7
<1>8. CASE n # 1
  <2>1. PICK g : Grows(g, Tail(ss), n - 1) /\ FlattenSeq(Tail(ss)) = g[n - 1]
    <3>1. n - 1 \in Nat \ {0}
      BY <1>1, <1>8
    <3> QED
      BY <3>1, <1>3, FlattenIs
  <2>2. g[1] = ss[2] /\ \A i \in 2 .. n - 1 : g[i] = Join(g[i - 1], ss[i + 1])
    BY <2>1, <1>1, <1>3, <1>8 DEF Grows
  <2>3. \A i \in 1 .. n - 1 : g[i] \in Seq(T) /\ f[i + 1] = Join(ss[1], g[i])
    <3> DEFINE I == {i \in 1 .. n - 1 : ~ (g[i] \in Seq(T) /\ f[i + 1] = Join(ss[1], g[i]))}
    <3> SUFFICES ASSUME I # {} PROVE FALSE
      OBVIOUS
    <3>1. PICK k \in I : \A i \in I : k <= i
      <4>1. I \in SUBSET Nat
        BY <1>1
      <4> HIDE DEF I
      <4> QED
        BY <4>1, LeastOf
    <3>2. CASE k = 1
      BY <3>1, <3>2, <2>2, <1>1, <1>2, <1>5, <1>8
    <3>3. CASE k # 1
      <4>1. k \in 2 .. n - 1 /\ k - 1 \notin I /\ k + 1 \in 2 .. n /\ k - 1 \in 1 .. n - 1
        BY <3>1, <3>3, <1>1
      <4>2. g[k - 1] \in Seq(T) /\ f[k] = Join(ss[1], g[k - 1])
        <5>1. f[k - 1 + 1] = Join(ss[1], g[k - 1]) /\ g[k - 1] \in Seq(T)
          BY <4>1
        <5>2. k - 1 + 1 = k
          BY <4>1
        <5> QED
          BY <5>1, <5>2
      <4>3. f[k + 1] = Join(f[k], ss[k + 1])
        <5>1. f[k + 1] = Join(f[k + 1 - 1], ss[k + 1]) /\ k + 1 - 1 = k
          BY <4>1, <1>5
        <5> QED
          BY <5>1
      <4>4. g[k] = Join(g[k - 1], ss[k + 1])
        BY <4>1, <2>2
      <4>5. ss[1] \in Seq(T) /\ ss[k + 1] \in Seq(T)
        BY <4>1, <1>1, <1>2
      <4>6. Join(Join(ss[1], g[k - 1]), ss[k + 1]) = Join(ss[1], Join(g[k - 1], ss[k + 1]))
        BY <4>2, <4>5, JoinAssociates
      <4>7. g[k] \in Seq(T)
        BY <4>2, <4>4, <4>5, JoinIs
      <4>8. f[k + 1] = Join(ss[1], g[k])
        BY <4>2, <4>3, <4>4, <4>6
      <4> QED
        BY <4>7, <4>8, <3>1
    <3> QED
      BY <3>2, <3>3
  <2>4. n - 1 \in 1 .. n - 1 /\ n - 1 + 1 = n
    BY <1>1, <1>8
  <2>5. f[n] = Join(ss[1], g[n - 1])
    BY <2>3, <2>4
  <2>6. f[n] \in Seq(T)
    BY <1>1, <1>6
  <2> QED
    BY <2>1, <2>5, <2>6, <1>4
<1> QED
  BY <1>7, <1>8

-----------------------------------------------------------------------------
(* What Redis has sent.                                                    *)

Token ==
  {StatusLine, IntLine, BulkLine, NumberLine, NilLine, NilArrayLine, ErrorLine} \cup {ArrayOf(n) : n \in Nat}
Sending == [of : Nat, tok : Token]

Tagged(i, s) == [l \in DOMAIN s |-> [of |-> i, tok |-> s[l]]]

\* Sent, for the commands is.
SentOf(is, a, k) == FlattenSeq([j \in 1 .. k |-> Tagged(is[j], a[is[j]])])

LEMMA TaggedIs ==
  ASSUME NEW i \in Nat, NEW s \in Seq(Token)
  PROVE  /\ Tagged(i, s) \in Seq(Sending) /\ Len(Tagged(i, s)) = Len(s)
         /\ \A l \in 1 .. Len(s) : Tagged(i, s)[l].of = i /\ Tagged(i, s)[l].tok = s[l]
<1>1. PICK n \in Nat : n = Len(s)
  OBVIOUS
<1>2. DOMAIN s = 1 .. n /\ \A l \in 1 .. n : s[l] \in Token
  BY <1>1
<1>3. Tagged(i, s) = [l \in 1 .. n |-> [of |-> i, tok |-> s[l]]]
  BY <1>2 DEF Tagged
<1>4. \A l \in 1 .. n : [of |-> i, tok |-> s[l]] \in Sending
  BY <1>2 DEF Sending
<1> QED
  BY <1>1, <1>3, <1>4

LEMMA NothingSent ==
  ASSUME NEW is, NEW a
  PROVE  SentOf(is, a, 0) = <<>>
<1>1. [j \in 1 .. 0 |-> Tagged(is[j], a[is[j]])] = <<>>
  OBVIOUS
<1> QED
  BY <1>1 DEF SentOf, FlattenSeq

LEMMA SentUnfolds ==
  ASSUME NEW is \in Seq(Nat), NEW k \in 1 .. Len(is), NEW a,
         \A j \in 1 .. k : a[is[j]] \in Seq(Token)
  PROVE  /\ SentOf(is, a, k) \in Seq(Sending)
         /\ SentOf(is, a, k) = Join(Tagged(is[1], a[is[1]]), SentOf(Tail(is), a, k - 1))
<1> DEFINE ss == [j \in 1 .. k |-> Tagged(is[j], a[is[j]])]
           more == [j \in 1 .. k - 1 |-> Tagged(Tail(is)[j], a[Tail(is)[j]])]
<1>1. k \in Nat \ {0} /\ \A j \in 1 .. k - 1 : Tail(is)[j] = is[j + 1]
  OBVIOUS
<1>2. \A j \in 1 .. k : Tagged(is[j], a[is[j]]) \in Seq(Sending)
  <2> SUFFICES ASSUME NEW j \in 1 .. k PROVE Tagged(is[j], a[is[j]]) \in Seq(Sending)
    OBVIOUS
  <2>1. is[j] \in Nat
    OBVIOUS
  <2> QED
    BY <2>1, TaggedIs
<1>3. ss \in Seq(Seq(Sending)) /\ ss # <<>> /\ Len(ss) = k /\ \A j \in 1 .. k : ss[j] = Tagged(is[j], a[is[j]])
  <2>1. ss \in [1 .. k -> Seq(Sending)]
    BY <1>2
  <2>2. \A j \in 1 .. k : ss[j] = Tagged(is[j], a[is[j]])
    OBVIOUS
  <2> HIDE DEF ss
  <2>3. ss \in Seq(Seq(Sending)) /\ Len(ss) = k
    BY <2>1, <1>1, ListOf
  <2>4. ss # <<>>
    BY <2>3, <1>1
  <2> QED
    BY <2>2, <2>3, <2>4
<1>4. Tail(ss) = more
  <2>1. Len(Tail(ss)) = k - 1 /\ \A j \in 1 .. k - 1 : Tail(ss)[j] = ss[j + 1]
    <3> HIDE DEF ss
    <3> QED
      BY <1>1, <1>3
  <2>2. \A j \in 1 .. k - 1 : more[j] = ss[j + 1]
    <3>1. \A j \in 1 .. k - 1 : j + 1 \in 1 .. k
      BY <1>1
    <3> HIDE DEF ss
    <3> QED
      BY <3>1, <1>1, <1>3
  <2>3. Tail(ss) \in Seq(Seq(Sending))
    <3> HIDE DEF ss
    <3> QED
      BY <1>3
  <2>4. more = [j \in 1 .. k - 1 |-> more[j]]
    OBVIOUS
  <2>5. k - 1 \in Nat
    BY <1>1
  <2> HIDE DEF ss, more
  <2>6. \A j \in 1 .. k - 1 : Tail(ss)[j] = more[j]
    BY <2>1, <2>2
  <2>7. PICK n \in Nat : n = k - 1
    BY <2>5
  <2>8. PICK t : t = Tail(ss)
    OBVIOUS
  <2>9. /\ n \in Nat /\ t \in Seq(Seq(Sending)) /\ Len(t) = n
        /\ more = [j \in 1 .. n |-> more[j]] /\ \A j \in 1 .. n : t[j] = more[j]
    BY <2>1, <2>3, <2>4, <2>6, <2>7, <2>8
  <2>10. t = more
    BY <2>9, SameList
  <2> QED
    BY <2>8, <2>10
<1>5. FlattenSeq(ss) = Join(ss[1], FlattenSeq(Tail(ss))) /\ FlattenSeq(ss) \in Seq(Sending)
  <2> HIDE DEF ss
  <2> QED
    BY <1>3, FlattenUnfolds
<1>6. ss[1] = Tagged(is[1], a[is[1]])
  BY <1>1, <1>3
<1>7. SentOf(is, a, k) = FlattenSeq(ss) /\ SentOf(Tail(is), a, k - 1) = FlattenSeq(more)
  BY DEF SentOf
<1> HIDE DEF ss, more
<1> QED
  BY <1>4, <1>5, <1>6, <1>7

-----------------------------------------------------------------------------
(* The methods of a connection, of which each reads its replies whole.     *)

Readable(m) == \A a \in Answers(m) : ReadsWhole(TypeOf[m], a)

\* In a pipeline a nil would hide that a later reply is missing.
NeverNil(m) ==
  \A a \in Answers(m) \ {<<ErrorLine>>} : ReadReply(TypeOf[m], a).err \notin {"nil", "redis"}

Understands(m) == \A a \in Answers(m) : ReadReply(TypeOf[m], a).err \in {"none", "redis", "nil"}

\* The calls of the connection: any methods that read their replies whole, in
\* pipelines those that are never answered nil, and no failures within a
\* transaction but that of its function.
Fitting ==
  /\ \A m \in UsedMethods \cup PipeMethods : Readable(m)
  /\ \A m \in PipeMethods : NeverNil(m)
  /\ Mishaps \subseteq {"multiFunction"}

-----------------------------------------------------------------------------
(* Types.                                                                  *)

Signals == {"MULTI", "QUEUED", "WATCH", "UNWATCH"}

OneCommand == {[kind |-> "plain", cmds |-> <<m>>] : m \in UsedMethods \cup {"WATCH", "UNWATCH"}}
Pipelines == {[kind |-> "pipeline", cmds |-> <<m1, m2>>] : m1, m2 \in PipeMethods}
Transactions == {[kind |-> "multi", cmds |-> <<"MULTI", "QUEUED", "EXEC", m>>] : m \in PipeMethods}

\* What an attempt has left to read.
Orders ==
  [none     |-> {<<>>},
   plain    |-> {<<1>>, <<>>},
   pipeline |-> {<<1, 2>>, <<1>>, <<2>>, <<>>},
   multi    |-> {<<1, 2, 3, 4>>, <<2, 3, 4>>, <<3, 4>>, <<4>>, <<>>}]

Kinds == {"none", "plain", "pipeline", "multi"}

Exchange ==
  /\ pc = "idle" => call = NoCall
  /\ pc # "idle" => call \in OneCommand \cup Pipelines \cup Transactions
  /\ todo \in Orders[call.kind]
  /\ pc \in {"idle", "end"} => todo = <<>>
  /\ pc = "send" => todo # <<>> /\ (call.kind = "multi" => todo = <<1, 2, 3, 4>>)
  /\ DOMAIN got = DOMAIN call.cmds /\ DOMAIN err = DOMAIN call.cmds

TypesOK ==
  /\ wire \in Seq(Sending) /\ buffered \in 0 .. Len(wire)
  /\ deadline \in BOOLEAN /\ watched \in BOOLEAN /\ dead \in BOOLEAN
  /\ pc \in {"idle", "send", "read", "end"}
  /\ tries \in Nat /\ faults \in Nat
  /\ tx \in {"none", "open", "queueing", "closing"}
  /\ Exchange

\* A Multi has its connection for itself, and pipelines have none.
Lent ==
  /\ call.kind = "pipeline" => tx = "none"
  /\ call.kind = "multi" => tx = "open"

LEMMA MethodNames == Methods \cap (Signals \cup {"EXEC"}) = {}
<1> DEFINE Free(s) == \A t \in DOMAIN s : s[t] \cap (Signals \cup {"EXEC"}) = {}
<1>1. Free(Connection)
  BY DEF Connection, Signals
<1>2. Free(Keys)
  BY DEF Keys, Signals
<1>3. Free(KeysAndCursors)
  BY DEF KeysAndCursors, Signals
<1>4. Free(Strings)
  BY DEF Strings, Signals
<1>5. Free(StringsOfMany)
  BY DEF StringsOfMany, Signals
<1>6. Free(Hashes)
  BY DEF Hashes, Signals
<1>7. Free(Lists)
  BY DEF Lists, Signals
<1>8. Free(SetsOfRedis)
  BY DEF SetsOfRedis, Signals
<1>9. Free(SortedSets)
  BY DEF SortedSets, Signals
<1>10. Free(SortedRanges)
  BY DEF SortedRanges, Signals
<1>11. Free(SortedScores)
  BY DEF SortedScores, Signals
<1>12. Free(HyperLogLog)
  BY DEF HyperLogLog, Signals
<1>13. Free(Administration)
  BY DEF Administration, Signals
<1>14. Free(Scripting)
  BY DEF Scripting, Signals
<1>15. Free(PubSubState)
  BY DEF PubSubState, Signals
<1>16. Free(ClusterState)
  BY DEF ClusterState, Signals
<1>17. Free(Geo)
  BY DEF Geo, Signals
<1> HIDE DEF Free
<1>18. \A s \in Sections : Free(s)
  BY <1>1, <1>2, <1>3, <1>4, <1>5, <1>6, <1>7, <1>8, <1>9, <1>10, <1>11, <1>12,
     <1>13, <1>14, <1>15, <1>16, <1>17 DEF Sections
<1> QED
  BY <1>18 DEF Free, Methods

-----------------------------------------------------------------------------
(* The invariant.                                                          *)

\* What Redis may have answered to command m of a call.
Answered(kind, m, s) ==
  IF m \in Signals THEN s = <<StatusLine>>
  ELSE IF m = "EXEC" THEN s \in {<<ArrayOf(1)>>, <<NilArrayLine>>}
  ELSE s \in Answers(m) /\ (kind # "plain" => s # <<ErrorLine>>)

\* The reply of command j of is; the command of an aborted transaction has none.
Replied(c, is, a, j) ==
  IF j > 1 /\ c.cmds[is[j - 1]] = "EXEC" /\ a[is[j - 1]] = <<NilArrayLine>>
  THEN a[is[j]] = <<>>
  ELSE Answered(c.kind, c.cmds[is[j]], a[is[j]])

\* Nothing was missed in this attempt, and the connection has the replies of the
\* next commands in their order, to the last or until Redis has closed it.
InOrder(a, k) ==
  /\ Unanswered = {}
  /\ k \in 0 .. Len(todo) /\ (dead <=> k < Len(todo))
  /\ wire = SentOf(todo, a, k)
  /\ \A j \in 1 .. k : Replied(call, todo, a, j)

\* The connection is to be replaced.
Late ==
  /\ tx = "none"
  /\ \E i \in DOMAIN err : err[i] = "network" /\ \A j \in DOMAIN err : j < i => err[j] \notin {"nil", "redis"}
  /\ todo # <<>> => /\ call.kind = "pipeline" /\ todo = <<2>> /\ err[1] = "network"
                    /\ (wire = <<>> \/ wire[1].of = 1)

Quiet == pc # "read" => wire = <<>> /\ ~ dead

Fetching ==
  /\ pc = "send" => Unanswered = {}
  /\ pc = "read" => /\ dead => tx = "none"
                    /\ ((\E a, k : InOrder(a, k)) \/ Late)

NoNilFirst == call.kind = "pipeline" => err[1] \notin {"nil", "redis"}

Own ==
  \/ call.kind = "pipeline" /\ (tries > 0 \/ Unanswered # {})
  \/ \A i \in DOMAIN err : err[i] = "none" => got[i] = {i}

Understanding ==
  \A i \in DOMAIN err :
    got[i] = {i} /\ call.cmds[i] \notin {"Sort", "BRPopLPush", "EXEC"}
    => err[i] \in {"none", "redis", "nil", "network"}

ConnInv == TypesOK /\ Lent /\ Quiet /\ Fetching /\ NoNilFirst /\ Own

-----------------------------------------------------------------------------
(* Replies are sequences of tokens.                                        *)

LEMMA ListsOf ==
  ASSUME NEW S
  PROVE  /\ <<>> \in Seq(S)
         /\ \A x \in S : <<x>> \in Seq(S)
         /\ \A x, y \in S : <<x, y>> \in Seq(S)
         /\ \A x, y, z \in S : <<x, y, z>> \in Seq(S)
         /\ \A x, y, z, u, v \in S : <<x, y, z, u, v>> \in Seq(S)
OBVIOUS

LEMMA TokensAre ==
  /\ StatusLine \in Token /\ IntLine \in Token /\ BulkLine \in Token /\ NumberLine \in Token
  /\ NilLine \in Token /\ NilArrayLine \in Token /\ ErrorLine \in Token
  /\ ArrayOf(0) \in Token /\ ArrayOf(1) \in Token /\ ArrayOf(2) \in Token
  /\ ArrayOf(3) \in Token /\ ArrayOf(4) \in Token
BY DEF Token

LEMMA FieldsCounted == Cardinality(LocationFields) \in Nat
<1>1. IsFiniteSet({"dist", "hash", "coord"})
  <2>1. IsFiniteSet({} \cup {"dist"})
    BY FS_EmptySet, FS_AddElement
  <2>2. IsFiniteSet(({} \cup {"dist"}) \cup {"hash"})
    BY <2>1, FS_AddElement
  <2>3. IsFiniteSet((({} \cup {"dist"}) \cup {"hash"}) \cup {"coord"})
    BY <2>2, FS_AddElement
  <2>4. (({} \cup {"dist"}) \cup {"hash"}) \cup {"coord"} = {"dist", "hash", "coord"}
    OBVIOUS
  <2> QED
    BY <2>3, <2>4
<1>2. IsFiniteSet(LocationFields)
  BY <1>1, LocationAssumption, FS_Subset
<1> QED
  BY <1>2, FS_CardinalityType

LEMMA PlaceIs == Place \in Seq(Token)
<1>1. Cardinality(LocationFields) \in Nat
  BY FieldsCounted
<1>2. PICK n \in Nat : n = 1 + Cardinality(LocationFields)
  BY <1>1
<1>3. ArrayOf(n) \in Token
  BY DEF Token
<1>4. /\ <<>> \in Seq(Token) /\ <<ArrayOf(n), BulkLine>> \in Seq(Token) /\ <<NumberLine>> \in Seq(Token)
      /\ <<IntLine>> \in Seq(Token) /\ <<ArrayOf(2), NumberLine, NumberLine>> \in Seq(Token)
  BY <1>3, TokensAre, ListsOf
<1> DEFINE s == <<ArrayOf(n), BulkLine>>
           d == IF "dist" \in LocationFields THEN <<NumberLine>> ELSE <<>>
           h == IF "hash" \in LocationFields THEN <<IntLine>> ELSE <<>>
           c == IF "coord" \in LocationFields THEN <<ArrayOf(2), NumberLine, NumberLine>> ELSE <<>>
<1>5. s \in Seq(Token) /\ d \in Seq(Token) /\ h \in Seq(Token) /\ c \in Seq(Token)
  BY <1>4, Zenon
<1>6. Place = IF LocationFields = {} THEN <<BulkLine>> ELSE ((s \o d) \o h) \o c
  BY <1>2 DEF Place
<1>7. <<BulkLine>> \in Seq(Token)
  BY TokensAre, ListsOf
<1> HIDE DEF s, d, h, c
<1>8. ((s \o d) \o h) \o c \in Seq(Token)
  BY <1>5
<1> QED
  BY <1>6, <1>7, <1>8, Zenon

LEMMA RepliesAre ==
  ASSUME NEW k \in DOMAIN ReplyShapes
  PROVE  Replies(k) \subseteq Seq(Token)
<1>1. k = "status" => Replies(k) \subseteq Seq(Token)
  BY TokensAre, ListsOf DEF Replies
<1>2. k = "int" => Replies(k) \subseteq Seq(Token)
  BY TokensAre, ListsOf DEF Replies
<1>3. k = "nil" => Replies(k) \subseteq Seq(Token)
  BY TokensAre, ListsOf DEF Replies
<1>4. k = "bulk" => Replies(k) \subseteq Seq(Token)
  BY TokensAre, ListsOf DEF Replies
<1>5. k = "number" => Replies(k) \subseteq Seq(Token)
  BY TokensAre, ListsOf DEF Replies
<1>6. k = "strings" => Replies(k) \subseteq Seq(Token)
  BY TokensAre, ListsOf DEF Replies
<1>7. k = "holes" => Replies(k) \subseteq Seq(Token)
  BY TokensAre, ListsOf DEF Replies
<1>8. k = "nilArray" => Replies(k) \subseteq Seq(Token)
  BY TokensAre, ListsOf DEF Replies
<1>9. k = "ints" => Replies(k) \subseteq Seq(Token)
  BY TokensAre, ListsOf DEF Replies
<1>10. k = "counts" => Replies(k) \subseteq Seq(Token)
  BY TokensAre, ListsOf DEF Replies
<1>11. k = "scores" => Replies(k) \subseteq Seq(Token)
  BY TokensAre, ListsOf DEF Replies
<1>12. k = "end" => Replies(k) \subseteq Seq(Token)
  BY TokensAre, ListsOf DEF Replies
<1>13. k = "page" => Replies(k) \subseteq Seq(Token)
  BY TokensAre, ListsOf DEF Replies
<1>14. k = "slots" => Replies(k) \subseteq Seq(Token)
  BY TokensAre, ListsOf DEF Replies
<1>15. k = "places" => Replies(k) \subseteq Seq(Token)
  <2>1. <<ArrayOf(2)>> \in Seq(Token)
    BY TokensAre
  <2>2. PICK s \in Seq(Token) : s = <<ArrayOf(2)>>
    BY <2>1
  <2>3. (s \o Place) \o Place \in Seq(Token)
    BY PlaceIs
  <2> QED
    BY <2>2, <2>3 DEF Replies
<1>16. k = "script" => Replies(k) \subseteq Seq(Token)
  <2>1. WithError \in Seq(Token)
    BY TokensAre, ListsOf DEF WithError
  <2>2. {<<IntLine>>, <<NilLine>>,
         <<ArrayOf(1), ArrayOf(3), BulkLine, BulkLine, ArrayOf(2), NilLine, BulkLine>>} \subseteq Seq(Token)
    BY TokensAre, ListsOf
  <2>3. k = "script" => Replies(k) \subseteq
          {<<IntLine>>, <<NilLine>>,
           <<ArrayOf(1), ArrayOf(3), BulkLine, BulkLine, ArrayOf(2), NilLine, BulkLine>>} \cup {WithError}
    BY DEF Replies
  <2> QED
    BY <2>1, <2>2, <2>3
<1> QED
  BY <1>1, <1>2, <1>3, <1>4, <1>5, <1>6, <1>7, <1>8, <1>9, <1>10, <1>11, <1>12, <1>13,
     <1>14, <1>15, <1>16 DEF ReplyShapes

LEMMA AnswersAre ==
  ASSUME NEW m \in Methods
  PROVE  Answers(m) \subseteq Seq(Token)
<1>1. \A k \in ShapesOf[m] : Replies(k) \subseteq Seq(Token)
  <2>1. \A k \in ShapesOf[m] : k \in DOMAIN ReplyShapes
    BY DEF ShapesOf
  <2> QED
    BY <2>1, RepliesAre
<1>2. <<ErrorLine>> \in Seq(Token)
  BY TokensAre
<1> QED
  BY <1>1, <1>2 DEF Answers

-----------------------------------------------------------------------------
(* Replies of one line.                                                    *)

LEMMA NoneTaken ==
  ASSUME NEW r
  PROVE  ReadReply(r, <<>>).err = "network" /\ ReadReply(r, <<>>).used = 0
<1>1. PICK f : IsReading(f, r, <<>>, 0) /\ f = Reading(r, <<>>)
  <2>1. <<>> \in Seq({}) /\ Len(<<>>) = 0
    OBVIOUS
  <2> QED
    BY <2>1, ReadReplyIs
<1>2. f[0] = Start(r)
  BY <1>1, ReadingUnfolds DEF Unfolds
<1>3. /\ ReadReply(r, <<>>).used = f[0].used
      /\ ReadReply(r, <<>>).err = IF f[0].err = "none" /\ f[0].stack # <<>> THEN "network" ELSE f[0].err
  <2>1. PICK toks : toks = <<>>
    OBVIOUS
  <2>2. toks \in Seq({}) /\ Len(toks) = 0
    BY <2>1
  <2>3. Reading(r, toks)[Len(toks)] = f[0]
    BY <2>1, <2>2, <1>1
  <2>4. /\ ReadReply(r, toks).used = Reading(r, toks)[Len(toks)].used
        /\ ReadReply(r, toks).err = IF Reading(r, toks)[Len(toks)].err = "none" /\ Reading(r, toks)[Len(toks)].stack # <<>>
                                    THEN "network" ELSE Reading(r, toks)[Len(toks)].err
    BY <2>2, ReadReplyIs
  <2> QED
    BY <2>1, <2>3, <2>4, Zenon
<1>4. f[0].err = "none" /\ f[0].stack = <<r>> /\ f[0].used = 0
  BY <1>2 DEF Start
<1>5. <<r>> # <<>>
  OBVIOUS
<1> QED
  BY <1>3, <1>4, <1>5

LEMMA OneTaken ==
  ASSUME NEW r, NEW t, NEW S, Wants(r, t).rest \in Seq(S)
  PROVE  ReadReply(r, <<t>>).err = LET w == Wants(r, t)
                                   IN  IF w.err = "none" /\ w.rest # <<>> THEN "network" ELSE w.err
<1>1. PICK toks : toks = <<t>>
  OBVIOUS
<1>2. toks \in Seq({t}) /\ Len(toks) = 1 /\ toks[1] = t
  BY <1>1
<1>3. PICK f : IsReading(f, r, toks, 1) /\ f = Reading(r, toks)
  <2>1. IsReading(Reading(r, toks), r, toks, 1)
    BY <1>2, ReadReplyIs
  <2> QED
    BY <2>1
<1>4. f[0] = Start(r) /\ f[1] = ReadToken(f[0], t)
  <2>1. Unfolds(f, r, toks, 1)
    BY <1>3, ReadingUnfolds
  <2> QED
    BY <2>1, <1>2 DEF Unfolds
<1>5. ReadReply(r, toks).err = IF f[1].err = "none" /\ f[1].stack # <<>> THEN "network" ELSE f[1].err
  <2>1. Reading(r, toks)[Len(toks)] = f[1]
    BY <1>2, <1>3
  <2>2. ReadReply(r, toks).err = IF Reading(r, toks)[Len(toks)].err = "none" /\ Reading(r, toks)[Len(toks)].stack # <<>>
                                 THEN "network" ELSE Reading(r, toks)[Len(toks)].err
    BY <1>2, ReadReplyIs, ZenonT(60)
  <2> QED
    BY <2>1, <2>2, Zenon
<1>6. f[0].stack = <<r>> /\ f[0].err = "none"
  BY <1>4 DEF Start
<1>7. Head(<<r>>) = r /\ Tail(<<r>>) = <<>> /\ <<r>> # <<>>
  OBVIOUS
<1>8. f[1].err = Wants(r, t).err /\ f[1].stack = Wants(r, t).rest \o <<>>
  BY <1>4, <1>6, <1>7 DEF ReadToken
<1>9. Wants(r, t).rest \o <<>> = Wants(r, t).rest
  OBVIOUS
<1> QED
  BY <1>1, <1>5, <1>8, <1>9

LEMMA OneLine ==
  ASSUME NEW r, NEW t, Wants(r, t).rest = <<>>, Wants(r, t).err # "network"
  PROVE  ReadReply(r, <<t>>).err = Wants(r, t).err /\ ReadsWhole(r, <<t>>)
<1>1. Wants(r, t).rest \in Seq({})
  OBVIOUS
<1>2. ReadReply(r, <<t>>).err = Wants(r, t).err
  BY <1>1, OneTaken
<1>3. <<t>> # <<>> /\ Front(<<t>>) = <<>>
  BY DEF Front
<1>4. ReadReply(r, <<>>).err = "network"
  BY NoneTaken
<1> QED
  BY <1>2, <1>3, <1>4 DEF ReadsWhole

\* Each reader is in one of the tables.
LEMMA ReaderIs ==
  ASSUME NEW r, r # "exec", NEW t,
         NEW rs \in {AnyReplies(t), FlatReplies(t), StringReplies(t), ListReplies(t), NestedReplies(t)},
         r \in DOMAIN rs
  PROVE  Wants(r, t) = rs[r]
<1> DEFINE readers == {AnyReplies(t), FlatReplies(t), StringReplies(t), ListReplies(t), NestedReplies(t)}
<1>1. ASSUME NEW qs \in readers, r \in DOMAIN qs
      PROVE  qs = rs
  <2>1. /\ DOMAIN AnyReplies(t) = {"Cmd", "Slice", "element"}
        /\ DOMAIN FlatReplies(t) = {"Status", "Int", "Duration", "Bool"}
        /\ DOMAIN StringReplies(t) = {"String", "Float", "cursor"}
    BY DEF AnyReplies, FlatReplies, StringReplies
  <2>2. /\ DOMAIN ListReplies(t) = {"StringSlice", "BoolSlice", "StringStringMap", "StringIntMap", "ZSlice"}
        /\ DOMAIN NestedReplies(t) = {"Scan", "ClusterSlot", "slot", "addr", "GeoLocation", "location", "coord"}
    BY DEF ListReplies, NestedReplies
  <2> QED
    BY <2>1, <2>2, <1>1
<1>2. rs = CHOOSE qs \in readers : r \in DOMAIN qs
  BY <1>1
<1> QED
  BY <1>2 DEF Wants

LEMMA StatusWants == Wants("Status", StatusLine) = Ok(<<>>)
<1>1. StatusLine.is = "status"
  BY DEF StatusLine, Line
<1>2. FlatReplies(StatusLine).Status = Ok(<<>>)
  BY <1>1 DEF FlatReplies, ReadString, Unless
<1>3. "Status" \in DOMAIN FlatReplies(StatusLine)
  BY DEF FlatReplies
<1> QED
  BY <1>2, <1>3, ReaderIs

LEMMA ExecWants ==
  /\ Wants("exec", ArrayOf(1)) = Ok(<<>>)
  /\ Wants("exec", NilArrayLine) = Fail("nil")
BY DEF Wants, ReadExec, ArrayOf, NilArrayLine, Line

\* The replies to the commands that Multi adds.
LEMMA SignalsRead ==
  /\ ReadsWhole("Status", <<StatusLine>>) /\ ReadReply("Status", <<StatusLine>>).err = "none"
  /\ ReadsWhole("exec", <<ArrayOf(1)>>) /\ ReadReply("exec", <<ArrayOf(1)>>).err = "none"
  /\ ReadsWhole("exec", <<NilArrayLine>>) /\ ReadReply("exec", <<NilArrayLine>>).err = "nil"
<1>1. /\ Ok(<<>>).rest = <<>> /\ Ok(<<>>).err = "none"
      /\ Fail("nil").rest = <<>> /\ Fail("nil").err = "nil"
  BY DEF Ok, Fail
<1> QED
  BY <1>1, StatusWants, ExecWants, OneLine

-----------------------------------------------------------------------------
(* The calls.                                                              *)

Calls == OneCommand \cup Pipelines \cup Transactions

LEMMA CallsAre ==
  ASSUME NEW c \in Calls
  PROVE  \/ c.kind = "plain" /\ DOMAIN c.cmds = 1 .. 1 /\ c.cmds[1] \in UsedMethods \cup {"WATCH", "UNWATCH"}
         \/ c.kind = "pipeline" /\ DOMAIN c.cmds = 1 .. 2 /\ c.cmds[1] \in PipeMethods /\ c.cmds[2] \in PipeMethods
         \/ /\ c.kind = "multi" /\ DOMAIN c.cmds = 1 .. 4
            /\ c.cmds[1] = "MULTI" /\ c.cmds[2] = "QUEUED" /\ c.cmds[3] = "EXEC" /\ c.cmds[4] \in PipeMethods
<1>1. CASE c \in OneCommand
  <2>1. PICK m \in UsedMethods \cup {"WATCH", "UNWATCH"} : c = [kind |-> "plain", cmds |-> <<m>>]
    BY <1>1 DEF OneCommand
  <2>2. DOMAIN <<m>> = 1 .. 1 /\ <<m>>[1] = m
    OBVIOUS
  <2>3. c.kind = "plain" /\ c.cmds = <<m>>
    BY <2>1
  <2> QED
    BY <2>2, <2>3
<1>2. CASE c \in Pipelines
  <2>1. PICK m1 \in PipeMethods, m2 \in PipeMethods : c = [kind |-> "pipeline", cmds |-> <<m1, m2>>]
    BY <1>2 DEF Pipelines
  <2>2. DOMAIN <<m1, m2>> = 1 .. 2 /\ <<m1, m2>>[1] = m1 /\ <<m1, m2>>[2] = m2
    OBVIOUS
  <2>3. c.kind = "pipeline" /\ c.cmds = <<m1, m2>>
    BY <2>1
  <2> QED
    BY <2>2, <2>3
<1>3. CASE c \in Transactions
  <2>1. PICK m \in PipeMethods : c = [kind |-> "multi", cmds |-> <<"MULTI", "QUEUED", "EXEC", m>>]
    BY <1>3 DEF Transactions
  <2> DEFINE cmds == <<"MULTI", "QUEUED", "EXEC", m>>
  <2>2. DOMAIN cmds = 1 .. 4 /\ cmds[1] = "MULTI" /\ cmds[2] = "QUEUED" /\ cmds[3] = "EXEC" /\ cmds[4] = m
    OBVIOUS
  <2>3. c.kind = "multi" /\ c.cmds = cmds
    BY <2>1
  <2> HIDE DEF cmds
  <2> QED
    BY <2>2, <2>3
<1> QED
  BY <1>1, <1>2, <1>3 DEF Calls

LEMMA OrdersAre ==
  /\ Orders["none"] = {<<>>} /\ Orders["plain"] = {<<1>>, <<>>}
  /\ Orders["pipeline"] = {<<1, 2>>, <<1>>, <<2>>, <<>>}
  /\ Orders["multi"] = {<<1, 2, 3, 4>>, <<2, 3, 4>>, <<3, 4>>, <<4>>, <<>>}
BY DEF Orders

LEMMA TuplesAre ==
  /\ Tail(<<1>>) = <<>> /\ Tail(<<1, 2>>) = <<2>> /\ Tail(<<2>>) = <<>>
  /\ Tail(<<1, 2, 3, 4>>) = <<2, 3, 4>> /\ Tail(<<2, 3, 4>>) = <<3, 4>> /\ Tail(<<3, 4>>) = <<4>> /\ Tail(<<4>>) = <<>>
OBVIOUS

\* is lists numbers up to n.
UpTo(is, n) == is \in Seq(Nat) /\ \A j \in 1 .. Len(is) : is[j] \in 1 .. n

LEMMA ListsUpTo ==
  /\ \A n \in Nat : UpTo(<<>>, n)
  /\ UpTo(<<1>>, 1) /\ UpTo(<<1, 2>>, 2) /\ UpTo(<<1>>, 2) /\ UpTo(<<2>>, 2)
  /\ UpTo(<<1, 2, 3, 4>>, 4) /\ UpTo(<<2, 3, 4>>, 4) /\ UpTo(<<3, 4>>, 4) /\ UpTo(<<4>>, 4)
<1>1. \A n \in Nat : UpTo(<<>>, n)
  BY DEF UpTo
<1>2. UpTo(<<1>>, 1)
  BY DEF UpTo
<1>3. UpTo(<<1, 2>>, 2)
  BY DEF UpTo
<1>4. UpTo(<<1>>, 2)
  BY DEF UpTo
<1>5. UpTo(<<2>>, 2)
  BY DEF UpTo
<1>6. UpTo(<<1, 2, 3, 4>>, 4)
  BY DEF UpTo
<1>7. UpTo(<<2, 3, 4>>, 4)
  BY DEF UpTo
<1>8. UpTo(<<3, 4>>, 4)
  BY DEF UpTo
<1>9. UpTo(<<4>>, 4)
  BY DEF UpTo
<1> QED
  BY <1>1, <1>2, <1>3, <1>4, <1>5, <1>6, <1>7, <1>8, <1>9, Zenon

LEMMA InOrders ==
  ASSUME NEW c \in Calls, NEW is \in Orders[c.kind]
  PROVE  is \in Seq(Nat) /\ \A j \in 1 .. Len(is) : is[j] \in DOMAIN c.cmds
<1>1. CASE c.kind = "plain"
  <2>1. DOMAIN c.cmds = 1 .. 1 /\ is \in {<<1>>, <<>>}
    BY <1>1, CallsAre, OrdersAre
  <2>2. UpTo(is, 1)
    BY <2>1, ListsUpTo
  <2> QED
    BY <2>1, <2>2 DEF UpTo
<1>2. CASE c.kind = "pipeline"
  <2>1. DOMAIN c.cmds = 1 .. 2 /\ is \in {<<1, 2>>, <<1>>, <<2>>, <<>>}
    BY <1>2, CallsAre, OrdersAre
  <2>2. UpTo(is, 2)
    BY <2>1, ListsUpTo
  <2> QED
    BY <2>1, <2>2 DEF UpTo
<1>3. CASE c.kind = "multi"
  <2>1. DOMAIN c.cmds = 1 .. 4 /\ is \in {<<1, 2, 3, 4>>, <<2, 3, 4>>, <<3, 4>>, <<4>>, <<>>}
    BY <1>3, CallsAre, OrdersAre
  <2>2. UpTo(is, 4)
    BY <2>1, ListsUpTo
  <2> QED
    BY <2>1, <2>2 DEF UpTo
<1> QED
  BY <1>1, <1>2, <1>3, CallsAre

\* What is left of an attempt when its first command has been read.
LEMMA OrdersLeft ==
  ASSUME NEW c \in Calls, NEW is \in Orders[c.kind], is # <<>>
  PROVE  /\ Tail(is) \in Orders[c.kind] /\ Len(is) \in Nat \ {0} /\ Len(Tail(is)) = Len(is) - 1
         /\ \A j \in 1 .. Len(is) - 1 : Tail(is)[j] = is[j + 1]
         /\ Head(is) = is[1]
<1>1. c.kind \in {"plain", "pipeline", "multi"}
  BY CallsAre
<1>2. c.kind = "plain" => Tail(is) \in {<<1>>, <<>>}
  BY OrdersAre, TuplesAre, Zenon
<1>3. c.kind = "pipeline" => Tail(is) \in {<<1, 2>>, <<1>>, <<2>>, <<>>}
  BY OrdersAre, TuplesAre, Zenon
<1>4. c.kind = "multi" => Tail(is) \in {<<1, 2, 3, 4>>, <<2, 3, 4>>, <<3, 4>>, <<4>>, <<>>}
  BY OrdersAre, TuplesAre, Zenon
<1>5. Tail(is) \in Orders[c.kind]
  BY <1>1, <1>2, <1>3, <1>4, OrdersAre, Zenon
<1>6. is \in Seq(Nat)
  BY InOrders
<1> QED
  BY <1>5, <1>6

-----------------------------------------------------------------------------
(* Reading the reply of one command.                                       *)

LEMMA SentIs ==
  ASSUME NEW is \in Seq(Nat), NEW k \in 0 .. Len(is), NEW a,
         \A j \in 1 .. k : a[is[j]] \in Seq(Token)
  PROVE  SentOf(is, a, k) \in Seq(Sending)
<1>1. CASE k = 0
  <2>1. <<>> \in Seq(Sending)
    BY ListsOf
  <2> QED
    BY <2>1, <1>1, NothingSent
<1>2. CASE k # 0
  <2>1. k \in 1 .. Len(is)
    BY <1>2
  <2> QED
    BY <2>1, SentUnfolds
<1> QED
  BY <1>1, <1>2

LEMMA RepliesRead ==
  ASSUME Fitting, NEW c \in Calls, NEW i \in DOMAIN c.cmds, NEW s, Answered(c.kind, c.cmds[i], s)
  PROVE  s \in Seq(Token) /\ ReadsWhole(Reader(c.cmds[i]), s)
<1> DEFINE m == c.cmds[i]
<1>1. m \in UsedMethods \cup PipeMethods \cup Signals \cup {"EXEC"}
  BY CallsAre DEF Signals
<1>2. CASE m \in Signals
  <2>1. s = <<StatusLine>> /\ Reader(m) = "Status"
    BY <1>2 DEF Answered, Reader, Signals
  <2>2. <<StatusLine>> \in Seq(Token)
    BY TokensAre, ListsOf
  <2> QED
    BY <2>1, <2>2, SignalsRead
<1>3. CASE m = "EXEC"
  <2>1. s \in {<<ArrayOf(1)>>, <<NilArrayLine>>} /\ Reader(m) = "exec"
    BY <1>3 DEF Answered, Reader, Signals
  <2>2. <<ArrayOf(1)>> \in Seq(Token) /\ <<NilArrayLine>> \in Seq(Token)
    BY TokensAre, ListsOf
  <2> QED
    BY <2>1, <2>2, SignalsRead
<1>4. CASE m \notin Signals \cup {"EXEC"}
  <2>1. m \in UsedMethods \cup PipeMethods /\ m \in Methods
    BY <1>1, <1>4, RedisConnAssumption
  <2>2. s \in Answers(m) /\ Reader(m) = TypeOf[m]
    BY <1>4 DEF Answered, Reader, Signals
  <2>3. Readable(m)
    BY <2>1 DEF Fitting
  <2>4. Answers(m) \subseteq Seq(Token)
    BY <2>1, AnswersAre
  <2> QED
    BY <2>2, <2>3, <2>4 DEF Readable
<1> QED
  BY <1>2, <1>3, <1>4

\* What remains of a sequence when its beginning has been taken.
LEMMA RestOf ==
  ASSUME NEW S, NEW s \in Seq(S), NEW t \in Seq(S), NEW w \in Seq(S), w = s \o t
  PROVE  SubSeq(w, Len(s) + 1, Len(w)) = t
<1>1. PICK n \in Nat : n = Len(s)
  OBVIOUS
<1>2. PICK l \in Nat : l = Len(t)
  OBVIOUS
<1>3. Len(w) = n + l /\ \A j \in 1 .. l : w[n + j] = t[j]
  BY <1>1, <1>2, JoinOf
<1>4. PICK u : u = SubSeq(w, n + 1, Len(w))
  OBVIOUS
<1>5. u \in Seq(S) /\ Len(u) = l /\ \A j \in 1 .. l : u[j] = w[j + n]
  <2>1. n \in 0 .. Len(w) /\ Len(w) - n = l
    BY <1>1, <1>2, <1>3
  <2>2. /\ SubSeq(w, n + 1, Len(w)) \in Seq(S) /\ Len(SubSeq(w, n + 1, Len(w))) = Len(w) - n
        /\ \A j \in 1 .. Len(w) - n : SubSeq(w, n + 1, Len(w))[j] = w[j + n]
    BY <2>1, SuffixOf
  <2> QED
    BY <2>1, <2>2, <1>4
<1>6. \A j \in 1 .. l : u[j] = t[j]
  BY <1>1, <1>2, <1>3, <1>5
<1>7. t = [j \in 1 .. l |-> t[j]]
  BY <1>2
<1>8. u = t
  <2>1. l \in Nat
    BY <1>2
  <2>2. u \in Seq(S) /\ Len(u) = l
    BY <1>5
  <2> QED
    BY <2>1, <2>2, <1>6, <1>7, SameList
<1> QED
  BY <1>1, <1>4, <1>8

\* The reply s of command i, first on the wire w: it is read whole, or not enough
\* of it is there.
ReadWhole(r, i, w, s, rest) ==
  /\ r.err # "network" /\ r.used = Len(s)
  /\ {w[j].of : j \in 1 .. r.used} = {i}
  /\ SubSeq(w, r.used + 1, Len(w)) = rest

ReadInPart(r, i, w, s, avail) ==
  /\ r.err = "network" /\ r.used = avail /\ avail < Len(s)
  /\ avail < Len(w) /\ SubSeq(w, r.used + 1, Len(w))[1].of = i

IsRead(reader, r, i, w, s, rest, avail) ==
  /\ ReadWhole(r, i, w, s, rest) \/ ReadInPart(r, i, w, s, avail)
  /\ r.err # "network" => r.err = ReadReply(reader, s).err

LEMMA OneIsRead ==
  ASSUME NEW i \in Nat, NEW s \in Seq(Token), NEW rest \in Seq(Sending), NEW w, w = Join(Tagged(i, s), rest),
         NEW avail \in 0 .. Len(w), NEW reader, ReadsWhole(reader, s),
         NEW r, r = ReadReply(reader, [j \in 1 .. avail |-> w[j].tok])
  PROVE  IsRead(reader, r, i, w, s, rest, avail)
<1>1. PICK n \in Nat : n = Len(s)
  OBVIOUS
<1>2. PICK t : t = Tagged(i, s)
  OBVIOUS
<1>3. t \in Seq(Sending) /\ Len(t) = n /\ \A l \in 1 .. n : t[l].of = i /\ t[l].tok = s[l]
  BY <1>1, <1>2, TaggedIs
<1>4. PICK l \in Nat : l = Len(rest)
  OBVIOUS
<1>5. /\ w \in Seq(Sending) /\ w = t \o rest /\ Len(w) = n + l
      /\ \A j \in 1 .. n : w[j] = t[j]
  <2>1. w = t \o rest
    BY <1>2 DEF Join
  <2>2. /\ t \o rest \in Seq(Sending) /\ Len(t \o rest) = Len(t) + Len(rest)
        /\ \A j \in 1 .. Len(t) : (t \o rest)[j] = t[j]
    BY <1>3, JoinOf, ZenonT(60)
  <2>3. Len(t) = n /\ Len(rest) = l
    BY <1>3, <1>4
  <2> QED
    BY <2>1, <2>2, <2>3
<1>6. PICK toks : toks = [j \in 1 .. avail |-> w[j].tok]
  OBVIOUS
<1>7. toks \in Seq(Token) /\ Len(toks) = avail /\ \A j \in 1 .. avail : toks[j] = w[j].tok
  <2>1. avail \in Nat /\ \A j \in 1 .. avail : w[j] \in Sending
    BY <1>5
  <2>2. \A x \in Sending : x.tok \in Token
    BY DEF Sending
  <2>3. toks \in [1 .. avail -> Token]
    BY <2>1, <2>2, <1>6
  <2>4. \A j \in 1 .. avail : toks[j] = w[j].tok
    BY <1>6
  <2> QED
    BY <2>1, <2>3, <2>4, ListOf
<1>8. \A j \in 1 .. Len(toks) : j <= Len(s) => toks[j] = s[j]
  <2> SUFFICES ASSUME NEW j \in 1 .. Len(toks), j <= Len(s) PROVE toks[j] = s[j]
    OBVIOUS
  <2>1. j \in 1 .. avail /\ j \in 1 .. n
    BY <1>1, <1>5, <1>7
  <2>2. toks[j] = w[j].tok
    BY <2>1, <1>7
  <2>3. w[j] = t[j]
    BY <2>1, <1>5
  <2>4. t[j].tok = s[j]
    BY <2>1, <1>3
  <2> QED
    BY <2>2, <2>3, <2>4
<1>9. /\ Len(s) \in Nat \ {0}
      /\ Len(s) <= Len(toks) => /\ ReadReply(reader, toks).used = Len(s)
                                /\ ReadReply(reader, toks).err = ReadReply(reader, s).err
                                /\ ReadReply(reader, toks).err # "network"
      /\ Len(toks) < Len(s) => /\ ReadReply(reader, toks).used = Len(toks)
                               /\ ReadReply(reader, toks).err = "network"
  BY <1>7, <1>8, TakesItsOwn
<1>10. r = ReadReply(reader, toks) /\ Len(toks) = avail /\ avail \in Nat
  BY <1>5, <1>6, <1>7
<1>11. CASE n <= avail
  <2>1. r.used = n /\ r.err = ReadReply(reader, s).err /\ r.err # "network" /\ n # 0
    BY <1>1, <1>9, <1>10, <1>11
  <2>2. {w[j].of : j \in 1 .. n} = {i}
    <3>1. \A j \in 1 .. n : w[j].of = i
      BY <1>3, <1>5
    <3>2. 1 \in 1 .. n
      BY <2>1
    <3> QED
      BY <3>1, <3>2
  <2>3. SubSeq(w, n + 1, Len(w)) = rest
    <3>1. SubSeq(w, Len(t) + 1, Len(w)) = rest
      BY <1>3, <1>5, RestOf
    <3> QED
      BY <3>1, <1>3
  <2> QED
    BY <2>1, <2>2, <2>3, <1>1 DEF IsRead, ReadWhole
<1>12. CASE avail < n
  <2>1. r.used = avail /\ r.err = "network"
    BY <1>1, <1>9, <1>10, <1>12
  <2>2. avail < Len(w)
    BY <1>5, <1>10, <1>12
  <2>3. SubSeq(w, avail + 1, Len(w))[1].of = i
    <3>1. avail \in 0 .. Len(w) /\ 1 \in 1 .. Len(w) - avail
      BY <1>5, <1>10, <2>2
    <3>2. SubSeq(w, avail + 1, Len(w))[1] = w[1 + avail]
      BY <3>1, <1>5, SuffixOf
    <3>3. 1 + avail \in 1 .. n
      BY <1>10, <1>12
    <3> QED
      BY <3>2, <3>3, <1>3, <1>5
  <2> QED
    BY <2>1, <2>2, <2>3, <1>1, <1>12 DEF IsRead, ReadInPart
<1> QED
  BY <1>1, <1>10, <1>11, <1>12

-----------------------------------------------------------------------------
(* The invariant is kept: calls.                                           *)

LEMMA CountedUp ==
  ASSUME NEW c \in Calls
  PROVE  [i \in DOMAIN c.cmds |-> i] \in Orders[c.kind] \ {<<>>} /\ (c.kind = "multi" => [i \in DOMAIN c.cmds |-> i] = <<1, 2, 3, 4>>)
<1>1. [i \in 1 .. 1 |-> i] = <<1>> /\ <<1>> # <<>>
  OBVIOUS
<1>2. [i \in 1 .. 2 |-> i] = <<1, 2>> /\ <<1, 2>> # <<>>
  OBVIOUS
<1>3. [i \in 1 .. 4 |-> i] = <<1, 2, 3, 4>> /\ <<1, 2, 3, 4>> # <<>>
  OBVIOUS
<1>4. CASE c.kind = "plain"
  <2>1. DOMAIN c.cmds = 1 .. 1
    BY <1>4, CallsAre
  <2> QED
    BY <2>1, <1>1, <1>4, OrdersAre
<1>5. CASE c.kind = "pipeline"
  <2>1. DOMAIN c.cmds = 1 .. 2
    BY <1>5, CallsAre
  <2> QED
    BY <2>1, <1>2, <1>5, OrdersAre
<1>6. CASE c.kind = "multi"
  <2>1. DOMAIN c.cmds = 1 .. 4
    BY <1>6, CallsAre
  <2> QED
    BY <2>1, <1>3, <1>6, OrdersAre
<1> QED
  BY <1>4, <1>5, <1>6, CallsAre

LEMMA NoCallIs == NoCall.kind = "none" /\ DOMAIN NoCall.cmds = {} /\ NoCall.cmds = <<>>
BY DEF NoCall

LEMMA ConnInitOK == ConnInit => ConnInv
<1> SUFFICES ASSUME ConnInit PROVE ConnInv
  OBVIOUS
<1>1. wire \in Seq(Sending) /\ Len(wire) = 0
  BY DEF ConnInit
<1>2. Exchange
  BY NoCallIs, OrdersAre DEF ConnInit, Exchange
<1>3. TypesOK
  <2>1. buffered \in 0 .. Len(wire)
    BY <1>1 DEF ConnInit
  <2>2. /\ deadline = FALSE /\ watched = FALSE /\ dead = FALSE /\ pc = "idle" /\ tries = 0 /\ faults = 0
        /\ tx = "none"
    BY DEF ConnInit
  <2> QED
    BY <2>1, <2>2, <1>1, <1>2 DEF TypesOK
<1>4. Lent /\ NoNilFirst
  BY NoCallIs DEF ConnInit, Lent, NoNilFirst
<1>5. Quiet /\ Fetching
  BY DEF ConnInit, Quiet, Fetching
<1>6. Own
  <2>1. DOMAIN err = {}
    BY DEF ConnInit
  <2> QED
    BY <2>1 DEF Own
<1> QED
  BY <1>3, <1>4, <1>5, <1>6 DEF ConnInv

\* A call begins on a connection that has nothing pending.
LEMMA BeginOK ==
  ASSUME ConnInv, NEW kind, NEW cmds, [kind |-> kind, cmds |-> cmds] \in Calls, Begin(kind, cmds),
         UNCHANGED <<connection, faults>>, tx' \in {"none", "open", "queueing", "closing"},
         kind = "pipeline" => tx' = "none", kind = "multi" => tx' = "open"
  PROVE  ConnInv'
<1> DEFINE c == [kind |-> kind, cmds |-> cmds]
<1>1. c \in Calls /\ c.kind = kind /\ c.cmds = cmds /\ call' = c
  BY DEF Begin
<1> HIDE DEF c
<1>2. /\ pc = "idle" /\ pc' = "send" /\ tries' = 0
      /\ todo' = [i \in DOMAIN c.cmds |-> i]
      /\ got' = [i \in DOMAIN c.cmds |-> {}] /\ err' = [i \in DOMAIN c.cmds |-> "unread"]
  BY <1>1 DEF Begin
<1>3. UNCHANGED <<wire, buffered, deadline, watched, dead, faults>>
  BY DEF connection
<1>4. Exchange'
  <2>1. todo' \in Orders[call'.kind] /\ todo' # <<>> /\ (call'.kind = "multi" => todo' = <<1, 2, 3, 4>>)
    BY <1>1, <1>2, CountedUp
  <2>2. call' \in OneCommand \cup Pipelines \cup Transactions
    BY <1>1 DEF Calls
  <2>3. DOMAIN got' = DOMAIN call'.cmds /\ DOMAIN err' = DOMAIN call'.cmds
    BY <1>1, <1>2
  <2> QED
    BY <2>1, <2>2, <2>3, <1>2 DEF Exchange
<1>5. TypesOK'
  <2>1. TypesOK
    BY DEF ConnInv
  <2> QED
    BY <2>1, <1>2, <1>3, <1>4 DEF TypesOK
<1>6. Lent'
  BY <1>1 DEF Lent
<1>7. Quiet'
  BY <1>2, <1>3 DEF ConnInv, Quiet
<1>9. \A i \in DOMAIN err' : err'[i] = "unread"
  BY <1>2
<1>8. Fetching'
  BY <1>2, <1>9 DEF Fetching, Unanswered
<1>10. NoNilFirst'
  <2>1. kind = "pipeline" => 1 \in DOMAIN c.cmds
    BY <1>1, CallsAre
  <2> QED
    BY <2>1, <1>1, <1>2, <1>9 DEF NoNilFirst
<1>11. Own'
  BY <1>9 DEF Own
<1> QED
  BY <1>5, <1>6, <1>7, <1>8, <1>10, <1>11 DEF ConnInv

LEMMA CallKinds ==
  /\ \A m \in UsedMethods \cup {"WATCH", "UNWATCH"} : [kind |-> "plain", cmds |-> <<m>>] \in Calls
  /\ \A m1, m2 \in PipeMethods : [kind |-> "pipeline", cmds |-> <<m1, m2>>] \in Calls
  /\ \A m \in PipeMethods : [kind |-> "multi", cmds |-> <<"MULTI", "QUEUED", "EXEC", m>>] \in Calls
<1>1. \A m \in UsedMethods \cup {"WATCH", "UNWATCH"} : [kind |-> "plain", cmds |-> <<m>>] \in OneCommand
  BY DEF OneCommand
<1>2. \A m1, m2 \in PipeMethods : [kind |-> "pipeline", cmds |-> <<m1, m2>>] \in Pipelines
  BY DEF Pipelines
<1>3. \A m \in PipeMethods : [kind |-> "multi", cmds |-> <<"MULTI", "QUEUED", "EXEC", m>>] \in Transactions
  BY DEF Transactions
<1> HIDE DEF OneCommand, Pipelines, Transactions
<1> QED
  BY <1>1, <1>2, <1>3 DEF Calls

LEMMA ProcessOK ==
  ASSUME ConnInv, NEW m \in UsedMethods, Process(m)
  PROVE  ConnInv'
<1>1. Begin("plain", <<m>>) /\ UNCHANGED <<connection, tx, faults>>
  BY DEF Process
<1>2. tx' \in {"none", "open", "queueing", "closing"}
  BY <1>1 DEF ConnInv, TypesOK
<1>3. [kind |-> "plain", cmds |-> <<m>>] \in Calls
  BY CallKinds
<1> QED
  BY <1>1, <1>2, <1>3, BeginOK

LEMMA PipelineOK ==
  ASSUME ConnInv, NEW m1 \in PipeMethods, NEW m2 \in PipeMethods, PipelineExec(m1, m2)
  PROVE  ConnInv'
<1>1. Begin("pipeline", <<m1, m2>>) /\ UNCHANGED <<connection, tx, faults>> /\ tx' = "none"
  BY DEF PipelineExec
<1>2. [kind |-> "pipeline", cmds |-> <<m1, m2>>] \in Calls
  BY CallKinds
<1> QED
  BY <1>1, <1>2, BeginOK

LEMMA WatchOK ==
  ASSUME ConnInv, Watch
  PROVE  ConnInv'
<1>1. Begin("plain", <<"WATCH">>) /\ UNCHANGED <<connection, faults>> /\ tx' = "open"
  BY DEF Watch
<1>2. [kind |-> "plain", cmds |-> <<"WATCH">>] \in Calls
  BY CallKinds
<1> QED
  BY <1>1, <1>2, BeginOK

LEMMA MultiExecOK ==
  ASSUME ConnInv, NEW m \in PipeMethods, MultiExec(m)
  PROVE  ConnInv'
<1> DEFINE cmds == <<"MULTI", "QUEUED", "EXEC", m>>
<1>1. Begin("multi", cmds) /\ UNCHANGED <<connection, faults>> /\ tx' = "open"
  BY DEF MultiExec
<1>2. [kind |-> "multi", cmds |-> cmds] \in Calls
  BY CallKinds
<1> HIDE DEF cmds
<1> QED
  BY <1>1, <1>2, BeginOK

\* Nothing of the exchange is left when the connection is idle.
LEMMA IdleOK ==
  ASSUME ConnInv, pc' = "idle", call' = NoCall, DOMAIN got' = {}, DOMAIN err' = {}, tries' \in Nat,
         todo' = <<>>, wire' = <<>>, buffered' = 0, ~ dead', deadline' \in BOOLEAN, watched' \in BOOLEAN, dead' \in BOOLEAN,
         faults' = faults, tx' \in {"none", "open", "queueing", "closing"}
  PROVE  ConnInv'
<1>1. wire' \in Seq(Sending) /\ Len(wire') = 0
  OBVIOUS
<1>2. Exchange'
  BY NoCallIs, OrdersAre DEF Exchange
<1>3. TypesOK'
  BY <1>1, <1>2 DEF TypesOK, ConnInv
<1>4. Lent' /\ NoNilFirst'
  BY NoCallIs DEF Lent, NoNilFirst
<1>5. Quiet' /\ Fetching'
  BY DEF Quiet, Fetching
<1>6. Own'
  BY DEF Own
<1> QED
  BY <1>3, <1>4, <1>5, <1>6 DEF ConnInv

LEMMA WhileIdle ==
  ASSUME ConnInv, pc = "idle"
  PROVE  /\ todo = <<>> /\ wire = <<>> /\ buffered = 0 /\ ~ dead /\ deadline \in BOOLEAN /\ watched \in BOOLEAN /\ tries \in Nat
         /\ call = NoCall /\ DOMAIN got = {} /\ DOMAIN err = {}
<1>1. wire = <<>> /\ ~ dead
  BY DEF ConnInv, Quiet
<1>2. buffered \in 0 .. Len(wire) /\ Len(<<>>) = 0
  BY DEF ConnInv, TypesOK
<1>3. buffered = 0
  BY <1>1, <1>2
<1>4. Exchange
  BY DEF ConnInv, TypesOK
<1>5. todo = <<>> /\ call = NoCall /\ DOMAIN got = {} /\ DOMAIN err = {}
  BY <1>4, NoCallIs DEF Exchange
<1> QED
  BY <1>1, <1>3, <1>5 DEF ConnInv, TypesOK

LEMMA FunctionFailsOK ==
  ASSUME ConnInv, FunctionFails
  PROVE  ConnInv'
<1>1. /\ pc = "idle" /\ tx' = "queueing" /\ call' = NoCall /\ got' = <<>> /\ err' = <<>>
      /\ UNCHANGED <<wire, buffered, deadline, watched, dead, pc, todo, tries, faults>>
  BY DEF FunctionFails, connection
<1>2. /\ todo = <<>> /\ wire = <<>> /\ buffered = 0 /\ ~ dead /\ deadline \in BOOLEAN /\ watched \in BOOLEAN
      /\ tries \in Nat
  BY <1>1, WhileIdle
<1>3. DOMAIN got' = {} /\ DOMAIN err' = {}
  BY <1>1
<1>4. /\ pc' = "idle" /\ call' = NoCall /\ tries' \in Nat /\ todo' = <<>> /\ wire' = <<>> /\ buffered' = 0 /\ ~ dead'
      /\ deadline' \in BOOLEAN /\ watched' \in BOOLEAN /\ dead' \in BOOLEAN /\ faults' = faults
      /\ tx' \in {"none", "open", "queueing", "closing"}
  <2>1. /\ wire' = wire /\ buffered' = buffered /\ deadline' = deadline /\ watched' = watched /\ dead' = dead
        /\ pc' = pc /\ todo' = todo /\ tries' = tries /\ faults' = faults
    BY <1>1
  <2>2. tx' \in {"none", "open", "queueing", "closing"}
    BY <1>1
  <2>3. wire' = <<>> /\ todo' = <<>>
    BY <2>1, <1>2, Zenon
  <2>4. ~ dead' /\ deadline' \in BOOLEAN /\ watched' \in BOOLEAN /\ dead' \in BOOLEAN
    <3>1. ~ dead /\ deadline \in BOOLEAN /\ watched \in BOOLEAN /\ dead \in BOOLEAN
      BY <1>2 DEF ConnInv, TypesOK
    <3> QED
      BY <3>1, <2>1
  <2>5. pc' = "idle" /\ tries' \in Nat /\ buffered' = 0
    BY <2>1, <1>1, <1>2
  <2> QED
    BY <2>1, <2>2, <2>3, <2>4, <2>5, <1>1, Zenon
<1> QED
  BY <1>3, <1>4, IdleOK

LEMMA MultiCloseOK ==
  ASSUME ConnInv, MultiClose
  PROVE  ConnInv'
<1>1. CASE tx = "open" /\ Begin("plain", <<"UNWATCH">>) /\ tx' = "closing" /\ UNCHANGED <<connection, faults>>
  <2>1. [kind |-> "plain", cmds |-> <<"UNWATCH">>] \in Calls
    BY CallKinds
  <2> QED
    BY <1>1, <2>1, BeginOK
<1>2. CASE /\ tx = "queueing" /\ pc = "idle" /\ tx' = "none"
           /\ UNCHANGED <<connection, pc, call, todo, got, err, tries, faults>>
  <2>1. UNCHANGED <<wire, buffered, deadline, watched, dead>>
    BY <1>2 DEF connection
  <2>2. /\ todo = <<>> /\ wire = <<>> /\ buffered = 0 /\ ~ dead /\ deadline \in BOOLEAN /\ watched \in BOOLEAN
        /\ tries \in Nat /\ call = NoCall /\ DOMAIN got = {} /\ DOMAIN err = {}
    BY <1>2, WhileIdle
  <2>3. /\ pc' = "idle" /\ call' = NoCall /\ DOMAIN got' = {} /\ DOMAIN err' = {} /\ tries' \in Nat /\ todo' = <<>>
        /\ wire' = <<>> /\ buffered' = 0 /\ ~ dead'
        /\ deadline' \in BOOLEAN /\ watched' \in BOOLEAN /\ dead' \in BOOLEAN /\ faults' = faults
        /\ tx' \in {"none", "open", "queueing", "closing"}
    <3>1. /\ wire' = wire /\ buffered' = buffered /\ deadline' = deadline /\ watched' = watched /\ dead' = dead
          /\ pc' = pc /\ call' = call /\ got' = got /\ err' = err /\ todo' = todo /\ tries' = tries /\ faults' = faults
      BY <1>2, <2>1
    <3>2. tx' \in {"none", "open", "queueing", "closing"}
      BY <1>2
    <3>3. wire' = <<>> /\ todo' = <<>> /\ DOMAIN got' = {} /\ DOMAIN err' = {}
      BY <3>1, <2>2, Zenon
    <3>4. ~ dead' /\ deadline' \in BOOLEAN /\ watched' \in BOOLEAN /\ dead' \in BOOLEAN
      <4>1. ~ dead /\ deadline \in BOOLEAN /\ watched \in BOOLEAN /\ dead \in BOOLEAN
        BY <2>2 DEF ConnInv, TypesOK
      <4> QED
        BY <4>1, <3>1
    <3>5. pc' = "idle" /\ tries' \in Nat /\ buffered' = 0 /\ call' = NoCall
      BY <3>1, <1>2, <2>2
    <3> QED
      BY <3>1, <3>2, <3>3, <3>4, <3>5, Zenon
  <2> QED
    BY <2>3, IdleOK
<1> QED
  BY <1>1, <1>2 DEF MultiClose

\* Return leaves the connection as it is, or a new one.
LEMMA ReturnOK ==
  ASSUME ConnInv, Return
  PROVE  ConnInv'
<1>1. /\ pc = "end" /\ pc' = "idle" /\ call' = NoCall /\ got' = <<>> /\ err' = <<>> /\ tries' = 0
      /\ UNCHANGED <<todo, faults>> /\ tx' \in {"none", tx}
  BY DEF Return
<1>2. Replaced \/ UNCHANGED <<wire, buffered, deadline, watched, dead>>
  BY DEF Return, connection
<1>3. wire = <<>> /\ ~ dead
  BY <1>1 DEF ConnInv, Quiet
<1>4. wire' = <<>> /\ buffered' = 0 /\ ~ dead' /\ deadline' \in BOOLEAN /\ watched' \in BOOLEAN /\ dead' \in BOOLEAN
  <2>1. deadline \in BOOLEAN /\ watched \in BOOLEAN /\ dead \in BOOLEAN
    BY DEF ConnInv, TypesOK
  <2>2. buffered \in 0 .. Len(wire) /\ Len(<<>>) = 0
    BY DEF ConnInv, TypesOK
  <2>3. buffered = 0
    BY <2>2, <1>3
  <2>4. CASE Replaced
    BY <2>4, Zenon DEF Replaced
  <2>5. CASE UNCHANGED <<wire, buffered, deadline, watched, dead>>
    BY <2>1, <2>3, <2>5, <1>3, Zenon
  <2> QED
    BY <2>4, <2>5, <1>2
<1>5. todo' = <<>>
  BY <1>1 DEF ConnInv, TypesOK, Exchange
<1>6. tx' \in {"none", "open", "queueing", "closing"}
  BY <1>1 DEF ConnInv, TypesOK
<1>7. DOMAIN got' = {} /\ DOMAIN err' = {} /\ tries' \in Nat
  BY <1>1
<1> QED
  BY <1>1, <1>4, <1>5, <1>6, <1>7, IdleOK

-----------------------------------------------------------------------------
(* The invariant is kept: commands are sent.                               *)

\* While a call is under way.
LEMMA UnderWay ==
  ASSUME ConnInv, pc # "idle"
  PROVE  /\ call \in Calls /\ todo \in Orders[call.kind]
         /\ DOMAIN got = DOMAIN call.cmds /\ DOMAIN err = DOMAIN call.cmds
         /\ todo \in Seq(Nat) /\ \A j \in 1 .. Len(todo) : todo[j] \in DOMAIN call.cmds
<1>1. /\ call \in Calls /\ todo \in Orders[call.kind]
      /\ DOMAIN got = DOMAIN call.cmds /\ DOMAIN err = DOMAIN call.cmds
  BY DEF ConnInv, TypesOK, Exchange, Calls
<1> QED
  BY <1>1, InOrders

LEMMA PlainAnswersFit ==
  ASSUME Fitting, call \in Calls, NEW i \in DOMAIN call.cmds, NEW s \in PlainAnswers(i),
         call.cmds[i] \in UsedMethods \cup PipeMethods \cup {"WATCH", "UNWATCH"}
  PROVE  Answered(call.kind, call.cmds[i], s)
<1>1. PICK m : m = call.cmds[i]
  OBVIOUS
<1>2. CASE m \in {"WATCH", "UNWATCH"}
  BY <1>1, <1>2 DEF PlainAnswers, Answered, Signals
<1>3. CASE m \notin {"WATCH", "UNWATCH"}
  <2>1. m \in Methods
    BY <1>1, <1>3, RedisConnAssumption
  <2>2. m \notin Signals /\ m # "EXEC"
    BY <2>1, MethodNames
  <2>3. "pipelineError" \notin Mishaps
    BY DEF Fitting
  <2>4. s \in Answers(m) /\ (call.kind # "plain" => s # <<ErrorLine>>)
    BY <1>1, <1>3, <2>3, Zenon DEF PlainAnswers
  <2> QED
    BY <1>1, <2>2, <2>4 DEF Answered
<1> QED
  BY <1>2, <1>3

LEMMA AnswersFit ==
  ASSUME Fitting, ConnInv, pc = "send", NEW a \in AllAnswers
  PROVE  \A j \in 1 .. Len(todo) : Replied(call, todo, a, j)
<1>0. /\ call \in Calls /\ \A j \in 1 .. Len(todo) : todo[j] \in DOMAIN call.cmds
      /\ todo \in Seq(Nat)
  BY UnderWay
<1>1. CASE call.kind # "multi"
  <2>1. /\ DOMAIN a = DOMAIN call.cmds
        /\ \A i \in DOMAIN a : (\E k \in DOMAIN todo : todo[k] = i) => a[i] \in PlainAnswers(i)
    BY <1>1 DEF AllAnswers
  <2>5. \A i \in DOMAIN call.cmds : call.cmds[i] \in UsedMethods \cup PipeMethods \cup {"WATCH", "UNWATCH"}
    BY <1>0, <1>1, CallsAre
  <2>6. \A j \in 1 .. Len(todo) : j > 1 => call.cmds[todo[j - 1]] # "EXEC"
    <3>1. \A m \in UsedMethods \cup PipeMethods \cup {"WATCH", "UNWATCH"} : m # "EXEC"
      BY MethodNames, RedisConnAssumption
    <3>2. \A j \in 1 .. Len(todo) : j > 1 => j - 1 \in 1 .. Len(todo)
      BY <1>0
    <3> QED
      BY <3>1, <3>2, <2>5, <1>0
  <2> SUFFICES ASSUME NEW j \in 1 .. Len(todo) PROVE Answered(call.kind, call.cmds[todo[j]], a[todo[j]])
    BY <2>6 DEF Replied
  <2>2. todo[j] \in DOMAIN call.cmds /\ j \in DOMAIN todo
    BY <1>0
  <2>3. a[todo[j]] \in PlainAnswers(todo[j])
    BY <2>1, <2>2
  <2>4. call.cmds[todo[j]] \in UsedMethods \cup PipeMethods \cup {"WATCH", "UNWATCH"}
    BY <2>2, <2>5
  <2> QED
    BY <2>2, <2>3, <2>4, <1>0, PlainAnswersFit
<1>2. CASE call.kind = "multi"
  <2>1. todo = <<1, 2, 3, 4>>
    BY <1>2 DEF ConnInv, TypesOK, Exchange
  <2>2. /\ DOMAIN call.cmds = 1 .. 4 /\ call.cmds[1] = "MULTI" /\ call.cmds[2] = "QUEUED" /\ call.cmds[3] = "EXEC"
        /\ call.cmds[4] \in PipeMethods
    BY <1>0, <1>2, CallsAre
  <2>3. a \in MultiAnswers
    BY <1>2 DEF AllAnswers
  <2>4. /\ a[1] = <<StatusLine>> /\ a[2] = <<StatusLine>>
        /\ \/ a[3] = <<ArrayOf(1)>> /\ a[4] \in PlainAnswers(4)
           \/ a[3] = <<NilArrayLine>> /\ a[4] = <<>>
    <3>1. CASE \E x \in PlainAnswers(4) : a = <<<<StatusLine>>, <<StatusLine>>, <<ArrayOf(1)>>, x>>
      BY <3>1
    <3>2. CASE a = <<<<StatusLine>>, <<StatusLine>>, <<NilArrayLine>>, <<>> >>
      BY <3>2
    <3>3. "multiRejected" \notin Mishaps
      BY DEF Fitting
    <3> QED
      BY <3>1, <3>2, <3>3, <2>3, Zenon DEF MultiAnswers
  <2>5. Len(todo) = 4 /\ todo[1] = 1 /\ todo[2] = 2 /\ todo[3] = 3 /\ todo[4] = 4
    BY <2>1
  <2>6. /\ Answered(call.kind, call.cmds[1], a[1]) /\ Answered(call.kind, call.cmds[2], a[2])
        /\ Answered(call.kind, call.cmds[3], a[3])
    BY <2>2, <2>4 DEF Answered, Signals
  <2>7. a[4] \in PlainAnswers(4) => Answered(call.kind, call.cmds[4], a[4])
    BY <2>2, <1>0, PlainAnswersFit
  <2>10. <<ArrayOf(1)>> # <<NilArrayLine>>
    BY DEF ArrayOf, NilArrayLine, Line
  <2>8. Replied(call, todo, a, 1) /\ Replied(call, todo, a, 2) /\ Replied(call, todo, a, 3)
    BY <2>2, <2>5, <2>6 DEF Replied
  <2>9. Replied(call, todo, a, 4)
    BY <2>2, <2>4, <2>5, <2>7, <2>10 DEF Replied
  <2> QED
    BY <2>5, <2>8, <2>9
<1> QED
  BY <1>1, <1>2

\* What was replied is tokens.
LEMMA RepliedIs ==
  ASSUME Fitting, NEW c \in Calls, NEW is \in Orders[c.kind], NEW a, NEW j \in 1 .. Len(is), Replied(c, is, a, j)
  PROVE  a[is[j]] \in Seq(Token)
<1>1. is[j] \in DOMAIN c.cmds
  BY InOrders
<1>2. <<>> \in Seq(Token)
  BY ListsOf
<1> QED
  BY <1>1, <1>2, RepliesRead DEF Replied

LEMMA SendOK ==
  ASSUME Fitting, ConnInv, Send
  PROVE  ConnInv'
<1>0. pc = "send" /\ pc' = "read" /\ UNCHANGED <<buffered, call, todo, got, err, tries, tx>>
  BY DEF Send
<1>1. PICK a \in AllAnswers, k \in 0 .. Len(todo) :
        /\ k < Len(todo) => dead \/ MayFail
        /\ dead' = (k < Len(todo))
        /\ faults' = IF ~ dead /\ dead' THEN faults + 1 ELSE faults
        /\ wire' = [j \in DOMAIN wire |-> [wire[j] EXCEPT !.of = 0]] \o Sent(a, k)
        /\ watched' = IF k = 0 THEN watched
                      ELSE "WATCH" \in {call.cmds[i] : i \in DOMAIN call.cmds}
                           \/ (watched /\ call.cmds # <<"UNWATCH">> /\ call.kind # "multi")
  BY DEF Send
<1>2. wire = <<>> /\ ~ dead
  BY <1>0 DEF ConnInv, Quiet
<1>3. call \in Calls /\ todo \in Orders[call.kind] /\ todo \in Seq(Nat)
  BY <1>0, UnderWay
<1>4. \A j \in 1 .. Len(todo) : Replied(call, todo, a, j)
  BY <1>0, AnswersFit
<1>5. SentOf(todo, a, k) \in Seq(Sending)
  <2>1. \A j \in 1 .. k : a[todo[j]] \in Seq(Token)
    <3> SUFFICES ASSUME NEW j \in 1 .. k PROVE a[todo[j]] \in Seq(Token)
      OBVIOUS
    <3>1. j \in 1 .. Len(todo)
      BY <1>3
    <3> QED
      BY <3>1, <1>3, <1>4, RepliedIs
  <2> QED
    BY <2>1, <1>3, SentIs
<1>6. wire' = SentOf(todo, a, k)
  <2>1. Sent(a, k) = SentOf(todo, a, k)
    BY DEF Sent, SentOf, Tagged
  <2>2. [j \in DOMAIN wire |-> [wire[j] EXCEPT !.of = 0]] = <<>>
    BY <1>2
  <2>3. wire' = <<>> \o SentOf(todo, a, k)
    BY <1>1, <2>1, <2>2
  <2> QED
    BY <2>3, <1>5
<1>7. dead' => tx = "none"
  BY <1>1, <1>2 DEF MayFail, Fitting
<1>8. Exchange'
  BY <1>0 DEF ConnInv, TypesOK, Exchange
<1>9. TypesOK'
  <2>1. deadline' \in BOOLEAN
    <3>1. deadline \in BOOLEAN
      BY DEF ConnInv, TypesOK
    <3> QED
      BY <3>1, RedisConnAssumption DEF Send
  <2>2. dead' \in BOOLEAN /\ faults' \in Nat
    BY <1>1 DEF ConnInv, TypesOK
  <2>3. watched' \in BOOLEAN
    <3>1. watched \in BOOLEAN
      BY DEF ConnInv, TypesOK
    <3>2. \A p, q \in BOOLEAN : (p \/ q) \in BOOLEAN
      OBVIOUS
    <3>3. (watched /\ call.cmds # <<"UNWATCH">> /\ call.kind # "multi") \in BOOLEAN
      OBVIOUS
    <3>4. ("WATCH" \in {call.cmds[i] : i \in DOMAIN call.cmds}) \in BOOLEAN
      OBVIOUS
    <3> QED
      BY <3>1, <3>2, <3>3, <3>4, <1>1, Zenon
  <2>4. wire' \in Seq(Sending)
    BY <1>5, <1>6
  <2>5. buffered' \in 0 .. Len(wire')
    <3>1. buffered = 0
      <4>1. buffered \in 0 .. Len(<<>>) /\ Len(<<>>) = 0
        BY <1>2 DEF ConnInv, TypesOK
      <4> QED
        BY <4>1
    <3>2. Len(wire') \in Nat
      BY <2>4
    <3> QED
      BY <3>1, <3>2, <1>0
  <2>6. tries' \in Nat /\ tx' \in {"none", "open", "queueing", "closing"}
    BY <1>0 DEF ConnInv, TypesOK
  <2> QED
    BY <2>1, <2>2, <2>3, <2>4, <2>5, <2>6, <1>0, <1>8 DEF TypesOK
<1>10. Lent' /\ NoNilFirst'
  BY <1>0 DEF ConnInv, Lent, NoNilFirst
<1>11. Quiet'
  BY <1>0 DEF Quiet
<1>12. Fetching'
  <2>1. InOrder(a, k)'
    <3>1. dead' <=> k < Len(todo')
      BY <1>0, <1>1
    <3>2. k \in 0 .. Len(todo')
      BY <1>0
    <3>3. \A j \in 1 .. k : Replied(call', todo', a, j)
      <4>1. \A j \in 1 .. k : j \in 1 .. Len(todo)
        BY <1>3
      <4> QED
        BY <4>1, <1>0, <1>4
    <3>4. wire' = SentOf(todo', a, k)
      BY <1>0, <1>6
    <3>5. Unanswered' = {}
      BY <1>0 DEF ConnInv, Fetching, Unanswered
    <3> QED
      BY <3>1, <3>2, <3>3, <3>4, <3>5 DEF InOrder
  <2> QED
    BY <2>1, <1>0, <1>7 DEF Fetching
<1>13. Own'
  BY <1>0 DEF ConnInv, Own, Unanswered
<1> QED
  BY <1>9, <1>10, <1>11, <1>12, <1>13 DEF ConnInv

-----------------------------------------------------------------------------
(* The invariant is kept: a reply is read.                                 *)

\* What Read does, of the avail tokens that have arrived.
ReadsOne(i, r, avail) ==
  /\ todo # <<>> /\ i = todo[1] /\ avail \in buffered .. Len(wire)
  /\ r = ReadReply(Reader(call.cmds[i]), [j \in 1 .. avail |-> wire[j].tok])
  /\ \/ r.err # "network" /\ faults' = faults
     \/ r.err = "network" /\ dead /\ avail = Len(wire) /\ faults' = faults
     \/ r.err = "network" /\ deadline /\ MayFail /\ faults' = faults + 1
  /\ err' = [err EXCEPT ![i] = r.err]
  /\ got' = [got EXCEPT ![i] = {wire[j].of : j \in 1 .. r.used}]
  /\ wire' = SubSeq(wire, r.used + 1, Len(wire))
  /\ buffered' = avail - r.used
  /\ todo' = IF EndsExchange(i) /\ r.err # "none" THEN <<>> ELSE Tail(todo)
  /\ UNCHANGED <<deadline, watched, dead, pc, call, tries, tx>>

LEMMA ReadIs ==
  ASSUME ConnInv, Read
  PROVE  \E i, r, avail : ReadsOne(i, r, avail)
<1>1. pc = "read" /\ todo # <<>>
  BY DEF Read
<1>2. Head(todo) = todo[1]
  BY <1>1, UnderWay, OrdersLeft
<1> QED
  BY <1>1, <1>2 DEF Read, ReadsOne

LEMMA ReadTypesOK ==
  ASSUME ConnInv, pc = "read", NEW i, NEW r, NEW avail, ReadsOne(i, r, avail)
  PROVE  TypesOK' /\ Lent' /\ Quiet'
<1>1. /\ todo # <<>> /\ avail \in buffered .. Len(wire)
      /\ r = ReadReply(Reader(call.cmds[i]), [j \in 1 .. avail |-> wire[j].tok])
      /\ faults' \in {faults, faults + 1}
      /\ wire' = SubSeq(wire, r.used + 1, Len(wire)) /\ buffered' = avail - r.used
      /\ UNCHANGED <<deadline, watched, dead, pc, call, tries, tx>>
  BY DEF ReadsOne
<1>2. TypesOK
  BY DEF ConnInv
<1>3. PICK n \in Nat : n = Len(wire)
  BY <1>2 DEF TypesOK
<1>4. avail \in 0 .. n
  BY <1>1, <1>2, <1>3 DEF TypesOK
<1>5. r.used \in 0 .. avail
  <2>1. PICK toks : toks = [j \in 1 .. avail |-> wire[j].tok]
    OBVIOUS
  <2>2. \A j \in 1 .. avail : wire[j] \in Sending
    BY <1>2, <1>3, <1>4 DEF TypesOK
  <2>3. \A x \in Sending : x.tok \in Token
    BY DEF Sending
  <2>4. toks \in [1 .. avail -> Token]
    BY <2>1, <2>2, <2>3
  <2>5. toks \in Seq(Token) /\ Len(toks) = avail
    BY <2>4, <1>4, ListOf
  <2>6. ReadReply(Reader(call.cmds[i]), toks).used \in 0 .. Len(toks)
    BY <2>5, TakesWhatIsThere
  <2> QED
    BY <2>1, <2>5, <2>6, <1>1
<1>6. wire' \in Seq(Sending) /\ Len(wire') = n - r.used
  <2>1. wire \in Seq(Sending) /\ r.used \in 0 .. Len(wire)
    BY <1>2, <1>3, <1>4, <1>5 DEF TypesOK
  <2>2. SubSeq(wire, r.used + 1, Len(wire)) \in Seq(Sending) /\ Len(SubSeq(wire, r.used + 1, Len(wire))) = Len(wire) - r.used
    BY <2>1, SuffixOf
  <2> QED
    BY <2>2, <1>1, <1>3
<1>7. buffered' \in 0 .. Len(wire')
  <2>1. PICK u \in 0 .. avail : u = r.used
    BY <1>5
  <2>2. avail - u \in 0 .. n - u
    BY <1>4, <2>1
  <2> QED
    BY <2>1, <2>2, <1>1, <1>6, Zenon
<1>8. Exchange'
  <2>1. call \in Calls /\ todo \in Orders[call.kind] /\ Tail(todo) \in Orders[call.kind]
    BY <1>1, UnderWay, OrdersLeft
  <2>2. <<>> \in Orders[call.kind]
    BY <2>1, CallsAre, OrdersAre
  <2>3. todo' \in Orders[call.kind]
    BY <2>1, <2>2 DEF ReadsOne
  <2>4. DOMAIN got' = DOMAIN got /\ DOMAIN err' = DOMAIN err
    BY DEF ReadsOne
  <2> QED
    BY <2>3, <2>4, <1>1, <1>2 DEF TypesOK, Exchange
<1>9. faults' \in Nat
  BY <1>1, <1>2 DEF TypesOK
<1>10. TypesOK'
  BY <1>1, <1>2, <1>6, <1>7, <1>8, <1>9 DEF TypesOK
<1>11. Lent' /\ Quiet'
  BY <1>1 DEF ConnInv, Lent, Quiet
<1> QED
  BY <1>10, <1>11

\* A reply is missed: the connection is lost.
LEMMA MissedOK ==
  ASSUME ConnInv, pc = "read", NEW i, NEW r, NEW avail, ReadsOne(i, r, avail), r.err = "network",
         dead => tx = "none", "multiNetwork" \notin Mishaps,
         wire' = <<>> \/ wire'[1].of = i
  PROVE  ConnInv'
<1>1. /\ todo # <<>> /\ i = todo[1] /\ (dead \/ MayFail)
      /\ err' = [err EXCEPT ![i] = "network"]
      /\ todo' = IF EndsExchange(i) THEN <<>> ELSE Tail(todo)
      /\ UNCHANGED <<pc, call, tries, tx, dead>>
  BY DEF ReadsOne
<1>2. tx = "none"
  BY <1>1 DEF MayFail
<1>3. /\ call \in Calls /\ todo \in Orders[call.kind] /\ DOMAIN err = DOMAIN call.cmds
  BY UnderWay
<1>4. call.kind # "multi"
  BY <1>2 DEF ConnInv, Lent
<1>5. todo' = Tail(todo)
  BY <1>1, <1>4 DEF EndsExchange
<1>6. CASE call.kind = "plain"
  <2>1. todo = <<1>> /\ i = 1 /\ DOMAIN err = 1 .. 1
    <3>1. todo = <<1>>
      <4>1. todo # <<>>
        BY <1>1
      <4> QED
        BY <4>1, <1>3, <1>6, OrdersAre, Zenon
    <3>2. DOMAIN err = 1 .. 1
      BY <1>3, <1>6, CallsAre
    <3> QED
      BY <3>1, <3>2, <1>1
  <2>2. todo' = <<>>
    BY <2>1, <1>5, TuplesAre
  <2>3. err'[1] = "network" /\ DOMAIN err' = 1 .. 1
    BY <2>1, <1>1
  <2>4. Late'
    BY <2>2, <2>3, <1>1, <1>2 DEF Late
  <2>5. NoNilFirst' /\ Own'
    BY <2>3, <1>1, <1>6 DEF NoNilFirst, Own
  <2> QED
    BY <2>4, <2>5, <1>1, <1>2, ReadTypesOK DEF ConnInv, Fetching
<1>7. CASE call.kind = "pipeline"
  <2>1. DOMAIN err = 1 .. 2
    BY <1>3, <1>7, CallsAre
  <2>2. \/ todo = <<1, 2>> /\ i = 1
        \/ todo = <<1>> /\ i = 1
        \/ todo = <<2>> /\ i = 2
    <3>1. todo \in {<<1, 2>>, <<1>>, <<2>>}
      <4>1. todo # <<>>
        BY <1>1
      <4> QED
        BY <4>1, <1>3, <1>7, OrdersAre, Zenon
    <3> QED
      BY <3>1, <1>1
  <2>3. DOMAIN err' = 1 .. 2 /\ err'[i] = "network" /\ (i = 2 => err'[1] = err[1])
    BY <2>1, <2>2, <1>1
  <2>4. i = 2 => err'[1] \notin {"nil", "redis"}
    BY <2>3, <1>7 DEF ConnInv, NoNilFirst
  <2>5. \A j \in DOMAIN err' : j < i => err'[j] \notin {"nil", "redis"}
    <3>1. \A j \in 1 .. 2 : j < i => j = 1 /\ i = 2
      BY <2>2
    <3> QED
      BY <3>1, <2>3, <2>4
  <2>6. todo' # <<>> => todo' = <<2>> /\ i = 1
    BY <2>2, <1>5, TuplesAre
  <2>7. Late'
    <3>1. \E l \in DOMAIN err' : err'[l] = "network" /\ \A j \in DOMAIN err' : j < l => err'[j] \notin {"nil", "redis"}
      BY <2>2, <2>3, <2>5
    <3>2. todo' # <<>> => err'[1] = "network" /\ (wire' = <<>> \/ wire'[1].of = 1)
      BY <2>3, <2>6
    <3> QED
      BY <3>1, <3>2, <2>6, <1>1, <1>2, <1>7 DEF Late
  <2>8. NoNilFirst'
    BY <2>2, <2>3, <2>4 DEF NoNilFirst
  <2>9. Own'
    BY <2>2, <2>3, <1>1, <1>7 DEF Own, Unanswered
  <2> QED
    BY <2>7, <2>8, <2>9, <1>1, <1>2, ReadTypesOK DEF ConnInv, Fetching
<1> QED
  BY <1>3, <1>4, <1>6, <1>7, CallsAre

\* A pipeline goes on though a reply was missed.
LEMMA LateReadOK ==
  ASSUME ConnInv, pc = "read", NEW i, NEW r, NEW avail, ReadsOne(i, r, avail), Late, dead => tx = "none"
  PROVE  ConnInv'
<1>1. /\ todo # <<>> /\ i = todo[1] /\ err' = [err EXCEPT ![i] = r.err]
      /\ todo' \in {<<>>, Tail(todo)}
      /\ UNCHANGED <<pc, call, tries, tx, dead>>
  BY DEF ReadsOne
<1>2. tx = "none" /\ call.kind = "pipeline" /\ todo = <<2>> /\ err[1] = "network"
  BY <1>1 DEF Late
<1>3. DOMAIN err = 1 .. 2
  BY <1>2, UnderWay, CallsAre
<1>4. i = 2 /\ todo' = <<>>
  <2>1. <<2>>[1] = 2
    OBVIOUS
  <2> QED
    BY <2>1, <1>1, <1>2, TuplesAre
<1>5. DOMAIN err' = 1 .. 2 /\ err'[1] = "network"
  BY <1>1, <1>2, <1>3, <1>4
<1>6. Late'
  <2>1. \A j \in DOMAIN err' : ~ (j < 1)
    BY <1>5
  <2> QED
    BY <2>1, <1>1, <1>2, <1>4, <1>5 DEF Late
<1>7. NoNilFirst' /\ Own'
  BY <1>1, <1>2, <1>5 DEF NoNilFirst, Own, Unanswered
<1> QED
  BY <1>1, <1>2, <1>6, <1>7, ReadTypesOK DEF ConnInv, Fetching

\* The errors of the replies to what Multi adds.
LEMMA SignalErrors ==
  ASSUME NEW kind, NEW m \in Signals \cup {"EXEC"}, NEW s, Answered(kind, m, s)
  PROVE  /\ m # "EXEC" => ReadReply(Reader(m), s).err = "none"
         /\ m = "EXEC" => ReadReply(Reader(m), s).err = IF s = <<NilArrayLine>> THEN "nil" ELSE "none"
<1>1. CASE m \in Signals
  <2>1. s = <<StatusLine>> /\ Reader(m) = "Status" /\ m # "EXEC"
    BY <1>1 DEF Answered, Reader, Signals
  <2> QED
    BY <2>1, SignalsRead
<1>2. CASE m = "EXEC"
  <2>1. Reader(m) = "exec" /\ s \in {<<ArrayOf(1)>>, <<NilArrayLine>>}
    BY <1>2 DEF Answered, Reader, Signals
  <2> QED
    BY <2>1, <1>2, SignalsRead
<1> QED
  BY <1>1, <1>2

\* The reply of an aborted transaction ends it, and nothing comes after it.
LEMMA AbortedOK ==
  ASSUME ConnInv, pc = "read", NEW a, NEW k, InOrder(a, k), k # 0, ~ dead,
         call.kind = "multi", call.cmds[todo[1]] = "EXEC", a[todo[1]] = <<NilArrayLine>>
  PROVE  SentOf(Tail(todo), a, k - 1) = <<>>
<1>1. call \in Calls /\ todo \in Orders[call.kind]
  BY UnderWay
<1>2. /\ call.cmds[1] # "EXEC" /\ call.cmds[2] # "EXEC" /\ call.cmds[3] = "EXEC" /\ call.cmds[4] # "EXEC"
  BY <1>1, CallsAre, MethodNames, RedisConnAssumption
<1>3. k = Len(todo) /\ \A j \in 1 .. k : Replied(call, todo, a, j)
  <2>1. todo \in Seq(Nat)
    BY UnderWay
  <2> QED
    BY <2>1 DEF InOrder
<1>4. todo = <<3, 4>>
  <2>1. todo \in {<<1, 2, 3, 4>>, <<2, 3, 4>>, <<3, 4>>, <<4>>, <<>>}
    BY <1>1, OrdersAre
  <2>2. todo # <<>>
    BY <1>3
  <2>3. todo # <<1, 2, 3, 4>> /\ todo # <<2, 3, 4>> /\ todo # <<4>>
    <3>1. <<1, 2, 3, 4>>[1] = 1 /\ <<2, 3, 4>>[1] = 2 /\ <<4>>[1] = 4
      OBVIOUS
    <3> QED
      BY <3>1, <1>2, Zenon
  <2> QED
    BY <2>1, <2>2, <2>3, Zenon
<1>5. k = 2 /\ todo[1] = 3 /\ todo[2] = 4
  BY <1>3, <1>4
<1>6. a[4] = <<>>
  <2>1. Replied(call, todo, a, 2)
    BY <1>3, <1>5
  <2>2. 2 > 1 /\ 2 - 1 = 1
    OBVIOUS
  <2> QED
    BY <2>1, <2>2, <1>5 DEF Replied
<1>7. SentOf(<<4>>, a, 1) = <<>>
  <2>1. PICK is : is = <<4>>
    OBVIOUS
  <2>2. is \in Seq(Nat) /\ 1 \in 1 .. Len(is) /\ is[1] = 4 /\ Tail(is) = <<>>
    BY <2>1
  <2>3. \A j \in 1 .. 1 : a[is[j]] \in Seq(Token)
    <3>1. <<>> \in Seq(Token)
      BY ListsOf
    <3>2. a[is[1]] \in Seq(Token)
      BY <3>1, <2>2, <1>6, Zenon
    <3>3. \A j \in 1 .. 1 : j = 1
      OBVIOUS
    <3> QED
      BY <3>2, <3>3, Zenon
  <2>4. SentOf(is, a, 1) = Join(Tagged(is[1], a[is[1]]), SentOf(Tail(is), a, 1 - 1))
    BY <2>2, <2>3, SentUnfolds
  <2>5. SentOf(Tail(is), a, 1 - 1) = <<>>
    BY NothingSent
  <2>6. Tagged(4, <<>>) = <<>>
    BY DEF Tagged
  <2>7. Join(<<>>, <<>>) = <<>>
    BY DEF Join
  <2> QED
    BY <2>1, <2>2, <2>4, <2>5, <2>6, <2>7, <1>6
<1> QED
  BY <1>4, <1>5, <1>7, TuplesAre

\* A reply is read whole.
LEMMA WholeOK ==
  ASSUME Fitting, ConnInv, pc = "read", NEW i, NEW r, NEW avail, ReadsOne(i, r, avail), dead => tx = "none",
         NEW a, NEW k, InOrder(a, k), k # 0,
         ReadWhole(r, i, wire, a[i], SentOf(Tail(todo), a, k - 1)),
         r.err = ReadReply(Reader(call.cmds[i]), a[i]).err
  PROVE  ConnInv'
<1>1. /\ todo # <<>> /\ i = todo[1]
      /\ err' = [err EXCEPT ![i] = r.err]
      /\ got' = [got EXCEPT ![i] = {wire[j].of : j \in 1 .. r.used}]
      /\ wire' = SubSeq(wire, r.used + 1, Len(wire))
      /\ todo' = IF EndsExchange(i) /\ r.err # "none" THEN <<>> ELSE Tail(todo)
      /\ UNCHANGED <<pc, call, tries, tx, dead>>
  BY DEF ReadsOne
<1>2. /\ call \in Calls /\ todo \in Orders[call.kind] /\ todo \in Seq(Nat)
      /\ DOMAIN err = DOMAIN call.cmds /\ DOMAIN got = DOMAIN call.cmds
      /\ \A j \in 1 .. Len(todo) : todo[j] \in DOMAIN call.cmds
  BY UnderWay
<1>3. Len(todo) \in Nat \ {0} /\ Len(Tail(todo)) = Len(todo) - 1 /\ \A j \in 1 .. Len(todo) - 1 : Tail(todo)[j] = todo[j + 1]
  BY <1>1, <1>2, OrdersLeft
<1>4. /\ Unanswered = {} /\ k \in 1 .. Len(todo) /\ (dead <=> k < Len(todo))
      /\ \A j \in 1 .. k : Replied(call, todo, a, j)
  BY <1>3 DEF InOrder
<1>5. i \in DOMAIN call.cmds
  BY <1>1, <1>2, <1>3
<1>6. r.err # "network" /\ got'[i] = {i} /\ err'[i] = r.err /\ wire' = SentOf(Tail(todo), a, k - 1)
  BY <1>1, <1>2, <1>5 DEF ReadWhole
<1>7. \A j \in DOMAIN call.cmds \ {i} : err'[j] = err[j] /\ got'[j] = got[j]
  BY <1>1, <1>2
<1>8. DOMAIN err' = DOMAIN err
  BY <1>1
<1>9. Unanswered' = {}
  BY <1>2, <1>4, <1>6, <1>7, <1>8 DEF Unanswered
<1>10. Own'
  <2>1. CASE call.kind = "pipeline" /\ tries > 0
    BY <2>1, <1>1 DEF Own
  <2>2. CASE \A j \in DOMAIN err : err[j] = "none" => got[j] = {j}
    BY <2>2, <1>2, <1>6, <1>7, <1>8 DEF Own
  <2> QED
    BY <2>1, <2>2, <1>4 DEF ConnInv, Own
<1>11. Answered(call.kind, call.cmds[i], a[i])
  <2>1. Replied(call, todo, a, 1)
    BY <1>3, <1>4
  <2> QED
    BY <2>1, <1>1 DEF Replied
<1>12. NoNilFirst'
  <2> SUFFICES ASSUME call.kind = "pipeline" PROVE err'[1] \notin {"nil", "redis"}
    BY <1>1 DEF NoNilFirst
  <2>1. 1 \in DOMAIN call.cmds
    BY <1>2, CallsAre
  <2>2. CASE i = 1
    <3>1. call.cmds[i] \in PipeMethods /\ call.cmds[i] \in Methods
      BY <2>2, <1>2, CallsAre, RedisConnAssumption
    <3>2. call.cmds[i] \notin Signals /\ call.cmds[i] # "EXEC"
      BY <3>1, MethodNames
    <3>3. a[i] \in Answers(call.cmds[i]) \ {<<ErrorLine>>}
      BY <3>2, <1>11 DEF Answered
    <3>4. Reader(call.cmds[i]) = TypeOf[call.cmds[i]]
      BY <3>2 DEF Reader, Signals
    <3> QED
      BY <3>1, <3>3, <3>4, <2>2, <1>6 DEF Fitting, NeverNil
  <2>3. CASE i # 1
    BY <2>1, <2>3, <1>7 DEF ConnInv, NoNilFirst
  <2> QED
    BY <2>2, <2>3
<1>13. TypesOK' /\ Lent' /\ Quiet'
  BY ReadTypesOK
<1>14. CASE EndsExchange(i) /\ r.err # "none"
  <2>1. call.kind = "multi" /\ call.cmds[i] \in {"MULTI", "QUEUED", "EXEC"}
    BY <1>14 DEF EndsExchange
  <2>2. call.cmds[i] = "EXEC" /\ a[i] = <<NilArrayLine>>
    BY <2>1, <1>11, <1>14, SignalErrors DEF Signals
  <2>3. ~ dead
    BY <2>1 DEF ConnInv, Lent
  <2>4. wire' = <<>>
    BY <2>1, <2>2, <2>3, <1>1, <1>6, AbortedOK
  <2>5. todo' = <<>>
    BY <1>1, <1>14
  <2>6. InOrder(a, 0)'
    <3>1. wire' = SentOf(todo', a, 0)
      BY <2>4, NothingSent
    <3>2. Len(todo') = 0
      BY <2>5
    <3>3. ~ dead'
      BY <2>3, <1>1
    <3> QED
      BY <3>1, <3>2, <3>3, <1>9 DEF InOrder
  <2> QED
    BY <2>6, <1>1, <1>10, <1>12, <1>13 DEF ConnInv, Fetching
<1>15. CASE ~ (EndsExchange(i) /\ r.err # "none")
  <2>1. todo' = Tail(todo)
    BY <1>1, <1>15
  <2>2. ~ (call.cmds[i] = "EXEC" /\ a[i] = <<NilArrayLine>>)
    <3> SUFFICES ASSUME call.cmds[i] = "EXEC", a[i] = <<NilArrayLine>> PROVE FALSE
      OBVIOUS
    <3>1. r.err = "nil"
      BY <1>11, SignalErrors
    <3>2. call.kind = "multi"
      <4>1. \A m \in UsedMethods \cup PipeMethods : m # "EXEC"
        BY MethodNames, RedisConnAssumption
      <4> QED
        BY <4>1, <1>2, <1>5, CallsAre
    <3> QED
      BY <3>1, <3>2, <1>15 DEF EndsExchange
  <2>3. \A j \in 1 .. k - 1 : Replied(call, Tail(todo), a, j)
    <3> SUFFICES ASSUME NEW j \in 1 .. k - 1 PROVE Replied(call, Tail(todo), a, j)
      OBVIOUS
    <3>1. j \in 1 .. Len(todo) - 1 /\ j + 1 \in 1 .. k /\ j + 1 > 1 /\ j + 1 - 1 = j
      BY <1>3, <1>4
    <3>2. Replied(call, todo, a, j + 1)
      BY <3>1, <1>4
    <3>3. Tail(todo)[j] = todo[j + 1]
      BY <3>1, <1>3
    <3>4. CASE j = 1
      <4>1. Answered(call.kind, call.cmds[todo[2]], a[todo[2]])
        BY <3>2, <3>4, <2>2, <1>1 DEF Replied
      <4>2. Tail(todo)[1] = todo[2]
        <5>1. j + 1 = 2
          BY <3>4
        <5> QED
          BY <5>1, <3>3, <3>4, Zenon
      <4> QED
        <5>1. ~ (j > 1)
          BY <3>4
        <5> QED
          BY <4>1, <4>2, <5>1, <3>4, Zenon DEF Replied
    <3>5. CASE j # 1
      <4>1. j > 1 /\ j - 1 \in 1 .. Len(todo) - 1 /\ j - 1 + 1 = j
        BY <3>1, <3>5
      <4>2. Tail(todo)[j - 1] = todo[j]
        <5>1. Tail(todo)[j - 1] = todo[j - 1 + 1]
          BY <4>1, <1>3, Zenon
        <5> QED
          BY <5>1, <4>1, Zenon
      <4>3. IF call.cmds[todo[j]] = "EXEC" /\ a[todo[j]] = <<NilArrayLine>>
            THEN a[todo[j + 1]] = <<>>
            ELSE Answered(call.kind, call.cmds[todo[j + 1]], a[todo[j + 1]])
        <5>1. PICK n : n = j + 1
          OBVIOUS
        <5>2. n > 1 /\ n - 1 = j
          BY <5>1, <3>1
        <5> QED
          BY <5>1, <5>2, <3>2, Zenon DEF Replied
      <4>4. IF j > 1 /\ call.cmds[Tail(todo)[j - 1]] = "EXEC" /\ a[Tail(todo)[j - 1]] = <<NilArrayLine>>
            THEN a[Tail(todo)[j]] = <<>>
            ELSE Answered(call.kind, call.cmds[Tail(todo)[j]], a[Tail(todo)[j]])
        BY <4>1, <4>2, <4>3, <3>3, Zenon
      <4> QED
        BY <4>4 DEF Replied
    <3> QED
      BY <3>4, <3>5
  <2>4. k - 1 \in 0 .. Len(todo') /\ (dead' <=> k - 1 < Len(todo'))
    BY <2>1, <1>1, <1>3, <1>4
  <2>5. InOrder(a, k - 1)'
    BY <2>1, <2>3, <2>4, <1>1, <1>6, <1>9 DEF InOrder
  <2> QED
    BY <2>5, <1>1, <1>10, <1>12, <1>13 DEF ConnInv, Fetching
<1> QED
  BY <1>14, <1>15

\* The connection is lost already, the reply is missed, or it is read whole.
Missed(i, r) == r.err = "network" /\ (wire' = <<>> \/ wire'[1].of = i)

ReadFirst(i, r, a, k) ==
  /\ InOrder(a, k) /\ k # 0 /\ Answered(call.kind, call.cmds[i], a[i])
  /\ ReadWhole(r, i, wire, a[i], SentOf(Tail(todo), a, k - 1))
  /\ r.err = ReadReply(Reader(call.cmds[i]), a[i]).err

LEMMA ReadCases ==
  ASSUME Fitting, ConnInv, pc = "read", NEW i, NEW r, NEW avail, ReadsOne(i, r, avail)
  PROVE  Late \/ Missed(i, r) \/ \E a, k : ReadFirst(i, r, a, k)
<1>3. (dead => tx = "none") /\ ((\E a, k : InOrder(a, k)) \/ Late)
  BY DEF ConnInv, Fetching
<1>5. /\ call \in Calls /\ todo \in Orders[call.kind] /\ todo \in Seq(Nat)
      /\ \A j \in 1 .. Len(todo) : todo[j] \in DOMAIN call.cmds
  BY UnderWay
<1>6. /\ todo # <<>> /\ i = todo[1] /\ avail \in buffered .. Len(wire)
      /\ r = ReadReply(Reader(call.cmds[i]), [j \in 1 .. avail |-> wire[j].tok])
      /\ wire' = SubSeq(wire, r.used + 1, Len(wire))
  BY DEF ReadsOne
<1>7. wire \in Seq(Sending) /\ avail \in 0 .. Len(wire)
  BY <1>6, SMTT(60) DEF ConnInv, TypesOK
<1>9. ASSUME NEW a, NEW k, InOrder(a, k)
      PROVE  Missed(i, r) \/ ReadFirst(i, r, a, k)
  <2>1. CASE k = 0
    <3>1. wire = <<>>
      BY <1>9, <2>1, NothingSent DEF InOrder
    <3>2. r = ReadReply(Reader(call.cmds[i]), <<>>)
      <4>1. avail = 0
        BY <3>1, <1>7
      <4>2. [j \in 1 .. 0 |-> wire[j].tok] = <<>>
        OBVIOUS
      <4> QED
        BY <4>1, <4>2, <1>6, Zenon
    <3>3. r.err = "network" /\ r.used = 0
      BY <3>2, NoneTaken
    <3>4. wire' = <<>>
      BY <3>1, <3>3, <1>6
    <3> QED
      BY <3>3, <3>4 DEF Missed
  <2>2. CASE k # 0
    <3>1. Len(todo) \in Nat \ {0} /\ Tail(todo) \in Orders[call.kind]
      BY <1>5, <1>6, OrdersLeft
    <3>2. /\ k \in 1 .. Len(todo) /\ wire = SentOf(todo, a, k)
          /\ \A j \in 1 .. k : Replied(call, todo, a, j)
      BY <1>9, <2>2, <3>1 DEF InOrder
    <3>3. \A j \in 1 .. k : a[todo[j]] \in Seq(Token)
      <4> SUFFICES ASSUME NEW j \in 1 .. k PROVE a[todo[j]] \in Seq(Token)
        OBVIOUS
      <4>1. j \in 1 .. Len(todo) /\ Replied(call, todo, a, j)
        BY <3>1, <3>2
      <4> QED
        BY <4>1, <1>5, RepliedIs
    <3>4. wire = Join(Tagged(i, a[i]), SentOf(Tail(todo), a, k - 1))
      BY <3>2, <3>3, <1>5, <1>6, SentUnfolds
    <3>5. SentOf(Tail(todo), a, k - 1) \in Seq(Sending)
      <4>1. PICK is : is = Tail(todo)
        OBVIOUS
      <4>2. is \in Seq(Nat) /\ Len(is) = Len(todo) - 1 /\ \A j \in 1 .. Len(todo) - 1 : is[j] = todo[j + 1]
        BY <4>1, <1>5, <1>6, OrdersLeft, InOrders
      <4>3. k - 1 \in 0 .. Len(is)
        BY <4>2, <3>1, <3>2
      <4>4. \A j \in 1 .. k - 1 : a[is[j]] \in Seq(Token)
        <5> SUFFICES ASSUME NEW j \in 1 .. k - 1 PROVE a[is[j]] \in Seq(Token)
          OBVIOUS
        <5>1. j \in 1 .. Len(todo) - 1 /\ j + 1 \in 1 .. k
          BY <3>1, <3>2
        <5>2. is[j] = todo[j + 1]
          BY <5>1, <4>2
        <5> QED
          BY <5>1, <5>2, <3>3
      <4>5. PICK n : n = k - 1
        OBVIOUS
      <4>6. SentOf(is, a, n) \in Seq(Sending)
        BY <4>2, <4>3, <4>4, <4>5, SentIs
      <4> QED
        BY <4>1, <4>5, <4>6
    <3>6. Answered(call.kind, call.cmds[i], a[i])
      <4>1. Replied(call, todo, a, 1)
        BY <3>2
      <4>2. ~ (1 > 1)
        OBVIOUS
      <4>3. Answered(call.kind, call.cmds[todo[1]], a[todo[1]])
        BY <4>1, <4>2 DEF Replied
      <4> QED
        BY <4>3, <1>6
    <3>7. i \in DOMAIN call.cmds /\ i \in Nat
      BY <3>1, <1>5, <1>6
    <3>8. a[i] \in Seq(Token) /\ ReadsWhole(Reader(call.cmds[i]), a[i])
      BY <3>6, <3>7, <1>5, RepliesRead
    <3>9. PICK rest : rest = SentOf(Tail(todo), a, k - 1)
      OBVIOUS
    <3>10. PICK s : s = a[i]
      OBVIOUS
    <3>11. PICK reader : reader = Reader(call.cmds[i])
      OBVIOUS
    <3>12. /\ rest \in Seq(Sending) /\ s \in Seq(Token) /\ wire = Join(Tagged(i, s), rest)
           /\ ReadsWhole(reader, s) /\ r = ReadReply(reader, [j \in 1 .. avail |-> wire[j].tok])
           /\ avail \in 0 .. Len(wire) /\ i \in Nat
      BY <3>4, <3>5, <3>7, <3>8, <3>9, <3>10, <3>11, <1>6, <1>7
    <3>13. /\ ReadWhole(r, i, wire, s, rest) \/ ReadInPart(r, i, wire, s, avail)
           /\ r.err # "network" => r.err = ReadReply(reader, s).err
      <4>1. IsRead(reader, r, i, wire, s, rest, avail)
        BY <3>12, OneIsRead
      <4> QED
        BY <4>1 DEF IsRead
    <3>14. CASE ReadWhole(r, i, wire, s, rest)
      <4>1. ReadWhole(r, i, wire, a[i], SentOf(Tail(todo), a, k - 1)) /\ r.err = ReadReply(Reader(call.cmds[i]), a[i]).err
        BY <3>9, <3>10, <3>11, <3>13, <3>14 DEF ReadWhole
      <4> QED
        BY <4>1, <3>6, <2>2, <1>9 DEF ReadFirst
    <3>15. CASE ReadInPart(r, i, wire, s, avail)
      <4>1. r.err = "network" /\ wire'[1].of = i
        BY <3>15, <1>6 DEF ReadInPart
      <4> QED
        BY <4>1 DEF Missed
    <3> QED
      BY <3>13, <3>14, <3>15
  <2> QED
    BY <2>1, <2>2
<1> QED
  BY <1>3, <1>9

LEMMA ReadOK ==
  ASSUME Fitting, ConnInv, Read
  PROVE  ConnInv'
<1>1. PICK i, r, avail : ReadsOne(i, r, avail)
  BY ReadIs
<1>2. pc = "read"
  BY DEF Read
<1>3. dead => tx = "none"
  BY <1>2 DEF ConnInv, Fetching
<1>4. "multiNetwork" \notin Mishaps
  BY DEF Fitting
<1>5. CASE Late
  BY <1>1, <1>2, <1>3, <1>5, LateReadOK
<1>6. CASE Missed(i, r)
  BY <1>1, <1>2, <1>3, <1>4, <1>6, MissedOK DEF Missed
<1>7. ASSUME NEW a, NEW k, ReadFirst(i, r, a, k)
      PROVE  ConnInv'
  BY <1>1, <1>2, <1>3, <1>7, WholeOK DEF ReadFirst
<1> QED
  BY <1>1, <1>2, <1>5, <1>6, <1>7, ReadCases

-----------------------------------------------------------------------------
(* The invariant is kept: the end of an attempt.                           *)

\* After a reply was missed the connection is bad.
LEMMA LateIsBad ==
  ASSUME ConnInv, pc = "read", Late
  PROVE  IsBad(FirstErr)
<1>1. PICK i \in DOMAIN err : err[i] = "network" /\ \A j \in DOMAIN err : j < i => err[j] \notin {"nil", "redis"}
  BY DEF Late
<1> DEFINE failed == {j \in DOMAIN err : err[j] \notin {"none", "unread"}}
<1>2. failed \in SUBSET Nat /\ i \in failed
  <2>1. DOMAIN err \in SUBSET Nat
    <3>1. call \in Calls /\ DOMAIN err = DOMAIN call.cmds
      BY UnderWay
    <3>2. DOMAIN err = 1 .. 1 \/ DOMAIN err = 1 .. 2 \/ DOMAIN err = 1 .. 4
      BY <3>1, CallsAre
    <3> QED
      BY <3>2
  <2> QED
    BY <2>1, <1>1
<1>3. \E l \in failed : \A j \in failed : l <= j
  <2> HIDE DEF failed
  <2> QED
    BY <1>2, LeastOf
<1>4. PICK f : f = CHOOSE l \in failed : \A j \in failed : l <= j
  OBVIOUS
<1>5. f \in failed /\ \A j \in failed : f <= j
  BY <1>3, <1>4
<1>6. FirstErr = err[f]
  BY <1>2, <1>4 DEF FirstErr
<1>7. f = i \/ f < i
  BY <1>2, <1>5
<1>8. err[f] \notin {"none", "redis", "nil"}
  BY <1>1, <1>5, <1>7
<1> QED
  BY <1>6, <1>8 DEF IsBad

\* The connection that is handed on has nothing pending.
LEMMA PutBack ==
  ASSUME ConnInv, pc = "read", todo = <<>>, PutConn(FirstErr)
  PROVE  /\ wire' = <<>> /\ ~ dead' /\ buffered' = 0
         /\ deadline' \in BOOLEAN /\ watched' \in BOOLEAN /\ dead' \in BOOLEAN
<1>1. CASE Replaced
  BY <1>1, Zenon DEF Replaced
<1>2. CASE ~ Replaced
  <2>1. UNCHANGED <<wire, buffered, deadline, watched, dead>> /\ ~ (IsBad(FirstErr) /\ tx = "none")
    BY <1>2 DEF PutConn, connection
  <2>2. ~ Late
    BY <2>1, LateIsBad DEF Late
  <2>3. PICK a, k : InOrder(a, k)
    BY <2>2 DEF ConnInv, Fetching
  <2>4. k = 0 /\ ~ dead
    <3>1. Len(todo) = 0
      OBVIOUS
    <3> QED
      BY <3>1, <2>3 DEF InOrder
  <2>5. wire = <<>>
    BY <2>3, <2>4, NothingSent DEF InOrder
  <2>6. buffered = 0
    <3>1. buffered \in 0 .. Len(<<>>) /\ Len(<<>>) = 0
      BY <2>5 DEF ConnInv, TypesOK
    <3> QED
      BY <3>1
  <2>7. deadline \in BOOLEAN /\ watched \in BOOLEAN /\ dead \in BOOLEAN
    BY DEF ConnInv, TypesOK
  <2>8. deadline' \in BOOLEAN /\ watched' \in BOOLEAN /\ dead' \in BOOLEAN /\ ~ dead'
    BY <2>1, <2>4, <2>7
  <2>9. wire' = <<>> /\ buffered' = 0
    BY <2>1, <2>5, <2>6
  <2> QED
    BY <2>8, <2>9
<1> QED
  BY <1>1, <1>2

LEMMA EndOK ==
  ASSUME ConnInv, End
  PROVE  ConnInv'
<1>1. /\ pc = "read" /\ todo = <<>> /\ PutConn(FirstErr) /\ pc' = "end"
      /\ UNCHANGED <<call, todo, got, err, tries, tx, faults>>
  BY DEF End
<1>2. /\ wire' = <<>> /\ ~ dead' /\ buffered' = 0
      /\ deadline' \in BOOLEAN /\ watched' \in BOOLEAN /\ dead' \in BOOLEAN
  BY <1>1, PutBack
<1>3. Exchange'
  BY <1>1 DEF ConnInv, TypesOK, Exchange
<1>4. TypesOK'
  <2>1. wire' \in Seq(Sending) /\ Len(wire') = 0
    BY <1>2
  <2>2. tries' \in Nat /\ faults' \in Nat /\ tx' \in {"none", "open", "queueing", "closing"}
    BY <1>1 DEF ConnInv, TypesOK
  <2>3. buffered' \in 0 .. Len(wire')
    BY <2>1, <1>2
  <2> QED
    BY <2>1, <2>2, <2>3, <1>1, <1>2, <1>3 DEF TypesOK
<1>5. Quiet' /\ Fetching'
  BY <1>1, <1>2 DEF Quiet, Fetching
<1>6. Lent' /\ NoNilFirst'
  BY <1>1 DEF ConnInv, Lent, NoNilFirst
<1>7. Own'
  BY <1>1 DEF ConnInv, Own, Unanswered
<1> QED
  BY <1>4, <1>5, <1>6, <1>7 DEF ConnInv

LEMMA InTurnIs ==
  /\ InTurn({1}) = <<1>> /\ InTurn({2}) = <<2>>
  /\ InTurn({1, 2}) = <<1, 2>>
<1>1. ASSUME NEW x \in Nat
      PROVE  InTurn({x}) = <<x>>
  <2>1. Cardinality({x}) = 1
    BY FS_Singleton
  <2> DEFINE Up(s) == \A j, k \in DOMAIN s : j < k => s[j] < s[k]
  <2>2. \A s \in [1 .. 1 -> {x}] : s = <<x>>
    OBVIOUS
  <2>3. <<x>> \in [1 .. 1 -> {x}]
    OBVIOUS
  <2>4. Up(<<x>>)
    <3>1. \A j, k \in DOMAIN <<x>> : ~ (j < k)
      OBVIOUS
    <3> QED
      BY <3>1
  <2>5. InTurn({x}) = CHOOSE s \in [1 .. 1 -> {x}] : Up(s)
    BY <2>1 DEF InTurn
  <2> HIDE DEF Up
  <2> QED
    BY <2>2, <2>3, <2>4, <2>5
<1>2. InTurn({1, 2}) = <<1, 2>>
  <2>1. Cardinality({1, 2}) = 2
    <3>1. IsFiniteSet({1}) /\ Cardinality({1}) = 1
      BY FS_Singleton
    <3>2. 2 \notin {1} /\ {1} \cup {2} = {1, 2}
      OBVIOUS
    <3> QED
      BY <3>1, <3>2, FS_AddElement
  <2> DEFINE Up(s) == \A j, k \in DOMAIN s : j < k => s[j] < s[k]
  <2>2. ASSUME NEW s \in [1 .. 2 -> {1, 2}], Up(s)
        PROVE  s = <<1, 2>>
    <3>1. s[1] < s[2] /\ s[1] \in {1, 2} /\ s[2] \in {1, 2}
      BY <2>2
    <3>2. s[1] = 1 /\ s[2] = 2
      BY <3>1
    <3> QED
      BY <3>2
  <2>3. <<1, 2>> \in [1 .. 2 -> {1, 2}]
    OBVIOUS
  <2>4. Up(<<1, 2>>)
    OBVIOUS
  <2>5. InTurn({1, 2}) = CHOOSE s \in [1 .. 2 -> {1, 2}] : Up(s)
    BY <2>1 DEF InTurn
  <2> HIDE DEF Up
  <2> QED
    BY <2>2, <2>3, <2>4, <2>5
<1> QED
  BY <1>1, <1>2

LEMMA RepeatOK ==
  ASSUME ConnInv, Repeat
  PROVE  ConnInv'
<1>1. /\ pc = "read" /\ todo = <<>> /\ PutConn(FirstErr) /\ pc' = "send"
      /\ call.kind # "multi" /\ Unanswered # {} /\ tries' = tries + 1
      /\ todo' = InTurn(Unanswered)
      /\ err' = [i \in DOMAIN err |-> IF err[i] = "network" THEN "unread" ELSE err[i]]
      /\ got' = [i \in DOMAIN got |-> IF err[i] = "network" THEN {} ELSE got[i]]
      /\ UNCHANGED <<call, tx, faults>>
  BY DEF Repeat
<1>2. /\ wire' = <<>> /\ ~ dead' /\ buffered' = 0
      /\ deadline' \in BOOLEAN /\ watched' \in BOOLEAN /\ dead' \in BOOLEAN
  BY <1>1, PutBack
<1>3. call \in Calls /\ DOMAIN err = DOMAIN call.cmds /\ DOMAIN got = DOMAIN call.cmds
  BY <1>1, UnderWay
<1>4. DOMAIN err' = DOMAIN err /\ DOMAIN got' = DOMAIN got
  BY <1>1
<1>5. todo' \in Orders[call.kind] /\ todo' # <<>>
  <2>1. CASE call.kind = "plain"
    <3>1. Unanswered = {1}
      BY <2>1, <1>1, <1>3, CallsAre DEF Unanswered
    <3>2. todo' = <<1>>
      BY <3>1, <1>1, InTurnIs
    <3>3. <<1>> # <<>>
      OBVIOUS
    <3> QED
      BY <3>2, <3>3, <2>1, OrdersAre
  <2>2. CASE call.kind = "pipeline"
    <3>1. Unanswered \in {{1}, {2}, {1, 2}}
      <4>1. Unanswered \subseteq 1 .. 2
        <5>1. DOMAIN err = 1 .. 2
          BY <2>2, <1>3, CallsAre
        <5> QED
          BY <5>1 DEF Unanswered
      <4>2. PICK u : u = Unanswered
        OBVIOUS
      <4>3. u \subseteq {1, 2} /\ u # {}
        BY <4>1, <4>2, <1>1
      <4>4. CASE 1 \in u /\ 2 \in u
        <5>1. u = {1, 2}
          BY <4>3, <4>4
        <5> QED
          BY <5>1, <4>2
      <4>5. CASE 1 \notin u
        <5>1. u = {2}
          BY <4>3, <4>5
        <5> QED
          BY <5>1, <4>2
      <4>6. CASE 2 \notin u
        <5>1. u = {1}
          BY <4>3, <4>6
        <5> QED
          BY <5>1, <4>2
      <4> QED
        BY <4>4, <4>5, <4>6
    <3>2. todo' \in {<<1>>, <<2>>, <<1, 2>>}
      BY <3>1, <1>1, InTurnIs
    <3>3. <<1>> # <<>> /\ <<2>> # <<>> /\ <<1, 2>> # <<>>
      OBVIOUS
    <3> QED
      BY <3>2, <3>3, <2>2, OrdersAre, Zenon
  <2> QED
    BY <2>1, <2>2, <1>1, <1>3, CallsAre
<1>6. Exchange'
  BY <1>1, <1>3, <1>4, <1>5 DEF Exchange, Calls
<1>7. TypesOK'
  <2>1. wire' \in Seq(Sending) /\ Len(wire') = 0
    BY <1>2
  <2>2. tries' \in Nat /\ faults' \in Nat /\ tx' \in {"none", "open", "queueing", "closing"}
    BY <1>1 DEF ConnInv, TypesOK
  <2>3. buffered' \in 0 .. Len(wire')
    BY <2>1, <1>2
  <2> QED
    BY <2>1, <2>2, <2>3, <1>1, <1>2, <1>6 DEF TypesOK
<1>8. Quiet'
  BY <1>2 DEF Quiet
<1>9. Lent'
  BY <1>1 DEF ConnInv, Lent
<1>10. \A i \in DOMAIN err' : err'[i] # "network" /\ err'[i] \in {err[i], "unread"}
  BY <1>1
<1>11. Fetching'
  BY <1>1, <1>10 DEF Fetching, Unanswered
<1>12. NoNilFirst'
  <2>1. call.kind = "pipeline" => 1 \in DOMAIN err'
    BY <1>3, <1>4, CallsAre
  <2> QED
    BY <2>1, <1>1, <1>10 DEF ConnInv, NoNilFirst
<1>13. Own'
  <2>1. CASE call.kind = "pipeline"
    <3>1. tries' > 0
      BY <1>1 DEF ConnInv, TypesOK
    <3> QED
      BY <3>1, <2>1, <1>1 DEF Own
  <2>2. CASE call.kind = "plain"
    <3>1. DOMAIN err = 1 .. 1
      BY <2>2, <1>3, CallsAre
    <3>2. err'[1] = "unread"
      BY <3>1, <1>1 DEF Unanswered
    <3> QED
      BY <3>1, <3>2, <1>4 DEF Own
  <2> QED
    BY <2>1, <2>2, <1>1, <1>3, CallsAre
<1> QED
  BY <1>7, <1>8, <1>9, <1>11, <1>12, <1>13 DEF ConnInv

-----------------------------------------------------------------------------
(* Theorems.                                                               *)

LEMMA StutterOK ==
  ASSUME ConnInv, UNCHANGED connVars
  PROVE  ConnInv'
<1>1. UNCHANGED <<wire, buffered, deadline, watched, dead, pc, call, todo, got, err, tries, tx, faults>>
  BY DEF connVars, connection
<1>2. Exchange'
  BY <1>1 DEF ConnInv, TypesOK, Exchange
<1>3. TypesOK'
  BY <1>1, <1>2 DEF ConnInv, TypesOK
<1>4. Lent' /\ Quiet' /\ NoNilFirst'
  BY <1>1 DEF ConnInv, Lent, Quiet, NoNilFirst
<1>5. Own'
  BY <1>1 DEF ConnInv, Own, Unanswered
<1>6. Fetching'
  <2>1. pc' = "read" => (dead' => tx' = "none")
    BY <1>1 DEF ConnInv, Fetching
  <2>2. pc' = "send" => Unanswered' = {}
    BY <1>1 DEF ConnInv, Fetching, Unanswered
  <2>3. ASSUME NEW a, NEW k, InOrder(a, k)
        PROVE  InOrder(a, k)'
    BY <2>3, <1>1 DEF InOrder, Unanswered
  <2>4. Late => Late'
    BY <1>1 DEF Late
  <2> QED
    BY <2>1, <2>2, <2>3, <2>4, <1>1 DEF ConnInv, Fetching
<1> QED
  BY <1>3, <1>4, <1>5, <1>6 DEF ConnInv

LEMMA NextOK ==
  ASSUME Fitting, ConnInv, [ConnNext]_connVars
  PROVE  ConnInv'
<1>1. ASSUME NEW m \in UsedMethods, Process(m) PROVE ConnInv'
  BY <1>1, ProcessOK
<1>2. ASSUME NEW m1 \in PipeMethods, NEW m2 \in PipeMethods, PipelineExec(m1, m2) PROVE ConnInv'
  BY <1>2, PipelineOK
<1>3. ASSUME NEW m \in PipeMethods, MultiExec(m) PROVE ConnInv'
  BY <1>3, MultiExecOK
<1>4. CASE Watch
  BY <1>4, WatchOK
<1>5. CASE FunctionFails
  BY <1>5, FunctionFailsOK
<1>6. CASE MultiClose
  BY <1>6, MultiCloseOK
<1>7. CASE Send
  BY <1>7, SendOK
<1>8. CASE Read
  BY <1>8, ReadOK
<1>9. CASE Repeat
  BY <1>9, RepeatOK
<1>10. CASE End
  BY <1>10, EndOK
<1>11. CASE Return
  BY <1>11, ReturnOK
<1>12. CASE UNCHANGED connVars
  BY <1>12, StutterOK
<1> QED
  BY <1>1, <1>2, <1>3, <1>4, <1>5, <1>6, <1>7, <1>8, <1>9, <1>10, <1>11, <1>12, Zenon DEF ConnNext

\* On a connection that handles methods as Fitting says (process, Pipeline.Exec and
\* Multi.Exec of redis.v3), the invariant holds, the types among it: the replies of
\* an attempt lie on the connection in the order of its commands, or a reply was
\* missed and the connection will be replaced.
THEOREM RepliesInOrder ==
  ASSUME Fitting
  PROVE  ConnSpec => []ConnInv
<1>1. ConnInit => ConnInv
  BY ConnInitOK
<1>2. ConnInv /\ [ConnNext]_connVars => ConnInv'
  BY NextOK
<1> QED
  BY <1>1, <1>2, PTL DEF ConnSpec

\* Whatever calls came before, and however many replies were late or lost, a
\* connection that goes back to the pool has no reply pending for the next call
\* (putConn, isBadConn, Multi.Close).
THEOREM ConnectionsAreClean ==
  ASSUME Fitting
  PROVE  ConnSpec => []NothingPending
<1>1. ConnInv => NothingPending
  BY DEF ConnInv, Quiet, NothingPending
<1> QED
  BY <1>1, RepliesInOrder, PTL

\* A command's value comes from its own reply, never from one that was meant for an
\* earlier call or another command of the exchange (process, Multi.execCmds, and
\* Pipeline.Exec when it needed one attempt).
THEOREM RepliesAreOwn ==
  ASSUME Fitting
  PROVE  ConnSpec => []OwnReplies
<1>1. ConnInv => OwnReplies
  BY DEF ConnInv, Own, OwnReplies
<1> QED
  BY <1>1, RepliesInOrder, PTL

\* Every method but two understands what Redis answers to it.
Understandable == \A m \in (UsedMethods \cup PipeMethods) \ {"Sort", "BRPopLPush"} : Understands(m)

LEMMA ReadUnderstands ==
  ASSUME Fitting, Understandable, ConnInv, Understanding, Read
  PROVE  Understanding'
<1>1. PICK i, r, avail : ReadsOne(i, r, avail)
  BY ReadIs
<1>2. pc = "read"
  BY DEF Read
<1>3. /\ todo # <<>> /\ i = todo[1] /\ avail \in buffered .. Len(wire)
      /\ r = ReadReply(Reader(call.cmds[i]), [j \in 1 .. avail |-> wire[j].tok])
      /\ err' = [err EXCEPT ![i] = r.err]
      /\ got' = [got EXCEPT ![i] = {wire[j].of : j \in 1 .. r.used}]
      /\ UNCHANGED call
  BY <1>1 DEF ReadsOne
<1>4. call \in Calls /\ DOMAIN err = DOMAIN call.cmds /\ DOMAIN got = DOMAIN call.cmds
  BY <1>2, UnderWay
<1>5. i \in DOMAIN call.cmds
  <2>1. Len(todo) \in Nat \ {0}
    BY <1>2, <1>3, UnderWay, OrdersLeft
  <2> QED
    BY <2>1, <1>2, <1>3, UnderWay
<1>6. /\ err'[i] = r.err /\ got'[i] = {wire[j].of : j \in 1 .. r.used}
      /\ DOMAIN err' = DOMAIN err
      /\ \A l \in DOMAIN err \ {i} : err'[l] = err[l] /\ got'[l] = got[l]
  BY <1>3, <1>4, <1>5
<1>7. SUFFICES ASSUME got'[i] = {i}, call.cmds[i] \notin {"Sort", "BRPopLPush", "EXEC"}
               PROVE  r.err \in {"none", "redis", "nil", "network"}
  BY <1>3, <1>6, ZenonT(60) DEF Understanding
<1>8. CASE Late
  <2>1. todo = <<2>> /\ (wire = <<>> \/ wire[1].of = 1)
    BY <1>3, <1>8 DEF Late
  <2>2. i = 2
    <3>1. <<2>>[1] = 2
      OBVIOUS
    <3> QED
      BY <3>1, <2>1, <1>3
  <2>3. CASE r.used \in Nat \ {0} /\ wire # <<>>
    <3>1. 1 \in 1 .. r.used /\ wire[1].of = 1
      BY <2>1, <2>3
    <3>2. 1 \in got'[i]
      BY <3>1, <1>6
    <3> QED
      BY <3>2, <2>2, <1>7
  <2>4. CASE r.used = 0
    <3>1. 1 .. r.used = {}
      BY <2>4
    <3>2. got'[i] = {}
      BY <3>1, <1>6
    <3> QED
      BY <3>2, <1>7
  <2>5. CASE wire = <<>>
    <3>1. avail = 0
      <4>1. avail \in 0 .. Len(<<>>) /\ Len(<<>>) = 0
        BY <2>5, <1>3 DEF ConnInv, TypesOK
      <4> QED
        BY <4>1
    <3>2. [j \in 1 .. 0 |-> wire[j].tok] = <<>>
      OBVIOUS
    <3>3. r = ReadReply(Reader(call.cmds[i]), <<>>)
      BY <3>1, <3>2, <1>3, Zenon
    <3> QED
      BY <3>3, NoneTaken
  <2>6. r.used \in Nat
    <3>1. PICK toks : toks = [j \in 1 .. avail |-> wire[j].tok]
      OBVIOUS
    <3>2. PICK n \in Nat : n = avail
      BY <1>3 DEF ConnInv, TypesOK
    <3>3. wire \in Seq(Sending) /\ avail <= Len(wire)
      BY <1>3 DEF ConnInv, TypesOK
    <3>4. \A x \in Sending : x.tok \in Token
      BY DEF Sending
    <3>5. \A j \in 1 .. n : wire[j] \in Sending
      BY <3>2, <3>3
    <3>6. toks \in [1 .. n -> Token]
      BY <3>1, <3>2, <3>4, <3>5
    <3>7. toks \in Seq(Token) /\ Len(toks) = n
      BY <3>2, <3>6, ListOf
    <3>8. ReadReply(Reader(call.cmds[i]), toks).used \in 0 .. Len(toks)
      BY <3>7, TakesWhatIsThere
    <3> QED
      BY <3>1, <3>7, <3>8, <1>3
  <2> QED
    BY <2>3, <2>4, <2>5, <2>6
<1>9. CASE Missed(i, r)
  BY <1>9 DEF Missed
<1>10. ASSUME NEW a, NEW k, ReadFirst(i, r, a, k)
       PROVE  r.err \in {"none", "redis", "nil", "network"}
  <2>1. Answered(call.kind, call.cmds[i], a[i]) /\ r.err = ReadReply(Reader(call.cmds[i]), a[i]).err
    BY <1>10 DEF ReadFirst
  <2>2. CASE call.cmds[i] \in Signals
    BY <2>1, <2>2, <1>7, SignalErrors
  <2>3. CASE call.cmds[i] \notin Signals
    <3>1. call.cmds[i] \in (UsedMethods \cup PipeMethods) \ {"Sort", "BRPopLPush"}
      BY <2>3, <1>4, <1>5, <1>7, CallsAre DEF Signals
    <3>2. a[i] \in Answers(call.cmds[i]) /\ Reader(call.cmds[i]) = TypeOf[call.cmds[i]]
      BY <2>1, <2>3, <1>7 DEF Answered, Reader, Signals
    <3> QED
      BY <3>1, <3>2, <2>1 DEF Understandable, Understands
  <2> QED
    BY <2>2, <2>3
<1> QED
  BY <1>1, <1>2, <1>8, <1>9, <1>10, ReadCases

LEMMA NextUnderstands ==
  ASSUME Fitting, Understandable, ConnInv, Understanding, [ConnNext]_connVars
  PROVE  Understanding'
<1>1. ASSUME NEW kind, NEW cmds, Begin(kind, cmds)
      PROVE  Understanding'
  <2>1. \A i \in DOMAIN err' : got'[i] = {}
    BY <1>1 DEF Begin
  <2> QED
    BY <2>1 DEF Understanding
<1>2. CASE UNCHANGED <<call, got, err>>
  BY <1>2 DEF Understanding
<1>3. CASE err' = <<>>
  BY <1>3 DEF Understanding
<1>4. CASE Repeat
  <2>1. /\ call' = call /\ DOMAIN err' = DOMAIN err
        /\ \A i \in DOMAIN err : err'[i] = IF err[i] = "network" THEN "unread" ELSE err[i]
        /\ \A i \in DOMAIN got : got'[i] = IF err[i] = "network" THEN {} ELSE got[i]
    BY <1>4 DEF Repeat
  <2>2. DOMAIN got = DOMAIN err
    BY <1>4, UnderWay DEF Repeat
  <2>3. ASSUME NEW i \in DOMAIN err, got'[i] = {i}
        PROVE  err'[i] = err[i] /\ got[i] = {i}
    BY <2>1, <2>2, <2>3
  <2> QED
    BY <2>1, <2>3 DEF Understanding
<1>5. CASE Read
  BY <1>5, ReadUnderstands
<1>6. ASSUME NEW m \in UsedMethods, Process(m) PROVE Understanding'
  BY <1>1, <1>6 DEF Process
<1>7. ASSUME NEW m1 \in PipeMethods, NEW m2 \in PipeMethods, PipelineExec(m1, m2) PROVE Understanding'
  BY <1>1, <1>7 DEF PipelineExec
<1>8. ASSUME NEW m \in PipeMethods, MultiExec(m) PROVE Understanding'
  BY <1>1, <1>8 DEF MultiExec
<1>9. CASE Watch
  BY <1>1, <1>9 DEF Watch
<1>10. CASE FunctionFails
  BY <1>3, <1>10 DEF FunctionFails
<1>11. CASE MultiClose
  BY <1>1, <1>2, <1>11 DEF MultiClose
<1>12. CASE Send
  BY <1>2, <1>12 DEF Send
<1>13. CASE End
  BY <1>2, <1>13 DEF End
<1>14. CASE Return
  BY <1>3, <1>14 DEF Return
<1>15. CASE UNCHANGED connVars
  BY <1>2, <1>15 DEF connVars
<1> QED
  BY <1>4, <1>5, <1>6, <1>7, <1>8, <1>9, <1>10, <1>11, <1>12, <1>13, <1>14, <1>15, Zenon DEF ConnNext

\* The replies that Redis gives to a method are read without an error of the client's
\* own, in every exchange and after any that failed (the parsers of parser.go), for the
\* methods that read them so when they are read alone.
THEOREM RepliesAreUnderstood ==
  ASSUME Fitting, Understandable
  PROVE  ConnSpec => []RepliesUnderstood
<1>1. ConnInit => Understanding
  BY DEF ConnInit, Understanding
<1>2. ConnInv /\ Understanding /\ [ConnNext]_connVars => Understanding'
  BY NextUnderstands
<1>3. Understanding => RepliesUnderstood
  BY DEF Understanding, RepliesUnderstood
<1> QED
  BY <1>1, <1>2, <1>3, RepliesInOrder, PTL DEF ConnSpec

-----------------------------------------------------------------------------
(* What the readers read: a stack of readers takes just so many tokens,    *)
(* wherever it comes in the reading of a reply.                            *)

\* A reader that wants something before the last line and nothing after it.
LEMMA Traced ==
  ASSUME NEW T, NEW r, NEW a \in Seq(T), NEW n \in Nat \ {0}, Len(a) = n,
         NEW f, f = Reading(r, a), ~ Done(f[n - 1]), f[n].err = "none", f[n].stack = <<>>
  PROVE  ReadsWhole(r, a) /\ ReadReply(r, a).err = "none"
<1>1. IsReading(f, r, a, n)
  BY ReadReplyIs
<1>2. ReadReply(r, a).err = "none"
  BY ReadReplyIs
<1> DEFINE front == SubSeq(a, 1, Len(a) - 1)
<1>3. front \in Seq(T) /\ Len(front) = n - 1 /\ \A k \in 1 .. n - 1 : front[k] = a[k]
  OBVIOUS
<1> HIDE DEF front
<1>4. PICK p \in Nat : p = n - 1 /\ p <= n
  OBVIOUS
<1>5. PICK g : IsReading(g, r, front, p) /\ g = Reading(r, front)
  BY <1>3, <1>4, ReadReplyIs
<1>6. g[p] = f[p]
  <2>1. \A k \in 1 .. p : front[k] = a[k]
    BY <1>3, <1>4
  <2>2. n \in Nat /\ p <= p
    BY <1>4
  <2> QED
    BY <2>1, <2>2, <1>1, <1>4, <1>5, ReadingsAgree
<1>7. ReadReply(r, front).err = IF g[p].err = "none" /\ g[p].stack # <<>> THEN "network" ELSE g[p].err
  BY <1>3, <1>4, <1>5, ReadReplyIs
<1>8. ReadReply(r, front).err = "network"
  BY <1>4, <1>6, <1>7 DEF Done
<1>9. a # <<>>
  <2>1. Len(<<>>) = 0
    OBVIOUS
  <2> QED
    BY <2>1
<1>10. Front(a) = front
  BY DEF Front, front
<1> QED
  BY <1>2, <1>8, <1>9, <1>10 DEF ReadsWhole

ReaderName == CmdTypes \cup {"element", "cursor", "slot", "addr", "location", "coord"}

\* After p tokens, all of them taken, the reader wants st.
Holds(f, p, st) == f[p].err = "none" /\ f[p].stack = st /\ f[p].used = p

Matches(toks, p, b) == p + Len(b) <= Len(toks) /\ \A k \in 1 .. Len(b) : toks[p + k] = b[k]

Takes(st, b) ==
  \A r, toks, p, u :
    /\ toks \in Seq(Token) /\ p \in Nat /\ u \in Seq(ReaderName)
    /\ Matches(toks, p, b) /\ Holds(Reading(r, toks), p, Join(st, u))
    => Holds(Reading(r, toks), p + Len(b), u)

LEMMA TakesNothing == Takes(<<>>, <<>>)
<1> SUFFICES ASSUME NEW r, NEW toks, NEW p \in Nat, NEW u \in Seq(ReaderName), Holds(Reading(r, toks), p, Join(<<>>, u))
             PROVE  Holds(Reading(r, toks), p + Len(<<>>), u)
  BY DEF Takes
<1>1. Join(<<>>, u) = u
  BY DEF Join
<1>2. p + Len(<<>>) = p
  OBVIOUS
<1> QED
  BY <1>1, <1>2

LEMMA TakesBoth ==
  ASSUME NEW s \in Seq(ReaderName), NEW t \in Seq(ReaderName), NEW b \in Seq(Token), NEW c \in Seq(Token),
         Takes(s, b), Takes(t, c)
  PROVE  Takes(Join(s, t), Join(b, c))
<1> SUFFICES ASSUME NEW r, NEW toks \in Seq(Token), NEW p \in Nat, NEW u \in Seq(ReaderName),
                    Matches(toks, p, Join(b, c)), Holds(Reading(r, toks), p, Join(Join(s, t), u))
             PROVE  Holds(Reading(r, toks), p + Len(Join(b, c)), u)
  BY DEF Takes
<1>1. PICK m \in Nat : m = Len(b)
  OBVIOUS
<1>2. PICK n \in Nat : n = Len(c)
  OBVIOUS
<1>3. PICK d : d = Join(b, c)
  OBVIOUS
<1>4. Len(d) = m + n /\ (\A k \in 1 .. m : d[k] = b[k]) /\ \A k \in 1 .. n : d[m + k] = c[k]
  <2>1. /\ Len(b \o c) = Len(b) + Len(c) /\ \A k \in 1 .. Len(b) : (b \o c)[k] = b[k]
        /\ \A k \in 1 .. Len(c) : (b \o c)[Len(b) + k] = c[k]
    BY JoinOf
  <2> QED
    BY <2>1, <1>1, <1>2, <1>3 DEF Join
<1>5. Matches(toks, p, b)
  BY <1>1, <1>2, <1>3, <1>4 DEF Matches
<1>6. Matches(toks, p + m, c)
  <2>1. p + (m + n) <= Len(toks) /\ \A k \in 1 .. m + n : toks[p + k] = d[k]
    BY <1>3, <1>4 DEF Matches
  <2>2. ASSUME NEW k \in 1 .. n PROVE toks[(p + m) + k] = c[k]
    <3>1. m + k \in 1 .. m + n /\ p + (m + k) = (p + m) + k
      OBVIOUS
    <3>2. toks[p + (m + k)] = d[m + k]
      BY <3>1, <2>1
    <3> QED
      BY <3>1, <3>2, <1>4
  <2> QED
    BY <2>1, <2>2, <1>2 DEF Matches
<1>7. Join(Join(s, t), u) = Join(s, Join(t, u)) /\ Join(t, u) \in Seq(ReaderName)
  BY JoinAssociates, JoinIs
<1>8. Holds(Reading(r, toks), p + m, Join(t, u))
  BY <1>1, <1>5, <1>7 DEF Takes
<1>9. Holds(Reading(r, toks), (p + m) + n, u)
  <2>1. p + m \in Nat
    OBVIOUS
  <2> QED
    BY <2>1, <1>2, <1>6, <1>8 DEF Takes
<1>10. (p + m) + n = p + Len(Join(b, c))
  BY <1>3, <1>4
<1> QED
  BY <1>9, <1>10, Zenon

\* A line, and what the reader wants when it has read it.
LEMMA TakesLine ==
  ASSUME NEW x \in ReaderName, NEW t \in Token, NEW w \in Seq(ReaderName), Wants(x, t) = Ok(w),
         NEW b \in Seq(Token), Takes(w, b)
  PROVE  Takes(<<x>>, Join(<<t>>, b))
<1> SUFFICES ASSUME NEW r, NEW toks \in Seq(Token), NEW p \in Nat, NEW u \in Seq(ReaderName),
                    Matches(toks, p, Join(<<t>>, b)), Holds(Reading(r, toks), p, Join(<<x>>, u))
             PROVE  Holds(Reading(r, toks), p + Len(Join(<<t>>, b)), u)
  BY DEF Takes
<1>1. PICK n \in Nat : n = Len(b)
  OBVIOUS
<1>2. PICK d : d = Join(<<t>>, b)
  OBVIOUS
<1>3. Len(d) = 1 + n /\ d[1] = t /\ \A k \in 1 .. n : d[1 + k] = b[k]
  BY <1>1, <1>2 DEF Join
<1>4. p + (1 + n) <= Len(toks) /\ \A k \in 1 .. 1 + n : toks[p + k] = d[k]
  BY <1>2, <1>3 DEF Matches
<1>5. PICK q \in Nat : q = p + 1 /\ q \in 1 .. Len(toks)
  BY <1>4
<1>6. toks[q] = t
  BY <1>3, <1>4, <1>5
<1>7. Matches(toks, q, b)
  <2>1. ASSUME NEW k \in 1 .. n PROVE toks[q + k] = b[k]
    <3>1. 1 + k \in 1 .. 1 + n /\ p + (1 + k) = q + k
      BY <1>5
    <3>2. toks[p + (1 + k)] = d[1 + k]
      BY <3>1, <1>4
    <3> QED
      BY <3>1, <3>2, <1>3
  <2>2. q + n <= Len(toks)
    BY <1>4, <1>5
  <2> QED
    BY <2>1, <2>2, <1>1 DEF Matches
<1>8. PICK f : f = Reading(r, toks)
  OBVIOUS
<1>9. f[q] = ReadToken(f[p], t)
  <2>1. PICK l \in Nat : l = Len(toks)
    OBVIOUS
  <2>2. IsReading(f, r, toks, l)
    BY <2>1, <1>8, ReadReplyIs
  <2>3. Unfolds(f, r, toks, l)
    BY <2>2, ReadingUnfolds
  <2>4. q \in 1 .. l /\ q - 1 = p
    BY <2>1, <1>5
  <2>5. f[q] = ReadToken(f[q - 1], toks[q])
    BY <2>3, <2>4 DEF Unfolds
  <2> QED
    BY <2>4, <2>5, <1>6, Zenon
<1>10. f[p].err = "none" /\ f[p].stack = Join(<<x>>, u) /\ f[p].used = p
  BY <1>8 DEF Holds
<1>11. Join(<<x>>, u) # <<>> /\ Head(Join(<<x>>, u)) = x /\ Tail(Join(<<x>>, u)) = u
  BY DEF Join
<1>12. f[q].stack = Join(w, u) /\ f[q].err = "none" /\ f[q].used = p + 1
  <2>1. PICK s : s = f[p]
    OBVIOUS
  <2>2. s.err = "none" /\ s.stack # <<>> /\ Head(s.stack) = x /\ Tail(s.stack) = u /\ s.used = p
    BY <2>1, <1>10, <1>11, Zenon
  <2>3. Ok(w).rest = w /\ Ok(w).err = "none"
    BY DEF Ok
  <2>4. ReadToken(s, t) = [stack |-> Join(Ok(w).rest, u), err |-> Ok(w).err, used |-> s.used + 1]
    BY <2>2, Zenon DEF ReadToken, Join
  <2>5. PICK v, e : v = Join(Ok(w).rest, u) /\ e = Ok(w).err
    OBVIOUS
  <2>6. ReadToken(s, t) = [stack |-> v, err |-> e, used |-> s.used + 1]
    BY <2>4, <2>5, Zenon
  <2>7. ReadToken(s, t).stack = v /\ ReadToken(s, t).err = e /\ ReadToken(s, t).used = s.used + 1
    BY <2>6
  <2> QED
    BY <2>1, <2>2, <2>3, <2>5, <2>7, <1>9, Zenon
<1>13. Holds(Reading(r, toks), q, Join(w, u))
  BY <1>5, <1>8, <1>12 DEF Holds
<1>14. Holds(Reading(r, toks), q + n, u)
  BY <1>1, <1>7, <1>13 DEF Takes
<1>15. q + n = p + Len(Join(<<t>>, b))
  <2>1. q + n = p + (1 + n)
    BY <1>5
  <2>2. Len(Join(<<t>>, b)) = 1 + n
    BY <1>2, <1>3, Zenon
  <2> QED
    BY <2>1, <2>2, Zenon
<1> QED
  BY <1>14, <1>15, Zenon

\* Such a reply is read whole, and has no error.
LEMMA TakenWhole ==
  ASSUME NEW r \in ReaderName, NEW a \in Seq(Token), Takes(<<r>>, a)
  PROVE  ReadsWhole(r, a) /\ ReadReply(r, a).err = "none"
<1>1. PICK n \in Nat : n = Len(a)
  OBVIOUS
<1>2. PICK f : f = Reading(r, a)
  OBVIOUS
<1>3. IsReading(f, r, a, n)
  BY <1>1, <1>2, ReadReplyIs
<1>4. f[0] = Start(r)
  BY <1>3, ReadingUnfolds DEF Unfolds
<1>5. Holds(f, 0, Join(<<r>>, <<>>))
  <2>1. Join(<<r>>, <<>>) = <<r>>
    BY DEF Join
  <2>2. f[0].err = "none" /\ f[0].stack = <<r>> /\ f[0].used = 0
    BY <1>4 DEF Start
  <2> QED
    BY <2>1, <2>2, Zenon DEF Holds
<1>6. Matches(a, 0, a)
  BY DEF Matches
<1>7. Holds(f, 0 + Len(a), <<>>)
  <2>1. 0 \in Nat /\ <<>> \in Seq(ReaderName)
    OBVIOUS
  <2> QED
    BY <2>1, <1>2, <1>5, <1>6 DEF Takes
<1>8. f[n].err = "none" /\ f[n].stack = <<>> /\ f[n].used = n
  <2>1. 0 + Len(a) = n
    BY <1>1
  <2> QED
    BY <2>1, <1>7, Zenon DEF Holds
<1>9. n # 0
  <2>1. <<r>> # <<>>
    OBVIOUS
  <2>2. f[0].stack = <<r>>
    BY <1>4 DEF Start
  <2> QED
    BY <2>1, <2>2, <1>8, Zenon
<1>10. ~ Done(f[n - 1])
  <2>1. Settles(f, n)
    BY <1>3, ReadingSettles
  <2>2. n - 1 \in 0 .. n /\ n \in n - 1 .. n
    BY <1>9
  <2>3. f[n - 1].used \in 0 .. n - 1 /\ (Done(f[n - 1]) => f[n] = f[n - 1])
    BY <2>1, <2>2 DEF Settles
  <2> QED
    BY <2>3, <1>8
<1> QED
  BY <1>1, <1>2, <1>8, <1>9, <1>10, Traced

-----------------------------------------------------------------------------
(* What each reader wants, by the line it reads.                           *)

LEMMA LinesAre ==
  /\ StatusLine.is = "status" /\ IntLine.is = "int" /\ BulkLine.is = "bulk" /\ NumberLine.is = "number"
  /\ NilLine.is = "nil" /\ NilArrayLine.is = "nilArray" /\ ErrorLine.is = "error"
  /\ \A n : ArrayOf(n).is = "array" /\ ArrayOf(n).n = n
BY DEF StatusLine, IntLine, BulkLine, NumberLine, NilLine, NilArrayLine, ErrorLine, Line, ArrayOf

LEMMA FlatReaders ==
  ASSUME NEW t
  PROVE  /\ Wants("Status", t) = ReadString(t)
         /\ Wants("Int", t) = ReadInt(t) /\ Wants("Duration", t) = ReadInt(t)
         /\ Wants("Bool", t) = ReadBool(t)
<1>1. /\ FlatReplies(t).Status = ReadString(t) /\ FlatReplies(t).Int = ReadInt(t)
      /\ FlatReplies(t).Duration = ReadInt(t) /\ FlatReplies(t).Bool = ReadBool(t)
      /\ DOMAIN FlatReplies(t) = {"Status", "Int", "Duration", "Bool"}
  BY DEF FlatReplies
<1> QED
  BY <1>1, ReaderIs

LEMMA StringReaders ==
  ASSUME NEW t
  PROVE  /\ Wants("String", t) = ReadString(t)
         /\ Wants("Float", t) = ReadFloat(t) /\ Wants("cursor", t) = ReadFloat(t)
<1>1. /\ StringReplies(t).String = ReadString(t) /\ StringReplies(t).Float = ReadFloat(t)
      /\ StringReplies(t).cursor = ReadFloat(t)
      /\ DOMAIN StringReplies(t) = {"String", "Float", "cursor"}
  BY DEF StringReplies
<1> QED
  BY <1>1, ReaderIs

LEMMA AnyReaders ==
  ASSUME NEW t
  PROVE  /\ Wants("Cmd", t) = ReadAny(t)
         /\ Wants("Slice", t) = ReadArray(t, TRUE, Times("element", t.n))
         /\ Wants("element", t) = ReadElement(t)
<1>1. /\ AnyReplies(t).Cmd = ReadAny(t) /\ AnyReplies(t).Slice = ReadArray(t, TRUE, Times("element", t.n))
      /\ AnyReplies(t).element = ReadElement(t)
      /\ DOMAIN AnyReplies(t) = {"Cmd", "Slice", "element"}
  BY DEF AnyReplies
<1> QED
  BY <1>1, ReaderIs

LEMMA ListReaders ==
  ASSUME NEW t
  PROVE  /\ Wants("StringSlice", t) = ReadArray(t, TRUE, Times("String", t.n))
         /\ Wants("BoolSlice", t) = ReadArray(t, TRUE, Times("Int", t.n))
         /\ Wants("StringStringMap", t) = ReadArray(t, TRUE, Pairs("String", "String", t.n))
         /\ Wants("StringIntMap", t) = ReadArray(t, TRUE, Pairs("String", "Int", t.n))
         /\ Wants("ZSlice", t) = ReadArray(t, TRUE, Pairs("String", "Float", t.n))
<1>1. /\ ListReplies(t).StringSlice = ReadArray(t, TRUE, Times("String", t.n))
      /\ ListReplies(t).BoolSlice = ReadArray(t, TRUE, Times("Int", t.n))
      /\ ListReplies(t).StringStringMap = ReadArray(t, TRUE, Pairs("String", "String", t.n))
      /\ ListReplies(t).StringIntMap = ReadArray(t, TRUE, Pairs("String", "Int", t.n))
      /\ ListReplies(t).ZSlice = ReadArray(t, TRUE, Pairs("String", "Float", t.n))
  BY DEF ListReplies
<1>2. DOMAIN ListReplies(t) = {"StringSlice", "BoolSlice", "StringStringMap", "StringIntMap", "ZSlice"}
  BY DEF ListReplies
<1> QED
  BY <1>1, <1>2, ReaderIs

LEMMA NestedReaders ==
  ASSUME NEW t
  PROVE  /\ Wants("Scan", t) = ReadScan(t)
         /\ Wants("ClusterSlot", t) = ReadArray(t, TRUE, Times("slot", t.n))
         /\ Wants("slot", t) = ReadSlot(t)
         /\ Wants("addr", t) = ReadArray(t, t.n = 2, <<"String", "Int">>)
         /\ Wants("GeoLocation", t) = ReadArray(t, TRUE, Times("location", t.n))
         /\ Wants("location", t) = ReadLocation(t)
         /\ Wants("coord", t) = ReadArray(t, t.n = 2, <<"Float", "Float">>)
<1>1. /\ NestedReplies(t).Scan = ReadScan(t)
      /\ NestedReplies(t).ClusterSlot = ReadArray(t, TRUE, Times("slot", t.n))
      /\ NestedReplies(t).slot = ReadSlot(t)
      /\ NestedReplies(t).addr = ReadArray(t, t.n = 2, <<"String", "Int">>)
      /\ NestedReplies(t).GeoLocation = ReadArray(t, TRUE, Times("location", t.n))
      /\ NestedReplies(t).location = ReadLocation(t)
      /\ NestedReplies(t).coord = ReadArray(t, t.n = 2, <<"Float", "Float">>)
  BY DEF NestedReplies
<1>2. DOMAIN NestedReplies(t) = {"Scan", "ClusterSlot", "slot", "addr", "GeoLocation", "location", "coord"}
  BY DEF NestedReplies
<1>3. ASSUME NEW r \in DOMAIN NestedReplies(t)
      PROVE  Wants(r, t) = NestedReplies(t)[r]
  <2>1. r # "exec"
    BY <1>2
  <2> QED
    BY <2>1, ReaderIs
<1> QED
  BY <1>1, <1>2, <1>3

\* One line, and a value, a nil or an error of Redis.
LEMMA LinesRead ==
  /\ \A r \in CmdTypes : Wants(r, ErrorLine) = Fail("redis")
  /\ \A r \in {"Status", "String", "Bool"} : Wants(r, StatusLine) = Ok(<<>>)
  /\ \A r \in {"Int", "Duration", "Bool", "Cmd"} : Wants(r, IntLine) = Ok(<<>>)
  /\ \A r \in {"String", "element", "location"} : Wants(r, BulkLine) = Ok(<<>>)
  /\ \A r \in {"Float", "cursor"} : Wants(r, NumberLine) = Ok(<<>>)
  /\ \A r \in {"Int", "Duration", "String", "Float", "Cmd"} : Wants(r, NilLine) = Fail("nil")
  /\ \A r \in {"Bool", "element"} : Wants(r, NilLine) = Ok(<<>>)
  /\ Wants("StringSlice", NilArrayLine) = Fail("nil") /\ Wants("String", NilArrayLine) = Fail("parse")
<1>1. /\ ReadString(ErrorLine) = Fail("redis") /\ ReadInt(ErrorLine) = Fail("redis")
      /\ ReadFloat(ErrorLine) = Fail("redis") /\ ReadBool(ErrorLine) = Fail("redis")
      /\ ReadAny(ErrorLine) = Fail("redis") /\ ReadScan(ErrorLine) = Fail("redis")
      /\ \A rs : ReadArray(ErrorLine, TRUE, rs) = Fail("redis")
  BY LinesAre DEF ReadString, ReadInt, ReadFloat, ReadBool, ReadAny, ReadScan, ReadArray, Unless
<1>2. \A r \in CmdTypes : Wants(r, ErrorLine) = Fail("redis")
  <2>1. \A r \in {"Status", "Int", "Duration", "Bool"} : Wants(r, ErrorLine) = Fail("redis")
    BY <1>1, FlatReaders
  <2>2. \A r \in {"String", "Float"} : Wants(r, ErrorLine) = Fail("redis")
    BY <1>1, StringReaders
  <2>3. \A r \in {"Cmd", "Slice"} : Wants(r, ErrorLine) = Fail("redis")
    BY <1>1, AnyReaders
  <2>4. \A r \in {"StringSlice", "BoolSlice", "StringStringMap", "StringIntMap", "ZSlice"} :
          Wants(r, ErrorLine) = Fail("redis")
    BY <1>1, ListReaders
  <2>5. \A r \in {"Scan", "ClusterSlot", "GeoLocation"} : Wants(r, ErrorLine) = Fail("redis")
    BY <1>1, NestedReaders
  <2> QED
    BY <2>1, <2>2, <2>3, <2>4, <2>5, Zenon DEF CmdTypes
<1>3. ReadString(StatusLine) = Ok(<<>>) /\ ReadBool(StatusLine) = Ok(<<>>)
  BY LinesAre DEF ReadString, ReadBool, Unless
<1>4. ReadInt(IntLine) = Ok(<<>>) /\ ReadBool(IntLine) = Ok(<<>>) /\ ReadAny(IntLine) = Ok(<<>>)
  BY LinesAre DEF ReadInt, ReadBool, ReadAny, Unless
<1>5. ReadString(BulkLine) = Ok(<<>>) /\ ReadElement(BulkLine) = Ok(<<>>) /\ ReadLocation(BulkLine) = Ok(<<>>)
  BY LinesAre DEF ReadString, ReadElement, ReadAny, ReadLocation, Unless
<1>6. ReadFloat(NumberLine) = Ok(<<>>)
  BY LinesAre DEF ReadFloat, Unless
<1>7. /\ ReadInt(NilLine) = Fail("nil") /\ ReadString(NilLine) = Fail("nil")
      /\ ReadFloat(NilLine) = Fail("nil") /\ ReadAny(NilLine) = Fail("nil")
  BY LinesAre DEF ReadInt, ReadString, ReadFloat, ReadAny
<1>8. ReadBool(NilLine) = Ok(<<>>) /\ ReadElement(NilLine) = Ok(<<>>)
  BY LinesAre DEF ReadBool, ReadElement
<1>9. ReadString(NilArrayLine) = Fail("parse") /\ \A rs : ReadArray(NilArrayLine, TRUE, rs) = Fail("nil")
  BY LinesAre DEF ReadString, ReadArray, Unless
<1>10. \A r \in {"Status", "String", "Bool"} : Wants(r, StatusLine) = Ok(<<>>)
  BY <1>3, FlatReaders, StringReaders
<1>11. \A r \in {"Int", "Duration", "Bool", "Cmd"} : Wants(r, IntLine) = Ok(<<>>)
  BY <1>4, FlatReaders, AnyReaders
<1>12. \A r \in {"String", "element", "location"} : Wants(r, BulkLine) = Ok(<<>>)
  BY <1>5, StringReaders, AnyReaders, NestedReaders
<1>13. \A r \in {"Float", "cursor"} : Wants(r, NumberLine) = Ok(<<>>)
  BY <1>6, StringReaders
<1>14. \A r \in {"Int", "Duration", "String", "Float", "Cmd"} : Wants(r, NilLine) = Fail("nil")
  BY <1>7, FlatReaders, StringReaders, AnyReaders
<1>15. \A r \in {"Bool", "element"} : Wants(r, NilLine) = Ok(<<>>)
  BY <1>8, FlatReaders, AnyReaders
<1>16. Wants("StringSlice", NilArrayLine) = Fail("nil") /\ Wants("String", NilArrayLine) = Fail("parse")
  BY <1>9, StringReaders, ListReaders
<1> QED
  BY <1>2, <1>10, <1>11, <1>12, <1>13, <1>14, <1>15, <1>16

\* How many a reader wants of the elements of an array.
LEMMA TimesAre ==
  ASSUME NEW x, NEW y
  PROVE  /\ Times(x, 0) = <<>> /\ Times(x, 1) = <<x>> /\ Times(x, 2) = <<x, x>> /\ Times(x, 3) = <<x, x, x>>
         /\ Pairs(x, y, 0) = <<>> /\ Pairs(x, y, 2) = <<x, y>> /\ Pairs(x, y, 4) = <<x, y, x, y>>
<1>1. 0 + (0 % 2) = 0 /\ 2 + (2 % 2) = 2 /\ 4 + (4 % 2) = 4 /\ 1 % 2 = 1 /\ 2 % 2 # 1 /\ 3 % 2 = 1 /\ 4 % 2 # 1
  OBVIOUS
<1>2. <<>> = Times(x, 0)
  BY DEF Times
<1>3. <<x>> = Times(x, 1)
  BY DEF Times
<1>4. <<x, x>> = Times(x, 2)
  BY DEF Times
<1>5. <<x, x, x>> = Times(x, 3)
  BY DEF Times
<1>6. <<>> = Pairs(x, y, 0)
  BY <1>1 DEF Pairs
<1>7. <<x, y>> = Pairs(x, y, 2)
  BY <1>1 DEF Pairs
<1>8. <<x, y, x, y>> = Pairs(x, y, 4)
  BY <1>1 DEF Pairs
<1> QED
  BY <1>2, <1>3, <1>4, <1>5, <1>6, <1>7, <1>8

\* A line that announces more.
LEMMA ArraysRead ==
  /\ \A n \in {0, 2} : Wants("StringSlice", ArrayOf(n)) = Ok(Times("String", n))
  /\ \A n \in {0, 2} : Wants("Slice", ArrayOf(n)) = Ok(Times("element", n))
  /\ \A n \in {0, 2} : Wants("StringStringMap", ArrayOf(n)) = Ok(Pairs("String", "String", n))
  /\ \A n \in {0, 2} : Wants("StringIntMap", ArrayOf(n)) = Ok(Pairs("String", "Int", n))
  /\ \A n \in {0, 4} : Wants("ZSlice", ArrayOf(n)) = Ok(Pairs("String", "Float", n))
  /\ Wants("BoolSlice", ArrayOf(2)) = Ok(<<"Int", "Int">>)
  /\ Wants("Cmd", ArrayOf(1)) = Ok(<<"element">>)
  /\ Wants("element", ArrayOf(2)) = Ok(<<"element", "element">>)
  /\ Wants("element", ArrayOf(3)) = Ok(<<"element", "element", "element">>)
<1>1. ASSUME NEW n, NEW rs
      PROVE  ReadArray(ArrayOf(n), TRUE, rs) = Ok(rs)
  BY LinesAre DEF ReadArray, Unless
<1>2. ASSUME NEW n
      PROVE  ReadAny(ArrayOf(n)) = Ok(Times("element", n)) /\ ReadElement(ArrayOf(n)) = Ok(Times("element", n))
  BY LinesAre DEF ReadAny, ReadElement, Unless
<1>3. \A n : /\ Wants("StringSlice", ArrayOf(n)) = Ok(Times("String", n))
             /\ Wants("StringStringMap", ArrayOf(n)) = Ok(Pairs("String", "String", n))
             /\ Wants("StringIntMap", ArrayOf(n)) = Ok(Pairs("String", "Int", n))
             /\ Wants("ZSlice", ArrayOf(n)) = Ok(Pairs("String", "Float", n))
             /\ Wants("BoolSlice", ArrayOf(n)) = Ok(Times("Int", n))
  <2> SUFFICES ASSUME NEW n
               PROVE  /\ Wants("StringSlice", ArrayOf(n)) = Ok(Times("String", n))
                      /\ Wants("StringStringMap", ArrayOf(n)) = Ok(Pairs("String", "String", n))
                      /\ Wants("StringIntMap", ArrayOf(n)) = Ok(Pairs("String", "Int", n))
                      /\ Wants("ZSlice", ArrayOf(n)) = Ok(Pairs("String", "Float", n))
                      /\ Wants("BoolSlice", ArrayOf(n)) = Ok(Times("Int", n))
    OBVIOUS
  <2>1. PICK t : t = ArrayOf(n)
    OBVIOUS
  <2>2. t.n = n /\ \A rs : ReadArray(t, TRUE, rs) = Ok(rs)
    BY <2>1, <1>1, LinesAre, Zenon
  <2> QED
    BY <2>1, <2>2, ListReaders, Zenon
<1>4. \A n : /\ Wants("Slice", ArrayOf(n)) = Ok(Times("element", n))
             /\ Wants("Cmd", ArrayOf(n)) = Ok(Times("element", n))
             /\ Wants("element", ArrayOf(n)) = Ok(Times("element", n))
  <2> SUFFICES ASSUME NEW n
               PROVE  /\ Wants("Slice", ArrayOf(n)) = Ok(Times("element", n))
                      /\ Wants("Cmd", ArrayOf(n)) = Ok(Times("element", n))
                      /\ Wants("element", ArrayOf(n)) = Ok(Times("element", n))
    OBVIOUS
  <2>1. PICK t : t = ArrayOf(n)
    OBVIOUS
  <2>2. t.n = n /\ \A rs : ReadArray(t, TRUE, rs) = Ok(rs)
    BY <2>1, <1>1, LinesAre, Zenon
  <2>3. ReadAny(t) = Ok(Times("element", n)) /\ ReadElement(t) = Ok(Times("element", n))
    BY <2>1, <1>2
  <2> QED
    BY <2>1, <2>2, <2>3, AnyReaders, Zenon
<1>5. /\ Times("Int", 2) = <<"Int", "Int">> /\ Times("element", 1) = <<"element">>
      /\ Times("element", 2) = <<"element", "element">> /\ Times("element", 3) = <<"element", "element", "element">>
  BY TimesAre, Zenon
<1>6. Wants("BoolSlice", ArrayOf(2)) = Ok(<<"Int", "Int">>)
  BY <1>3, <1>5, Zenon
<1>7. /\ Wants("Cmd", ArrayOf(1)) = Ok(<<"element">>)
      /\ Wants("element", ArrayOf(2)) = Ok(<<"element", "element">>)
      /\ Wants("element", ArrayOf(3)) = Ok(<<"element", "element", "element">>)
  <2>1. \A n : Wants("Cmd", ArrayOf(n)) = Ok(Times("element", n)) /\ Wants("element", ArrayOf(n)) = Ok(Times("element", n))
    BY <1>4, Zenon
  <2>2. /\ Wants("Cmd", ArrayOf(1)) = Ok(Times("element", 1))
        /\ Wants("element", ArrayOf(2)) = Ok(Times("element", 2))
        /\ Wants("element", ArrayOf(3)) = Ok(Times("element", 3))
    BY <2>1, Zenon
  <2> QED
    BY <2>2, <1>5, Zenon
<1> QED
  BY <1>3, <1>4, <1>6, <1>7, Zenon

LEMMA NestedRead ==
  /\ Wants("Scan", ArrayOf(2)) = Ok(<<"cursor", "StringSlice">>)
  /\ Wants("ClusterSlot", ArrayOf(1)) = Ok(<<"slot">>)
  /\ Wants("slot", ArrayOf(4)) = Ok(Join(<<"Int", "Int">>, <<"addr", "addr">>))
  /\ Wants("addr", ArrayOf(2)) = Ok(<<"String", "Int">>)
  /\ Wants("GeoLocation", ArrayOf(2)) = Ok(<<"location", "location">>)
  /\ \A n : Wants("location", ArrayOf(n)) = Ok(Location)
  /\ Wants("coord", ArrayOf(2)) = Ok(<<"Float", "Float">>)
<1>1. ASSUME NEW n, NEW rs
      PROVE  ReadArray(ArrayOf(n), TRUE, rs) = Ok(rs)
  BY LinesAre DEF ReadArray, Unless
<1>3. Wants("Scan", ArrayOf(2)) = Ok(<<"cursor", "StringSlice">>)
  <2>1. ArrayOf(2).n = 2
    BY LinesAre
  <2>2. ReadArray(ArrayOf(2), ArrayOf(2).n = 2, <<"cursor", "StringSlice">>) = Ok(<<"cursor", "StringSlice">>)
    BY <2>1, <1>1
  <2> QED
    BY <2>2, NestedReaders DEF ReadScan
<1>4. Wants("slot", ArrayOf(4)) = Ok(Join(<<"Int", "Int">>, <<"addr", "addr">>))
  <2>1. ArrayOf(4).n = 4 /\ 4 >= 2 /\ 4 - 2 = 2 /\ ArrayOf(4).is = "array"
    BY LinesAre
  <2>2. Times("addr", ArrayOf(4).n - 2) = <<"addr", "addr">>
    BY <2>1, TimesAre
  <2>3. ReadArray(ArrayOf(4), ArrayOf(4).n >= 2, Join(<<"Int", "Int">>, <<"addr", "addr">>))
          = Ok(Join(<<"Int", "Int">>, <<"addr", "addr">>))
    BY <2>1 DEF ReadArray, Unless
  <2>4. ReadSlot(ArrayOf(4)) = ReadArray(ArrayOf(4), ArrayOf(4).n >= 2, Join(<<"Int", "Int">>, <<"addr", "addr">>))
    BY <2>2, Zenon DEF ReadSlot, Join
  <2> QED
    BY <2>3, <2>4, NestedReaders, Zenon
<1>5. Wants("addr", ArrayOf(2)) = Ok(<<"String", "Int">>) /\ Wants("coord", ArrayOf(2)) = Ok(<<"Float", "Float">>)
  <2>1. ArrayOf(2).n = 2
    BY LinesAre
  <2> QED
    BY <2>1, <1>1, NestedReaders
<1>6. \A n : Wants("location", ArrayOf(n)) = Ok(Location)
  <2>1. \A n : ReadLocation(ArrayOf(n)) = Ok(Location)
    BY LinesAre DEF ReadLocation, Unless
  <2> QED
    BY <2>1, NestedReaders
<1>7. Wants("ClusterSlot", ArrayOf(1)) = Ok(<<"slot">>) /\ Wants("GeoLocation", ArrayOf(2)) = Ok(<<"location", "location">>)
  <2>1. PICK t, u : t = ArrayOf(1) /\ u = ArrayOf(2)
    OBVIOUS
  <2>2. t.n = 1 /\ u.n = 2 /\ \A rs : ReadArray(t, TRUE, rs) = Ok(rs) /\ ReadArray(u, TRUE, rs) = Ok(rs)
    BY <2>1, <1>1, LinesAre, Zenon
  <2>3. Times("slot", t.n) = <<"slot">> /\ Times("location", u.n) = <<"location", "location">>
    BY <2>2, TimesAre, Zenon
  <2> QED
    BY <2>1, <2>2, <2>3, NestedReaders, Zenon
<1> QED
  BY <1>3, <1>4, <1>5, <1>6, <1>7

-----------------------------------------------------------------------------
(* Replies of several lines.                                               *)

LEMMA TakesOne ==
  ASSUME NEW x \in ReaderName, NEW t \in Token, Wants(x, t) = Ok(<<>>)
  PROVE  Takes(<<x>>, <<t>>)
<1>1. <<>> \in Seq(ReaderName) /\ <<>> \in Seq(Token)
  OBVIOUS
<1>2. Takes(<<x>>, Join(<<t>>, <<>>))
  BY <1>1, TakesNothing, TakesLine
<1>3. Join(<<t>>, <<>>) = <<t>>
  BY DEF Join
<1> QED
  BY <1>2, <1>3, Zenon

LEMMA TwoAre ==
  ASSUME NEW x, NEW y
  PROVE  Join(<<x>>, <<y>>) = <<x, y>>
<1>1. PICK s \in Seq({x, y}) : s = Join(<<x>>, <<y>>)
  BY ListsOf, JoinIs
<1>2. Len(s) = 2 /\ s[1] = x /\ s[2] = y
  BY <1>1 DEF Join
<1>3. PICK t : t = <<x, y>>
  OBVIOUS
<1>4. t = [i \in 1 .. 2 |-> t[i]] /\ t[1] = x /\ t[2] = y
  BY <1>3
<1>5. 2 \in Nat /\ \A i \in 1 .. 2 : i = 1 \/ i = 2
  OBVIOUS
<1>6. \A i \in 1 .. 2 : s[i] = t[i]
  BY <1>2, <1>4, <1>5, Zenon
<1>7. s = t
  BY <1>2, <1>4, <1>5, <1>6, SameList
<1> QED
  BY <1>1, <1>3, <1>7

LEMMA TakesTwo ==
  ASSUME NEW x \in ReaderName, NEW y \in ReaderName, NEW b \in Seq(Token), NEW c \in Seq(Token),
         Takes(<<x>>, b), Takes(<<y>>, c)
  PROVE  Takes(<<x, y>>, Join(b, c))
<1>1. <<x>> \in Seq(ReaderName) /\ <<y>> \in Seq(ReaderName)
  BY ListsOf
<1>2. Join(<<x>>, <<y>>) = <<x, y>>
  BY TwoAre
<1>3. Takes(Join(<<x>>, <<y>>), Join(b, c))
  BY <1>1, TakesBoth
<1> QED
  BY <1>2, <1>3, Zenon

\* The sequence a has the elements of b, then those of c.
IsJoin(a, b, c) ==
  /\ Len(a) = Len(b) + Len(c)
  /\ \A k \in 1 .. Len(b) : a[k] = b[k]
  /\ \A k \in 1 .. Len(c) : a[Len(b) + k] = c[k]

LEMMA Parts ==
  ASSUME NEW S, NEW a \in Seq(S), NEW b \in Seq(S), NEW c \in Seq(S), IsJoin(a, b, c)
  PROVE  a = Join(b, c)
<1>1. PICK m \in Nat : m = Len(b)
  OBVIOUS
<1>2. PICK n \in Nat : n = Len(c)
  OBVIOUS
<1>3. PICK d \in Seq(S) : d = Join(b, c)
  BY JoinIs
<1>4. Len(d) = m + n /\ (\A k \in 1 .. m : d[k] = b[k]) /\ \A k \in 1 .. n : d[m + k] = c[k]
  <2>1. /\ Len(b \o c) = Len(b) + Len(c) /\ \A k \in 1 .. Len(b) : (b \o c)[k] = b[k]
        /\ \A k \in 1 .. Len(c) : (b \o c)[Len(b) + k] = c[k]
    BY JoinOf
  <2> QED
    BY <2>1, <1>1, <1>2, <1>3 DEF Join
<1>5. Len(a) = m + n /\ (\A k \in 1 .. m : a[k] = b[k]) /\ \A k \in 1 .. n : a[m + k] = c[k]
  BY <1>1, <1>2 DEF IsJoin
<1>6. \A k \in 1 .. m + n : a[k] = d[k]
  <2> SUFFICES ASSUME NEW k \in 1 .. m + n
               PROVE  a[k] = d[k]
    OBVIOUS
  <2>1. CASE k <= m
    BY <2>1, <1>4, <1>5
  <2>2. CASE k > m
    <3>1. PICK j \in 1 .. n : k = m + j
      <4>1. k - m \in 1 .. n /\ k = m + (k - m)
        BY <2>2
      <4> QED
        BY <4>1
    <3>2. a[m + j] = c[j] /\ d[m + j] = c[j]
      BY <1>4, <1>5
    <3> QED
      BY <3>1, <3>2, Zenon
  <2> QED
    BY <2>1, <2>2
<1>7. d = [k \in 1 .. m + n |-> d[k]] /\ m + n \in Nat
  BY <1>4
<1>8. a = d
  BY <1>5, <1>6, <1>7, SameList
<1> QED
  BY <1>3, <1>8

\* The lists that are taken apart.
LEMMA OneAndTwo ==
  ASSUME NEW x1, NEW x2, NEW x3
  PROVE  <<x1, x2, x3>> = Join(<<x1>>, <<x2, x3>>)
<1>1. PICK S : S = {x1, x2, x3}
  OBVIOUS
<1>2. IsJoin(<<x1, x2, x3>>, <<x1>>, <<x2, x3>>)
  BY DEF IsJoin
<1>3. <<x1, x2, x3>> \in Seq(S) /\ <<x1>> \in Seq(S) /\ <<x2, x3>> \in Seq(S)
  BY <1>1
<1> QED
  BY <1>2, <1>3, Parts, Zenon

LEMMA TwoAndOne ==
  ASSUME NEW x1, NEW x2, NEW x3
  PROVE  <<x1, x2, x3>> = Join(<<x1, x2>>, <<x3>>)
<1>1. PICK S : S = {x1, x2, x3}
  OBVIOUS
<1>2. IsJoin(<<x1, x2, x3>>, <<x1, x2>>, <<x3>>)
  BY DEF IsJoin
<1>3. <<x1, x2, x3>> \in Seq(S) /\ <<x1, x2>> \in Seq(S) /\ <<x3>> \in Seq(S)
  BY <1>1
<1> QED
  BY <1>2, <1>3, Parts, Zenon

LEMMA TwoAndTwo ==
  ASSUME NEW x1, NEW x2, NEW x3, NEW x4
  PROVE  <<x1, x2, x3, x4>> = Join(<<x1, x2>>, <<x3, x4>>)
<1>1. PICK S : S = {x1, x2, x3, x4}
  OBVIOUS
<1>2. IsJoin(<<x1, x2, x3, x4>>, <<x1, x2>>, <<x3, x4>>)
  BY DEF IsJoin
<1>3. <<x1, x2, x3, x4>> \in Seq(S) /\ <<x1, x2>> \in Seq(S) /\ <<x3, x4>> \in Seq(S)
  BY <1>1
<1> QED
  BY <1>2, <1>3, Parts, Zenon

LEMMA OneAndThree ==
  ASSUME NEW x1, NEW x2, NEW x3, NEW x4
  PROVE  <<x1, x2, x3, x4>> = Join(<<x1>>, <<x2, x3, x4>>)
<1>1. PICK S : S = {x1, x2, x3, x4}
  OBVIOUS
<1>2. IsJoin(<<x1, x2, x3, x4>>, <<x1>>, <<x2, x3, x4>>)
  BY DEF IsJoin
<1>3. <<x1, x2, x3, x4>> \in Seq(S) /\ <<x1>> \in Seq(S) /\ <<x2, x3, x4>> \in Seq(S)
  BY <1>1
<1> QED
  BY <1>2, <1>3, Parts, Zenon

LEMMA OneAndFour ==
  ASSUME NEW x1, NEW x2, NEW x3, NEW x4, NEW x5
  PROVE  <<x1, x2, x3, x4, x5>> = Join(<<x1>>, <<x2, x3, x4, x5>>)
<1>1. PICK S : S = {x1, x2, x3, x4, x5}
  OBVIOUS
<1>2. IsJoin(<<x1, x2, x3, x4, x5>>, <<x1>>, <<x2, x3, x4, x5>>)
  BY DEF IsJoin
<1>3. <<x1, x2, x3, x4, x5>> \in Seq(S) /\ <<x1>> \in Seq(S) /\ <<x2, x3, x4, x5>> \in Seq(S)
  BY <1>1
<1> QED
  BY <1>2, <1>3, Parts, Zenon

LEMMA TwoAndThree ==
  ASSUME NEW x1, NEW x2, NEW x3, NEW x4, NEW x5
  PROVE  <<x1, x2, x3, x4, x5>> = Join(<<x1, x2>>, <<x3, x4, x5>>)
<1>1. PICK S : S = {x1, x2, x3, x4, x5}
  OBVIOUS
<1>2. IsJoin(<<x1, x2, x3, x4, x5>>, <<x1, x2>>, <<x3, x4, x5>>)
  BY DEF IsJoin
<1>3. <<x1, x2, x3, x4, x5>> \in Seq(S) /\ <<x1, x2>> \in Seq(S) /\ <<x3, x4, x5>> \in Seq(S)
  BY <1>1
<1> QED
  BY <1>2, <1>3, Parts, Zenon

LEMMA OneAndFive ==
  ASSUME NEW x1, NEW x2, NEW x3, NEW x4, NEW x5, NEW x6
  PROVE  <<x1, x2, x3, x4, x5, x6>> = Join(<<x1>>, <<x2, x3, x4, x5, x6>>)
<1>1. PICK S : S = {x1, x2, x3, x4, x5, x6}
  OBVIOUS
<1>2. IsJoin(<<x1, x2, x3, x4, x5, x6>>, <<x1>>, <<x2, x3, x4, x5, x6>>)
  BY DEF IsJoin
<1>3. <<x1, x2, x3, x4, x5, x6>> \in Seq(S) /\ <<x1>> \in Seq(S) /\ <<x2, x3, x4, x5, x6>> \in Seq(S)
  BY <1>1
<1> QED
  BY <1>2, <1>3, Parts, Zenon

LEMMA ThreeAndThree ==
  ASSUME NEW x1, NEW x2, NEW x3, NEW x4, NEW x5, NEW x6
  PROVE  <<x1, x2, x3, x4, x5, x6>> = Join(<<x1, x2, x3>>, <<x4, x5, x6>>)
<1>1. PICK S : S = {x1, x2, x3, x4, x5, x6}
  OBVIOUS
<1>2. IsJoin(<<x1, x2, x3, x4, x5, x6>>, <<x1, x2, x3>>, <<x4, x5, x6>>)
  BY DEF IsJoin
<1>3. <<x1, x2, x3, x4, x5, x6>> \in Seq(S) /\ <<x1, x2, x3>> \in Seq(S) /\ <<x4, x5, x6>> \in Seq(S)
  BY <1>1
<1> QED
  BY <1>2, <1>3, Parts, Zenon

LEMMA OneAndSix ==
  ASSUME NEW x1, NEW x2, NEW x3, NEW x4, NEW x5, NEW x6, NEW x7
  PROVE  <<x1, x2, x3, x4, x5, x6, x7>> = Join(<<x1>>, <<x2, x3, x4, x5, x6, x7>>)
<1>1. PICK S : S = {x1, x2, x3, x4, x5, x6, x7}
  OBVIOUS
<1>2. IsJoin(<<x1, x2, x3, x4, x5, x6, x7>>, <<x1>>, <<x2, x3, x4, x5, x6, x7>>)
  BY DEF IsJoin
<1>3. <<x1, x2, x3, x4, x5, x6, x7>> \in Seq(S) /\ <<x1>> \in Seq(S) /\ <<x2, x3, x4, x5, x6, x7>> \in Seq(S)
  BY <1>1
<1> QED
  BY <1>2, <1>3, Parts, Zenon

LEMMA TwoAndSix ==
  ASSUME NEW x1, NEW x2, NEW x3, NEW x4, NEW x5, NEW x6, NEW x7, NEW x8
  PROVE  <<x1, x2, x3, x4, x5, x6, x7, x8>> = Join(<<x1, x2>>, <<x3, x4, x5, x6, x7, x8>>)
<1>1. PICK S : S = {x1, x2, x3, x4, x5, x6, x7, x8}
  OBVIOUS
<1>2. IsJoin(<<x1, x2, x3, x4, x5, x6, x7, x8>>, <<x1, x2>>, <<x3, x4, x5, x6, x7, x8>>)
  BY DEF IsJoin
<1>3. <<x1, x2, x3, x4, x5, x6, x7, x8>> \in Seq(S) /\ <<x1, x2>> \in Seq(S) /\ <<x3, x4, x5, x6, x7, x8>> \in Seq(S)
  BY <1>1
<1> QED
  BY <1>2, <1>3, Parts, Zenon

LEMMA OneAndEight ==
  ASSUME NEW x1, NEW x2, NEW x3, NEW x4, NEW x5, NEW x6, NEW x7, NEW x8, NEW x9
  PROVE  <<x1, x2, x3, x4, x5, x6, x7, x8, x9>> = Join(<<x1>>, <<x2, x3, x4, x5, x6, x7, x8, x9>>)
<1>1. PICK S : S = {x1, x2, x3, x4, x5, x6, x7, x8, x9}
  OBVIOUS
<1>2. IsJoin(<<x1, x2, x3, x4, x5, x6, x7, x8, x9>>, <<x1>>, <<x2, x3, x4, x5, x6, x7, x8, x9>>)
  BY DEF IsJoin
<1>3. <<x1, x2, x3, x4, x5, x6, x7, x8, x9>> \in Seq(S) /\ <<x1>> \in Seq(S) /\ <<x2, x3, x4, x5, x6, x7, x8, x9>> \in Seq(S)
  BY <1>1
<1> QED
  BY <1>2, <1>3, Parts, Zenon

LEMMA OneAndNine ==
  ASSUME NEW x1, NEW x2, NEW x3, NEW x4, NEW x5, NEW x6, NEW x7, NEW x8, NEW x9, NEW x10
  PROVE  <<x1, x2, x3, x4, x5, x6, x7, x8, x9, x10>> = Join(<<x1>>, <<x2, x3, x4, x5, x6, x7, x8, x9, x10>>)
<1>1. PICK S : S = {x1, x2, x3, x4, x5, x6, x7, x8, x9, x10}
  OBVIOUS
<1>2. IsJoin(<<x1, x2, x3, x4, x5, x6, x7, x8, x9, x10>>, <<x1>>, <<x2, x3, x4, x5, x6, x7, x8, x9, x10>>)
  BY DEF IsJoin
<1>3. <<x1, x2, x3, x4, x5, x6, x7, x8, x9, x10>> \in Seq(S) /\ <<x1>> \in Seq(S) /\ <<x2, x3, x4, x5, x6, x7, x8, x9, x10>> \in Seq(S)
  BY <1>1
<1> QED
  BY <1>2, <1>3, Parts, Zenon

\* The lines of one value.
LEMMA ValuesTaken ==
  /\ Takes(<<"String">>, <<BulkLine>>) /\ Takes(<<"element">>, <<BulkLine>>) /\ Takes(<<"element">>, <<NilLine>>)
  /\ Takes(<<"Int">>, <<IntLine>>) /\ Takes(<<"Float">>, <<NumberLine>>) /\ Takes(<<"cursor">>, <<NumberLine>>)
  /\ Takes(<<"location">>, <<BulkLine>>)
<1> DEFINE Readers == {"String", "element", "Int", "Float", "cursor", "location"}
<1>1. ASSUME NEW x \in Readers, NEW t \in {BulkLine, NilLine, IntLine, NumberLine}, Wants(x, t) = Ok(<<>>)
      PROVE  Takes(<<x>>, <<t>>)
  <2>1. x \in ReaderName
    BY DEF ReaderName, CmdTypes
  <2>2. t \in Token
    BY <1>1, TokensAre
  <2> QED
    BY <2>1, <2>2, <1>1, TakesOne, Zenon
<1>2. Takes(<<"String">>, <<BulkLine>>)
  BY <1>1, LinesRead
<1>3. Takes(<<"element">>, <<BulkLine>>)
  BY <1>1, LinesRead
<1>4. Takes(<<"element">>, <<NilLine>>)
  BY <1>1, LinesRead
<1>5. Takes(<<"Int">>, <<IntLine>>)
  BY <1>1, LinesRead
<1>6. Takes(<<"Float">>, <<NumberLine>>)
  BY <1>1, LinesRead
<1>7. Takes(<<"cursor">>, <<NumberLine>>)
  BY <1>1, LinesRead
<1>8. Takes(<<"location">>, <<BulkLine>>)
  BY <1>1, LinesRead
<1> QED
  BY <1>2, <1>3, <1>4, <1>5, <1>6, <1>7, <1>8

\* Two values, and two that a line announces.
LEMMA TwoTaken ==
  ASSUME NEW x \in ReaderName, NEW y \in ReaderName, NEW t \in Token, NEW u \in Token,
         Takes(<<x>>, <<t>>), Takes(<<y>>, <<u>>)
  PROVE  Takes(<<x, y>>, <<t, u>>)
<1>1. <<t>> \in Seq(Token) /\ <<u>> \in Seq(Token)
  BY ListsOf
<1>2. Takes(<<x, y>>, Join(<<t>>, <<u>>))
  BY <1>1, TakesTwo
<1>3. Join(<<t>>, <<u>>) = <<t, u>>
  BY TwoAre
<1> QED
  BY <1>2, <1>3, Zenon

LEMMA PairTaken ==
  ASSUME NEW r \in ReaderName, NEW x \in ReaderName, NEW y \in ReaderName, NEW t \in Token, NEW u \in Token,
         Takes(<<x>>, <<t>>), Takes(<<y>>, <<u>>), Wants(r, ArrayOf(2)) = Ok(<<x, y>>)
  PROVE  Takes(<<r>>, <<ArrayOf(2), t, u>>)
<1>1. <<x, y>> \in Seq(ReaderName) /\ <<t, u>> \in Seq(Token)
  BY ListsOf
<1>2. ArrayOf(2) \in Token
  BY TokensAre
<1>3. Takes(<<x, y>>, <<t, u>>)
  BY TwoTaken
<1>4. Takes(<<r>>, Join(<<ArrayOf(2)>>, <<t, u>>))
  BY <1>1, <1>2, <1>3, TakesLine
<1>5. <<ArrayOf(2), t, u>> = Join(<<ArrayOf(2)>>, <<t, u>>)
  BY OneAndTwo
<1> QED
  BY <1>4, <1>5, Zenon

LEMMA PairsTaken ==
  /\ Takes(<<"StringSlice">>, <<ArrayOf(2), BulkLine, BulkLine>>)
  /\ Takes(<<"Slice">>, <<ArrayOf(2), BulkLine, BulkLine>>)
  /\ Takes(<<"StringStringMap">>, <<ArrayOf(2), BulkLine, BulkLine>>)
  /\ Takes(<<"Slice">>, <<ArrayOf(2), NilLine, BulkLine>>)
  /\ Takes(<<"BoolSlice">>, <<ArrayOf(2), IntLine, IntLine>>)
  /\ Takes(<<"StringIntMap">>, <<ArrayOf(2), BulkLine, IntLine>>)
  /\ Takes(<<"element">>, <<ArrayOf(2), NilLine, BulkLine>>)
  /\ Takes(<<"addr">>, <<ArrayOf(2), BulkLine, IntLine>>)
  /\ Takes(<<"coord">>, <<ArrayOf(2), NumberLine, NumberLine>>)
<1>1. /\ Wants("StringSlice", ArrayOf(2)) = Ok(<<"String", "String">>)
      /\ Wants("Slice", ArrayOf(2)) = Ok(<<"element", "element">>)
      /\ Wants("StringStringMap", ArrayOf(2)) = Ok(<<"String", "String">>)
      /\ Wants("StringIntMap", ArrayOf(2)) = Ok(<<"String", "Int">>)
  BY ArraysRead, TimesAre
<1> DEFINE Readers == {"StringSlice", "Slice", "StringStringMap", "BoolSlice", "StringIntMap", "element", "addr",
                       "coord"}
<1>2. ASSUME NEW r \in Readers, NEW x \in {"String", "element", "Int", "Float"},
              NEW y \in {"String", "element", "Int", "Float"},
              NEW t \in {BulkLine, NilLine, IntLine, NumberLine}, NEW u \in {BulkLine, NilLine, IntLine, NumberLine},
              Takes(<<x>>, <<t>>), Takes(<<y>>, <<u>>), Wants(r, ArrayOf(2)) = Ok(<<x, y>>)
       PROVE  Takes(<<r>>, <<ArrayOf(2), t, u>>)
  <2>1. r \in ReaderName /\ x \in ReaderName /\ y \in ReaderName
    BY DEF ReaderName, CmdTypes
  <2>2. t \in Token /\ u \in Token
    BY <1>2, TokensAre
  <2> QED
    BY <2>1, <2>2, <1>2, PairTaken, Zenon
<1>3. Takes(<<"StringSlice">>, <<ArrayOf(2), BulkLine, BulkLine>>)
  BY <1>1, <1>2, ValuesTaken
<1>4. Takes(<<"Slice">>, <<ArrayOf(2), BulkLine, BulkLine>>)
  BY <1>1, <1>2, ValuesTaken
<1>5. Takes(<<"StringStringMap">>, <<ArrayOf(2), BulkLine, BulkLine>>)
  BY <1>1, <1>2, ValuesTaken
<1>6. Takes(<<"Slice">>, <<ArrayOf(2), NilLine, BulkLine>>)
  BY <1>1, <1>2, ValuesTaken
<1>7. Takes(<<"BoolSlice">>, <<ArrayOf(2), IntLine, IntLine>>)
  BY ArraysRead, <1>2, ValuesTaken
<1>8. Takes(<<"StringIntMap">>, <<ArrayOf(2), BulkLine, IntLine>>)
  BY <1>1, <1>2, ValuesTaken
<1>9. Takes(<<"element">>, <<ArrayOf(2), NilLine, BulkLine>>)
  BY ArraysRead, <1>2, ValuesTaken
<1>10. Takes(<<"addr">>, <<ArrayOf(2), BulkLine, IntLine>>)
  BY NestedRead, <1>2, ValuesTaken
<1>11. Takes(<<"coord">>, <<ArrayOf(2), NumberLine, NumberLine>>)
  BY NestedRead, <1>2, ValuesTaken
<1> QED
  BY <1>3, <1>4, <1>5, <1>6, <1>7, <1>8, <1>9, <1>10, <1>11

\* What a line announces, in general.
LEMMA ArrayTaken ==
  ASSUME NEW r \in ReaderName, NEW n \in Nat, NEW w \in Seq(ReaderName), NEW b \in Seq(Token),
         Wants(r, ArrayOf(n)) = Ok(w), Takes(w, b)
  PROVE  Takes(<<r>>, Join(<<ArrayOf(n)>>, b)) /\ Join(<<ArrayOf(n)>>, b) \in Seq(Token)
<1>1. ArrayOf(n) \in Token
  BY DEF Token
<1>2. Takes(<<r>>, Join(<<ArrayOf(n)>>, b))
  BY <1>1, TakesLine
<1>3. <<ArrayOf(n)>> \in Seq(Token)
  BY <1>1
<1> QED
  BY <1>2, <1>3, JoinIs

\* Names with their scores.
LEMMA ScoresTaken == Takes(<<"ZSlice">>, <<ArrayOf(4), BulkLine, NumberLine, BulkLine, NumberLine>>)
<1>1. "ZSlice" \in ReaderName /\ "String" \in ReaderName /\ "Float" \in ReaderName
  BY DEF ReaderName, CmdTypes
<1>2. PICK w \in Seq(ReaderName) : w = <<"String", "Float">>
  BY <1>1, ListsOf
<1>3. PICK b \in Seq(Token) : b = <<BulkLine, NumberLine>>
  BY TokensAre, ListsOf
<1>4. Takes(w, b)
  <2>1. BulkLine \in Token /\ NumberLine \in Token
    BY TokensAre
  <2> QED
    BY <2>1, <1>1, <1>2, <1>3, ValuesTaken, TwoTaken, Zenon
<1>5. Takes(Join(w, w), Join(b, b))
  BY <1>4, TakesBoth
<1>6. Wants("ZSlice", ArrayOf(4)) = Ok(Join(w, w))
  <2>1. Wants("ZSlice", ArrayOf(4)) = Ok(Pairs("String", "Float", 4))
    BY ArraysRead
  <2>2. Pairs("String", "Float", 4) = <<"String", "Float", "String", "Float">>
    BY TimesAre, Zenon
  <2>3. <<"String", "Float", "String", "Float">> = Join(<<"String", "Float">>, <<"String", "Float">>)
    BY TwoAndTwo
  <2> QED
    BY <2>1, <2>2, <2>3, <1>2, Zenon
<1>7. Join(w, w) \in Seq(ReaderName) /\ Join(b, b) \in Seq(Token)
  BY JoinIs
<1>8. Takes(<<"ZSlice">>, Join(<<ArrayOf(4)>>, Join(b, b)))
  <2>1. 4 \in Nat
    OBVIOUS
  <2> QED
    BY <2>1, <1>1, <1>5, <1>6, <1>7, ArrayTaken, Zenon
<1>9. <<ArrayOf(4), BulkLine, NumberLine, BulkLine, NumberLine>> = Join(<<ArrayOf(4)>>, Join(b, b))
  <2>1. <<BulkLine, NumberLine, BulkLine, NumberLine>> = Join(<<BulkLine, NumberLine>>, <<BulkLine, NumberLine>>)
    BY TwoAndTwo
  <2>2. <<ArrayOf(4), BulkLine, NumberLine, BulkLine, NumberLine>>
          = Join(<<ArrayOf(4)>>, <<BulkLine, NumberLine, BulkLine, NumberLine>>)
    BY OneAndFour
  <2> QED
    BY <2>1, <2>2, <1>3, Zenon
<1> QED
  BY <1>8, <1>9, Zenon

\* A cursor, and a page of keys or an empty one.
LEMMA PagesTaken ==
  /\ Takes(<<"Scan">>, <<ArrayOf(2), NumberLine, ArrayOf(2), BulkLine, BulkLine>>)
  /\ Takes(<<"Scan">>, <<ArrayOf(2), NumberLine, ArrayOf(0)>>)
<1>1. "Scan" \in ReaderName /\ "cursor" \in ReaderName /\ "StringSlice" \in ReaderName
  BY DEF ReaderName, CmdTypes
<1>2. PICK w \in Seq(ReaderName) : w = <<"cursor", "StringSlice">>
  BY <1>1, ListsOf
<1>3. NumberLine \in Token /\ BulkLine \in Token /\ ArrayOf(2) \in Token /\ ArrayOf(0) \in Token /\ 2 \in Nat
  BY TokensAre
<1>4. PICK c \in Seq(Token) : c = <<NumberLine>>
  BY <1>3, ListsOf
<1>5. ASSUME NEW b \in Seq(Token), Takes(<<"StringSlice">>, b)
      PROVE  Takes(<<"Scan">>, Join(<<ArrayOf(2)>>, Join(c, b)))
  <2>1. Takes(w, Join(c, b))
    BY <1>1, <1>2, <1>4, <1>5, ValuesTaken, TakesTwo, Zenon
  <2>2. Join(c, b) \in Seq(Token)
    BY JoinIs
  <2>3. Wants("Scan", ArrayOf(2)) = Ok(w)
    BY <1>2, NestedRead, Zenon
  <2> QED
    BY <2>1, <2>2, <2>3, <1>1, <1>3, ArrayTaken, Zenon
<1>6. Takes(<<"Scan">>, <<ArrayOf(2), NumberLine, ArrayOf(2), BulkLine, BulkLine>>)
  <2>1. PICK b \in Seq(Token) : b = <<ArrayOf(2), BulkLine, BulkLine>>
    BY <1>3, ListsOf
  <2>2. Takes(<<"Scan">>, Join(<<ArrayOf(2)>>, Join(c, b)))
    BY <2>1, <1>5, PairsTaken, Zenon
  <2>3. <<NumberLine, ArrayOf(2), BulkLine, BulkLine>> = Join(<<NumberLine>>, <<ArrayOf(2), BulkLine, BulkLine>>)
    BY OneAndThree
  <2>4. <<ArrayOf(2), NumberLine, ArrayOf(2), BulkLine, BulkLine>>
          = Join(<<ArrayOf(2)>>, <<NumberLine, ArrayOf(2), BulkLine, BulkLine>>)
    BY OneAndFour
  <2>5. <<ArrayOf(2), NumberLine, ArrayOf(2), BulkLine, BulkLine>> = Join(<<ArrayOf(2)>>, Join(c, b))
    BY <2>1, <2>3, <2>4, <1>4, Zenon
  <2> QED
    BY <2>2, <2>5, Zenon
<1>7. Takes(<<"Scan">>, <<ArrayOf(2), NumberLine, ArrayOf(0)>>)
  <2>1. PICK b \in Seq(Token) : b = <<ArrayOf(0)>>
    BY <1>3, ListsOf
  <2>2. Wants("StringSlice", ArrayOf(0)) = Ok(<<>>)
    <3>1. Wants("StringSlice", ArrayOf(0)) = Ok(Times("String", 0))
      BY ArraysRead
    <3>2. Times("String", 0) = <<>>
      BY TimesAre, Zenon
    <3> QED
      BY <3>1, <3>2, Zenon
  <2>3. Takes(<<"StringSlice">>, b)
    BY <2>1, <2>2, <1>1, <1>3, TakesOne, Zenon
  <2>4. Takes(<<"Scan">>, Join(<<ArrayOf(2)>>, Join(c, b)))
    BY <2>3, <1>5, Zenon
  <2>5. <<ArrayOf(2), NumberLine, ArrayOf(0)>> = Join(<<ArrayOf(2)>>, <<NumberLine, ArrayOf(0)>>)
    BY OneAndTwo
  <2>6. Join(<<NumberLine>>, <<ArrayOf(0)>>) = <<NumberLine, ArrayOf(0)>>
    BY TwoAre
  <2>7. <<ArrayOf(2), NumberLine, ArrayOf(0)>> = Join(<<ArrayOf(2)>>, Join(c, b))
    BY <2>1, <2>5, <2>6, <1>4, Zenon
  <2> QED
    BY <2>4, <2>7, Zenon
<1> QED
  BY <1>6, <1>7

\* A slot of the cluster, with two nodes.
LEMMA SlotsTaken ==
  Takes(<<"ClusterSlot">>, <<ArrayOf(1), ArrayOf(4), IntLine, IntLine, ArrayOf(2), BulkLine, IntLine,
                             ArrayOf(2), BulkLine, IntLine>>)
<1>1. "ClusterSlot" \in ReaderName /\ "slot" \in ReaderName /\ "addr" \in ReaderName /\ "Int" \in ReaderName
  BY DEF ReaderName, CmdTypes
<1>2. /\ IntLine \in Token /\ BulkLine \in Token /\ ArrayOf(1) \in Token /\ ArrayOf(2) \in Token
      /\ ArrayOf(4) \in Token
  BY TokensAre
<1>3. PICK w \in Seq(ReaderName) : w = <<"Int", "Int">>
  BY <1>1, ListsOf
<1>4. PICK v \in Seq(ReaderName) : v = <<"addr", "addr">>
  BY <1>1, ListsOf
<1>5. PICK b \in Seq(Token) : b = <<IntLine, IntLine>>
  BY <1>2, ListsOf
<1>6. PICK c \in Seq(Token) : c = <<ArrayOf(2), BulkLine, IntLine>>
  BY <1>2, ListsOf
<1>7. Takes(w, b)
  BY <1>1, <1>2, <1>3, <1>5, ValuesTaken, TwoTaken, Zenon
<1>8. Takes(v, Join(c, c)) /\ Join(c, c) \in Seq(Token)
  <2>1. Takes(<<"addr">>, c)
    BY <1>6, PairsTaken, Zenon
  <2>2. Takes(v, Join(c, c))
    BY <2>1, <1>1, <1>4, TakesTwo, Zenon
  <2> QED
    BY <2>2, JoinIs
<1>9. PICK d \in Seq(Token) : d = Join(b, Join(c, c))
  BY <1>8, JoinIs
<1>10. Takes(Join(w, v), d) /\ Join(w, v) \in Seq(ReaderName)
  <2>1. Takes(Join(w, v), d)
    BY <1>7, <1>8, <1>9, TakesBoth, Zenon
  <2> QED
    BY <2>1, JoinIs
<1>11. Takes(<<"slot">>, Join(<<ArrayOf(4)>>, d)) /\ Join(<<ArrayOf(4)>>, d) \in Seq(Token)
  <2>1. Wants("slot", ArrayOf(4)) = Ok(Join(w, v))
    BY <1>3, <1>4, NestedRead, Zenon
  <2>2. 4 \in Nat
    OBVIOUS
  <2> QED
    BY <2>1, <2>2, <1>1, <1>10, ArrayTaken, Zenon
<1>12. Takes(<<"ClusterSlot">>, Join(<<ArrayOf(1)>>, Join(<<ArrayOf(4)>>, d)))
  <2>1. <<"slot">> \in Seq(ReaderName) /\ 1 \in Nat
    BY <1>1, ListsOf
  <2>2. Wants("ClusterSlot", ArrayOf(1)) = Ok(<<"slot">>)
    BY NestedRead
  <2> QED
    BY <2>1, <2>2, <1>1, <1>11, ArrayTaken, Zenon
<1>13. <<ArrayOf(1), ArrayOf(4), IntLine, IntLine, ArrayOf(2), BulkLine, IntLine, ArrayOf(2), BulkLine, IntLine>>
         = Join(<<ArrayOf(1)>>, Join(<<ArrayOf(4)>>, d))
  <2>1. <<ArrayOf(2), BulkLine, IntLine, ArrayOf(2), BulkLine, IntLine>>
          = Join(<<ArrayOf(2), BulkLine, IntLine>>, <<ArrayOf(2), BulkLine, IntLine>>)
    BY ThreeAndThree
  <2>2. <<IntLine, IntLine, ArrayOf(2), BulkLine, IntLine, ArrayOf(2), BulkLine, IntLine>>
          = Join(<<IntLine, IntLine>>, <<ArrayOf(2), BulkLine, IntLine, ArrayOf(2), BulkLine, IntLine>>)
    BY TwoAndSix
  <2>3. <<ArrayOf(4), IntLine, IntLine, ArrayOf(2), BulkLine, IntLine, ArrayOf(2), BulkLine, IntLine>>
          = Join(<<ArrayOf(4)>>, <<IntLine, IntLine, ArrayOf(2), BulkLine, IntLine, ArrayOf(2), BulkLine, IntLine>>)
    BY OneAndEight
  <2>4. <<ArrayOf(1), ArrayOf(4), IntLine, IntLine, ArrayOf(2), BulkLine, IntLine, ArrayOf(2), BulkLine, IntLine>>
          = Join(<<ArrayOf(1)>>, <<ArrayOf(4), IntLine, IntLine, ArrayOf(2), BulkLine, IntLine,
                                   ArrayOf(2), BulkLine, IntLine>>)
    BY OneAndNine
  <2>5. d = <<IntLine, IntLine, ArrayOf(2), BulkLine, IntLine, ArrayOf(2), BulkLine, IntLine>>
    BY <2>1, <2>2, <1>5, <1>6, <1>9, Zenon
  <2> QED
    BY <2>3, <2>4, <2>5, Zenon
<1> QED
  BY <1>12, <1>13, Zenon

\* What the script returns of the slices of a list: the slices as elements, of
\* which the last holds a nil.
LEMMA ScriptTaken ==
  Takes(<<"Cmd">>, <<ArrayOf(1), ArrayOf(3), BulkLine, BulkLine, ArrayOf(2), NilLine, BulkLine>>)
<1>1. "Cmd" \in ReaderName /\ "element" \in ReaderName /\ 1 \in Nat /\ 3 \in Nat
  BY DEF ReaderName, CmdTypes
<1>2. /\ BulkLine \in Token /\ NilLine \in Token /\ ArrayOf(1) \in Token /\ ArrayOf(2) \in Token
      /\ ArrayOf(3) \in Token
  BY TokensAre
<1>3. PICK w \in Seq(ReaderName) : w = <<"element", "element">>
  BY <1>1, ListsOf
<1>4. PICK v \in Seq(ReaderName) : v = <<"element">>
  BY <1>1, ListsOf
<1>5. PICK b \in Seq(Token) : b = <<BulkLine, BulkLine>>
  BY <1>2, ListsOf
<1>6. PICK c \in Seq(Token) : c = <<ArrayOf(2), NilLine, BulkLine>>
  BY <1>2, ListsOf
<1>7. Takes(w, b)
  BY <1>1, <1>2, <1>3, <1>5, ValuesTaken, TwoTaken, Zenon
<1>8. Takes(v, c)
  BY <1>4, <1>6, PairsTaken, Zenon
<1>9. PICK d \in Seq(Token) : d = Join(b, c)
  BY JoinIs
<1>10. Takes(Join(w, v), d) /\ Join(w, v) \in Seq(ReaderName)
  <2>1. Takes(Join(w, v), d)
    BY <1>7, <1>8, <1>9, TakesBoth, Zenon
  <2> QED
    BY <2>1, JoinIs
<1>11. Wants("element", ArrayOf(3)) = Ok(Join(w, v))
  <2>1. <<"element", "element", "element">> = Join(<<"element", "element">>, <<"element">>)
    BY TwoAndOne
  <2> QED
    BY <2>1, <1>3, <1>4, ArraysRead, Zenon
<1>12. Takes(<<"element">>, Join(<<ArrayOf(3)>>, d)) /\ Join(<<ArrayOf(3)>>, d) \in Seq(Token)
  BY <1>1, <1>10, <1>11, ArrayTaken, Zenon
<1>13. Takes(<<"Cmd">>, Join(<<ArrayOf(1)>>, Join(<<ArrayOf(3)>>, d)))
  <2>1. Wants("Cmd", ArrayOf(1)) = Ok(v)
    BY <1>4, ArraysRead, Zenon
  <2> QED
    BY <2>1, <1>1, <1>4, <1>12, ArrayTaken, Zenon
<1>14. <<ArrayOf(1), ArrayOf(3), BulkLine, BulkLine, ArrayOf(2), NilLine, BulkLine>>
         = Join(<<ArrayOf(1)>>, Join(<<ArrayOf(3)>>, d))
  <2>1. <<BulkLine, BulkLine, ArrayOf(2), NilLine, BulkLine>>
          = Join(<<BulkLine, BulkLine>>, <<ArrayOf(2), NilLine, BulkLine>>)
    BY TwoAndThree
  <2>2. <<ArrayOf(3), BulkLine, BulkLine, ArrayOf(2), NilLine, BulkLine>>
          = Join(<<ArrayOf(3)>>, <<BulkLine, BulkLine, ArrayOf(2), NilLine, BulkLine>>)
    BY OneAndFive
  <2>3. <<ArrayOf(1), ArrayOf(3), BulkLine, BulkLine, ArrayOf(2), NilLine, BulkLine>>
          = Join(<<ArrayOf(1)>>, <<ArrayOf(3), BulkLine, BulkLine, ArrayOf(2), NilLine, BulkLine>>)
    BY OneAndSix
  <2> QED
    BY <2>1, <2>2, <2>3, <1>5, <1>6, <1>9, Zenon
<1> QED
  BY <1>13, <1>14, Zenon

\* A place: its name, or with it the distance, the hash and the coordinates that were
\* asked for.
LEMMA PlaceTaken == Takes(<<"location">>, Place)
<1>1. /\ "location" \in ReaderName /\ "String" \in ReaderName /\ "Float" \in ReaderName /\ "Int" \in ReaderName
      /\ "coord" \in ReaderName
  BY DEF ReaderName, CmdTypes
<1>2. BulkLine \in Token /\ NumberLine \in Token /\ IntLine \in Token /\ ArrayOf(2) \in Token
  BY TokensAre
<1>3. CASE LocationFields = {}
  BY <1>3, ValuesTaken DEF Place
<1>4. CASE LocationFields # {}
  <2>1. PICK n : n = 1 + Cardinality(LocationFields)
    OBVIOUS
  <2>2. n \in Nat
    BY <2>1, FieldsCounted
  <2>3. PICK s \in Seq(ReaderName), b \in Seq(Token) : s = <<"String">> /\ b = <<BulkLine>> /\ Takes(s, b)
    BY <1>1, <1>2, ListsOf, ValuesTaken
  <2>4. PICK ds \in Seq(ReaderName), db \in Seq(Token) :
          /\ ds = IF "dist" \in LocationFields THEN <<"Float">> ELSE <<>>
          /\ db = IF "dist" \in LocationFields THEN <<NumberLine>> ELSE <<>>
          /\ Takes(ds, db)
    BY <1>1, <1>2, ListsOf, ValuesTaken, TakesNothing
  <2>5. PICK hs \in Seq(ReaderName), hb \in Seq(Token) :
          /\ hs = IF "hash" \in LocationFields THEN <<"Int">> ELSE <<>>
          /\ hb = IF "hash" \in LocationFields THEN <<IntLine>> ELSE <<>>
          /\ Takes(hs, hb)
    BY <1>1, <1>2, ListsOf, ValuesTaken, TakesNothing
  <2>6. PICK cs \in Seq(ReaderName), cb \in Seq(Token) :
          /\ cs = IF "coord" \in LocationFields THEN <<"coord">> ELSE <<>>
          /\ cb = IF "coord" \in LocationFields THEN <<ArrayOf(2), NumberLine, NumberLine>> ELSE <<>>
          /\ Takes(cs, cb)
    BY <1>1, <1>2, ListsOf, PairsTaken, TakesNothing
  <2>7. PICK w \in Seq(ReaderName), d \in Seq(Token) :
          w = Join(Join(Join(s, ds), hs), cs) /\ d = Join(Join(Join(b, db), hb), cb)
    BY JoinIs
  <2>8. Takes(w, d)
    <3>1. Takes(Join(s, ds), Join(b, db)) /\ Join(s, ds) \in Seq(ReaderName) /\ Join(b, db) \in Seq(Token)
      BY <2>3, <2>4, TakesBoth, JoinIs
    <3>2. /\ Takes(Join(Join(s, ds), hs), Join(Join(b, db), hb))
          /\ Join(Join(s, ds), hs) \in Seq(ReaderName) /\ Join(Join(b, db), hb) \in Seq(Token)
      BY <3>1, <2>5, TakesBoth, JoinIs
    <3> QED
      BY <3>2, <2>6, <2>7, TakesBoth
  <2>9. Location = w
    BY <2>3, <2>4, <2>5, <2>6, <2>7, Zenon DEF Location, Join
  <2>10. Takes(<<"location">>, Join(<<ArrayOf(n)>>, d))
    <3>1. Wants("location", ArrayOf(n)) = Ok(w)
      BY <2>9, NestedRead, Zenon
    <3> QED
      BY <3>1, <2>2, <2>8, <1>1, ArrayTaken, Zenon
  <2>11. Join(<<ArrayOf(n)>>, d) = Place
    <3>1. PICK e \in Seq(Token) : e = <<ArrayOf(n)>>
      <4>1. ArrayOf(n) \in Token
        BY <2>2 DEF Token
      <4> QED
        BY <4>1, ListsOf
    <3>2. Join(e, d) = Join(Join(Join(Join(e, b), db), hb), cb)
      <4>1. /\ e \in Seq(Token) /\ b \in Seq(Token) /\ db \in Seq(Token) /\ hb \in Seq(Token) /\ cb \in Seq(Token)
            /\ Join(b, db) \in Seq(Token) /\ Join(Join(b, db), hb) \in Seq(Token)
        <5>1. Join(b, db) \in Seq(Token)
          BY JoinIs
        <5>2. Join(Join(b, db), hb) \in Seq(Token)
          BY <5>1, JoinIs
        <5> QED
          BY <5>1, <5>2, <3>1
      <4>2. \A x, y, z \in Seq(Token) : Join(x, Join(y, z)) = Join(Join(x, y), z)
        BY JoinAssociates
      <4>3. Join(e, Join(Join(Join(b, db), hb), cb)) = Join(Join(e, Join(Join(b, db), hb)), cb)
        BY <4>1, <4>2, SMT
      <4>4. Join(e, Join(Join(b, db), hb)) = Join(Join(e, Join(b, db)), hb)
        BY <4>1, <4>2, SMT
      <4>5. Join(e, Join(b, db)) = Join(Join(e, b), db)
        BY <4>1, <4>2, SMT
      <4> QED
        BY <4>3, <4>4, <4>5, <2>7, Zenon
    <3>3. Join(e, b) = <<ArrayOf(n), BulkLine>>
      BY <2>3, <3>1, TwoAre, Zenon
    <3>4. Place = <<ArrayOf(n), BulkLine>> \o db \o hb \o cb
      BY <1>4, <2>1, <2>4, <2>5, <2>6, Zenon DEF Place
    <3> QED
      BY <3>1, <3>2, <3>3, <3>4, Zenon DEF Join
  <2> QED
    BY <2>10, <2>11, Zenon
<1> QED
  BY <1>3, <1>4

LEMMA PlacesTaken == Takes(<<"GeoLocation">>, <<ArrayOf(2)>> \o Place \o Place)
<1>1. "GeoLocation" \in ReaderName /\ "location" \in ReaderName /\ 2 \in Nat
  BY DEF ReaderName, CmdTypes
<1>2. <<"location", "location">> \in Seq(ReaderName)
  BY <1>1, ListsOf
<1>3. Takes(<<"location", "location">>, Join(Place, Place))
  BY <1>1, PlaceIs, PlaceTaken, TakesTwo, Zenon
<1>4. Join(Place, Place) \in Seq(Token)
  BY PlaceIs, JoinIs
<1>5. Wants("GeoLocation", ArrayOf(2)) = Ok(<<"location", "location">>)
  BY NestedRead
<1>6. Takes(<<"GeoLocation">>, Join(<<ArrayOf(2)>>, Join(Place, Place)))
  BY <1>1, <1>2, <1>3, <1>4, <1>5, ArrayTaken, Zenon
<1>7. Join(<<ArrayOf(2)>>, Join(Place, Place)) = Join(Join(<<ArrayOf(2)>>, Place), Place)
  <2>1. <<ArrayOf(2)>> \in Seq(Token)
    BY TokensAre, ListsOf
  <2>2. \A x, y, z \in Seq(Token) : Join(x, Join(y, z)) = Join(Join(x, y), z)
    BY JoinAssociates
  <2> QED
    BY <2>1, <2>2, PlaceIs, Zenon
<1> QED
  BY <1>6, <1>7, Zenon DEF Join

-----------------------------------------------------------------------------
(* Each method reads the replies to it.                                    *)

\* The types of the commands that are answered in such a shape.
ReadersOf ==
  [status   |-> {"Status", "Bool", "String"},
   int      |-> {"Int", "Duration", "Bool"},
   nil      |-> {"Int", "Duration", "Bool", "String", "Float"},
   bulk     |-> {"String"},
   number   |-> {"Float"},
   strings  |-> {"StringSlice", "Slice", "StringStringMap"},
   holes    |-> {"Slice"},
   nilArray |-> {"StringSlice", "String"},
   ints     |-> {"BoolSlice"},
   counts   |-> {"StringIntMap"},
   scores   |-> {"ZSlice"},
   page     |-> {"Scan"},
   slots    |-> {"ClusterSlot"},
   places   |-> {"GeoLocation"},
   script   |-> IF ScriptErrors THEN {} ELSE {"Cmd"},
   end      |-> {"Status"}]

\* The methods that may be answered what they do not read to its end: a nil where
\* stringSliceParser wants a string, an error where sliceParser wants an element.
Misfits == {"Sort", "GeoHash"} \cup (IF ScriptErrors THEN {"Eval", "EvalSha"} ELSE {})

\* Section s lists its methods under types that read what they are answered.
Suits(s) ==
  \A t \in DOMAIN s :
    /\ t \in CmdTypes
    /\ \A m \in s[t] \ Misfits :
         /\ \A k \in DOMAIN ReplyShapes : m \in ReplyShapes[k] => t \in ReadersOf[k]
         /\ m \in {"SetNX", "SetXX"} => t = "Bool"
         /\ m = "BRPopLPush" <=> t = "String" /\ m \in ReplyShapes.nilArray

LEMMA SectionsSuit == \A s \in Sections : Suits(s)
<1>1. Suits(Connection)
  BY DEF Suits, Connection, CmdTypes, ReplyShapes, ReadersOf, Misfits
<1>2. Suits(Keys)
  BY DEF Suits, Keys, CmdTypes, ReplyShapes, ReadersOf, Misfits
<1>3. Suits(KeysAndCursors)
  BY DEF Suits, KeysAndCursors, CmdTypes, ReplyShapes, ReadersOf, Misfits
<1>4. Suits(Strings)
  BY DEF Suits, Strings, CmdTypes, ReplyShapes, ReadersOf, Misfits
<1>5. Suits(StringsOfMany)
  BY DEF Suits, StringsOfMany, CmdTypes, ReplyShapes, ReadersOf, Misfits
<1>6. Suits(Hashes)
  BY DEF Suits, Hashes, CmdTypes, ReplyShapes, ReadersOf, Misfits
<1>7. Suits(Lists)
  BY DEF Suits, Lists, CmdTypes, ReplyShapes, ReadersOf, Misfits
<1>8. Suits(SetsOfRedis)
  BY DEF Suits, SetsOfRedis, CmdTypes, ReplyShapes, ReadersOf, Misfits
<1>9. Suits(SortedSets)
  BY DEF Suits, SortedSets, CmdTypes, ReplyShapes, ReadersOf, Misfits
<1>10. Suits(SortedRanges)
  BY DEF Suits, SortedRanges, CmdTypes, ReplyShapes, ReadersOf, Misfits
<1>11. Suits(SortedScores)
  BY DEF Suits, SortedScores, CmdTypes, ReplyShapes, ReadersOf, Misfits
<1>12. Suits(HyperLogLog)
  BY DEF Suits, HyperLogLog, CmdTypes, ReplyShapes, ReadersOf, Misfits
<1>13. Suits(Administration)
  BY DEF Suits, Administration, CmdTypes, ReplyShapes, ReadersOf, Misfits
<1>14. Suits(Scripting)
  BY DEF Suits, Scripting, CmdTypes, ReplyShapes, ReadersOf, Misfits
<1>15. Suits(PubSubState)
  BY DEF Suits, PubSubState, CmdTypes, ReplyShapes, ReadersOf, Misfits
<1>16. Suits(ClusterState)
  BY DEF Suits, ClusterState, CmdTypes, ReplyShapes, ReadersOf, Misfits
<1>17. Suits(Geo)
  BY DEF Suits, Geo, CmdTypes, ReplyShapes, ReadersOf, Misfits
<1> QED
  BY <1>1, <1>2, <1>3, <1>4, <1>5, <1>6, <1>7, <1>8, <1>9, <1>10, <1>11, <1>12,
     <1>13, <1>14, <1>15, <1>16, <1>17
     DEF Sections

LEMMA TypesSuit ==
  ASSUME NEW m \in Methods \ Misfits
  PROVE  /\ \A k \in ShapesOf[m] : TypeOf[m] \in ReadersOf[k]
         /\ m \in {"SetNX", "SetXX"} => TypeOf[m] = "Bool"
         /\ m = "BRPopLPush" <=> TypeOf[m] = "String" /\ "nilArray" \in ShapesOf[m]
         /\ TypeOf[m] \in CmdTypes
<1>1. PICK s \in Sections : \E t \in DOMAIN s : m \in s[t]
  BY DEF Methods
<1> PICK t \in DOMAIN s : m \in s[t]
  BY <1>1
<1>2. t \in TypesOf(m)
  BY SectionsSuit DEF Suits, TypesOf
<1>3. TypeOf[m] \in TypesOf(m)
  <2>1. TypeOf[m] = CHOOSE x \in TypesOf(m) : TRUE
    BY DEF TypeOf
  <2> QED
    BY <2>1, <1>2
<1>4. PICK q \in Sections : TypeOf[m] \in DOMAIN q /\ m \in q[TypeOf[m]]
  BY <1>3 DEF TypesOf
<1>5. Suits(q)
  BY SectionsSuit
<1>6. /\ ShapesOf[m] = {k \in DOMAIN ReplyShapes : m \in ReplyShapes[k]}
      /\ "nilArray" \in DOMAIN ReplyShapes
  BY DEF ShapesOf, ReplyShapes
<1> QED
  BY <1>4, <1>5, <1>6 DEF Suits

-----------------------------------------------------------------------------
(* And reads them whole.                                                   *)

LEMMA LineRead ==
  ASSUME NEW r, NEW t, Wants(r, t) = Ok(<<>>)
  PROVE  ReadsWhole(r, <<t>>) /\ ReadReply(r, <<t>>).err = "none"
<1>1. Wants(r, t).rest = <<>> /\ Wants(r, t).err = "none"
  BY DEF Ok
<1> QED
  BY <1>1, OneLine

LEMMA LineFails ==
  ASSUME NEW r, NEW t, NEW e, e # "network", Wants(r, t) = Fail(e)
  PROVE  ReadsWhole(r, <<t>>) /\ ReadReply(r, <<t>>).err = e
<1>1. Wants(r, t).rest = <<>> /\ Wants(r, t).err = e
  BY DEF Fail
<1> QED
  BY <1>1, OneLine

LEMMA EmptyRead ==
  \A r \in {"StringSlice", "Slice", "StringStringMap", "StringIntMap", "ZSlice"} : Wants(r, ArrayOf(0)) = Ok(<<>>)
<1>1. /\ Times("String", 0) = <<>> /\ Times("element", 0) = <<>> /\ Pairs("String", "String", 0) = <<>>
      /\ Pairs("String", "Int", 0) = <<>> /\ Pairs("String", "Float", 0) = <<>>
  BY TimesAre, Zenon
<1> QED
  BY <1>1, ArraysRead

\* How the reply a, of shape k, is read for a command of type t.
Fits(k, t, a) ==
  /\ ReadsWhole(t, a)
  /\ \/ ReadReply(t, a).err = "none"
     \/ ReadReply(t, a).err = "nil" /\ k \in {"nil", "nilArray", "script"} /\ t # "Bool"
                                    /\ ~ (k = "nilArray" /\ t = "String")
     \/ ReadReply(t, a).err = "parse" /\ k = "nilArray" /\ t = "String"

LEMMA ShapesFit ==
  ASSUME NEW k \in DOMAIN ReplyShapes, NEW t \in ReadersOf[k], NEW a \in Replies(k)
  PROVE  Fits(k, t, a)
<1>1. ASSUME NEW x, Wants(t, x) = Ok(<<>>), a = <<x>>
      PROVE  Fits(k, t, a)
  BY <1>1, LineRead DEF Fits
<1>2. ASSUME Takes(<<t>>, a), t \in CmdTypes
      PROVE  Fits(k, t, a)
  <2>1. a \in Seq(Token)
    BY RepliesAre
  <2>2. t \in ReaderName
    BY <1>2 DEF ReaderName
  <2> QED
    BY <2>1, <2>2, <1>2, TakenWhole DEF Fits
<1>3. CASE k = "status"
  <2>1. t \in {"Status", "Bool", "String"} /\ a = <<StatusLine>>
    BY <1>3 DEF ReadersOf, Replies
  <2> QED
    BY <2>1, <1>1, LinesRead
<1>4. CASE k = "int"
  <2>1. t \in {"Int", "Duration", "Bool"} /\ a = <<IntLine>>
    BY <1>4 DEF ReadersOf, Replies
  <2> QED
    BY <2>1, <1>1, LinesRead
<1>5. CASE k = "nil"
  <2>1. t \in {"Int", "Duration", "String", "Float"} \cup {"Bool"} /\ a = <<NilLine>>
    BY <1>5 DEF ReadersOf, Replies
  <2>2. CASE t = "Bool"
    BY <2>1, <2>2, <1>1, LinesRead
  <2>3. CASE t # "Bool"
    <3>1. Wants(t, NilLine) = Fail("nil")
      BY <2>1, <2>3, LinesRead
    <3>2. ReadsWhole(t, a) /\ ReadReply(t, a).err = "nil"
      BY <3>1, <2>1, LineFails
    <3> QED
      BY <3>2, <2>3, <1>5 DEF Fits
  <2> QED
    BY <2>2, <2>3
<1>6. CASE k = "bulk"
  <2>1. t = "String" /\ a = <<BulkLine>>
    BY <1>6 DEF ReadersOf, Replies
  <2> QED
    BY <2>1, <1>1, LinesRead
<1>7. CASE k = "number"
  <2>1. t = "Float" /\ a = <<NumberLine>>
    BY <1>7 DEF ReadersOf, Replies
  <2> QED
    BY <2>1, <1>1, LinesRead
<1>8. CASE k = "strings"
  <2>1. t \in {"StringSlice", "Slice", "StringStringMap"} /\ a \in {<<ArrayOf(0)>>, <<ArrayOf(2), BulkLine, BulkLine>>}
    BY <1>8 DEF ReadersOf, Replies
  <2>2. CASE a = <<ArrayOf(0)>>
    BY <2>1, <2>2, <1>1, EmptyRead
  <2>3. CASE a = <<ArrayOf(2), BulkLine, BulkLine>>
    <3>1. Takes(<<t>>, a)
      BY <2>1, <2>3, PairsTaken
    <3>2. t \in CmdTypes
      BY <2>1 DEF CmdTypes
    <3> QED
      BY <3>1, <3>2, <1>2
  <2> QED
    BY <2>1, <2>2, <2>3
<1>9. CASE k = "holes"
  <2>1. t = "Slice" /\ a = <<ArrayOf(2), NilLine, BulkLine>>
    BY <1>9 DEF ReadersOf, Replies
  <2> QED
    BY <2>1, <1>2, PairsTaken DEF CmdTypes
<1>10. CASE k = "nilArray"
  <2>1. t \in {"StringSlice", "String"} /\ a = <<NilArrayLine>>
    BY <1>10 DEF ReadersOf, Replies
  <2>2. CASE t = "StringSlice"
    <3>1. ReadsWhole(t, a) /\ ReadReply(t, a).err = "nil"
      BY <2>1, <2>2, LineFails, LinesRead
    <3> QED
      BY <3>1, <2>2, <1>10 DEF Fits
  <2>3. CASE t = "String"
    <3>1. ReadsWhole(t, a) /\ ReadReply(t, a).err = "parse"
      BY <2>1, <2>3, LineFails, LinesRead
    <3> QED
      BY <3>1, <2>3, <1>10 DEF Fits
  <2> QED
    BY <2>1, <2>2, <2>3
<1>11. CASE k = "ints"
  <2>1. t = "BoolSlice" /\ a = <<ArrayOf(2), IntLine, IntLine>>
    BY <1>11 DEF ReadersOf, Replies
  <2> QED
    BY <2>1, <1>2, PairsTaken DEF CmdTypes
<1>12. CASE k = "counts"
  <2>1. t = "StringIntMap" /\ a \in {<<ArrayOf(0)>>, <<ArrayOf(2), BulkLine, IntLine>>}
    BY <1>12 DEF ReadersOf, Replies
  <2>2. CASE a = <<ArrayOf(0)>>
    BY <2>1, <2>2, <1>1, EmptyRead
  <2>3. CASE a = <<ArrayOf(2), BulkLine, IntLine>>
    BY <2>1, <2>3, <1>2, PairsTaken DEF CmdTypes
  <2> QED
    BY <2>1, <2>2, <2>3
<1>13. CASE k = "scores"
  <2>1. t = "ZSlice" /\ a \in {<<ArrayOf(0)>>, <<ArrayOf(4), BulkLine, NumberLine, BulkLine, NumberLine>>}
    BY <1>13 DEF ReadersOf, Replies
  <2>2. CASE a = <<ArrayOf(0)>>
    BY <2>1, <2>2, <1>1, EmptyRead
  <2>3. CASE a = <<ArrayOf(4), BulkLine, NumberLine, BulkLine, NumberLine>>
    BY <2>1, <2>3, <1>2, ScoresTaken DEF CmdTypes
  <2> QED
    BY <2>1, <2>2, <2>3
<1>14. CASE k = "page"
  <2>1. t = "Scan" /\ Takes(<<"Scan">>, a)
    <3>1. a \in {<<ArrayOf(2), NumberLine, ArrayOf(2), BulkLine, BulkLine>>, <<ArrayOf(2), NumberLine, ArrayOf(0)>>}
      BY <1>14 DEF Replies
    <3> QED
      BY <3>1, <1>14, PagesTaken DEF ReadersOf
  <2> QED
    BY <2>1, <1>2 DEF CmdTypes
<1>15. CASE k = "slots"
  <2>1. t = "ClusterSlot" /\ Takes(<<"ClusterSlot">>, a)
    <3>1. a = <<ArrayOf(1), ArrayOf(4), IntLine, IntLine, ArrayOf(2), BulkLine, IntLine, ArrayOf(2), BulkLine, IntLine>>
      BY <1>15 DEF Replies
    <3>2. Takes(<<"ClusterSlot">>, a)
      BY <3>1, SlotsTaken, Zenon
    <3> QED
      BY <3>2, <1>15 DEF ReadersOf
  <2> QED
    BY <2>1, <1>2 DEF CmdTypes
<1>16. CASE k = "places"
  <2>1. t = "GeoLocation" /\ Takes(<<"GeoLocation">>, a)
    <3>1. a = <<ArrayOf(2)>> \o Place \o Place
      BY <1>16, Zenon DEF Replies
    <3>2. Takes(<<"GeoLocation">>, a)
      BY <3>1, PlacesTaken, Zenon
    <3> QED
      BY <3>2, <1>16 DEF ReadersOf
  <2> QED
    BY <2>1, <1>2 DEF CmdTypes
<1>17. CASE k = "script"
  <2>1. t = "Cmd" /\ a \in {<<IntLine>>, <<NilLine>>,
                            <<ArrayOf(1), ArrayOf(3), BulkLine, BulkLine, ArrayOf(2), NilLine, BulkLine>>}
    BY <1>17 DEF ReadersOf, Replies
  <2>2. CASE a = <<IntLine>>
    BY <2>1, <2>2, <1>1, LinesRead
  <2>3. CASE a = <<NilLine>>
    <3>1. ReadsWhole(t, a) /\ ReadReply(t, a).err = "nil"
      BY <2>1, <2>3, LineFails, LinesRead
    <3> QED
      BY <3>1, <2>1, <1>17 DEF Fits
  <2>4. CASE a = <<ArrayOf(1), ArrayOf(3), BulkLine, BulkLine, ArrayOf(2), NilLine, BulkLine>>
    <3>1. Takes(<<t>>, a)
      BY <2>1, <2>4, ScriptTaken, Zenon
    <3> QED
      BY <3>1, <2>1, <1>2 DEF CmdTypes
  <2> QED
    BY <2>1, <2>2, <2>3, <2>4
<1>18. CASE k = "end"
  BY <1>18 DEF Replies
<1>19. k \in {"status", "int", "nil", "bulk", "number", "strings", "holes", "nilArray", "ints", "counts", "scores",
              "page", "slots", "places", "script", "end"}
  BY DEF ReplyShapes
<1> QED
  BY <1>3, <1>4, <1>5, <1>6, <1>7, <1>8, <1>9, <1>10, <1>11, <1>12, <1>13, <1>14, <1>15, <1>16, <1>17, <1>18, <1>19

\* Methods that Redis may answer nil, which their commands tell.
MayBeNil ==
  (ReplyShapes.nil \ {"SetNX", "SetXX"}) \cup (ReplyShapes.nilArray \ {"BRPopLPush"}) \cup ReplyShapes.script

LEMMA AnswersFitted ==
  ASSUME NEW m \in Methods \ Misfits, NEW a \in Answers(m)
  PROVE  /\ ReadsWhole(TypeOf[m], a)
         /\ ReadReply(TypeOf[m], a).err = "parse" => m = "BRPopLPush"
         /\ ReadReply(TypeOf[m], a).err \in {"none", "nil", "redis", "parse"}
         /\ a # <<ErrorLine>> /\ m \notin MayBeNil => ReadReply(TypeOf[m], a).err \in {"none", "parse"}
<1>1. CASE a = <<ErrorLine>>
  <2>1. TypeOf[m] \in CmdTypes
    BY TypesSuit
  <2>2. Wants(TypeOf[m], ErrorLine) = Fail("redis")
    BY <2>1, LinesRead
  <2> QED
    BY <2>2, <1>1, LineFails
<1>2. CASE a # <<ErrorLine>>
  <2>1. PICK k \in ShapesOf[m] : a \in Replies(k)
    BY <1>2 DEF Answers
  <2>2. k \in DOMAIN ReplyShapes /\ m \in ReplyShapes[k]
    BY <2>1 DEF ShapesOf
  <2>3. Fits(k, TypeOf[m], a)
    BY <2>1, <2>2, TypesSuit, ShapesFit
  <2>4. ASSUME k = "nilArray", TypeOf[m] = "String"
        PROVE  m = "BRPopLPush"
    BY <2>1, <2>4, TypesSuit
  <2>5. ASSUME k \in {"nil", "nilArray", "script"}, TypeOf[m] # "Bool", ~ (k = "nilArray" /\ TypeOf[m] = "String")
        PROVE  m \in MayBeNil
    <3>1. m \notin {"SetNX", "SetXX"} /\ (k = "nilArray" => m # "BRPopLPush")
      BY <2>1, <2>5, TypesSuit
    <3> QED
      BY <3>1, <2>2, <2>5 DEF MayBeNil
  <2> QED
    BY <2>3, <2>4, <2>5, <1>2 DEF Fits
<1> QED
  BY <1>1, <1>2

\* All methods but Sort and GeoHash, and Eval and EvalSha where a script may return an
\* error within an array, in any order, in pipelines and transactions those that are
\* not answered nil: whatever is late or lost and however often it is repeated,
\* a connection goes back to the pool without a pending reply, every value is of the
\* command's own reply, and every reply is understood (commands.go, parser.go and the
\* calls of redis.go, pipeline.go and multi.go).
THEOREM EveryMethodIsAnswered ==
  ASSUME (UsedMethods \cup PipeMethods) \cap Misfits = {}, PipeMethods \cap MayBeNil = {},
         Mishaps \subseteq {"multiFunction"}
  PROVE  ConnSpec => [](NothingPending /\ OwnReplies /\ RepliesUnderstood)
<1>1. ASSUME NEW m \in UsedMethods \cup PipeMethods
      PROVE  m \in Methods \ Misfits
  BY RedisConnAssumption
<1>2. Fitting
  <2>1. \A m \in UsedMethods \cup PipeMethods : Readable(m)
    BY <1>1, AnswersFitted DEF Readable
  <2>2. \A m \in PipeMethods : NeverNil(m)
    <3> SUFFICES ASSUME NEW m \in PipeMethods, NEW a \in Answers(m), a # <<ErrorLine>>
                 PROVE  ReadReply(TypeOf[m], a).err \notin {"nil", "redis"}
      BY DEF NeverNil
    <3>1. ReadReply(TypeOf[m], a).err \in {"none", "parse"}
      BY <1>1, AnswersFitted
    <3> QED
      BY <3>1
  <2> QED
    BY <2>1, <2>2 DEF Fitting
<1>3. Understandable
  <2> SUFFICES ASSUME NEW m \in (UsedMethods \cup PipeMethods) \ {"Sort", "BRPopLPush"}, NEW a \in Answers(m)
               PROVE  ReadReply(TypeOf[m], a).err \in {"none", "redis", "nil"}
    BY DEF Understandable, Understands
  <2>1. m \in Methods \ Misfits /\ m # "BRPopLPush"
    BY <1>1
  <2> QED
    BY <2>1, AnswersFitted
<1> QED
  BY <1>2, <1>3, ConnectionsAreClean, RepliesAreOwn, RepliesAreUnderstood, PTL
=============================================================================
