--------------------------- MODULE ConnPoolProofs ---------------------------
(***************************************************************************)
(* What ConnPool guarantees for every number of goroutines and every pool  *)
(* size, until the pool is closed.                                         *)
(***************************************************************************)
EXTENDS ConnPool, FiniteSetTheorems, SequenceTheorems, TLAPS

Labels ==
  {"idle", "first", "drop", "reserve", "dial", "undial", "unreserve", "add", "wait",
   "use", "put", "renew", "replace", "unlist", "send", "drain", "shut", "end", "panic"}

(* The types, and that only Close waits for the deadline of Close.         *)
Typed ==
  /\ PoolTypeOK
  /\ closed \in BOOLEAN
  /\ pc \in [Proc -> Labels]
  /\ cn \in [Proc -> Conn \cup {NULL}]
  /\ newcn \in [Proc -> Conn \cup {NULL}]
  /\ back \in [Proc -> {"idle", "wait", "drain"}]
  /\ \A p \in Proc : pc[p] \in {"drain", "shut", "end"} \/ back[p] = "drain" => closed

-----------------------------------------------------------------------------
(* Types.                                                                  *)

\* The pool New returns.
LEMMA InitTyped == PoolInit => Typed
<1> SUFFICES ASSUME PoolInit PROVE Typed
  OBVIOUS
<1>1. free \in Seq(Conn)
  BY EmptySeq DEF PoolInit
<1>2. PoolTypeOK
  BY <1>1 DEF PoolInit, PoolTypeOK
<1>3. pc \in [Proc -> Labels] /\ back \in [Proc -> {"idle", "wait", "drain"}]
  BY DEF PoolInit, Labels
<1>4. cn \in [Proc -> Conn \cup {NULL}] /\ newcn \in [Proc -> Conn \cup {NULL}]
  BY DEF PoolInit
<1>5. \A p \in Proc : pc[p] = "idle" /\ back[p] = "idle"
  BY DEF PoolInit
<1> QED
  BY <1>2, <1>3, <1>4, <1>5 DEF PoolInit, Typed

\* The head and the rest of the channel.
LEMMA FreeTyped ==
  ASSUME Typed, free # <<>>
  PROVE  /\ Head(free) \in Conn
         /\ Tail(free) \in Seq(Conn)
  BY HeadTailProperties DEF Typed, PoolTypeOK

\* Unlist, of a Drop or of a Remove without a replacement.
LEMMA UnlistTyped ==
  ASSUME Typed, NEW p \in Proc, NEW l \in {"first", "idle", "wait", "drain"},
         pc[p] \in {"drop", "unlist"}, l = "drain" => closed, Unlist(p, l)
  PROVE  Typed'
<1>1. pc' = [pc EXCEPT ![p] = l] \/ pc' = [pc EXCEPT ![p] = "panic"]
  BY DEF Unlist, Goto
<1>2. list' \subseteq list /\ open' \subseteq open /\ len' \in Int
  BY DEF Unlist, Shutdown, Typed, PoolTypeOK
<1>3. UNCHANGED <<free, closed, newcn>>
  BY DEF Unlist
<1>4. cn' = [cn EXCEPT ![p] = NULL] /\ back' = [back EXCEPT ![p] = "idle"]
  BY DEF Unlist
<1> QED
  BY <1>1, <1>2, <1>3, <1>4 DEF Typed, PoolTypeOK, Labels

\* A dial, of Get or of Remove.
LEMMA NewTyped ==
  ASSUME Typed, NEW p \in Proc,
         \/ /\ pc[p] = "dial" /\ New(p, "add", "undial")
         \/ /\ pc[p] = "renew" /\ New(p, "replace", "unlist"),
         UNCHANGED <<list, len, free, closed, fresh, nilList, cn, back, left, gets>>
  PROVE  Typed'
<1>1. CASE UNCHANGED <<open, newcn>>
  BY <1>1 DEF New, Goto, Typed, PoolTypeOK, Labels
<1>2. CASE \E c \in Conn : open' = open \cup {c} /\ newcn' = [newcn EXCEPT ![p] = c]
  BY <1>2 DEF New, Goto, Typed, PoolTypeOK, Labels
<1> QED
  BY <1>1, <1>2 DEF New, Unknown

\* Every step keeps the types.
LEMMA NextTyped == Typed /\ [PoolNext]_poolVars => Typed'
<1> SUFFICES ASSUME Typed, [PoolNext]_poolVars PROVE Typed'
  OBVIOUS
<1>1. ASSUME NEW p \in Proc, Get(p) PROVE Typed'
  BY <1>1 DEF Get, Goto, shared, Typed, PoolTypeOK, Labels
<1>2. ASSUME NEW p \in Proc, First(p) PROVE Typed'
  <2>1. CASE free # <<>>
    <3>1. Head(free) \in Conn /\ Tail(free) \in Seq(Conn)
      BY <2>1, FreeTyped
    <3>2. /\ cn' = [cn EXCEPT ![p] = Head(free)] /\ free' = Tail(free)
          /\ \E l \in {"drop", "put", "use"} : pc' = [pc EXCEPT ![p] = l]
          /\ UNCHANGED <<list, len, open, closed, newcn, back>>
      BY <1>2, <2>1 DEF First, Goto
    <3> QED
      BY <1>2, <3>1, <3>2 DEF First, Typed, PoolTypeOK, Labels
  <2>2. CASE free = <<>>
    BY <1>2, <2>2 DEF First, Goto, Typed, PoolTypeOK, Labels
  <2> QED
    BY <2>1, <2>2
<1>3. ASSUME NEW p \in Proc, Drop(p) PROVE Typed'
  BY <1>3, UnlistTyped DEF Drop
<1>4. ASSUME NEW p \in Proc, Reserve(p) PROVE Typed'
  BY <1>4 DEF Reserve, Goto, Typed, PoolTypeOK, Labels
<1>5. ASSUME NEW p \in Proc, Unreserve(p) PROVE Typed'
  BY <1>5 DEF Unreserve, Goto, Typed, PoolTypeOK, Labels
<1>6. ASSUME NEW p \in Proc, Dial(p) \/ Renew(p) PROVE Typed'
  BY <1>6, NewTyped DEF Dial, Renew
<1>7. ASSUME NEW p \in Proc, Add(p) PROVE Typed'
  BY <1>7 DEF Add, Goto, Typed, PoolTypeOK, Labels
<1>8. ASSUME NEW p \in Proc, Receive(p) PROVE Typed'
  <2>1. pc[p] \in {"wait", "drain"} /\ free # <<>>
    BY <1>8 DEF Receive
  <2>2. /\ Head(free) \in Conn
        /\ free' = Tail(free) /\ Tail(free) \in Seq(Conn)
    BY <1>8, <2>1, FreeTyped DEF Receive
  <2>3. \/ back' = [back EXCEPT ![p] = pc[p]]
        \/ UNCHANGED back
    BY <1>8 DEF Receive
  <2>4. \/ pc' = [pc EXCEPT ![p] = "renew"] /\ cn' = [cn EXCEPT ![p] = Head(free)]
        \/ pc' = [pc EXCEPT ![p] = "use"] /\ cn' = [cn EXCEPT ![p] = Head(free)]
        \/ pc[p] = "drain" /\ pc' = [pc EXCEPT ![p] = "drain"] /\ UNCHANGED cn
        \/ pc[p] = "drain" /\ pc' = [pc EXCEPT ![p] = "shut"] /\ UNCHANGED cn
    BY <1>8 DEF Receive, Goto
  <2>5. UNCHANGED <<list, len, open, closed, newcn>>
    BY <1>8 DEF Receive
  <2> QED
    BY <2>1, <2>2, <2>3, <2>4, <2>5, SMTT(60) DEF Typed, PoolTypeOK, Labels
<1>9. ASSUME NEW p \in Proc, Done(p) PROVE Typed'
  BY <1>9 DEF Done, Goto, shared, Typed, PoolTypeOK, Labels
<1>10. ASSUME NEW p \in Proc, Put(p) PROVE Typed'
  BY <1>10 DEF Put, Goto, Typed, PoolTypeOK, Labels
<1>11. ASSUME NEW p \in Proc, RemoveFailed(p) PROVE Typed'
  BY <1>11, UnlistTyped DEF RemoveFailed, Typed
<1>12. ASSUME NEW p \in Proc, Replace(p) PROVE Typed'
  BY <1>12 DEF Replace, Shutdown, Goto, Typed, PoolTypeOK, Labels
<1>13. ASSUME NEW p \in Proc, Send(p) PROVE Typed'
  BY <1>13 DEF Send, Goto, Typed, PoolTypeOK, Labels
<1>14. ASSUME NEW p \in Proc, Timeout(p) PROVE Typed'
  BY <1>14 DEF Timeout, Goto, shared, Typed, PoolTypeOK, Labels
<1>15. ASSUME NEW p \in Proc, Close(p) PROVE Typed'
  BY <1>15 DEF Close, Goto, Typed, PoolTypeOK, Labels
<1>16. ASSUME NEW p \in Proc, Shut(p) PROVE Typed'
  BY <1>16 DEF Shut, Shutdown, Goto, Typed, PoolTypeOK, Labels
<1>17. ASSUME NEW c \in Conn, Age(c) PROVE Typed'
  BY <1>17 DEF Age, Typed, PoolTypeOK, Labels
<1>18. CASE UNCHANGED poolVars
  BY <1>18 DEF poolVars, shared, Typed, PoolTypeOK, Labels
<1> QED
  BY <1>1, <1>2, <1>3, <1>4, <1>5, <1>6, <1>7, <1>8, <1>9, <1>10, <1>11, <1>12,
     <1>13, <1>14, <1>15, <1>16, <1>17, <1>18 DEF PoolNext, Step

-----------------------------------------------------------------------------
(* Who has which connection.                                               *)

\* p has connection c of the pool in its hands.
Holds(p, c) == cn[p] = c \/ (newcn[p] = c /\ pc[p] = "send")

(* Where a goroutine stands tells what it has.                             *)
InHand ==
  /\ \A p \in Proc : cn[p] # NULL <=> pc[p] \in {"drop", "use", "put", "renew", "replace", "unlist"}
  /\ \A p \in Proc : newcn[p] # NULL <=> pc[p] \in {"add", "replace", "send"}
  /\ \A p \in Proc : pc[p] # "panic"

(* What is free or in somebody's hands is in the list, a connection just   *)
(* dialed is not.                                                          *)
Listed ==
  /\ Range(free) \subseteq list
  /\ \A p \in Proc, c \in Conn : Holds(p, c) => c \in list
  /\ \A p \in Proc : pc[p] \in {"add", "replace"} => newcn[p] \notin list

(* No connection is in two places.                                         *)
Apart ==
  /\ IsInjective(free)
  /\ \A p \in Proc, c \in Conn : Holds(p, c) => c \notin Range(free)
  /\ \A p, q \in Proc, c \in Conn : Holds(p, c) /\ Holds(q, c) => p = q
  /\ \A p, q \in Proc : newcn[p] # NULL /\ newcn[p] = newcn[q] => p = q

(* Every open socket is in the list, or was just dialed.                   *)
Opened == open = list \cup {newcn[p] : p \in {q \in Proc : newcn[q] # NULL}}

Owned == InHand /\ Listed /\ Apart /\ Opened

\* Who has taken a slot the list does not show yet, and who of them one of
\* the PoolSize slots there are.
Reserving == {p \in Proc : pc[p] \in {"dial", "undial", "unreserve", "add"}}
Granted == {p \in Proc : pc[p] \in {"dial", "undial", "add"}}

(* What a step does with the connections of the pool: nothing, or one is   *)
(* taken from the channel, given back, dropped, brought or replaced.       *)
Stays == /\ UNCHANGED list
         /\ \A q \in Proc, d \in Conn : Holds(q, d)' <=> Holds(q, d)

Takes(p, c) ==
  /\ c \in list /\ UNCHANGED list
  /\ \A q \in Proc : ~ Holds(q, c)
  /\ \A q \in Proc, d \in Conn : Holds(q, d)' <=> Holds(q, d) \/ (q = p /\ d = c)

Gives(p, c) ==
  /\ c \in list /\ UNCHANGED list
  /\ Holds(p, c)
  /\ \A q \in Proc, d \in Conn : Holds(q, d)' <=> Holds(q, d) /\ d # c

Drops(p, c) ==
  /\ c \in list /\ list' = list \ {c}
  /\ Holds(p, c)
  /\ \A q \in Proc, d \in Conn : Holds(q, d)' <=> Holds(q, d) /\ d # c

Brings(p, c) ==
  /\ c \in Conn \ list /\ list' = list \cup {c}
  /\ p \in Granted
  /\ \A q \in Proc, d \in Conn : Holds(q, d)' <=> Holds(q, d) \/ (q = p /\ d = c)

Swaps(p, c, e) ==
  /\ c \in list /\ e \in Conn \ list /\ list' = (list \ {c}) \cup {e}
  /\ Holds(p, c)
  /\ \A q \in Proc, d \in Conn :
       Holds(q, d)' <=> (Holds(q, d) /\ d # c) \/ (q = p /\ d = e)

Move ==
  \/ Stays
  \/ \E p \in Proc, c \in Conn : Takes(p, c) \/ Gives(p, c) \/ Drops(p, c) \/ Brings(p, c)
  \/ \E p \in Proc, c, e \in Conn : Swaps(p, c, e)

\* The channel without its head: a connection fewer, none twice.
LEMMA TailOfQueue ==
  ASSUME NEW s \in Seq(Conn), s # <<>>, IsInjective(s)
  PROVE  /\ Head(s) \in Range(s)
         /\ Range(Tail(s)) = Range(s) \ {Head(s)}
         /\ IsInjective(Tail(s))
<1>1. /\ Len(s) \in Nat \ {0} /\ DOMAIN s = 1 .. Len(s)
      /\ Head(s) = s[1]
  BY EmptySeq, LenProperties
<1>2. /\ DOMAIN Tail(s) = 1 .. Len(s) - 1
      /\ \A i \in 1 .. Len(s) - 1 : Tail(s)[i] = s[i + 1]
  BY HeadTailProperties, LenProperties
<1>3. \A c \in Range(s) \ {Head(s)} : c \in Range(Tail(s))
  <2> SUFFICES ASSUME NEW i \in 1 .. Len(s), s[i] # Head(s)
               PROVE  s[i] \in Range(Tail(s))
    BY <1>1 DEF Range
  <2>1. i - 1 \in 1 .. Len(s) - 1 /\ s[i] = Tail(s)[i - 1]
    BY <1>1, <1>2
  <2> QED
    BY <1>2, <2>1 DEF Range
<1>4. \A c \in Range(Tail(s)) : c \in Range(s) \ {Head(s)}
  <2> SUFFICES ASSUME NEW i \in 1 .. Len(s) - 1
               PROVE  s[i + 1] \in Range(s) \ {Head(s)}
    BY <1>2 DEF Range
  <2>1. i + 1 \in 1 .. Len(s) /\ 1 \in 1 .. Len(s) /\ i + 1 # 1
    BY <1>1
  <2> QED
    BY <1>1, <2>1 DEF Range, IsInjective
<1>5. IsInjective(Tail(s))
  <2> SUFFICES ASSUME NEW i \in 1 .. Len(s) - 1, NEW j \in 1 .. Len(s) - 1,
                      s[i + 1] = s[j + 1]
               PROVE  i = j
    BY <1>2 DEF IsInjective
  <2>1. i + 1 \in 1 .. Len(s) /\ j + 1 \in 1 .. Len(s)
    BY <1>1
  <2>2. i + 1 = j + 1
    BY <1>1, <2>1 DEF IsInjective
  <2> QED
    BY <2>2
<1>6. Head(s) \in Range(s)
  BY <1>1 DEF Range
<1> QED
  BY <1>3, <1>4, <1>5, <1>6

\* The channel with a connection that was not in it.
LEMMA AppendToQueue ==
  ASSUME NEW s \in Seq(Conn), NEW c \in Conn, IsInjective(s), c \notin Range(s)
  PROVE  /\ Range(Append(s, c)) = Range(s) \cup {c}
         /\ IsInjective(Append(s, c))
<1> DEFINE a == Append(s, c)
<1>1. Len(s) \in Nat /\ DOMAIN s = 1 .. Len(s)
  BY LenProperties
<1>2. /\ DOMAIN a = 1 .. Len(s) + 1
      /\ \A i \in 1 .. Len(s) : a[i] = s[i]
      /\ a[Len(s) + 1] = c
  BY AppendProperties, LenProperties
<1> HIDE DEF a
<1>3. \A i \in 1 .. Len(s) : s[i] # c
  BY <1>1 DEF Range
<1>4. \A i \in 1 .. Len(s) + 1 : i \in 1 .. Len(s) \/ i = Len(s) + 1
  BY <1>1
<1>5. Len(s) + 1 \in DOMAIN a /\ \A i \in 1 .. Len(s) : i \in DOMAIN a
  BY <1>1, <1>2
<1>6. Range(a) = Range(s) \cup {c}
  BY <1>1, <1>2, <1>4, <1>5 DEF Range
<1>7. IsInjective(a)
  BY <1>1, <1>2, <1>3, <1>4 DEF IsInjective
<1> QED
  BY <1>6, <1>7 DEF a

\* The pool New returns.
LEMMA InitOwned == PoolInit => Owned
<1> SUFFICES ASSUME PoolInit PROVE Owned
  OBVIOUS
<1>1. Range(free) = {} /\ IsInjective(free)
  BY DEF PoolInit, Range, IsInjective
<1>2. \A p \in Proc : pc[p] = "idle" /\ cn[p] = NULL /\ newcn[p] = NULL
  BY DEF PoolInit
<1>3. \A c \in Conn : c # NULL
  BY PoolAssumption
<1> QED
  BY <1>1, <1>2, <1>3 DEF PoolInit, Owned, InHand, Listed, Apart, Opened, Holds

\* First and Receive take the head of the channel.
LEMMA TakeOwned ==
  ASSUME Typed, Owned, NEW p \in Proc, pc[p] \in {"first", "wait", "drain"},
         free # <<>>, free' = Tail(free),
         cn' = [cn EXCEPT ![p] = Head(free)],
         NEW l \in {"drop", "put", "use", "renew"}, Goto(p, l),
         UNCHANGED <<list, open, newcn>>
  PROVE  Owned' /\ Takes(p, Head(free))
<1>1. /\ Head(free) \in Range(free)
      /\ Range(free') = Range(free) \ {Head(free)}
      /\ IsInjective(free')
  BY TailOfQueue DEF Typed, PoolTypeOK, Owned, Apart
<1>2. Head(free) \in Conn
  BY FreeTyped
<1> DEFINE c == Head(free)
<1>3. /\ cn[p] = NULL /\ newcn[p] = NULL
      /\ c # NULL /\ c \in list
  BY <1>1, <1>2, PoolAssumption DEF Owned, InHand, Listed, Typed
<1>4. /\ cn'[p] = c /\ pc'[p] = l
      /\ \A q \in Proc : q # p => cn'[q] = cn[q] /\ pc'[q] = pc[q]
  BY DEF Goto, Typed
<1> HIDE DEF c
<1>5. InHand'
  BY <1>3, <1>4 DEF Owned, InHand
<1>6. \A q \in Proc, d \in Conn : Holds(q, d)' <=> Holds(q, d) \/ (q = p /\ d = c)
  BY <1>3, <1>4, PoolAssumption DEF Holds
<1>7. Listed'
  BY <1>1, <1>3, <1>4, <1>6 DEF Owned, Listed
<1>8. Apart'
  BY <1>1, <1>6 DEF Owned, Apart, c
<1>9. Opened'
  BY DEF Owned, Opened
<1>10. Takes(p, c)
  BY <1>1, <1>2, <1>3, <1>6 DEF Takes, Owned, Apart, c
<1> QED
  BY <1>5, <1>7, <1>8, <1>9, <1>10 DEF Owned, c

\* Put and Remove send a connection to the channel.
LEMMA GiveOwned ==
  ASSUME Typed, Owned, NEW p \in Proc, NEW c \in Conn,
         free' = Append(free, c),
         \/ /\ pc[p] = "put" /\ c = cn[p]
            /\ cn' = [cn EXCEPT ![p] = NULL] /\ UNCHANGED newcn
         \/ /\ pc[p] = "send" /\ c = newcn[p]
            /\ newcn' = [newcn EXCEPT ![p] = NULL] /\ UNCHANGED cn,
         NEW l \in {"idle", "wait", "drain"}, Goto(p, l),
         UNCHANGED <<list, open>>
  PROVE  Owned' /\ Gives(p, c)
<1>1. Holds(p, c)
  BY DEF Holds
<1>2. c \in list /\ c \notin Range(free) /\ IsInjective(free)
  BY <1>1 DEF Owned, Listed, Apart
<1>3. Range(free') = Range(free) \cup {c} /\ IsInjective(free')
  BY <1>2, AppendToQueue DEF Typed, PoolTypeOK
<1>4. /\ cn'[p] = NULL /\ newcn'[p] = NULL /\ pc'[p] = l
      /\ \A q \in Proc : q # p => /\ cn'[q] = cn[q] /\ newcn'[q] = newcn[q]
                                  /\ pc'[q] = pc[q]
  BY DEF Goto, Typed, Owned, InHand
<1>5. InHand'
  BY <1>4 DEF Owned, InHand
<1>6. \A q \in Proc, d \in Conn : Holds(q, d)' <=> Holds(q, d) /\ d # c
  <2>1. \A d \in Conn : ~ Holds(p, d)' /\ (Holds(p, d) => d = c)
    BY <1>4, PoolAssumption DEF Holds, Owned, InHand
  <2>2. \A q \in Proc : q # p => ~ Holds(q, c)
    BY <1>1 DEF Owned, Apart
  <2> QED
    BY <1>4, <2>1, <2>2 DEF Holds
<1>7. Listed'
  BY <1>2, <1>3, <1>4, <1>6 DEF Owned, Listed
<1>8. Apart'
  BY <1>3, <1>4, <1>6 DEF Owned, Apart
<1>9. Opened'
  <2>1. c \in list
    BY <1>2
  <2>2. \A q \in Proc : newcn[q] # NULL => newcn'[q] = newcn[q] \/ newcn[q] = c
    BY <1>4 DEF Owned, InHand
  <2>3. \A q \in Proc : newcn'[q] # NULL => newcn'[q] = newcn[q]
    BY <1>4
  <2> QED
    BY <2>1, <2>2, <2>3 DEF Owned, Opened
<1> QED
  BY <1>1, <1>2, <1>5, <1>6, <1>7, <1>8, <1>9 DEF Owned, Gives

\* connList.Remove finds the connection, and closes it.
LEMMA UnlistOwned ==
  ASSUME Typed, Owned, NEW p \in Proc, pc[p] \in {"drop", "unlist"},
         NEW l \in {"first", "idle", "wait", "drain"}, Unlist(p, l)
  PROVE  Owned' /\ Drops(p, cn[p]) /\ cn[p] \in Conn
<1> DEFINE c == cn[p]
<1>1. c \in Conn /\ Holds(p, c) /\ newcn[p] = NULL
  BY DEF Typed, PoolTypeOK, Holds, Owned, InHand
<1>2. c \in list /\ c \notin Range(free)
  BY <1>1 DEF Owned, Listed, Apart
<1>3. /\ list' = list \ {c} /\ open' = open \ {c}
      /\ Goto(p, l)
      /\ cn' = [cn EXCEPT ![p] = NULL]
      /\ UNCHANGED <<free, newcn>>
  BY <1>2 DEF Unlist, Shutdown
<1>4. /\ cn'[p] = NULL /\ pc'[p] = l
      /\ \A q \in Proc : q # p => cn'[q] = cn[q] /\ pc'[q] = pc[q]
  BY <1>3 DEF Goto, Typed
<1> HIDE DEF c
<1>5. InHand'
  BY <1>1, <1>3, <1>4 DEF Owned, InHand
<1>6. \A q \in Proc, d \in Conn : Holds(q, d)' <=> Holds(q, d) /\ d # c
  <2>1. \A d \in Conn : ~ Holds(p, d)' /\ (Holds(p, d) => d = c)
    BY <1>1, <1>3, <1>4, PoolAssumption DEF Holds, c
  <2>2. \A q \in Proc : q # p => ~ Holds(q, c)
    BY <1>1 DEF Owned, Apart
  <2> QED
    BY <1>3, <1>4, <2>1, <2>2 DEF Holds, c
<1>7. Listed'
  BY <1>2, <1>3, <1>4, <1>6 DEF Owned, Listed
<1>8. Apart'
  BY <1>3, <1>6 DEF Owned, Apart
<1>9. Opened'
  <2>1. \A q \in Proc : newcn[q] # c
    <3>1. \A q \in Proc : pc[q] \in {"add", "replace"} => newcn[q] # c
      BY <1>2 DEF Owned, Listed
    <3>2. \A q \in Proc : pc[q] = "send" => newcn[q] # c
      BY <1>1 DEF Owned, Apart, Holds
    <3> QED
      BY <1>1, <3>1, <3>2, PoolAssumption DEF Owned, InHand
  <2> QED
    BY <1>3, <2>1 DEF Owned, Opened
<1> QED
  BY <1>1, <1>2, <1>3, <1>5, <1>6, <1>7, <1>8, <1>9 DEF Owned, Drops, c

\* connList.Replace finds the connection it replaces.
LEMMA ReplaceOwned ==
  ASSUME Typed, Owned, NEW p \in Proc, Replace(p)
  PROVE  Owned' /\ \E c, d \in Conn : Swaps(p, c, d)
<1> DEFINE c == cn[p]
           d == newcn[p]
<1>1. /\ c \in Conn /\ d \in Conn /\ Holds(p, c) /\ pc[p] = "replace"
  BY DEF Replace, Typed, PoolTypeOK, Holds
<1>2. c \in list /\ c \notin Range(free) /\ d \notin list /\ d \notin Range(free)
  BY <1>1 DEF Owned, Listed, Apart
<1>3. /\ list' = (list \ {c}) \cup {d} /\ open' = open \ {c}
      /\ Goto(p, "send")
      /\ cn' = [cn EXCEPT ![p] = NULL]
      /\ UNCHANGED <<free, newcn>>
  BY <1>2 DEF Replace, Shutdown
<1>4. /\ cn'[p] = NULL /\ pc'[p] = "send" /\ newcn'[p] = d
      /\ \A q \in Proc : q # p => cn'[q] = cn[q] /\ pc'[q] = pc[q]
  BY <1>3 DEF Goto, Typed
<1> HIDE DEF c, d
<1>5. InHand'
  BY <1>1, <1>3, <1>4, PoolAssumption DEF Owned, InHand
<1>6. \A q \in Proc, e \in Conn :
        Holds(q, e)' <=> (Holds(q, e) /\ e # c) \/ (q = p /\ e = d)
  <2>1. \A e \in Conn : (Holds(p, e)' <=> e = d) /\ (Holds(p, e) => e = c)
    BY <1>1, <1>3, <1>4, PoolAssumption DEF Holds, c
  <2>2. \A q \in Proc : q # p => ~ Holds(q, c)
    BY <1>1 DEF Owned, Apart
  <2> QED
    BY <1>1, <1>3, <1>4, <2>1, <2>2 DEF Holds, c
<1>7. \A q \in Proc : ~ Holds(q, d) /\ (q # p => newcn[q] # d)
  BY <1>1, <1>2, PoolAssumption DEF Owned, Listed, Apart, d
<1>8. Listed'
  BY <1>1, <1>2, <1>3, <1>4, <1>6, <1>7 DEF Owned, Listed, d
<1>9. Apart'
  <2>1. \A q, r \in Proc, e \in Conn : Holds(q, e)' /\ Holds(r, e)' => q = r
    BY <1>6, <1>7 DEF Owned, Apart
  <2> QED
    BY <1>2, <1>3, <1>6, <2>1 DEF Owned, Apart
<1>10. Opened'
  <2>1. \A q \in Proc : newcn[q] # c
    <3>1. \A q \in Proc : pc[q] \in {"add", "replace"} => newcn[q] # c
      BY <1>2 DEF Owned, Listed
    <3>2. \A q \in Proc : pc[q] = "send" => newcn[q] # c
      BY <1>1 DEF Owned, Apart, Holds
    <3> QED
      BY <1>1, <3>1, <3>2, PoolAssumption DEF Owned, InHand
  <2>2. d \in {newcn[q] : q \in {r \in Proc : newcn[r] # NULL}}
    BY <1>1, PoolAssumption DEF d
  <2> QED
    BY <1>3, <2>1, <2>2 DEF Owned, Opened
<1> QED
  BY <1>1, <1>2, <1>3, <1>5, <1>6, <1>8, <1>9, <1>10 DEF Owned, Swaps

\* The dialer returns a connection nobody knows, or fails.
LEMMA NewOwned ==
  ASSUME Typed, Owned, NEW p \in Proc,
         \/ /\ pc[p] = "dial" /\ New(p, "add", "undial")
         \/ /\ pc[p] = "renew" /\ New(p, "replace", "unlist"),
         UNCHANGED <<list, free, cn>>
  PROVE  Owned' /\ Stays
<1>1. newcn[p] = NULL
  BY DEF Owned, InHand
<1>2. CASE \E c \in Unknown : /\ open' = open \cup {c}
                              /\ newcn' = [newcn EXCEPT ![p] = c]
                              /\ \/ pc[p] = "dial" /\ Goto(p, "add")
                                 \/ pc[p] = "renew" /\ Goto(p, "replace")
  <2>1. PICK c \in Unknown : /\ open' = open \cup {c}
                             /\ newcn' = [newcn EXCEPT ![p] = c]
                             /\ \/ pc[p] = "dial" /\ Goto(p, "add")
                                \/ pc[p] = "renew" /\ Goto(p, "replace")
    BY <1>2
  <2>2. c \in Conn /\ c # NULL /\ c \notin list /\ \A q \in Proc : newcn[q] # c
    BY <2>1, PoolAssumption DEF Unknown
  <2>3. /\ newcn'[p] = c /\ pc'[p] \in {"add", "replace"}
        /\ pc[p] = "dial" => pc'[p] = "add"
        /\ pc[p] = "renew" => pc'[p] = "replace"
        /\ \A q \in Proc : q # p => newcn'[q] = newcn[q] /\ pc'[q] = pc[q]
    BY <2>1 DEF Goto, Typed
  <2>4. InHand'
    BY <2>1, <2>2, <2>3 DEF Owned, InHand
  <2>5. \A q \in Proc, d \in Conn : Holds(q, d)' <=> Holds(q, d)
    BY <1>1, <2>3, PoolAssumption DEF Holds
  <2>6. Listed'
    BY <2>2, <2>3, <2>5 DEF Owned, Listed
  <2>7. Apart'
    BY <2>2, <2>3, <2>5 DEF Owned, Apart
  <2>8. Opened'
    BY <1>1, <2>1, <2>2, <2>3 DEF Owned, Opened
  <2> QED
    BY <2>4, <2>5, <2>6, <2>7, <2>8 DEF Owned, Stays
<1>3. CASE /\ UNCHANGED <<open, newcn>>
           /\ \/ pc[p] = "dial" /\ Goto(p, "undial")
              \/ pc[p] = "renew" /\ Goto(p, "unlist")
  <2>1. /\ pc[p] = "dial" => pc'[p] = "undial"
        /\ pc[p] = "renew" => pc'[p] = "unlist"
        /\ \A q \in Proc : q # p => pc'[q] = pc[q]
    BY <1>3 DEF Goto, Typed
  <2>2. InHand'
    BY <1>3, <2>1 DEF Owned, InHand
  <2>3. \A q \in Proc, d \in Conn : Holds(q, d)' <=> Holds(q, d)
    BY <1>3, <2>1 DEF Holds
  <2>4. Listed' /\ Apart' /\ Opened'
    BY <1>3, <2>1, <2>3 DEF Owned, Listed, Apart, Opened
  <2> QED
    BY <2>2, <2>3, <2>4 DEF Owned, Stays
<1>4. Unknown # {} => (CHOOSE c \in Unknown : TRUE) \in Unknown
  OBVIOUS
<1> QED
  BY <1>2, <1>3, <1>4 DEF New

\* connList.Add, into the slot that was reserved.
LEMMA AddOwned ==
  ASSUME Typed, Owned, NEW p \in Proc, Add(p)
  PROVE  Owned' /\ \E c \in Conn : Brings(p, c)
<1> DEFINE c == newcn[p]
<1>1. c \in Conn /\ c # NULL /\ c \notin list /\ cn[p] = NULL /\ pc[p] = "add"
  BY PoolAssumption DEF Add, Typed, PoolTypeOK, Owned, InHand, Listed
<1>2. /\ list' = list \cup {c} /\ UNCHANGED <<free, open>>
      /\ cn'[p] = c /\ newcn'[p] = NULL /\ pc'[p] = "use"
      /\ \A q \in Proc : q # p => /\ cn'[q] = cn[q] /\ newcn'[q] = newcn[q]
                                  /\ pc'[q] = pc[q]
  BY DEF Add, Goto, Typed
<1>3. \A q \in Proc : q # p => newcn[q] # c
  BY <1>1 DEF Owned, Apart
<1> HIDE DEF c
<1>4. InHand'
  BY <1>1, <1>2 DEF Owned, InHand
<1>5. \A q \in Proc, d \in Conn : Holds(q, d)' <=> Holds(q, d) \/ (q = p /\ d = c)
  BY <1>1, <1>2, PoolAssumption DEF Holds
<1>6. Listed'
  BY <1>1, <1>2, <1>3, <1>5 DEF Owned, Listed
<1>7. Apart'
  <2>1. c \notin Range(free) /\ \A q \in Proc : ~ Holds(q, c)
    BY <1>1 DEF Owned, Listed
  <2> QED
    BY <1>2, <1>5, <2>1 DEF Owned, Apart
<1>8. Opened'
  <2>1. \A q \in Proc : newcn'[q] # NULL => newcn'[q] = newcn[q]
    BY <1>2
  <2>2. \A q \in Proc : newcn[q] # NULL => newcn'[q] = newcn[q] \/ newcn[q] = c
    BY <1>2 DEF c
  <2>3. c \in open
    BY <1>1 DEF Owned, Opened, c
  <2> QED
    BY <1>2, <2>1, <2>2, <2>3 DEF Owned, Opened
<1>9. Brings(p, c)
  BY <1>1, <1>2, <1>5 DEF Brings, Granted
<1> QED
  BY <1>1, <1>4, <1>6, <1>7, <1>8, <1>9 DEF Owned

\* Steps that leave every connection where it is.
LEMMA WalkOwned ==
  ASSUME Typed, Owned, NEW p \in Proc,
         \/ UNCHANGED pc
         \/ /\ pc[p] \in {"idle", "first", "reserve", "dial", "undial", "unreserve", "wait", "drain"}
            /\ \E l \in {"idle", "first", "reserve", "dial", "undial", "unreserve",
                          "wait", "drain", "shut"} : Goto(p, l)
         \/ /\ pc[p] = "use"
            /\ \E l \in {"put", "renew"} : Goto(p, l),
         UNCHANGED <<list, free, open, cn, newcn>>
  PROVE  Owned' /\ Stays
<1>1. \A q \in Proc : q # p => pc'[q] = pc[q]
  BY DEF Goto, Typed
<1>2. /\ pc[p] \in {"drop", "use", "put", "renew", "replace", "unlist"}
           <=> pc'[p] \in {"drop", "use", "put", "renew", "replace", "unlist"}
      /\ pc[p] \in {"add", "replace", "send"} <=> pc'[p] \in {"add", "replace", "send"}
      /\ pc'[p] \in {"add", "replace"} => pc[p] \in {"add", "replace"}
      /\ pc'[p] = "send" <=> pc[p] = "send"
      /\ pc'[p] = "panic" => pc[p] = "panic"
  BY DEF Goto, Typed
<1>3. InHand'
  BY <1>1, <1>2 DEF Owned, InHand
<1>4. \A q \in Proc, d \in Conn : Holds(q, d)' <=> Holds(q, d)
  BY <1>1, <1>2 DEF Holds
<1>5. Listed' /\ Apart' /\ Opened'
  BY <1>1, <1>2, <1>4 DEF Owned, Listed, Apart, Opened
<1> QED
  BY <1>3, <1>4, <1>5 DEF Owned, Stays

\* Every step before Close keeps the connections in their places.
LEMMA NextOwned ==
  ASSUME Typed, Owned, ~ closed, [PoolNext]_poolVars
  PROVE  closed' \/ (Owned' /\ Move)
<1>1. ASSUME NEW p \in Proc, Get(p) PROVE Owned' /\ Move
  BY <1>1, WalkOwned DEF Move, Get, shared
<1>2. ASSUME NEW p \in Proc, First(p) PROVE Owned' /\ Move
  <2>1. CASE free # <<>>
    BY <1>2, <2>1, FreeTyped, TakeOwned DEF First, Move
  <2>2. CASE free = <<>>
    BY <1>2, <2>2, WalkOwned DEF Move, First
  <2> QED
    BY <2>1, <2>2
<1>3. ASSUME NEW p \in Proc, Drop(p) PROVE Owned' /\ Move
  BY <1>3, UnlistOwned DEF Move, Drop
<1>4. ASSUME NEW p \in Proc, Reserve(p) \/ Unreserve(p) PROVE Owned' /\ Move
  BY <1>4, WalkOwned DEF Move, Reserve, Unreserve
<1>5. ASSUME NEW p \in Proc, Dial(p) \/ Renew(p) PROVE Owned' /\ Move
  BY <1>5, NewOwned DEF Move, Dial, Renew
<1>6. ASSUME NEW p \in Proc, Add(p) PROVE Owned' /\ Move
  BY <1>6, AddOwned DEF Move
<1>7. ASSUME NEW p \in Proc, Receive(p) PROVE Owned' /\ Move
  <2>1. pc[p] = "wait"
    BY <1>7 DEF Receive, Typed
  <2> QED
    BY <1>7, <2>1, FreeTyped, TakeOwned DEF Receive, Move
<1>8. ASSUME NEW p \in Proc, Done(p) PROVE Owned' /\ Move
  BY <1>8, WalkOwned DEF Move, Done, shared
<1>9. ASSUME NEW p \in Proc, Put(p) PROVE Owned' /\ Move
  <2>1. cn[p] \in Conn
    BY <1>9 DEF Put, Typed, PoolTypeOK
  <2> QED
    BY <1>9, <2>1, GiveOwned DEF Put, Move
<1>10. ASSUME NEW p \in Proc, Send(p) PROVE Owned' /\ Move
  <2>1. newcn[p] \in Conn /\ back[p] \in {"idle", "wait", "drain"}
    BY <1>10 DEF Send, Typed, PoolTypeOK
  <2> QED
    BY <1>10, <2>1, GiveOwned DEF Send, Move
<1>11. ASSUME NEW p \in Proc, RemoveFailed(p) PROVE Owned' /\ Move
  BY <1>11, UnlistOwned DEF Move, RemoveFailed, Typed
<1>12. ASSUME NEW p \in Proc, Replace(p) PROVE Owned' /\ Move
  BY <1>12, ReplaceOwned DEF Move
<1>13. ASSUME NEW p \in Proc, Timeout(p) PROVE Owned' /\ Move
  BY <1>13, WalkOwned DEF Move, Timeout, shared
<1>14. ASSUME NEW p \in Proc, Close(p) PROVE closed'
  BY <1>14 DEF Close
<1>15. ASSUME NEW p \in Proc PROVE ~ Shut(p)
  BY DEF Shut, Typed
<1>16. ASSUME UNCHANGED <<list, free, open, pc, cn, newcn>> PROVE Owned' /\ Move
  BY <1>16 DEF Owned, InHand, Listed, Apart, Opened, Holds, Move, Stays
<1> QED
  BY <1>1, <1>2, <1>3, <1>4, <1>5, <1>6, <1>7, <1>8, <1>9, <1>10, <1>11, <1>12,
     <1>13, <1>14, <1>15, <1>16 DEF PoolNext, Step, Age, poolVars, shared

-----------------------------------------------------------------------------
(* The counter of the slots.                                               *)

(* The counter is exact, and a goroutine that may dial has room in the list. *)
Slots ==
  /\ IsFiniteSet(list) /\ IsFiniteSet(Reserving)
  /\ len = Cardinality(list) + Cardinality(Reserving)
  /\ Cardinality(list) + Cardinality(Granted) <= PoolSize

\* No connection and no slot is taken of a new pool.
LEMMA InitSlots == PoolInit => Slots
<1> SUFFICES ASSUME PoolInit PROVE Slots
  OBVIOUS
<1>1. list = {} /\ Reserving = {} /\ Granted = {} /\ len = 0
  BY DEF PoolInit, Reserving, Granted
<1> QED
  BY <1>1, FS_EmptySet, PoolAssumption DEF Slots

\* The counts are numbers, and those who were granted a slot have reserved it.
LEMMA SlotCounts ==
  ASSUME Slots
  PROVE  /\ Cardinality(list) \in Nat /\ Cardinality(Reserving) \in Nat
         /\ IsFiniteSet(Granted) /\ Cardinality(Granted) \in Nat
         /\ Cardinality(Granted) <= Cardinality(Reserving)
<1>1. Granted \in SUBSET Reserving
  BY DEF Granted, Reserving
<1> QED
  BY <1>1, FS_Subset, FS_CardinalityType DEF Slots

\* Where a goroutine goes decides whether it has a slot.
LEMMA Reservations ==
  ASSUME Typed, NEW p \in Proc, NEW l, Goto(p, l)
  PROVE  /\ Reserving' = IF l \in {"dial", "undial", "unreserve", "add"}
                         THEN Reserving \cup {p} ELSE Reserving \ {p}
         /\ Granted' = IF l \in {"dial", "undial", "add"}
                       THEN Granted \cup {p} ELSE Granted \ {p}
<1>1. pc'[p] = l /\ \A q \in Proc : q # p => pc'[q] = pc[q]
  BY DEF Goto, Typed
<1> QED
  BY <1>1 DEF Reserving, Granted

\* Steps that touch neither the list nor a slot.
LEMMA WalkSlots ==
  ASSUME Typed, Slots, NEW p \in Proc, NEW l,
         \/ l \notin {"dial", "undial", "unreserve", "add"} /\ p \notin Reserving
         \/ l \in {"undial", "add"} /\ p \in Granted,
         Goto(p, l), UNCHANGED <<list, len>>
  PROVE  Slots'
<1>1. Granted \subseteq Reserving
  BY DEF Granted, Reserving
<1>2. Reserving' = Reserving /\ Granted' = Granted
  BY <1>1, Reservations
<1> QED
  BY <1>2 DEF Slots

\* Reserve takes a slot, and says whether it was one of the PoolSize.
LEMMA ReserveSlots ==
  ASSUME Typed, Slots, NEW p \in Proc, Reserve(p)
  PROVE  Slots'
<1>1. p \notin Reserving /\ p \notin Granted
  BY DEF Reserve, Reserving, Granted
<1>2. /\ IsFiniteSet(Reserving \cup {p})
      /\ Cardinality(Reserving \cup {p}) = Cardinality(Reserving) + 1
      /\ Cardinality(Granted \cup {p}) = Cardinality(Granted) + 1
  BY <1>1, SlotCounts, FS_AddElement DEF Slots
<1>3. CASE len + 1 <= PoolSize
  <2>1. Reserving' = Reserving \cup {p} /\ Granted' = Granted \cup {p}
    BY <1>3, Reservations DEF Reserve
  <2> QED
    BY <1>2, <1>3, <2>1, SlotCounts, PoolAssumption DEF Slots, Reserve
<1>4. CASE ~ (len + 1 <= PoolSize)
  <2>1. Reserving' = Reserving \cup {p} /\ Granted' = Granted
    BY <1>1, <1>4, Reservations DEF Reserve
  <2> QED
    BY <1>2, <2>1, SlotCounts DEF Slots, Reserve
<1> QED
  BY <1>3, <1>4

\* The slot is given back.
LEMMA UnreserveSlots ==
  ASSUME Typed, Slots, NEW p \in Proc, Unreserve(p)
  PROVE  Slots'
<1>1. p \in Reserving
  BY DEF Unreserve, Reserving
<1>2. Reserving' = Reserving \ {p} /\ Granted' = Granted \ {p}
  BY Reservations DEF Unreserve
<1>3. /\ IsFiniteSet(Reserving \ {p})
      /\ Cardinality(Reserving \ {p}) = Cardinality(Reserving) - 1
  BY <1>1, FS_RemoveElement DEF Slots
<1>4. Cardinality(Granted \ {p}) <= Cardinality(Granted) /\ Cardinality(Granted \ {p}) \in Nat
  BY SlotCounts, FS_Subset, FS_CardinalityType
<1> QED
  BY <1>2, <1>3, <1>4, SlotCounts, PoolAssumption DEF Slots, Unreserve

\* The slot becomes a connection.
LEMMA AddSlots ==
  ASSUME Typed, Owned, Slots, NEW p \in Proc, Add(p)
  PROVE  Slots'
<1>1. p \in Reserving /\ p \in Granted /\ newcn[p] \notin list
  BY DEF Add, Reserving, Granted, Owned, Listed
<1>2. Reserving' = Reserving \ {p} /\ Granted' = Granted \ {p}
  BY Reservations DEF Add
<1>3. /\ IsFiniteSet(Reserving \ {p}) /\ IsFiniteSet(list \cup {newcn[p]})
      /\ Cardinality(Reserving \ {p}) = Cardinality(Reserving) - 1
      /\ Cardinality(Granted \ {p}) = Cardinality(Granted) - 1
      /\ Cardinality(list \cup {newcn[p]}) = Cardinality(list) + 1
  BY <1>1, SlotCounts, FS_RemoveElement, FS_AddElement DEF Slots
<1> QED
  BY <1>2, <1>3, SlotCounts, PoolAssumption DEF Slots, Add

\* A connection and its slot go.
LEMMA UnlistSlots ==
  ASSUME Typed, Owned, Slots, NEW p \in Proc, pc[p] \in {"drop", "unlist"},
         NEW l \in {"first", "idle", "wait", "drain"}, Unlist(p, l)
  PROVE  Slots'
<1>1. cn[p] \in list
  BY DEF Typed, PoolTypeOK, Owned, Listed, Holds
<1>2. list' = list \ {cn[p]} /\ len' = len - 1 /\ Goto(p, l)
  BY <1>1 DEF Unlist
<1>3. p \notin Reserving /\ p \notin Granted
  BY DEF Reserving, Granted
<1>4. Reserving' = Reserving /\ Granted' = Granted
  BY <1>2, <1>3, Reservations
<1>5. IsFiniteSet(list \ {cn[p]}) /\ Cardinality(list \ {cn[p]}) = Cardinality(list) - 1
  BY <1>1, FS_RemoveElement DEF Slots
<1> QED
  BY <1>2, <1>4, <1>5, SlotCounts, PoolAssumption DEF Slots

\* One connection goes, another comes.
LEMMA ReplaceSlots ==
  ASSUME Typed, Owned, Slots, NEW p \in Proc, Replace(p)
  PROVE  Slots'
<1>1. cn[p] \in list /\ newcn[p] \notin list
  BY DEF Replace, Typed, PoolTypeOK, Owned, Listed, Holds
<1>2. list' = (list \ {cn[p]}) \cup {newcn[p]} /\ UNCHANGED len /\ Goto(p, "send")
  BY <1>1 DEF Replace
<1>3. p \notin Reserving /\ p \notin Granted
  BY DEF Replace, Reserving, Granted
<1>4. Reserving' = Reserving /\ Granted' = Granted
  BY <1>2, <1>3, Reservations
<1>5. IsFiniteSet(list \ {cn[p]}) /\ Cardinality(list \ {cn[p]}) = Cardinality(list) - 1
  BY <1>1, FS_RemoveElement DEF Slots
<1>6. IsFiniteSet(list') /\ Cardinality(list') = Cardinality(list \ {cn[p]}) + 1
  BY <1>1, <1>2, <1>5, FS_AddElement
<1>7. Cardinality(list') = Cardinality(list)
  BY <1>5, <1>6, SlotCounts
<1> QED
  BY <1>2, <1>4, <1>6, <1>7 DEF Slots

\* Every step before Close keeps the counter exact.
LEMMA NextSlots ==
  ASSUME Typed, Owned, Slots, ~ closed, [PoolNext]_poolVars
  PROVE  closed' \/ Slots'
<1>1. ASSUME NEW p \in Proc, Get(p) PROVE Slots'
  BY <1>1, WalkSlots DEF Get, shared, Reserving
<1>2. ASSUME NEW p \in Proc, First(p) PROVE Slots'
  BY <1>2, WalkSlots DEF First, Reserving
<1>3. ASSUME NEW p \in Proc, Drop(p) PROVE Slots'
  BY <1>3, UnlistSlots DEF Drop
<1>4. ASSUME NEW p \in Proc, Dial(p) \/ Renew(p) PROVE Slots'
  BY <1>4, WalkSlots DEF Dial, Renew, New, Reserving, Granted
<1>5. ASSUME NEW p \in Proc, Receive(p) PROVE Slots'
  BY <1>5, WalkSlots DEF Receive, Reserving
<1>6. ASSUME NEW p \in Proc, Done(p) \/ Put(p) PROVE Slots'
  BY <1>6, WalkSlots DEF Done, Put, shared, Reserving
<1>7. ASSUME NEW p \in Proc, Send(p) PROVE Slots'
  <2>1. back[p] \in {"idle", "wait", "drain"}
    BY DEF Typed
  <2> QED
    BY <1>7, <2>1, WalkSlots DEF Send, Reserving
<1>8. ASSUME NEW p \in Proc, RemoveFailed(p) PROVE Slots'
  BY <1>8, UnlistSlots DEF RemoveFailed, Typed
<1>9. ASSUME NEW p \in Proc, Timeout(p) PROVE Slots'
  BY <1>9, WalkSlots DEF Timeout, shared, Reserving
<1>10. ASSUME NEW p \in Proc, Close(p) PROVE closed'
  BY <1>10 DEF Close
<1>11. ASSUME NEW p \in Proc PROVE ~ Shut(p)
  BY DEF Shut, Typed
<1>12. ASSUME UNCHANGED <<list, len, pc>> PROVE Slots'
  BY <1>12 DEF Slots, Reserving, Granted
<1> QED
  BY <1>1, <1>2, <1>3, <1>4, <1>5, <1>6, <1>7, <1>8, <1>9, <1>10, <1>11, <1>12,
     ReserveSlots, UnreserveSlots, AddSlots, ReplaceSlots
     DEF PoolNext, Step, Age, poolVars, shared

-----------------------------------------------------------------------------
(* The inductive invariant.                                                *)

IInv == Typed /\ (~ closed => Owned /\ Slots)

\* Nobody opens a pool that was closed.
LEMMA ClosedStays == Typed /\ [PoolNext]_poolVars => (closed => closed')
  BY ZenonT(60) DEF PoolNext, Step, Get, First, Drop, RemoveFailed, Unlist, Reserve, Unreserve, Dial,
         Renew, Add, Receive, Timeout, Done, Put, Replace, Send, Close, Shut, Age,
         shared, poolVars

\* The invariant holds in every state of the pool, and before Close each step
\* is one of the moves.
THEOREM PoolInvariant == PoolSpec => []IInv
<1>1. PoolInit => IInv
  BY InitTyped, InitOwned, InitSlots DEF IInv
<1>2. IInv /\ [PoolNext]_poolVars => IInv'
  BY NextTyped, NextOwned, NextSlots, ClosedStays DEF IInv
<1> QED
  BY <1>1, <1>2, PTL DEF PoolSpec

\* Every goroutine has the connections its step works with.
THEOREM PoolTypeCorrect == PoolSpec => []PoolTypeOK
<1>1. IInv => PoolTypeOK
  BY DEF IInv, Typed
<1> QED
  BY PoolInvariant, <1>1, PTL

\* However Reserve, Add and Remove interleave, the counter of the slots is
\* exact and the list never outgrows PoolSize.
THEOREM SlotsAlwaysAddUp == PoolSpec => []SlotsAddUp
<1>1. IInv => SlotsAddUp
  BY SlotCounts, PoolAssumption DEF IInv, Slots, SlotsAddUp, Reserving
<1> QED
  BY PoolInvariant, <1>1, PTL

\* No socket is left open outside the list.
THEOREM NothingEverLeaks == PoolSpec => []NothingLeaks
<1>1. IInv => NothingLeaks
  BY DEF IInv, Owned, Opened, NothingLeaks
<1> QED
  BY PoolInvariant, <1>1, PTL

\* The connections in the channel are as many as its length says.
LEMMA QueueLength ==
  ASSUME NEW s \in Seq(Conn), IsInjective(s)
  PROVE  Cardinality(Range(s)) = Len(s)
<1>1. Len(s) \in Nat /\ DOMAIN s = 1 .. Len(s) /\ s \in [1 .. Len(s) -> Conn]
  BY LenProperties
<1>2. s \in [1 .. Len(s) -> Range(s)]
  BY <1>1 DEF Range
<1>3. s \in Bijection(1 .. Len(s), Range(s))
  BY <1>1, <1>2 DEF Bijection, Injection, Surjection, Range
<1> QED
  BY <1>1, <1>3, FS_CountingElements DEF ExistsBijection

\* Put and Remove never wait for room in the channel: what a goroutine has in
\* its hands is in the list and not in the channel.  And they find it there.
THEOREM PoolNeverStuck == PoolSpec => []NeverStuck
<1>1. IInv => NeverStuck
  <2> SUFFICES ASSUME Typed, Owned, Slots, NEW p \in Proc
               PROVE  /\ pc[p] \in {"put", "send"} => Len(free) < PoolSize
                      /\ pc[p] # "panic"
    BY DEF IInv, NeverStuck
  <2>1. ASSUME pc[p] \in {"put", "send"}
        PROVE  Len(free) < PoolSize
    <3>1. PICK c \in Conn : Holds(p, c)
      BY <2>1 DEF Holds, Typed, PoolTypeOK
    <3>2. c \in list /\ c \notin Range(free) /\ Range(free) \subseteq list
      BY <3>1 DEF Owned, Listed, Apart
    <3>3. IsFiniteSet(Range(free)) /\ Range(free) \cup {c} \in SUBSET list
      BY <3>2, FS_Subset DEF Slots
    <3>4. Cardinality(Range(free) \cup {c}) = Cardinality(Range(free)) + 1
      BY <3>2, <3>3, FS_AddElement
    <3>5. Cardinality(Range(free) \cup {c}) <= Cardinality(list)
      BY <3>3, FS_Subset DEF Slots
    <3>6. Cardinality(Range(free)) = Len(free) /\ Len(free) \in Nat
      BY QueueLength, LenProperties DEF Typed, PoolTypeOK, Owned, Apart
    <3>7. Cardinality(list) <= PoolSize
      BY SlotCounts, PoolAssumption DEF Slots
    <3> QED
      BY <3>4, <3>5, <3>6, <3>7, SlotCounts, PoolAssumption
  <2> QED
    BY <2>1 DEF Owned, InHand
<1> QED
  BY PoolInvariant, <1>1, PTL

-----------------------------------------------------------------------------
(* The pool implements BoundedPool.                                        *)

\* A connection has one owner, who has it in its hands.
LEMMA OwnerHolds ==
  Owned => \A c \in Conn : /\ \A p \in Proc : Holds(p, c) <=> Owner(c) = p
                           /\ (\A p \in Proc : ~ Holds(p, c)) => Owner(c) = NULL
<1> SUFFICES ASSUME Owned, NEW c \in Conn
             PROVE  /\ \A p \in Proc : Holds(p, c) <=> Owner(c) = p
                    /\ (\A p \in Proc : ~ Holds(p, c)) => Owner(c) = NULL
  OBVIOUS
<1>1. CASE \E p \in Proc : Holds(p, c)
  <2>1. Owner(c) = CHOOSE p \in Proc : Holds(p, c)
    BY <1>1 DEF Owner, Holds
  <2>2. Owner(c) \in Proc /\ Holds(Owner(c), c)
    BY <1>1, <2>1
  <2> QED
    BY <1>1, <2>2 DEF Owned, Apart
<1>2. CASE \A p \in Proc : ~ Holds(p, c)
  <2>1. Owner(c) = NULL
    BY <1>2 DEF Owner, Holds
  <2> QED
    BY <1>2, <2>1, PoolAssumption
<1> QED
  BY <1>1, <1>2

\* What becomes of the owners when hands change.
LEMMA OwnerChanges ==
  ASSUME Owned, Owned'
  PROVE  \A c \in Conn : 
           /\ \A p \in Proc : Holds(p, c)' => Owner(c)' = p
           /\ (\A p \in Proc : ~ Holds(p, c)') => Owner(c)' = NULL
           /\ (\A p \in Proc : Holds(p, c)' <=> Holds(p, c)) => Owner(c)' = Owner(c)
<1>1. (Owned => \A c \in Conn : /\ \A p \in Proc : Holds(p, c) <=> Owner(c) = p
                                /\ (\A p \in Proc : ~ Holds(p, c)) => Owner(c) = NULL)'
  BY OwnerHolds, PTL
<1>2. \A c \in Conn : /\ \A p \in Proc : Holds(p, c)' <=> Owner(c)' = p
                      /\ (\A p \in Proc : ~ Holds(p, c)') => Owner(c)' = NULL
  BY <1>1
<1> QED
  BY <1>2, OwnerHolds

\* Every move is one that BoundedPool allows.
LEMMA MovePromised ==
  ASSUME Typed, Owned, Slots, Owned', Move, UNCHANGED closed
  PROVE  [Promised!Next]_(Promised!poolVars)
<1> DEFINE owner == [c \in Conn |-> Owner(c)]
<1>1. CASE Stays
  <2>1. \A c \in Conn : Owner(c)' = Owner(c)
    BY <1>1, OwnerChanges DEF Stays
  <2> QED
    BY <1>1, <2>1 DEF Stays, Promised!poolVars
<1>2. ASSUME NEW p \in Proc, NEW c \in Conn, Takes(p, c)
      PROVE  Promised!Next
  <2>1. owner[c] = NULL
    BY <1>2, OwnerHolds DEF Takes
  <2>2. Owner(c)' = p /\ \A d \in Conn : d # c => Owner(d)' = Owner(d)
    BY <1>2, OwnerChanges DEF Takes
  <2>3. owner' = [owner EXCEPT ![c] = p]
    BY <2>2
  <2>4. Promised!Take(p, c)
    BY <1>2, <2>1, <2>3 DEF Takes, Promised!Take
  <2> QED
    BY <1>2, <2>4 DEF Takes, Promised!Next
<1>3. ASSUME NEW p \in Proc, NEW c \in Conn, Gives(p, c) \/ Drops(p, c)
      PROVE  Promised!Next
  <2>1. owner[c] # NULL
    BY <1>3, OwnerHolds, PoolAssumption DEF Gives, Drops
  <2>2. Owner(c)' = NULL /\ \A d \in Conn : d # c => Owner(d)' = Owner(d)
    BY <1>3, OwnerChanges DEF Gives, Drops
  <2>3. owner' = [owner EXCEPT ![c] = NULL]
    BY <2>2
  <2>4. Promised!Return(c) \/ Promised!Drop(c)
    BY <1>3, <2>1, <2>3 DEF Gives, Drops, Promised!Return, Promised!Drop
  <2> QED
    BY <1>3, <2>4 DEF Gives, Drops, Promised!Next
<1>4. ASSUME NEW p \in Proc, NEW c \in Conn, Brings(p, c)
      PROVE  Promised!Next
  <2>1. Owner(c)' = p /\ \A d \in Conn : d # c => Owner(d)' = Owner(d)
    BY <1>4, OwnerChanges DEF Brings, Owned, Listed
  <2>2. owner' = [owner EXCEPT ![c] = p]
    BY <2>1
  <2>3. Cardinality(list) < PoolSize
    <3>1. Granted # {}
      BY <1>4 DEF Brings
    <3> QED
      BY <3>1, SlotCounts, FS_EmptySet, PoolAssumption DEF Slots
  <2>4. Promised!Cardinality(list) = Cardinality(list)
    BY DEF Cardinality, Promised!Cardinality
  <2>5. Promised!Enlist(p, c)
    BY <1>4, <2>2, <2>3, <2>4 DEF Brings, Promised!Enlist
  <2> QED
    BY <1>4, <2>5 DEF Promised!Next
<1>5. ASSUME NEW p \in Proc, NEW c \in Conn, NEW e \in Conn, Swaps(p, c, e)
      PROVE  Promised!Next
  <2>1. owner[c] = p /\ c # e
    BY <1>5, OwnerHolds DEF Swaps
  <2>2. /\ Owner(c)' = NULL /\ Owner(e)' = p
        /\ \A d \in Conn : d # c /\ d # e => Owner(d)' = Owner(d)
    BY <1>5, <2>1, OwnerChanges DEF Swaps
  <2>3. owner' = [owner EXCEPT ![c] = NULL, ![e] = p]
    BY <2>1, <2>2
  <2>4. Promised!Exchange(p, c, e)
    BY <1>5, <2>1, <2>3 DEF Swaps, Promised!Exchange
  <2> QED
    BY <1>5, <2>4 DEF Swaps, Promised!Next
<1> QED
  BY <1>1, <1>2, <1>3, <1>4, <1>5 DEF Move

\* The pool implements the bounded pool: at most PoolSize connections, each
\* with one owner, whatever Get, Put, Remove and the reaper interleave.
THEOREM PoolImplementsPromise == PoolSpec => ImplementsPool
<1>1. PoolInit => Promised!Init
  <2> SUFFICES ASSUME PoolInit PROVE Promised!Init
    OBVIOUS
  <2>1. \A c \in Conn : Owner(c) = NULL
    BY PoolAssumption DEF PoolInit, Owner
  <2> QED
    BY <2>1 DEF PoolInit, Promised!Init
<1>2. IInv /\ IInv' /\ [PoolNext]_poolVars => [Promised!Next]_(Promised!poolVars)
  <2> SUFFICES ASSUME IInv, IInv', [PoolNext]_poolVars
               PROVE  [Promised!Next]_(Promised!poolVars)
    OBVIOUS
  <2>1. CASE closed
    BY <2>1, ClosedStays DEF IInv, Typed, Promised!Next
  <2>2. CASE ~ closed /\ ~ closed'
    BY <2>2, NextOwned, MovePromised DEF IInv, Typed
  <2>3. CASE ~ closed /\ closed'
    <3>1. PICK p \in Proc : Close(p)
      BY <2>3 DEF PoolNext, Step, Get, First, Drop, RemoveFailed, Unlist, Reserve, Unreserve,
             Dial, Renew, Add, Receive, Timeout, Done, Put, Replace, Send, Shut, Age,
             shared, poolVars
    <3>2. Goto(p, "drain") \/ Goto(p, "shut")
      BY <3>1 DEF Close
    <3>3. UNCHANGED <<list, cn, newcn>> /\ pc[p] = "idle"
      BY <3>1 DEF Close
    <3>4. \A q \in Proc : pc'[q] = "send" <=> pc[q] = "send"
      BY <3>2, <3>3 DEF Goto, IInv, Typed
    <3>5. \A c \in Conn : Owner(c)' = Owner(c)
      BY <3>3, <3>4 DEF Owner
    <3> QED
      BY <2>3, <3>3, <3>5 DEF Promised!Next
  <2> QED
    BY <2>1, <2>2, <2>3 DEF IInv, Typed
<1> QED
  BY PoolInvariant, <1>1, <1>2, PTL DEF PoolSpec, ImplementsPool, Promised!Spec
=============================================================================
