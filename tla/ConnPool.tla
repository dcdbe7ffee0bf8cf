------------------------------ MODULE ConnPool ------------------------------
(***************************************************************************)
(* The pool of connections to Redis (redis.v3/pool.go): a list of all      *)
(* connections under a mutex, an atomic counter of the slots taken, and a  *)
(* channel of the free connections.  Get, Put, Remove, Close and the       *)
(* reaper are steps over the three, which no lock holds together.          *)
(***************************************************************************)
EXTENDS Integers, Sequences, FiniteSets

CONSTANTS Proc,         \* goroutines that use the pool
          Reaper,       \* the goroutine that reaps, one of Proc
          Closer,       \* the goroutine that calls Close, one of Proc or NULL
          Conn,
          PoolSize,
          NULL

CONSTANTS MaxFails,     \* BOUND: dials that fail or are rate limited
          MaxGets       \* BOUND: calls of Get; the reaper's rounds are not bounded

ASSUME PoolAssumption ==
  /\ PoolSize \in Nat \ {0}
  /\ MaxFails \in Nat /\ MaxGets \in Nat
  /\ Reaper \in Proc /\ Closer \in Proc \cup {NULL}
  /\ NULL \notin Conn \cup Proc

VARIABLES list,         \* connList.cns
          len,          \* connList.len
          free,         \* freeConns
          closed,       \* _closed
          fresh,        \* connections put back less than IdleTimeout ago
          open,         \* connections with an open socket
          nilList,      \* connList.cns is nil: closed, and nothing was added since
          pc,
          cn, newcn,    \* the connections a goroutine has in its hands
          back,         \* where Remove returns to
          left,         \* what Close has yet to wait for
          fails, gets

shared == <<list, len, free, closed, fresh, open, nilList>>
poolVars == <<shared, pc, cn, newcn, back, left, fails, gets>>

PoolInit ==
  /\ list = {} /\ len = 0 /\ free = <<>> /\ closed = FALSE
  /\ fresh = {} /\ open = {} /\ nilList = FALSE
  /\ pc = [p \in Proc |-> "idle"]
  /\ cn = [p \in Proc |-> NULL]
  /\ newcn = [p \in Proc |-> NULL]
  /\ back = [p \in Proc |-> "idle"]
  /\ left = 0 /\ fails = 0 /\ gets = 0

Goto(p, l) == pc' = [pc EXCEPT ![p] = l]

\* IdleTimeout has passed since usedAt, which is the zero time for a
\* connection that was never put back.
IsIdle(c) == c \notin fresh

\* Connections that are closed: their age is forgotten.
Shutdown(cs) == open' = open \ cs /\ fresh' = fresh \ cs

-----------------------------------------------------------------------------
(* Get.                                                                    *)

\* A command asks for a connection, or the reaper's ticker ticks.
Get(p) ==
  /\ pc[p] = "idle" /\ p # Closer
  /\ \/ p = Reaper /\ gets' = gets
     \/ p # Reaper /\ gets < MaxGets /\ gets' = gets + 1
  /\ ~ closed
  /\ Goto(p, "first")
  /\ UNCHANGED <<shared, cn, newcn, back, left, fails>>

\* Slip: a connection that is used stays in the channel.
FirstPeeks(p) ==
  /\ pc[p] = "first"
  /\ \/ /\ free # <<>>
        /\ cn' = [cn EXCEPT ![p] = Head(free)]
        /\ Goto(p, IF IsIdle(Head(free)) THEN "drop" ELSE "use")
     \/ free = <<>> /\ Goto(p, "reserve") /\ UNCHANGED cn
  /\ UNCHANGED <<list, len, free, closed, fresh, open, nilList, newcn, back, left, fails, gets>>

\* Slip: an empty channel is not told from a connection.
FirstNil(p) ==
  /\ pc[p] = "first" /\ free = <<>>
  /\ Goto(p, "use")
  /\ UNCHANGED <<shared, cn, newcn, back, left, fails, gets>>

\* First: a free connection; idle ones are dropped.  The reaper puts the
\* first that is not idle back.
First(p) ==
  /\ pc[p] = "first"
  /\ \/ /\ free # <<>>
        /\ cn' = [cn EXCEPT ![p] = Head(free)]
        /\ free' = Tail(free)
        /\ Goto(p, IF IsIdle(Head(free)) THEN "drop" ELSE IF p = Reaper THEN "put" ELSE "use")
     \/ /\ free = <<>>
        /\ Goto(p, IF p = Reaper THEN "idle" ELSE "reserve")
        /\ UNCHANGED <<cn, free>>
  /\ UNCHANGED <<list, len, closed, fresh, open, nilList, newcn, back, left, fails, gets>>

\* connList.Remove closes the connection.  Not to find it is a panic, but for
\* a list that is nil.
Unlist(p, l) ==
  /\ \/ /\ cn[p] \in list
        /\ list' = list \ {cn[p]}
        /\ len' = len - 1
        /\ Shutdown({cn[p]})
        /\ Goto(p, l)
     \/ /\ cn[p] \notin list
        /\ Goto(p, IF nilList THEN l ELSE "panic")
        /\ UNCHANGED <<list, len, open, fresh>>
  /\ cn' = [cn EXCEPT ![p] = NULL]
  /\ back' = [back EXCEPT ![p] = "idle"]
  /\ UNCHANGED <<free, closed, nilList, newcn, left, fails, gets>>

Drop(p) == pc[p] = "drop" /\ Unlist(p, "first")

\* Slip: compares with the length before.
ReserveLate(p) ==
  /\ pc[p] = "reserve"
  /\ len' = len + 1
  /\ Goto(p, IF len <= PoolSize THEN "dial" ELSE "unreserve")
  /\ UNCHANGED <<list, free, closed, fresh, open, nilList, cn, newcn, back, left, fails, gets>>

\* connList.Reserve, two atomic additions.
Reserve(p) ==
  /\ pc[p] = "reserve"
  /\ len' = len + 1
  /\ Goto(p, IF len + 1 <= PoolSize THEN "dial" ELSE "unreserve")
  /\ UNCHANGED <<list, free, closed, fresh, open, nilList, cn, newcn, back, left, fails, gets>>

\* Slip: the slot of a dial that failed is kept.
UnreserveOnce(p) ==
  /\ pc[p] \in {"unreserve", "undial"}
  /\ len' = IF pc[p] = "unreserve" THEN len - 1 ELSE len
  /\ Goto(p, IF pc[p] = "unreserve" THEN "wait" ELSE "idle")
  /\ UNCHANGED <<list, free, closed, fresh, open, nilList, cn, newcn, back, left, fails, gets>>

\* The slot is given back: none was left, or the dial failed.
Unreserve(p) ==
  /\ pc[p] \in {"unreserve", "undial"}
  /\ len' = len - 1
  /\ Goto(p, IF pc[p] = "unreserve" THEN "wait" ELSE "idle")
  /\ UNCHANGED <<list, free, closed, fresh, open, nilList, cn, newcn, back, left, fails, gets>>

\* Connections nobody holds.
Unknown ==
  {c \in Conn \ (open \cup list) :
     /\ \A q \in Proc : c \notin {cn[q], newcn[q]}
     /\ \A i \in 1 .. Len(free) : free[i] # c}

\* connPool.new: rate limiter and dialer.  Which name a new connection has
\* makes no difference.
New(p, ok, failed) ==
  \/ /\ Unknown # {}
     /\ LET c == CHOOSE c \in Unknown : TRUE
        IN  /\ open' = open \cup {c}
            /\ newcn' = [newcn EXCEPT ![p] = c]
     /\ Goto(p, ok)
     /\ UNCHANGED fails
  \/ /\ fails < MaxFails
     /\ fails' = fails + 1
     /\ Goto(p, failed)
     /\ UNCHANGED <<open, newcn>>

Dial(p) ==
  /\ pc[p] = "dial"
  /\ New(p, "add", "undial")
  /\ UNCHANGED <<list, len, free, closed, fresh, nilList, cn, back, left, gets>>

Add(p) ==
  /\ pc[p] = "add"
  /\ list' = list \cup {newcn[p]}
  /\ cn' = [cn EXCEPT ![p] = newcn[p]]
  /\ newcn' = [newcn EXCEPT ![p] = NULL]
  /\ nilList' = FALSE
  /\ Goto(p, "use")
  /\ UNCHANGED <<len, free, closed, fresh, open, back, left, fails, gets>>

\* wait, of Get and of Close: an idle connection is replaced and put back.
Receive(p) ==
  /\ pc[p] \in {"wait", "drain"}
  /\ free # <<>>
  /\ LET c == Head(free)
     IN  /\ free' = Tail(free)
         /\ \/ /\ IsIdle(c)
               /\ cn' = [cn EXCEPT ![p] = c]
               /\ back' = [back EXCEPT ![p] = pc[p]]
               /\ Goto(p, "renew")
               /\ UNCHANGED left
            \/ /\ ~ IsIdle(c) /\ pc[p] = "wait"
               /\ cn' = [cn EXCEPT ![p] = c]
               /\ Goto(p, "use")
               /\ UNCHANGED <<back, left>>
            \/ /\ ~ IsIdle(c) /\ pc[p] = "drain"
               /\ left' = left + 1
               /\ Goto(p, IF left + 1 < len THEN "drain" ELSE "shut")
               /\ UNCHANGED <<cn, back>>
  /\ UNCHANGED <<list, len, closed, fresh, open, nilList, newcn, fails, gets>>

\* Slip: only Close has a deadline.
TimeoutOfClose(p) ==
  /\ pc[p] = "drain"
  /\ Goto(p, "shut")
  /\ UNCHANGED <<shared, cn, newcn, back, left, fails, gets>>

\* The deadline: errPoolTimeout, or the end of the loop in Close.
Timeout(p) ==
  /\ pc[p] \in {"wait", "drain"}
  /\ Goto(p, IF pc[p] = "wait" THEN "idle" ELSE "shut")
  /\ UNCHANGED <<shared, cn, newcn, back, left, fails, gets>>

-----------------------------------------------------------------------------
(* Put and Remove.                                                         *)

\* The command is done: putConn calls Put, or Remove of a bad connection or
\* one with unread data.
Done(p) ==
  /\ pc[p] = "use"
  /\ \/ Goto(p, "put") /\ UNCHANGED back
     \/ Goto(p, "renew") /\ back' = [back EXCEPT ![p] = "idle"]
  /\ UNCHANGED <<shared, cn, newcn, left, fails, gets>>

\* A send blocks while the channel is full.
Put(p) ==
  /\ pc[p] = "put"
  /\ Len(free) < PoolSize
  /\ fresh' = fresh \cup {cn[p]}
  /\ free' = Append(free, cn[p])
  /\ cn' = [cn EXCEPT ![p] = NULL]
  /\ Goto(p, "idle")
  /\ UNCHANGED <<list, len, closed, open, nilList, newcn, back, left, fails, gets>>

Renew(p) ==
  /\ pc[p] = "renew"
  /\ New(p, "replace", "unlist")
  /\ UNCHANGED <<list, len, free, closed, fresh, nilList, cn, back, left, gets>>

RemoveFailed(p) == pc[p] = "unlist" /\ Unlist(p, back[p])

\* Slip: the old connection stays open.
ReplaceLeaks(p) ==
  /\ pc[p] = "replace" /\ cn[p] \in list
  /\ list' = (list \ {cn[p]}) \cup {newcn[p]}
  /\ Goto(p, "send")
  /\ cn' = [cn EXCEPT ![p] = NULL]
  /\ UNCHANGED <<len, free, closed, fresh, open, nilList, newcn, back, left, fails, gets>>

\* connList.Replace.
Replace(p) ==
  /\ pc[p] = "replace"
  /\ \/ /\ cn[p] \in list
        /\ list' = (list \ {cn[p]}) \cup {newcn[p]}
        /\ Shutdown({cn[p]})
        /\ Goto(p, "send")
     \/ /\ cn[p] \notin list /\ nilList
        /\ Shutdown({newcn[p]})
        /\ Goto(p, "send")
        /\ UNCHANGED list
     \/ /\ cn[p] \notin list /\ ~ nilList
        /\ Goto(p, "panic")
        /\ UNCHANGED <<list, open, fresh>>
  /\ cn' = [cn EXCEPT ![p] = NULL]
  /\ UNCHANGED <<len, free, closed, nilList, newcn, back, left, fails, gets>>

Send(p) ==
  /\ pc[p] = "send"
  /\ Len(free) < PoolSize
  /\ free' = Append(free, newcn[p])
  /\ newcn' = [newcn EXCEPT ![p] = NULL]
  /\ back' = [back EXCEPT ![p] = "idle"]
  /\ Goto(p, back[p])
  /\ UNCHANGED <<list, len, closed, fresh, open, nilList, cn, left, fails, gets>>

-----------------------------------------------------------------------------
(* Close, and time.                                                        *)

Close(p) ==
  /\ pc[p] = "idle" /\ p = Closer
  /\ ~ closed
  /\ closed' = TRUE
  /\ left' = 0
  /\ Goto(p, IF len > 0 THEN "drain" ELSE "shut")
  /\ UNCHANGED <<list, len, free, fresh, open, nilList, cn, newcn, back, fails, gets>>

Shut(p) ==
  /\ pc[p] = "shut"
  /\ Shutdown(list)
  /\ list' = {} /\ len' = 0 /\ nilList' = TRUE
  /\ Goto(p, "end")
  /\ UNCHANGED <<free, closed, cn, newcn, back, left, fails, gets>>

\* IdleTimeout passes for a connection.
Age(c) ==
  /\ c \in fresh
  /\ fresh' = fresh \ {c}
  /\ UNCHANGED <<list, len, free, closed, open, nilList, pc, cn, newcn, back, left, fails, gets>>

Step(p) ==
  \/ First(p) \/ Drop(p) \/ Reserve(p) \/ Unreserve(p) \/ Dial(p) \/ Add(p)
  \/ Receive(p) \/ Done(p) \/ Put(p)
  \/ Renew(p) \/ RemoveFailed(p) \/ Replace(p) \/ Send(p) \/ Shut(p)

PoolNext ==
  \/ \E p \in Proc : Get(p) \/ Step(p) \/ Timeout(p) \/ Close(p)
  \/ \E c \in Conn : Age(c)

\* Goroutines are scheduled, and a dial or a command ends in a result.  Go's
\* select takes one of the cases that are ready at random, so that a deadline
\* is not passed over for ever.
PoolFairness == \A p \in Proc : WF_poolVars(Step(p)) /\ SF_poolVars(Timeout(p))

PoolSpec == PoolInit /\ [][PoolNext]_poolVars /\ PoolFairness

-----------------------------------------------------------------------------
(* Correctness.                                                            *)

\* Every goroutine has the connections its step works with.
PoolTypeOK ==
  /\ list \subseteq Conn /\ open \subseteq Conn /\ len \in Int
  /\ free \in Seq(Conn)
  /\ \A p \in Proc :
       /\ pc[p] \in {"drop", "use", "put", "renew", "replace", "unlist"} => cn[p] \in Conn
       /\ pc[p] \in {"add", "replace", "send"} => newcn[p] \in Conn

\* The slots taken are those of the connections in the list and of the
\* goroutines between Reserve and Add, so the list never outgrows PoolSize
\* and no slot is lost, though no lock holds the counter and the list together.
SlotsAddUp ==
  ~ closed =>
    /\ len = Cardinality(list)
             + Cardinality({p \in Proc : pc[p] \in {"dial", "undial", "unreserve", "add"}})
    /\ Cardinality(list) <= PoolSize

\* No goroutine comes to a step it cannot leave: Put and Remove find room in the
\* channel for what they send, and Remove and Replace find their connection in
\* the list ("conn not found in the list").  (After Close they may not: a Get
\* under way takes a new slot while the channel is still full.)
NeverStuck ==
  ~ closed => \A p \in Proc : /\ pc[p] \in {"put", "send"} => Len(free) < PoolSize
                              /\ pc[p] # "panic"

\* No socket is left open outside the list, but for one just dialed.
NothingLeaks ==
  ~ closed => open = list \cup {newcn[p] : p \in {q \in Proc : newcn[q] # NULL}}

\* At most PoolSize connections, each in the hands of one goroutine.
Owner(c) ==
  IF \E p \in Proc : cn[p] = c \/ (newcn[p] = c /\ pc[p] = "send")
  THEN CHOOSE p \in Proc : cn[p] = c \/ (newcn[p] = c /\ pc[p] = "send")
  ELSE NULL

Promised == INSTANCE BoundedPool WITH
              conns <- list, owner <- [c \in Conn |-> Owner(c)], shut <- closed, Size <- PoolSize

ImplementsPool == Promised!Spec

\* A call of Get ends with a connection or an error, and so does
\* Close; the reaper's call of First ends with a connection to put back or none.
EveryGetReturns ==
  \A p \in Proc : pc[p] \in {"first", "wait", "drain"} ~> pc[p] \in {"idle", "use", "put", "end", "panic"}

\* redis.go, PoolTimeout: a client waits "if all connections are busy".  When
\* nobody is on the way to bring a connection or to give up a slot, one who
\* waits in vain finds PoolSize connections in use.
WaitsOnlyIfBusy ==
  /\ ~ closed /\ free = <<>>
  /\ \E p \in Proc : pc[p] = "wait"
  /\ \A p \in Proc : pc[p] \in {"idle", "wait", "use"}
  => Cardinality(list) = PoolSize
=============================================================================
