---------------------------- MODULE BoundedPool -----------------------------
(***************************************************************************)
(* What a connection pool promises: at most Size connections, each owned   *)
(* by one borrower or by none.  Nothing is promised of a pool after Close. *)
(***************************************************************************)
EXTENDS Naturals, FiniteSets

CONSTANTS Conn, Proc, NULL, Size

VARIABLES conns,    \* the connections of the pool
          owner,    \* who has a connection, NULL for nobody
          shut      \* Close was called

poolVars == <<conns, owner, shut>>

Init == conns = {} /\ owner = [c \in Conn |-> NULL] /\ shut = FALSE

\* A borrower takes a connection nobody has.
Take(p, c) ==
  /\ owner[c] = NULL
  /\ owner' = [owner EXCEPT ![c] = p]
  /\ UNCHANGED <<conns, shut>>

\* A borrower brings its connection back.
Return(c) ==
  /\ owner[c] # NULL
  /\ owner' = [owner EXCEPT ![c] = NULL]
  /\ UNCHANGED <<conns, shut>>

\* There is room for a connection of p's own.
Enlist(p, c) ==
  /\ c \notin conns
  /\ Cardinality(conns) < Size
  /\ conns' = conns \cup {c}
  /\ owner' = [owner EXCEPT ![c] = p]
  /\ UNCHANGED shut

\* The owner of c takes it out of the pool, or puts d in its place.
Drop(c) ==
  /\ owner[c] # NULL
  /\ conns' = conns \ {c}
  /\ owner' = [owner EXCEPT ![c] = NULL]
  /\ UNCHANGED shut

Exchange(p, c, d) ==
  /\ owner[c] = p
  /\ d \notin conns
  /\ conns' = (conns \ {c}) \cup {d}
  /\ owner' = [owner EXCEPT ![c] = NULL, ![d] = p]
  /\ UNCHANGED shut

Next ==
  \/ \E c \in conns : Return(c) \/ Drop(c)
  \/ \E p \in Proc, c \in Conn : Enlist(p, c) \/ (c \in conns /\ Take(p, c))
  \/ \E p \in Proc, c \in conns, d \in Conn : Exchange(p, c, d)
  \/ ~ shut /\ shut' /\ UNCHANGED <<conns, owner>>
  \/ shut /\ shut'

Spec == Init /\ [][Next]_poolVars
=============================================================================
