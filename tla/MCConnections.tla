--------------------------- MODULE MCConnections ---------------------------
(* The connections of the two clients, of which one is used: that of Redis, *)
(* or that of MySQL.                                                       *)
EXTENDS MCRedisConn, MysqlConn

VARIABLE client

connectionsVars == <<connVars, mysqlVars, client>>

\* The servers' data source name has no parameters; this one has all.
AllParameters == [charsets |-> 2, strict |-> TRUE, allowOld |-> TRUE, allowClear |-> FALSE]
NoParameters == [charsets |-> 0, strict |-> FALSE, allowOld |-> FALSE, allowClear |-> TRUE]
MCDsns == {AllParameters, NoParameters}

ConnectionsInit == client \in {"Redis", "MySQL"} /\ ConnInit /\ MysqlInit

ConnectionsNext ==
  \/ client = "Redis" /\ ConnNext /\ UNCHANGED <<mysqlVars, client>>
  \/ client = "MySQL" /\ MysqlNext /\ UNCHANGED <<connVars, client>>

ConnectionsSpec == ConnectionsInit /\ [][ConnectionsNext]_connectionsVars
=============================================================================
