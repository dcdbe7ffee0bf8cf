---------------------------- MODULE MCRedisConn ----------------------------
(* RedisConn with every method of the client, each in calls of its own.     *)
EXTENDS RedisConn

\* Their replies may hold a nil that stringSliceParser does not read past.
WithHoles == {"Sort", "GeoHash"}

AllButHoles == Methods \ WithHoles
AllFields == {"dist", "hash", "coord"}
Some == {"HSet", "Set"}
=============================================================================
