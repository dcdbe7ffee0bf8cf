--------------------------- MODULE RedisCommands ---------------------------
(***************************************************************************)
(* The methods of the Redis client (redis.v3/commands.go), by the type of  *)
(* the command each builds: the type decides how the reply is read.  A     *)
(* section is a record of sets of methods, the field is the type.          *)
(***************************************************************************)
EXTENDS Naturals, Sequences, FiniteSets

Connection ==
  [Status |-> {"Auth", "Ping", "Select"}, String |-> {"Echo"}]

Keys ==
  [Int         |-> {"Del", "ObjectRefCount"},
   String      |-> {"Dump", "ObjectEncoding"},
   Bool        |-> {"Exists", "Expire", "ExpireAt", "Move", "Persist", "PExpire", "PExpireAt"},
   StringSlice |-> {"Keys"},
   Status      |-> {"Migrate"},
   Duration    |-> {"ObjectIdleTime", "PTTL"}]

KeysAndCursors ==
  [String      |-> {"RandomKey"},
   Status      |-> {"Rename", "Restore", "RestoreReplace", "Type"},
   Bool        |-> {"RenameNX"},
   StringSlice |-> {"Sort"},
   Duration    |-> {"TTL"},
   Scan        |-> {"Scan", "SScan", "HScan", "ZScan"}]

Strings ==
  [Int    |-> {"Append", "BitCount", "BitOpAnd", "BitOpOr", "BitOpXor", "BitOpNot", "BitPos",
               "Decr", "DecrBy", "GetBit", "Incr", "IncrBy"},
   String |-> {"Get", "GetRange", "GetSet"},
   Float  |-> {"IncrByFloat"}]

StringsOfMany ==
  [Slice  |-> {"MGet"},
   Status |-> {"MSet", "Set"},
   Bool   |-> {"MSetNX", "SetNX", "SetXX"},
   Int    |-> {"SetBit", "SetRange", "StrLen"}]

Hashes ==
  [Int             |-> {"HDel", "HIncrBy", "HLen"},
   Bool            |-> {"HExists", "HSet", "HSetNX"},
   String          |-> {"HGet"},
   StringSlice     |-> {"HGetAll", "HKeys", "HVals"},
   StringStringMap |-> {"HGetAllMap"},
   Float           |-> {"HIncrByFloat"},
   Slice           |-> {"HMGet"},
   Status          |-> {"HMSet"}]

Lists ==
  [StringSlice |-> {"BLPop", "BRPop", "LRange"},
   String      |-> {"BRPopLPush", "LIndex", "LPop", "RPop", "RPopLPush"},
   Int         |-> {"LInsert", "LLen", "LPush", "LPushX", "LRem", "RPush", "RPushX"},
   Status      |-> {"LSet", "LTrim"}]

SetsOfRedis ==
  [Int         |-> {"SAdd", "SCard", "SDiffStore", "SInterStore", "SRem", "SUnionStore"},
   StringSlice |-> {"SDiff", "SInter", "SMembers", "SRandMemberN", "SUnion"},
   Bool        |-> {"SIsMember", "SMove"},
   String      |-> {"SPop", "SRandMember"}]

SortedSets ==
  [Int   |-> {"ZAdd", "ZAddNX", "ZAddXX", "ZAddCh", "ZAddNXCh", "ZAddXXCh", "ZCard", "ZCount",
              "ZInterStore"},
   Float |-> {"ZIncr", "ZIncrNX", "ZIncrXX", "ZIncrBy"}]

SortedRanges ==
  [StringSlice |-> {"ZRange", "ZRangeByScore", "ZRangeByLex", "ZRevRange", "ZRevRangeByScore",
                    "ZRevRangeByLex"},
   ZSlice      |-> {"ZRangeWithScores", "ZRangeByScoreWithScores", "ZRevRangeWithScores",
                    "ZRevRangeByScoreWithScores"},
   Int         |-> {"ZRank", "ZRem", "ZRemRangeByRank", "ZRemRangeByScore", "ZRevRank"}]

SortedScores == [Float |-> {"ZScore"}, Int |-> {"ZUnionStore"}]

HyperLogLog == [Int |-> {"PFAdd", "PFCount"}, Status |-> {"PFMerge"}]

\* shutdown makes an error of the reply that comes when the server did not quit.
Administration ==
  [Status      |-> {"BgRewriteAOF", "BgSave", "ClientKill", "ConfigResetStat", "ConfigSet",
                    "FlushAll", "FlushDb", "Save", "Shutdown", "SlaveOf"},
   String      |-> {"ClientList", "ClientGetName", "Info"},
   Bool        |-> {"ClientPause", "ClientSetName"},
   Slice       |-> {"ConfigGet"},
   Int         |-> {"DbSize", "LastSave"},
   StringSlice |-> {"Time"}]

Scripting ==
  [Cmd       |-> {"Eval", "EvalSha"},
   BoolSlice |-> {"ScriptExists"},
   Status    |-> {"ScriptFlush", "ScriptKill"},
   String    |-> {"ScriptLoad", "DebugObject"}]

PubSubState ==
  [StringSlice |-> {"PubSubChannels"}, StringIntMap |-> {"PubSubNumSub"}, Int |-> {"PubSubNumPat"}]

ClusterState ==
  [ClusterSlot |-> {"ClusterSlots"},
   String      |-> {"ClusterNodes", "ClusterInfo"},
   Status      |-> {"ClusterMeet", "ClusterReplicate", "ClusterFailover", "ClusterAddSlots"}]

Geo ==
  [Int         |-> {"GeoAdd"},
   GeoLocation |-> {"GeoRadius", "GeoRadiusByMember"},
   Float       |-> {"GeoDist"},
   StringSlice |-> {"GeoHash"}]

Sections ==
  {Connection, Keys, KeysAndCursors, Strings, StringsOfMany, Hashes, Lists, SetsOfRedis, SortedSets,
   SortedRanges, SortedScores, HyperLogLog, Administration, Scripting, PubSubState, ClusterState, Geo}

CmdTypes ==
  {"Cmd", "Slice", "Status", "Int", "Duration", "Bool", "String", "Float", "StringSlice", "BoolSlice",
   "StringStringMap", "StringIntMap", "ZSlice", "Scan", "ClusterSlot", "GeoLocation"}

TypesOf(m) == {t \in CmdTypes : \E s \in Sections : t \in DOMAIN s /\ m \in s[t]}

Methods == UNION {UNION {s[t] : t \in DOMAIN s} : s \in Sections}

\* The type of the command a method builds.
TypeOf == [m \in Methods |-> CHOOSE t \in TypesOf(m) : TRUE]

-----------------------------------------------------------------------------
(* What Redis answers to the methods, by the shape of the reply; all but    *)
(* the scripts may also be answered with an error.                         *)

ReplyShapes ==
  [status  |-> {"Auth", "Ping", "Select", "Migrate", "Rename", "Restore", "RestoreReplace", "Type", "MSet",
                "Set", "HMSet", "LSet", "LTrim", "PFMerge", "BgRewriteAOF", "BgSave", "ClientKill",
                "ConfigResetStat", "ConfigSet", "FlushAll", "FlushDb", "Save", "SlaveOf", "ClientPause",
                "ClientSetName", "ScriptFlush", "ScriptKill", "DebugObject", "ClusterMeet",
                "ClusterReplicate", "ClusterFailover", "ClusterAddSlots", "SetNX", "SetXX"},
   int     |-> {"Del", "ObjectRefCount", "Exists", "Expire", "ExpireAt", "Move", "Persist", "PExpire",
                "PExpireAt", "ObjectIdleTime", "PTTL", "RenameNX", "Sort", "TTL", "Append", "BitCount",
                "BitOpAnd", "BitOpOr", "BitOpXor", "BitOpNot", "BitPos", "Decr", "DecrBy", "GetBit", "Incr",
                "IncrBy", "MSetNX", "SetNX", "SetBit", "SetRange", "StrLen", "HDel", "HIncrBy", "HLen",
                "HExists", "HSet", "HSetNX", "LInsert", "LLen", "LPush", "LPushX", "LRem", "RPush",
                "RPushX", "SAdd", "SCard", "SDiffStore", "SInterStore", "SRem", "SUnionStore", "SIsMember",
                "SMove", "ZAdd", "ZAddNX", "ZAddXX", "ZAddCh", "ZAddNXCh", "ZAddXXCh", "ZCard", "ZCount",
                "ZInterStore", "ZRank", "ZRem", "ZRemRangeByRank", "ZRemRangeByScore", "ZRevRank",
                "ZUnionStore", "PFAdd", "PFCount", "DbSize", "LastSave", "PubSubNumPat", "GeoAdd"},
   nil     |-> {"ObjectRefCount", "ObjectIdleTime", "SetNX", "SetXX", "ZRank", "ZRevRank", "Dump",
                "ObjectEncoding", "RandomKey", "Get", "GetSet", "HGet", "LIndex", "LPop", "RPop",
                "RPopLPush", "SPop", "SRandMember", "ZIncrNX", "ZIncrXX", "ZScore", "GeoDist",
                "ClientGetName"},
   bulk    |-> {"Echo", "Dump", "ObjectEncoding", "RandomKey", "Get", "GetRange", "GetSet", "HGet",
                "BRPopLPush", "LIndex", "LPop", "RPop", "RPopLPush", "SPop", "SRandMember", "ClientList",
                "ClientGetName", "Info", "ScriptLoad", "ClusterNodes", "ClusterInfo"},
   number  |-> {"IncrByFloat", "HIncrByFloat", "ZIncr", "ZIncrNX", "ZIncrXX", "ZIncrBy", "ZScore", "GeoDist"},
   strings |-> {"Keys", "Sort", "HGetAll", "HKeys", "HVals", "LRange", "SDiff", "SInter", "SMembers",
                "SRandMemberN", "SUnion", "ZRange", "ZRangeByScore", "ZRangeByLex", "ZRevRange",
                "ZRevRangeByScore", "ZRevRangeByLex", "Time", "PubSubChannels", "ConfigGet", "GeoHash",
                "HGetAllMap", "BLPop", "BRPop", "MGet", "HMGet"},
   holes   |-> {"MGet", "HMGet", "Sort", "GeoHash"},
   nilArray |-> {"BLPop", "BRPop", "BRPopLPush"},
   ints    |-> {"ScriptExists"},
   counts  |-> {"PubSubNumSub"},
   scores  |-> {"ZRangeWithScores", "ZRangeByScoreWithScores", "ZRevRangeWithScores",
                "ZRevRangeByScoreWithScores"},
   page    |-> {"Scan", "SScan", "HScan", "ZScan"},
   slots   |-> {"ClusterSlots"},
   places  |-> {"GeoRadius", "GeoRadiusByMember"},
   script  |-> {"Eval", "EvalSha"},
   end     |-> {"Shutdown"}]

ShapesOf == [m \in Methods |-> {k \in DOMAIN ReplyShapes : m \in ReplyShapes[k]}]
=============================================================================
