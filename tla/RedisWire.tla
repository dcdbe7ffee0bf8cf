----------------------------- MODULE RedisWire -----------------------------
(***************************************************************************)
(* Replies of Redis on the wire and how the client reads them              *)
(* (redis.v3/parser.go, command.go).  A reply is a sequence of tokens:     *)
(* its lines, each with the data it announces; a reader is read with a     *)
(* stack of what it still wants.                                           *)
(***************************************************************************)
EXTENDS RedisCommands, SequencesExt

CONSTANTS LocationFields, \* what a GeoRadiusQuery asks for
          ScriptErrors    \* a script may return an error in an array

ASSUME LocationAssumption == LocationFields \subseteq {"dist", "hash", "coord"}
ASSUME ScriptAssumption == ScriptErrors \in BOOLEAN

Line(k) == [is |-> k, n |-> 0]
ArrayOf(n) == [is |-> "array", n |-> n]

StatusLine == Line("status")
IntLine == Line("int")
BulkLine == Line("bulk")
NumberLine == Line("number")     \* a bulk string that is a number
NilLine == Line("nil")
NilArrayLine == Line("nilArray")
ErrorLine == Line("error")

Times(r, n) == [i \in 1 .. n |-> r]

\* A loop that reads two elements in each round, i += 2.
Pairs(r, s, n) == [i \in 1 .. n + (n % 2) |-> IF i % 2 = 1 THEN r ELSE s]

-----------------------------------------------------------------------------
(* The readers.  Wants(r, t): what reader r wants when it has read token t, *)
(* or the error it ends with: "redis" and "nil" are redisErrors, the others *)
(* are not.                                                                *)

Ok(rs) == [rest |-> rs, err |-> "none"]
Fail(e) == [rest |-> <<>>, err |-> e]

\* What is common: an error line, and a value of a type the reader cannot parse.
Unless(t, ok, rs) ==
  IF t.is = "error" THEN Fail("redis") ELSE IF ok THEN Ok(rs) ELSE Fail("parse")

ReadInt(t) ==
  IF t.is = "nil" THEN Fail("nil") ELSE Unless(t, t.is = "int", <<>>)

ReadString(t) ==
  IF t.is = "nil" THEN Fail("nil") ELSE Unless(t, t.is \in {"bulk", "number", "status"}, <<>>)

ReadFloat(t) ==
  IF t.is = "nil" THEN Fail("nil") ELSE Unless(t, t.is = "number", <<>>)

\* readArrayHeader and the parser of n elements; some parsers insist on n.
ReadArray(t, ok, rs) ==
  IF t.is = "nilArray" THEN Fail("nil") ELSE Unless(t, t.is = "array" /\ ok, rs)

\* readReply with sliceParser.
ReadAny(t) ==
  IF t.is \in {"nil", "nilArray"} THEN Fail("nil")
  ELSE Unless(t, TRUE, IF t.is = "array" THEN Times("element", t.n) ELSE <<>>)

\* Slip: a nil is an error among the elements too.
ReadElementStrict(t) == ReadAny(t)

\* sliceParser keeps a nil among the elements.
ReadElement(t) == IF t.is \in {"nil", "nilArray"} THEN Ok(<<>>) ELSE ReadAny(t)

\* Slip: a command that asks whether something was set reads an integer.
ReadBoolAsInt(t) == ReadInt(t)

\* BoolCmd: nil is false, and there is no parser for an array.
ReadBool(t) ==
  IF t.is \in {"nil", "nilArray"} THEN Ok(<<>>)
  ELSE IF t.is = "array" THEN Fail("panic") ELSE Unless(t, TRUE, <<>>)

Location ==
  <<"String">> \o (IF "dist" \in LocationFields THEN <<"Float">> ELSE <<>>)
               \o (IF "hash" \in LocationFields THEN <<"Int">> ELSE <<>>)
               \o (IF "coord" \in LocationFields THEN <<"coord">> ELSE <<>>)

\* A location is a name, or an array whose length is not looked at.
ReadLocation(t) ==
  IF t.is \in {"nil", "nilArray"} THEN Fail("nil")
  ELSE Unless(t, t.is # "int", IF t.is = "array" THEN Location ELSE <<>>)

\* Multi.execCmds reads the line that counts the replies itself: anything but
\* an array, an error too, is an error of the client's.
ReadExec(t) ==
  CASE t.is = "nilArray" -> Fail("nil") [] t.is = "array" -> Ok(<<>>) [] OTHER -> Fail("parse")

\* readScanReply; the page of keys is read like a slice of strings.
ReadScan(t) == ReadArray(t, t.n = 2, <<"cursor", "StringSlice">>)

\* A slot of the cluster: start, end and the addresses of its nodes.
ReadSlot(t) == ReadArray(t, t.n >= 2, <<"Int", "Int">> \o Times("addr", t.n - 2))

\* The readers of the types of commands, and of the parts they read.

AnyReplies(t) ==
  [Cmd     |-> ReadAny(t),
   Slice   |-> ReadArray(t, TRUE, Times("element", t.n)),
   element |-> ReadElement(t)]

FlatReplies(t) ==
  [Status |-> ReadString(t), Int |-> ReadInt(t), Duration |-> ReadInt(t), Bool |-> ReadBool(t)]

StringReplies(t) ==
  [String |-> ReadString(t), Float |-> ReadFloat(t), cursor |-> ReadFloat(t)]

ListReplies(t) ==
  [StringSlice     |-> ReadArray(t, TRUE, Times("String", t.n)),
   BoolSlice       |-> ReadArray(t, TRUE, Times("Int", t.n)),
   StringStringMap |-> ReadArray(t, TRUE, Pairs("String", "String", t.n)),
   StringIntMap    |-> ReadArray(t, TRUE, Pairs("String", "Int", t.n)),
   ZSlice          |-> ReadArray(t, TRUE, Pairs("String", "Float", t.n))]

NestedReplies(t) ==
  [Scan        |-> ReadScan(t),
   ClusterSlot |-> ReadArray(t, TRUE, Times("slot", t.n)),
   slot        |-> ReadSlot(t),
   addr        |-> ReadArray(t, t.n = 2, <<"String", "Int">>),
   GeoLocation |-> ReadArray(t, TRUE, Times("location", t.n)),
   location    |-> ReadLocation(t),
   coord       |-> ReadArray(t, t.n = 2, <<"Float", "Float">>)]

Wants(r, t) ==
  LET readers == {AnyReplies(t), FlatReplies(t), StringReplies(t), ListReplies(t), NestedReplies(t)}
  IN  IF r = "exec" THEN ReadExec(t) ELSE (CHOOSE rs \in readers : r \in DOMAIN rs)[r]

\* A reader in state s, with the stack of what it wants, reads the token t.
ReadToken(s, t) ==
  IF s.stack = <<>> \/ s.err # "none" THEN s
  ELSE LET w == Wants(Head(s.stack), t)
       IN  [stack |-> w.rest \o Tail(s.stack), err |-> w.err, used |-> s.used + 1]

\* readReply of a command: the tokens used, and the error, "none" when the
\* command has its value and "network" when more is wanted than is there.
ReadReply(r, toks) ==
  LET read[k \in 0 .. Len(toks)] ==
        IF k = 0 THEN [stack |-> <<r>>, err |-> "none", used |-> 0] ELSE ReadToken(read[k - 1], toks[k])
      end == read[Len(toks)]
  IN  [used |-> end.used,
       err |-> IF end.err = "none" /\ end.stack # <<>> THEN "network" ELSE end.err]

-----------------------------------------------------------------------------
(* What Redis sends.                                                       *)

Place ==
  IF LocationFields = {} THEN <<BulkLine>>
  ELSE <<ArrayOf(1 + Cardinality(LocationFields)), BulkLine>>
       \o (IF "dist" \in LocationFields THEN <<NumberLine>> ELSE <<>>)
       \o (IF "hash" \in LocationFields THEN <<IntLine>> ELSE <<>>)
       \o (IF "coord" \in LocationFields THEN <<ArrayOf(2), NumberLine, NumberLine>> ELSE <<>>)

\* EVAL of a script that returns {1, redis.error_reply(..), ..}: sliceParser gives
\* up at the error.  No script of the servers returns one.
WithError == <<ArrayOf(3), IntLine, ErrorLine, BulkLine>>

Replies(shape) ==
  CASE shape = "status"   -> {<<StatusLine>>}
    [] shape = "int"      -> {<<IntLine>>}
    [] shape = "nil"      -> {<<NilLine>>}
    [] shape = "bulk"     -> {<<BulkLine>>}
    [] shape = "number"   -> {<<NumberLine>>}
    [] shape = "strings"  -> {<<ArrayOf(0)>>, <<ArrayOf(2), BulkLine, BulkLine>>}
    [] shape = "holes"    -> {<<ArrayOf(2), NilLine, BulkLine>>}
    [] shape = "nilArray" -> {<<NilArrayLine>>}
    [] shape = "ints"     -> {<<ArrayOf(2), IntLine, IntLine>>}
    [] shape = "counts"   -> {<<ArrayOf(0)>>, <<ArrayOf(2), BulkLine, IntLine>>}
    [] shape = "scores"   -> {<<ArrayOf(0)>>, <<ArrayOf(4), BulkLine, NumberLine, BulkLine, NumberLine>>}
    [] shape = "page"     -> {<<ArrayOf(2), NumberLine, ArrayOf(2), BulkLine, BulkLine>>, <<ArrayOf(2), NumberLine, ArrayOf(0)>>}
    [] shape = "slots"    -> {<<ArrayOf(1), ArrayOf(4), IntLine, IntLine, ArrayOf(2), BulkLine, IntLine, ArrayOf(2), BulkLine, IntLine>>}
    [] shape = "places"   -> {<<ArrayOf(2)>> \o Place \o Place}
    [] shape = "script"   -> {<<IntLine>>, <<NilLine>>,
                              <<ArrayOf(1), ArrayOf(3), BulkLine, BulkLine, ArrayOf(2), NilLine, BulkLine>>}
                             \cup (IF ScriptErrors THEN {WithError} ELSE {})
    [] shape = "end"      -> {}

Answers(m) == {<<ErrorLine>>} \cup UNION {Replies(k) : k \in ShapesOf[m]}
=============================================================================
