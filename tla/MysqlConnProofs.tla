-------------------------- MODULE MysqlConnProofs --------------------------
(***************************************************************************)
(* Theorems about MysqlConn: the driver writes nothing on a connection it  *)
(* has closed, rows that end without an error are all rows, and, as long   *)
(* as nothing has happened that the driver does not handle, driver and     *)
(* server agree on what is read next, and no packet is left for another    *)
(* call.                                                                   *)
(***************************************************************************)
EXTENDS MysqlConn, FiniteSetTheorems, WellFoundedInduction, TLAPS

-----------------------------------------------------------------------------
(* Types.                                                                  *)

\* The steps that write, and are answered but for StmtClose.
Asks == {"Auth", "OldPassword", "ClearPassword", "Execute", "InFileData"} \cup Commands

Headers == {"sysVarHeader", "charsetHeader", "execHeader", "queryHeader", "stmtHeader", "stmtQueryHeader",
            "warningsHeader"}

Steps == Reads \cup Asks \cup {"params", "strict"}

Ends == {"EOF", "ERR"}
Kinds == RowKinds \cup Ends
         \cup {"Header", "Column", "OK", "InFile", "Prepared", "Init", "OldInit",
               "OldAuth", "ClearAuth", "OtherAuth", "Torn"}

ResultType == [rows : Seq(RowKinds), end : Ends \cup {"none"}]
WholeType == {r \in ResultType : r.end \in Ends}
PacketType == [is : Kinds, seq : 0 .. SequenceMod - 1, info : SUBSET {"warned", "params", "columns"},
               result : ResultType]

Callings == {"none", "Open", "Params", "Exec", "Query", "BeginTx", "EndTx", "Prepare", "StmtExec", "StmtQuery",
             "StmtClose", "RowsNext", "RowsClose"}

RowsType == [open : BOOLEAN, done : BOOLEAN, protocol : {"none", "text", "binary"}, given : Nat,
             result : ResultType]
StmtType == [open : BOOLEAN, info : SUBSET {"params", "columns"}, cached : BOOLEAN]
OddKinds == {"ERR", "Huge", "noResult", "warned"}

\* A connection that is not open.
Unopened == calling = "none" => steps = <<>> /\ ~ netConn /\ sequence = 0 /\ packets = <<>> /\ ~ rows.open

TypesOK ==
  /\ dsn \in Dsns
  /\ netConn \in BOOLEAN /\ strict \in BOOLEAN /\ cut \in BOOLEAN /\ inTx \in BOOLEAN
  /\ sequence \in 0 .. SequenceMod - 1
  /\ packets \in Seq(PacketType)
  /\ received \in 0 .. Len(packets)
  /\ calling \in Callings
  /\ steps \in Seq(Steps)
  /\ rows \in RowsType
  /\ stmt \in StmtType
  /\ odd \subseteq OddKinds
  /\ Unopened

-----------------------------------------------------------------------------
(* The steps of a call, and which calls the driver is in.                  *)

\* What a call goes on with when it has read a reply: it writes, or ends.
Onward == {"SysVar", "Charset", "strict", "params", "end"}

\* A step a is followed by step b, or by the end of the call.
MayFollow(a, b) ==
  /\ a = "init" => b = "Auth"
  /\ a = "Auth" => b = "authResult"
  /\ a \in {"OldPassword", "ClearPassword"} => b = "authResult2"
  /\ a = "SysVar" => b = "sysVarHeader"
  /\ a = "Charset" => b = "charsetHeader"
  /\ a = "Simple" => b = "execHeader"
  /\ a = "Command" => b \in {"execHeader", "queryHeader"}
  /\ a = "Prepare" => b = "prepared"
  /\ a = "Execute" => b \in {"stmtHeader", "stmtQueryHeader"}
  /\ a = "Warnings" => b = "warningsHeader"
  /\ a = "InFileData" => b \in {"inFileResult", "inFileEnd"}
  /\ a = "columns" => b \in {"warningRow", "end"}
  /\ a = "drainColumns" => b \in {"sysVarRow", "drainRows", "end"}
  /\ a = "sysVarRow" => b = "drainRows"
  /\ a = "drainDefinitions" => b \in {"drainDefinitions", "end"}
  /\ a \in {"queryHeader", "stmtQueryHeader", "row", "binaryRow", "prepared", "StmtClose"} => b = "end"
  /\ a \in {"authResult", "authResult2", "sysVarHeader", "charsetHeader", "execHeader", "stmtHeader",
            "warningsHeader", "warningRow", "drainRows", "inFileResult", "inFileEnd", "strict", "params"}
     => b \in Onward

\* The step after step i.
Then(s, i) == IF i < Len(s) THEN s[i + 1] ELSE "end"

Chain(s) == \A i \in 1 .. Len(s) : MayFollow(s[i], Then(s, i))

At(kinds) == steps # <<>> /\ steps[1] \in kinds

\* handleParams tries as many charsets as the data source name has.
CharsetsTried ==
  \A i \in 1 .. Len(steps) :
     steps[i] = "Charset" /\ i > (IF steps[1] = "strict" THEN 2 ELSE 1) => dsn.charsets > 1

RowSteps == {"columns", "drainColumns", "row", "binaryRow", "drainRows"}

\* Rows are read by the calls on them, one packet or the rest at a time.
RowsInHand ==
  /\ rows.open => /\ calling \in {"Query", "StmtQuery", "RowsNext", "RowsClose"}
                  /\ steps = <<>> \/ (Len(steps) = 1 /\ steps[1] \in RowSteps /\ ~ rows.done)
                  /\ outcome = "ok" => ~ rows.done
                  /\ At({"drainRows"}) => calling = "RowsClose"
  /\ At({"row", "binaryRow"}) => rows.open
  /\ At({"columns", "drainColumns"}) /\ Len(steps) = 1 => rows.open
  /\ calling = "RowsClose" => steps = <<>> \/ (rows.open /\ At({"drainRows"}))

\* A closed connection is used by no call but handleParams with a charset to try.
ClosedIsLeft ==
  ~ netConn /\ steps # <<>> => calling = "Params" /\ steps[1] = "Charset" /\ dsn.charsets > 1

\* Some steps belong to one call.
CalledIn(a) ==
  /\ a \in {"SysVar", "sysVarHeader", "sysVarRow", "params"} => calling = "Open"
  /\ a = "queryHeader" => calling = "Query"
  /\ a = "stmtQueryHeader" => calling = "StmtQuery"

\* What the call still does fits together.
Planned ==
  /\ Chain(steps)
  /\ \A i \in 1 .. Len(steps) : CalledIn(steps[i])
  /\ calling = "Params" => CharsetsTried

Shape ==
  /\ Planned
  /\ RowsInHand
  /\ ClosedIsLeft
  /\ NothingWrittenClosed

-----------------------------------------------------------------------------
(* The results in transit, and the one that is being read.                 *)

\* Packet j of a result r, after its header.
Nth(r, j) ==
  IF j = 1 THEN "Column" ELSE IF j = 2 THEN "EOF" ELSE IF j - 2 <= Len(r.rows) THEN r.rows[j - 2] ELSE r.end

\* The packets after packet i are those of r after its first k.
Behind(i, r, k) ==
  \A j \in 1 .. Len(packets) :
     j > i /\ j - i + k <= Len(r.rows) + 3 => packets[j].is = Nth(r, j - i + k)

WholeResults ==
  \A i \in 1 .. Len(packets) :
     packets[i].is = "Header"
     => LET r == packets[i].result
        IN  /\ r.end \in Ends
            /\ Behind(i, r, 0)
            /\ ~ cut => i + Len(r.rows) + 3 <= Len(packets)

RowsFollow ==
  rows.open =>
    /\ rows.result.end \in Ends
    /\ At({"columns", "drainColumns"}) =>
         rows.given = 0 /\ (Behind(0, rows.result, 0) \/ Behind(0, rows.result, 1))
    /\ (steps = <<>> /\ outcome = "ok") \/ At({"row", "binaryRow"}) =>
         rows.given <= Len(rows.result.rows) /\ Behind(0, rows.result, 2 + rows.given)

Reading ==
  /\ WholeResults
  /\ "noResult" \notin odd => RowsFollow /\ AllRowsOrError

-----------------------------------------------------------------------------
(* What is in transit when the driver is at a step.                        *)

\* Packets that are numbered on from first.
NumberedOn(ps, first) ==
  /\ ps # <<>> => ps[1].seq = first
  /\ \A i \in 1 .. Len(ps) - 1 : ps[i + 1].seq = (ps[i].seq + Splits(ps[i].is)) % SequenceMod

\* The packets are numbered on from the one the driver reads next.
Counted == NumberedOn(packets, sequence)

OneOf(kinds) ==
  /\ Len(packets) <= 1
  /\ ~ cut => packets # <<>>
  /\ \A i \in 1 .. Len(packets) : packets[i].is \in kinds

\* A result without its first k packets; the network may have cut the rest.
ResultFrom(k) ==
  /\ ~ cut => Len(packets) + k > 3
  /\ \A i \in 1 .. Len(packets) :
       /\ i + k = 1 => packets[i].is = "Header"
       /\ i + k = 2 => packets[i].is = "Column"
       /\ i + k = 3 => packets[i].is = "EOF"
       /\ i + k > 3 /\ i < Len(packets) => packets[i].is \in RowKinds
       /\ i + k > 3 /\ i = Len(packets) => packets[i].is \in (IF cut THEN RowKinds ELSE {}) \cup Ends

\* n definitions after the first j packets, without k packets of the first.
DefinitionsFrom(j, k, n) ==
  /\ Len(packets) <= j + 2 * n - k
  /\ ~ cut => Len(packets) = j + 2 * n - k
  /\ \A i \in 1 .. Len(packets) :
       i > j => packets[i].is = IF (i - j + k) % 2 = 1 THEN "Column" ELSE "EOF"

PreparedAhead ==
  \/ OneOf({"ERR"})
  \/ cut /\ packets = <<>>
  \/ /\ packets # <<>> /\ packets[1].is = "Prepared"
     /\ DefinitionsFrom(1, 0, Cardinality(packets[1].info \cap {"params", "columns"}))

Ahead ==
  /\ At(Asks \cup {"params", "strict"}) => packets = <<>>
  /\ At({"init"}) => OneOf({"ERR", "Init", "OldInit"})
  /\ At({"authResult", "authResult2"}) => OneOf({"ERR", "OK", "OldAuth", "ClearAuth", "OtherAuth"})
  /\ At({"inFileResult", "inFileEnd"}) => OneOf({"ERR", "OK"})
  /\ At(Headers) => OneOf({"ERR", "OK", "InFile"}) \/ ResultFrom(0)
  /\ At({"columns", "drainColumns"}) => ResultFrom(1) \/ ResultFrom(2)
  /\ At({"sysVarRow", "warningRow", "row", "binaryRow", "drainRows"}) => ResultFrom(3)
  /\ At({"prepared"}) => PreparedAhead
  /\ At({"drainDefinitions"}) => DefinitionsFrom(0, 0, Len(steps)) \/ DefinitionsFrom(0, 1, Len(steps))
  /\ steps = <<>> => IF rows.open /\ ~ rows.done THEN ResultFrom(3) ELSE packets = <<>>

InStep ==
  /\ InSequence
  /\ odd = {} /\ netConn => Counted /\ Ahead

-----------------------------------------------------------------------------
(* Sequences.                                                              *)

LEMMA TailOf ==
  ASSUME NEW S, NEW s \in Seq(S), s # <<>>
  PROVE  /\ Len(s) \in Nat \ {0}
         /\ Tail(s) \in Seq(S)
         /\ Len(Tail(s)) = Len(s) - 1
         /\ \A i \in 1 .. Len(s) - 1 : Tail(s)[i] = s[i + 1]
         /\ Head(s) = s[1] /\ s[1] \in S
OBVIOUS

LEMMA SuffixOf ==
  ASSUME NEW S, NEW s \in Seq(S), NEW k \in 1 .. Len(s)
  PROVE  /\ SubSeq(s, k, Len(s)) \in Seq(S)
         /\ Len(SubSeq(s, k, Len(s))) = Len(s) - k + 1
         /\ \A i \in 1 .. Len(s) - k + 1 : SubSeq(s, k, Len(s))[i] = s[i + k - 1]
OBVIOUS

LEMMA PrefixOf ==
  ASSUME NEW S, NEW s \in Seq(S), NEW n \in 0 .. Len(s)
  PROVE  /\ SubSeq(s, 1, n) \in Seq(S)
         /\ Len(SubSeq(s, 1, n)) = n
         /\ \A i \in 1 .. n : SubSeq(s, 1, n)[i] = s[i]
OBVIOUS

LEMMA JoinOf ==
  ASSUME NEW S, NEW s \in Seq(S), NEW t \in Seq(S)
  PROVE  /\ s \o t \in Seq(S)
         /\ Len(s \o t) = Len(s) + Len(t)
         /\ \A i \in 1 .. Len(s) : (s \o t)[i] = s[i]
         /\ \A i \in 1 .. Len(t) : (s \o t)[Len(s) + i] = t[i]
OBVIOUS

\* A set of numbers that is not empty has a least one.
LEMMA LeastOf ==
  ASSUME NEW I \in SUBSET Nat, I # {}
  PROVE  \E n \in I : \A m \in I : n <= m
<1>1. PICK k \in I : TRUE
  OBVIOUS
<1> DEFINE T == {0 .. m : m \in {m \in I : m <= k}}
<1>2. T \in SUBSET (SUBSET (0 .. k)) /\ T # {}
  BY <1>1
<1>3. T \subseteq FiniteSubsetsOf(0 .. k)
  BY <1>2, FS_FiniteSubsetsOfFinite, FS_Interval, SMTT(60)
<1>4. IsWellFoundedOn(StrictSubsetOrdering(0 .. k), FiniteSubsetsOf(0 .. k))
  BY FS_StrictSubsetOrderingWellFounded
<1>5. PICK S \in T : \A U \in T : <<U, S>> \notin StrictSubsetOrdering(0 .. k)
  BY <1>2, <1>3, <1>4, WFMin
<1>6. PICK n \in I : n <= k /\ S = 0 .. n
  BY <1>5
<1>7. ASSUME NEW m \in I, m < n
      PROVE  FALSE
  <2>1. 0 .. m \in T
    BY <1>6, <1>7
  <2>2. 0 .. m \subseteq S /\ 0 .. m # S /\ S \subseteq 0 .. k
    BY <1>6, <1>7
  <2> QED
    BY <1>5, <2>1, <2>2 DEF StrictSubsetOrdering
<1> QED
  BY <1>6, <1>7

\* The first of the charsets that are left to try, if there is one.
LEMMA NextCharsetIs ==
  ASSUME steps \in Seq(Steps), steps # <<>>
  PROVE  /\ NextCharset \in 0 .. Len(steps) - 1
         /\ NextCharset # 0 => calling = "Params" /\ steps[NextCharset + 1] = "Charset"
<1> DEFINE I == {i \in 1 .. Len(Tail(steps)) : Tail(steps)[i] = "Charset"}
<1>1. CASE calling # "Params"
  <2>1. NextCharset = 0  BY <1>1 DEF NextCharset
  <2>2. Len(steps) \in Nat \ {0}  BY TailOf
  <2> QED BY <2>1, <2>2
<1>2. CASE calling = "Params"
  <2>1. NextCharset = IF I # {} THEN Min(I) ELSE 0
    BY <1>2 DEF NextCharset, SelectInSeq
  <2>2. Len(steps) \in Nat \ {0} /\ Len(Tail(steps)) = Len(steps) - 1
        /\ \A i \in 1 .. Len(steps) - 1 : Tail(steps)[i] = steps[i + 1]
    BY TailOf
  <2>3. CASE I # {}
    <3>1. I \in SUBSET Nat  BY <2>2
    <3>2. PICK n \in I : \A m \in I : n <= m  BY <2>3, <3>1, LeastOf
    <3>3. Min(I) \in I
      <4>1. Min(I) = CHOOSE x \in I : \A y \in I : x <= y  BY DEF Min
      <4> QED BY <3>2, <4>1
    <3>4. Min(I) \in 1 .. Len(steps) - 1 /\ Tail(steps)[Min(I)] = "Charset"  BY <3>3, <2>2
    <3>5. NextCharset = Min(I)  BY <2>1, <2>3
    <3> HIDE DEF I
    <3>6. Tail(steps)[Min(I)] = steps[Min(I) + 1]  BY <3>4, <2>2
    <3> QED BY <3>4, <3>5, <3>6, <1>2
  <2>4. CASE I = {}
    BY <2>1, <2>2, <2>4
  <2> QED BY <2>3, <2>4
<1> QED BY <1>1, <1>2

-----------------------------------------------------------------------------
(* Answers of MySQL.                                                       *)

LEMMA ModRange == SequenceMod \in Nat \ {0} /\ \A n \in Int : n % SequenceMod \in 0 .. SequenceMod - 1
<1>1. SequenceMod \in Nat \ {0}
  BY MysqlAssumption
<1> QED
  BY <1>1

LEMMA ResultTypes == Results \subseteq ResultType /\ NoResult \in ResultType
                     /\ \A r \in Results : r.end \in Ends
BY MysqlAssumption DEF Results, ResultType, NoResult, RowKinds, Ends

LEMMA PacketTypes == \A k \in Kinds : Packet(k) \in PacketType /\ Packet(k).is = k /\ Packet(k).info = {}
<1>1. 0 \in 0 .. SequenceMod - 1
  BY MysqlAssumption
<1> QED
  BY <1>1, ResultTypes DEF Packet, PacketType

\* The packets of a result, one by one.
LEMMA ResultSetIs ==
  ASSUME NEW r \in WholeType
  PROVE  /\ ResultSet(r) \in Seq(PacketType)
         /\ Len(ResultSet(r)) = Len(r.rows) + 4
         /\ ResultSet(r)[1].is = "Header" /\ ResultSet(r)[1].result = r
         /\ \A j \in 1 .. Len(r.rows) + 3 : ResultSet(r)[j + 1].is = Nth(r, j)
         /\ \A j \in 1 .. Len(r.rows) : r.rows[j] \in RowKinds
<1> DEFINE h == [Packet("Header") EXCEPT !.result = r]
           start == <<h, Packet("Column"), Packet("EOF")>>
           body == [i \in DOMAIN r.rows |-> Packet(r.rows[i])]
           end == <<Packet(r.end)>>
<1>1. r \in ResultType /\ r.rows \in Seq(RowKinds) /\ r.end \in Ends
  BY DEF WholeType, ResultType
<1>2. Packet("Header") \in PacketType /\ Packet("Column") \in PacketType /\ Packet("EOF") \in PacketType
      /\ Packet("Header").is = "Header" /\ Packet("Column").is = "Column" /\ Packet("EOF").is = "EOF"
  BY PacketTypes DEF Kinds, Ends
<1>3. h \in PacketType /\ h.is = "Header" /\ h.result = r
  BY <1>1, <1>2 DEF PacketType
<1>4. start \in Seq(PacketType) /\ Len(start) = 3
      /\ start[1] = h /\ start[2] = Packet("Column") /\ start[3] = Packet("EOF")
  BY <1>2, <1>3
<1>5. \A i \in 1 .. Len(r.rows) : r.rows[i] \in RowKinds /\ Packet(r.rows[i]) \in PacketType
                                  /\ Packet(r.rows[i]).is = r.rows[i]
  BY <1>1, PacketTypes DEF Kinds
<1>6. body \in Seq(PacketType) /\ Len(body) = Len(r.rows) /\ \A i \in 1 .. Len(r.rows) : body[i] = Packet(r.rows[i])
  BY <1>1, <1>5
<1>7. end \in Seq(PacketType) /\ Len(end) = 1 /\ end[1] = Packet(r.end) /\ Packet(r.end).is = r.end
  BY <1>1, PacketTypes DEF Kinds
<1>8. ResultSet(r) = (start \o body) \o end
  BY DEF ResultSet
<1> HIDE DEF h, start, body, end
<1>9. Len(r.rows) \in Nat
  BY <1>1
<1>10. /\ start \o body \in Seq(PacketType) /\ Len(start \o body) = 3 + Len(r.rows)
       /\ (start \o body)[1] = h /\ (start \o body)[2] = Packet("Column") /\ (start \o body)[3] = Packet("EOF")
       /\ \A i \in 1 .. Len(r.rows) : (start \o body)[3 + i] = Packet(r.rows[i])
  <2>1. start \in Seq(PacketType) /\ body \in Seq(PacketType)
    BY <1>4, <1>6
  <2>2. /\ start \o body \in Seq(PacketType) /\ Len(start \o body) = Len(start) + Len(body)
        /\ \A i \in 1 .. Len(start) : (start \o body)[i] = start[i]
        /\ \A i \in 1 .. Len(body) : (start \o body)[Len(start) + i] = body[i]
    BY <2>1, JoinOf
  <2> QED
    BY <2>2, <1>4, <1>6, <1>9
<1>11. /\ ResultSet(r) \in Seq(PacketType) /\ Len(ResultSet(r)) = Len(r.rows) + 4
       /\ \A i \in 1 .. 3 + Len(r.rows) : ResultSet(r)[i] = (start \o body)[i]
       /\ ResultSet(r)[Len(r.rows) + 4] = Packet(r.end)
  <2> DEFINE most == start \o body
  <2>1. most \in Seq(PacketType) /\ Len(most) = 3 + Len(r.rows) /\ ResultSet(r) = most \o end
    BY <1>8, <1>10
  <2> HIDE DEF most
  <2>a. most \in Seq(PacketType) /\ end \in Seq(PacketType)
    BY <2>1, <1>7
  <2>2. /\ most \o end \in Seq(PacketType) /\ Len(most \o end) = Len(most) + Len(end)
        /\ \A i \in 1 .. Len(most) : (most \o end)[i] = most[i]
        /\ \A i \in 1 .. Len(end) : (most \o end)[Len(most) + i] = end[i]
    BY <2>a, JoinOf
  <2>3. (most \o end)[Len(most) + 1] = end[1]
    BY <2>2, <1>7
  <2>4. Len(most) + 1 = Len(r.rows) + 4
    BY <2>1, <1>9
  <2>5. Len(ResultSet(r)) = Len(r.rows) + 4
    BY <2>1, <2>2, <1>7, <1>9
  <2>6. \A i \in 1 .. 3 + Len(r.rows) : ResultSet(r)[i] = most[i]
    BY <2>1, <2>2
  <2>7. ResultSet(r) \in Seq(PacketType) /\ ResultSet(r)[Len(r.rows) + 4] = Packet(r.end)
    BY <2>1, <2>2, <2>3, <2>4, <1>7
  <2> QED
    BY <2>5, <2>6, <2>7 DEF most
<1>12. ASSUME NEW j \in 1 .. Len(r.rows) + 3
       PROVE  ResultSet(r)[j + 1].is = Nth(r, j)
  <2>1. CASE j = 1
    BY <2>1, <1>2, <1>9, <1>10, <1>11, SMTT(60) DEF Nth
  <2>2. CASE j = 2
    BY <2>2, <1>2, <1>9, <1>10, <1>11, SMTT(60) DEF Nth
  <2>3. CASE j > 2 /\ j <= Len(r.rows) + 2
    <3>1. j - 2 \in 1 .. Len(r.rows) /\ j + 1 = 3 + (j - 2) /\ j + 1 \in 1 .. 3 + Len(r.rows)
      BY <2>3, <1>9
    <3>2. ResultSet(r)[j + 1] = Packet(r.rows[j - 2])
      BY <3>1, <1>10, <1>11
    <3>3. Nth(r, j) = r.rows[j - 2]
      BY <2>3, <3>1, <1>9 DEF Nth
    <3> QED
      BY <3>1, <3>2, <3>3, <1>5
  <2>4. CASE j = Len(r.rows) + 3
    <3>1. Nth(r, j) = r.end
      BY <2>4, <1>9 DEF Nth
    <3> QED
      BY <3>1, <2>4, <1>7, <1>9, <1>11
  <2> QED
    BY <2>1, <2>2, <2>3, <2>4, <1>9
<1>13. ResultSet(r)[1] = h
  <2>1. 1 \in 1 .. 3 + Len(r.rows)
    BY <1>9
  <2>2. \A i \in 1 .. 3 + Len(r.rows) : ResultSet(r)[i] = (start \o body)[i]
    BY <1>11
  <2>3. ResultSet(r)[1] = (start \o body)[1]
    BY <2>1, <2>2
  <2> QED
    BY <2>3, <1>10
<1>14. \A j \in 1 .. Len(r.rows) : r.rows[j] \in RowKinds
  BY <1>5
<1>15. ResultSet(r)[1].is = "Header" /\ ResultSet(r)[1].result = r
  BY <1>3, <1>13
<1>16. ResultSet(r) \in Seq(PacketType) /\ Len(ResultSet(r)) = Len(r.rows) + 4
  BY <1>11
<1> QED
  BY <1>12, <1>14, <1>15, <1>16

\* An answer of one packet.
IsOne(a, kinds) == Len(a) = 1 /\ a[1].is \in kinds

\* What is asked for of the definitions in a reply to Prepare.
Asked(p) == Cardinality(p.info \cap {"params", "columns"})

IsPrepared(a) ==
  /\ a # <<>> /\ a[1].is = "Prepared"
  /\ Len(a) = 2 * Asked(a[1]) + 1
  /\ \A i \in 2 .. Len(a) : a[i].is = IF i % 2 = 0 THEN "Column" ELSE "EOF"

LEMMA DefinitionJoined ==
  ASSUME NEW s \in Seq(PacketType), NEW c \in PacketType, NEW e \in PacketType
  PROVE  /\ s \o <<c, e>> \in Seq(PacketType) /\ Len(s \o <<c, e>>) = Len(s) + 2
         /\ \A i \in 1 .. Len(s) : (s \o <<c, e>>)[i] = s[i]
         /\ (s \o <<c, e>>)[Len(s) + 1] = c /\ (s \o <<c, e>>)[Len(s) + 2] = e
<1>1. <<c, e>> \in Seq(PacketType) /\ Len(<<c, e>>) = 2 /\ <<c, e>>[1] = c /\ <<c, e>>[2] = e
  OBVIOUS
<1> DEFINE d == <<c, e>>
<1> HIDE DEF d
<1>2. d \in Seq(PacketType) /\ Len(d) = 2 /\ d[1] = c /\ d[2] = e
  BY <1>1 DEF d
<1>3. /\ s \o d \in Seq(PacketType) /\ Len(s \o d) = Len(s) + Len(d)
      /\ \A i \in 1 .. Len(s) : (s \o d)[i] = s[i]
      /\ \A i \in 1 .. Len(d) : (s \o d)[Len(s) + i] = d[i]
  <2>1. d \in Seq(PacketType)
    BY <1>2
  <2> QED
    BY <2>1, JoinOf
<1>4. /\ s \o d \in Seq(PacketType) /\ Len(s \o d) = Len(s) + 2
      /\ \A i \in 1 .. Len(s) : (s \o d)[i] = s[i]
      /\ (s \o d)[Len(s) + 1] = c /\ (s \o d)[Len(s) + 2] = e
  BY <1>2, <1>3
<1> QED
  BY <1>4 DEF d

LEMMA PreparedsAre ==
  ASSUME NEW a \in Prepareds
  PROVE  a \in Seq(PacketType) /\ IsPrepared(a)
<1> DEFINE p(i) == [Packet("Prepared") EXCEPT !.info = i]
           c == Packet("Column")
           e == Packet("EOF")
<1>1. c \in PacketType /\ e \in PacketType /\ Packet("Prepared") \in PacketType
      /\ c.is = "Column" /\ e.is = "EOF" /\ Packet("Prepared").is = "Prepared"
  BY PacketTypes DEF Kinds, Ends
<1>2. \A i \in SUBSET {"params", "columns", "warned"} :
         p(i) \in PacketType /\ p(i).is = "Prepared" /\ p(i).info = i
  BY <1>1 DEF PacketType
<1>3. PICK i \in SUBSET {"params", "columns", "warned"} :
         a = <<p(i)>> \o (IF "params" \in i THEN <<c, e>> ELSE <<>>) \o (IF "columns" \in i THEN <<c, e>> ELSE <<>>)
  BY DEF Prepareds
<1>4. p(i) \in PacketType /\ p(i).is = "Prepared" /\ p(i).info = i
  BY <1>2
<1> HIDE DEF p, c, e
<1>5. Asked(p(i)) = Cardinality(i \cap {"params", "columns"})
  BY <1>4 DEF Asked
<1>6. PICK s : s = <<p(i)>>
  OBVIOUS
<1>7. s \in Seq(PacketType) /\ Len(s) = 1 /\ s[1] = p(i)
  BY <1>4, <1>6
<1>8. PICK t : t = s \o <<c, e>>
  OBVIOUS
<1>9. t \in Seq(PacketType) /\ Len(t) = 3 /\ t[1] = p(i) /\ t[2] = c /\ t[3] = e
  <2>1. /\ t \in Seq(PacketType) /\ Len(t) = Len(s) + 2
        /\ \A k \in 1 .. Len(s) : t[k] = s[k]
        /\ t[Len(s) + 1] = c /\ t[Len(s) + 2] = e
    <3>1. s \in Seq(PacketType) /\ c \in PacketType /\ e \in PacketType
      BY <1>1, <1>7
    <3> QED
      BY <3>1, <1>8, DefinitionJoined
  <2> QED
    BY <2>1, <1>7
<1>10. s \o <<>> = s /\ t \o <<>> = t
  BY <1>7, <1>9
<1>11. CASE "params" \in i /\ "columns" \in i
  <2>1. a = t \o <<c, e>>
    BY <1>3, <1>6, <1>8, <1>11
  <2>2. i \cap {"params", "columns"} = {"columns"} \cup {"params"} /\ "params" \notin {"columns"}
    BY <1>11
  <2>3. Cardinality({"columns"} \cup {"params"}) = 2
    <3>1. IsFiniteSet({"columns"}) /\ Cardinality({"columns"}) = 1
      BY FS_Singleton
    <3> DEFINE A == {"columns"}
    <3> HIDE DEF A
    <3>2. IsFiniteSet(A) /\ Cardinality(A) = 1 /\ "params" \notin A
      BY <2>2, <3>1 DEF A
    <3>3. Cardinality(A \cup {"params"}) = Cardinality(A) + 1
      BY <3>2, FS_AddElement
    <3> QED
      BY <3>2, <3>3 DEF A
  <2>4. a \in Seq(PacketType) /\ Len(a) = 5 /\ a[1] = p(i) /\ a[2] = c /\ a[3] = e /\ a[4] = c /\ a[5] = e
    <3>1. /\ a \in Seq(PacketType) /\ Len(a) = Len(t) + 2
          /\ \A k \in 1 .. Len(t) : a[k] = t[k]
          /\ a[Len(t) + 1] = c /\ a[Len(t) + 2] = e
      <4>1. t \in Seq(PacketType) /\ c \in PacketType /\ e \in PacketType
        BY <1>1, <1>9
      <4> QED
        BY <4>1, <2>1, DefinitionJoined
    <3> QED
      BY <3>1, <1>9
  <2>5. Asked(a[1]) = 2 /\ a[1].is = "Prepared"
    BY <2>2, <2>3, <2>4, <1>4, <1>5
  <2>6. \A k \in 2 .. 5 : a[k].is = IF k % 2 = 0 THEN "Column" ELSE "EOF"
    BY <2>4, <1>1
  <2> QED
    BY <2>4, <2>5, <2>6, SMTT(60) DEF IsPrepared
<1>12. CASE ("params" \in i) # ("columns" \in i)
  <2>1. a = t
    BY <1>3, <1>6, <1>8, <1>10, <1>12
  <2>2. i \cap {"params", "columns"} = {"params"} \/ i \cap {"params", "columns"} = {"columns"}
    BY <1>12
  <2>3. Cardinality({"params"}) = 1 /\ Cardinality({"columns"}) = 1
    BY FS_Singleton
  <2>4. Asked(a[1]) = 1 /\ a[1].is = "Prepared"
    BY <2>1, <2>2, <2>3, <1>4, <1>5, <1>9
  <2>5. \A k \in 2 .. 3 : a[k].is = IF k % 2 = 0 THEN "Column" ELSE "EOF"
    BY <2>1, <1>1, <1>9
  <2> QED
    BY <2>1, <2>4, <2>5, <1>9 DEF IsPrepared
<1>13. CASE "params" \notin i /\ "columns" \notin i
  <2>1. a = s
    BY <1>3, <1>6, <1>10, <1>13
  <2>2. i \cap {"params", "columns"} = {}
    BY <1>13
  <2>3. Cardinality({}) = 0
    BY FS_EmptySet
  <2>4. Asked(a[1]) = 0 /\ a[1].is = "Prepared"
    BY <2>1, <2>2, <2>3, <1>4, <1>5, <1>7
  <2> QED
    BY <2>1, <2>4, <1>7 DEF IsPrepared
<1> QED
  BY <1>11, <1>12, <1>13

\* A result from its header to its end.
IsWhole(a, r) ==
  /\ Len(a) = Len(r.rows) + 4
  /\ a[1].is = "Header" /\ a[1].result = r
  /\ \A j \in 1 .. Len(r.rows) + 3 : a[j + 1].is = Nth(r, j)

\* What MySQL answers to a step.
IsAnswer(a, step) ==
  \/ step = "StmtClose" /\ a = <<>>
  \/ step = "Init" /\ IsOne(a, {"ERR", "Init", "OldInit"})
  \/ step \in {"Auth", "OldPassword", "ClearPassword"} /\ IsOne(a, {"ERR", "OK", "OldAuth", "ClearAuth", "OtherAuth"})
  \/ step = "InFileData" /\ IsOne(a, {"ERR", "OK"})
  \/ step \in {"SysVar", "Charset", "Simple", "Command", "Execute", "Warnings"} /\ IsOne(a, {"ERR", "OK", "InFile"})
  \/ step \in {"SysVar", "Command", "Execute", "Warnings"} /\ \E r \in WholeType : IsWhole(a, r)
  \/ step = "Prepare" /\ (IsOne(a, {"ERR"}) \/ IsPrepared(a))

LEMMA OneIsAnswer ==
  ASSUME NEW k \in Kinds
  PROVE  <<Packet(k)>> \in Seq(PacketType) /\ IsOne(<<Packet(k)>>, {k})
BY PacketTypes DEF IsOne

LEMMA OKsAre ==
  ASSUME NEW a \in OKs
  PROVE  a \in Seq(PacketType) /\ IsOne(a, {"OK"})
<1>1. PICK w \in SUBSET {"warned"} : a = <<[Packet("OK") EXCEPT !.info = w]>>
  BY DEF OKs
<1>2. Packet("OK") \in PacketType /\ Packet("OK").is = "OK"
  BY PacketTypes DEF Kinds
<1> DEFINE p == [Packet("OK") EXCEPT !.info = w]
<1>3. p \in PacketType /\ p.is = "OK" /\ a = <<p>>
  BY <1>1, <1>2 DEF PacketType
<1> HIDE DEF p
<1> QED
  BY <1>3 DEF IsOne

LEMMA AnswersAre ==
  ASSUME NEW step \in Asks \cup {"Init"}, NEW a \in SentFor(step)
  PROVE  a \in Seq(PacketType) /\ IsAnswer(a, step)
<1> DEFINE one == {[rows |-> <<"Row">>, end |-> "EOF"], [rows |-> <<>>, end |-> "ERR"]}
<1>1. /\ <<Packet("ERR")>> \in Seq(PacketType) /\ IsOne(<<Packet("ERR")>>, {"ERR"})
      /\ \A k \in {"OK", "OldAuth", "ClearAuth", "OtherAuth", "Init", "OldInit", "InFile"} :
            <<Packet(k)>> \in Seq(PacketType) /\ IsOne(<<Packet(k)>>, {k})
  BY OneIsAnswer DEF Kinds, Ends
<1>2. \A r \in WholeType : ResultSet(r) \in Seq(PacketType) /\ IsWhole(ResultSet(r), r)
  BY ResultSetIs DEF IsWhole
<1>12. one \subseteq WholeType /\ Results \subseteq WholeType
  BY ResultTypes DEF WholeType, ResultType, RowKinds, Ends
<1>3. CASE step = "Auth"
  <2>1. PICK k \in {"ERR", "OK", "OldAuth", "ClearAuth", "OtherAuth"} : a = <<Packet(k)>>
    BY <1>3 DEF SentFor
  <2> QED
    BY <2>1, <1>1, <1>3 DEF IsAnswer, IsOne
<1>4. CASE step \in {"OldPassword", "ClearPassword"}
  BY <1>1, <1>4 DEF SentFor, IsAnswer, IsOne
<1>5. CASE step \in {"SysVar", "Warnings"}
  <2>1. a = <<Packet("ERR")>> \/ \E r \in one : a = ResultSet(r)
    BY <1>5 DEF SentFor
  <2>2. CASE a = <<Packet("ERR")>>
    BY <2>2, <1>1, <1>5 DEF IsAnswer, IsOne
  <2>3. CASE \E r \in one : a = ResultSet(r)
    BY <2>3, <1>2, <1>5, <1>12 DEF IsAnswer
  <2> QED
    BY <2>1, <2>2, <2>3
<1>6. CASE step \in {"Charset", "Simple", "InFileData"}
  <2>1. a = <<Packet("ERR")>> \/ a \in OKs
    BY <1>6 DEF SentFor
  <2> QED
    BY <2>1, <1>1, <1>6, OKsAre DEF IsAnswer, IsOne
<1>7. CASE step = "Init"
  BY <1>1, <1>7 DEF SentFor, IsAnswer, IsOne
<1>8. CASE step = "Command"
  <2>1. a = <<Packet("ERR")>> \/ a \in OKs \/ a = <<Packet("InFile")>> \/ \E r \in Results : a = ResultSet(r)
    BY <1>8 DEF SentFor
  <2>2. CASE \E r \in Results : a = ResultSet(r)
    BY <2>2, <1>2, <1>8, <1>12 DEF IsAnswer
  <2>3. CASE ~ \E r \in Results : a = ResultSet(r)
    BY <2>1, <2>3, <1>1, <1>8, OKsAre DEF IsAnswer, IsOne
  <2> QED
    BY <2>2, <2>3
<1>9. CASE step = "Prepare"
  <2>1. a = <<Packet("ERR")>> \/ a \in Prepareds
    BY <1>9 DEF SentFor
  <2> QED
    BY <2>1, <1>1, <1>9, PreparedsAre DEF IsAnswer
<1>10. CASE step = "Execute"
  <2>1. a = <<Packet("ERR")>> \/ a \in OKs \/ \E r \in Results : a = ResultSet(r)
    BY <1>10 DEF SentFor, BinaryResults
  <2>2. CASE \E r \in Results : a = ResultSet(r)
    BY <2>2, <1>2, <1>10, <1>12 DEF IsAnswer
  <2>3. CASE ~ \E r \in Results : a = ResultSet(r)
    BY <2>1, <2>3, <1>1, <1>10, OKsAre DEF IsAnswer, IsOne
  <2> QED
    BY <2>2, <2>3
<1>11. CASE step = "StmtClose"
  <2>1. a = <<>>
    BY <1>11 DEF SentFor
  <2> QED
    BY <2>1, <1>11 DEF IsAnswer
<1> QED
  BY <1>3, <1>4, <1>5, <1>6, <1>7, <1>8, <1>9, <1>10, <1>11 DEF Asks, Commands

-----------------------------------------------------------------------------
(* How packets are numbered.                                               *)

LEMMA ModOf ==
  ASSUME NEW m \in Nat \ {0}, NEW q \in Int, NEW r \in 0 .. m - 1
  PROVE  (m * q + r) % m = r
OBVIOUS

LEMMA ModAdd ==
  ASSUME NEW m \in Nat \ {0}, NEW x \in Nat, NEW s \in Nat
  PROVE  ((x % m) + s) % m = (x + s) % m
<1>1. PICK q \in Int, r \in 0 .. m - 1 : q = x \div m /\ r = x % m /\ x = m * q + r
  OBVIOUS
<1>2. PICK p \in Int, t \in 0 .. m - 1 : p = (r + s) \div m /\ t = (r + s) % m /\ r + s = m * p + t
  OBVIOUS
<1>3. x + s = m * (q + p) + t
  <2>1. m * (q + p) = m * q + m * p
    OBVIOUS
  <2>2. x = m * q + r /\ r + s = m * p + t
    BY <1>1, <1>2
  <2>3. m * q \in Int /\ m * p \in Int /\ m * (q + p) \in Int
    OBVIOUS
  <2> QED
    BY <2>1, <2>2, <2>3
<1>4. q + p \in Int
  OBVIOUS
<1>5. (m * (q + p) + t) % m = t
  BY <1>4, ModOf
<1> QED
  BY <1>1, <1>2, <1>3, <1>5

\* The packets of an answer are numbered on, by their parts.
LEMMA NumberedIs ==
  ASSUME NEW a \in Seq(PacketType), NEW first \in Nat
  PROVE  /\ Numbered(a, first) \in Seq(PacketType)
         /\ Len(Numbered(a, first)) = Len(a)
         /\ \A i \in 1 .. Len(a) : /\ Numbered(a, first)[i].is = a[i].is
                                   /\ Numbered(a, first)[i].info = a[i].info
                                   /\ Numbered(a, first)[i].result = a[i].result
         /\ a # <<>> => Numbered(a, first)[1].seq = first % SequenceMod
         /\ \A i \in 1 .. Len(a) - 1 :
              Numbered(a, first)[i + 1].seq
                = (Numbered(a, first)[i].seq + Splits(Numbered(a, first)[i].is)) % SequenceMod
<1> DEFINE split(i) == {j \in 1 .. i - 1 : Splits(a[j].is) = 2}
           at == [i \in 1 .. Len(a) |-> first + i - 1 + Cardinality(split(i))]
           N == Numbered(a, first)
<1>1. \A i \in 1 .. Len(a) : IsFiniteSet(split(i)) /\ Cardinality(split(i)) \in Nat
  <2> SUFFICES ASSUME NEW i \in 1 .. Len(a)
               PROVE  IsFiniteSet(split(i)) /\ Cardinality(split(i)) \in Nat
    OBVIOUS
  <2>1. IsFiniteSet(1 .. i - 1)
    <3>1. 1 \in Int /\ i - 1 \in Int
      OBVIOUS
    <3> QED
      BY <3>1, FS_Interval
  <2>2. split(i) \subseteq 1 .. i - 1
    OBVIOUS
  <2> HIDE DEF split
  <2> QED
    BY <2>1, <2>2, FS_Subset, FS_CardinalityType
<1>2. \A i \in 1 .. Len(a) : at[i] = first + i - 1 + Cardinality(split(i)) /\ at[i] \in Nat
  <2> SUFFICES ASSUME NEW i \in 1 .. Len(a)
               PROVE  at[i] = first + i - 1 + Cardinality(split(i)) /\ at[i] \in Nat
    OBVIOUS
  <2>1. PICK c \in Nat : c = Cardinality(split(i))
    BY <1>1
  <2> HIDE DEF split
  <2>2. at[i] = first + i - 1 + c
    BY <2>1
  <2> HIDE DEF at
  <2> QED
    BY <2>1, <2>2
<1>3. \A i \in 1 .. Len(a) : N[i] = [a[i] EXCEPT !.seq = at[i] % SequenceMod]
  <2> SUFFICES ASSUME NEW i \in 1 .. Len(a)
               PROVE  N[i] = [a[i] EXCEPT !.seq = at[i] % SequenceMod]
    OBVIOUS
  <2>1. N[i] = [a[i] EXCEPT !.seq = (first + i - 1 + Cardinality(split(i))) % SequenceMod]
    <3>1. i \in DOMAIN a
      OBVIOUS
    <3> HIDE DEF at
    <3> QED
      BY <3>1, Zenon DEF Numbered
  <2>2. at[i] = first + i - 1 + Cardinality(split(i))
    BY <1>2
  <2> HIDE DEF N, at, split
  <2> QED
    BY <2>1, <2>2
<1>4. DOMAIN N = 1 .. Len(a)
  BY DEF Numbered
<1>5. N = [i \in 1 .. Len(a) |-> N[i]]
  <2>1. N = [i \in DOMAIN N |-> N[i]]
    BY DEF Numbered
  <2> HIDE DEF N, at
  <2> QED
    BY <1>4, <2>1
<1>6. \A i \in 1 .. Len(a) :
         /\ N[i] \in PacketType /\ N[i].seq = at[i] % SequenceMod
         /\ N[i].is = a[i].is /\ N[i].info = a[i].info /\ N[i].result = a[i].result
  <2> SUFFICES ASSUME NEW i \in 1 .. Len(a)
               PROVE  /\ N[i] \in PacketType /\ N[i].seq = at[i] % SequenceMod
                      /\ N[i].is = a[i].is /\ N[i].info = a[i].info /\ N[i].result = a[i].result
    OBVIOUS
  <2> HIDE DEF N, at, split
  <2>1. a[i] \in PacketType /\ at[i] \in Int
    BY <1>2
  <2>2. at[i] % SequenceMod \in 0 .. SequenceMod - 1
    BY <2>1, ModRange
  <2>3. N[i] = [a[i] EXCEPT !.seq = at[i] % SequenceMod]
    BY <1>3
  <2> QED
    BY <2>1, <2>2, <2>3 DEF PacketType
<1>7. N \in Seq(PacketType) /\ Len(N) = Len(a)
  <2> HIDE DEF N, at
  <2>1. Len(a) \in Nat /\ \A i \in 1 .. Len(a) : N[i] \in PacketType
    BY <1>6
  <2>2. PICK n \in Nat : n = Len(a)
    BY <2>1
  <2>3. N \in [1 .. n -> PacketType]
    BY <1>5, <2>1, <2>2
  <2>4. N \in Seq(PacketType) /\ Len(N) = n
    BY <2>3
  <2> QED
    BY <2>2, <2>4
<1>8. a # <<>> => N[1].seq = first % SequenceMod
  <2> SUFFICES ASSUME a # <<>>
               PROVE  N[1].seq = first % SequenceMod
    OBVIOUS
  <2>1. split(1) = {} /\ Cardinality({}) = 0
    BY FS_EmptySet
  <2> HIDE DEF split, N
  <2>2. 1 \in 1 .. Len(a)
    OBVIOUS
  <2>3. at[1] = first + 1 - 1 + Cardinality(split(1))
    BY <1>2, <2>2
  <2>4. at[1] = first
    <3>1. at[1] = first + 1 - 1 + 0
      BY <2>1, <2>3
    <3> HIDE DEF at
    <3> QED
      BY <3>1
  <2> HIDE DEF at
  <2> QED
    BY <2>2, <2>4, <1>6
<1>9. ASSUME NEW i \in 1 .. Len(a) - 1
      PROVE  N[i + 1].seq = (N[i].seq + Splits(N[i].is)) % SequenceMod
  <2>1. i \in 1 .. Len(a) /\ i + 1 \in 1 .. Len(a) /\ i \in Nat
    OBVIOUS
  <2>2. split(i + 1) = IF Splits(a[i].is) = 2 THEN split(i) \cup {i} ELSE split(i)
    BY <2>1
  <2>3. i \notin split(i)
    BY <2>1
  <2>4. IsFiniteSet(split(i)) /\ Cardinality(split(i)) \in Nat
    BY <1>1, <2>1
  <2>5. Splits(a[i].is) \in {1, 2}
    BY DEF Splits
  <2> HIDE DEF split
  <2>6. Cardinality(split(i + 1)) = Cardinality(split(i)) + (Splits(a[i].is) - 1)
    <3>1. CASE Splits(a[i].is) = 2
      <4>1. PICK S : S = split(i)
        OBVIOUS
      <4>2. IsFiniteSet(S) /\ i \notin S
        BY <2>3, <2>4, <4>1
      <4>3. Cardinality(S \cup {i}) = Cardinality(S) + 1
        BY <4>2, FS_AddElement
      <4>4. split(i + 1) = S \cup {i} /\ Cardinality(S) \in Nat
        BY <3>1, <2>2, <2>4, <4>1
      <4>5. Cardinality(split(i + 1)) = Cardinality(S) + 1
        BY <4>3, <4>4
      <4> QED
        BY <3>1, <4>1, <4>4, <4>5
    <3>2. CASE Splits(a[i].is) = 1
      BY <3>2, <2>2, <2>4
    <3> QED
      BY <3>1, <3>2, <2>5
  <2>7. PICK x \in Nat, k \in {1, 2} : x = at[i] /\ k = Splits(a[i].is)
    BY <1>2, <2>1, <2>5
  <2>8. at[i + 1] = x + k
    <3>1. at[i] = first + i - 1 + Cardinality(split(i)) /\ at[i + 1] = first + (i + 1) - 1 + Cardinality(split(i + 1))
      BY <1>2, <2>1
    <3>2. PICK c \in Nat : c = Cardinality(split(i))
      BY <2>4
    <3>3. Cardinality(split(i + 1)) = c + (k - 1)
      BY <2>6, <2>7, <3>2
    <3>4. x = first + i - 1 + c
      BY <3>1, <3>2, <2>7
    <3>5. at[i + 1] = first + (i + 1) - 1 + (c + (k - 1))
      BY <3>1, <3>3
    <3> HIDE DEF at
    <3> QED
      BY <3>4, <3>5, <2>1
  <2>9. N[i + 1].seq = at[i + 1] % SequenceMod /\ N[i].seq = at[i] % SequenceMod /\ N[i].is = a[i].is
    BY <1>6, <2>1
  <2>10. ((x % SequenceMod) + k) % SequenceMod = (x + k) % SequenceMod
    <3>1. SequenceMod \in Nat \ {0} /\ k \in Nat /\ x \in Nat
      BY ModRange
    <3> QED
      BY <3>1, ModAdd, Zenon
  <2>11. PICK u, v, w : u = N[i + 1].seq /\ v = N[i].seq /\ w = Splits(N[i].is)
    OBVIOUS
  <2>12. w = k
    BY <2>7, <2>9, <2>11
  <2>13. v = x % SequenceMod /\ u = (x + k) % SequenceMod
    BY <2>7, <2>8, <2>9, <2>11
  <2>14. u = (v + w) % SequenceMod
    BY <2>10, <2>12, <2>13
  <2> QED
    BY <2>11, <2>14
<1> QED
  <2> HIDE DEF at
  <2> QED
    BY <1>6, <1>7, <1>8, <1>9

-----------------------------------------------------------------------------
(* How a call goes on, or fails.                                           *)

\* The steps of the call without the first n.
Skips(n) ==
  /\ Len(steps') = Len(steps) - n
  /\ \A i \in 1 .. Len(steps) - n : steps'[i] = steps[i + n]

\* handleParams goes on with another charset.
Retries ==
  /\ calling = "Params"
  /\ \E n \in 1 .. Len(steps) - 1 : steps[n + 1] = "Charset" /\ Skips(n)
  /\ UNCHANGED <<outcome, rows, stmt>>

\* The call is over, with an error.
EndsWith(e) ==
  /\ steps' = <<>> /\ outcome' = e
  /\ rows' = IF calling \in {"Query", "StmtQuery", "RowsClose"} THEN NoRows ELSE rows
  /\ stmt' = IF calling = "Prepare" THEN NoStmt ELSE stmt

LEMMA FailsIs ==
  ASSUME NEW e, steps \in Seq(Steps), steps # <<>>, FailsWith(e)
  PROVE  /\ steps' \in Seq(Steps)
         /\ (NextCharset # 0 /\ Retries) \/ (NextCharset = 0 /\ EndsWith(e))
<1>1. CASE NextCharset # 0
  <2>1. PICK n : n = NextCharset
    OBVIOUS
  <2>2. n \in 1 .. Len(steps) - 1 /\ calling = "Params" /\ steps[n + 1] = "Charset"
    BY <1>1, <2>1, NextCharsetIs
  <2>3. PICK t : t = Tail(steps)
    OBVIOUS
  <2>4. t \in Seq(Steps) /\ Len(t) = Len(steps) - 1 /\ \A i \in 1 .. Len(steps) - 1 : t[i] = steps[i + 1]
    BY <2>3, TailOf
  <2>5. steps' = SubSeq(t, n, Len(t)) /\ UNCHANGED <<outcome, rows, stmt>>
    BY <1>1, <2>1, <2>3, <2>4 DEF FailsWith
  <2>6. /\ steps' \in Seq(Steps)
        /\ Len(steps') = Len(t) - n + 1
        /\ \A i \in 1 .. Len(t) - n + 1 : steps'[i] = t[i + n - 1]
    BY <2>2, <2>4, <2>5, SuffixOf
  <2>7. Len(steps) \in Nat
    OBVIOUS
  <2>8. Len(steps') = Len(steps) - n
    BY <2>2, <2>4, <2>6, <2>7
  <2>9. \A i \in 1 .. Len(steps) - n : steps'[i] = steps[i + n]
    <3> SUFFICES ASSUME NEW i \in 1 .. Len(steps) - n
                 PROVE  steps'[i] = steps[i + n]
      OBVIOUS
    <3>1. i \in 1 .. Len(t) - n + 1 /\ i + n - 1 \in 1 .. Len(steps) - 1
      BY <2>2, <2>4, <2>7
    <3>2. steps'[i] = t[i + n - 1] /\ t[i + n - 1] = steps[(i + n - 1) + 1]
      BY <2>4, <2>6, <3>1
    <3> QED
      BY <2>2, <3>2
  <2> QED
    BY <1>1, <2>2, <2>5, <2>6, <2>8, <2>9 DEF Retries, Skips
<1>2. CASE NextCharset = 0
  BY <1>2 DEF FailsWith, EndsWith
<1> QED
  BY <1>1, <1>2

\* The steps that follow, after those of the packet that was read or written.
LEMMA GoOnIs ==
  ASSUME NEW more \in Seq(Steps), steps \in Seq(Steps), steps # <<>>, GoOn(more)
  PROVE  /\ steps' \in Seq(Steps)
         /\ Len(steps') = Len(more) + Len(steps) - 1
         /\ \A i \in 1 .. Len(more) : steps'[i] = more[i]
         /\ \A i \in 2 .. Len(steps) : steps'[Len(more) + i - 1] = steps[i]
         /\ outcome' = "ok"
<1>1. PICK t : t = Tail(steps)
  OBVIOUS
<1>2. t \in Seq(Steps) /\ Len(t) = Len(steps) - 1 /\ \A i \in 1 .. Len(steps) - 1 : t[i] = steps[i + 1]
  BY <1>1, TailOf
<1>3. steps' = more \o t /\ outcome' = "ok"
  BY <1>1 DEF GoOn
<1>4. /\ more \o t \in Seq(Steps)
      /\ Len(more \o t) = Len(more) + Len(t)
      /\ \A i \in 1 .. Len(more) : (more \o t)[i] = more[i]
      /\ \A i \in 1 .. Len(t) : (more \o t)[Len(more) + i] = t[i]
  <2>1. t \in Seq(Steps)
    BY <1>2
  <2> QED
    BY <2>1, JoinOf
<1>5. Len(steps) \in Nat /\ Len(more) \in Nat
  OBVIOUS
<1>6. ASSUME NEW i \in 2 .. Len(steps)
      PROVE  steps'[Len(more) + i - 1] = steps[i]
  <2>1. PICK j \in 1 .. Len(t) : j = i - 1
    BY <1>2, <1>5
  <2>2. steps'[Len(more) + j] = t[j] /\ t[j] = steps[j + 1]
    BY <1>2, <1>3, <1>4, <2>1
  <2> QED
    BY <1>5, <2>1, <2>2
<1> QED
  BY <1>2, <1>3, <1>4, <1>5, <1>6

\* The new steps fit together, and with those that are left.
Fits(more) ==
  \A i \in 1 .. Len(more) :
     /\ MayFollow(more[i], IF i < Len(more) THEN more[i + 1] ELSE Then(steps, 1))
     /\ more[i] \notin {"Charset", "row", "binaryRow"}
     /\ CalledIn(more[i])

LEMMA ChainGoesOn ==
  ASSUME NEW more \in Seq(Steps), steps \in Seq(Steps), steps # <<>>, GoOn(more), Chain(steps), Fits(more)
  PROVE  Chain(steps')
<1>1. /\ steps' \in Seq(Steps)
      /\ Len(steps') = Len(more) + Len(steps) - 1
      /\ \A i \in 1 .. Len(more) : steps'[i] = more[i]
      /\ \A i \in 2 .. Len(steps) : steps'[Len(more) + i - 1] = steps[i]
  BY GoOnIs
<1>2. Len(more) \in Nat /\ Len(steps) \in Nat \ {0}
  OBVIOUS
<1>3. ASSUME NEW i \in 1 .. Len(steps')
      PROVE  MayFollow(steps'[i], IF i < Len(steps') THEN steps'[i + 1] ELSE "end")
  <2>1. CASE i < Len(more)
    <3>1. i \in 1 .. Len(more) /\ i + 1 \in 1 .. Len(more) /\ i < Len(steps')
      BY <1>1, <1>2, <2>1
    <3>2. steps'[i] = more[i] /\ steps'[i + 1] = more[i + 1]
      BY <1>1, <3>1
    <3> QED
      BY <2>1, <3>1, <3>2 DEF Fits
  <2>2. CASE i = Len(more)
    <3>1. i \in 1 .. Len(more) /\ steps'[i] = more[i]
      BY <1>1, <1>2, <2>2
    <3>2. MayFollow(more[i], Then(steps, 1))
      BY <2>2, <3>1, <1>2 DEF Fits
    <3>3. Then(steps, 1) = IF i < Len(steps') THEN steps'[i + 1] ELSE "end"
      <4>1. CASE Len(steps) = 1
        BY <4>1, <1>1, <1>2, <2>2 DEF Then
      <4>2. CASE Len(steps) > 1
        <5>1. 2 \in 2 .. Len(steps) /\ Len(more) + 2 - 1 = i + 1
          BY <4>2, <1>2, <2>2
        <5>2. steps'[i + 1] = steps[2]
          BY <1>1, <5>1
        <5> QED
          BY <4>2, <5>2, <1>1, <1>2, <2>2 DEF Then
      <4>3. Len(steps) = 1 \/ Len(steps) > 1
        <5>1. \A m \in Nat \ {0} : m = 1 \/ m > 1
          OBVIOUS
        <5> QED
          BY <5>1, <1>2, Zenon
      <4> QED
        BY <4>1, <4>2, <4>3
    <3> QED
      BY <3>1, <3>2, <3>3
  <2>3. CASE i > Len(more)
    <3>0. PICK n \in Nat, m \in Nat \ {0} : n = Len(more) /\ m = Len(steps)
      BY <1>2
    <3>5. i \in 1 .. n + m - 1 /\ i > n
      BY <1>1, <2>3, <3>0
    <3>6. i - n + 1 \in 2 .. m
      BY <3>5
    <3>1. PICK j \in 2 .. Len(steps) : j = i - Len(more) + 1
      BY <3>0, <3>6
    <3>2. steps'[i] = steps[j]
      <4>1. Len(more) + j - 1 = i
        BY <1>2, <3>1
      <4> QED
        BY <1>1, <4>1
    <3>3. MayFollow(steps[j], Then(steps, j))
      BY <3>1 DEF Chain
    <3>4. Then(steps, j) = IF i < Len(steps') THEN steps'[i + 1] ELSE "end"
      <4>1. CASE j = Len(steps)
        <5>1. Len(steps') = n + m - 1 /\ j = i - n + 1 /\ j = m
          BY <4>1, <3>0, <3>1, <1>1
        <5>2. ~ (i < Len(steps'))
          BY <5>1, <3>5
        <5>3. ~ (j < Len(steps))
          BY <4>1, <1>2
        <5> QED
          BY <5>2, <5>3 DEF Then
      <4>2. CASE j < Len(steps)
        <5>1. j + 1 \in 2 .. Len(steps) /\ Len(more) + (j + 1) - 1 = i + 1
          BY <4>2, <3>1, <1>2
        <5>2. steps'[i + 1] = steps[j + 1]
          BY <1>1, <5>1
        <5> QED
          BY <4>2, <5>2, <3>1, <1>1, <1>2 DEF Then
      <4> QED
        BY <4>1, <4>2, <3>1
    <3> QED
      BY <3>2, <3>3, <3>4
  <2> QED
    BY <2>1, <2>2, <2>3, <1>2
<1> QED
  BY <1>3 DEF Chain, Then

LEMMA ChainRetries ==
  ASSUME steps \in Seq(Steps), Chain(steps), NEW n \in 1 .. Len(steps) - 1, Skips(n)
  PROVE  Chain(steps')
<1>1. Len(steps) \in Nat
  OBVIOUS
<1>2. ASSUME NEW i \in 1 .. Len(steps')
      PROVE  MayFollow(steps'[i], IF i < Len(steps') THEN steps'[i + 1] ELSE "end")
  <2>1. i \in 1 .. Len(steps) - n /\ i + n \in 1 .. Len(steps)
    BY <1>1 DEF Skips
  <2>2. MayFollow(steps[i + n], Then(steps, i + n)) /\ steps'[i] = steps[i + n]
    BY <2>1 DEF Chain, Skips
  <2>3. Then(steps, i + n) = IF i < Len(steps') THEN steps'[i + 1] ELSE "end"
    <3>1. CASE i = Len(steps) - n
      BY <3>1, <1>1 DEF Then, Skips
    <3>2. CASE i < Len(steps) - n
      <4>1. i + 1 \in 1 .. Len(steps) - n /\ (i + 1) + n = (i + n) + 1
        BY <3>2, <1>1
      <4>2. steps'[i + 1] = steps[(i + n) + 1]
        BY <4>1 DEF Skips
      <4> QED
        BY <3>2, <4>2, <1>1 DEF Then, Skips
    <3> QED
      BY <3>1, <3>2, <2>1, <1>1
  <2> QED
    BY <2>2, <2>3
<1> QED
  BY <1>2 DEF Chain, Then

LEMMA PlanGoesOn ==
  ASSUME NEW more \in Seq(Steps), steps \in Seq(Steps), steps # <<>>, GoOn(more), Planned, Fits(more),
         steps[1] = "strict" => more = <<>>, calling' = calling, dsn' = dsn
  PROVE  Planned'
<1>1. Chain(steps')
  BY ChainGoesOn DEF Planned
<1>2. PICK n \in Nat, m \in Nat \ {0} : n = Len(more) /\ m = Len(steps)
  BY TailOf
<1>3. /\ steps' \in Seq(Steps)
      /\ Len(steps') = n + m - 1
      /\ \A i \in 1 .. n : steps'[i] = more[i]
      /\ \A i \in 2 .. m : steps'[n + i - 1] = steps[i]
  BY GoOnIs, <1>2
<1>4. \A i \in 1 .. Len(steps') : i <= n \/ (i - n + 1 \in 2 .. m /\ steps'[i] = steps[i - n + 1])
  <2> SUFFICES ASSUME NEW i \in 1 .. Len(steps'), i > n
               PROVE  i - n + 1 \in 2 .. m /\ steps'[i] = steps[i - n + 1]
    BY <1>3
  <2>1. PICK j \in 2 .. m : j = i - n + 1
    BY <1>3
  <2>2. n + j - 1 = i /\ steps'[n + j - 1] = steps[j]
    BY <1>3, <2>1
  <2> QED
    BY <2>1, <2>2
<1>5. \A i \in 1 .. Len(steps') : CalledIn(steps'[i])
  <2> SUFFICES ASSUME NEW i \in 1 .. Len(steps')
               PROVE  CalledIn(steps'[i])
    OBVIOUS
  <2>1. CASE i <= n
    <3>1. i \in 1 .. Len(more) /\ steps'[i] = more[i]
      BY <1>2, <1>3, <2>1
    <3> QED
      BY <3>1 DEF Fits
  <2>2. CASE i > n
    <3>1. PICK j \in 1 .. Len(steps) : steps'[i] = steps[j]
      BY <1>2, <1>4, <2>2
    <3> QED
      BY <3>1 DEF Planned
  <2> QED
    BY <2>1, <2>2, <1>2, <1>3
<1>6. ASSUME calling = "Params"
      PROVE  \A i \in 1 .. Len(steps') :
                steps'[i] = "Charset" /\ i > (IF steps'[1] = "strict" THEN 2 ELSE 1) => dsn.charsets > 1
  <2> SUFFICES ASSUME NEW i \in 1 .. Len(steps'), steps'[i] = "Charset",
                      i > (IF steps'[1] = "strict" THEN 2 ELSE 1)
               PROVE  dsn.charsets > 1
    OBVIOUS
  <2>1. i > n
    <3>1. CASE i <= n
      <4>1. i \in 1 .. Len(more) /\ steps'[i] = more[i]
        BY <1>2, <1>3, <3>1
      <4> QED
        BY <4>1 DEF Fits
    <3> QED
      BY <3>1, <1>2, <1>3
  <2>2. PICK j \in 2 .. m : j = i - n + 1 /\ steps[j] = "Charset"
    BY <1>4, <2>1
  <2>3. j \in 1 .. Len(steps)
    BY <1>2, <2>2
  <2>4. j > (IF steps[1] = "strict" THEN 2 ELSE 1)
    <3>1. CASE steps[1] = "strict"
      <4>1. n = 0
        BY <3>1, <1>2
      <4>2. j = i + 1 /\ i >= 2
        BY <4>1, <2>2, <1>3
      <4> QED
        BY <4>2
    <3>2. CASE steps[1] # "strict"
      BY <3>2, <2>2
    <3> QED
      BY <3>1, <3>2
  <2> QED
    BY <1>6, <2>2, <2>3, <2>4 DEF Planned, CharsetsTried
<1> QED
  BY <1>1, <1>5, <1>6 DEF Planned, CharsetsTried, CalledIn

LEMMA PlanRetries ==
  ASSUME steps \in Seq(Steps), Planned, steps[1] # "strict", Retries, calling' = calling, dsn' = dsn
  PROVE  Planned' /\ steps' # <<>> /\ steps'[1] = "Charset" /\ dsn.charsets > 1
<1>1. PICK n \in 1 .. Len(steps) - 1 : steps[n + 1] = "Charset" /\ Skips(n)
  BY DEF Retries
<1>2. Chain(steps')
  BY <1>1, ChainRetries DEF Planned
<1>3. PICK m \in Nat : m = Len(steps)
  OBVIOUS
<1>4. n \in 1 .. m - 1 /\ Len(steps') = m - n /\ \A i \in 1 .. m - n : i + n \in 1 .. m /\ steps'[i] = steps[i + n]
  BY <1>1, <1>3 DEF Skips
<1>5. 1 \in 1 .. m - n
  BY <1>4
<1>6. steps'[1] = steps[1 + n]
  BY <1>4, <1>5
<1>7. steps' # <<>> /\ steps'[1] = "Charset"
  <2>1. 1 + n = n + 1
    BY <1>1
  <2>2. Len(steps') > 0
    BY <1>4
  <2> QED
    BY <1>1, <1>6, <2>1, <2>2
<1>8. dsn.charsets > 1
  <2>1. n + 1 \in 1 .. Len(steps) /\ n + 1 > 1
    BY <1>1, <1>3
  <2> QED
    BY <1>1, <2>1 DEF Planned, CharsetsTried, Retries
<1>9. \A i \in 1 .. Len(steps') : CalledIn(steps'[i])
  BY <1>3, <1>4 DEF Planned
<1> QED
  BY <1>2, <1>7, <1>8, <1>9 DEF Planned, CharsetsTried, CalledIn

-----------------------------------------------------------------------------
(* What a read and a write do.                                             *)

LEMMA SentIs ==
  ASSUME NEW step \in Asks \cup {"Init"}, NEW a \in SentFor(step), NEW first \in Nat
  PROVE  /\ Numbered(a, first) \in Seq(PacketType)
         /\ NumberedOn(Numbered(a, first), first % SequenceMod)
         /\ IsAnswer(Numbered(a, first), step)
<1>1. a \in Seq(PacketType) /\ IsAnswer(a, step)
  BY AnswersAre
<1>2. PICK N : N = Numbered(a, first)
  OBVIOUS
<1>3. /\ N \in Seq(PacketType)
      /\ Len(N) = Len(a)
      /\ \A i \in 1 .. Len(a) : N[i].is = a[i].is /\ N[i].info = a[i].info /\ N[i].result = a[i].result
      /\ a # <<>> => N[1].seq = first % SequenceMod
      /\ \A i \in 1 .. Len(a) - 1 : N[i + 1].seq = (N[i].seq + Splits(N[i].is)) % SequenceMod
  BY <1>1, <1>2, NumberedIs
<1>4. Len(a) \in Nat
  BY <1>1
<1>5. NumberedOn(N, first % SequenceMod)
  <2>1. N # <<>> => a # <<>>
    BY <1>1, <1>3
  <2>2. N # <<>> => N[1].seq = first % SequenceMod
    BY <1>3, <2>1
  <2>3. \A i \in 1 .. Len(N) - 1 : N[i + 1].seq = (N[i].seq + Splits(N[i].is)) % SequenceMod
    BY <1>3
  <2> QED
    BY <2>2, <2>3 DEF NumberedOn
<1>6. IsAnswer(N, step)
  <2>1. a = <<>> => N = <<>>
    BY <1>1, <1>3
  <2>2. \A kinds : IsOne(a, kinds) => IsOne(N, kinds)
    BY <1>3, <1>4 DEF IsOne
  <2>3. ASSUME NEW r \in WholeType, IsWhole(a, r)
        PROVE  IsWhole(N, r)
    <3>1. Len(r.rows) \in Nat
      BY DEF WholeType, ResultType
    <3>2. Len(a) = Len(r.rows) + 4 /\ 1 \in 1 .. Len(a)
      BY <2>3, <3>1 DEF IsWhole
    <3>3. \A j \in 1 .. Len(r.rows) + 3 : j + 1 \in 1 .. Len(a)
      BY <3>1, <3>2
    <3>4. N[1].is = "Header" /\ N[1].result = r /\ Len(N) = Len(r.rows) + 4
      BY <1>3, <2>3, <3>2 DEF IsWhole
    <3>5. \A j \in 1 .. Len(r.rows) + 3 : N[j + 1].is = Nth(r, j)
      BY <1>3, <2>3, <3>3 DEF IsWhole
    <3> QED
      BY <3>4, <3>5 DEF IsWhole
  <2>4. ASSUME IsPrepared(a)
        PROVE  IsPrepared(N)
    <3>1. a # <<>>
      BY <2>4 DEF IsPrepared
    <3>2. 1 \in 1 .. Len(a) /\ N # <<>>
      BY <3>1, <1>1, <1>3
    <3>3. N[1].info = a[1].info /\ N[1].is = a[1].is
      BY <1>3, <3>2
    <3>4. Asked(N[1]) = Asked(a[1])
      BY <3>3 DEF Asked
    <3>5. \A i \in 2 .. Len(a) : N[i].is = a[i].is
      BY <1>3, <1>4
    <3> QED
      BY <1>3, <2>4, <3>2, <3>3, <3>4, <3>5 DEF IsPrepared
  <2> QED
    BY <1>1, <2>1, <2>2, <2>3, <2>4 DEF IsAnswer
<1> QED
  BY <1>2, <1>3, <1>5, <1>6

\* The first packet is taken, and maybe more of them come in.
Takes ==
  /\ packets # <<>> /\ packets[1] \in PacketType /\ Head(packets) = packets[1]
  /\ packets' \in Seq(PacketType)
  /\ Len(packets') = Len(packets) - 1
  /\ \A i \in 1 .. Len(packets) - 1 : packets'[i] = packets[i + 1]
  /\ received' \in 0 .. Len(packets')
  /\ sequence' \in 0 .. SequenceMod - 1
  /\ packets[1].seq = sequence
  /\ sequence' = (sequence + Splits(packets[1].is)) % SequenceMod

LEMMA ReadIs ==
  ASSUME TypesOK, NEW kinds, ReadPacket(kinds)
  PROVE  /\ steps # <<>> /\ Head(steps) = steps[1] /\ steps[1] \in kinds
         /\ Takes
<1>1. steps # <<>> /\ Head(steps) = steps[1] /\ steps[1] \in kinds
  BY DEF ReadPacket, Now, TypesOK
<1>2. packets \in Seq(PacketType) /\ packets # <<>>
  BY DEF ReadPacket, TypesOK
<1>3. /\ Len(packets) \in Nat \ {0}
      /\ Tail(packets) \in Seq(PacketType)
      /\ Len(Tail(packets)) = Len(packets) - 1
      /\ \A i \in 1 .. Len(packets) - 1 : Tail(packets)[i] = packets[i + 1]
      /\ Head(packets) = packets[1] /\ packets[1] \in PacketType
  BY <1>2, TailOf
<1>4. packets' = Tail(packets)
  BY DEF ReadPacket
<1>5. received' \in 0 .. Len(packets')
  <2>1. PICK n \in Nat \ {0} : n = Len(packets)
    BY <1>3
  <2>2. received \in 0 .. n /\ received' \in (IF received = 0 THEN 0 ELSE received - 1) .. n - 1
    BY <2>1 DEF ReadPacket, Fills, TypesOK
  <2>3. Len(packets') = n - 1
    BY <1>3, <1>4, <2>1
  <2> QED
    BY <2>2, <2>3
<1>6. packets[1].seq = sequence /\ sequence' = (sequence + Splits(packets[1].is)) % SequenceMod
  BY <1>3 DEF ReadPacket
<1>7. sequence' \in 0 .. SequenceMod - 1
  <2>1. sequence \in Int /\ Splits(packets[1].is) \in Int
    BY DEF TypesOK, Splits
  <2>2. sequence + Splits(packets[1].is) \in Int
    BY <2>1
  <2> QED
    BY <1>6, <2>2, ModRange
<1> QED
  BY <1>1, <1>2, <1>3, <1>4, <1>5, <1>6, <1>7 DEF Takes

LEMMA CountedOn ==
  ASSUME TypesOK, Takes, Counted
  PROVE  Counted'
<1>1. PICK n \in Nat \ {0} : n = Len(packets)
  BY TailOf DEF Takes, TypesOK
<1>2. Len(packets') = n - 1 /\ \A i \in 1 .. n - 1 : packets'[i] = packets[i + 1]
  BY <1>1 DEF Takes
<1>3. \A i \in 1 .. n - 1 : packets[i + 1].seq = (packets[i].seq + Splits(packets[i].is)) % SequenceMod
  BY <1>1 DEF Counted, NumberedOn
<1>4. packets' # <<>> => packets'[1].seq = sequence'
  <2> SUFFICES ASSUME packets' # <<>>
               PROVE  packets'[1].seq = sequence'
    OBVIOUS
  <2>1. Len(packets') # 0
    BY DEF Takes
  <2>2. 1 \in 1 .. n - 1
    BY <1>2, <2>1
  <2>3. packets'[1] = packets[1 + 1] /\ packets[1 + 1].seq = (packets[1].seq + Splits(packets[1].is)) % SequenceMod
    BY <1>2, <1>3, <2>2
  <2> QED
    BY <2>3 DEF Takes
<1>5. ASSUME NEW i \in 1 .. Len(packets') - 1
      PROVE  packets'[i + 1].seq = (packets'[i].seq + Splits(packets'[i].is)) % SequenceMod
  <2>1. i \in 1 .. n - 1 /\ i + 1 \in 1 .. n - 1
    BY <1>2
  <2>2. PICK j \in 1 .. n - 1 : j = i + 1
    BY <2>1
  <2>3. packets'[i] = packets[j] /\ packets'[j] = packets[j + 1]
    BY <1>2, <2>1, <2>2
  <2>4. packets[j + 1].seq = (packets[j].seq + Splits(packets[j].is)) % SequenceMod
    BY <1>3
  <2> QED
    BY <2>2, <2>3, <2>4
<1> QED
  BY <1>4, <1>5 DEF Counted, NumberedOn

\* What has been asked for is on its way, unless the network is broken.
Written(step) ==
  /\ netConn /\ UNCHANGED netConn
  /\ GoOn(<<>>)
  /\ packets' \in Seq(PacketType)
  /\ sequence' \in 0 .. SequenceMod - 1
  /\ \E N \in Seq(PacketType) :
       /\ packets' = packets \o N
       /\ IF cut THEN N = <<>> ELSE NumberedOn(N, sequence') /\ IsAnswer(N, step)
  /\ UNCHANGED <<received, rows, stmt>>

Panicked ==
  /\ ~ netConn
  /\ steps' = <<>> /\ outcome' = "panic"
  /\ UNCHANGED <<netConn, sequence, packets, received, rows, stmt>>

WriteFails ==
  /\ FailsWith("bad") /\ OpenCloses
  /\ UNCHANGED <<sequence, packets, received>>

LEMMA WriteIs ==
  ASSUME TypesOK, NEW step \in Asks, NEW seq \in 0 .. SequenceMod - 1, Write(SentFor(step), seq)
  PROVE  Panicked \/ WriteFails \/ Written(step)
<1>1. CASE ~ netConn
  BY <1>1 DEF Write, Panicked
<1>2. CASE netConn /\ WriteFails
  BY <1>2
<1>3. CASE netConn /\ ~ WriteFails
  <2>1. /\ GoOn(<<>>)
        /\ sequence' = (seq + 1) % SequenceMod
        /\ \E a \in SentFor(step) : packets' = packets \o (IF cut THEN <<>> ELSE Numbered(a, seq + 1))
        /\ UNCHANGED <<netConn, received, rows, stmt>>
    BY <1>3 DEF Write, WriteFails
  <2>2. PICK a \in SentFor(step) : packets' = packets \o (IF cut THEN <<>> ELSE Numbered(a, seq + 1))
    BY <2>1, Zenon
  <2>3. seq + 1 \in Nat
    BY ModRange
  <2>4. sequence' \in 0 .. SequenceMod - 1
    <3>1. seq + 1 \in Int
      BY <2>3
    <3>2. (seq + 1) % SequenceMod \in 0 .. SequenceMod - 1
      BY <3>1, ModRange, Zenon
    <3> QED
      BY <2>1, <3>2
  <2>5. PICK N : N = IF cut THEN <<>> ELSE Numbered(a, seq + 1)
    OBVIOUS
  <2>6. CASE cut
    <3>1. N = <<>> /\ N \in Seq(PacketType)
      BY <2>5, <2>6
    <3>2. packets' = packets \o N /\ packets' \in Seq(PacketType)
      BY <2>2, <2>5, <3>1 DEF TypesOK
    <3> QED
      BY <1>3, <2>1, <2>4, <2>6, <3>1, <3>2 DEF Written
  <2>7. CASE ~ cut
    <3>1. /\ Numbered(a, seq + 1) \in Seq(PacketType)
          /\ NumberedOn(Numbered(a, seq + 1), (seq + 1) % SequenceMod)
          /\ IsAnswer(Numbered(a, seq + 1), step)
      BY <2>3, SentIs
    <3>2. N \in Seq(PacketType) /\ NumberedOn(N, sequence') /\ IsAnswer(N, step)
      BY <2>1, <2>5, <2>7, <3>1
    <3>3. packets' = packets \o N
      BY <2>2, <2>5
    <3>4. packets' \in Seq(PacketType)
      BY <3>2, <3>3, JoinOf DEF TypesOK
    <3> QED
      BY <1>3, <2>1, <2>4, <2>7, <3>2, <3>3, <3>4 DEF Written
  <2> QED
    BY <2>6, <2>7
<1> QED
  BY <1>1, <1>2, <1>3

LEMMA WriteActionIs ==
  ASSUME TypesOK, WriteAuth \/ WriteCommand \/ WriteExecute \/ WriteInFile
  PROVE  /\ steps # <<>> /\ steps[1] \in Asks
         /\ Panicked \/ WriteFails \/ Written(steps[1])
         /\ UNCHANGED <<dsn, strict, cut, calling, inTx, odd>>
<1>1. steps # <<>> /\ Head(steps) = steps[1] /\ steps[1] \in Asks
  BY DEF TypesOK, WriteAuth, WriteCommand, WriteExecute, WriteInFile, Now, Asks, Commands
<1>2. sequence \in 0 .. SequenceMod - 1 /\ 0 \in 0 .. SequenceMod - 1
  BY ModRange DEF TypesOK
<1>3. ASSUME NEW seq \in 0 .. SequenceMod - 1, WriteBuffered(steps[1], seq)
      PROVE  Panicked \/ WriteFails \/ Written(steps[1])
  <2>1. WriteFails \/ Write(SentFor(steps[1]), seq)
    BY <1>3 DEF WriteBuffered, WriteFails
  <2> QED
    BY <2>1, <1>1, WriteIs
<1>4. CASE WriteAuth
  BY <1>1, <1>2, <1>3, <1>4 DEF WriteAuth
<1>5. CASE WriteCommand
  BY <1>1, <1>2, <1>3, <1>5 DEF WriteCommand
<1>6. CASE WriteExecute
  <2>1. steps[1] = "Execute"
    BY <1>1, <1>6 DEF WriteExecute, Now
  <2> QED
    BY <1>1, <1>2, <1>3, <1>6, <2>1 DEF WriteExecute
<1>7. CASE WriteInFile
  <2>1. steps[1] = "InFileData"
    BY <1>1, <1>7 DEF WriteInFile, Now
  <2>2. PICK n \in 0 .. 1 : Write(SentFor("InFileData"), (sequence + n) % SequenceMod)
    BY <1>7 DEF WriteInFile
  <2>3. (sequence + n) % SequenceMod \in 0 .. SequenceMod - 1
    <3>1. sequence + n \in Int
      BY <1>2
    <3> QED
      BY <3>1, ModRange, Zenon
  <2>4. PICK seq \in 0 .. SequenceMod - 1 : seq = (sequence + n) % SequenceMod
    BY <2>3
  <2>5. Panicked \/ WriteFails \/ Written(steps[1])
    BY <2>1, <2>2, <2>4, <1>1, WriteIs
  <2> QED
    BY <1>1, <1>7, <2>5 DEF WriteInFile
<1> QED
  BY <1>4, <1>5, <1>6, <1>7

\* What handleParams does, in either order.
LEMMA PlansAre ==
  ASSUME TypesOK, NEW plan \in ParamPlans
  PROVE  /\ plan \in Seq(Steps) /\ Chain(plan)
         /\ \A i \in 1 .. Len(plan) : plan[i] \in {"Charset", "charsetHeader", "strict"}
         /\ plan # <<>> => plan[1] # "charsetHeader"
         /\ \A i \in 1 .. Len(plan) :
              plan[i] = "Charset" /\ i > (IF plan[1] = "strict" THEN 2 ELSE 1) => dsn.charsets > 1
<1> DEFINE tries == [i \in 1 .. 2 * dsn.charsets |-> IF i % 2 = 1 THEN "Charset" ELSE "charsetHeader"]
<1>1. PICK n \in Nat : n = dsn.charsets
  BY MysqlAssumption DEF TypesOK
<1>2. PICK m \in Nat : m = 2 * n
  BY <1>1
<1>3. PICK t : t = tries
  OBVIOUS
<1>4. \A i \in 1 .. m : t[i] = IF i % 2 = 1 THEN "Charset" ELSE "charsetHeader"
  BY <1>1, <1>2, <1>3
<1>5. t \in Seq(Steps) /\ Len(t) = m
  <2>1. t = [i \in 1 .. m |-> IF i % 2 = 1 THEN "Charset" ELSE "charsetHeader"]
    BY <1>1, <1>2, <1>3
  <2>2. "Charset" \in Steps /\ "charsetHeader" \in Steps
    BY DEF Steps, Asks, Commands, Reads
  <2> QED
    BY <2>1, <2>2
<1>6. plan = t \/ plan = <<"strict">> \o t \/ plan = t \o <<"strict">>
  BY <1>3 DEF ParamPlans
<1> HIDE DEF tries
<1>7. PICK s : s = <<"strict">>
  OBVIOUS
<1>8. s \in Seq(Steps) /\ Len(s) = 1 /\ s[1] = "strict"
  BY <1>7 DEF Steps
<1>9. CASE plan = t
  <2>1. \A i \in 1 .. m : i < m => plan[i + 1] = IF i % 2 = 1 THEN "charsetHeader" ELSE "Charset"
    BY <1>4, <1>9
  <2>2. \A i \in 1 .. m : i % 2 = 1 => i < m
    BY <1>2
  <2>3. ASSUME NEW i \in 1 .. m
        PROVE  MayFollow(plan[i], IF i < m THEN plan[i + 1] ELSE "end")
    BY <1>4, <1>9, <2>1, <2>2 DEF MayFollow, Onward
  <2>4. Chain(plan)
    BY <1>5, <1>9, <2>3 DEF Chain, Then
  <2>5. \A i \in 1 .. m : plan[i] = "Charset" /\ i > 1 => n > 1
    BY <1>2, <1>4, <1>9
  <2>6. \A i \in 1 .. m : plan[i] \in {"Charset", "charsetHeader"}
    BY <1>4, <1>9
  <2>7. plan # <<>> => plan[1] = "Charset"
    <3>1. plan # <<>> => m # 0
      BY <1>5, <1>9
    <3>2. m # 0 => 1 \in 1 .. m
      OBVIOUS
    <3> QED
      BY <1>4, <1>9, <3>1, <3>2
  <2> QED
    BY <1>1, <1>5, <1>9, <2>4, <2>5, <2>6, <2>7
<1>10. CASE plan = <<"strict">> \o t
  <2>1. plan = s \o t
    BY <1>7, <1>10
  <2>2. /\ plan \in Seq(Steps) /\ Len(plan) = Len(s) + Len(t)
        /\ \A i \in 1 .. Len(s) : plan[i] = s[i]
        /\ \A i \in 1 .. Len(t) : plan[Len(s) + i] = t[i]
    <3>1. s \in Seq(Steps) /\ t \in Seq(Steps)
      BY <1>5, <1>8
    <3> QED
      BY <2>1, <3>1, JoinOf
  <2>3. plan \in Seq(Steps) /\ Len(plan) = m + 1 /\ plan[1] = "strict"
        /\ \A i \in 1 .. m : plan[1 + i] = t[i]
    BY <1>5, <1>8, <2>2
  <2>4. \A i \in 2 .. m + 1 : plan[i] = IF i % 2 = 0 THEN "Charset" ELSE "charsetHeader"
    <3>1. \A i \in 2 .. m + 1 : i - 1 \in 1 .. m /\ plan[i] = t[i - 1]
      <4> SUFFICES ASSUME NEW i \in 2 .. m + 1
                   PROVE  i - 1 \in 1 .. m /\ plan[i] = t[i - 1]
        OBVIOUS
      <4>1. PICK j \in 1 .. m : j = i - 1
        OBVIOUS
      <4>2. plan[1 + j] = t[j] /\ 1 + j = i
        BY <2>3, <4>1
      <4> QED
        BY <4>1, <4>2
    <3> QED
      BY <1>4, <3>1
  <2>5. ASSUME NEW i \in 1 .. m + 1
        PROVE  MayFollow(plan[i], IF i < m + 1 THEN plan[i + 1] ELSE "end")
    <3>1. CASE i = 1
      <4>1. 2 <= m + 1 => plan[2] = "Charset"
        BY <2>4
      <4> QED
        BY <3>1, <4>1, <2>3 DEF MayFollow, Onward
    <3>2. CASE i > 1
      <4>1. i \in 2 .. m + 1
        BY <3>2
      <4>2. i < m + 1 => i + 1 \in 2 .. m + 1
        BY <3>2
      <4>3. plan[i] = IF i % 2 = 0 THEN "Charset" ELSE "charsetHeader"
        BY <2>4, <4>1
      <4>4. i < m + 1 => plan[i + 1] = IF i % 2 = 0 THEN "charsetHeader" ELSE "Charset"
        BY <2>4, <4>2
      <4>5. i % 2 = 0 => i < m + 1
        BY <1>2
      <4> QED
        BY <4>3, <4>4, <4>5 DEF MayFollow, Onward
    <3> QED
      BY <3>1, <3>2
  <2>6. Chain(plan)
    BY <2>3, <2>5 DEF Chain, Then
  <2>7. \A i \in 1 .. m + 1 : plan[i] = "Charset" /\ i > 2 => n > 1
    BY <1>2, <2>4
  <2>8. \A i \in 1 .. m + 1 : plan[i] \in {"Charset", "charsetHeader", "strict"}
    BY <2>3, <2>4
  <2> QED
    BY <1>1, <2>3, <2>6, <2>7, <2>8
<1>11. CASE plan = t \o <<"strict">>
  <2>1. plan = t \o s
    BY <1>7, <1>11
  <2>2. /\ plan \in Seq(Steps) /\ Len(plan) = Len(t) + Len(s)
        /\ \A i \in 1 .. Len(t) : plan[i] = t[i]
        /\ \A i \in 1 .. Len(s) : plan[Len(t) + i] = s[i]
    <3>1. s \in Seq(Steps) /\ t \in Seq(Steps)
      BY <1>5, <1>8
    <3> QED
      BY <2>1, <3>1, JoinOf
  <2>3. plan \in Seq(Steps) /\ Len(plan) = m + 1 /\ plan[m + 1] = "strict"
        /\ \A i \in 1 .. m : plan[i] = t[i]
    BY <1>5, <1>8, <2>2
  <2>4. \A i \in 1 .. m : plan[i] = IF i % 2 = 1 THEN "Charset" ELSE "charsetHeader"
    BY <1>4, <2>3
  <2>5. ASSUME NEW i \in 1 .. m + 1
        PROVE  MayFollow(plan[i], IF i < m + 1 THEN plan[i + 1] ELSE "end")
    <3>1. CASE i = m + 1
      BY <3>1, <2>3 DEF MayFollow, Onward
    <3>2. CASE i = m
      <4>1. i % 2 = 0 /\ i < m + 1 /\ i + 1 = m + 1
        BY <1>2, <3>2
      <4>2. plan[i] = "charsetHeader"
        BY <2>4, <3>2, <4>1
      <4> QED
        BY <2>3, <4>1, <4>2 DEF MayFollow, Onward
    <3>3. CASE i < m
      <4>1. i \in 1 .. m /\ i + 1 \in 1 .. m /\ i < m + 1
        BY <3>3
      <4>2. plan[i] = IF i % 2 = 1 THEN "Charset" ELSE "charsetHeader"
        BY <2>4, <4>1
      <4>3. plan[i + 1] = IF i % 2 = 1 THEN "charsetHeader" ELSE "Charset"
        BY <2>4, <4>1
      <4> QED
        BY <4>1, <4>2, <4>3 DEF MayFollow, Onward
    <3> QED
      BY <3>1, <3>2, <3>3
  <2>6. Chain(plan)
    BY <2>3, <2>5 DEF Chain, Then
  <2>7. \A i \in 1 .. m + 1 : plan[i] = "Charset" /\ i > 1 => n > 1
    BY <1>2, <2>3, <2>4
  <2>8. \A i \in 1 .. m + 1 : plan[i] \in {"Charset", "charsetHeader", "strict"}
    BY <2>3, <2>4
  <2>9. plan[1] # "charsetHeader"
    <3>1. CASE m = 0
      BY <3>1, <2>3
    <3>2. CASE m # 0
      <4>1. 1 \in 1 .. m
        BY <3>2
      <4> QED
        BY <2>4, <4>1
    <3> QED
      BY <3>1, <3>2
  <2> QED
    BY <1>1, <2>3, <2>6, <2>7, <2>8, <2>9
<1> QED
  BY <1>6, <1>9, <1>10, <1>11

-----------------------------------------------------------------------------
(* The variables keep their types.                                         *)

LEMMA NothingTyped == NoRows \in RowsType /\ NoStmt \in StmtType
BY ResultTypes DEF NoRows, NoStmt, RowsType, StmtType

LEMMA FailsTyped ==
  ASSUME TypesOK, steps # <<>>, NEW e, FailsWith(e)
  PROVE  steps' \in Seq(Steps) /\ rows' \in RowsType /\ stmt' \in StmtType
<1>1. steps \in Seq(Steps) /\ rows \in RowsType /\ stmt \in StmtType
  BY DEF TypesOK
<1>2. steps' \in Seq(Steps) /\ (Retries \/ EndsWith(e))
  BY <1>1, FailsIs
<1> QED
  BY <1>1, <1>2, NothingTyped DEF Retries, EndsWith

\* What a read leaves to be shown.
LEMMA ReadTyped ==
  ASSUME TypesOK, NEW kinds, ReadPacket(kinds),
         steps' \in Seq(Steps), rows' \in RowsType, stmt' \in StmtType, netConn' \in BOOLEAN, inTx' \in BOOLEAN,
         odd' \subseteq OddKinds
  PROVE  TypesOK'
<1>1. steps # <<>> /\ Takes
  BY ReadIs
<1>2. UNCHANGED <<dsn, strict, cut, calling>>
  BY DEF ReadPacket
<1>3. Unopened'
  BY <1>1, <1>2 DEF Unopened, TypesOK
<1> QED
  BY <1>1, <1>2, <1>3 DEF Takes, TypesOK

LEMMA EmptyTyped ==
  <<>> \in Seq(PacketType) /\ <<>> \in Seq(Steps) /\ 0 \in 0 .. Len(<<>>)
OBVIOUS

LEMMA TypesInit ==
  ASSUME MysqlInit
  PROVE  TypesOK
<1>1. 0 \in 0 .. SequenceMod - 1
  BY ModRange
<1>2. rows \in RowsType /\ stmt \in StmtType /\ ~ rows.open
  BY NothingTyped DEF MysqlInit, NoRows
<1> QED
  BY <1>1, <1>2, EmptyTyped DEF MysqlInit, TypesOK, Unopened, Callings

LEMMA PlansTyped ==
  /\ \A s \in Steps : <<s>> \in Seq(Steps)
  /\ \A s, t \in Steps : <<s, t>> \in Seq(Steps)
  /\ \A s, t, u \in Steps : <<s, t, u>> \in Seq(Steps)
  /\ <<>> \in Seq(Steps)
OBVIOUS

LEMMA DriverCallsTyped ==
  ASSUME TypesOK, DriverCalls
  PROVE  TypesOK'
<1> DEFINE Plans == {<<>>, <<"Command", "execHeader">>, <<"Command", "queryHeader">>, <<"Simple", "execHeader">>,
                     <<"Prepare", "prepared">>, <<"Execute", "stmtHeader">>, <<"Execute", "stmtQueryHeader">>,
                     <<"StmtClose">>, <<"row">>, <<"binaryRow">>, <<"drainRows">>}
<1>1. Plans \subseteq Seq(Steps)
  BY PlansTyped DEF Steps, Asks, Commands, Reads, Drains
<1>2. Untouched /\ steps' \in Plans /\ calling' \in Callings \ {"none"}
  <2>1. CASE Exec \/ Query \/ BeginTx \/ EndTx \/ Prepare
    BY <2>1 DEF Exec, Query, BeginTx, EndTx, Prepare, Checked, Calls, Callings
  <2>2. CASE StmtExec \/ StmtQuery \/ StmtClose
    BY <2>2 DEF StmtExec, StmtQuery, StmtClose, Checked, Calls, Callings
  <2>3. CASE RowsNext
    BY <2>3 DEF RowsNext, Checked, Calls, Callings
  <2>4. CASE RowsClose
    BY <2>4 DEF RowsClose, Calls, Callings
  <2> QED
    BY <2>1, <2>2, <2>3, <2>4 DEF DriverCalls
<1>3. rows' \in RowsType /\ stmt' \in StmtType /\ inTx' \in BOOLEAN
  BY NothingTyped DEF DriverCalls, Exec, Query, BeginTx, EndTx, Prepare, StmtExec, StmtQuery, StmtClose, RowsNext,
      RowsClose, TypesOK
<1> HIDE DEF Plans
<1>4. steps' \in Seq(Steps)
  BY <1>1, <1>2
<1> QED
  BY <1>2, <1>3, <1>4 DEF Untouched, TypesOK, Unopened

LEMMA WritesTyped ==
  ASSUME TypesOK, Writes
  PROVE  TypesOK'
<1>1. CASE WriteAuth \/ WriteCommand \/ WriteExecute \/ WriteInFile
  <2>1. /\ steps # <<>> /\ steps[1] \in Asks
        /\ Panicked \/ WriteFails \/ Written(steps[1])
        /\ UNCHANGED <<dsn, strict, cut, calling, inTx, odd>>
    BY <1>1, WriteActionIs
  <2>2. CASE Panicked
    BY <2>1, <2>2, PlansTyped DEF Panicked, TypesOK, Unopened
  <2>3. CASE WriteFails
    <3>1. steps' \in Seq(Steps) /\ rows' \in RowsType /\ stmt' \in StmtType
      BY <2>1, <2>3, FailsTyped DEF WriteFails
    <3> QED
      BY <2>1, <2>3, <3>1 DEF WriteFails, OpenCloses, TypesOK, Unopened
  <2>4. CASE Written(steps[1])
    <3>1. steps' \in Seq(Steps)
      BY <2>1, <2>4, PlansTyped, GoOnIs DEF Written, TypesOK
    <3>2. received' \in 0 .. Len(packets')
      <4>1. PICK N \in Seq(PacketType) : packets' = packets \o N
        BY <2>4 DEF Written
      <4>2. Len(packets') = Len(packets) + Len(N) /\ Len(N) \in Nat /\ Len(packets) \in Nat
        BY <4>1, JoinOf DEF TypesOK
      <4> QED
        BY <2>4, <4>2 DEF Written, TypesOK
    <3> QED
      BY <2>1, <2>4, <3>1, <3>2 DEF Written, TypesOK, Unopened
  <2> QED
    BY <2>1, <2>2, <2>3, <2>4
<1>2. CASE WriteTooLarge
  <2>1. steps # <<>>
    BY <1>2 DEF WriteTooLarge, Now
  <2>2. steps' \in Seq(Steps) /\ rows' \in RowsType /\ stmt' \in StmtType
    BY <1>2, <2>1, FailsTyped DEF WriteTooLarge
  <2>3. sequence' \in 0 .. SequenceMod - 1
    BY <1>2, ModRange DEF WriteTooLarge
  <2> QED
    BY <1>2, <2>1, <2>2, <2>3 DEF WriteTooLarge, TypesOK, Unopened
<1> QED
  BY <1>1, <1>2 DEF Writes

LEMMA OpensTyped ==
  ASSUME TypesOK, Open \/ HandleParams \/ SetStrict \/ Close \/ NetworkCut
  PROVE  TypesOK'
<1>1. CASE Open
  <2>1. PICK a \in SentFor("Init") : packets' = Numbered(a, 0)
    BY <1>1 DEF Open
  <2>2. packets' \in Seq(PacketType)
    BY <2>1, SentIs
  <2>3. <<"init", "Auth", "authResult", "SysVar", "sysVarHeader", "params">> \in Seq(Steps)
    BY DEF Steps, Asks, Commands, Reads
  <2>4. received' = 0 /\ Len(packets') \in Nat
    BY <1>1, <2>2 DEF Open, TypesOK, Unopened
  <2> QED
    BY <1>1, <2>2, <2>3, <2>4 DEF Open, Calls, TypesOK, Unopened, Callings
<1>2. CASE HandleParams
  <2>1. steps' \in Seq(Steps) /\ calling' = "Params"
    BY <1>2, PlansAre DEF HandleParams, Calls
  <2> QED
    BY <1>2, <2>1 DEF HandleParams, Untouched, TypesOK, Unopened, Callings
<1>3. CASE SetStrict
  <2>1. steps # <<>>
    BY <1>3 DEF SetStrict, Now
  <2>2. steps' \in Seq(Steps)
    BY <1>3, <2>1, PlansTyped, GoOnIs DEF SetStrict, TypesOK
  <2> QED
    BY <1>3, <2>1, <2>2 DEF SetStrict, TypesOK, Unopened
<1>4. CASE Close
  <2>1. 0 \in 0 .. SequenceMod - 1
    BY ModRange
  <2> QED
    BY <1>4, <2>1, NothingTyped, EmptyTyped DEF Close, TypesOK, Unopened, Callings
<1>5. CASE NetworkCut
  <2>1. PICK n \in received .. Len(packets) : packets' = SubSeq(packets, 1, n)
    BY <1>5 DEF NetworkCut
  <2>2. n \in 0 .. Len(packets)
    BY <2>1 DEF TypesOK
  <2>3. packets' \in Seq(PacketType) /\ Len(packets') = n
    BY <2>1, <2>2, PrefixOf DEF TypesOK
  <2>4. received' \in 0 .. Len(packets')
    BY <1>5, <2>1, <2>3 DEF NetworkCut, TypesOK
  <2> QED
    BY <1>5, <2>3, <2>4 DEF NetworkCut, TypesOK, Unopened
<1> QED
  BY <1>1, <1>2, <1>3, <1>4, <1>5

LEMMA OpensRowsTyped ==
  ASSUME TypesOK, NEW p \in PacketType, OpensRows(p)
  PROVE  rows' \in RowsType
<1>1. rows \in RowsType /\ p.result \in ResultType
  BY DEF TypesOK, PacketType
<1>2. CASE rows' = rows
  BY <1>1, <1>2
<1>3. CASE rows' # rows
  <2>1. PICK q \in {"text", "binary"} :
           rows' = [open |-> TRUE, done |-> FALSE, given |-> 0, result |-> p.result, protocol |-> q]
    BY <1>3 DEF OpensRows
  <2>2. PICK r \in ResultType : r = p.result
    BY <1>1
  <2>3. rows' = [open |-> TRUE, done |-> FALSE, given |-> 0, result |-> r, protocol |-> q]
    BY <2>1, <2>2
  <2> QED
    BY <2>3 DEF RowsType
<1> QED
  BY <1>2, <1>3

LEMMA ReceivesTyped ==
  ASSUME TypesOK, Receives
  PROVE  TypesOK'
<1>1. CASE ReadInit
  <2>1. steps # <<>> /\ ReadPacket({"init"})
    BY <1>1, ReadIs DEF ReadInit
  <2>2. steps' \in Seq(Steps) /\ rows' \in RowsType /\ stmt' \in StmtType
    BY <1>1, <2>1, GoOnIs, PlansTyped, FailsTyped DEF ReadInit, TypesOK
  <2> QED
    BY <1>1, <2>1, <2>2, ReadTyped DEF ReadInit, TypesOK
<1>2. CASE ReadAuthResult
  <2>1. steps # <<>> /\ ReadPacket({"authResult", "authResult2"})
    BY <1>2, ReadIs DEF ReadAuthResult
  <2>2. \A more \in {<<>>, <<"Warnings", "warningsHeader">>, <<"OldPassword", "authResult2">>, <<"ClearPassword", "authResult2">>} :
           more \in Seq(Steps)
    BY PlansTyped DEF Steps, Asks, Commands, Reads
  <2>3. CASE FailsWith("refused") /\ netConn' = FALSE
    <3>1. steps' \in Seq(Steps) /\ rows' \in RowsType /\ stmt' \in StmtType
      BY <2>1, <2>3, FailsTyped
    <3> QED
      BY <1>2, <2>1, <2>3, <3>1, ReadTyped DEF ReadAuthResult, TypesOK
  <2>4. CASE ~ (FailsWith("refused") /\ netConn' = FALSE)
    <3>1. PICK more \in {<<>>, <<"Warnings", "warningsHeader">>, <<"OldPassword", "authResult2">>, <<"ClearPassword", "authResult2">>} :
             GoOn(more)
      BY <1>2, <2>4 DEF ReadAuthResult, HandleOk
    <3>2. UNCHANGED <<netConn, rows, stmt>>
      BY <1>2, <2>4 DEF ReadAuthResult
    <3>3. steps' \in Seq(Steps)
      BY <2>1, <2>2, <3>1, GoOnIs DEF TypesOK
    <3> QED
      BY <1>2, <2>1, <3>2, <3>3, ReadTyped DEF ReadAuthResult, TypesOK
  <2> QED
    BY <2>3, <2>4
<1>3. CASE ReadHeader
  <2>1. steps # <<>> /\ Head(steps) = steps[1] /\ steps[1] \in Headers /\ ReadPacket({steps[1]}) /\ Takes
    <3>1. ReadPacket({Head(steps)})
      BY <1>3 DEF ReadHeader
    <3>2. steps # <<>> /\ Head(steps) = steps[1] /\ Takes
      BY <3>1, ReadIs
    <3> QED
      BY <1>3, <3>1, <3>2 DEF ReadHeader, Now, Headers
  <2>2. PICK p \in PacketType : p = Head(packets)
    BY <2>1 DEF Takes
  <2>3. CASE p.is = "InFile"
    <3>1. PICK end \in {"inFileResult", "inFileEnd"} : GoOn(<<"InFileData", end>>)
      BY <1>3, <2>2, <2>3 DEF ReadHeader
    <3>2. steps' \in Seq(Steps)
      <4>1. <<"InFileData", end>> \in Seq(Steps)
        BY PlansTyped DEF Steps, Asks, Commands, Reads
      <4> QED
        BY <2>1, <3>1, <4>1, GoOnIs DEF TypesOK
    <3>3. UNCHANGED <<netConn, rows, stmt, inTx, odd>>
      BY <1>3, <2>2, <2>3 DEF ReadHeader
    <3> QED
      BY <2>1, <3>2, <3>3, ReadTyped DEF TypesOK
  <2>4. CASE p.is = "Header"
    <3>1. GoOn(AfterHeader(steps[1])) /\ OpensRows(p) /\ UNCHANGED <<netConn, stmt, inTx, odd>>
      BY <1>3, <2>1, <2>2, <2>4 DEF ReadHeader
    <3>2. AfterHeader(steps[1]) \in Seq(Steps)
      BY <2>1, PlansTyped DEF AfterHeader, Headers, Steps, Reads, Drains
    <3>3. steps' \in Seq(Steps)
      BY <2>1, <3>1, <3>2, GoOnIs DEF TypesOK
    <3>4. rows' \in RowsType
      BY <3>1, OpensRowsTyped
    <3> QED
      BY <2>1, <3>1, <3>3, <3>4, ReadTyped DEF TypesOK
  <2>5. CASE p.is = "OK"
    <3>1. steps' = OtherParams \/ HandleOk(p)
      BY <1>3, <2>1, <2>2, <2>5 DEF ReadHeader
    <3>2. steps' \in Seq(Steps)
      <4>1. OtherParams \in Seq(Steps) /\ <<"Warnings", "warningsHeader">> \in Seq(Steps) /\ <<>> \in Seq(Steps)
        BY PlansTyped DEF OtherParams, Steps, Asks, Commands, Reads
      <4> QED
        BY <2>1, <3>1, <4>1, GoOnIs DEF HandleOk, TypesOK
    <3>3. rows' \in RowsType /\ odd' \subseteq OddKinds /\ inTx' \in BOOLEAN /\ UNCHANGED <<netConn, stmt>>
      <4>1. OpensRows(p) \/ UNCHANGED rows
        BY <1>3, <2>1, <2>2, <2>5 DEF ReadHeader
      <4>2. rows' \in RowsType
        BY <4>1, OpensRowsTyped DEF TypesOK
      <4>3. odd' \subseteq odd \cup {"noResult"} /\ UNCHANGED <<netConn, stmt>> /\ inTx' \in BOOLEAN
        BY <1>3, <2>1, <2>2, <2>5 DEF ReadHeader, TypesOK
      <4> QED
        BY <4>2, <4>3 DEF TypesOK, OddKinds
    <3> QED
      BY <2>1, <3>2, <3>3, ReadTyped DEF TypesOK
  <2>6. CASE p.is \notin {"InFile", "Header", "OK"}
    <3>1. PICK e : FailsWith(e) /\ OpenCloses /\ UNCHANGED <<inTx, odd>>
      <4>1. CASE p.is = "ERR"
        BY <1>3, <2>2, <4>1 DEF ReadHeader
      <4>2. CASE p.is # "ERR"
        BY <1>3, <2>2, <2>6, <4>2 DEF ReadHeader
      <4> QED
        BY <4>1, <4>2
    <3>2. steps' \in Seq(Steps) /\ rows' \in RowsType /\ stmt' \in StmtType
      BY <2>1, <3>1, FailsTyped
    <3> QED
      BY <2>1, <3>1, <3>2, ReadTyped DEF OpenCloses, TypesOK
  <2> QED
    BY <2>3, <2>4, <2>5, <2>6
<1>4. CASE ReadColumns
  <2>1. steps # <<>> /\ ReadPacket({"columns"})
    BY <1>4, ReadIs DEF ReadColumns
  <2>2. steps' \in Seq(Steps)
    BY <1>4, <2>1, GoOnIs, PlansTyped DEF ReadColumns, TypesOK
  <2>3. stmt' \in StmtType
    BY <1>4 DEF ReadColumns, TypesOK, StmtType
  <2> QED
    BY <1>4, <2>1, <2>2, <2>3, ReadTyped DEF ReadColumns, TypesOK
<1>5. CASE ReadUntilEOF
  <2>1. steps # <<>> /\ ReadPacket(Drains)
    BY <1>5, ReadIs DEF ReadUntilEOF
  <2>2. steps' \in Seq(Steps)
    BY <1>5, <2>1, GoOnIs, PlansTyped DEF ReadUntilEOF, TypesOK
  <2>3. rows' \in RowsType
    BY <1>5, NothingTyped DEF ReadUntilEOF, TypesOK
  <2>4. odd' \subseteq OddKinds
    BY <1>5 DEF ReadUntilEOF, TypesOK, OddKinds
  <2> QED
    BY <1>5, <2>1, <2>2, <2>3, <2>4, ReadTyped DEF ReadUntilEOF, TypesOK
<1>6. CASE ReadSysVar
  <2>1. steps # <<>> /\ ReadPacket({"sysVarRow"})
    BY <1>6, ReadIs DEF ReadSysVar
  <2>2. steps' \in Seq(Steps) /\ rows' \in RowsType /\ stmt' \in StmtType
    BY <1>6, <2>1, GoOnIs, PlansTyped, FailsTyped DEF ReadSysVar, TypesOK
  <2> QED
    BY <1>6, <2>1, <2>2, ReadTyped DEF ReadSysVar, OpenCloses, TypesOK
<1>7. CASE ReadWarning
  <2>1. steps # <<>> /\ ReadPacket({"warningRow"})
    BY <1>7, ReadIs DEF ReadWarning
  <2>2. (\E e : FailsWith(e) /\ OpenCloses) \/ UNCHANGED <<netConn, steps, rows, stmt>>
    BY <1>7 DEF ReadWarning
  <2>3. CASE \E e : FailsWith(e) /\ OpenCloses
    <3>1. steps' \in Seq(Steps) /\ rows' \in RowsType /\ stmt' \in StmtType
      BY <2>1, <2>3, FailsTyped
    <3> QED
      BY <1>7, <2>1, <2>3, <3>1, ReadTyped DEF ReadWarning, OpenCloses, TypesOK
  <2>4. CASE UNCHANGED <<netConn, steps, rows, stmt>>
    BY <1>7, <2>1, <2>4, ReadTyped DEF ReadWarning, TypesOK
  <2> QED
    BY <2>2, <2>3, <2>4
<1>8. CASE ReadTextRow \/ ReadBinaryRow
  <2>1. PICK kinds : ReadPacket(kinds)
    BY <1>8 DEF ReadTextRow, ReadBinaryRow
  <2>2. PICK kind, e : RowRead(kind, e)
    BY <1>8 DEF ReadTextRow, ReadBinaryRow
  <2>3. steps' \in Seq(Steps) /\ UNCHANGED <<netConn, stmt, inTx, odd>>
    BY <2>2 DEF RowRead
  <2>4. rows' \in RowsType
    <3>1. PICK d \in BOOLEAN : d = (kind \in {"EOF", "ERR"})
      <4>1. (kind \in {"EOF", "ERR"}) \in BOOLEAN
        OBVIOUS
      <4> QED
        BY <4>1, Zenon
    <3>2. PICK n : n = IF e = "ok" THEN rows.given + 1 ELSE rows.given
      OBVIOUS
    <3>3. rows' = [rows EXCEPT !.done = d, !.given = n]
      BY <2>2, <3>1, <3>2 DEF RowRead
    <3>4. n \in Nat
      BY <3>2 DEF TypesOK, RowsType
    <3> QED
      BY <3>3, <3>4 DEF TypesOK, RowsType
  <2> QED
    BY <2>1, <2>3, <2>4, ReadTyped DEF TypesOK
<1>9. CASE ReadPrepared
  <2>1. steps # <<>> /\ ReadPacket({"prepared"})
    BY <1>9, ReadIs DEF ReadPrepared
  <2>2. PICK p : p = Head(packets)
    OBVIOUS
  <2>3. CASE p.is # "Prepared"
    <3>1. PICK e : FailsWith(e) /\ UNCHANGED <<odd, netConn, inTx>>
      BY <1>9, <2>2, <2>3 DEF ReadPrepared
    <3>2. steps' \in Seq(Steps) /\ rows' \in RowsType /\ stmt' \in StmtType
      BY <2>1, <3>1, FailsTyped
    <3> QED
      BY <2>1, <3>1, <3>2, ReadTyped DEF TypesOK
  <2>4. CASE p.is = "Prepared" /\ Warned(p)
    <3>1. HandleOk(p) /\ UNCHANGED <<rows, stmt, netConn, inTx>>
      BY <1>9, <2>2, <2>4 DEF ReadPrepared
    <3>2. odd' \subseteq OddKinds
      BY <1>9, <2>2, <2>4, ZenonT(60) DEF ReadPrepared, TypesOK, OddKinds
    <3>3. steps' \in Seq(Steps)
      <4>1. <<"Warnings", "warningsHeader">> \in Seq(Steps) /\ <<>> \in Seq(Steps)
        BY PlansTyped DEF Steps, Asks, Commands, Reads
      <4> QED
        BY <2>1, <3>1, <4>1, GoOnIs DEF HandleOk, TypesOK
    <3> QED
      BY <2>1, <3>1, <3>2, <3>3, ReadTyped DEF TypesOK
  <2>5. CASE p.is = "Prepared" /\ ~ Warned(p)
    <3> DEFINE has == p.info \cap {"params", "columns"}
               more == [i \in 1 .. Cardinality(has) |-> "drainDefinitions"]
    <3>1. GoOn(more) /\ stmt' = [open |-> TRUE, info |-> has, cached |-> FALSE] /\ UNCHANGED <<rows, odd, netConn, inTx>>
      BY <1>9, <2>2, <2>5 DEF ReadPrepared
    <3>2. stmt' \in StmtType
      BY <3>1 DEF StmtType
    <3>3. more \in Seq(Steps)
      <4>1. Cardinality(has) \in Nat
        <5>1. IsFiniteSet({"params", "columns"})
          <6>1. IsFiniteSet({"params"})
            BY FS_Singleton
          <6>2. IsFiniteSet({"params"} \cup {"columns"})
            BY <6>1, FS_AddElement
          <6> QED
            BY <6>2
        <5>2. has \subseteq {"params", "columns"}
          OBVIOUS
        <5> HIDE DEF has
        <5> QED
          BY <5>1, <5>2, FS_Subset, FS_CardinalityType
      <4>2. "drainDefinitions" \in Steps
        BY DEF Steps, Reads, Drains
      <4> HIDE DEF has
      <4> QED
        BY <4>1, <4>2
    <3> HIDE DEF more
    <3>4. steps' \in Seq(Steps)
      BY <2>1, <3>1, <3>3, GoOnIs DEF TypesOK
    <3> QED
      BY <2>1, <3>1, <3>2, <3>4, ReadTyped DEF TypesOK
  <2> QED
    BY <2>3, <2>4, <2>5
<1>10. CASE ReadInFileEnd
  <2>1. steps # <<>> /\ ReadPacket({"inFileResult", "inFileEnd"})
    BY <1>10, ReadIs DEF ReadInFileEnd
  <2>2. CASE \E e : FailsWith(e)
    <3>1. steps' \in Seq(Steps) /\ rows' \in RowsType /\ stmt' \in StmtType
      BY <2>1, <2>2, FailsTyped
    <3> QED
      BY <1>10, <2>1, <3>1, ReadTyped DEF ReadInFileEnd, TypesOK
  <2>3. CASE ~ \E e : FailsWith(e)
    <3>1. HandleOk(Head(packets)) /\ UNCHANGED <<rows, stmt>>
      BY <1>10, <2>3 DEF ReadInFileEnd
    <3>2. <<"Warnings", "warningsHeader">> \in Seq(Steps) /\ <<>> \in Seq(Steps)
      BY PlansTyped DEF Steps, Asks, Commands, Reads
    <3>3. steps' \in Seq(Steps)
      BY <2>1, <3>1, <3>2, GoOnIs DEF HandleOk, TypesOK
    <3> QED
      BY <1>10, <2>1, <3>1, <3>3, ReadTyped DEF ReadInFileEnd, TypesOK
  <2> QED
    BY <2>2, <2>3
<1>11. CASE ReadFails
  <2>1. steps # <<>>
    BY <1>11 DEF ReadFails, Now
  <2>2. PICK e : FailsWith(e)
    BY <1>11 DEF ReadFails
  <2>3. steps' \in Seq(Steps) /\ rows' \in RowsType /\ stmt' \in StmtType
    BY <2>1, <2>2, FailsTyped
  <2>4. netConn' \in BOOLEAN /\ packets' \in Seq(PacketType) /\ received' \in 0 .. Len(packets')
    <3>1. CASE netConn' = FALSE /\ UNCHANGED <<packets, received>>
      BY <3>1 DEF TypesOK
    <3>2. CASE ~ (netConn' = FALSE /\ UNCHANGED <<packets, received>>)
      <4>1. packets # <<>> /\ packets' = [packets EXCEPT ![1].is = "Torn"] /\ received' \in received .. Len(packets) /\ OpenCloses
        BY <1>11, <3>2 DEF ReadFails
      <4>2. packets' \in Seq(PacketType) /\ Len(packets') = Len(packets)
        <5>1. packets[1] \in PacketType
          BY <4>1, TailOf DEF TypesOK
        <5>2. [packets[1] EXCEPT !.is = "Torn"] \in PacketType
          BY <5>1 DEF PacketType, Kinds
        <5>3. packets' = [packets EXCEPT ![1] = [packets[1] EXCEPT !.is = "Torn"]]
          BY <4>1
        <5>4. PICK q \in PacketType : q = [packets[1] EXCEPT !.is = "Torn"]
          BY <5>2
        <5>5. packets' = [packets EXCEPT ![1] = q]
          BY <5>3, <5>4
        <5>6. packets \in Seq(PacketType) /\ packets # <<>>
          BY <4>1 DEF TypesOK
        <5> QED
          BY <5>5, <5>6
      <4>3. received' \in 0 .. Len(packets')
        <5>1. received \in 0 .. Len(packets) /\ Len(packets) \in Nat
          BY DEF TypesOK
        <5> QED
          BY <4>1, <4>2, <5>1
      <4>4. netConn' \in BOOLEAN
        BY <4>1 DEF OpenCloses, TypesOK
      <4> QED
        BY <4>2, <4>3, <4>4
    <3> QED
      BY <3>1, <3>2
  <2>5. UNCHANGED <<dsn, sequence, strict, cut, calling, inTx, odd>>
    BY <1>11 DEF ReadFails
  <2> QED
    BY <2>1, <2>3, <2>4, <2>5 DEF TypesOK, Unopened
<1> QED
  BY <1>1, <1>2, <1>3, <1>4, <1>5, <1>6, <1>7, <1>8, <1>9, <1>10, <1>11 DEF Receives

\* Every step keeps the types.
LEMMA TypesStep ==
  ASSUME TypesOK, [MysqlNext]_mysqlVars
  PROVE  TypesOK'
<1>1. CASE UNCHANGED mysqlVars
  BY <1>1 DEF mysqlVars, TypesOK, Unopened
<1>2. CASE MysqlNext
  BY <1>2, DriverCallsTyped, WritesTyped, OpensTyped, ReceivesTyped DEF MysqlNext
<1> QED
  BY <1>1, <1>2

\* What each variable of the connection can hold, whatever MySQL answers and
\* however often the network breaks.
THEOREM MysqlTypes == MysqlSpec => []TypesOK
BY TypesInit, TypesStep, PTL DEF MysqlSpec

-----------------------------------------------------------------------------
(* The shape of a call.                                                    *)

\* What can follow a step is not the first step of a call on rows.
LEMMA FollowsIs ==
  ASSUME NEW a \in Steps, NEW b, MayFollow(a, b)
  PROVE  b \notin {"row", "binaryRow", "columns", "drainColumns"}
BY DEF MayFollow, Onward, Steps, Reads, Drains, Asks, Commands

LEMMA EndIsNoStep == "end" \notin Steps
BY DEF Steps, Reads, Drains, Asks, Commands

\* A step that only the end of the call can follow is the last one.
LEMMA LastStep ==
  ASSUME TypesOK, Shape, steps # <<>>,
         steps[1] \in {"queryHeader", "stmtQueryHeader", "row", "binaryRow", "prepared", "StmtClose"}
  PROVE  Len(steps) = 1
<1>1. PICK n \in Nat \ {0} : n = Len(steps)
  BY TailOf DEF TypesOK
<1>2. 1 \in 1 .. n
  OBVIOUS
<1>3. MayFollow(steps[1], Then(steps, 1))
  BY <1>1, <1>2 DEF Shape, Planned, Chain
<1>4. Then(steps, 1) = "end"
  BY <1>3 DEF MayFollow
<1>5. CASE n > 1
  <2>1. 2 \in 1 .. Len(steps)
    BY <1>1, <1>5
  <2>2. steps[2] \in Steps
    BY <2>1 DEF TypesOK
  <2>3. Then(steps, 1) = steps[2]
    BY <1>1, <1>5 DEF Then
  <2> QED
    BY <1>4, <2>2, <2>3, EndIsNoStep
<1> QED
  BY <1>1, <1>5

LEMMA ShapeFails ==
  ASSUME TypesOK, Shape, steps # <<>>, steps[1] # "strict", NEW e, FailsWith(e), e # "ok", e # "panic",
         UNCHANGED <<dsn, calling>>
  PROVE  Shape'
<1>1. Retries \/ EndsWith(e)
  BY FailsIs DEF TypesOK
<1>2. CASE Retries
  <2>1. Planned' /\ steps' # <<>> /\ steps'[1] = "Charset" /\ dsn.charsets > 1
    BY <1>2, PlanRetries DEF TypesOK, Shape
  <2>2. calling = "Params" /\ UNCHANGED <<outcome, rows>> /\ ~ rows.open
    BY <1>2 DEF Retries, Shape, RowsInHand
  <2>3. RowsInHand'
    BY <2>1, <2>2 DEF RowsInHand, At
  <2> QED
    BY <2>1, <2>2, <2>3 DEF Shape, ClosedIsLeft, NothingWrittenClosed
<1>3. CASE EndsWith(e)
  <2>1. steps' = <<>> /\ outcome' = e
    BY <1>3 DEF EndsWith
  <2>2. Planned'
    BY <2>1 DEF Planned, Chain, CharsetsTried
  <2>3. RowsInHand'
    BY <1>3, <2>1 DEF EndsWith, NoRows, Shape, RowsInHand, At
  <2> QED
    BY <2>1, <2>2, <2>3 DEF Shape, ClosedIsLeft, NothingWrittenClosed
<1> QED
  BY <1>1, <1>2, <1>3

LEMMA ShapeGoesOn ==
  ASSUME TypesOK, Shape, steps # <<>>, NEW more \in Seq(Steps), GoOn(more), Fits(more),
         steps[1] = "strict" => more = <<>>,
         Len(more) = 1 => more[1] \notin {"columns", "drainColumns"},
         netConn, ~ rows.open, UNCHANGED <<dsn, calling, netConn, rows>>
  PROVE  Shape'
<1>1. Planned'
  BY PlanGoesOn DEF TypesOK, Shape
<1>2. PICK n \in Nat, m \in Nat \ {0} : n = Len(more) /\ m = Len(steps)
  BY TailOf DEF TypesOK
<1>3. /\ steps' \in Seq(Steps)
      /\ Len(steps') = n + m - 1
      /\ \A i \in 1 .. n : steps'[i] = more[i]
      /\ \A i \in 2 .. m : steps'[n + i - 1] = steps[i]
      /\ outcome' = "ok"
  BY GoOnIs, <1>2 DEF TypesOK
<1>4. CASE n = 0 /\ m = 1
  <2>1. steps' = <<>>
    BY <1>3, <1>4
  <2> QED
    BY <1>1, <1>3, <2>1 DEF Shape, RowsInHand, At, ClosedIsLeft, NothingWrittenClosed
<1>5. CASE n = 0 /\ m > 1
  <2>1. 2 \in 2 .. m /\ n + 2 - 1 = 1 /\ 1 \in 1 .. m
    BY <1>5
  <2>2. steps'[1] = steps[2] /\ steps[1] \in Steps
    BY <1>2, <1>3, <2>1 DEF TypesOK
  <2>3. MayFollow(steps[1], steps[2])
    BY <1>2, <1>5, <2>1 DEF Shape, Planned, Chain, Then
  <2>4. ~ At({"row", "binaryRow", "columns", "drainColumns"})'
    BY <2>2, <2>3, FollowsIs DEF At
  <2>5. calling # "RowsClose"
    BY DEF Shape, RowsInHand
  <2> QED
    BY <1>1, <1>3, <2>4, <2>5 DEF Shape, RowsInHand, At, ClosedIsLeft, NothingWrittenClosed
<1>6. CASE n > 0
  <2>1. 1 \in 1 .. n
    BY <1>6
  <2>2. steps'[1] = more[1] /\ more[1] \notin {"row", "binaryRow"}
    BY <1>2, <1>3, <2>1 DEF Fits
  <2>3. Len(steps') = 1 => n = 1
    <3>1. Len(steps') = n + m - 1
      BY <1>3
    <3>2. \A k, l \in Nat : k > 0 /\ l # 0 /\ k + l - 1 = 1 => k = 1
      OBVIOUS
    <3>3. n \in Nat /\ m \in Nat /\ m # 0 /\ n > 0
      BY <1>6
    <3> QED
      BY <3>1, <3>2, <3>3, Zenon
  <2>4. calling # "RowsClose"
    BY DEF Shape, RowsInHand
  <2> QED
    BY <1>1, <1>2, <1>3, <2>2, <2>3, <2>4 DEF Shape, RowsInHand, At, ClosedIsLeft, NothingWrittenClosed
<1> QED
  BY <1>4, <1>5, <1>6

\* Nothing is added to the steps.
LEMMA NothingMore == <<>> \in Seq(Steps) /\ Len(<<>>) = 0 /\ Fits(<<>>)
BY DEF Fits

LEMMA ShapeTail ==
  ASSUME TypesOK, Shape, steps # <<>>, GoOn(<<>>), netConn, ~ rows.open, UNCHANGED <<dsn, calling, netConn, rows>>
  PROVE  Shape'
<1> DEFINE more == <<>>
<1>1. more \in Seq(Steps) /\ Len(more) = 0 /\ Fits(more) /\ GoOn(more) /\ (steps[1] = "strict" => more = <<>>)
  BY NothingMore
<1>2. Len(more) = 1 => more[1] \notin {"columns", "drainColumns"}
  BY <1>1
<1> HIDE DEF more
<1> QED
  BY <1>1, <1>2, ShapeGoesOn

LEMMA ShapeInit ==
  ASSUME MysqlInit
  PROVE  Shape
BY DEF MysqlInit, Shape, Planned, Chain, CharsetsTried, RowsInHand, At, ClosedIsLeft, NothingWrittenClosed, NoRows

\* Plans of one and two steps.
LEMMA ShortChains ==
  /\ Chain(<<>>)
  /\ \A a \in Steps : MayFollow(a, "end") => Chain(<<a>>)
  /\ \A a, b \in Steps : MayFollow(a, b) /\ MayFollow(b, "end") => Chain(<<a, b>>)
BY DEF Chain, Then

\* A call that starts on a connection without open rows.
LEMMA ShapeCalls ==
  ASSUME TypesOK, Shape, ~ rows.open, rows' = rows, dsn' = dsn, netConn' = netConn,
         NEW name \in Callings \ {"none", "Params", "RowsClose"}, NEW plan \in Seq(Steps), NEW e,
         Checked(name, plan, e), e # "panic",
         Chain(plan),
         \A i \in 1 .. Len(plan) : plan[i] \notin {"SysVar", "sysVarHeader", "sysVarRow", "params", "queryHeader", "stmtQueryHeader"}
                                   \/ (plan[i] = "queryHeader" /\ name = "Query")
                                   \/ (plan[i] = "stmtQueryHeader" /\ name = "StmtQuery"),
         plan # <<>> => plan[1] \notin {"row", "binaryRow", "columns", "drainColumns"}
  PROVE  Shape'
<1>1. CASE ~ netConn
  BY <1>1 DEF Checked, Shape, Planned, Chain, CharsetsTried, RowsInHand, At, ClosedIsLeft, NothingWrittenClosed
<1>2. CASE netConn
  <2>1. calling' = name /\ steps' = plan /\ outcome' = "ok"
    BY <1>2 DEF Checked, Calls
  <2>2. Planned'
    BY <2>1 DEF Planned, CalledIn
  <2>3. RowsInHand'
    BY <2>1 DEF RowsInHand, At
  <2> QED
    BY <1>2, <2>1, <2>2, <2>3 DEF Shape, ClosedIsLeft, NothingWrittenClosed
<1> QED
  BY <1>1, <1>2

\* A command, and the header of its reply.
LEMMA ShapeAsks ==
  ASSUME TypesOK, Shape, ~ rows.open, rows' = rows, dsn' = dsn, netConn' = netConn,
         NEW name \in Callings \ {"none", "Params", "RowsClose"}, NEW e, e # "panic",
         NEW a \in {"Command", "Simple", "Prepare", "Execute"},
         NEW b \in {"execHeader", "queryHeader", "prepared", "stmtHeader", "stmtQueryHeader"},
         MayFollow(a, b), b = "queryHeader" => name = "Query", b = "stmtQueryHeader" => name = "StmtQuery",
         Checked(name, <<a, b>>, e)
  PROVE  Shape'
<1>1. a \in Steps /\ b \in Steps
  BY DEF Steps, Asks, Commands, Reads
<1>2. MayFollow(b, "end")
  BY DEF MayFollow, Onward
<1>3. PICK plan : plan = <<a, b>>
  OBVIOUS
<1>4. Chain(plan) /\ plan \in Seq(Steps)
  BY <1>1, <1>2, <1>3, ShortChains, PlansTyped
<1>5. Len(plan) = 2 /\ plan[1] = a /\ plan[2] = b
  BY <1>3
<1>6. Checked(name, plan, e)
  BY <1>3
<1>7. \A i \in 1 .. Len(plan) : plan[i] \notin {"SysVar", "sysVarHeader", "sysVarRow", "params", "queryHeader", "stmtQueryHeader"}
                                   \/ (plan[i] = "queryHeader" /\ name = "Query")
                                   \/ (plan[i] = "stmtQueryHeader" /\ name = "StmtQuery")
  <2>1. \A i \in 1 .. 2 : i = 1 \/ i = 2
    OBVIOUS
  <2> QED
    BY <1>5, <2>1
<1>8. plan[1] \notin {"row", "binaryRow", "columns", "drainColumns"}
  BY <1>5
<1> QED
  BY <1>4, <1>6, <1>7, <1>8, ShapeCalls

LEMMA ShapeDriverCalls ==
  ASSUME TypesOK, Shape, DriverCalls
  PROVE  Shape'
<1>1. Untouched
  BY DEF DriverCalls, Exec, Query, BeginTx, EndTx, Prepare, StmtExec, StmtQuery, StmtClose, RowsNext, RowsClose
<1>2. dsn' = dsn /\ netConn' = netConn
  BY <1>1 DEF Untouched
<1>3. {"Command", "execHeader", "queryHeader", "Simple", "Prepare", "prepared", "Execute", "stmtHeader",
       "stmtQueryHeader", "StmtClose", "row", "binaryRow", "drainRows"} \subseteq Steps
  BY DEF Steps, Asks, Commands, Reads, Drains
<1>4. CASE Exec
  BY <1>2, <1>4, ShapeAsks DEF Exec, Callable, Free, Callings, MayFollow
<1>5. CASE Query
  BY <1>2, <1>5, ShapeAsks DEF Query, Callable, Free, Callings, MayFollow
<1>6. CASE BeginTx
  BY <1>2, <1>6, ShapeAsks DEF BeginTx, Callable, Free, Callings, MayFollow
<1>7. CASE EndTx
  BY <1>2, <1>7, ShapeAsks DEF EndTx, Callable, Free, Callings, MayFollow
<1>8. CASE Prepare
  BY <1>2, <1>8, ShapeAsks DEF Prepare, Callable, Free, Callings, MayFollow
<1>9. CASE StmtExec
  BY <1>2, <1>9, ShapeAsks DEF StmtExec, Callable, Free, Callings, MayFollow
<1>10. CASE StmtQuery
  BY <1>2, <1>10, ShapeAsks DEF StmtQuery, Callable, Free, Callings, MayFollow
<1>11. CASE StmtClose
  <2>1. PICK plan : plan = <<"StmtClose">>
    OBVIOUS
  <2>2. plan \in Seq(Steps) /\ Chain(plan)
    BY <1>3, <2>1, PlansTyped, ShortChains DEF MayFollow
  <2>3. Len(plan) = 1 /\ plan[1] = "StmtClose"
    BY <2>1
  <2>4. Checked("StmtClose", plan, "bad") /\ ~ rows.open /\ rows' = rows
    BY <1>11, <2>1 DEF StmtClose, Callable, Free
  <2>5. \A i \in 1 .. Len(plan) : plan[i] = "StmtClose"
    <3>1. \A i \in 1 .. 1 : i = 1
      OBVIOUS
    <3> QED
      BY <2>3, <3>1
  <2> QED
    BY <1>2, <2>2, <2>3, <2>4, <2>5, ShapeCalls DEF Callings
<1>12. CASE RowsNext
  <2>1. ~ rows.done /\ rows.open /\ rows' = rows /\ calling' = "RowsNext"
    BY <1>12 DEF RowsNext, Checked, Calls, Shape, RowsInHand
  <2>2. (netConn /\ outcome' = "ok" /\ steps' \in {<<"row">>, <<"binaryRow">>}) \/ (steps' = <<>> /\ outcome' = "invalid")
    BY <1>12 DEF RowsNext, Checked, Calls
  <2>3. CASE netConn /\ outcome' = "ok" /\ steps' \in {<<"row">>, <<"binaryRow">>}
    <3>1. Chain(steps')
      BY <1>3, <2>3, ShortChains DEF MayFollow
    <3>2. Len(steps') = 1 /\ steps'[1] \in {"row", "binaryRow"} /\ steps' # <<>>
      BY <2>3
    <3>3. Planned'
      BY <2>1, <3>1, <3>2 DEF Planned, CalledIn
    <3> QED
      BY <1>2, <2>1, <2>3, <3>2, <3>3 DEF Shape, RowsInHand, RowSteps, At, ClosedIsLeft, NothingWrittenClosed
  <2>4. CASE steps' = <<>> /\ outcome' = "invalid"
    BY <2>1, <2>4, ShortChains DEF Shape, Planned, RowsInHand, At, ClosedIsLeft, NothingWrittenClosed
  <2> QED
    BY <2>2, <2>3, <2>4
<1>13. CASE RowsClose
  <2>1. CASE rows.done \/ ~ netConn
    <3>1. calling' = "RowsClose" /\ steps' = <<>> /\ rows' = NoRows /\ outcome' \in {"ok", "invalid"}
      BY <1>13, <2>1 DEF RowsClose
    <3> QED
      BY <3>1, ShortChains DEF Shape, Planned, RowsInHand, NoRows, At, ClosedIsLeft, NothingWrittenClosed
  <2>2. CASE ~ (rows.done \/ ~ netConn)
    <3>1. calling' = "RowsClose" /\ steps' = <<"drainRows">> /\ outcome' = "ok" /\ UNCHANGED rows /\ rows.open
      BY <1>13, <2>2 DEF RowsClose, Calls
    <3>2. Chain(steps')
      BY <1>3, <3>1, ShortChains DEF MayFollow, Onward
    <3>3. Len(steps') = 1 /\ steps'[1] = "drainRows" /\ steps' # <<>>
      BY <3>1
    <3>4. Planned'
      BY <3>1, <3>2, <3>3 DEF Planned, CalledIn
    <3> QED
      BY <1>2, <2>2, <3>1, <3>3, <3>4 DEF Shape, RowsInHand, RowSteps, At, ClosedIsLeft, NothingWrittenClosed
  <2> QED
    BY <2>1, <2>2
<1> QED
  BY <1>4, <1>5, <1>6, <1>7, <1>8, <1>9, <1>10, <1>11, <1>12, <1>13 DEF DriverCalls

LEMMA ShapeWrites ==
  ASSUME TypesOK, Shape, Writes
  PROVE  Shape'
<1>1. CASE WriteAuth \/ WriteCommand \/ WriteExecute \/ WriteInFile
  <2>1. /\ steps # <<>> /\ steps[1] \in Asks
        /\ Panicked \/ WriteFails \/ Written(steps[1])
        /\ UNCHANGED <<dsn, strict, cut, calling, inTx, odd>>
    BY <1>1, WriteActionIs
  <2>2. steps[1] # "strict" /\ steps[1] \notin RowSteps
    BY <2>1 DEF Asks, Commands, RowSteps
  <2>3. ~ rows.open
    BY <2>1, <2>2 DEF Shape, RowsInHand
  <2>4. CASE Panicked
    BY <2>1, <2>3, <2>4, ShortChains
       DEF Panicked, Shape, Planned, RowsInHand, At, ClosedIsLeft, NothingWrittenClosed, CharsetsTried
  <2>5. CASE WriteFails
    BY <2>1, <2>2, <2>5, ShapeFails DEF WriteFails
  <2>6. CASE Written(steps[1])
    <3>1. GoOn(<<>>) /\ netConn /\ UNCHANGED <<netConn, rows>>
      BY <2>6 DEF Written
    <3> QED
      BY <2>1, <2>3, <3>1, ShapeTail
  <2> QED
    BY <2>1, <2>4, <2>5, <2>6
<1>2. CASE WriteTooLarge
  <2>1. steps # <<>> /\ steps[1] # "strict"
    BY <1>2 DEF WriteTooLarge, Now, TypesOK
  <2> QED
    BY <1>2, <2>1, ShapeFails DEF WriteTooLarge
<1> QED
  BY <1>1, <1>2 DEF Writes

LEMMA ShapeOpens ==
  ASSUME TypesOK, Shape, Open \/ HandleParams \/ SetStrict \/ Close \/ NetworkCut
  PROVE  Shape'
<1>1. CASE Open
  <2>1. steps' = <<"init", "Auth", "authResult", "SysVar", "sysVarHeader", "params">> /\ calling' = "Open" /\ outcome' = "ok"
    BY <1>1 DEF Open, Calls
  <2>2. /\ Len(steps') = 6 /\ steps'[1] = "init" /\ steps'[2] = "Auth" /\ steps'[3] = "authResult"
        /\ steps'[4] = "SysVar" /\ steps'[5] = "sysVarHeader" /\ steps'[6] = "params"
    BY <2>1
  <2>3. \A i \in 1 .. 6 : i \in {1, 2, 3, 4, 5, 6}
    OBVIOUS
  <2>4. Chain(steps')
    <3>1. ASSUME NEW i \in 1 .. 6
          PROVE  MayFollow(steps'[i], IF i < 6 THEN steps'[i + 1] ELSE "end")
      BY <2>2, <2>3 DEF MayFollow, Onward
    <3> QED
      BY <2>2, <3>1 DEF Chain, Then
  <2>5. Planned'
    <3>1. \A i \in 1 .. 6 : CalledIn(steps[i])'
      BY <2>1, <2>2, <2>3 DEF CalledIn
    <3> QED
      BY <2>1, <2>2, <2>4, <3>1 DEF Planned
  <2>6. ~ rows'.open /\ netConn'
    BY <1>1 DEF Open, TypesOK, Unopened
  <2> QED
    BY <2>1, <2>2, <2>5, <2>6 DEF Shape, RowsInHand, At, ClosedIsLeft, NothingWrittenClosed
<1>2. CASE HandleParams
  <2>1. steps # <<>> /\ steps[1] = "params"
    BY <1>2 DEF HandleParams, Now, TypesOK
  <2>2. netConn /\ ~ rows.open
    BY <2>1 DEF Shape, ClosedIsLeft, RowsInHand, RowSteps, TypesOK
  <2>3. PICK plan \in ParamPlans : Calls("Params", plan)
    BY <1>2 DEF HandleParams
  <2>4. steps' = plan /\ calling' = "Params" /\ outcome' = "ok" /\ UNCHANGED <<dsn, netConn, rows>>
    BY <1>2, <2>3 DEF HandleParams, Calls, Untouched
  <2>5. /\ plan \in Seq(Steps) /\ Chain(plan)
        /\ \A i \in 1 .. Len(plan) : plan[i] \in {"Charset", "charsetHeader", "strict"}
        /\ plan # <<>> => plan[1] # "charsetHeader"
        /\ \A i \in 1 .. Len(plan) :
             plan[i] = "Charset" /\ i > (IF plan[1] = "strict" THEN 2 ELSE 1) => dsn.charsets > 1
    BY PlansAre
  <2>6. Planned'
    BY <2>4, <2>5 DEF Planned, CharsetsTried, CalledIn
  <2>7. steps' # <<>> => steps'[1] \in {"Charset", "charsetHeader", "strict"}
    BY <2>4, <2>5
  <2> QED
    BY <2>2, <2>4, <2>6, <2>7 DEF Shape, RowsInHand, At, ClosedIsLeft, NothingWrittenClosed
<1>3. CASE SetStrict
  <2>1. steps # <<>> /\ steps[1] = "strict"
    BY <1>3 DEF SetStrict, Now, TypesOK
  <2>2. netConn /\ ~ rows.open
    BY <2>1 DEF Shape, ClosedIsLeft, RowsInHand, RowSteps, TypesOK
  <2> QED
    BY <1>3, <2>1, <2>2, ShapeTail DEF SetStrict
<1>4. CASE Close
  BY <1>4, ShortChains
     DEF Close, Shape, Planned, RowsInHand, At, ClosedIsLeft, NothingWrittenClosed
<1>5. CASE NetworkCut
  BY <1>5 DEF NetworkCut, Shape, Planned, CharsetsTried, CalledIn, RowsInHand, At, ClosedIsLeft, NothingWrittenClosed
<1> QED
  BY <1>1, <1>2, <1>3, <1>4, <1>5

\* A read of any other step than those of rows finds no open rows.
LEMMA ReadsWith ==
  ASSUME TypesOK, Shape, NEW kinds, ReadPacket(kinds), kinds \subseteq Reads
  PROVE  /\ steps # <<>> /\ Head(steps) = steps[1] /\ steps[1] \in kinds /\ steps[1] # "strict"
         /\ Takes /\ netConn /\ UNCHANGED <<dsn, strict, cut, calling>>
         /\ steps[1] \notin RowSteps => ~ rows.open
         /\ rows.open => Len(steps) = 1 /\ ~ rows.done
<1>1. steps # <<>> /\ Head(steps) = steps[1] /\ steps[1] \in kinds /\ Takes
  BY ReadIs
<1>2. netConn
  BY <1>1 DEF Shape, ClosedIsLeft, Reads, Drains
<1>3. UNCHANGED <<dsn, strict, cut, calling>>
  BY DEF ReadPacket
<1>4. steps[1] # "strict"
  BY <1>1 DEF Reads, Drains
<1> QED
  BY <1>1, <1>2, <1>3, <1>4 DEF Shape, RowsInHand

\* What is asked for next.
LEMMA MoreFits ==
  /\ \A a \in {"OldPassword", "ClearPassword"} :
       <<a, "authResult2">> \in Seq(Steps) /\ (steps # <<>> /\ Then(steps, 1) \in Onward => Fits(<<a, "authResult2">>))
  /\ \A b \in {"inFileResult", "inFileEnd"} :
       <<"InFileData", b>> \in Seq(Steps) /\ (steps # <<>> /\ Then(steps, 1) \in Onward => Fits(<<"InFileData", b>>))
  /\ <<"Warnings", "warningsHeader">> \in Seq(Steps)
  /\ Then(steps, 1) \in Onward => Fits(<<"Warnings", "warningsHeader">>)
<1>1. ASSUME NEW a \in Steps, NEW b \in Steps, MayFollow(a, b), MayFollow(b, Then(steps, 1)),
             a \notin {"Charset", "row", "binaryRow"}, b \notin {"Charset", "row", "binaryRow"}, CalledIn(a), CalledIn(b)
      PROVE  Fits(<<a, b>>)
  <2>1. PICK more : more = <<a, b>>
    OBVIOUS
  <2>2. Len(more) = 2 /\ more[1] = a /\ more[2] = b
    BY <2>1
  <2>3. \A i \in 1 .. 2 : i = 1 \/ i = 2
    OBVIOUS
  <2>4. Fits(more)
    BY <1>1, <2>2, <2>3 DEF Fits
  <2> QED
    BY <2>1, <2>4
<1>2. {"OldPassword", "ClearPassword", "authResult2", "InFileData", "inFileResult", "inFileEnd", "Warnings", "warningsHeader"}
        \subseteq Steps
  BY DEF Steps, Asks, Commands, Reads
<1>3. ASSUME NEW a \in {"OldPassword", "ClearPassword"}, Then(steps, 1) \in Onward
      PROVE  Fits(<<a, "authResult2">>)
  BY <1>1, <1>2, <1>3 DEF MayFollow, CalledIn
<1>4. ASSUME NEW b \in {"inFileResult", "inFileEnd"}, Then(steps, 1) \in Onward
      PROVE  Fits(<<"InFileData", b>>)
  BY <1>1, <1>2, <1>4 DEF MayFollow, CalledIn
<1>5. ASSUME Then(steps, 1) \in Onward
      PROVE  Fits(<<"Warnings", "warningsHeader">>)
  BY <1>1, <1>2, <1>5 DEF MayFollow, CalledIn
<1> QED
  BY <1>2, <1>3, <1>4, <1>5, PlansTyped

\* What follows the step that is read.
LEMMA FirstIsFollowed ==
  ASSUME TypesOK, Shape, steps # <<>>
  PROVE  MayFollow(steps[1], Then(steps, 1)) /\ steps[1] \in Steps /\ CalledIn(steps[1])
<1>1. 1 \in 1 .. Len(steps)
  BY DEF TypesOK
<1> QED
  BY <1>1 DEF Shape, Planned, Chain, TypesOK

\* OK is not all: the warnings are asked for.
LEMMA ShapeHandleOk ==
  ASSUME TypesOK, Shape, steps # <<>>, NEW p, HandleOk(p), Then(steps, 1) \in Onward,
         steps[1] # "strict" \/ ~ Warned(p),
         netConn, ~ rows.open, UNCHANGED <<dsn, calling, netConn, rows>>
  PROVE  Shape'
<1>1. CASE ~ Warned(p)
  BY <1>1, ShapeTail DEF HandleOk
<1>2. CASE Warned(p)
  <2>1. PICK more : more = <<"Warnings", "warningsHeader">>
    OBVIOUS
  <2>2. more \in Seq(Steps) /\ Fits(more) /\ GoOn(more) /\ Len(more) = 2
    BY <1>2, <2>1, MoreFits DEF HandleOk
  <2>3. Len(more) = 1 => more[1] \notin {"columns", "drainColumns"}
    BY <2>2
  <2>4. steps[1] = "strict" => more = <<>>
    BY <1>2
  <2> QED
    BY <2>2, <2>3, <2>4, ShapeGoesOn
<1> QED
  BY <1>1, <1>2

\* The last step of a call goes on with the new ones alone.
LEMMA LastGoesOn ==
  ASSUME NEW more \in Seq(Steps), steps \in Seq(Steps), Len(steps) = 1, GoOn(more)
  PROVE  steps' = more /\ outcome' = "ok"
<1>1. Tail(steps) = <<>>
  <2>1. steps # <<>>
    <3>1. ASSUME steps = <<>>
          PROVE  Len(steps) # 1
      BY <3>1
    <3> QED
      BY <3>1
  <2>2. PICK t \in Seq(Steps) : t = Tail(steps) /\ Len(t) = Len(steps) - 1
    BY <2>1, TailOf
  <2>3. Len(t) = 0
    BY <2>2
  <2>4. t = <<>>
    BY <2>3
  <2> QED
    BY <2>2, <2>4
<1>2. steps' = more \o <<>> /\ outcome' = "ok"
  BY <1>1 DEF GoOn
<1>3. more \o <<>> = more
  OBVIOUS
<1> QED
  BY <1>2, <1>3

LEMMA ShapeReadHeader ==
  ASSUME TypesOK, Shape, ReadHeader
  PROVE  Shape'
<1>1. PICK p \in PacketType : p = Head(packets)
  <2>1. ReadPacket({Head(steps)})
    BY DEF ReadHeader
  <2> QED
    BY <2>1, ReadIs DEF Takes
<1>2. PICK s : s = Head(steps)
  OBVIOUS
<1>3. ReadPacket({s}) /\ s \in Headers
  BY <1>2 DEF ReadHeader, Now, Headers
<1>4. {s} \subseteq Reads /\ s \notin RowSteps
  BY <1>3 DEF Reads, Headers, RowSteps
<1>5. /\ steps # <<>> /\ Head(steps) = steps[1] /\ steps[1] = s /\ steps[1] # "strict"
      /\ netConn /\ UNCHANGED <<dsn, strict, cut, calling>> /\ ~ rows.open
  BY <1>3, <1>4, ReadsWith
<1>6. MayFollow(s, Then(steps, 1)) /\ s \in Steps /\ CalledIn(s)
  BY <1>5, FirstIsFollowed
<1>7. Then(steps, 1) \in Onward
  BY <1>3, <1>6 DEF MayFollow, Headers, Onward
<1>8. CASE p.is = "ERR"
  BY <1>1, <1>5, <1>8, ShapeFails DEF ReadHeader
<1>9. CASE p.is = "InFile"
  <2>1. PICK end \in {"inFileResult", "inFileEnd"} : GoOn(<<"InFileData", end>>)
    BY <1>1, <1>9 DEF ReadHeader
  <2>2. UNCHANGED <<netConn, rows>>
    BY <1>1, <1>9 DEF ReadHeader
  <2>3. PICK more : more = <<"InFileData", end>>
    OBVIOUS
  <2>4. more \in Seq(Steps) /\ Fits(more) /\ GoOn(more)
    <3>1. <<"InFileData", end>> \in Seq(Steps) /\ Fits(<<"InFileData", end>>)
      BY <1>5, <1>7, MoreFits, Zenon
    <3> QED
      BY <2>1, <2>3, <3>1, Zenon
  <2>5. Len(more) = 1 => more[1] \notin {"columns", "drainColumns"}
    <3>1. Len(more) = 2
      BY <2>3
    <3> QED
      BY <3>1
  <2> QED
    BY <1>5, <2>2, <2>4, <2>5, ShapeGoesOn
<1>10. CASE p.is = "Header"
  <2>1. GoOn(AfterHeader(s)) /\ OpensRows(p) /\ UNCHANGED netConn
    BY <1>1, <1>2, <1>10 DEF ReadHeader
  <2>2. CASE s \in {"queryHeader", "stmtQueryHeader"}
    <3>1. Len(steps) = 1
      BY <1>5, <2>2, LastStep
    <3>2. PICK a \in {"columns", "drainColumns"} : AfterHeader(s) = <<a>>
      BY <2>2 DEF AfterHeader
    <3>3. PICK more : more = <<a>>
      OBVIOUS
    <3>4. more \in Seq(Steps) /\ Len(more) = 1 /\ more[1] = a
      BY <3>3, PlansTyped DEF Steps, Reads, Drains
    <3>5. steps' = more /\ outcome' = "ok"
      <4>1. GoOn(more)
        BY <2>1, <3>2, <3>3
      <4> QED
        BY <3>1, <3>4, <4>1, LastGoesOn DEF TypesOK
    <3>6. rows'.open /\ ~ rows'.done
      BY <1>2, <2>1, <2>2 DEF OpensRows
    <3>7. calling \in {"Query", "StmtQuery"}
      BY <1>6, <2>2 DEF CalledIn
    <3>8. steps' # <<>> /\ Len(steps') = 1 /\ steps'[1] = a
      BY <3>4, <3>5
    <3>9. Planned'
      <4>1. MayFollow(a, "end") /\ a \in Steps
        BY DEF MayFollow, Steps, Reads, Drains
      <4>2. Chain(more)
        BY <3>3, <4>1, ShortChains
      <4> QED
        BY <1>5, <3>5, <3>7, <3>8, <4>2 DEF Planned, CalledIn
    <3>10. RowsInHand'
      BY <1>5, <3>5, <3>6, <3>7, <3>8 DEF RowsInHand, At, RowSteps
    <3> QED
      BY <1>5, <2>1, <3>5, <3>9, <3>10 DEF Shape, ClosedIsLeft, NothingWrittenClosed
  <2>3. CASE s \notin {"queryHeader", "stmtQueryHeader"}
    <3>1. UNCHANGED rows
      BY <1>2, <2>1, <2>3 DEF OpensRows
    <3>2. PICK more : more = AfterHeader(s)
      OBVIOUS
    <3>3. more \in Seq(Steps)
      BY <1>3, <3>2, PlansTyped DEF AfterHeader, Headers, Steps, Reads, Drains
    <3>4. Fits(more) /\ Len(more) # 1
      <4>1. CASE s = "sysVarHeader"
        <5>1. Len(more) = 3 /\ more[1] = "drainColumns" /\ more[2] = "sysVarRow" /\ more[3] = "drainRows"
          BY <3>2, <4>1 DEF AfterHeader
        <5>2. \A i \in 1 .. 3 : i \in {1, 2, 3}
          OBVIOUS
        <5> QED
          BY <1>6, <1>7, <4>1, <5>1, <5>2 DEF Fits, MayFollow, CalledIn
      <4>2. CASE s \in {"charsetHeader", "execHeader", "stmtHeader"}
        <5>1. Len(more) = 2 /\ more[1] = "drainColumns" /\ more[2] = "drainRows"
          BY <3>2, <4>2 DEF AfterHeader
        <5>2. \A i \in 1 .. 2 : i \in {1, 2}
          OBVIOUS
        <5> QED
          BY <1>7, <5>1, <5>2 DEF Fits, MayFollow, CalledIn
      <4>3. CASE s = "warningsHeader"
        <5>1. Len(more) = 2 /\ more[1] = "columns" /\ more[2] = "warningRow"
          BY <3>2, <4>3 DEF AfterHeader
        <5>2. \A i \in 1 .. 2 : i \in {1, 2}
          OBVIOUS
        <5> QED
          BY <1>7, <5>1, <5>2 DEF Fits, MayFollow, CalledIn
      <4> QED
        BY <1>3, <2>3, <4>1, <4>2, <4>3 DEF Headers
    <3> QED
      BY <1>5, <2>1, <3>1, <3>2, <3>3, <3>4, ShapeGoesOn
  <2> QED
    BY <2>2, <2>3
<1>11. CASE p.is = "OK"
  <2>1. CASE s = "charsetHeader" /\ ~ Warned(p)
    <3>1. steps' = OtherParams /\ outcome' = "ok" /\ UNCHANGED <<rows, netConn>>
      BY <1>1, <1>2, <1>11, <2>1 DEF ReadHeader
    <3>2. Chain(steps')
      <4>1. "strict" \in Steps /\ MayFollow("strict", "end")
        BY DEF Steps, MayFollow, Onward
      <4> QED
        BY <3>1, <4>1, ShortChains DEF OtherParams
    <3>3. steps' = <<>> \/ (Len(steps') = 1 /\ steps'[1] = "strict")
      BY <3>1 DEF OtherParams
    <3>4. Planned'
      BY <3>2, <3>3 DEF Planned, CharsetsTried, CalledIn
    <3>5. calling # "RowsClose"
      BY <1>5 DEF Shape, RowsInHand
    <3>6. RowsInHand'
      BY <1>5, <3>1, <3>3, <3>5 DEF RowsInHand, At
    <3> QED
      BY <1>5, <3>1, <3>4, <3>6 DEF Shape, ClosedIsLeft, NothingWrittenClosed
  <2>2. CASE ~ (s = "charsetHeader" /\ ~ Warned(p)) /\ ~ (s = "stmtQueryHeader" /\ ~ Warned(p))
    <3>1. HandleOk(p) /\ UNCHANGED <<rows, netConn>>
      BY <1>1, <1>2, <1>11, <2>2 DEF ReadHeader
    <3> QED
      BY <1>5, <1>7, <3>1, ShapeHandleOk
  <2>3. CASE s = "stmtQueryHeader" /\ ~ Warned(p)
    <3>1. GoOn(<<>>) /\ OpensRows(p) /\ UNCHANGED netConn
      BY <1>1, <1>2, <1>11, <2>3 DEF ReadHeader, HandleOk
    <3>2. Len(steps) = 1
      BY <1>5, <2>3, LastStep
    <3>3. steps' = <<>> /\ outcome' = "ok"
      BY <3>1, <3>2, PlansTyped, LastGoesOn DEF TypesOK
    <3>4. rows'.open /\ ~ rows'.done
      BY <1>2, <2>3, <3>1 DEF OpensRows
    <3>5. calling = "StmtQuery"
      BY <1>6, <2>3 DEF CalledIn
    <3>6. Planned'
      BY <3>3, ShortChains DEF Planned, CharsetsTried
    <3> QED
      BY <1>5, <3>1, <3>3, <3>4, <3>5, <3>6 DEF Shape, RowsInHand, At, ClosedIsLeft, NothingWrittenClosed
  <2> QED
    BY <2>1, <2>2, <2>3
<1>12. CASE p.is \notin {"ERR", "InFile", "Header", "OK"}
  <2>1. PICK e \in {"outOfRange", "malformed"} : FailsWith(e)
    BY <1>1, <1>12 DEF ReadHeader
  <2> QED
    BY <1>5, <2>1, ShapeFails
<1> QED
  BY <1>8, <1>9, <1>10, <1>11, <1>12

LEMMA ShapeReceives ==
  ASSUME TypesOK, Shape, Receives
  PROVE  Shape'
<1>1. CASE ReadInit
  <2>1. /\ steps # <<>> /\ steps[1] \in {"init"} /\ steps[1] # "strict" /\ netConn
        /\ UNCHANGED <<dsn, strict, cut, calling>> /\ ~ rows.open
    BY <1>1, ReadsWith DEF ReadInit, Reads, RowSteps
  <2> QED
    BY <1>1, <2>1, ShapeTail, ShapeFails DEF ReadInit
<1>2. CASE ReadAuthResult
  <2>1. /\ steps # <<>> /\ steps[1] \in {"authResult", "authResult2"} /\ steps[1] # "strict" /\ netConn
        /\ UNCHANGED <<dsn, strict, cut, calling>> /\ ~ rows.open
    BY <1>2, ReadsWith DEF ReadAuthResult, Reads, RowSteps
  <2>2. Then(steps, 1) \in Onward
    BY <2>1, FirstIsFollowed DEF MayFollow
  <2>3. CASE FailsWith("refused")
    BY <2>1, <2>3, ShapeFails
  <2>4. CASE ~ FailsWith("refused")
    <3>1. UNCHANGED <<netConn, rows, stmt>>
      BY <1>2, <2>4 DEF ReadAuthResult
    <3>2. HandleOk(Head(packets)) \/ \E a \in {"OldPassword", "ClearPassword"} : GoOn(<<a, "authResult2">>)
      BY <1>2, <2>4 DEF ReadAuthResult
    <3>3. CASE HandleOk(Head(packets))
      BY <2>1, <2>2, <3>1, <3>3, ShapeHandleOk
    <3>4. CASE \E a \in {"OldPassword", "ClearPassword"} : GoOn(<<a, "authResult2">>)
      <4>1. PICK a \in {"OldPassword", "ClearPassword"} : GoOn(<<a, "authResult2">>)
        BY <3>4
      <4>2. PICK more : more = <<a, "authResult2">>
        OBVIOUS
      <4>3. <<a, "authResult2">> \in Seq(Steps) /\ Fits(<<a, "authResult2">>)
        BY <2>1, <2>2, MoreFits, Zenon
      <4>4. Len(more) = 2
        BY <4>2
      <4>5. more \in Seq(Steps) /\ Fits(more) /\ GoOn(more)
        BY <4>1, <4>2, <4>3, Zenon
      <4>6. Len(more) = 1 => more[1] \notin {"columns", "drainColumns"}
        BY <4>4
      <4> QED
        BY <2>1, <3>1, <4>5, <4>6, ShapeGoesOn
    <3> QED
      BY <3>2, <3>3, <3>4
  <2> QED
    BY <2>3, <2>4
<1>3. CASE ReadHeader
  BY <1>3, ShapeReadHeader
<1>4. CASE ReadColumns
  <2>1. /\ steps # <<>> /\ steps[1] \in {"columns"} /\ netConn
        /\ UNCHANGED <<dsn, strict, cut, calling>> /\ (rows.open => Len(steps) = 1 /\ ~ rows.done)
    BY <1>4, ReadsWith DEF ReadColumns, Reads
  <2>2. UNCHANGED <<netConn, rows>>
    BY <1>4 DEF ReadColumns
  <2>3. CASE UNCHANGED <<steps, outcome, stmt>>
    BY <2>1, <2>2, <2>3
       DEF Shape, Planned, CharsetsTried, CalledIn, RowsInHand, At, ClosedIsLeft, NothingWrittenClosed
  <2>4. CASE GoOn(<<>>) /\ ~ rows.open
    BY <2>1, <2>2, <2>4, ShapeTail
  <2>5. CASE GoOn(<<>>) /\ rows.open
    <3>1. steps' = <<>> /\ outcome' = "ok"
      BY <2>1, <2>5, PlansTyped, LastGoesOn DEF TypesOK
    <3>2. Planned'
      BY <3>1, ShortChains DEF Planned, CharsetsTried
    <3> QED
      BY <2>1, <2>2, <2>5, <3>1, <3>2 DEF Shape, RowsInHand, At, ClosedIsLeft, NothingWrittenClosed
  <2> QED
    BY <1>4, <2>3, <2>4, <2>5 DEF ReadColumns
<1>5. CASE ReadUntilEOF
  <2>1. /\ steps # <<>> /\ steps[1] \in Drains /\ netConn
        /\ UNCHANGED <<dsn, strict, cut, calling>> /\ (rows.open => Len(steps) = 1 /\ ~ rows.done)
    BY <1>5, ReadsWith DEF ReadUntilEOF, Reads
  <2>2. UNCHANGED netConn
    BY <1>5 DEF ReadUntilEOF
  <2>3. CASE UNCHANGED <<steps, outcome, rows>>
    BY <2>1, <2>2, <2>3
       DEF Shape, Planned, CharsetsTried, CalledIn, RowsInHand, At, ClosedIsLeft, NothingWrittenClosed
  <2>4. CASE GoOn(<<>>) /\ rows' = (IF calling = "RowsClose" THEN NoRows ELSE rows) /\ ~ rows.open
    <3>1. calling # "RowsClose"
      BY <2>1, <2>4 DEF Shape, RowsInHand
    <3> QED
      BY <2>1, <2>2, <2>4, <3>1, ShapeTail
  <2>5. CASE GoOn(<<>>) /\ rows' = (IF calling = "RowsClose" THEN NoRows ELSE rows) /\ rows.open
    <3>1. steps' = <<>> /\ outcome' = "ok"
      BY <2>1, <2>5, PlansTyped, LastGoesOn DEF TypesOK
    <3>2. Planned'
      BY <3>1, ShortChains DEF Planned, CharsetsTried
    <3> QED
      BY <2>1, <2>2, <2>5, <3>1, <3>2 DEF Shape, RowsInHand, NoRows, At, ClosedIsLeft, NothingWrittenClosed
  <2> QED
    BY <1>5, <2>3, <2>4, <2>5 DEF ReadUntilEOF
<1>6. CASE ReadSysVar
  <2>1. /\ steps # <<>> /\ steps[1] \in {"sysVarRow"} /\ steps[1] # "strict" /\ netConn
        /\ UNCHANGED <<dsn, strict, cut, calling>> /\ ~ rows.open
    BY <1>6, ReadsWith DEF ReadSysVar, Reads, RowSteps
  <2> QED
    BY <1>6, <2>1, ShapeTail, ShapeFails DEF ReadSysVar
<1>7. CASE ReadWarning
  <2>1. /\ steps # <<>> /\ steps[1] \in {"warningRow"} /\ steps[1] # "strict" /\ netConn
        /\ UNCHANGED <<dsn, strict, cut, calling>> /\ ~ rows.open
    BY <1>7, ReadsWith DEF ReadWarning, Reads, RowSteps
  <2>2. (\E e \in {"warnings", "mysql"} : FailsWith(e)) \/ UNCHANGED <<netConn, steps, outcome, rows, stmt>>
    BY <1>7 DEF ReadWarning
  <2>3. CASE \E e \in {"warnings", "mysql"} : FailsWith(e)
    BY <2>1, <2>3, ShapeFails
  <2>4. CASE UNCHANGED <<netConn, steps, outcome, rows, stmt>>
    BY <2>1, <2>4
       DEF Shape, Planned, CharsetsTried, CalledIn, RowsInHand, At, ClosedIsLeft, NothingWrittenClosed
  <2> QED
    BY <2>2, <2>3, <2>4
<1>8. CASE ReadTextRow \/ ReadBinaryRow
  <2>1. PICK kinds : ReadPacket(kinds) /\ kinds \in {{"row"}, {"binaryRow"}}
    BY <1>8 DEF ReadTextRow, ReadBinaryRow
  <2>2. /\ steps # <<>> /\ steps[1] \in {"row", "binaryRow"} /\ netConn
        /\ UNCHANGED <<dsn, strict, cut, calling>>
    BY <2>1, ReadsWith DEF Reads
  <2>3. PICK kind, e : RowRead(kind, e) /\ e # "panic" /\ (e = "ok" => kind \notin {"EOF", "ERR"})
    <3>1. CASE ReadTextRow
      BY <3>1 DEF ReadTextRow
    <3>2. CASE ReadBinaryRow
      BY <3>2 DEF ReadBinaryRow
    <3> QED
      BY <1>8, <3>1, <3>2
  <2>4. rows.open /\ calling \in {"Query", "StmtQuery", "RowsNext", "RowsClose"}
    BY <2>2 DEF Shape, RowsInHand, At
  <2>5. steps' = <<>> /\ outcome' = e /\ UNCHANGED netConn
    BY <2>3 DEF RowRead
  <2>6. rows'.open /\ (e = "ok" => ~ rows'.done)
    BY <2>3, <2>4 DEF RowRead, TypesOK, RowsType
  <2>7. Planned'
    BY <2>5, ShortChains DEF Planned, CharsetsTried
  <2> QED
    BY <2>2, <2>3, <2>4, <2>5, <2>6, <2>7 DEF Shape, RowsInHand, At, ClosedIsLeft, NothingWrittenClosed
<1>9. CASE ReadPrepared
  <2>1. /\ steps # <<>> /\ steps[1] \in {"prepared"} /\ steps[1] # "strict" /\ netConn
        /\ UNCHANGED <<dsn, strict, cut, calling>> /\ ~ rows.open
    BY <1>9, ReadsWith DEF ReadPrepared, Reads, RowSteps
  <2>2. Then(steps, 1) = "end"
    BY <2>1, FirstIsFollowed DEF MayFollow
  <2>3. PICK p : p = Head(packets)
    OBVIOUS
  <2>4. CASE p.is # "Prepared"
    <3>1. PICK e \in {"mysql", "malformed"} : FailsWith(e)
      BY <1>9, <2>3, <2>4 DEF ReadPrepared
    <3> QED
      BY <2>1, <3>1, ShapeFails
  <2>5. CASE p.is = "Prepared" /\ Warned(p)
    <3>1. HandleOk(p) /\ UNCHANGED <<rows, netConn>>
      BY <1>9, <2>3, <2>5 DEF ReadPrepared
    <3>2. Then(steps, 1) \in Onward
      BY <2>2 DEF Onward
    <3> QED
      BY <2>1, <3>1, <3>2, ShapeHandleOk
  <2>6. CASE p.is = "Prepared" /\ ~ Warned(p)
    <3>1. PICK n : n = Cardinality(p.info \cap {"params", "columns"})
      OBVIOUS
    <3>2. PICK more : more = [i \in 1 .. n |-> "drainDefinitions"]
      OBVIOUS
    <3>3. GoOn(more) /\ UNCHANGED <<rows, netConn>>
      BY <1>9, <2>3, <2>6, <3>1, <3>2 DEF ReadPrepared
    <3>4. n \in Nat
      <4>1. IsFiniteSet({"params"} \cup {"columns"})
        <5>1. IsFiniteSet({"params"})
          BY FS_Singleton
        <5> QED
          BY <5>1, FS_AddElement
      <4>2. PICK D : D = p.info \cap {"params", "columns"}
        OBVIOUS
      <4>3. D \subseteq {"params"} \cup {"columns"}
        BY <4>2
      <4> QED
        BY <3>1, <4>1, <4>2, <4>3, FS_Subset, FS_CardinalityType
    <3>5. more \in Seq(Steps) /\ Len(more) = n /\ \A i \in 1 .. n : more[i] = "drainDefinitions"
      <4>1. "drainDefinitions" \in Steps
        BY DEF Steps, Reads, Drains
      <4> QED
        BY <3>2, <3>4, <4>1
    <3>6. Fits(more)
      BY <2>2, <3>4, <3>5 DEF Fits, MayFollow, CalledIn
    <3>7. Len(more) = 1 => more[1] \notin {"columns", "drainColumns"}
      BY <3>5
    <3> QED
      BY <2>1, <3>3, <3>5, <3>6, <3>7, ShapeGoesOn
  <2> QED
    BY <2>4, <2>5, <2>6
<1>10. CASE ReadInFileEnd
  <2>1. /\ steps # <<>> /\ steps[1] \in {"inFileResult", "inFileEnd"} /\ steps[1] # "strict" /\ netConn
        /\ UNCHANGED <<dsn, strict, cut, calling>> /\ ~ rows.open
    BY <1>10, ReadsWith DEF ReadInFileEnd, Reads, RowSteps
  <2>2. Then(steps, 1) \in Onward
    BY <2>1, FirstIsFollowed DEF MayFollow
  <2>3. CASE \E e \in {"local", "mysql"} : FailsWith(e)
    BY <2>1, <2>3, ShapeFails
  <2>4. CASE ~ \E e \in {"local", "mysql"} : FailsWith(e)
    <3>1. HandleOk(Head(packets)) /\ UNCHANGED <<rows, netConn>>
      BY <1>10, <2>4 DEF ReadInFileEnd
    <3> QED
      BY <2>1, <2>2, <3>1, ShapeHandleOk
  <2> QED
    BY <2>3, <2>4
<1>11. CASE ReadFails
  <2>1. steps # <<>> /\ steps[1] # "strict"
    BY <1>11 DEF ReadFails, Now, Reads, Drains, TypesOK
  <2>2. \E e \in {"bad", "sync", "local"} : FailsWith(e)
    BY <1>11 DEF ReadFails
  <2>3. UNCHANGED <<dsn, calling>>
    BY <1>11 DEF ReadFails
  <2> QED
    BY <2>1, <2>2, <2>3, ShapeFails
<1> QED
  BY <1>1, <1>2, <1>3, <1>4, <1>5, <1>6, <1>7, <1>8, <1>9, <1>10, <1>11 DEF Receives

\* Every step keeps the shape of the call.
LEMMA ShapeStep ==
  ASSUME TypesOK, Shape, [MysqlNext]_mysqlVars
  PROVE  Shape'
<1>1. CASE UNCHANGED mysqlVars
  BY <1>1 DEF mysqlVars, Shape, Planned, CharsetsTried, CalledIn, RowsInHand, At, ClosedIsLeft, NothingWrittenClosed
<1>2. CASE MysqlNext
  BY <1>2, ShapeDriverCalls, ShapeWrites, ShapeOpens, ShapeReceives DEF MysqlNext
<1> QED
  BY <1>1, <1>2

LEMMA CallsHaveShape == MysqlSpec => []Shape
<1>1. MysqlInit => Shape
  BY ShapeInit
<1>2. TypesOK /\ Shape /\ [MysqlNext]_mysqlVars => Shape'
  BY ShapeStep
<1> QED
  BY <1>1, <1>2, MysqlTypes, PTL DEF MysqlSpec

\* connection.go, packets.go: the driver writes nothing on a connection that it
\* has closed itself, but for the second charset of handleParams.
THEOREM NothingIsWrittenClosed == MysqlSpec => []NothingWrittenClosed
<1>1. Shape => NothingWrittenClosed
  BY DEF Shape
<1> QED
  BY <1>1, CallsHaveShape, PTL

-----------------------------------------------------------------------------
(* What is in transit: the phases of a reply.                              *)

\* Each step looks ahead to what it reads.
AheadCases ==
  /\ steps # <<>> =>
       /\ steps[1] \in Asks \cup {"params", "strict"} /\ packets = <<>> => Ahead
       /\ steps[1] = "init" /\ OneOf({"ERR", "Init", "OldInit"}) => Ahead
       /\ steps[1] \in {"authResult", "authResult2"} /\ OneOf({"ERR", "OK", "OldAuth", "ClearAuth", "OtherAuth"}) => Ahead
       /\ steps[1] \in {"inFileResult", "inFileEnd"} /\ OneOf({"ERR", "OK"}) => Ahead
       /\ steps[1] \in Headers /\ (OneOf({"ERR", "OK", "InFile"}) \/ ResultFrom(0)) => Ahead
       /\ steps[1] \in {"columns", "drainColumns"} /\ (ResultFrom(1) \/ ResultFrom(2)) => Ahead
       /\ steps[1] \in {"sysVarRow", "warningRow", "row", "binaryRow", "drainRows"} /\ ResultFrom(3) => Ahead
       /\ steps[1] = "prepared" /\ PreparedAhead => Ahead
       /\ /\ steps[1] = "drainDefinitions"
          /\ DefinitionsFrom(0, 0, Len(steps)) \/ DefinitionsFrom(0, 1, Len(steps))
          => Ahead
  /\ steps = <<>> /\ rows.open /\ ~ rows.done /\ ResultFrom(3) => Ahead
  /\ steps = <<>> /\ ~ (rows.open /\ ~ rows.done) /\ packets = <<>> => Ahead
  /\ packets = <<>> => Counted

LEMMA AheadIs == AheadCases
<1>1. ASSUME steps = <<>>
      PROVE  /\ rows.open /\ ~ rows.done /\ ResultFrom(3) => Ahead
             /\ ~ (rows.open /\ ~ rows.done) /\ packets = <<>> => Ahead
  BY <1>1 DEF Ahead, At
<1>2. ASSUME steps # <<>>, steps[1] \in Asks \cup {"params", "strict"}, packets = <<>>
      PROVE  Ahead
  BY <1>2 DEF Ahead, At, Asks, Commands, Headers
<1>3. ASSUME steps # <<>>, steps[1] = "init", OneOf({"ERR", "Init", "OldInit"})
      PROVE  Ahead
  BY <1>3 DEF Ahead, At, Asks, Commands, Headers
<1>4. ASSUME steps # <<>>, steps[1] \in {"authResult", "authResult2"},
             OneOf({"ERR", "OK", "OldAuth", "ClearAuth", "OtherAuth"})
      PROVE  Ahead
  BY <1>4 DEF Ahead, At, Asks, Commands, Headers
<1>5. ASSUME steps # <<>>, steps[1] \in {"inFileResult", "inFileEnd"}, OneOf({"ERR", "OK"})
      PROVE  Ahead
  BY <1>5 DEF Ahead, At, Asks, Commands, Headers
<1>6. ASSUME steps # <<>>, steps[1] \in Headers, OneOf({"ERR", "OK", "InFile"}) \/ ResultFrom(0)
      PROVE  Ahead
  BY <1>6 DEF Ahead, At, Asks, Commands, Headers
<1>7. ASSUME steps # <<>>, steps[1] \in {"columns", "drainColumns"}, ResultFrom(1) \/ ResultFrom(2)
      PROVE  Ahead
  BY <1>7 DEF Ahead, At, Asks, Commands, Headers
<1>8. ASSUME steps # <<>>, steps[1] \in {"sysVarRow", "warningRow", "row", "binaryRow", "drainRows"}, ResultFrom(3)
      PROVE  Ahead
  BY <1>8 DEF Ahead, At, Asks, Commands, Headers
<1>9. ASSUME steps # <<>>, steps[1] = "prepared", PreparedAhead
      PROVE  Ahead
  BY <1>9 DEF Ahead, At, Asks, Commands, Headers
<1>10. ASSUME steps # <<>>, steps[1] = "drainDefinitions",
              DefinitionsFrom(0, 0, Len(steps)) \/ DefinitionsFrom(0, 1, Len(steps))
       PROVE  Ahead
  BY <1>10 DEF Ahead, At, Asks, Commands, Headers
<1>11. packets = <<>> => Counted
  BY DEF Counted, NumberedOn
<1> QED
  BY <1>1, <1>2, <1>3, <1>4, <1>5, <1>6, <1>7, <1>8, <1>9, <1>10, <1>11 DEF AheadCases

LEMMA AheadNext == AheadCases'
BY AheadIs, PTL

\* Nothing is in transit when the network is broken, and nothing left of it.
LEMMA CutAhead ==
  ASSUME steps' \in Seq(Steps), cut', packets' = <<>>
  PROVE  Counted' /\ Ahead'
<1>1. Len(packets') = 0
  OBVIOUS
<1>2. \A i \in 1 .. Len(packets') : FALSE
  BY <1>1
<1>3. \A kinds : OneOf(kinds)'
  BY <1>1, <1>2 DEF OneOf
<1>4. \A k : ResultFrom(k)'
  BY <1>2 DEF ResultFrom
<1>5. DefinitionsFrom(0, 0, Len(steps))'
  <2>1. PICK n \in Nat : n = Len(steps')
    OBVIOUS
  <2> QED
    BY <1>1, <1>2, <2>1 DEF DefinitionsFrom
<1>6. PreparedAhead'
  BY DEF PreparedAhead
<1>7. Counted'
  BY AheadNext DEF AheadCases
<1>8. Ahead'
  BY <1>3, <1>4, <1>5, <1>6 DEF Ahead
<1> QED
  BY <1>7, <1>8

\* A call that failed on its last packet.
LEMMA FailsAhead ==
  ASSUME TypesOK, Shape, steps # <<>>, steps[1] # "strict", ~ rows.open, NEW e, FailsWith(e), packets' = <<>>,
         UNCHANGED <<dsn, calling>>
  PROVE  Counted' /\ Ahead'
<1>1. Retries \/ EndsWith(e)
  BY FailsIs DEF TypesOK
<1>2. CASE Retries
  <2>1. steps' # <<>> /\ steps'[1] = "Charset"
    BY <1>2, PlanRetries DEF TypesOK, Shape
  <2>2. steps'[1] \in Asks
    BY <2>1 DEF Asks, Commands
  <2> QED
    BY <2>1, <2>2, AheadNext DEF AheadCases
<1>3. CASE EndsWith(e)
  <2>1. steps' = <<>> /\ ~ rows'.open
    BY <1>3 DEF EndsWith, NoRows
  <2> QED
    BY <2>1, AheadNext DEF AheadCases
<1> QED
  BY <1>1, <1>2, <1>3

\* The step that comes next.
LEMMA TailIs ==
  ASSUME TypesOK, steps # <<>>, GoOn(<<>>)
  PROVE  /\ steps' \in Seq(Steps) /\ Len(steps') = Len(steps) - 1
         /\ Then(steps, 1) = "end" => steps' = <<>> /\ Len(steps) = 1
         /\ Then(steps, 1) # "end" => steps' # <<>> /\ steps'[1] = Then(steps, 1)
         /\ outcome' = "ok"
<1>1. PICK t : t = Tail(steps)
  OBVIOUS
<1>2. t \in Seq(Steps) /\ Len(t) = Len(steps) - 1 /\ \A i \in 1 .. Len(steps) - 1 : t[i] = steps[i + 1]
  BY <1>1, TailOf DEF TypesOK
<1>3. <<>> \o t = t
  BY <1>2
<1>4. steps' = t /\ outcome' = "ok"
  BY <1>1, <1>3 DEF GoOn
<1>5. PICK m \in Nat \ {0} : m = Len(steps)
  BY TailOf DEF TypesOK
<1>6. CASE m = 1
  <2>1. Len(t) = 0
    BY <1>2, <1>5, <1>6
  <2>2. t = <<>>
    BY <1>2, <2>1
  <2>3. Then(steps, 1) = "end"
    BY <1>5, <1>6 DEF Then
  <2> QED
    BY <1>2, <1>4, <1>5, <1>6, <2>2, <2>3
<1>7. CASE m > 1
  <2>1. 1 \in 1 .. m - 1 /\ 2 \in 1 .. m
    BY <1>7
  <2>2. t[1] = steps[2] /\ steps[2] \in Steps
    BY <1>2, <1>5, <2>1 DEF TypesOK
  <2>3. Then(steps, 1) = steps[2]
    BY <1>5, <1>7 DEF Then
  <2>4. t # <<>>
    <3>1. Len(t) # 0
      BY <1>2, <1>5, <1>7
    <3> QED
      BY <3>1
  <2> QED
    BY <1>2, <1>4, <2>2, <2>3, <2>4, EndIsNoStep
<1> QED
  BY <1>5, <1>6, <1>7

\* A reply that is read to its end: the call writes again, or ends.
LEMMA TailAhead ==
  ASSUME TypesOK, steps # <<>>, GoOn(<<>>), Then(steps, 1) \in Asks \cup Onward, ~ rows'.open, packets' = <<>>
  PROVE  Counted' /\ Ahead'
<1>1. CASE Then(steps, 1) = "end"
  BY <1>1, TailIs, AheadNext DEF AheadCases
<1>2. CASE Then(steps, 1) # "end"
  <2>1. steps' # <<>> /\ steps'[1] \in Asks \cup {"params", "strict"}
    BY <1>2, TailIs DEF Onward, Asks, Commands
  <2> QED
    BY <2>1, AheadNext DEF AheadCases
<1> QED
  BY <1>1, <1>2

\* More is asked for.
LEMMA AsksAhead ==
  ASSUME TypesOK, steps # <<>>, NEW a \in Asks, NEW b, <<a, b>> \in Seq(Steps), GoOn(<<a, b>>), packets' = <<>>
  PROVE  Counted' /\ Ahead'
<1>1. PICK more : more = <<a, b>>
  OBVIOUS
<1>2. more \in Seq(Steps) /\ GoOn(more)
  BY <1>1
<1>3. Len(more) = 2 /\ more[1] = a
  BY <1>1
<1>4. /\ steps' \in Seq(Steps)
      /\ Len(steps') = Len(more) + Len(steps) - 1
      /\ \A i \in 1 .. Len(more) : steps'[i] = more[i]
  BY <1>2, GoOnIs DEF TypesOK
<1>5. steps'[1] \in Asks
  BY <1>3, <1>4
<1>6. steps' # <<>>
  <2>1. PICK m \in Nat \ {0} : m = Len(steps)
    BY TailOf DEF TypesOK
  <2>2. Len(steps') # 0
    BY <1>3, <1>4, <2>1
  <2> QED
    BY <2>2
<1> QED
  BY <1>5, <1>6, AheadNext DEF AheadCases

LEMMA OkAhead ==
  ASSUME TypesOK, steps # <<>>, NEW p, HandleOk(p), Then(steps, 1) \in Onward, ~ rows'.open, packets' = <<>>
  PROVE  Counted' /\ Ahead'
<1>1. CASE ~ Warned(p)
  BY <1>1, TailAhead DEF HandleOk
<1>2. CASE Warned(p)
  <2>1. "Warnings" \in Asks /\ <<"Warnings", "warningsHeader">> \in Seq(Steps)
    BY MoreFits DEF Asks, Commands
  <2> QED
    BY <1>2, <2>1, AsksAhead DEF HandleOk
<1> QED
  BY <1>1, <1>2

\* The one packet of a reply.
LEMMA OneTaken ==
  ASSUME TypesOK, Takes, NEW kinds, OneOf(kinds)
  PROVE  packets' = <<>> /\ packets[1].is \in kinds
<1>1. PICK n \in Nat \ {0} : n = Len(packets)
  BY TailOf DEF Takes, TypesOK
<1>2. n = 1
  BY <1>1 DEF OneOf
<1>3. packets[1].is \in kinds
  BY <1>1, <1>2 DEF OneOf
<1>4. Len(packets') = 0 /\ packets' \in Seq(PacketType)
  BY <1>1, <1>2 DEF Takes
<1> QED
  BY <1>3, <1>4

\* The next packet of a result, before its rows.
LEMMA ResultShift ==
  ASSUME TypesOK, Takes, cut' = cut, NEW k \in 0 .. 2, ResultFrom(k)
  PROVE  /\ k = 0 => packets[1].is = "Header"
         /\ k = 1 => packets[1].is = "Column"
         /\ k = 2 => packets[1].is = "EOF"
         /\ ResultFrom(k + 1)'
<1>1. PICK n \in Nat \ {0} : n = Len(packets)
  BY TailOf DEF Takes, TypesOK
<1>2. Len(packets') = n - 1 /\ \A i \in 1 .. n - 1 : packets'[i] = packets[i + 1]
  BY <1>1 DEF Takes
<1>3. 1 \in 1 .. n
  OBVIOUS
<1>4. /\ k = 0 => packets[1].is = "Header"
      /\ k = 1 => packets[1].is = "Column"
      /\ k = 2 => packets[1].is = "EOF"
  BY <1>1, <1>3 DEF ResultFrom
<1>5. ASSUME NEW i \in 1 .. n - 1
      PROVE  /\ i + (k + 1) = 2 => packets'[i].is = "Column"
             /\ i + (k + 1) = 3 => packets'[i].is = "EOF"
             /\ i + (k + 1) > 3 /\ i < n - 1 => packets'[i].is \in RowKinds
             /\ i + (k + 1) > 3 /\ i = n - 1 => packets'[i].is \in (IF cut THEN RowKinds ELSE {}) \cup Ends
             /\ i + (k + 1) # 1
  <2>1. PICK j \in 1 .. n : j = i + 1
    OBVIOUS
  <2>2. packets'[i] = packets[j]
    BY <1>2, <2>1
  <2>3. /\ j + k = 2 => packets[j].is = "Column"
        /\ j + k = 3 => packets[j].is = "EOF"
        /\ j + k > 3 /\ j < n => packets[j].is \in RowKinds
        /\ j + k > 3 /\ j = n => packets[j].is \in (IF cut THEN RowKinds ELSE {}) \cup Ends
    BY <1>1 DEF ResultFrom
  <2> QED
    BY <2>1, <2>2, <2>3
<1>6. ~ cut => (n - 1) + (k + 1) > 3
  BY <1>1 DEF ResultFrom
<1>7. ResultFrom(k + 1)'
  BY <1>2, <1>5, <1>6 DEF ResultFrom
<1> QED
  BY <1>4, <1>7

\* The next row of a result, or its end.
LEMMA RowShift ==
  ASSUME TypesOK, Takes, cut' = cut, ResultFrom(3)
  PROVE  /\ packets[1].is \in RowKinds => ResultFrom(3)'
         /\ packets[1].is \in Ends => packets' = <<>>
         /\ packets[1].is \in RowKinds \cup Ends
<1>1. PICK n \in Nat \ {0} : n = Len(packets)
  BY TailOf DEF Takes, TypesOK
<1>2. Len(packets') = n - 1 /\ \A i \in 1 .. n - 1 : packets'[i] = packets[i + 1]
  BY <1>1 DEF Takes
<1>3. \A i \in 1 .. n : /\ i < n => packets[i].is \in RowKinds
                        /\ i = n => packets[i].is \in (IF cut THEN RowKinds ELSE {}) \cup Ends
  BY <1>1 DEF ResultFrom
<1>4. 1 \in 1 .. n
  OBVIOUS
<1>5. ASSUME packets[1].is \in RowKinds
      PROVE  ResultFrom(3)'
  <2>1. ~ cut => n > 1
    BY <1>3, <1>4, <1>5 DEF RowKinds, Ends
  <2>2. ASSUME NEW i \in 1 .. n - 1
        PROVE  /\ i < n - 1 => packets'[i].is \in RowKinds
               /\ i = n - 1 => packets'[i].is \in (IF cut THEN RowKinds ELSE {}) \cup Ends
    <3>1. PICK j \in 1 .. n : j = i + 1
      OBVIOUS
    <3> QED
      BY <1>2, <1>3, <3>1
  <2> QED
    BY <1>2, <2>1, <2>2 DEF ResultFrom
<1>6. ASSUME packets[1].is \in Ends
      PROVE  packets' = <<>>
  <2>1. n = 1
    BY <1>3, <1>4, <1>6 DEF RowKinds, Ends
  <2>2. Len(packets') = 0 /\ packets' \in Seq(PacketType)
    BY <1>2, <2>1 DEF Takes
  <2> QED
    BY <2>2
<1>7. packets[1].is \in RowKinds \cup Ends
  BY <1>3, <1>4
<1> QED
  BY <1>5, <1>6, <1>7

\* The next definition that was asked for, or its end.
LEMMA DefinitionShift ==
  ASSUME TypesOK, Takes, cut' = cut, NEW n \in Nat
  PROVE  /\ DefinitionsFrom(0, 0, n) => packets[1].is = "Column" /\ DefinitionsFrom(0, 1, n)'
         /\ DefinitionsFrom(0, 1, n) => packets[1].is = "EOF" /\ DefinitionsFrom(0, 0, n - 1)'
         /\ DefinitionsFrom(1, 0, n) => DefinitionsFrom(0, 0, n)'
<1>1. PICK m \in Nat \ {0} : m = Len(packets)
  BY TailOf DEF Takes, TypesOK
<1>2. Len(packets') = m - 1 /\ \A i \in 1 .. m - 1 : packets'[i] = packets[i + 1]
  BY <1>1 DEF Takes
<1>3. ASSUME NEW i \in 1 .. m - 1
      PROVE  i + 1 \in 1 .. m /\ packets'[i] = packets[i + 1]
  BY <1>2
<1>4. 1 \in 1 .. m /\ \A i \in 1 .. m - 1 : i + 1 > 1
  OBVIOUS
<1>5. ASSUME DefinitionsFrom(0, 0, n)
      PROVE  packets[1].is = "Column" /\ DefinitionsFrom(0, 1, n)'
  <2>1. /\ m <= 2 * n /\ (~ cut => m = 2 * n)
        /\ \A i \in 1 .. m : packets[i].is = IF i % 2 = 1 THEN "Column" ELSE "EOF"
    BY <1>1, <1>5 DEF DefinitionsFrom
  <2>2. packets[1].is = "Column"
    BY <1>4, <2>1
  <2>3. \A i \in 1 .. m - 1 : packets'[i].is = IF (i + 1) % 2 = 1 THEN "Column" ELSE "EOF"
    BY <1>3, <2>1
  <2> QED
    BY <1>2, <2>1, <2>2, <2>3 DEF DefinitionsFrom
<1>6. ASSUME DefinitionsFrom(0, 1, n)
      PROVE  packets[1].is = "EOF" /\ DefinitionsFrom(0, 0, n - 1)'
  <2>1. /\ m <= 2 * n - 1 /\ (~ cut => m = 2 * n - 1)
        /\ \A i \in 1 .. m : packets[i].is = IF (i + 1) % 2 = 1 THEN "Column" ELSE "EOF"
    BY <1>1, <1>6 DEF DefinitionsFrom
  <2>2. packets[1].is = "EOF"
    BY <1>4, <2>1
  <2>3. ASSUME NEW i \in 1 .. m - 1
        PROVE  packets'[i].is = IF i % 2 = 1 THEN "Column" ELSE "EOF"
    <3>1. ((i + 1) + 1) % 2 = i % 2
      OBVIOUS
    <3>2. packets[i + 1].is = IF ((i + 1) + 1) % 2 = 1 THEN "Column" ELSE "EOF"
      BY <1>3, <2>1
    <3> QED
      BY <1>3, <3>1, <3>2
  <2> QED
    BY <1>2, <2>1, <2>2, <2>3 DEF DefinitionsFrom
<1>7. ASSUME DefinitionsFrom(1, 0, n)
      PROVE  DefinitionsFrom(0, 0, n)'
  <2>1. /\ m <= 1 + 2 * n /\ (~ cut => m = 1 + 2 * n)
        /\ \A i \in 1 .. m : i > 1 => packets[i].is = IF (i - 1) % 2 = 1 THEN "Column" ELSE "EOF"
    BY <1>1, <1>7 DEF DefinitionsFrom
  <2>2. ASSUME NEW i \in 1 .. m - 1
        PROVE  packets'[i].is = IF i % 2 = 1 THEN "Column" ELSE "EOF"
    <3>1. (i + 1) - 1 = i
      OBVIOUS
    <3>2. packets[i + 1].is = IF ((i + 1) - 1) % 2 = 1 THEN "Column" ELSE "EOF"
      BY <1>3, <1>4, <2>1
    <3> QED
      BY <1>3, <3>1, <3>2
  <2> QED
    BY <1>2, <2>1, <2>2 DEF DefinitionsFrom
<1> QED
  BY <1>5, <1>6, <1>7

-----------------------------------------------------------------------------
(* Driver and server stay in step, action by action.                       *)

LEMMA AheadReadInit ==
  ASSUME TypesOK, Shape, Ahead, ReadInit, netConn'
  PROVE  Counted' /\ Ahead'
<1>1. /\ steps # <<>> /\ steps[1] = "init" /\ ~ rows.open /\ Takes
      /\ UNCHANGED <<dsn, strict, cut, calling>>
  BY ReadsWith DEF ReadInit, Reads, RowSteps
<1>2. packets' = <<>>
  BY <1>1, OneTaken DEF Ahead, At
<1>3. GoOn(<<>>) /\ UNCHANGED rows
  BY DEF ReadInit
<1>4. Then(steps, 1) \in Asks
  BY <1>1, FirstIsFollowed DEF MayFollow, Asks
<1> QED
  BY <1>1, <1>2, <1>3, <1>4, TailAhead

LEMMA AheadReadAuthResult ==
  ASSUME TypesOK, Shape, Ahead, ReadAuthResult, netConn'
  PROVE  Counted' /\ Ahead'
<1>1. /\ steps # <<>> /\ steps[1] \in {"authResult", "authResult2"} /\ ~ rows.open /\ Takes
      /\ UNCHANGED <<dsn, strict, cut, calling>>
  BY ReadsWith DEF ReadAuthResult, Reads, RowSteps
<1>2. packets' = <<>>
  BY <1>1, OneTaken DEF Ahead, At
<1>3. Then(steps, 1) \in Onward
  BY <1>1, FirstIsFollowed DEF MayFollow
<1>4. UNCHANGED rows
  BY DEF ReadAuthResult
<1>5. HandleOk(Head(packets)) \/ \E a \in {"OldPassword", "ClearPassword"} : GoOn(<<a, "authResult2">>)
  BY DEF ReadAuthResult
<1>6. CASE HandleOk(Head(packets))
  BY <1>1, <1>2, <1>3, <1>4, <1>6, OkAhead
<1>7. ASSUME NEW a \in {"OldPassword", "ClearPassword"}, GoOn(<<a, "authResult2">>)
      PROVE  Counted' /\ Ahead'
  <2>1. a \in Asks /\ <<a, "authResult2">> \in Seq(Steps)
    BY MoreFits DEF Asks
  <2> QED
    BY <1>1, <1>2, <1>7, <2>1, AsksAhead
<1> QED
  BY <1>5, <1>6, <1>7

LEMMA AheadReadInFileEnd ==
  ASSUME TypesOK, Shape, Ahead, ReadInFileEnd
  PROVE  Counted' /\ Ahead'
<1>1. /\ steps # <<>> /\ steps[1] \in {"inFileResult", "inFileEnd"} /\ steps[1] # "strict" /\ ~ rows.open /\ Takes
      /\ UNCHANGED <<dsn, strict, cut, calling>>
  BY ReadsWith DEF ReadInFileEnd, Reads, RowSteps
<1>2. packets' = <<>>
  BY <1>1, OneTaken DEF Ahead, At
<1>3. Then(steps, 1) \in Onward
  BY <1>1, FirstIsFollowed DEF MayFollow
<1>4. (HandleOk(Head(packets)) /\ UNCHANGED rows) \/ FailsWith("local") \/ FailsWith("mysql")
  BY DEF ReadInFileEnd
<1>5. CASE HandleOk(Head(packets)) /\ UNCHANGED rows
  BY <1>1, <1>2, <1>3, <1>5, OkAhead
<1>6. CASE FailsWith("local") \/ FailsWith("mysql")
  BY <1>1, <1>2, <1>6, FailsAhead
<1> QED
  BY <1>4, <1>5, <1>6

\* readColumns and the drains of columns: the column, then its end.
LEMMA AheadColumns ==
  ASSUME TypesOK, Shape, Ahead, Takes, cut' = cut, steps # <<>>, steps[1] \in {"columns", "drainColumns"},
         IF packets[1].is = "EOF" THEN GoOn(<<>>) ELSE UNCHANGED steps, UNCHANGED rows
  PROVE  Ahead'
<1>1. ResultFrom(1) \/ ResultFrom(2)
  BY DEF Ahead, At
<1>2. CASE ResultFrom(1)
  <2>1. packets[1].is = "Column" /\ ResultFrom(1 + 1)'
    BY <1>2, ResultShift
  <2>2. UNCHANGED steps /\ ResultFrom(2)'
    BY <2>1
  <2> QED
    BY <2>2, AheadNext DEF AheadCases
<1>3. CASE ResultFrom(2)
  <2>1. packets[1].is = "EOF" /\ ResultFrom(2 + 1)'
    BY <1>3, ResultShift
  <2>2. GoOn(<<>>) /\ ResultFrom(3)'
    BY <2>1
  <2>3. Then(steps, 1) \in {"warningRow", "sysVarRow", "drainRows", "end"}
    BY FirstIsFollowed DEF MayFollow
  <2>4. CASE Then(steps, 1) = "end"
    <3>1. steps' = <<>> /\ Len(steps) = 1
      BY <2>2, <2>4, TailIs
    <3>2. rows.open /\ ~ rows.done
      BY <3>1 DEF Shape, RowsInHand, At, RowSteps
    <3> QED
      BY <2>2, <3>1, <3>2, AheadNext DEF AheadCases
  <2>5. CASE Then(steps, 1) # "end"
    <3>1. steps' # <<>> /\ steps'[1] \in {"warningRow", "sysVarRow", "drainRows"}
      BY <2>2, <2>3, <2>5, TailIs
    <3> QED
      BY <2>2, <3>1, AheadNext DEF AheadCases
  <2> QED
    BY <2>4, <2>5
<1> QED
  BY <1>1, <1>2, <1>3

LEMMA AheadDrainRows ==
  ASSUME TypesOK, Shape, Ahead, Takes, cut' = cut, steps # <<>>, steps[1] = "drainRows",
         packets[1].is \notin {"ERR", "Huge"},
         IF packets[1].is = "EOF" THEN GoOn(<<>>) /\ rows' = IF calling = "RowsClose" THEN NoRows ELSE rows
                                  ELSE UNCHANGED steps
  PROVE  Ahead'
<1>1. ResultFrom(3)
  BY DEF Ahead, At
<1>2. CASE packets[1].is = "EOF"
  <2>1. packets' = <<>>
    BY <1>1, <1>2, RowShift DEF Ends
  <2>2. ~ rows'.open
    BY <1>2 DEF Shape, RowsInHand, At, NoRows
  <2>3. Then(steps, 1) \in Onward
    BY FirstIsFollowed DEF MayFollow
  <2> QED
    BY <1>2, <2>1, <2>2, <2>3, TailAhead
<1>3. CASE packets[1].is # "EOF"
  <2>1. packets[1].is \in RowKinds
    BY <1>1, <1>3, RowShift DEF Ends
  <2>2. ResultFrom(3)' /\ UNCHANGED steps
    BY <1>1, <1>3, <2>1, RowShift
  <2> QED
    BY <2>2, AheadNext DEF AheadCases
<1> QED
  BY <1>2, <1>3

LEMMA AheadDefinitions ==
  ASSUME TypesOK, Shape, Ahead, Takes, cut' = cut, steps # <<>>, steps[1] = "drainDefinitions", ~ rows'.open,
         IF packets[1].is = "EOF" THEN GoOn(<<>>) ELSE UNCHANGED steps
  PROVE  Ahead'
<1>1. PICK n \in Nat \ {0} : n = Len(steps)
  BY TailOf DEF TypesOK
<1>2. DefinitionsFrom(0, 0, n) \/ DefinitionsFrom(0, 1, n)
  BY <1>1 DEF Ahead, At
<1>3. CASE DefinitionsFrom(0, 0, n)
  <2>1. packets[1].is = "Column" /\ DefinitionsFrom(0, 1, n)'
    BY <1>3, DefinitionShift
  <2>2. UNCHANGED steps
    BY <2>1
  <2>3. DefinitionsFrom(0, 1, Len(steps))'
    BY <1>1, <2>1, <2>2 DEF DefinitionsFrom
  <2> QED
    BY <2>2, <2>3, AheadNext DEF AheadCases
<1>4. CASE DefinitionsFrom(0, 1, n)
  <2>1. packets[1].is = "EOF" /\ DefinitionsFrom(0, 0, n - 1)'
    BY <1>4, DefinitionShift
  <2>2. GoOn(<<>>)
    BY <2>1
  <2>3. Then(steps, 1) \in {"drainDefinitions", "end"}
    BY FirstIsFollowed DEF MayFollow
  <2>4. CASE Then(steps, 1) = "end"
    <3>1. steps' = <<>> /\ n - 1 = 0
      BY <1>1, <2>2, <2>4, TailIs
    <3>2. Len(packets') <= 0
      BY <2>1, <3>1 DEF DefinitionsFrom
    <3>3. packets' = <<>>
      BY <3>2 DEF Takes
    <3> QED
      BY <3>1, <3>3, AheadNext DEF AheadCases
  <2>5. CASE Then(steps, 1) # "end"
    <3>1. steps' # <<>> /\ steps'[1] = "drainDefinitions" /\ Len(steps') = n - 1
      BY <1>1, <2>2, <2>3, <2>5, TailIs
    <3>2. DefinitionsFrom(0, 0, Len(steps))'
      BY <2>1, <3>1 DEF DefinitionsFrom
    <3> QED
      BY <3>1, <3>2, AheadNext DEF AheadCases
  <2> QED
    BY <2>4, <2>5
<1> QED
  BY <1>2, <1>3, <1>4

LEMMA AheadReadColumns ==
  ASSUME TypesOK, Shape, Ahead, ReadColumns
  PROVE  Ahead'
<1>1. steps # <<>> /\ steps[1] = "columns" /\ Takes /\ UNCHANGED <<dsn, strict, cut, calling>>
  BY ReadsWith DEF ReadColumns, Reads
<1>2. (IF packets[1].is = "EOF" THEN GoOn(<<>>) ELSE UNCHANGED steps) /\ UNCHANGED rows
  BY <1>1 DEF ReadColumns, Takes
<1> QED
  BY <1>1, <1>2, AheadColumns

LEMMA AheadReadUntilEOF ==
  ASSUME TypesOK, Shape, Ahead, ReadUntilEOF, odd' = {}
  PROVE  Ahead'
<1>1. /\ steps # <<>> /\ steps[1] \in Drains /\ Takes /\ UNCHANGED <<dsn, strict, cut, calling>>
      /\ steps[1] \notin RowSteps => ~ rows.open
  BY ReadsWith DEF ReadUntilEOF, Reads
<1>2. packets[1].is \notin {"ERR", "Huge"}
  BY <1>1 DEF ReadUntilEOF, Takes
<1>3. /\ packets[1].is = "EOF" => GoOn(<<>>) /\ rows' = IF calling = "RowsClose" THEN NoRows ELSE rows
      /\ packets[1].is # "EOF" => UNCHANGED <<steps, rows>>
  BY <1>1, <1>2 DEF ReadUntilEOF, Takes
<1>4. CASE steps[1] = "drainColumns"
  <2>1. calling # "RowsClose"
    BY <1>1, <1>4 DEF Shape, RowsInHand, At
  <2> QED
    BY <1>1, <1>3, <1>4, <2>1, AheadColumns
<1>5. CASE steps[1] = "drainRows"
  BY <1>1, <1>2, <1>3, <1>5, AheadDrainRows
<1>6. CASE steps[1] = "drainDefinitions"
  <2>1. ~ rows'.open
    BY <1>1, <1>3, <1>6 DEF RowSteps, NoRows
  <2> QED
    BY <1>1, <1>3, <1>6, <2>1, AheadDefinitions
<1> QED
  BY <1>1, <1>4, <1>5, <1>6 DEF Drains

LEMMA AheadReadSysVar ==
  ASSUME TypesOK, Shape, Ahead, ReadSysVar, netConn'
  PROVE  Ahead'
<1>1. /\ steps # <<>> /\ steps[1] = "sysVarRow" /\ Takes /\ UNCHANGED <<dsn, strict, cut, calling>>
  BY ReadsWith DEF ReadSysVar, Reads
<1>2. calling = "Open"
  BY <1>1, FirstIsFollowed DEF CalledIn
<1>3. packets[1].is = "Row" /\ GoOn(<<>>)
  <2>1. NextCharset = 0 /\ Opening
    BY <1>2 DEF NextCharset, Opening
  <2> QED
    BY <1>1, <2>1 DEF ReadSysVar, OpenCloses, Takes
<1>4. ResultFrom(3)'
  <2>1. ResultFrom(3)
    BY <1>1 DEF Ahead, At
  <2> QED
    BY <1>1, <1>3, <2>1, RowShift DEF RowKinds
<1>5. Then(steps, 1) = "drainRows"
  BY <1>1, FirstIsFollowed DEF MayFollow
<1>6. steps' # <<>> /\ steps'[1] = "drainRows"
  BY <1>1, <1>3, <1>5, TailIs
<1> QED
  BY <1>4, <1>6, AheadNext DEF AheadCases

LEMMA AheadReadWarning ==
  ASSUME TypesOK, Shape, Ahead, ReadWarning
  PROVE  Ahead'
<1>1. /\ steps # <<>> /\ steps[1] = "warningRow" /\ steps[1] # "strict" /\ Takes
      /\ UNCHANGED <<dsn, strict, cut, calling>> /\ ~ rows.open
  BY ReadsWith DEF ReadWarning, Reads, RowSteps
<1>2. ResultFrom(3)
  BY <1>1 DEF Ahead, At
<1>3. CASE packets[1].is \in Ends
  <2>1. packets' = <<>>
    BY <1>1, <1>2, <1>3, RowShift
  <2>2. FailsWith("warnings") \/ FailsWith("mysql")
    BY <1>1, <1>3 DEF ReadWarning, Takes, Ends
  <2> QED
    BY <1>1, <2>1, <2>2, FailsAhead
<1>4. CASE packets[1].is \notin Ends
  <2>1. packets[1].is \in RowKinds
    BY <1>1, <1>2, <1>4, RowShift
  <2>2. ResultFrom(3)' /\ UNCHANGED steps
    BY <1>1, <1>2, <1>4, <2>1, RowShift DEF ReadWarning, Takes, Ends
  <2> QED
    BY <1>1, <2>2, AheadNext DEF AheadCases
<1> QED
  BY <1>3, <1>4

\* Next of the rows, text or binary.
LEMMA AheadRows ==
  ASSUME TypesOK, Shape, Ahead, ReadTextRow \/ ReadBinaryRow
  PROVE  Ahead'
<1>1. /\ steps # <<>> /\ steps[1] \in {"row", "binaryRow"} /\ Takes
      /\ UNCHANGED <<dsn, strict, cut, calling>>
  BY ReadsWith DEF ReadTextRow, ReadBinaryRow, Reads
<1>2. rows.open
  BY <1>1 DEF Shape, RowsInHand, At
<1>3. ResultFrom(3)
  BY <1>1 DEF Ahead, At
<1>4. steps' = <<>> /\ rows'.open /\ rows'.done = (packets[1].is \in Ends)
  BY <1>1, <1>2, ZenonT(60) DEF ReadTextRow, ReadBinaryRow, RowRead, Takes, TypesOK, RowsType, Ends
<1>5. CASE packets[1].is \in Ends
  BY <1>1, <1>3, <1>4, <1>5, RowShift, AheadNext DEF AheadCases
<1>6. CASE packets[1].is \notin Ends
  <2>1. ResultFrom(3)'
    BY <1>1, <1>3, <1>6, RowShift
  <2> QED
    BY <1>4, <1>6, <2>1, AheadNext DEF AheadCases
<1> QED
  BY <1>5, <1>6

LEMMA AskedIs ==
  ASSUME NEW p
  PROVE  Asked(p) \in Nat /\ (Asked(p) = 0 => p.info \cap {"params", "columns"} = {})
<1>1. IsFiniteSet({"params"} \cup {"columns"})
  <2>1. IsFiniteSet({"params"})
    BY FS_Singleton
  <2> QED
    BY <2>1, FS_AddElement
<1>2. PICK D : D = p.info \cap {"params", "columns"}
  OBVIOUS
<1>3. D \subseteq {"params"} \cup {"columns"}
  BY <1>2
<1>4. IsFiniteSet(D)
  BY <1>1, <1>3, FS_Subset
<1>5. Cardinality(D) \in Nat /\ (Cardinality(D) = 0 <=> D = {})
  BY <1>4, FS_CardinalityType, FS_EmptySet
<1>6. Asked(p) = Cardinality(D)
  BY <1>2 DEF Asked
<1> QED
  BY <1>2, <1>5, <1>6

LEMMA AheadReadPrepared ==
  ASSUME TypesOK, Shape, Ahead, ReadPrepared, odd' = {}
  PROVE  Ahead'
<1>1. /\ steps # <<>> /\ steps[1] = "prepared" /\ steps[1] # "strict" /\ Takes
      /\ UNCHANGED <<dsn, strict, cut, calling>> /\ ~ rows.open
  BY ReadsWith DEF ReadPrepared, Reads, RowSteps
<1>2. Then(steps, 1) = "end" /\ Len(steps) = 1
  BY <1>1, FirstIsFollowed, LastStep DEF MayFollow
<1>3. PICK p : p = packets[1] /\ p = Head(packets)
  BY <1>1 DEF Takes
<1>4. OneOf({"ERR"}) \/ (p.is = "Prepared" /\ DefinitionsFrom(1, 0, Asked(p)))
  BY <1>1, <1>3 DEF Ahead, At, PreparedAhead, Asked, Takes
<1>5. CASE OneOf({"ERR"})
  <2>1. packets' = <<>> /\ p.is = "ERR"
    BY <1>1, <1>3, <1>5, OneTaken
  <2>2. FailsWith("mysql")
    BY <1>3, <2>1 DEF ReadPrepared
  <2> QED
    BY <1>1, <2>1, <2>2, FailsAhead
<1>6. CASE p.is = "Prepared" /\ DefinitionsFrom(1, 0, Asked(p))
  <2>1. PICK n \in Nat : n = Asked(p)
    BY AskedIs
  <2>2. DefinitionsFrom(0, 0, n)'
    BY <1>1, <1>6, <2>1, DefinitionShift
  <2>3. n = 0 => packets' = <<>>
    <3> SUFFICES ASSUME n = 0 PROVE packets' = <<>>
      OBVIOUS
    <3>1. Len(packets') <= 0
      BY <2>2 DEF DefinitionsFrom
    <3> QED
      BY <1>1, <3>1 DEF Takes
  <2>4. CASE Warned(p)
    <3>1. HandleOk(p) /\ UNCHANGED rows /\ odd' = odd \cup {"warned" : x \in p.info \cap {"params", "columns"}}
      BY <1>3, <1>6, <2>4 DEF ReadPrepared
    <3>2. n = 0
      <4>1. PICK D : D = p.info \cap {"params", "columns"}
        OBVIOUS
      <4>2. D = {}
        BY <3>1, <4>1
      <4>3. n = Cardinality({})
        BY <2>1, <4>1, <4>2 DEF Asked
      <4> QED
        BY <4>3, FS_EmptySet
    <3>3. Then(steps, 1) \in Onward
      BY <1>2 DEF Onward
    <3> QED
      BY <1>1, <2>3, <3>1, <3>2, <3>3, OkAhead
  <2>5. CASE ~ Warned(p)
    <3>1. PICK more : more = [i \in 1 .. n |-> "drainDefinitions"]
      OBVIOUS
    <3>2. GoOn(more) /\ UNCHANGED rows
      BY <1>3, <1>6, <2>1, <2>5, <3>1 DEF ReadPrepared, Asked
    <3>3. more \in Seq(Steps) /\ Len(more) = n /\ \A i \in 1 .. n : more[i] = "drainDefinitions"
      <4>1. "drainDefinitions" \in Steps
        BY DEF Steps, Reads, Drains
      <4> QED
        BY <3>1, <4>1
    <3>4. steps' = more
      BY <1>2, <3>2, <3>3, LastGoesOn DEF TypesOK
    <3>5. CASE n = 0
      <4>1. steps' = <<>>
        BY <3>3, <3>4, <3>5
      <4> QED
        BY <1>1, <2>3, <3>2, <3>5, <4>1, AheadNext DEF AheadCases
    <3>6. CASE n # 0
      <4>1. 1 \in 1 .. n
        BY <3>6
      <4>2. steps' # <<>> /\ steps'[1] = "drainDefinitions" /\ Len(steps') = n
        BY <3>3, <3>4, <4>1
      <4>3. DefinitionsFrom(0, 0, Len(steps))'
        BY <2>2, <4>2 DEF DefinitionsFrom
      <4>4. Ahead'
        BY <4>2, <4>3, AheadNext DEF AheadCases
      <4> QED
        BY <4>4
    <3> QED
      BY <3>5, <3>6
  <2> QED
    BY <2>4, <2>5
<1> QED
  BY <1>4, <1>5, <1>6

LEMMA AheadReadHeader ==
  ASSUME TypesOK, Shape, Ahead, ReadHeader, odd' = {}
  PROVE  Ahead'
<1>1. PICK s : s = Head(steps)
  OBVIOUS
<1>2. ReadPacket({s}) /\ s \in Headers
  BY <1>1 DEF ReadHeader, Now, Headers
<1>3. {s} \subseteq Reads /\ s \notin RowSteps
  BY <1>2 DEF Reads, Headers, RowSteps
<1>4. /\ steps # <<>> /\ steps[1] = s /\ steps[1] # "strict" /\ Takes
      /\ UNCHANGED <<dsn, strict, cut, calling>> /\ ~ rows.open
  BY <1>2, <1>3, ReadsWith
<1>5. PICK p : p = packets[1] /\ p = Head(packets)
  BY <1>4 DEF Takes
<1>6. Then(steps, 1) \in Onward
  BY <1>2, <1>4, FirstIsFollowed DEF MayFollow, Headers, Onward
<1>7. OneOf({"ERR", "OK", "InFile"}) \/ ResultFrom(0)
  BY <1>2, <1>4 DEF Ahead, At
<1>8. CASE ResultFrom(0)
  <2>1. p.is = "Header" /\ ResultFrom(0 + 1)'
    BY <1>4, <1>5, <1>8, ResultShift
  <2>2. ResultFrom(1)'
    BY <2>1
  <2>3. GoOn(AfterHeader(s))
    BY <1>1, <1>5, <2>1 DEF ReadHeader
  <2>4. PICK more : more = AfterHeader(s)
    OBVIOUS
  <2>5. more \in Seq(Steps)
    BY <1>2, <2>4, PlansTyped DEF AfterHeader, Headers, Steps, Reads, Drains
  <2>6. Len(more) \in {1, 2, 3} /\ more[1] \in {"columns", "drainColumns"}
    <3>1. CASE s = "sysVarHeader"
      BY <2>4, <3>1 DEF AfterHeader
    <3>2. CASE s \in {"charsetHeader", "execHeader", "stmtHeader"}
      BY <2>4, <3>2 DEF AfterHeader
    <3>3. CASE s = "queryHeader"
      BY <2>4, <3>3 DEF AfterHeader
    <3>4. CASE s = "stmtQueryHeader"
      BY <2>4, <3>4 DEF AfterHeader
    <3>5. CASE s = "warningsHeader"
      BY <2>4, <3>5 DEF AfterHeader
    <3> QED
      BY <1>2, <3>1, <3>2, <3>3, <3>4, <3>5 DEF Headers
  <2>7. GoOn(more)
    BY <2>3, <2>4
  <2>8. /\ steps' \in Seq(Steps)
        /\ Len(steps') = Len(more) + Len(steps) - 1
        /\ \A i \in 1 .. Len(more) : steps'[i] = more[i]
    BY <1>4, <2>5, <2>7, GoOnIs DEF TypesOK
  <2>9. steps' # <<>> /\ steps'[1] \in {"columns", "drainColumns"}
    <3>1. PICK m \in Nat \ {0} : m = Len(steps)
      BY <1>4, TailOf DEF TypesOK
    <3>2. PICK k \in {1, 2, 3} : k = Len(more)
      BY <2>6
    <3>3. Len(steps') # 0 /\ 1 \in 1 .. k
      BY <2>8, <3>1, <3>2
    <3> QED
      BY <2>6, <2>8, <3>2, <3>3
  <2> QED
    BY <2>2, <2>9, AheadNext DEF AheadCases
<1>9. CASE OneOf({"ERR", "OK", "InFile"})
  <2>1. packets' = <<>> /\ p.is \in {"ERR", "OK", "InFile"}
    BY <1>4, <1>5, <1>9, OneTaken
  <2>2. CASE p.is = "ERR"
    <3>1. FailsWith("mysql")
      BY <1>5, <2>2 DEF ReadHeader
    <3> QED
      BY <1>4, <2>1, <3>1, FailsAhead
  <2>3. CASE p.is = "InFile"
    <3>1. PICK end \in {"inFileResult", "inFileEnd"} : GoOn(<<"InFileData", end>>)
      BY <1>5, <2>3 DEF ReadHeader
    <3>2. "InFileData" \in Asks /\ <<"InFileData", end>> \in Seq(Steps)
      BY MoreFits DEF Asks
    <3> QED
      BY <1>4, <2>1, <3>1, <3>2, AsksAhead
  <2>4. CASE p.is = "OK"
    <3>1. CASE s = "charsetHeader" /\ ~ Warned(p)
      <4>1. steps' = OtherParams /\ UNCHANGED rows
        BY <1>1, <1>5, <2>4, <3>1 DEF ReadHeader
      <4>2. steps' = <<>> \/ (steps' # <<>> /\ steps'[1] = "strict")
        BY <4>1 DEF OtherParams
      <4> QED
        BY <1>4, <2>1, <4>1, <4>2, AheadNext DEF AheadCases
    <3>2. CASE s = "stmtQueryHeader" /\ ~ Warned(p)
      <4>1. odd' = odd \cup {"noResult"}
        BY <1>1, <1>5, <2>4, <3>2 DEF ReadHeader
      <4> QED
        BY <4>1
    <3>3. CASE ~ (s = "charsetHeader" /\ ~ Warned(p)) /\ ~ (s = "stmtQueryHeader" /\ ~ Warned(p))
      <4>1. HandleOk(p) /\ UNCHANGED rows
        BY <1>1, <1>5, <2>4, <3>3 DEF ReadHeader
      <4> QED
        BY <1>4, <1>6, <2>1, <4>1, OkAhead
    <3> QED
      BY <3>1, <3>2, <3>3
  <2> QED
    BY <2>1, <2>2, <2>3, <2>4
<1> QED
  BY <1>7, <1>8, <1>9

LEMMA AheadReceives ==
  ASSUME TypesOK, Shape, Counted, Ahead, Receives, odd' = {}, netConn'
  PROVE  Counted' /\ Ahead'
<1>1. Receives /\ ~ ReadFails => Counted'
  <2> SUFFICES ASSUME ~ ReadFails PROVE Counted'
    BY Zenon
  <2>1. CASE ReadHeader
    <3>1. ReadPacket({Head(steps)})
      BY <2>1 DEF ReadHeader
    <3> QED
      BY <3>1, ReadIs, CountedOn
  <2>2. CASE ~ ReadHeader
    <3>1. \E kinds : ReadPacket(kinds)
      BY <2>2 DEF Receives, ReadInit, ReadAuthResult, ReadColumns, ReadUntilEOF, ReadSysVar, ReadWarning,
                  ReadTextRow, ReadBinaryRow, ReadPrepared, ReadInFileEnd
    <3> QED
      BY <3>1, ReadIs, CountedOn
  <2> QED
    BY <2>1, <2>2
<1>2. CASE ReadFails
  <2>1. steps # <<>> /\ steps[1] \in Reads
    BY <1>2 DEF ReadFails, Now, TypesOK
  <2>2. netConn
    BY <2>1 DEF Shape, ClosedIsLeft, Reads, Drains
  <2>3. packets # <<>> => Head(packets).seq = sequence
    BY TailOf DEF Counted, NumberedOn, TypesOK
  <2> QED
    BY <1>2, <2>3 DEF ReadFails
<1>3. CASE ReadInit \/ ReadAuthResult \/ ReadInFileEnd
  BY <1>3, AheadReadInit, AheadReadAuthResult, AheadReadInFileEnd
<1>4. ReadHeader \/ ReadColumns => Ahead'
  BY AheadReadHeader, AheadReadColumns
<1>5. ReadUntilEOF => Ahead'
  BY AheadReadUntilEOF
<1>6. ReadSysVar \/ ReadWarning => Ahead'
  BY AheadReadSysVar, AheadReadWarning
<1>7. ReadTextRow \/ ReadBinaryRow => Ahead'
  BY AheadRows
<1>8. ReadPrepared => Ahead'
  BY AheadReadPrepared
<1> QED
  BY <1>1, <1>2, <1>3, <1>4, <1>5, <1>6, <1>7, <1>8, Zenon DEF Receives

\* An answer is what the step after the question reads.
LEMMA WholeFrom ==
  ASSUME NEW r \in WholeType, packets' \in Seq(PacketType), IsWhole(packets', r)
  PROVE  ResultFrom(0)'
<1>1. PICK m \in Nat : m = Len(r.rows)
  BY DEF WholeType, ResultType
<1>2. \A j \in 1 .. m : r.rows[j] \in RowKinds
  BY <1>1 DEF WholeType, ResultType
<1>3. r.end \in Ends
  BY DEF WholeType
<1>4. Len(packets') = m + 4 /\ packets'[1].is = "Header" /\ \A j \in 1 .. m + 3 : packets'[j + 1].is = Nth(r, j)
  BY <1>1 DEF IsWhole
<1>5. ASSUME NEW i \in 1 .. m + 4
      PROVE  /\ i = 1 => packets'[i].is = "Header"
             /\ i = 2 => packets'[i].is = "Column"
             /\ i = 3 => packets'[i].is = "EOF"
             /\ i > 3 /\ i < m + 4 => packets'[i].is \in RowKinds
             /\ i > 3 /\ i = m + 4 => packets'[i].is \in Ends
  <2>1. CASE i = 1
    BY <1>4, <2>1
  <2>2. CASE i # 1
    <3>1. PICK j \in 1 .. m + 3 : i = j + 1
      BY <2>2
    <3>2. packets'[i].is = Nth(r, j)
      BY <1>4, <3>1
    <3>3. i > 3 /\ i < m + 4 => j - 2 \in 1 .. m /\ Nth(r, j) = r.rows[j - 2]
      BY <1>1, <3>1 DEF Nth
    <3>4. i > 3 /\ i = m + 4 => Nth(r, j) = r.end
      BY <1>1, <3>1 DEF Nth
    <3>5. (j = 1 => Nth(r, j) = "Column") /\ (j = 2 => Nth(r, j) = "EOF")
      BY DEF Nth
    <3> QED
      BY <1>2, <1>3, <3>1, <3>2, <3>3, <3>4, <3>5
  <2> QED
    BY <2>1, <2>2
<1> QED
  BY <1>4, <1>5 DEF ResultFrom

LEMMA PreparedFrom ==
  ASSUME packets' \in Seq(PacketType), IsPrepared(packets')
  PROVE  PreparedAhead'
<1>1. PICK n \in Nat : n = Asked(packets'[1])
  BY AskedIs
<1>2. /\ packets' # <<>> /\ packets'[1].is = "Prepared" /\ Len(packets') = 2 * n + 1
      /\ \A i \in 2 .. 2 * n + 1 : packets'[i].is = IF i % 2 = 0 THEN "Column" ELSE "EOF"
  BY <1>1 DEF IsPrepared
<1>3. ASSUME NEW i \in 1 .. 2 * n + 1, i > 1
      PROVE  packets'[i].is = IF (i - 1 + 0) % 2 = 1 THEN "Column" ELSE "EOF"
  <2>1. i \in 2 .. 2 * n + 1
    BY <1>3
  <2>2. (i - 1 + 0) % 2 = 1 <=> i % 2 = 0
    OBVIOUS
  <2> QED
    BY <1>2, <2>1, <2>2
<1>4. DefinitionsFrom(1, 0, n)'
  BY <1>2, <1>3 DEF DefinitionsFrom
<1>5. DefinitionsFrom(1, 0, Cardinality(packets[1].info \cap {"params", "columns"}))'
  <2>1. n = Cardinality(packets'[1].info \cap {"params", "columns"})
    BY <1>1 DEF Asked
  <2> QED
    BY <1>4, <2>1 DEF DefinitionsFrom
<1> QED
  BY <1>2, <1>5 DEF PreparedAhead

LEMMA AnswerAhead ==
  ASSUME TypesOK, Shape, steps # <<>>, steps[1] \in Asks, GoOn(<<>>), ~ rows'.open,
         packets' \in Seq(PacketType), IsAnswer(packets', steps[1])
  PROVE  Ahead'
<1>1. MayFollow(steps[1], Then(steps, 1))
  BY FirstIsFollowed
<1>2. \A kinds : IsOne(packets', kinds) => OneOf(kinds)'
  <2> SUFFICES ASSUME NEW kinds, IsOne(packets', kinds) PROVE OneOf(kinds)'
    OBVIOUS
  <2>1. Len(packets') = 1 /\ packets'[1].is \in kinds
    BY DEF IsOne
  <2>2. packets' # <<>> /\ \A i \in 1 .. 1 : i = 1
    BY <2>1
  <2> QED
    BY <2>1, <2>2 DEF OneOf
<1>3. CASE steps[1] = "StmtClose"
  <2>1. packets' = <<>>
    BY <1>3 DEF IsAnswer
  <2>2. Then(steps, 1) = "end"
    BY <1>1, <1>3 DEF MayFollow
  <2>3. steps' = <<>>
    BY <2>2, TailIs
  <2> QED
    BY <2>1, <2>3, AheadNext DEF AheadCases
<1>4. CASE steps[1] \in {"Auth", "OldPassword", "ClearPassword"}
  <2>1. Then(steps, 1) \in {"authResult", "authResult2"}
    BY <1>1, <1>4 DEF MayFollow
  <2>2. steps' # <<>> /\ steps'[1] \in {"authResult", "authResult2"}
    BY <2>1, TailIs
  <2>3. OneOf({"ERR", "OK", "OldAuth", "ClearAuth", "OtherAuth"})'
    BY <1>2, <1>4 DEF IsAnswer
  <2> QED
    BY <2>2, <2>3, AheadNext DEF AheadCases
<1>5. CASE steps[1] = "InFileData"
  <2>1. Then(steps, 1) \in {"inFileResult", "inFileEnd"}
    BY <1>1, <1>5 DEF MayFollow
  <2>2. steps' # <<>> /\ steps'[1] \in {"inFileResult", "inFileEnd"}
    BY <2>1, TailIs
  <2>3. OneOf({"ERR", "OK"})'
    BY <1>2, <1>5 DEF IsAnswer
  <2> QED
    BY <2>2, <2>3, AheadNext DEF AheadCases
<1>6. CASE steps[1] \in {"SysVar", "Charset", "Simple", "Command", "Execute", "Warnings"}
  <2>1. Then(steps, 1) \in Headers /\ Then(steps, 1) # "end"
    BY <1>1, <1>6 DEF MayFollow, Headers
  <2>2. steps' # <<>> /\ steps'[1] \in Headers
    BY <2>1, TailIs
  <2>3. OneOf({"ERR", "OK", "InFile"})' \/ ResultFrom(0)'
    <3>1. IsOne(packets', {"ERR", "OK", "InFile"}) \/ \E r \in WholeType : IsWhole(packets', r)
      BY <1>6 DEF IsAnswer
    <3> QED
      BY <1>2, <3>1, WholeFrom
  <2> QED
    BY <2>2, <2>3, AheadNext DEF AheadCases
<1>7. CASE steps[1] = "Prepare"
  <2>1. Then(steps, 1) = "prepared"
    BY <1>1, <1>7 DEF MayFollow
  <2>2. steps' # <<>> /\ steps'[1] = "prepared"
    BY <2>1, TailIs
  <2>3. IsOne(packets', {"ERR"}) \/ IsPrepared(packets')
    BY <1>7 DEF IsAnswer
  <2>4. PreparedAhead'
    BY <1>2, <2>3, PreparedFrom DEF PreparedAhead
  <2> QED
    BY <2>2, <2>4, AheadNext DEF AheadCases
<1> QED
  BY <1>3, <1>4, <1>5, <1>6, <1>7 DEF Asks, Commands

LEMMA AheadWrites ==
  ASSUME TypesOK, Shape, Ahead, Writes, netConn'
  PROVE  Counted' /\ Ahead'
<1>1. CASE WriteAuth \/ WriteCommand \/ WriteExecute \/ WriteInFile
  <2>1. /\ steps # <<>> /\ steps[1] \in Asks
        /\ Panicked \/ WriteFails \/ Written(steps[1])
        /\ UNCHANGED <<dsn, strict, cut, calling, inTx, odd>>
    BY <1>1, WriteActionIs
  <2>2. steps[1] # "strict" /\ steps[1] \notin RowSteps
    BY <2>1 DEF Asks, Commands, RowSteps
  <2>3. ~ rows.open /\ packets = <<>>
    BY <2>1, <2>2 DEF Shape, RowsInHand, Ahead, At
  <2>4. CASE Panicked
    BY <2>4 DEF Panicked
  <2>5. CASE WriteFails
    BY <2>1, <2>2, <2>3, <2>5, FailsAhead DEF WriteFails
  <2>6. CASE Written(steps[1])
    <3>1. GoOn(<<>>) /\ UNCHANGED rows
      BY <2>6 DEF Written
    <3>2. PICK N \in Seq(PacketType) :
             /\ packets' = packets \o N
             /\ IF cut THEN N = <<>> ELSE NumberedOn(N, sequence') /\ IsAnswer(N, steps[1])
      BY <2>6 DEF Written
    <3>3. packets' = N
      BY <2>3, <3>2
    <3>4. CASE cut
      <4>1. packets' = <<>> /\ cut'
        BY <2>1, <3>2, <3>3, <3>4
      <4>2. steps' \in Seq(Steps)
        BY <2>1, <3>1, TailIs
      <4> QED
        BY <4>1, <4>2, CutAhead
    <3>5. CASE ~ cut
      <4>1. NumberedOn(N, sequence') /\ IsAnswer(N, steps[1])
        BY <3>2, <3>5
      <4>2. Counted'
        BY <3>3, <4>1 DEF Counted, NumberedOn
      <4>3. ~ rows'.open
        BY <2>3, <3>1
      <4>4. packets' \in Seq(PacketType) /\ IsAnswer(packets', steps[1])
        BY <3>3, <4>1
      <4>5. Ahead'
        BY <2>1, <3>1, <4>3, <4>4, AnswerAhead
      <4> QED
        BY <4>2, <4>5
    <3> QED
      BY <3>4, <3>5
  <2> QED
    BY <2>1, <2>4, <2>5, <2>6
<1>2. CASE WriteTooLarge
  <2>1. steps # <<>> /\ steps[1] \in {"Command", "Prepare", "Execute"}
    BY <1>2 DEF WriteTooLarge, Now, TypesOK
  <2>2. steps[1] # "strict" /\ steps[1] \notin RowSteps /\ steps[1] \in Asks
    BY <2>1 DEF Asks, Commands, RowSteps
  <2>3. ~ rows.open /\ packets = <<>>
    BY <2>1, <2>2 DEF Shape, RowsInHand, Ahead, At
  <2> QED
    BY <1>2, <2>1, <2>2, <2>3, FailsAhead DEF WriteTooLarge
<1> QED
  BY <1>1, <1>2 DEF Writes

\* A call on an open connection asks first.
LEMMA AheadAsks ==
  ASSUME packets' = <<>>, netConn, ~ rows'.open,
         NEW name, NEW e, NEW plan \in Seq(Steps), plan # <<>>, plan[1] \in Asks, Checked(name, plan, e)
  PROVE  Counted' /\ Ahead'
<1>1. steps' = plan
  BY DEF Checked, Calls
<1> QED
  BY <1>1, AheadNext DEF AheadCases

LEMMA AheadDriverCalls ==
  ASSUME TypesOK, Shape, Counted, Ahead, DriverCalls, netConn'
  PROVE  Counted' /\ Ahead'
<1>1. Untouched
  BY DEF DriverCalls, Exec, Query, BeginTx, EndTx, Prepare, StmtExec, StmtQuery, StmtClose, RowsNext, RowsClose
<1>2. netConn /\ UNCHANGED <<packets, cut, sequence>>
  BY <1>1 DEF Untouched
<1>3. Counted'
  BY <1>2 DEF Counted, NumberedOn
<1>4. ASSUME Free, NEW name, NEW e, NEW a \in {"Command", "Simple", "Prepare", "Execute"},
             NEW b \in {"execHeader", "queryHeader", "prepared", "stmtHeader", "stmtQueryHeader"},
             Checked(name, <<a, b>>, e), rows' = rows
      PROVE  Ahead'
  <2>1. packets' = <<>> /\ ~ rows'.open
    BY <1>2, <1>4 DEF Ahead, Free, Opened
  <2>2. a \in Steps /\ b \in Steps /\ a \in Asks
    BY DEF Steps, Asks, Commands, Reads
  <2>3. PICK plan : plan = <<a, b>>
    OBVIOUS
  <2>4. plan \in Seq(Steps)
    BY <2>2, <2>3, PlansTyped
  <2>5. plan # <<>> /\ plan[1] = a
    BY <2>3
  <2>6. Checked(name, plan, e)
    BY <1>4, <2>3
  <2> QED
    BY <1>2, <2>1, <2>2, <2>4, <2>5, <2>6, AheadAsks
<1>5. CASE Exec
  BY <1>3, <1>4, <1>5 DEF Exec, Callable
<1>6. CASE Query
  BY <1>3, <1>4, <1>6 DEF Query, Callable
<1>7. CASE BeginTx
  BY <1>3, <1>4, <1>7 DEF BeginTx, Callable
<1>8. CASE EndTx
  BY <1>3, <1>4, <1>8 DEF EndTx, Callable
<1>9. CASE Prepare
  BY <1>3, <1>4, <1>9 DEF Prepare, Callable
<1>10. CASE StmtExec
  BY <1>3, <1>4, <1>10 DEF StmtExec, Callable
<1>11. CASE StmtQuery
  BY <1>3, <1>4, <1>11 DEF StmtQuery, Callable
<1>12. CASE StmtClose
  <2>1. Free /\ Checked("StmtClose", <<"StmtClose">>, "bad") /\ rows' = rows
    BY <1>12 DEF StmtClose, Callable
  <2>2. packets' = <<>> /\ ~ rows'.open
    BY <1>2, <2>1 DEF Ahead, Free, Opened
  <2>3. "StmtClose" \in Steps /\ "StmtClose" \in Asks
    BY DEF Steps, Asks, Commands
  <2>4. PICK plan : plan = <<"StmtClose">>
    OBVIOUS
  <2>5. plan \in Seq(Steps)
    BY <2>3, <2>4, PlansTyped
  <2>6. plan # <<>> /\ plan[1] = "StmtClose"
    BY <2>4
  <2>7. Checked("StmtClose", plan, "bad")
    BY <2>1, <2>4
  <2> QED
    BY <1>2, <2>2, <2>3, <2>5, <2>6, <2>7, AheadAsks
<1>13. CASE RowsNext
  <2>1. steps = <<>> /\ rows.open /\ ~ rows.done /\ rows' = rows
    BY <1>13 DEF RowsNext, Shape, RowsInHand
  <2>2. ResultFrom(3)'
    BY <1>2, <2>1 DEF Ahead, ResultFrom
  <2>3. steps' \in {<<"row">>, <<"binaryRow">>}
    BY <1>2, <1>13 DEF RowsNext, Checked, Calls
  <2>4. steps' # <<>> /\ steps'[1] \in {"row", "binaryRow"}
    BY <2>3
  <2> QED
    BY <1>3, <2>2, <2>4, AheadNext DEF AheadCases
<1>14. CASE RowsClose
  <2>1. steps = <<>> /\ rows.open
    BY <1>14 DEF RowsClose
  <2>2. CASE rows.done
    <3>1. packets' = <<>> /\ steps' = <<>> /\ ~ rows'.open
      BY <1>2, <1>14, <2>1, <2>2 DEF Ahead, RowsClose, NoRows
    <3> QED
      BY <3>1, AheadNext DEF AheadCases
  <2>3. CASE ~ rows.done
    <3>1. ResultFrom(3)'
      BY <1>2, <2>1, <2>3 DEF Ahead, ResultFrom
    <3>2. steps' = <<"drainRows">>
      BY <1>2, <1>14, <2>3 DEF RowsClose, Calls
    <3>3. steps' # <<>> /\ steps'[1] = "drainRows"
      BY <3>2
    <3> QED
      BY <1>3, <3>1, <3>3, AheadNext DEF AheadCases
  <2> QED
    BY <2>2, <2>3
<1> QED
  BY <1>3, <1>5, <1>6, <1>7, <1>8, <1>9, <1>10, <1>11, <1>12, <1>13, <1>14 DEF DriverCalls

\* The network takes packets from the end of what is in transit.
LEMMA AheadNetworkCut ==
  ASSUME TypesOK, Counted, Ahead, NetworkCut
  PROVE  Counted' /\ Ahead'
<1>1. cut' = TRUE /\ UNCHANGED <<sequence, steps, rows>>
  BY DEF NetworkCut
<1>2. PICK m \in Nat : m = Len(packets)
  BY DEF TypesOK
<1>3. PICK n \in 0 .. m : packets' = SubSeq(packets, 1, n)
  BY <1>2 DEF NetworkCut, TypesOK
<1>4. packets' \in Seq(PacketType) /\ Len(packets') = n /\ \A i \in 1 .. n : packets'[i] = packets[i]
  BY <1>2, <1>3, PrefixOf DEF TypesOK
<1>5. packets = <<>> => packets' = <<>>
  <2> SUFFICES ASSUME packets = <<>> PROVE packets' = <<>>
    OBVIOUS
  <2>1. m = 0
    BY <1>2
  <2> QED
    BY <1>4, <2>1
<1>6. packets' # <<>> => 1 \in 1 .. n /\ packets'[1] = packets[1] /\ packets # <<>>
  <2> SUFFICES ASSUME packets' # <<>> PROVE 1 \in 1 .. n /\ packets'[1] = packets[1] /\ packets # <<>>
    OBVIOUS
  <2>1. n # 0
    BY <1>4
  <2> QED
    BY <1>4, <1>5, <2>1
<1>7. Counted'
  <2>1. ASSUME NEW i \in 1 .. n - 1
        PROVE  packets'[i + 1].seq = (packets'[i].seq + Splits(packets'[i].is)) % SequenceMod
    <3>1. PICK j \in 1 .. n : j = i + 1
      OBVIOUS
    <3>2. packets'[i] = packets[i] /\ packets'[j] = packets[j]
      BY <1>4
    <3>3. packets[i + 1].seq = (packets[i].seq + Splits(packets[i].is)) % SequenceMod
      BY <1>2 DEF Counted, NumberedOn
    <3> QED
      BY <3>1, <3>2, <3>3
  <2> QED
    BY <1>1, <1>4, <1>6, <2>1 DEF Counted, NumberedOn
<1>8. \A kinds : OneOf(kinds) => OneOf(kinds)'
  BY <1>1, <1>2, <1>4 DEF OneOf
<1>9. ASSUME NEW k \in 0 .. 3, ResultFrom(k)
      PROVE  ResultFrom(k)'
  <2>1. ASSUME NEW i \in 1 .. n
        PROVE  /\ i + k = 1 => packets'[i].is = "Header"
               /\ i + k = 2 => packets'[i].is = "Column"
               /\ i + k = 3 => packets'[i].is = "EOF"
               /\ i + k > 3 /\ i < n => packets'[i].is \in RowKinds
               /\ i + k > 3 /\ i = n => packets'[i].is \in RowKinds \cup Ends
    <3>1. i \in 1 .. m /\ packets'[i] = packets[i] /\ (i < n => i < m)
      BY <1>4
    <3>2. /\ i + k = 1 => packets[i].is = "Header"
          /\ i + k = 2 => packets[i].is = "Column"
          /\ i + k = 3 => packets[i].is = "EOF"
          /\ i + k > 3 /\ i < m => packets[i].is \in RowKinds
          /\ i + k > 3 /\ i = m => packets[i].is \in RowKinds \cup Ends
      BY <1>2, <1>9, <3>1 DEF ResultFrom
    <3> QED
      BY <3>1, <3>2
  <2> QED
    BY <1>1, <1>4, <2>1 DEF ResultFrom
<1>10. ASSUME NEW j \in 0 .. 1, NEW k \in 0 .. 1, NEW d \in Nat, DefinitionsFrom(j, k, d)
       PROVE  DefinitionsFrom(j, k, d)'
  <2>1. n <= j + 2 * d - k
    BY <1>2, <1>10 DEF DefinitionsFrom
  <2>2. \A i \in 1 .. n : i > j => packets'[i].is = IF (i - j + k) % 2 = 1 THEN "Column" ELSE "EOF"
    BY <1>2, <1>4, <1>10 DEF DefinitionsFrom
  <2> QED
    BY <1>1, <1>4, <2>1, <2>2 DEF DefinitionsFrom
<1>11. PreparedAhead => PreparedAhead'
  <2> SUFFICES ASSUME PreparedAhead PROVE PreparedAhead'
    OBVIOUS
  <2>1. CASE packets' = <<>>
    BY <1>1, <2>1 DEF PreparedAhead
  <2>2. CASE packets' # <<>>
    <3>1. packets'[1] = packets[1] /\ packets # <<>>
      BY <1>6, <2>2
    <3>2. CASE OneOf({"ERR"})
      BY <1>8, <3>2 DEF PreparedAhead
    <3>3. CASE ~ OneOf({"ERR"})
      <4>1. PICK d \in Nat : d = Asked(packets[1])
        BY AskedIs
      <4>2. packets[1].is = "Prepared" /\ DefinitionsFrom(1, 0, d)
        BY <3>1, <3>3, <4>1 DEF PreparedAhead, Asked
      <4>3. DefinitionsFrom(1, 0, d)'
        BY <1>10, <4>2
      <4>4. DefinitionsFrom(1, 0, Cardinality(packets[1].info \cap {"params", "columns"}))'
        <5>1. d = Cardinality(packets'[1].info \cap {"params", "columns"})
          BY <3>1, <4>1 DEF Asked
        <5> QED
          BY <4>3, <5>1 DEF DefinitionsFrom
      <4> QED
        BY <2>2, <3>1, <4>2, <4>4 DEF PreparedAhead
    <3> QED
      BY <3>2, <3>3
  <2> QED
    BY <2>1, <2>2
<1>12. At({"drainDefinitions"}) /\ (DefinitionsFrom(0, 0, Len(steps)) \/ DefinitionsFrom(0, 1, Len(steps)))
       => (DefinitionsFrom(0, 0, Len(steps)) \/ DefinitionsFrom(0, 1, Len(steps)))'
  <2>1. PICK d \in Nat : d = Len(steps) /\ d = Len(steps')
    BY <1>1 DEF TypesOK
  <2>2. (DefinitionsFrom(0, 0, d) => DefinitionsFrom(0, 0, d)') /\ (DefinitionsFrom(0, 1, d) => DefinitionsFrom(0, 1, d)')
    BY <1>10
  <2> QED
    BY <2>1, <2>2 DEF DefinitionsFrom
<1>13. CASE steps = <<>>
  <2>1. CASE rows.open /\ ~ rows.done
    <3>1. ResultFrom(3)'
      BY <1>9, <1>13, <2>1 DEF Ahead
    <3> QED
      BY <1>1, <1>7, <1>13, <2>1, <3>1, AheadNext DEF AheadCases
  <2>2. CASE ~ (rows.open /\ ~ rows.done)
    <3>1. packets' = <<>>
      BY <1>5, <1>13, <2>2 DEF Ahead
    <3> QED
      BY <1>1, <1>13, <2>2, <3>1, AheadNext DEF AheadCases
  <2> QED
    BY <2>1, <2>2
<1>14. CASE steps # <<>>
  <2>1. /\ At(Asks \cup {"params", "strict"}) => packets' = <<>>
        /\ At({"init"}) => OneOf({"ERR", "Init", "OldInit"})'
        /\ At({"authResult", "authResult2"}) => OneOf({"ERR", "OK", "OldAuth", "ClearAuth", "OtherAuth"})'
        /\ At({"inFileResult", "inFileEnd"}) => OneOf({"ERR", "OK"})'
        /\ At({"prepared"}) => PreparedAhead'
    BY <1>5, <1>8, <1>11 DEF Ahead
  <2>2. /\ At(Headers) => OneOf({"ERR", "OK", "InFile"})' \/ ResultFrom(0)'
        /\ At({"columns", "drainColumns"}) => ResultFrom(1)' \/ ResultFrom(2)'
        /\ At({"sysVarRow", "warningRow", "row", "binaryRow", "drainRows"}) => ResultFrom(3)'
    BY <1>8, <1>9 DEF Ahead
  <2>3. At({"drainDefinitions"}) => (DefinitionsFrom(0, 0, Len(steps)) \/ DefinitionsFrom(0, 1, Len(steps)))'
    BY <1>12 DEF Ahead
  <2>4. \A kinds : At(kinds)' <=> At(kinds)
    BY <1>1 DEF At
  <2>5. Ahead'
    BY <1>1, <1>14, <2>1, <2>2, <2>3, <2>4 DEF Ahead
  <2> QED
    BY <1>7, <2>5
<1> QED
  BY <1>13, <1>14

LEMMA AheadOpens ==
  ASSUME TypesOK, Shape, Open \/ ((HandleParams \/ SetStrict \/ NetworkCut) /\ Counted /\ Ahead)
  PROVE  Counted' /\ Ahead'
<1>1. CASE Open
  <2>1. PICK a \in SentFor("Init") : packets' = Numbered(a, 0)
    BY <1>1 DEF Open
  <2>2. steps' = <<"init", "Auth", "authResult", "SysVar", "sysVarHeader", "params">>
    BY <1>1 DEF Open, Calls
  <2>3. steps' # <<>> /\ steps'[1] = "init"
    BY <2>2
  <2>4. /\ Numbered(a, 0) \in Seq(PacketType)
        /\ NumberedOn(Numbered(a, 0), 0 % SequenceMod)
        /\ IsAnswer(Numbered(a, 0), "Init")
    BY SentIs
  <2>5. 0 % SequenceMod = 0
    <3>1. PICK m \in Nat \ {0} : m = SequenceMod
      BY ModRange
    <3>2. (m * 0 + 0) % m = 0
      BY ModOf
    <3> QED
      BY <3>1, <3>2
  <2>6. sequence' = 0
    BY <1>1 DEF Open, TypesOK, Unopened
  <2>7. Counted'
    BY <2>1, <2>4, <2>5, <2>6 DEF Counted, NumberedOn
  <2>8. Len(packets') = 1 /\ packets'[1].is \in {"ERR", "Init", "OldInit"}
    BY <2>1, <2>4 DEF IsAnswer, IsOne, Asks, Commands
  <2>9. OneOf({"ERR", "Init", "OldInit"})'
    <3>1. packets' # <<>> /\ \A i \in 1 .. 1 : i = 1
      BY <2>8
    <3> QED
      BY <2>8, <3>1 DEF OneOf
  <2> QED
    BY <2>3, <2>7, <2>9, AheadNext DEF AheadCases
<1>2. CASE HandleParams /\ Counted /\ Ahead
  <2>1. steps # <<>> /\ steps[1] = "params"
    BY <1>2 DEF HandleParams, Now, TypesOK
  <2>2. packets = <<>> /\ ~ rows.open
    BY <1>2, <2>1 DEF Ahead, At, Shape, RowsInHand, RowSteps
  <2>3. PICK plan \in ParamPlans : Calls("Params", plan)
    BY <1>2 DEF HandleParams
  <2>4. steps' = plan /\ UNCHANGED <<packets, rows>>
    BY <1>2, <2>3 DEF HandleParams, Calls, Untouched
  <2>5. plan # <<>> => plan[1] \in {"Charset", "strict"}
    <3>1. /\ plan \in Seq(Steps)
          /\ \A i \in 1 .. Len(plan) : plan[i] \in {"Charset", "charsetHeader", "strict"}
          /\ plan # <<>> => plan[1] # "charsetHeader"
      BY PlansAre
    <3>2. plan # <<>> => 1 \in 1 .. Len(plan)
      BY <3>1
    <3> QED
      BY <3>1, <3>2
  <2>6. steps' # <<>> => steps'[1] \in Asks \cup {"params", "strict"}
    BY <2>4, <2>5 DEF Asks, Commands
  <2> QED
    BY <2>2, <2>4, <2>6, AheadNext DEF AheadCases
<1>3. CASE SetStrict /\ Counted /\ Ahead
  <2>1. steps # <<>> /\ steps[1] = "strict"
    BY <1>3 DEF SetStrict, Now, TypesOK
  <2>2. packets = <<>> /\ ~ rows.open
    BY <1>3, <2>1 DEF Ahead, At, Shape, RowsInHand, RowSteps
  <2>3. Then(steps, 1) \in Onward
    BY <2>1, FirstIsFollowed DEF MayFollow
  <2>4. GoOn(<<>>) /\ UNCHANGED <<packets, rows>>
    BY <1>3 DEF SetStrict
  <2> QED
    BY <2>1, <2>2, <2>3, <2>4, TailAhead
<1>4. CASE NetworkCut /\ Counted /\ Ahead
  BY <1>4, AheadNetworkCut
<1> QED
  BY <1>1, <1>2, <1>3, <1>4

-----------------------------------------------------------------------------
(* The theorems about what is in transit.                                  *)

LEMMA OutcomeIs ==
  /\ \A more : GoOn(more) => outcome' # "sync"
  /\ \A e : FailsWith(e) /\ e # "sync" => (outcome' = "sync" => outcome = "sync")
BY DEF GoOn, FailsWith

LEMMA ReceivesInSequence ==
  ASSUME TypesOK, Shape, InStep, Receives
  PROVE  InSequence'
<1>1. CASE ReadFails
  <2>1. steps # <<>> /\ steps[1] \in Reads
    BY <1>1 DEF ReadFails, Now, TypesOK
  <2>2. netConn
    BY <2>1 DEF Shape, ClosedIsLeft, Reads, Drains
  <2>3. odd = {} /\ packets # <<>> => Head(packets).seq = sequence
    BY <2>2, TailOf DEF InStep, Counted, NumberedOn, TypesOK
  <2>4. odd' = odd
    BY <1>1 DEF ReadFails
  <2>5. CASE odd # {}
    BY <2>4, <2>5 DEF InSequence
  <2>6. CASE odd = {}
    <3>1. FailsWith("bad") \/ FailsWith("local")
      BY <1>1, <2>3, <2>6 DEF ReadFails
    <3> QED
      BY <2>6, <3>1, OutcomeIs DEF InStep, InSequence
  <2> QED
    BY <2>5, <2>6
<1>2. CASE ReadInit \/ ReadAuthResult \/ ReadInFileEnd \/ ReadSysVar
  <2>1. (odd' = odd /\ \E e \in {"refused", "local", "mysql"} : FailsWith(e)) \/ \E more : GoOn(more)
    BY <1>2 DEF ReadInit, ReadAuthResult, ReadInFileEnd, ReadSysVar, HandleOk
  <2> QED
    BY <1>2, <2>1, OutcomeIs DEF InStep, InSequence
<1>3. CASE ReadHeader
  <2>1. PICK p : p = Head(packets)
    OBVIOUS
  <2>2. CASE p.is = "ERR"
    BY <1>3, <2>1, <2>2, OutcomeIs DEF ReadHeader, InStep, InSequence
  <2>3. CASE p.is = "InFile"
    BY <1>3, <2>1, <2>3, OutcomeIs DEF ReadHeader, InStep, InSequence
  <2>4. CASE p.is = "Header"
    BY <1>3, <2>1, <2>4, OutcomeIs DEF ReadHeader, InStep, InSequence
  <2>5. CASE p.is = "OK"
    <3>1. outcome' = "ok"
      BY <1>3, <2>1, <2>5 DEF ReadHeader, HandleOk, GoOn
    <3> QED
      BY <3>1 DEF InSequence
  <2>6. CASE p.is \notin {"ERR", "InFile", "Header", "OK"}
    <3>1. odd' = odd /\ \E e \in {"outOfRange", "malformed"} : FailsWith(e)
      BY <1>3, <2>1, <2>6 DEF ReadHeader
    <3> QED
      BY <3>1, OutcomeIs DEF InStep, InSequence
  <2> QED
    BY <2>2, <2>3, <2>4, <2>5, <2>6
<1>4. CASE ReadColumns \/ ReadUntilEOF
  <2>1. odd \subseteq odd' /\ (GoOn(<<>>) \/ UNCHANGED outcome)
    BY <1>4 DEF ReadColumns, ReadUntilEOF
  <2> QED
    BY <2>1, OutcomeIs DEF InStep, InSequence
<1>5. CASE ReadWarning
  <2>1. odd' = odd /\ (FailsWith("warnings") \/ FailsWith("mysql") \/ UNCHANGED outcome)
    BY <1>5 DEF ReadWarning
  <2> QED
    BY <2>1, OutcomeIs DEF InStep, InSequence
<1>6. CASE ReadTextRow
  <2>1. outcome' \in {"eof", "mysql", "odd", "ok"}
    BY <1>6 DEF ReadTextRow, RowRead
  <2> QED
    BY <2>1 DEF InSequence
<1>7. CASE ReadBinaryRow
  <2>1. outcome' \in {"eof", "mysql", "odd", "ok"}
    BY <1>7 DEF ReadBinaryRow, RowRead
  <2> QED
    BY <2>1 DEF InSequence
<1>8. CASE ReadPrepared
  <2>1. (odd' = odd /\ (FailsWith("mysql") \/ FailsWith("malformed"))) \/ \E more : GoOn(more)
    BY <1>8 DEF ReadPrepared, HandleOk
  <2> QED
    BY <2>1, OutcomeIs DEF InStep, InSequence
<1> QED
  BY <1>1, <1>2, <1>3, <1>4, <1>5, <1>6, <1>7, <1>8 DEF Receives

LEMMA OthersInSequence ==
  ASSUME TypesOK, InStep, Open \/ HandleParams \/ SetStrict \/ Close \/ DriverCalls \/ Writes \/ NetworkCut
  PROVE  InSequence'
<1>1. CASE Open \/ HandleParams \/ SetStrict \/ Close
  BY <1>1 DEF Open, HandleParams, SetStrict, Close, Calls, GoOn, InSequence
<1>2. CASE NetworkCut
  BY <1>2 DEF NetworkCut, InStep, InSequence
<1>3. CASE DriverCalls
  <2>1. outcome' \in {"ok", "bad", "invalid"}
    BY <1>3 DEF DriverCalls, Exec, Query, BeginTx, EndTx, Prepare, StmtExec, StmtQuery, StmtClose, RowsNext,
                RowsClose, Checked, Calls
  <2> QED
    BY <2>1 DEF InSequence
<1>4. CASE WriteTooLarge
  BY <1>4, OutcomeIs DEF WriteTooLarge, InStep, InSequence
<1>5. CASE WriteAuth \/ WriteCommand \/ WriteExecute \/ WriteInFile
  <2>1. odd' = odd /\ (Panicked \/ WriteFails \/ Written(steps[1]))
    BY <1>5, WriteActionIs
  <2>2. outcome' = "panic" \/ FailsWith("bad") \/ GoOn(<<>>)
    BY <2>1 DEF Panicked, WriteFails, Written
  <2> QED
    BY <2>1, <2>2, OutcomeIs DEF InStep, InSequence
<1> QED
  BY <1>1, <1>2, <1>3, <1>4, <1>5 DEF Writes

\* What has happened that the driver does not handle stays until Close.
LEMMA OddStays ==
  ASSUME MysqlNext, odd' = {}
  PROVE  odd = {} \/ Close
<1>1. CASE Open \/ HandleParams \/ SetStrict \/ NetworkCut
  BY <1>1 DEF Open, HandleParams, SetStrict, NetworkCut, Untouched
<1>2. CASE DriverCalls
  BY <1>2 DEF DriverCalls, Exec, Query, BeginTx, EndTx, Prepare, StmtExec, StmtQuery, StmtClose, RowsNext,
              RowsClose, Untouched
<1>3. CASE Writes
  BY <1>3 DEF Writes, WriteAuth, WriteCommand, WriteExecute, WriteTooLarge, WriteInFile
<1>4. CASE Receives /\ ~ ReadHeader /\ ~ ReadPrepared
  BY <1>4 DEF Receives, ReadInit, ReadAuthResult, ReadColumns, ReadUntilEOF, ReadSysVar, ReadWarning,
              ReadTextRow, ReadBinaryRow, RowRead, ReadInFileEnd, ReadFails
<1>5. CASE ReadHeader
  <2>1. CASE Head(packets).is = "OK"
    BY <1>5, <2>1 DEF ReadHeader
  <2>2. CASE Head(packets).is # "OK"
    BY <1>5, <2>2 DEF ReadHeader
  <2> QED
    BY <2>1, <2>2
<1>6. CASE ReadPrepared
  BY <1>6 DEF ReadPrepared
<1> QED
  BY <1>1, <1>2, <1>3, <1>4, <1>5, <1>6 DEF MysqlNext

LEMMA InStepStep ==
  ASSUME TypesOK, Shape, InStep, [MysqlNext]_mysqlVars
  PROVE  InStep'
<1>1. CASE UNCHANGED mysqlVars
  <2>1. UNCHANGED <<netConn, sequence, packets, cut, steps, outcome, rows, odd>>
    BY <1>1 DEF mysqlVars
  <2>2. Counted => Counted'
    BY <2>1 DEF Counted, NumberedOn
  <2>3. \A kinds : OneOf(kinds) => OneOf(kinds)'
    BY <2>1 DEF OneOf
  <2>4. \A k : ResultFrom(k) => ResultFrom(k)'
    BY <2>1 DEF ResultFrom
  <2>5. PreparedAhead => PreparedAhead'
    BY <2>1, <2>3 DEF PreparedAhead, DefinitionsFrom
  <2>6. (DefinitionsFrom(0, 0, Len(steps)) \/ DefinitionsFrom(0, 1, Len(steps)))
        => (DefinitionsFrom(0, 0, Len(steps)) \/ DefinitionsFrom(0, 1, Len(steps)))'
    BY <2>1 DEF DefinitionsFrom
  <2>7. \A kinds : At(kinds)' <=> At(kinds)
    BY <2>1 DEF At
  <2>8. Ahead => Ahead'
    BY <2>1, <2>3, <2>4, <2>5, <2>6, <2>7 DEF Ahead
  <2> QED
    BY <2>1, <2>2, <2>8 DEF InStep, InSequence
<1>2. CASE MysqlNext
  <2>1. InSequence'
    BY <1>2, ReceivesInSequence, OthersInSequence DEF MysqlNext
  <2>2. ASSUME odd' = {}, netConn'
        PROVE  Counted' /\ Ahead'
    <3>1. CASE Open
      BY <3>1, AheadOpens
    <3>2. CASE Close
      BY <2>2, <3>2 DEF Close
    <3>3. CASE ~ Open /\ ~ Close
      <4>1. odd = {}
        BY <1>2, <2>2, <3>3, OddStays
      <4>2. CASE netConn
        <5>1. Counted /\ Ahead
          BY <4>1, <4>2 DEF InStep
        <5>2. CASE DriverCalls
          BY <2>2, <5>1, <5>2, AheadDriverCalls
        <5>3. CASE Writes
          BY <2>2, <5>1, <5>3, AheadWrites
        <5>4. CASE Receives
          BY <2>2, <5>1, <5>4, AheadReceives
        <5>5. CASE HandleParams \/ SetStrict \/ NetworkCut
          BY <5>1, <5>5, AheadOpens
        <5> QED
          BY <1>2, <3>3, <5>2, <5>3, <5>4, <5>5 DEF MysqlNext
      <4>3. CASE ~ netConn
        <5>1. CASE DriverCalls \/ HandleParams \/ SetStrict
          BY <2>2, <4>3, <5>1 DEF DriverCalls, Exec, Query, BeginTx, EndTx, Prepare, StmtExec, StmtQuery, StmtClose,
             RowsNext, RowsClose, HandleParams, SetStrict, Untouched
        <5>3. CASE Writes
          <6>1. CASE WriteTooLarge
            BY <2>2, <4>3, <6>1 DEF WriteTooLarge
          <6>2. CASE WriteAuth \/ WriteCommand \/ WriteExecute \/ WriteInFile
            <7>1. Panicked \/ WriteFails \/ Written(steps[1])
              BY <6>2, WriteActionIs
            <7> QED
              BY <2>2, <4>3, <7>1 DEF Panicked, WriteFails, Written, OpenCloses
          <6> QED
            BY <5>3, <6>1, <6>2 DEF Writes
        <5>4. CASE Receives
          <6>1. steps # <<>> /\ steps[1] \in Reads
            BY <5>4 DEF Receives, ReadInit, ReadAuthResult, ReadHeader, ReadColumns, ReadUntilEOF, ReadSysVar, ReadWarning,
               ReadTextRow, ReadBinaryRow, ReadPrepared, ReadInFileEnd, ReadFails, ReadPacket, Now, Reads, Drains, TypesOK
          <6> QED
            BY <4>3, <6>1 DEF Shape, ClosedIsLeft, Reads, Drains
        <5>5. CASE NetworkCut
          BY <4>3, <5>5 DEF NetworkCut
        <5> QED
          BY <1>2, <3>3, <5>1, <5>3, <5>4, <5>5 DEF MysqlNext
      <4> QED
        BY <4>2, <4>3
    <3> QED
      BY <3>1, <3>2, <3>3
  <2> QED
    BY <2>1, <2>2 DEF InStep
<1> QED
  BY <1>1, <1>2

LEMMA StaysInStep == MysqlSpec => []InStep
<1>1. MysqlInit => InStep
  BY DEF MysqlInit, InStep, InSequence
<1>2. TypesOK /\ Shape /\ InStep /\ [MysqlNext]_mysqlVars => InStep'
  BY InStepStep
<1> QED
  BY <1>1, <1>2, MysqlTypes, CallsHaveShape, PTL DEF MysqlSpec

\* packets.go, readPacket: driver and server count the same packets.  The
\* driver takes a packet for one out of sequence ("commands out of sync") only
\* after something that it does not handle.
THEOREM PacketsInSequence == MysqlSpec => []InSequence
<1>1. InStep => InSequence
  BY DEF InStep
<1> QED
  BY <1>1, StaysInStep, PTL

\* rows.go, Close, and every method without rows: a call that returns leaves no
\* packet to the next one on the connection.
THEOREM NothingIsLeft == MysqlSpec => []StreamIsEmpty
<1>1. TypesOK /\ InStep => StreamIsEmpty
  <2> SUFFICES ASSUME TypesOK, InStep, Free, netConn, odd = {}
               PROVE  packets = <<>> /\ received = 0
    BY DEF StreamIsEmpty
  <2>1. packets = <<>>
    BY DEF InStep, Ahead, Free, Opened
  <2>2. received \in 0 .. 0
    BY <2>1 DEF TypesOK
  <2> QED
    BY <2>1, <2>2
<1> QED
  BY <1>1, MysqlTypes, StaysInStep, PTL

\* connection.go, statement.go: the driver waits for a packet only if MySQL has
\* sent one, or the network is broken, and nothing else has happened.
THEOREM NothingIsAwaitedInVain == MysqlSpec => []NoWaitInVain
<1>1. TypesOK /\ InStep => NoWaitInVain
  <2> SUFFICES ASSUME TypesOK, InStep, Now(Reads), packets = <<>>, ~ cut, netConn, odd = {}
               PROVE  FALSE
    BY DEF NoWaitInVain
  <2>1. steps # <<>> /\ steps[1] \in Reads
    BY DEF Now, TypesOK
  <2>2. Len(packets) = 0 /\ Ahead
    BY DEF InStep
  <2>3. \A kinds : ~ OneOf(kinds)
    BY DEF OneOf
  <2>4. \A k \in 0 .. 3 : ~ ResultFrom(k)
    BY <2>2 DEF ResultFrom
  <2>5. ~ PreparedAhead
    BY <2>3 DEF PreparedAhead
  <2>6. PICK n \in Nat \ {0} : n = Len(steps)
    BY <2>1, TailOf DEF TypesOK
  <2>7. ~ DefinitionsFrom(0, 0, Len(steps)) /\ ~ DefinitionsFrom(0, 1, Len(steps))
    BY <2>2, <2>6 DEF DefinitionsFrom
  <2>8. steps[1] \in {"init", "authResult", "authResult2", "inFileResult", "inFileEnd", "columns", "drainColumns",
                      "sysVarRow", "warningRow", "row", "binaryRow", "drainRows", "prepared", "drainDefinitions"} \cup Headers
    BY <2>1 DEF Reads, Drains, Headers
  <2> QED
    BY <2>1, <2>2, <2>3, <2>4, <2>5, <2>7, <2>8 DEF Ahead, At
<1> QED
  BY <1>1, MysqlTypes, StaysInStep, PTL

-----------------------------------------------------------------------------
(* The rows that are read are those of the result.                         *)

LEMMA BehindTaken ==
  ASSUME TypesOK, Takes, NEW r \in ResultType, NEW i \in Nat, NEW k \in Nat
  PROVE  /\ Behind(i + 1, r, k) => Behind(i, r, k)'
         /\ Behind(0, r, k) => /\ Behind(0, r, k + 1)'
                               /\ k + 1 <= Len(r.rows) + 3 => packets[1].is = Nth(r, k + 1)
<1>1. PICK n \in Nat \ {0} : n = Len(packets)
  BY TailOf DEF Takes, TypesOK
<1>2. Len(packets') = n - 1 /\ \A j \in 1 .. n - 1 : packets'[j] = packets[j + 1]
  BY <1>1 DEF Takes
<1>3. PICK m \in Nat : m = Len(r.rows)
  BY DEF ResultType
<1>4. ASSUME Behind(i + 1, r, k)
      PROVE  Behind(i, r, k)'
  <2>1. ASSUME NEW j \in 1 .. n - 1, j > i, j - i + k <= m + 3
        PROVE  packets'[j].is = Nth(r, j - i + k)
    <3>1. PICK h \in 1 .. n : h = j + 1
      OBVIOUS
    <3>2. h > i + 1 /\ h - (i + 1) + k = j - i + k
      BY <2>1, <3>1
    <3>3. packets[h].is = Nth(r, h - (i + 1) + k)
      BY <1>1, <1>3, <1>4, <2>1, <3>2 DEF Behind
    <3> QED
      BY <1>2, <3>1, <3>2, <3>3
  <2> QED
    BY <1>2, <1>3, <2>1 DEF Behind
<1>5. ASSUME Behind(0, r, k)
      PROVE  /\ Behind(0, r, k + 1)'
             /\ k + 1 <= m + 3 => packets[1].is = Nth(r, k + 1)
  <2>1. ASSUME NEW j \in 1 .. n, j + k <= m + 3
        PROVE  packets[j].is = Nth(r, j + k)
    <3>1. j > 0 /\ j - 0 + k = j + k
      OBVIOUS
    <3> QED
      BY <1>1, <1>3, <1>5, <2>1, <3>1 DEF Behind
  <2>2. k + 1 <= m + 3 => packets[1].is = Nth(r, k + 1)
    <3>1. 1 \in 1 .. n /\ 1 + k = k + 1
      OBVIOUS
    <3> QED
      BY <2>1, <3>1
  <2>3. ASSUME NEW j \in 1 .. n - 1, j - 0 + (k + 1) <= m + 3
        PROVE  packets'[j].is = Nth(r, j - 0 + (k + 1))
    <3>1. PICK h \in 1 .. n : h = j + 1
      OBVIOUS
    <3>2. h + k = j - 0 + (k + 1)
      BY <3>1
    <3>3. packets[h].is = Nth(r, h + k)
      BY <2>1, <2>3, <3>2
    <3> QED
      BY <1>2, <3>1, <3>2, <3>3
  <2> QED
    BY <1>2, <1>3, <2>2, <2>3 DEF Behind
<1> QED
  BY <1>3, <1>4, <1>5

\* The results that follow stay whole.
LEMMA WholeTaken ==
  ASSUME TypesOK, Takes, WholeResults, cut' = cut
  PROVE  /\ WholeResults'
         /\ packets[1].is = "Header" => \E r : r = packets[1].result /\ r.end \in Ends /\ Behind(0, r, 0)'
<1>1. PICK n \in Nat \ {0} : n = Len(packets)
  BY TailOf DEF Takes, TypesOK
<1>2. Len(packets') = n - 1 /\ \A j \in 1 .. n - 1 : packets'[j] = packets[j + 1]
  BY <1>1 DEF Takes
<1>3. ASSUME NEW i \in 1 .. n - 1, packets'[i].is = "Header"
      PROVE  LET r == packets'[i].result
             IN  /\ r.end \in Ends
                 /\ \A j \in 1 .. n - 1 : j > i /\ j - i + 0 <= Len(r.rows) + 3 => packets'[j].is = Nth(r, j - i + 0)
                 /\ ~ cut' => i + Len(r.rows) + 3 <= n - 1
  <2>1. PICK h \in 1 .. n : h = i + 1
    OBVIOUS
  <2>2. PICK r : r = packets[h].result
    OBVIOUS
  <2>3. packets'[i] = packets[h] /\ packets[h].is = "Header" /\ packets[h] \in PacketType
    BY <1>1, <1>2, <1>3, <2>1 DEF TypesOK
  <2>4. r.end \in Ends /\ Behind(h, r, 0) /\ (~ cut => h + Len(r.rows) + 3 <= n)
    BY <1>1, <2>2, <2>3 DEF WholeResults
  <2>5. r \in ResultType
    BY <2>2, <2>3 DEF PacketType
  <2>6. Behind(i, r, 0)'
    BY <2>1, <2>4, <2>5, BehindTaken
  <2>7. PICK m \in Nat : m = Len(r.rows)
    BY <2>5 DEF ResultType
  <2>11. ~ cut => h + m + 3 <= n
    BY <2>4, <2>7
  <2>12. ~ cut' => i + m + 3 <= n - 1
    BY <2>1, <2>11
  <2>8. ~ cut' => i + Len(r.rows) + 3 <= n - 1
    BY <2>7, <2>12
  <2>9. \A j \in 1 .. n - 1 : j > i /\ j - i + 0 <= m + 3 => packets'[j].is = Nth(r, j - i + 0)
    BY <1>2, <2>6, <2>7 DEF Behind
  <2>10. r = packets'[i].result
    BY <2>2, <2>3
  <2> QED
    BY <2>4, <2>7, <2>8, <2>9, <2>10
<1>4. WholeResults'
  BY <1>2, <1>3 DEF WholeResults, Behind
<1>5. ASSUME packets[1].is = "Header"
      PROVE  \E r : r = packets[1].result /\ r.end \in Ends /\ Behind(0, r, 0)'
  <2>1. PICK r : r = packets[1].result
    OBVIOUS
  <2>2. r.end \in Ends /\ Behind(1, r, 0)
    <3>1. 1 \in 1 .. n
      OBVIOUS
    <3> QED
      BY <1>1, <1>5, <2>1, <3>1 DEF WholeResults
  <2>3. r \in ResultType
    BY <2>1 DEF Takes, PacketType
  <2>4. Behind(0 + 1, r, 0)
    BY <2>2
  <2>5. Behind(0, r, 0)'
    BY <2>3, <2>4, BehindTaken
  <2> QED
    BY <2>1, <2>2, <2>5
<1> QED
  BY <1>4, <1>5

\* An answer has one header, if it is a result.
LEMMA AnswerHeaders ==
  ASSUME NEW N \in Seq(PacketType), NEW step \in Asks \cup {"Init"}, IsAnswer(N, step),
         NEW i \in 1 .. Len(N), N[i].is = "Header"
  PROVE  i = 1 /\ \E r \in WholeType : IsWhole(N, r)
<1>1. ASSUME NEW r \in WholeType, IsWhole(N, r)
      PROVE  i = 1
  <2>1. PICK m \in Nat : m = Len(r.rows) /\ \A j \in 1 .. m : r.rows[j] \in RowKinds
    BY DEF WholeType, ResultType
  <2>2. CASE i # 1
    <3>1. PICK j \in 1 .. m + 3 : i = j + 1
      BY <1>1, <2>1, <2>2 DEF IsWhole
    <3>2. Nth(r, j) = "Header"
      BY <1>1, <2>1, <3>1 DEF IsWhole
    <3>3. j - 2 \in 1 .. m \/ j - 2 > m \/ j = 1 \/ j = 2
      OBVIOUS
    <3> QED
      BY <2>1, <3>2, <3>3 DEF Nth, WholeType, Ends, RowKinds
  <2> QED
    BY <2>2
<1>2. \A kinds : IsOne(N, kinds) => N[i].is \in kinds
  <2> SUFFICES ASSUME NEW kinds, IsOne(N, kinds) PROVE N[i].is \in kinds
    OBVIOUS
  <2>1. i = 1
    BY DEF IsOne
  <2> QED
    BY <2>1 DEF IsOne
<1>3. ~ IsPrepared(N)
  <2> SUFFICES ASSUME IsPrepared(N) PROVE FALSE
    OBVIOUS
  <2>1. i = 1 \/ i \in 2 .. Len(N)
    OBVIOUS
  <2> QED
    BY <2>1 DEF IsPrepared
<1>4. N # <<>>
  OBVIOUS
<1>5. \E r \in WholeType : IsWhole(N, r)
  BY <1>2, <1>3, <1>4 DEF IsAnswer
<1> QED
  BY <1>1, <1>5

\* A new answer follows what is in transit.
LEMMA WholeWritten ==
  ASSUME TypesOK, WholeResults, cut' = cut, NEW step \in Asks \cup {"Init"}, NEW N \in Seq(PacketType),
         packets' = packets \o N, N = <<>> \/ (~ cut /\ IsAnswer(N, step))
  PROVE  WholeResults'
<1>1. PICK n \in Nat, m \in Nat : n = Len(packets) /\ m = Len(N)
  BY DEF TypesOK
<1>2. /\ packets' \in Seq(PacketType) /\ Len(packets') = n + m
      /\ \A j \in 1 .. n : packets'[j] = packets[j]
      /\ \A j \in 1 .. m : packets'[n + j] = N[j]
  BY <1>1, JoinOf DEF TypesOK
<1>3. CASE N = <<>>
  <2>1. packets' = packets
    BY <1>3 DEF TypesOK
  <2> QED
    BY <2>1 DEF WholeResults, Behind
<1>4. CASE ~ cut /\ IsAnswer(N, step)
  <2>1. ASSUME NEW i \in 1 .. n + m, packets'[i].is = "Header"
        PROVE  LET r == packets'[i].result
               IN  /\ r.end \in Ends
                   /\ \A j \in 1 .. n + m : j > i /\ j - i + 0 <= Len(r.rows) + 3 => packets'[j].is = Nth(r, j - i + 0)
                   /\ i + Len(r.rows) + 3 <= n + m
    <3>1. PICK r : r = packets'[i].result
      OBVIOUS
    <3>2. CASE i <= n
      <4>1. i \in 1 .. n /\ packets[i] = packets'[i] /\ packets[i] \in PacketType
        BY <1>1, <1>2, <3>2 DEF TypesOK
      <4>9. r \in ResultType
        BY <3>1, <4>1 DEF PacketType
      <4>2. PICK l \in Nat : l = Len(r.rows)
        BY <4>9 DEF ResultType
      <4>3. r.end \in Ends /\ Behind(i, r, 0) /\ i + l + 3 <= n
        BY <1>1, <1>4, <2>1, <3>1, <4>1, <4>2 DEF WholeResults
      <4>4. ASSUME NEW j \in 1 .. n + m, j > i, j - i + 0 <= l + 3
            PROVE  packets'[j].is = Nth(r, j - i + 0)
        <5>1. j \in 1 .. n
          BY <4>3, <4>4
        <5> QED
          BY <1>1, <1>2, <4>2, <4>3, <4>4, <5>1 DEF Behind
      <4>5. i + Len(r.rows) + 3 <= n + m
        BY <4>2, <4>3
      <4>6. \A j \in 1 .. n + m : j > i /\ j - i + 0 <= Len(r.rows) + 3 => packets'[j].is = Nth(r, j - i + 0)
        BY <4>2, <4>4
      <4>7. r.end \in Ends
        BY <4>3
      <4> QED
        BY <3>1, <4>5, <4>6, <4>7
    <3>3. CASE i > n
      <4>1. PICK h \in 1 .. m : i = n + h
        BY <3>3
      <4>2. N[h].is = "Header" /\ r = N[h].result
        BY <1>2, <2>1, <3>1, <4>1
      <4>3. h = 1 /\ \E q \in WholeType : IsWhole(N, q)
        BY <1>1, <1>4, <4>2, AnswerHeaders
      <4>4. IsWhole(N, r) /\ r \in WholeType
        BY <4>2, <4>3 DEF IsWhole
      <4>5. PICK l \in Nat : l = Len(r.rows)
        BY <4>4 DEF WholeType, ResultType
      <4>6. m = l + 4 /\ \A j \in 1 .. l + 3 : N[j + 1].is = Nth(r, j)
        BY <1>1, <4>4, <4>5 DEF IsWhole
      <4>7. r.end \in Ends /\ i = n + 1
        BY <4>1, <4>3, <4>4 DEF WholeType
      <4>8. ASSUME NEW j \in 1 .. n + m, j > i, j - i + 0 <= l + 3
            PROVE  packets'[j].is = Nth(r, j - i + 0)
        <5>1. PICK g \in 1 .. l + 3 : g = j - i + 0
          BY <4>8
        <5>2. PICK f \in 1 .. m : f = g + 1
          BY <4>6
        <5>3. j = n + f
          BY <4>7, <5>1, <5>2
        <5> QED
          BY <1>2, <4>6, <5>1, <5>2, <5>3
      <4>12. m = l + 4 /\ i = n + 1
        BY <4>6, <4>7
      <4>13. i + l + 3 <= n + m
        BY <4>12
      <4>9. i + Len(r.rows) + 3 <= n + m
        BY <4>5, <4>13
      <4>10. \A j \in 1 .. n + m : j > i /\ j - i + 0 <= Len(r.rows) + 3 => packets'[j].is = Nth(r, j - i + 0)
        BY <4>5, <4>8
      <4>11. r.end \in Ends
        BY <4>7
      <4> QED
        BY <3>1, <4>9, <4>10, <4>11
    <3>4. i <= n \/ i > n
      OBVIOUS
    <3> QED
      BY <3>2, <3>3, <3>4, Zenon
  <2> QED
    BY <1>2, <1>4, <2>1 DEF WholeResults, Behind
<1> QED
  BY <1>3, <1>4

\* The network takes the end of a result, or a packet is torn.
LEMMA WholeLost ==
  ASSUME TypesOK, WholeResults, packets' \in Seq(PacketType), Len(packets') <= Len(packets),
         \/ cut' /\ \A i \in 1 .. Len(packets') : packets'[i] = packets[i]
         \/ cut' = cut /\ Len(packets') = Len(packets) /\ packets'[1].is # "Header"
            /\ \A i \in 2 .. Len(packets) : packets'[i] = packets[i]
  PROVE  WholeResults'
<1>1. PICK n \in Nat, m \in Nat : n = Len(packets) /\ m = Len(packets') /\ m <= n
  BY DEF TypesOK
<1>2. ASSUME NEW i \in 1 .. m, packets'[i].is = "Header"
      PROVE  LET r == packets'[i].result
             IN  /\ r.end \in Ends
                 /\ \A j \in 1 .. m : j > i /\ j - i + 0 <= Len(r.rows) + 3 => packets'[j].is = Nth(r, j - i + 0)
                 /\ ~ cut' => i + Len(r.rows) + 3 <= m
  <2>1. i \in 1 .. n /\ packets'[i] = packets[i] /\ \A j \in 1 .. m : j > i => j \in 1 .. n /\ packets'[j] = packets[j]
    BY <1>1, <1>2
  <2>2. PICK r : r = packets[i].result
    OBVIOUS
  <2>3. r.end \in Ends /\ Behind(i, r, 0) /\ (~ cut => i + Len(r.rows) + 3 <= n)
    BY <1>1, <1>2, <2>1, <2>2 DEF WholeResults
  <2>4. \A j \in 1 .. m : j > i /\ j - i + 0 <= Len(r.rows) + 3 => packets'[j].is = Nth(r, j - i + 0)
    BY <1>1, <2>1, <2>3 DEF Behind
  <2>5. ~ cut' => i + Len(r.rows) + 3 <= m
    BY <1>1, <2>3
  <2> QED
    BY <2>1, <2>2, <2>3, <2>4, <2>5
<1> QED
  BY <1>1, <1>2 DEF WholeResults, Behind

\* Every step keeps the results whole.
LEMMA WholeStep ==
  ASSUME TypesOK, Shape, WholeResults, [MysqlNext]_mysqlVars
  PROVE  WholeResults'
<1>1. CASE UNCHANGED <<packets, cut>>
  BY <1>1 DEF WholeResults, Behind
<1>2. CASE DriverCalls \/ HandleParams \/ SetStrict \/ WriteTooLarge \/ UNCHANGED mysqlVars
  <2>1. UNCHANGED <<packets, cut>>
    BY <1>2 DEF DriverCalls, Exec, Query, BeginTx, EndTx, Prepare, StmtExec, StmtQuery, StmtClose, RowsNext, RowsClose,
                HandleParams, SetStrict, WriteTooLarge, Untouched, mysqlVars
  <2> QED
    BY <1>1, <2>1
<1>3. CASE WriteAuth \/ WriteCommand \/ WriteExecute \/ WriteInFile
  <2>1. /\ steps[1] \in Asks
        /\ Panicked \/ WriteFails \/ Written(steps[1])
        /\ cut' = cut
    BY <1>3, WriteActionIs
  <2>2. CASE Panicked \/ WriteFails
    BY <1>1, <2>1, <2>2 DEF Panicked, WriteFails
  <2>3. CASE Written(steps[1])
    <3>1. PICK N \in Seq(PacketType) :
             packets' = packets \o N /\ (N = <<>> \/ (~ cut /\ IsAnswer(N, steps[1])))
      BY <2>3 DEF Written
    <3> QED
      BY <2>1, <3>1, WholeWritten
  <2> QED
    BY <2>1, <2>2, <2>3
<1>4. CASE Open
  <2>1. PICK a \in SentFor("Init") : packets' = Numbered(a, 0)
    BY <1>4 DEF Open
  <2>2. Numbered(a, 0) \in Seq(PacketType) /\ IsAnswer(Numbered(a, 0), "Init")
    BY SentIs
  <2>3. Len(packets') = 1 /\ packets'[1].is \in {"ERR", "Init", "OldInit"}
    BY <2>1, <2>2 DEF IsAnswer, IsOne, Asks, Commands
  <2>4. \A i \in 1 .. 1 : i = 1
    OBVIOUS
  <2> QED
    BY <2>3, <2>4 DEF WholeResults
<1>5. CASE Close
  <2>1. packets' = <<>>
    BY <1>5 DEF Close
  <2>2. Len(packets') = 0
    BY <2>1
  <2> QED
    BY <2>2 DEF WholeResults
<1>6. CASE NetworkCut
  <2>1. PICK m \in Nat : m = Len(packets)
    BY DEF TypesOK
  <2>2. PICK n \in 0 .. m : packets' = SubSeq(packets, 1, n)
    BY <1>6, <2>1 DEF NetworkCut, TypesOK
  <2>3. packets' \in Seq(PacketType) /\ Len(packets') = n /\ \A i \in 1 .. n : packets'[i] = packets[i]
    BY <2>1, <2>2, PrefixOf DEF TypesOK
  <2>4. cut' /\ Len(packets') <= Len(packets)
    BY <1>6, <2>1, <2>3 DEF NetworkCut
  <2> QED
    BY <2>3, <2>4, WholeLost
<1>7. CASE ReadFails
  <2>1. CASE UNCHANGED packets
    BY <1>1, <1>7, <2>1 DEF ReadFails
  <2>2. CASE packets' # packets
    <3>1. packets # <<>> /\ packets' = [packets EXCEPT ![1].is = "Torn"] /\ cut' = cut
      BY <1>7, <2>2 DEF ReadFails
    <3>2. PICK m \in Nat \ {0} : m = Len(packets)
      BY <3>1, TailOf DEF TypesOK
    <3>3. PICK p \in PacketType : p = [packets[1] EXCEPT !.is = "Torn"] /\ p.is = "Torn"
      <4>1. 1 \in 1 .. m /\ "Torn" \in Kinds
        BY DEF Kinds
      <4>2. packets[1] \in PacketType
        BY <3>2, <4>1 DEF TypesOK
      <4>3. PICK p : p = [packets[1] EXCEPT !.is = "Torn"]
        OBVIOUS
      <4>4. p \in PacketType /\ p.is = "Torn"
        BY <4>1, <4>2, <4>3 DEF PacketType
      <4> QED
        BY <4>3, <4>4
    <3>4. packets' = [packets EXCEPT ![1] = p]
      BY <3>1, <3>3
    <3>5. /\ packets' \in Seq(PacketType) /\ Len(packets') = m /\ packets'[1] = p
          /\ \A i \in 2 .. m : packets'[i] = packets[i]
      BY <3>2, <3>4 DEF TypesOK
    <3> QED
      BY <3>1, <3>2, <3>3, <3>5, WholeLost
  <2> QED
    BY <2>1, <2>2
<1>8. CASE Receives /\ ~ ReadFails
  <2>1. \E kinds : ReadPacket(kinds)
    BY <1>8 DEF Receives, ReadInit, ReadAuthResult, ReadHeader, ReadColumns, ReadUntilEOF, ReadSysVar, ReadWarning,
                ReadTextRow, ReadBinaryRow, ReadPrepared, ReadInFileEnd
  <2>2. Takes /\ cut' = cut
    BY <2>1, ReadIs DEF ReadPacket
  <2> QED
    BY <2>2, WholeTaken
<1> QED
  BY <1>2, <1>3, <1>4, <1>5, <1>6, <1>7, <1>8 DEF MysqlNext, Writes

\* Without open rows, or at the end of a call that failed, there is nothing to show.
LEMMA ClosedReading ==
  ASSUME ~ rows'.open, outcome' # "eof" \/ steps' # <<>>
  PROVE  RowsFollow' /\ AllRowsOrError'
BY DEF RowsFollow, AllRowsOrError

LEMMA FailsReading ==
  ASSUME TypesOK, Shape, RowsFollow, AllRowsOrError, steps # <<>>, steps[1] # "strict", NEW e, FailsWith(e),
         e \notin {"ok", "eof"}, UNCHANGED <<dsn, calling>>
  PROVE  RowsFollow' /\ AllRowsOrError'
<1>1. Retries \/ EndsWith(e)
  BY FailsIs DEF TypesOK
<1>2. CASE Retries
  <2>1. calling = "Params" /\ UNCHANGED rows
    BY <1>2 DEF Retries
  <2>2. ~ rows'.open
    BY <2>1 DEF Shape, RowsInHand
  <2>3. calling' = "Params"
    BY <2>1
  <2> QED
    BY <2>2, <2>3 DEF RowsFollow, AllRowsOrError
<1>3. CASE EndsWith(e)
  <2>1. steps' = <<>> /\ outcome' = e /\ (rows' = NoRows \/ rows' = rows)
    BY <1>3 DEF EndsWith
  <2>2. CASE rows' = NoRows
    BY <2>1, <2>2, ClosedReading DEF NoRows
  <2>3. CASE rows' = rows
    BY <2>1, <2>3 DEF RowsFollow, AllRowsOrError, At
  <2> QED
    BY <2>1, <2>2, <2>3
<1> QED
  BY <1>1, <1>2, <1>3

\* readColumns, or the drain of the columns of rows that are opened.
LEMMA ColumnsReading ==
  ASSUME TypesOK, Shape, RowsFollow, Takes, steps # <<>>, steps[1] \in {"columns", "drainColumns"}, rows.open,
         UNCHANGED <<rows, calling>>,
         IF packets[1].is = "EOF" THEN GoOn(<<>>) ELSE UNCHANGED <<steps, outcome>>
  PROVE  RowsFollow' /\ AllRowsOrError'
<1>1. PICK r : r = rows.result
  OBVIOUS
<1>2. r \in ResultType /\ r.end \in Ends
  BY <1>1 DEF TypesOK, RowsType, RowsFollow
<1>3. PICK l \in Nat : l = Len(r.rows)
  BY <1>2 DEF ResultType
<1>4. rows.given = 0 /\ (Behind(0, r, 0) \/ Behind(0, r, 1)) /\ Len(steps) = 1
  BY <1>1 DEF RowsFollow, At, Shape, RowsInHand, RowSteps
<1>5. CASE Behind(0, r, 0)
  <2>1. Behind(0, r, 0 + 1)' /\ packets[1].is = Nth(r, 0 + 1)
    BY <1>2, <1>3, <1>5, BehindTaken
  <2>2. packets[1].is = "Column" /\ Behind(0, r, 1)'
    BY <2>1 DEF Nth
  <2>3. UNCHANGED <<steps, outcome>>
    BY <2>2
  <2>4. Behind(0, rows.result, 1)'
    BY <1>1, <2>2 DEF Behind
  <2> QED
    BY <1>1, <1>2, <1>4, <2>3, <2>4 DEF RowsFollow, AllRowsOrError, At
<1>6. CASE Behind(0, r, 1)
  <2>1. Behind(0, r, 1 + 1)' /\ packets[1].is = Nth(r, 1 + 1)
    BY <1>2, <1>3, <1>6, BehindTaken
  <2>2. packets[1].is = "EOF" /\ Behind(0, r, 2)'
    BY <2>1 DEF Nth
  <2>3. GoOn(<<>>)
    BY <2>2
  <2>4. steps' = <<>> /\ outcome' = "ok"
    BY <1>4, <2>3, PlansTyped, LastGoesOn DEF TypesOK
  <2>5. Behind(0, rows.result, 2 + rows.given)'
    <3>1. rows'.result = r /\ 2 + rows'.given = 2
      BY <1>1, <1>4
    <3> QED
      BY <2>2, <3>1 DEF Behind
  <2>6. rows'.given <= Len(rows'.result.rows)
    BY <1>1, <1>3, <1>4
  <2> QED
    BY <1>1, <1>2, <2>4, <2>5, <2>6 DEF RowsFollow, AllRowsOrError, At
<1> QED
  BY <1>4, <1>5, <1>6

\* Next takes the row that comes next, or the end of the result.
LEMMA RowReading ==
  ASSUME TypesOK, Shape, RowsFollow, ReadTextRow \/ ReadBinaryRow
  PROVE  RowsFollow' /\ AllRowsOrError'
<1>1. /\ steps # <<>> /\ steps[1] \in {"row", "binaryRow"} /\ Takes
      /\ UNCHANGED <<dsn, strict, cut, calling>>
  BY ReadsWith DEF ReadTextRow, ReadBinaryRow, Reads
<1>2. rows.open
  BY <1>1 DEF Shape, RowsInHand, At
<1>3. PICK r \in ResultType, g \in Nat : r = rows.result /\ g = rows.given
  BY DEF TypesOK, RowsType
<1>4. r \in ResultType /\ r.end \in Ends
  BY <1>2, <1>3 DEF TypesOK, RowsType, RowsFollow
<1>5. PICK l \in Nat : l = Len(r.rows) /\ \A i \in 1 .. l : r.rows[i] \in RowKinds
  BY <1>4 DEF ResultType
<1>6. g <= l /\ Behind(0, r, 2 + g)
  BY <1>1, <1>2, <1>3, <1>5 DEF RowsFollow, At
<1>7. Behind(0, r, (2 + g) + 1)' /\ packets[1].is = Nth(r, (2 + g) + 1)
  <2>1. 2 + g \in Nat /\ (2 + g) + 1 <= l + 3
    BY <1>6
  <2> QED
    BY <1>1, <1>4, <1>5, <1>6, <2>1, BehindTaken
<1>8. packets[1].is = IF g < l THEN r.rows[g + 1] ELSE r.end
  <2>1. (2 + g) + 1 # 1 /\ (2 + g) + 1 # 2 /\ ((2 + g) + 1) - 2 = g + 1
    OBVIOUS
  <2>2. Nth(r, (2 + g) + 1) = IF g + 1 <= l THEN r.rows[g + 1] ELSE r.end
    BY <1>5, <2>1 DEF Nth
  <2> QED
    BY <1>7, <2>2
<1>9. packets[1].is \in Ends => g = l /\ packets[1].is = r.end
  <2>1. g < l => g + 1 \in 1 .. l
    OBVIOUS
  <2>2. g < l => packets[1].is \in RowKinds
    BY <1>5, <1>8, <2>1
  <2> QED
    BY <1>6, <1>8, <2>2 DEF Ends, RowKinds
<1>10. PICK e : /\ RowRead(packets[1].is, e)
                /\ (e = "eof" => packets[1].is = "EOF") /\ (e = "ok" => packets[1].is \notin Ends)
  <2>1. CASE ReadTextRow
    BY <1>1, <2>1 DEF ReadTextRow, Takes, Ends
  <2>2. CASE ReadBinaryRow
    BY <1>1, <2>2 DEF ReadBinaryRow, Takes, Ends
  <2> QED
    BY <2>1, <2>2
<1>11. steps' = <<>> /\ outcome' = e /\ rows'.result = r /\ rows'.given = IF e = "ok" THEN g + 1 ELSE g
  BY <1>3, <1>10 DEF RowRead, TypesOK, RowsType
<1>12. AllRowsOrError'
  <2> SUFFICES ASSUME outcome' = "eof"
               PROVE  rows'.given = Len(rows'.result.rows) /\ rows'.result.end = "EOF"
    BY DEF AllRowsOrError
  <2>1. e = "eof" /\ packets[1].is = "EOF"
    BY <1>10, <1>11
  <2> QED
    BY <1>5, <1>9, <1>11, <2>1 DEF Ends
<1>13. RowsFollow'
  <2>1. ASSUME e = "ok"
        PROVE  rows'.given <= Len(rows'.result.rows) /\ Behind(0, rows.result, 2 + rows.given)'
    <3>1. g < l
      BY <1>4, <1>6, <1>8, <1>10, <2>1
    <3>2. rows'.given = g + 1 /\ 2 + rows'.given = (2 + g) + 1
      BY <1>11, <2>1
    <3> QED
      BY <1>5, <1>7, <1>11, <3>1, <3>2 DEF Behind
  <2> QED
    BY <1>4, <1>11, <2>1 DEF RowsFollow, At
<1> QED
  BY <1>12, <1>13

LEMMA ReceivesReading ==
  ASSUME TypesOK, Shape, WholeResults, RowsFollow, AllRowsOrError, Receives, "noResult" \notin odd'
  PROVE  RowsFollow' /\ AllRowsOrError'
<1>1. CASE ReadFails
  <2>1. steps # <<>> /\ steps[1] # "strict"
    BY <1>1 DEF ReadFails, Now, Reads, Drains, TypesOK
  <2>2. (\E e \in {"bad", "sync", "local"} : FailsWith(e)) /\ UNCHANGED <<dsn, calling>>
    BY <1>1 DEF ReadFails
  <2> QED
    BY <2>1, <2>2, FailsReading
<1>2. CASE ReadInit \/ ReadAuthResult \/ ReadInFileEnd \/ ReadSysVar \/ ReadWarning \/ ReadPrepared
  <2>1. /\ steps # <<>> /\ steps[1] # "strict" /\ ~ rows.open /\ UNCHANGED <<dsn, strict, cut, calling>>
    <3>1. PICK kinds : ReadPacket(kinds) /\ kinds \subseteq Reads \ RowSteps
      BY <1>2 DEF ReadInit, ReadAuthResult, ReadInFileEnd, ReadSysVar, ReadWarning, ReadPrepared, Reads, RowSteps
    <3> QED
      BY <3>1, ReadsWith
  <2>2. \/ \E e \in {"refused", "local", "mysql", "warnings", "malformed"} : FailsWith(e)
        \/ UNCHANGED rows /\ \E more : GoOn(more)
        \/ UNCHANGED <<rows, steps, outcome>>
    <3>1. CASE ReadInit \/ ReadAuthResult \/ ReadInFileEnd \/ ReadSysVar
      BY <3>1 DEF ReadInit, ReadAuthResult, ReadInFileEnd, ReadSysVar, HandleOk
    <3>2. CASE ReadWarning
      BY <3>2 DEF ReadWarning
    <3>3. CASE ReadPrepared
      BY <3>3 DEF ReadPrepared, HandleOk
    <3> QED
      BY <1>2, <3>1, <3>2, <3>3
  <2>3. CASE \E e \in {"refused", "local", "mysql", "warnings", "malformed"} : FailsWith(e)
    BY <2>1, <2>3, FailsReading
  <2>4. CASE UNCHANGED rows /\ \E more : GoOn(more)
    <3>1. outcome' = "ok"
      BY <2>4 DEF GoOn
    <3> QED
      BY <2>1, <2>4, <3>1, ClosedReading
  <2>5. CASE UNCHANGED <<rows, steps, outcome>>
    BY <2>1, <2>5, ClosedReading
  <2> QED
    BY <2>2, <2>3, <2>4, <2>5
<1>3. CASE ReadHeader
  <2>1. PICK s : s = Head(steps)
    OBVIOUS
  <2>2. ReadPacket({s}) /\ s \in Headers
    BY <1>3, <2>1 DEF ReadHeader, Now, Headers
  <2>3. {s} \subseteq Reads /\ s \notin RowSteps
    BY <2>2 DEF Reads, Headers, RowSteps
  <2>4. /\ steps # <<>> /\ steps[1] = s /\ steps[1] # "strict" /\ Takes
        /\ UNCHANGED <<dsn, strict, cut, calling>> /\ ~ rows.open
    BY <2>2, <2>3, ReadsWith
  <2>5. PICK p \in PacketType : p = packets[1] /\ p = Head(packets)
    BY <2>4 DEF Takes
  <2>6. CASE p.is = "ERR"
    <3>1. FailsWith("mysql")
      BY <1>3, <2>5, <2>6 DEF ReadHeader
    <3> QED
      BY <2>4, <3>1, FailsReading
  <2>7. CASE p.is = "InFile"
    <3>1. UNCHANGED rows /\ outcome' = "ok"
      BY <1>3, <2>5, <2>7 DEF ReadHeader, GoOn
    <3> QED
      BY <2>4, <3>1, ClosedReading
  <2>8. CASE p.is = "Header"
    <3>1. GoOn(AfterHeader(s)) /\ OpensRows(p)
      BY <1>3, <2>1, <2>5, <2>8 DEF ReadHeader
    <3>2. CASE s \in {"queryHeader", "stmtQueryHeader"}
      <4>1. Len(steps) = 1
        BY <2>4, <3>2, LastStep
      <4>2. PICK a \in {"columns", "drainColumns"} : AfterHeader(s) = <<a>>
        BY <3>2 DEF AfterHeader
      <4>3. PICK more : more = <<a>>
        OBVIOUS
      <4>4. more \in Seq(Steps) /\ more # <<>> /\ more[1] = a
        BY <4>3, PlansTyped DEF Steps, Reads, Drains
      <4>5. steps' = more /\ outcome' = "ok"
        <5>1. GoOn(more)
          BY <3>1, <4>2, <4>3
        <5> QED
          BY <4>1, <4>4, <5>1, LastGoesOn DEF TypesOK
      <4>6. rows'.given = 0 /\ rows'.result = p.result
        BY <2>1, <3>1, <3>2 DEF OpensRows
      <4>7. PICK r : r = p.result /\ r.end \in Ends /\ Behind(0, r, 0)'
        BY <2>4, <2>5, <2>8, WholeTaken
      <4>8. Behind(0, rows.result, 0)' /\ rows'.result.end \in Ends
        BY <4>6, <4>7 DEF Behind
      <4>9. steps' # <<>> /\ steps'[1] = a
        BY <4>4, <4>5
      <4> QED
        BY <4>5, <4>6, <4>8, <4>9 DEF RowsFollow, AllRowsOrError, At
    <3>3. CASE s \notin {"queryHeader", "stmtQueryHeader"}
      <4>1. UNCHANGED rows /\ outcome' = "ok"
        BY <2>1, <3>1, <3>3 DEF OpensRows, GoOn
      <4> QED
        BY <2>4, <4>1, ClosedReading
    <3> QED
      BY <3>2, <3>3
  <2>9. CASE p.is = "OK"
    <3>1. outcome' = "ok" /\ (UNCHANGED rows \/ odd' = odd \cup {"noResult"})
      BY <1>3, <2>5, <2>9 DEF ReadHeader, HandleOk, GoOn
    <3> QED
      BY <2>4, <3>1, ClosedReading
  <2>10. CASE p.is \notin {"ERR", "InFile", "Header", "OK"}
    <3>1. PICK e \in {"outOfRange", "malformed"} : FailsWith(e)
      BY <1>3, <2>5, <2>10 DEF ReadHeader
    <3> QED
      BY <2>4, <3>1, FailsReading
  <2> QED
    BY <2>6, <2>7, <2>8, <2>9, <2>10
<1>4. CASE ReadColumns
  <2>1. steps # <<>> /\ steps[1] = "columns" /\ Takes /\ UNCHANGED <<dsn, strict, cut, calling>>
    BY <1>4, ReadsWith DEF ReadColumns, Reads
  <2>2. (IF packets[1].is = "EOF" THEN GoOn(<<>>) ELSE UNCHANGED <<steps, outcome>>) /\ UNCHANGED rows
    BY <1>4, <2>1 DEF ReadColumns, Takes
  <2>3. CASE rows.open
    BY <2>1, <2>2, <2>3, ColumnsReading
  <2>4. CASE ~ rows.open
    BY <2>1, <2>2, <2>4, ClosedReading DEF GoOn
  <2> QED
    BY <2>3, <2>4
<1>5. CASE ReadUntilEOF
  <2>1. steps # <<>> /\ steps[1] \in Drains /\ Takes /\ UNCHANGED <<dsn, strict, cut, calling>>
    BY <1>5, ReadsWith DEF ReadUntilEOF, Reads
  <2>2. \/ GoOn(<<>>) /\ packets[1].is \in {"EOF", "Huge"} /\ rows' = IF calling = "RowsClose" THEN NoRows ELSE rows
        \/ UNCHANGED <<steps, outcome, rows>> /\ packets[1].is \notin {"EOF", "Huge"}
    BY <1>5, <2>1 DEF ReadUntilEOF, Takes
  <2>3. CASE ~ rows'.open
    BY <2>1, <2>2, <2>3, ClosedReading DEF GoOn
  <2>4. CASE rows'.open /\ steps[1] = "drainColumns"
    <3>1. UNCHANGED rows
      BY <2>2, <2>4 DEF NoRows
    <3>2. PICK r : r = rows.result
      OBVIOUS
    <3>3. packets[1].is # "Huge"
      <4>1. r \in ResultType /\ (Behind(0, r, 0) \/ Behind(0, r, 1))
        BY <2>1, <2>4, <3>1, <3>2 DEF RowsFollow, At, TypesOK, RowsType
      <4>2. PICK l \in Nat : l = Len(r.rows)
        BY <4>1 DEF ResultType
      <4>3. packets[1].is \in {Nth(r, 0 + 1), Nth(r, 1 + 1)}
        BY <2>1, <4>1, <4>2, BehindTaken
      <4> QED
        BY <4>3 DEF Nth
    <3> QED
      BY <2>1, <2>2, <2>4, <3>1, <3>3, ColumnsReading
  <2>5. CASE rows'.open /\ steps[1] # "drainColumns"
    <3>1. rows.open
      BY <2>2, <2>5 DEF NoRows
    <3>2. steps[1] = "drainRows"
      BY <2>1, <2>5, <3>1 DEF Shape, RowsInHand, RowSteps, Drains
    <3>3. calling = "RowsClose"
      BY <2>1, <3>1, <3>2 DEF Shape, RowsInHand, At
    <3>4. UNCHANGED <<steps, outcome, rows>>
      BY <2>2, <2>5, <3>3 DEF NoRows
    <3> QED
      BY <2>1, <3>2, <3>4 DEF RowsFollow, AllRowsOrError, At
  <2> QED
    BY <2>3, <2>4, <2>5
<1>6. CASE ReadTextRow \/ ReadBinaryRow
  BY <1>6, RowReading
<1> QED
  BY <1>1, <1>2, <1>3, <1>4, <1>5, <1>6 DEF Receives

LEMMA OthersReading ==
  ASSUME TypesOK, Shape, RowsFollow, AllRowsOrError, Open \/ HandleParams \/ SetStrict \/ Close \/ DriverCalls \/ Writes
  PROVE  RowsFollow' /\ AllRowsOrError'
<1>1. CASE Open \/ Close
  BY <1>1, ClosedReading DEF Open, Close, Calls, Unopened, TypesOK
<1>2. CASE HandleParams \/ SetStrict
  <2>1. steps # <<>> /\ steps[1] \in {"params", "strict"}
    BY <1>2 DEF HandleParams, SetStrict, Now, TypesOK
  <2>2. ~ rows.open
    BY <2>1 DEF Shape, RowsInHand, RowSteps
  <2> QED
    BY <1>2, <2>2, ClosedReading DEF HandleParams, SetStrict, Calls, GoOn
<1>3. CASE Writes
  <2>1. CASE WriteTooLarge
    <3>1. steps # <<>> /\ steps[1] # "strict" /\ FailsWith("tooLarge") /\ UNCHANGED <<dsn, calling>>
      BY <2>1 DEF WriteTooLarge, Now, TypesOK
    <3> QED
      BY <3>1, FailsReading
  <2>2. CASE WriteAuth \/ WriteCommand \/ WriteExecute \/ WriteInFile
    <3>1. /\ steps # <<>> /\ steps[1] \in Asks
          /\ Panicked \/ WriteFails \/ Written(steps[1])
          /\ UNCHANGED <<dsn, strict, cut, calling, inTx, odd>>
      BY <2>2, WriteActionIs
    <3>2. steps[1] # "strict" /\ steps[1] \notin RowSteps
      BY <3>1 DEF Asks, Commands, RowSteps
    <3>3. ~ rows.open
      BY <3>1, <3>2 DEF Shape, RowsInHand
    <3>4. CASE WriteFails
      BY <3>1, <3>2, <3>4, FailsReading DEF WriteFails
    <3>5. CASE Panicked
      BY <3>3, <3>5, ClosedReading DEF Panicked
    <3>6. CASE Written(steps[1])
      BY <3>3, <3>6, ClosedReading DEF Written, GoOn
    <3> QED
      BY <3>1, <3>4, <3>5, <3>6
  <2> QED
    BY <1>3, <2>1, <2>2 DEF Writes
<1>4. CASE RowsNext
  <2>1. rows.open /\ UNCHANGED <<rows, packets>> /\ steps = <<>> /\ outcome = "ok"
    BY <1>4 DEF RowsNext, Untouched
  <2>2. outcome' # "eof"
    BY <1>4 DEF RowsNext, Checked, Calls
  <2>3. (steps' = <<>> /\ outcome' = "invalid") \/ steps' \in {<<"row">>, <<"binaryRow">>}
    BY <1>4 DEF RowsNext, Checked, Calls
  <2>4. (steps' = <<>> /\ outcome' = "invalid") \/ (steps' # <<>> /\ steps'[1] \in {"row", "binaryRow"})
    BY <2>3
  <2>5. /\ rows.result.end \in Ends /\ rows.given <= Len(rows.result.rows)
        /\ Behind(0, rows.result, 2 + rows.given)
    BY <2>1 DEF RowsFollow
  <2>6. Behind(0, rows.result, 2 + rows.given)'
    BY <2>1, <2>5 DEF Behind
  <2> QED
    BY <2>1, <2>2, <2>4, <2>5, <2>6 DEF RowsFollow, AllRowsOrError, At
<1>5. CASE RowsClose
  <2>1. CASE rows.done \/ ~ netConn
    BY <1>5, <2>1, ClosedReading DEF RowsClose, NoRows
  <2>2. CASE ~ (rows.done \/ ~ netConn)
    <3>1. steps' = <<"drainRows">> /\ calling' = "RowsClose" /\ UNCHANGED rows
      BY <1>5, <2>2 DEF RowsClose, Calls
    <3>2. steps' # <<>> /\ steps'[1] = "drainRows"
      BY <3>1
    <3> QED
      BY <3>1, <3>2 DEF RowsFollow, AllRowsOrError, At
  <2> QED
    BY <2>1, <2>2
<1>6. CASE DriverCalls /\ ~ RowsNext /\ ~ RowsClose
  <2>1. ~ rows.open /\ UNCHANGED rows
    BY <1>6 DEF DriverCalls, Exec, Query, BeginTx, EndTx, Prepare, StmtExec, StmtQuery, StmtClose, Callable, Free
  <2>2. outcome' \in {"ok", "bad", "invalid"}
    BY <1>6 DEF DriverCalls, Exec, Query, BeginTx, EndTx, Prepare, StmtExec, StmtQuery, StmtClose, Checked, Calls
  <2> QED
    BY <2>1, <2>2, ClosedReading
<1> QED
  BY <1>1, <1>2, <1>3, <1>4, <1>5, <1>6 DEF DriverCalls

\* The rows that follow stay those of the result, when the network breaks too.
LEMMA KeptReading ==
  ASSUME TypesOK, RowsFollow, AllRowsOrError, NetworkCut \/ UNCHANGED mysqlVars
  PROVE  RowsFollow' /\ AllRowsOrError'
<1>1. UNCHANGED <<calling, steps, outcome, rows>>
  BY DEF NetworkCut, mysqlVars
<1>2. PICK m \in Nat : m = Len(packets)
  BY DEF TypesOK
<1>3. PICK n \in 0 .. m : Len(packets') = n /\ \A i \in 1 .. n : packets'[i] = packets[i]
  <2>1. CASE UNCHANGED mysqlVars
    BY <1>2, <2>1 DEF mysqlVars
  <2>2. CASE NetworkCut
    <3>1. PICK n \in 0 .. m : packets' = SubSeq(packets, 1, n)
      BY <1>2, <2>2 DEF NetworkCut, TypesOK
    <3> QED
      BY <1>2, <3>1, PrefixOf DEF TypesOK
  <2> QED
    BY <2>1, <2>2
<1>4. ASSUME NEW r, NEW k, Behind(0, r, k)
      PROVE  Behind(0, r, k)'
  BY <1>2, <1>3, <1>4 DEF Behind
<1>5. PICK r, g : r = rows.result /\ g = rows.given /\ r = rows'.result /\ g = rows'.given
  BY <1>1
<1>6. /\ Behind(0, r, 0) => Behind(0, rows.result, 0)'
      /\ Behind(0, r, 1) => Behind(0, rows.result, 1)'
      /\ Behind(0, r, 2 + g) => Behind(0, rows.result, 2 + rows.given)'
  <2>1. /\ Behind(0, r, 0) => Behind(0, r, 0)'
        /\ Behind(0, r, 1) => Behind(0, r, 1)'
        /\ Behind(0, r, 2 + g) => Behind(0, r, 2 + g)'
    BY <1>4
  <2> QED
    BY <1>5, <2>1 DEF Behind
<1>7. RowsFollow'
  BY <1>1, <1>5, <1>6 DEF RowsFollow, At
<1> QED
  BY <1>1, <1>7 DEF AllRowsOrError

\* A result that was not there stays, until Close.
LEMMA NoResultStays ==
  ASSUME MysqlNext, "noResult" \notin odd'
  PROVE  "noResult" \notin odd \/ Close
<1>1. CASE Open \/ HandleParams \/ SetStrict \/ NetworkCut
  BY <1>1 DEF Open, HandleParams, SetStrict, NetworkCut, Untouched
<1>2. CASE DriverCalls
  BY <1>2 DEF DriverCalls, Exec, Query, BeginTx, EndTx, Prepare, StmtExec, StmtQuery, StmtClose, RowsNext,
              RowsClose, Untouched
<1>3. CASE Writes
  BY <1>3 DEF Writes, WriteAuth, WriteCommand, WriteExecute, WriteTooLarge, WriteInFile
<1>4. CASE Receives /\ ~ ReadHeader /\ ~ ReadPrepared
  BY <1>4 DEF Receives, ReadInit, ReadAuthResult, ReadColumns, ReadUntilEOF, ReadSysVar, ReadWarning,
              ReadTextRow, ReadBinaryRow, RowRead, ReadInFileEnd, ReadFails
<1>5. CASE ReadHeader
  <2>1. CASE Head(packets).is = "OK"
    BY <1>5, <2>1 DEF ReadHeader
  <2>2. CASE Head(packets).is # "OK"
    BY <1>5, <2>2 DEF ReadHeader
  <2> QED
    BY <2>1, <2>2
<1>6. CASE ReadPrepared
  BY <1>6 DEF ReadPrepared
<1> QED
  BY <1>1, <1>2, <1>3, <1>4, <1>5, <1>6 DEF MysqlNext

LEMMA ReadingStep ==
  ASSUME TypesOK, Shape, Reading, [MysqlNext]_mysqlVars
  PROVE  Reading'
<1>1. WholeResults'
  BY WholeStep DEF Reading
<1>2. ASSUME "noResult" \notin odd'
      PROVE  RowsFollow' /\ AllRowsOrError'
  <2>1. CASE UNCHANGED mysqlVars
    <3>1. RowsFollow /\ AllRowsOrError
      BY <1>2, <2>1 DEF mysqlVars, Reading
    <3> QED
      BY <2>1, <3>1, KeptReading
  <2>2. CASE Close
    <3>1. ~ rows'.open /\ outcome' = "ok"
      BY <2>2 DEF Close
    <3> QED
      BY <3>1, ClosedReading
  <2>3. CASE MysqlNext /\ ~ Close
    <3>1. WholeResults /\ RowsFollow /\ AllRowsOrError
      BY <1>2, <2>3, NoResultStays DEF Reading
    <3>2. CASE Receives
      BY <1>2, <3>1, <3>2, ReceivesReading
    <3>3. CASE Open \/ HandleParams \/ SetStrict \/ DriverCalls \/ Writes
      BY <3>1, <3>3, OthersReading
    <3>4. CASE NetworkCut
      BY <3>1, <3>4, KeptReading
    <3> QED
      BY <2>3, <3>2, <3>3, <3>4 DEF MysqlNext
  <2> QED
    BY <2>1, <2>2, <2>3
<1> QED
  BY <1>1, <1>2 DEF Reading

\* rows.go, packets.go: rows that end with io.EOF are all the rows of their
\* result, and none is lost to a broken network, to an error in the middle, to
\* packets that were left of another call or to a row that starts like the end.
\* (The rows of a statement that has no result are not those of any.)
THEOREM RowsAreAllOrError == MysqlSpec => []("noResult" \notin odd => AllRowsOrError)
<1>1. MysqlInit => Reading
  <2> SUFFICES ASSUME MysqlInit PROVE Reading
    OBVIOUS
  <2>1. Len(packets) = 0 /\ ~ rows.open /\ outcome = "ok"
    BY DEF MysqlInit, NoRows
  <2> QED
    BY <2>1 DEF Reading, WholeResults, RowsFollow, AllRowsOrError
<1>2. TypesOK /\ Shape /\ Reading /\ [MysqlNext]_mysqlVars => Reading'
  BY ReadingStep
<1>3. Reading => ("noResult" \notin odd => AllRowsOrError)
  BY DEF Reading
<1> QED
  BY <1>1, <1>2, <1>3, MysqlTypes, CallsHaveShape, PTL DEF MysqlSpec
=============================================================================
