----------------------------- MODULE MysqlConn -----------------------------
(***************************************************************************)
(* One connection of the MySQL driver with which a server reads users and  *)
(* foods when it starts: the handshake, queries, prepared statements and   *)
(* the rows that are read from them, packet by packet, as database/sql     *)
(* calls the driver: one call at a time, rows closed before the next.      *)
(***************************************************************************)
EXTENDS Integers, SequencesExt

CONSTANTS SequenceMod,   \* sequence is a uint8: 256 in the code
          MaxRows,       \* BOUND: rows of a result
          MaxLeft,       \* BOUND: packets left unread, when another call is made
          Dsns           \* parameters of the data source name

ASSUME MysqlAssumption ==
  /\ SequenceMod \in Nat \ {0} /\ MaxRows \in Nat /\ MaxLeft \in Nat
  /\ Dsns \subseteq [charsets : Nat, strict : BOOLEAN, allowOld : BOOLEAN, allowClear : BOOLEAN]

VARIABLES
  dsn,          \* cfg
  netConn,      \* mc.netConn is not nil
  sequence,     \* mc.sequence
  strict,       \* mc.strict
  packets,      \* what MySQL has sent and the driver has not read
  received,     \* how many of these packets mc.buf has, the first one perhaps in part
  cut,          \* the network is broken: no packet follows
  calling,      \* the call under way or the last one; "none" before Open
  steps,        \* the packets this call still writes (in capitals) and reads
  outcome,      \* of the call, once steps is empty
  rows, stmt,   \* the driver.Rows and the driver.Stmt of the connection
  inTx,
  odd           \* what has happened on the connection that the driver does not handle

mysqlVars == <<dsn, netConn, sequence, strict, packets, received, cut,
               calling, steps, outcome, rows, stmt, inTx, odd>>

-----------------------------------------------------------------------------
(* What MySQL sends.  A packet of 16 MB and more is split in two, the second *)
(* of which is empty when the length is a multiple of 16 MB ("Exact");       *)
(* "Huge" is one that starts with the length 0xfe of a long first value;     *)
(* "Odd" one with a value the driver cannot convert.                         *)

NoResult == [rows |-> <<>>, end |-> "none"]

Packet(kind) == [is |-> kind, seq |-> 0, info |-> {}, result |-> NoResult]

Splits(kind) == IF kind \in {"Long", "Huge", "Exact"} THEN 2 ELSE 1

Numbered(ps, first) ==
  [i \in DOMAIN ps |->
     [ps[i] EXCEPT !.seq = (first + i - 1 + Cardinality({j \in 1 .. i - 1 : Splits(ps[j].is) = 2})) % SequenceMod]]

RowKinds == {"Row", "Long", "Huge", "Exact", "Odd"}

Results == [rows : UNION {[1 .. n -> RowKinds] : n \in 0 .. MaxRows}, end : {"EOF", "ERR"}]

\* A binary row starts with 0.
BinaryResults == {r \in Results : \A i \in DOMAIN r.rows : r.rows[i] # "Huge"}

ResultSet(r) ==
  <<[Packet("Header") EXCEPT !.result = r], Packet("Column"), Packet("EOF")>>
    \o [i \in DOMAIN r.rows |-> Packet(r.rows[i])] \o <<Packet(r.end)>>

OKs == {<<[Packet("OK") EXCEPT !.info = w]>> : w \in SUBSET {"warned"}}

Prepareds ==
  {<<[Packet("Prepared") EXCEPT !.info = i]>>
     \o (IF "params" \in i THEN <<Packet("Column"), Packet("EOF")>> ELSE <<>>)
     \o (IF "columns" \in i THEN <<Packet("Column"), Packet("EOF")>> ELSE <<>>)
     : i \in SUBSET {"params", "columns", "warned"}}

SentFor(step) ==
  LET sets(rs) == {ResultSet(r) : r \in rs}
      one == {[rows |-> <<"Row">>, end |-> "EOF"], [rows |-> <<>>, end |-> "ERR"]}
      errs == {<<Packet("ERR")>>}
  IN  CASE step = "Auth" -> errs \cup {<<Packet(k)>> : k \in {"OK", "OldAuth", "ClearAuth", "OtherAuth"}}
        [] step \in {"OldPassword", "ClearPassword"} -> errs \cup {<<Packet("OK")>>}
        [] step = "SysVar" -> errs \cup sets(one)
        [] step \in {"Charset", "Simple", "InFileData"} -> errs \cup OKs
        [] step = "Init" -> errs \cup {<<Packet("Init")>>, <<Packet("OldInit")>>}
        [] step = "Command" -> errs \cup OKs \cup {<<Packet("InFile")>>} \cup sets(Results)
        [] step = "Prepare" -> errs \cup Prepareds
        [] step = "Execute" -> errs \cup IF "columns" \in stmt.info THEN sets(BinaryResults) ELSE OKs
        [] step = "StmtClose" -> {<<>>}
        [] step = "Warnings" -> errs \cup sets(one)
-----------------------------------------------------------------------------
(* How a call goes on.                                                     *)

NoRows == [open |-> FALSE, done |-> TRUE, protocol |-> "none", given |-> 0, result |-> NoResult]
NoStmt == [open |-> FALSE, info |-> {}, cached |-> FALSE]

Now(kinds) == steps # <<>> /\ Head(steps) \in kinds

\* The packet of this step is read or written; more comes before the rest.
GoOn(more) == steps' = more \o Tail(steps) /\ outcome' = "ok"

\* handleParams: another charset is tried if the first is refused, and not
\* tried if it is not.
OtherParams == IF \E i \in 2 .. Len(steps) : steps[i] = "strict" THEN <<"strict">> ELSE <<>>
NextCharset == IF calling = "Params" THEN SelectInSeq(Tail(steps), LAMBDA s : s = "Charset") ELSE 0

\* The call fails.  Open then closes the connection.
FailsWith(e) ==
  IF NextCharset # 0
  THEN /\ steps' = SubSeq(Tail(steps), NextCharset, Len(steps) - 1)
       /\ UNCHANGED <<outcome, rows, stmt>>
  ELSE /\ steps' = <<>> /\ outcome' = e
       /\ rows' = IF calling \in {"Query", "StmtQuery", "RowsClose"} THEN NoRows ELSE rows
       /\ stmt' = IF calling = "Prepare" THEN NoStmt ELSE stmt

Opening == calling \in {"Open", "Params"}
OpenCloses == IF Opening /\ NextCharset = 0 THEN netConn' = FALSE ELSE UNCHANGED netConn

\* database/sql calls the driver.
Calls(name, plan) == calling' = name /\ steps' = plan /\ outcome' = "ok"

Broken == outcome = "bad" /\ ~ inTx /\ ~ rows.open
Opened == steps = <<>> /\ calling # "none" /\ calling # "Open" /\ ~ (Opening /\ outcome # "ok")
Panics == {"panic", "outOfRange"}
Free == Opened /\ ~ Broken /\ outcome \notin Panics /\ ~ rows.open
Callable == Free /\ Len(packets) <= MaxLeft

\* A call on a closed connection fails at once.
Checked(name, plan, e) ==
  IF netConn THEN Calls(name, plan) ELSE calling' = name /\ steps' = <<>> /\ outcome' = e
-----------------------------------------------------------------------------
(* The network and the buffer.                                             *)

\* writePacket: it may fail on a broken network.  A panic if netConn is nil.
Write(answers, seq) ==
  IF ~ netConn
  THEN /\ steps' = <<>> /\ outcome' = "panic"
       /\ UNCHANGED <<netConn, sequence, packets, received, rows, stmt>>
  ELSE \/ /\ cut
          /\ FailsWith("bad") /\ OpenCloses
          /\ UNCHANGED <<sequence, packets, received>>
       \/ /\ GoOn(<<>>)
          /\ sequence' = (seq + 1) % SequenceMod
          /\ \E a \in answers :
               packets' = packets \o (IF cut THEN <<>> ELSE Numbered(a, seq + 1))
          /\ UNCHANGED <<netConn, received, rows, stmt>>

\* takeBuffer: nothing may be left in the buffer that a packet is built in.
WriteBuffered(step, seq) ==
  IF received > 0
  THEN /\ FailsWith("bad") /\ OpenCloses
       /\ UNCHANGED <<sequence, packets, received>>
  ELSE Write(SentFor(step), seq)

\* buffer.fill: more packets may have come in with the one that is taken.
Fills == received' \in (IF received = 0 THEN 0 ELSE received - 1) .. Len(packets) - 1

\* Slip: the second part of a split packet is not counted.
ReadPacketUncounted(kinds) ==
  /\ Now(kinds)
  /\ packets # <<>>
  /\ Head(packets).is \notin {"Exact", "Torn"} /\ Head(packets).seq = sequence
  /\ sequence' = (sequence + 1) % SequenceMod
  /\ packets' = Tail(packets)
  /\ Fills
  /\ UNCHANGED <<dsn, strict, cut, calling>>

\* readPacket returns the next packet.
ReadPacket(kinds) ==
  /\ Now(kinds)
  /\ packets # <<>>
  /\ Head(packets).is \notin {"Exact", "Torn"} /\ Head(packets).seq = sequence
  /\ sequence' = (sequence + Splits(Head(packets).is)) % SequenceMod
  /\ packets' = Tail(packets)
  /\ Fills
  /\ UNCHANGED <<dsn, strict, cut, calling>>

Drains == {"drainColumns", "drainRows", "drainDefinitions"}
Reads == {"init", "authResult", "authResult2", "sysVarHeader", "charsetHeader", "execHeader", "queryHeader",
          "stmtHeader", "stmtQueryHeader", "warningsHeader", "columns", "sysVarRow", "warningRow",
          "row", "binaryRow", "prepared", "inFileResult", "inFileEnd"} \cup Drains

\* readPacket fails: on the network and for an empty packet it closes the
\* connection, for a packet out of sequence it has read the header only.
ReadFails ==
  /\ Now(Reads)
  /\ LET as(e) == IF Head(steps) = "inFileEnd" THEN "local" ELSE e
     IN  \/ /\ \/ packets = <<>> /\ cut
               \/ packets # <<>> /\ Head(packets).is \in {"Exact", "Torn"}
            /\ netConn' = FALSE
            /\ FailsWith(as("bad"))
            /\ UNCHANGED <<packets, received>>
         \/ /\ packets # <<>> /\ Head(packets).seq # sequence
            /\ packets' = [packets EXCEPT ![1].is = "Torn"]
            /\ received' \in received .. Len(packets)
            /\ FailsWith(as("sync")) /\ OpenCloses
  /\ UNCHANGED <<dsn, sequence, strict, cut, calling, inTx, odd>>

NetworkCut ==
  /\ netConn /\ ~ cut
  /\ cut' = TRUE
  /\ \E n \in received .. Len(packets) : packets' = SubSeq(packets, 1, n)
  /\ UNCHANGED <<dsn, netConn, sequence, strict, received, calling, steps, outcome, rows, stmt, inTx, odd>>
-----------------------------------------------------------------------------
(* Open and Close.                                                         *)

MysqlInit ==
  /\ dsn \in Dsns
  /\ netConn = FALSE /\ sequence = 0 /\ strict = FALSE
  /\ packets = <<>> /\ received = 0 /\ cut = FALSE
  /\ calling = "none" /\ steps = <<>> /\ outcome = "ok"
  /\ rows = NoRows /\ stmt = NoStmt /\ inTx = FALSE /\ odd = {}

Untouched == UNCHANGED <<dsn, netConn, sequence, strict, packets, received, cut, odd>>

Open ==
  /\ calling = "none"
  /\ netConn' = TRUE
  /\ \E a \in SentFor("Init") :
       /\ Calls("Open", <<"init", "Auth", "authResult", "SysVar", "sysVarHeader", "params">>)
       /\ packets' = Numbered(a, 0)
  /\ UNCHANGED <<dsn, sequence, strict, received, cut, rows, stmt, inTx, odd>>

\* handleParams.
\* They come in the order of a map: strict before or after charset.
ParamPlans ==
  LET tries == [i \in 1 .. 2 * dsn.charsets |-> IF i % 2 = 1 THEN "Charset" ELSE "charsetHeader"]
  IN  IF dsn.strict THEN {<<"strict">> \o tries, tries \o <<"strict">>} ELSE {tries}

HandleParams ==
  /\ Now({"params"})
  /\ \E plan \in ParamPlans : Calls("Params", plan)
  /\ Untouched /\ UNCHANGED <<rows, stmt, inTx>>

SetStrict ==
  /\ Now({"strict"})
  /\ strict' = TRUE
  /\ GoOn(<<>>)
  /\ UNCHANGED <<dsn, netConn, sequence, packets, received, cut, calling, rows, stmt, inTx, odd>>

\* database/sql closes a connection that is broken, failed to open or is not
\* used any more.  (And the end of the process, in a panic.)
Close ==
  /\ steps = <<>> /\ calling # "none" /\ ~ rows.open
  /\ inTx => outcome \in Panics
  /\ netConn' = FALSE /\ sequence' = 0 /\ strict' = FALSE
  /\ packets' = <<>> /\ received' = 0 /\ cut' = FALSE
  /\ calling' = "none" /\ outcome' = "ok"
  /\ stmt' = NoStmt /\ inTx' = FALSE /\ odd' = {}
  /\ UNCHANGED <<dsn, steps, rows>>

ReadInit ==
  /\ ReadPacket({"init"})
  /\ IF Head(packets).is = "Init"
     THEN GoOn(<<>>) /\ UNCHANGED <<netConn, rows, stmt>>
     ELSE FailsWith("refused") /\ netConn' = FALSE
  /\ UNCHANGED <<inTx, odd>>

\* handleOkPacket: in strict mode warnings are asked for and make an error.
Warned(p) == strict /\ "warned" \in p.info
HandleOk(p) == GoOn(IF Warned(p) THEN <<"Warnings", "warningsHeader">> ELSE <<>>)

\* readResultOK, and the answer to another authentication method.
ReadAuthResult ==
  /\ ReadPacket({"authResult", "authResult2"})
  /\ LET p == Head(packets)
         switch == Head(steps) = "authResult"
     IN  IF p.is = "OK" THEN HandleOk(p) /\ UNCHANGED <<netConn, rows, stmt>>
         ELSE IF switch /\ p.is = "OldAuth" /\ dsn.allowOld
         THEN GoOn(<<"OldPassword", "authResult2">>) /\ UNCHANGED <<netConn, rows, stmt>>
         ELSE IF switch /\ p.is = "ClearAuth" /\ dsn.allowClear
         THEN GoOn(<<"ClearPassword", "authResult2">>) /\ UNCHANGED <<netConn, rows, stmt>>
         ELSE FailsWith("refused") /\ netConn' = FALSE
  /\ UNCHANGED <<inTx, odd>>

WriteAuth ==
  /\ Now({"Auth", "OldPassword", "ClearPassword"})
  /\ WriteBuffered(Head(steps), sequence)
  /\ UNCHANGED <<dsn, strict, cut, calling, inTx, odd>>

Commands == {"SysVar", "Charset", "Simple", "Command", "Prepare", "StmtClose", "Warnings"}

\* writeCommandPacketStr, writeCommandPacketUint32.
WriteCommand ==
  /\ Now(Commands)
  /\ WriteBuffered(Head(steps), 0)
  /\ UNCHANGED <<dsn, strict, cut, calling, inTx, odd>>

\* writeExecutePacket.  Long values go before it, in packets MySQL does not answer.
WriteExecute ==
  /\ Now({"Execute"})
  /\ WriteBuffered("Execute", 0)
  /\ UNCHANGED <<dsn, strict, cut, calling, inTx, odd>>

\* A command of the caller's is longer than max_allowed_packet.
WriteTooLarge ==
  /\ Now({"Command", "Prepare", "Execute"}) /\ received = 0
  /\ sequence' = 0
  /\ FailsWith("tooLarge")
  /\ UNCHANGED <<dsn, netConn, strict, packets, received, cut, calling, inTx, odd>>

\* handleInFileRequest: the packets of the file, and an empty one.
WriteInFile ==
  /\ Now({"InFileData"})
  /\ \E n \in 0 .. 1 : Write(SentFor("InFileData"), (sequence + n) % SequenceMod)
  /\ UNCHANGED <<dsn, strict, cut, calling, inTx, odd>>
-----------------------------------------------------------------------------
(* Replies.                                                                *)

\* Slip: a statement's result is drained to the end of its columns only.
AfterHeaderShort(step) ==
  CASE step = "sysVarHeader" -> <<"drainColumns", "sysVarRow", "drainRows">>
    [] step \in {"charsetHeader", "execHeader", "stmtHeader"} -> <<"drainColumns">>
    [] step = "queryHeader" -> <<"columns">>
    [] step = "stmtQueryHeader" -> IF stmt.cached THEN <<"drainColumns">> ELSE <<"columns">>
    [] step = "warningsHeader" -> <<"columns", "warningRow">>

\* What is read after the header of a result set.
AfterHeader(step) ==
  CASE step = "sysVarHeader" -> <<"drainColumns", "sysVarRow", "drainRows">>
    [] step \in {"charsetHeader", "execHeader", "stmtHeader"} -> <<"drainColumns", "drainRows">>
    [] step = "queryHeader" -> <<"columns">>
    [] step = "stmtQueryHeader" -> IF stmt.cached THEN <<"drainColumns">> ELSE <<"columns">>
    [] step = "warningsHeader" -> <<"columns", "warningRow">>

OpensRows(p) ==
  IF Head(steps) \in {"queryHeader", "stmtQueryHeader"}
  THEN rows' = [open |-> TRUE, done |-> FALSE, given |-> 0, result |-> p.result,
                protocol |-> IF Head(steps) = "queryHeader" THEN "text" ELSE "binary"]
  ELSE UNCHANGED rows

\* readResultSetHeaderPacket.
ReadHeader ==
  /\ Now({"sysVarHeader", "charsetHeader", "execHeader", "queryHeader", "stmtHeader", "stmtQueryHeader", "warningsHeader"})
  /\ packets # <<>>
  /\ LET p == Head(packets)
         s == Head(steps)
     IN  /\ ReadPacket({s})
         /\ CASE p.is = "ERR" -> FailsWith("mysql") /\ OpenCloses /\ UNCHANGED <<inTx, odd>>
              [] p.is = "InFile" ->
                   /\ \E end \in {"inFileResult", "inFileEnd"} : GoOn(<<"InFileData", end>>)
                   /\ UNCHANGED <<netConn, rows, stmt, inTx, odd>>
              [] p.is = "Header" ->
                   GoOn(AfterHeader(s)) /\ OpensRows(p) /\ UNCHANGED <<netConn, stmt, inTx, odd>>
              [] p.is = "OK" ->
                   /\ IF s = "charsetHeader" /\ ~ Warned(p)
                      THEN steps' = OtherParams /\ outcome' = "ok"
                      ELSE HandleOk(p)
                   /\ IF s = "stmtQueryHeader" /\ ~ Warned(p)
                      THEN OpensRows(p) /\ odd' = odd \cup {"noResult"}
                      ELSE UNCHANGED <<rows, odd>>
                   /\ inTx' = (inTx \/ (calling = "BeginTx" /\ ~ Warned(p)))
                   /\ UNCHANGED <<netConn, stmt>>
              [] OTHER ->   \* left of another reply, it has not the length of a header
                   /\ FailsWith(IF p.is = "EOF" THEN "outOfRange" ELSE "malformed") /\ OpenCloses
                   /\ UNCHANGED <<inTx, odd>>

\* readColumns.
ReadColumns ==
  /\ ReadPacket({"columns"})
  /\ IF Head(packets).is = "EOF"
     THEN GoOn(<<>>) /\ stmt' = [stmt EXCEPT !.cached = stmt.open /\ (@ \/ calling = "StmtQuery")]
     ELSE UNCHANGED <<steps, outcome, stmt>>
  /\ UNCHANGED <<netConn, rows, inTx, odd>>

\* readUntilEOF.  It takes a packet that starts like EOF for one, and waits
\* for EOF when the rows end with an error.
ReadUntilEOF ==
  /\ ReadPacket(Drains)
  /\ LET kind == Head(packets).is
     IN  /\ IF kind \in {"EOF", "Huge"}
            THEN GoOn(<<>>) /\ rows' = IF calling = "RowsClose" THEN NoRows ELSE rows
            ELSE UNCHANGED <<steps, outcome, rows>>
         /\ odd' = odd \cup {k \in {"ERR", "Huge"} : k = kind}
  /\ UNCHANGED <<netConn, stmt, inTx>>

\* textRows.readRow of getSystemVar, and the rows that getWarnings reads.
ReadSysVar ==
  /\ ReadPacket({"sysVarRow"})
  /\ IF Head(packets).is = "Row"
     THEN GoOn(<<>>) /\ UNCHANGED <<netConn, rows, stmt>>
     ELSE FailsWith("mysql") /\ OpenCloses
  /\ UNCHANGED <<inTx, odd>>

ReadWarning ==
  /\ ReadPacket({"warningRow"})
  /\ CASE Head(packets).is = "EOF" -> FailsWith("warnings") /\ OpenCloses
       [] Head(packets).is = "ERR" -> FailsWith("mysql") /\ OpenCloses
       [] OTHER -> UNCHANGED <<netConn, steps, outcome, rows, stmt>>
  /\ UNCHANGED <<inTx, odd>>

\* What Next returns of a packet: e, with a row unless it is an error.  At the
\* end, and after an error of MySQL, rows.mc is nil.
RowRead(kind, e) ==
  /\ steps' = <<>> /\ outcome' = e
  /\ rows' = [rows EXCEPT !.done = kind \in {"EOF", "ERR"}, !.given = IF e = "ok" THEN @ + 1 ELSE @]
  /\ UNCHANGED <<netConn, stmt, inTx, odd>>

\* Slip: an error in the middle of the rows ends them.
ReadTextRowSilent ==
  /\ ReadPacket({"row"})
  /\ LET kind == Head(packets).is
     IN  RowRead(kind, CASE kind \in {"EOF", "ERR"} -> "eof" [] kind = "Odd" -> "odd" [] OTHER -> "ok")

\* textRows.readRow.
ReadTextRow ==
  /\ ReadPacket({"row"})
  /\ LET kind == Head(packets).is
     IN  RowRead(kind, CASE kind = "EOF" -> "eof" [] kind = "ERR" -> "mysql" [] kind = "Odd" -> "odd" [] OTHER -> "ok")

\* binaryRows.readRow: a row starts with 0, the end is EOF or an error.
ReadBinaryRow ==
  /\ ReadPacket({"binaryRow"})
  /\ LET kind == Head(packets).is
     IN  RowRead(kind, IF kind \notin {"EOF", "ERR"} THEN (IF kind = "Odd" THEN "odd" ELSE "ok")
                       ELSE IF kind = "EOF" THEN "eof" ELSE "mysql")

\* Slip: parameters and columns are read without looking if there are any.
ReadPreparedBoth ==
  /\ ReadPacket({"prepared"})
  /\ LET p == Head(packets)
         has == p.info \cap {"params", "columns"}
     IN  IF p.is # "Prepared" THEN FailsWith(IF p.is = "ERR" THEN "mysql" ELSE "malformed") /\ UNCHANGED odd
         ELSE IF Warned(p)
         THEN HandleOk(p) /\ odd' = odd \cup {"warned" : x \in has} /\ UNCHANGED <<rows, stmt>>
         ELSE /\ GoOn(<<"drainDefinitions", "drainDefinitions">>)
              /\ stmt' = [open |-> TRUE, info |-> has, cached |-> FALSE]
              /\ UNCHANGED <<rows, odd>>
  /\ UNCHANGED <<netConn, inTx>>

\* Prepare: readPrepareResultPacket, and the definitions that follow.
ReadPrepared ==
  /\ ReadPacket({"prepared"})
  /\ LET p == Head(packets)
         has == p.info \cap {"params", "columns"}
     IN  IF p.is # "Prepared" THEN FailsWith(IF p.is = "ERR" THEN "mysql" ELSE "malformed") /\ UNCHANGED odd
         ELSE IF Warned(p)
         THEN HandleOk(p) /\ odd' = odd \cup {"warned" : x \in has} /\ UNCHANGED <<rows, stmt>>
         ELSE /\ GoOn([i \in 1 .. Cardinality(has) |-> "drainDefinitions"])
              /\ stmt' = [open |-> TRUE, info |-> has, cached |-> FALSE]
              /\ UNCHANGED <<rows, odd>>
  /\ UNCHANGED <<netConn, inTx>>

\* The end of handleInFileRequest.
ReadInFileEnd ==
  /\ ReadPacket({"inFileResult", "inFileEnd"})
  /\ IF Head(steps) = "inFileResult" /\ Head(packets).is = "OK"
     THEN HandleOk(Head(packets)) /\ UNCHANGED <<rows, stmt>>
     ELSE FailsWith(IF Head(steps) = "inFileEnd" THEN "local" ELSE "mysql")
  /\ UNCHANGED <<netConn, inTx, odd>>
-----------------------------------------------------------------------------
(* The driver's methods.                                                   *)

Exec ==
  /\ Callable
  /\ Checked("Exec", <<"Command", "execHeader">>, "bad")
  /\ Untouched /\ UNCHANGED <<rows, stmt, inTx>>

\* Slip: Query does not look if the connection is closed.
QueryUnchecked ==
  /\ Callable
  /\ Calls("Query", <<"Command", "queryHeader">>)
  /\ Untouched /\ UNCHANGED <<rows, stmt, inTx>>

Query ==
  /\ Callable
  /\ Checked("Query", <<"Command", "queryHeader">>, "bad")
  /\ Untouched /\ UNCHANGED <<rows, stmt, inTx>>

BeginTx ==
  /\ Callable /\ ~ inTx
  /\ Checked("BeginTx", <<"Simple", "execHeader">>, "bad")
  /\ Untouched /\ UNCHANGED <<rows, stmt, inTx>>

\* Commit, Rollback.
EndTx ==
  /\ Free /\ inTx
  /\ Checked("EndTx", <<"Simple", "execHeader">>, "invalid")
  /\ inTx' = FALSE
  /\ Untouched /\ UNCHANGED <<rows, stmt>>

Prepare ==
  /\ Callable /\ ~ stmt.open
  /\ Checked("Prepare", <<"Prepare", "prepared">>, "bad")
  /\ Untouched /\ UNCHANGED <<rows, stmt, inTx>>

StmtExec ==
  /\ Callable /\ stmt.open
  /\ Checked("StmtExec", <<"Execute", "stmtHeader">>, "bad")
  /\ Untouched /\ UNCHANGED <<rows, stmt, inTx>>

StmtQuery ==
  /\ Callable /\ stmt.open
  /\ Checked("StmtQuery", <<"Execute", "stmtQueryHeader">>, "bad")
  /\ Untouched /\ UNCHANGED <<rows, stmt, inTx>>

\* COM_STMT_CLOSE is not answered.
StmtClose ==
  /\ Callable /\ stmt.open
  /\ Checked("StmtClose", <<"StmtClose">>, "bad")
  /\ stmt' = NoStmt
  /\ Untouched /\ UNCHANGED <<rows, inTx>>

RowsNext ==
  /\ steps = <<>> /\ rows.open /\ outcome = "ok"
  /\ Checked("RowsNext", <<IF rows.protocol = "text" THEN "row" ELSE "binaryRow">>, "invalid")
  /\ Untouched /\ UNCHANGED <<rows, stmt, inTx>>

\* At the end of the rows, after an error, or before.
RowsClose ==
  /\ steps = <<>> /\ rows.open
  /\ IF rows.done \/ ~ netConn
     THEN /\ calling' = "RowsClose" /\ steps' = <<>> /\ rows' = NoRows
          /\ outcome' = IF rows.done THEN "ok" ELSE "invalid"
     ELSE Calls("RowsClose", <<"drainRows">>) /\ UNCHANGED rows
  /\ Untouched /\ UNCHANGED <<stmt, inTx>>

DriverCalls == Exec \/ Query \/ BeginTx \/ EndTx \/ Prepare \/ StmtExec \/ StmtQuery \/ StmtClose \/ RowsNext \/ RowsClose
Writes == WriteAuth \/ WriteCommand \/ WriteExecute \/ WriteTooLarge \/ WriteInFile
Receives == ReadInit \/ ReadAuthResult \/ ReadHeader \/ ReadColumns \/ ReadUntilEOF \/ ReadSysVar \/ ReadWarning
            \/ ReadTextRow \/ ReadBinaryRow \/ ReadPrepared \/ ReadInFileEnd \/ ReadFails

MysqlNext == Open \/ HandleParams \/ SetStrict \/ Close \/ DriverCalls \/ Writes \/ Receives \/ NetworkCut

MysqlSpec == MysqlInit /\ [][MysqlNext]_mysqlVars
-----------------------------------------------------------------------------
(* Correctness.                                                            *)

\* rows.go, packets.go: rows that end with io.EOF are all the rows of the
\* result, none of them lost to a broken network, an error in the middle or a
\* packet that starts like the end of the result.
AllRowsOrError ==
  calling = "RowsNext" /\ steps = <<>> /\ outcome = "eof"
  => rows.given = Len(rows.result.rows) /\ rows.result.end = "EOF"

\* packets.go, readPacket: driver and server count the same packets, through
\* handshakes, files, long packets and results that are closed early.
InSequence == outcome = "sync" => odd # {}

\* rows.go, Close: "Remove unread packets from stream".  A call that returns
\* without rows to read leaves nothing on a connection that is used again.
StreamIsEmpty ==
  Free /\ netConn /\ odd = {} => packets = <<>> /\ received = 0

\* connection.go, statement.go: the driver reads a packet only if MySQL sends
\* one (there is no timeout).  It may wait in vain once something in odd has
\* happened on the connection: a result it drained ended with an error (ERR), or
\* was taken to end at a row whose first value has 16 MB (Huge); a prepared
\* statement that has no result was queried (noResult); or, in strict mode, the
\* warnings of a prepared statement were asked for before its definitions were
\* read (warned).
NoWaitInVain ==
  Now(Reads) /\ packets = <<>> /\ ~ cut /\ netConn => odd # {}

\* connection.go: nothing is written on a connection the driver has closed, but
\* by handleParams when it tries a second charset.
NothingWrittenClosed == outcome = "panic" => calling = "Params" /\ dsn.charsets > 1
=============================================================================
