----------------------------- MODULE RedisConn -----------------------------
(***************************************************************************)
(* The exchanges of commands and replies on one connection of the Redis    *)
(* client: commands (baseClient.process), pipelines and transactions, one  *)
(* after another as the pool hands the connection from call to call, with  *)
(* replies that are late or lost and attempts that are repeated.           *)
(***************************************************************************)
EXTENDS RedisWire

CONSTANTS UsedMethods,     \* methods that are called
          PipeMethods,     \* methods called in pipelines and transactions
          ReadTimeout,     \* Options.ReadTimeout is set
          Mishaps          \* BOUND: what else goes wrong, of "multiNetwork", "multiRejected",
                           \* "multiFunction" (the function of Exec fails) and "pipelineError"

CONSTANTS MaxRetries,
          MaxFaults        \* BOUND: late and lost replies

ASSUME RedisConnAssumption ==
  /\ UsedMethods \subseteq Methods /\ PipeMethods \subseteq Methods
  /\ ReadTimeout \in BOOLEAN
  /\ Mishaps \subseteq {"multiNetwork", "multiRejected", "multiFunction", "pipelineError"}
  /\ MaxRetries \in Nat /\ MaxFaults \in Nat

VARIABLES
  wire,         \* tokens Redis has sent: whose reply, 0 for an earlier exchange's, and the token
  buffered,     \* how many of them the client has received
  deadline,     \* conn.ReadTimeout is not zero
  watched,      \* Redis watches keys for this connection
  dead,         \* Redis has closed the connection
  pc,
  call,         \* the exchange: its kind and commands
  todo,         \* the commands of this attempt whose replies are not read
  got, err,     \* by command: whose tokens it has read, its error
  tries,
  tx,           \* the Multi that has the connection: "none", "open", "queueing" (c.cmds # nil)
  faults

connection == <<wire, buffered, deadline, watched, dead>>
connVars == <<connection, pc, call, todo, got, err, tries, tx, faults>>

NoCall == [kind |-> "none", cmds |-> <<>>]

ConnInit ==
  /\ wire = <<>> /\ buffered = 0
  /\ deadline = FALSE /\ watched = FALSE /\ dead = FALSE
  /\ pc = "idle" /\ call = NoCall /\ todo = <<>>
  /\ got = <<>> /\ err = <<>>
  /\ tries = 0 /\ tx = "none" /\ faults = 0

-----------------------------------------------------------------------------
(* The commands of an exchange are its readers: methods, and those that     *)
(* Multi adds.                                                             *)

Reader(m) ==
  IF m \in {"MULTI", "QUEUED", "WATCH", "UNWATCH"} THEN "Status"
  ELSE IF m = "EXEC" THEN "exec" ELSE TypeOf[m]

\* An error before the replies of the transaction's commands ends the exchange.
EndsExchange(i) == call.kind = "multi" /\ call.cmds[i] \in {"MULTI", "QUEUED", "EXEC"}

\* What Redis sends for the commands todo: by command, tokens.
PlainAnswers(i) ==
  LET m == call.cmds[i]
  IN  IF m \in {"WATCH", "UNWATCH"} THEN {<<StatusLine>>}
      ELSE IF call.kind = "plain" \/ "pipelineError" \in Mishaps THEN Answers(m)
      ELSE Answers(m) \ {<<ErrorLine>>}

\* A transaction is executed, aborted by WATCH, or its command is rejected.
MultiAnswers ==
  LET ok == <<StatusLine>>
  IN  {<<ok, ok, <<ArrayOf(1)>>, a>> : a \in PlainAnswers(4)}
      \cup (IF watched THEN {<<ok, ok, <<NilArrayLine>>, <<>> >>} ELSE {})
      \cup (IF "multiRejected" \in Mishaps THEN {<<ok, <<ErrorLine>>, <<ErrorLine>>, <<>> >>} ELSE {})

AllAnswers ==
  IF call.kind = "multi" THEN MultiAnswers
  ELSE LET all == UNION {PlainAnswers(todo[k]) : k \in DOMAIN todo}
       IN  {a \in [DOMAIN call.cmds -> all \cup {<<>>}] :
              \A i \in DOMAIN a : IF \E k \in DOMAIN todo : todo[k] = i THEN a[i] \in PlainAnswers(i) ELSE a[i] = <<>>}

\* The tokens of the first k commands of todo.
Sent(a, k) ==
  FlattenSeq([j \in 1 .. k |-> [l \in DOMAIN a[todo[j]] |-> [of |-> todo[j], tok |-> a[todo[j]][l]]]])

\* Methods with a timeout of their own, which may be none.
Blocking == {"BLPop", "BRPop", "BRPopLPush", "Migrate"}

-----------------------------------------------------------------------------
(* Calls.                                                                  *)

MayFail == faults < MaxFaults /\ (tx = "none" \/ "multiNetwork" \in Mishaps)

Begin(kind, cmds) ==
  /\ pc = "idle"
  /\ call' = [kind |-> kind, cmds |-> cmds]
  /\ todo' = [i \in DOMAIN cmds |-> i]
  /\ got' = [i \in DOMAIN cmds |-> {}]
  /\ err' = [i \in DOMAIN cmds |-> "unread"]
  /\ tries' = 0
  /\ pc' = "send"

\* process: a command of the client's, or of a Multi that is not queueing.
Process(m) ==
  /\ tx # "queueing"
  /\ Begin("plain", <<m>>)
  /\ UNCHANGED <<connection, tx, faults>>

\* Pipeline.Exec.
PipelineExec(m1, m2) ==
  /\ tx = "none"
  /\ Begin("pipeline", <<m1, m2>>)
  /\ UNCHANGED <<connection, tx, faults>>

\* Client.Watch.
Watch ==
  /\ tx = "none"
  /\ Begin("plain", <<"WATCH">>)
  /\ tx' = "open"
  /\ UNCHANGED <<connection, faults>>

\* Multi.Exec of a function that calls one method; when the function fails its
\* commands stay queued, and nothing is sent.
MultiExec(m) ==
  /\ tx # "none"
  /\ Begin("multi", <<"MULTI", "QUEUED", "EXEC", m>>)
  /\ tx' = "open"
  /\ UNCHANGED <<connection, faults>>

FunctionFails ==
  /\ tx = "open" /\ pc = "idle" /\ "multiFunction" \in Mishaps
  /\ tx' = "queueing"
  /\ call' = NoCall /\ got' = <<>> /\ err' = <<>>
  /\ UNCHANGED <<connection, pc, todo, tries, faults>>

\* Multi.Close: Unwatch is a command like others, queued if the Multi queues.
MultiClose ==
  \/ /\ tx = "open"
     /\ Begin("plain", <<"UNWATCH">>)
     /\ tx' = "closing"
     /\ UNCHANGED <<connection, faults>>
  \/ /\ tx = "queueing" /\ pc = "idle"
     /\ tx' = "none"
     /\ UNCHANGED <<connection, pc, call, todo, got, err, tries, faults>>

\* writeCmds, and what Redis answers.  process sets the timeouts of the
\* connection, a pipeline and a transaction take them as they are.
Send ==
  /\ pc = "send"
  /\ deadline' \in IF call.kind # "plain" THEN {deadline}
                   ELSE IF call.cmds[1] \in Blocking THEN BOOLEAN ELSE {ReadTimeout}
  /\ \E a \in AllAnswers, k \in 0 .. Len(todo) :
       /\ k < Len(todo) => dead \/ MayFail
       /\ dead => k = 0
       /\ dead' = (k < Len(todo))
       /\ faults' = IF ~ dead /\ dead' THEN faults + 1 ELSE faults
       /\ wire' = [j \in DOMAIN wire |-> [wire[j] EXCEPT !.of = 0]] \o Sent(a, k)
       /\ watched' = IF k = 0 THEN watched
                     ELSE "WATCH" \in {call.cmds[i] : i \in DOMAIN call.cmds}
                          \/ (watched /\ call.cmds # <<"UNWATCH">> /\ call.kind # "multi")
  /\ pc' = "read"
  /\ UNCHANGED <<buffered, call, todo, got, err, tries, tx>>

\* readReply of the next command, from what has arrived when it is done or
\* the deadline is over.  A late reply is not read, or read in part.
Read ==
  /\ pc = "read" /\ todo # <<>>
  /\ \E avail \in buffered .. Len(wire) :
       LET i == Head(todo)
           r == ReadReply(Reader(call.cmds[i]), [j \in 1 .. avail |-> wire[j].tok])
       IN  /\ \/ r.err # "network" /\ faults' = faults
              \/ r.err = "network" /\ dead /\ avail = Len(wire) /\ faults' = faults
              \/ r.err = "network" /\ deadline /\ MayFail /\ faults' = faults + 1
           /\ err' = [err EXCEPT ![i] = r.err]
           /\ got' = [got EXCEPT ![i] = {wire[j].of : j \in 1 .. r.used}]
           /\ wire' = SubSeq(wire, r.used + 1, Len(wire))
           /\ buffered' = avail - r.used
           /\ todo' = IF EndsExchange(i) /\ r.err # "none" THEN <<>> ELSE Tail(todo)
  /\ UNCHANGED <<deadline, watched, dead, pc, call, tries, tx>>

\* The connection is replaced by a new one.
Replaced ==
  /\ wire' = <<>> /\ buffered' = 0
  /\ deadline' = FALSE /\ watched' = FALSE /\ dead' = FALSE

\* The first error of the exchange, by the order of the commands.
FirstErr ==
  LET failed == {i \in DOMAIN err : err[i] \notin {"none", "unread"}}
  IN  IF failed = {} THEN "none" ELSE err[CHOOSE i \in failed : \A j \in failed : i <= j]

\* Slip: an error of the network leaves the connection good.
IsBadOfData(e) == buffered > 0

\* isBadConn.
IsBad(e) == buffered > 0 \/ e \notin {"none", "redis", "nil"}

\* putConn.  The sticky pool of a Multi keeps its connection but for a
\* transaction, which has a bad one removed.
PutConn(e) ==
  IF IsBad(e) /\ (tx = "none" \/ call.kind = "multi") THEN Replaced ELSE UNCHANGED connection

Unanswered == {i \in DOMAIN err : err[i] = "network"}

\* Commands in their order.
InTurn(is) ==
  CHOOSE s \in [1 .. Cardinality(is) -> is] : \A j, k \in DOMAIN s : j < k => s[j] < s[k]

\* The end of an attempt: the commands without a reply are sent again.
Repeat ==
  /\ pc = "read" /\ todo = <<>>
  /\ call.kind # "multi" /\ Unanswered # {} /\ tries < MaxRetries
  /\ PutConn(FirstErr)
  /\ tries' = tries + 1
  /\ todo' = InTurn(Unanswered)
  /\ err' = [i \in DOMAIN err |-> IF err[i] = "network" THEN "unread" ELSE err[i]]
  /\ got' = [i \in DOMAIN got |-> IF err[i] = "network" THEN {} ELSE got[i]]
  /\ pc' = "send"
  /\ UNCHANGED <<call, tx, faults>>

End ==
  /\ pc = "read" /\ todo = <<>>
  /\ call.kind = "multi" \/ Unanswered = {} \/ tries = MaxRetries
  /\ PutConn(FirstErr)
  /\ pc' = "end"
  /\ UNCHANGED <<call, todo, got, err, tries, tx, faults>>

\* The call returns; Multi.Close then puts its connection back, and one with
\* unread data is replaced.
Return ==
  /\ pc = "end"
  /\ pc' = "idle"
  /\ call' = NoCall /\ got' = <<>> /\ err' = <<>> /\ tries' = 0
  /\ IF tx = "closing"
     THEN tx' = "none" /\ (IF buffered > 0 THEN Replaced ELSE UNCHANGED connection)
     ELSE UNCHANGED <<connection, tx>>
  /\ UNCHANGED <<todo, faults>>

ConnNext ==
  \/ \E m \in UsedMethods : Process(m)
  \/ \E m1, m2 \in PipeMethods : PipelineExec(m1, m2)
  \/ \E m \in PipeMethods : MultiExec(m)
  \/ Watch \/ FunctionFails \/ MultiClose
  \/ Send \/ Read \/ Repeat \/ End \/ Return

ConnSpec == ConnInit /\ [][ConnNext]_connVars
                     /\ WF_connVars(Send \/ Read \/ Repeat \/ End \/ Return)
-----------------------------------------------------------------------------
(* Correctness.                                                            *)

\* A command that has a value has it from its own reply, though the connection
\* served other calls before and replies came late: process, transactions, and
\* pipelines that needed one attempt.  (In a pipeline a reply that is late is
\* taken for the next command's.)
OwnReplies ==
  pc = "end" /\ (call.kind = "pipeline" => tries = 0 /\ Unanswered = {})
  => \A i \in DOMAIN err : err[i] = "none" => got[i] = {i}

\* No reply of Redis to the method that was called is an error of the client's
\* own, but SORT ... STORE and a BRPOPLPUSH in vain, whose replies have another
\* type than the one their commands read.  (An error within the array of a
\* script is a redisError, and taken for the reply.)
RepliesUnderstood ==
  pc = "end" => \A i \in DOMAIN err :
                  got[i] = {i} /\ call.cmds[i] \notin {"Sort", "BRPopLPush", "EXEC"}
                  => err[i] \in {"none", "redis", "nil", "network"}

\* multi.go, Exec: "restores the connection state to normal".  No reply is left
\* for the next who gets the connection from the pool.  (Watched keys may be:
\* a Multi whose function failed queues its UNWATCH.)  It holds where each reply
\* is read whole: not for arrays with a nil that SORT and GEOHASH stop at, nor
\* for those of EVAL and EVALSHA with an error element (ScriptErrors).
NothingPending == pc = "idle" /\ tx = "none" => wire = <<>>
=============================================================================
