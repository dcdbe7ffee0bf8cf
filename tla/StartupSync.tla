---------------------------- MODULE StartupSync -----------------------------
(***************************************************************************)
(* How the servers agree, when they start, who copies the stock from MySQL *)
(* into Redis (Sync_redis_from_mysql).  The counter INIT_TIME elects the   *)
(* server whose INCR answers 1; it sends the stock and then INIT_TIME :=   *)
(* -10000 in one pipeline, and serves.  The others poll INIT_TIME until it *)
(* is below 1, and serve.  A pipeline is not a transaction: Redis executes *)
(* its commands one by one among those of other connections, and Exec      *)
(* sends the commands whose replies it could not read once more.  A        *)
(* pipeline is the set of its positions: i stands for the HSET of food i,  *)
(* Mark for the SET that comes last.                                       *)
(***************************************************************************)
EXTENDS Integers, Sequences, FiniteSets, SequencesExt

CONSTANTS Server,
          FoodRows,     \* the foods, in the order MySQL returns them
          InitStock,    \* their stock
          InitMark,     \* what INIT_TIME is set to, -10000
          MaxRetries,   \* Options.MaxRetries
          NULL

CONSTANTS MaxStarts,    \* BOUND: starts of a server process
          MaxCrashes,   \* BOUND: ends of a server process
          MaxErrors,    \* BOUND: network errors of INCR, GET and Exec
          MaxCuts       \* BOUND: results of MySQL that end early

Food == ToSet(FoodRows)

\* The foods have ids of their own, by which food:stock is kept.
ASSUME StartupAssumption ==
  /\ FoodRows \in Seq(Food)
  /\ \A i, j \in DOMAIN FoodRows : FoodRows[i] = FoodRows[j] => i = j
  /\ InitStock \in [Food -> Nat]
  /\ InitMark \in Int /\ InitMark < 1
  /\ MaxRetries \in Nat
  /\ MaxStarts \in Nat /\ MaxCuts \in Nat
  /\ NULL \notin Food /\ NULL \notin Int

VARIABLES initTime,     \* INIT_TIME in Redis
          foodStock,    \* food:stock in Redis
          sold,         \* pieces of each food in placed orders
          pc,           \* where each server stands
          try,          \* attempt of the INCR or of Exec
          pending,      \* failedCmds: commands without a reply so far
          sent,         \* by attempt, the commands Redis has yet to execute
          starts, crashes, errors,
          cuts,         \* elected servers that read a part of the foods
          odd           \* history: what Exec met that ends it unnoticed

vars == <<initTime, foodStock, sold, pc, try, pending, sent, starts, crashes, errors, cuts, odd>>
counters == <<starts, crashes, errors, cuts, odd>>

\* Slip: INIT_TIME set first.
MarkFirst == 0

\* SET INIT_TIME InitMark.
Mark == Len(FoodRows) + 1

\* Slip: INIT_TIME not set.
MarkForgotten(n) == 1 .. n

\* The pipeline of init_cache_and_redis when it has read n foods.
Pipeline(n) == (1 .. n) \cup {Mark}

NothingSent == [k \in 0 .. MaxRetries |-> {}]

Init ==
  /\ initTime = NULL
  /\ foodStock = [f \in Food |-> NULL]
  /\ sold = [f \in Food |-> 0]
  /\ pc = [s \in Server |-> "down"]
  /\ try = [s \in Server |-> 0]
  /\ pending = [s \in Server |-> {}]
  /\ sent = [s \in Server |-> NothingSent]
  /\ starts = 0 /\ crashes = 0 /\ errors = 0 /\ cuts = 0 /\ odd = {}

Goto(s, l) == pc' = [pc EXCEPT ![s] = l]

NetworkError == errors < MaxErrors /\ errors' = errors + 1

-----------------------------------------------------------------------------
(* The election.                                                           *)

Start(s) ==
  /\ pc[s] = "down"
  /\ starts < MaxStarts
  /\ starts' = starts + 1
  /\ Goto(s, "incr")
  /\ try' = [try EXCEPT ![s] = 0]
  /\ UNCHANGED <<initTime, foodStock, sold, pending, sent, crashes, errors, cuts, odd>>

Incremented == IF initTime = NULL THEN 1 ELSE initTime + 1

\* The pipeline of a server goes out on a new connection.
Send(s, k, cmds) ==
  /\ try' = [try EXCEPT ![s] = k]
  /\ pending' = [pending EXCEPT ![s] = cmds]
  /\ sent' = [sent EXCEPT ![s][k] = cmds]

\* The foods are read from MySQL and their stock is sent.  If the connection
\* to MySQL breaks, rows.Next ends the loop as it does after the last row, and
\* nobody asks rows.Err.  If the pool has no connection to Redis, Exec returns
\* at once, and nobody looks at its error either.
ReadAndSend(s) ==
  \E n \in 0 .. Len(FoodRows) :
    /\ \/ n = Len(FoodRows) /\ UNCHANGED cuts
       \/ n < Len(FoodRows) /\ cuts < MaxCuts /\ cuts' = cuts + 1
    /\ \/ /\ Goto(s, "exec")
          /\ Send(s, 0, Pipeline(n))
          /\ UNCHANGED <<errors, odd>>
       \/ /\ NetworkError
          /\ odd' = odd \cup {"refused"}
          /\ Goto(s, "serve")
          /\ UNCHANGED <<try, pending, sent>>

\* Slip: the INCR elects every server.
IncrElectsAll(s) ==
  /\ pc[s] = "incr"
  /\ initTime' = Incremented
  /\ ReadAndSend(s)
  /\ UNCHANGED <<foodStock, sold, starts, crashes>>

Incr(s) ==
  /\ pc[s] = "incr"
  /\ initTime' = Incremented
  /\ \/ Incremented = 1 /\ ReadAndSend(s)
     \/ Incremented # 1 /\ Goto(s, "poll") /\ UNCHANGED <<try, pending, sent, errors, cuts, odd>>
  /\ UNCHANGED <<foodStock, sold, starts, crashes>>

\* The INCR fails: an attempt ends in a network error, before or after Redis
\* executed it, or the pool has no connection for it, which ends the call.
\* After a failed call Val is 0.
IncrError(s) ==
  /\ pc[s] = "incr"
  /\ NetworkError
  /\ \/ /\ initTime' \in {initTime, Incremented}
        /\ \/ try[s] < MaxRetries /\ try' = [try EXCEPT ![s] = @ + 1] /\ UNCHANGED pc
           \/ try[s] = MaxRetries /\ Goto(s, "poll") /\ UNCHANGED try
     \/ Goto(s, "poll") /\ UNCHANGED <<initTime, try>>
  /\ UNCHANGED <<foodStock, sold, pending, sent, starts, crashes, cuts, odd>>

-----------------------------------------------------------------------------
(* The server that was elected.                                            *)

\* Redis executes the next command of attempt k of s.
Execute(s, k) ==
  /\ \E cmd \in sent[s][k] :
       /\ \A i \in sent[s][k] : cmd <= i
       /\ \/ cmd = Mark /\ initTime' = InitMark /\ UNCHANGED foodStock
          \/ /\ cmd # Mark
             /\ foodStock' = [foodStock EXCEPT ![FoodRows[cmd]] = InitStock[FoodRows[cmd]]]
             /\ UNCHANGED initTime
       /\ sent' = [sent EXCEPT ![s][k] = @ \ {cmd}]
  /\ UNCHANGED <<sold, pc, try, pending, counters>>

\* Exec has read every reply.
ExecDone(s) ==
  /\ pc[s] = "exec"
  /\ sent[s][try[s]] = {}
  /\ Goto(s, "serve")
  /\ UNCHANGED <<initTime, foodStock, sold, try, pending, sent, counters>>

\* What execCmds could not read a reply to.  After the connection broke these
\* are the commands at the end; after a timeout execCmds reads on, a read takes
\* the next reply that arrived, whichever command it belongs to, and no reader
\* that has one fails in a way that is retried.  So any commands may fail, but
\* no more are answered than Redis executed.
Failed(s) ==
  {failed \in SUBSET pending[s] \ {{}} :
     Cardinality(pending[s] \ failed) <= Cardinality(pending[s] \ sent[s][try[s]])}

\* A command took the reply of another when one fails before one that does not.
Late(s, failed) ==
  IF \A i \in pending[s] \ failed, j \in failed : i < j THEN {} ELSE {"late"}

\* The attempt has failed.  Redis may still execute rest of it.  The commands
\* without a reply are sent on another connection, ...
SendAgain(s, failed, rest) ==
  LET k == try[s]
  IN  /\ odd' = odd \cup Late(s, failed)
      /\ try' = [try EXCEPT ![s] = k + 1]
      /\ pending' = [pending EXCEPT ![s] = failed]
      /\ sent' = [sent EXCEPT ![s][k] = rest, ![s][k + 1] = failed]
      /\ UNCHANGED pc

\* ... or Exec returns, for it was the last attempt or (why) there is no
\* connection, and the server goes on, for the error is not looked at.
GiveUp(s, failed, rest, why) ==
  /\ odd' = odd \cup Late(s, failed) \cup why
  /\ Goto(s, "serve")
  /\ sent' = [sent EXCEPT ![s][try[s]] = rest]
  /\ UNCHANGED <<try, pending>>

\* Slip: one attempt too many.
ExecErrorOnceMore(s) ==
  /\ pc[s] = "exec"
  /\ NetworkError
  /\ \E failed \in Failed(s), rest \in {{}, sent[s][try[s]]} :
       try[s] <= MaxRetries /\ SendAgain(s, failed, rest)
  /\ UNCHANGED <<initTime, foodStock, sold, starts, crashes, cuts>>

\* An attempt of Exec fails.
ExecError(s) ==
  /\ pc[s] = "exec"
  /\ NetworkError
  /\ \E failed \in Failed(s), rest \in {{}, sent[s][try[s]]} :
       \/ try[s] < MaxRetries /\ SendAgain(s, failed, rest)
       \/ try[s] < MaxRetries /\ GiveUp(s, failed, rest, {"refused"})
       \/ try[s] = MaxRetries /\ GiveUp(s, failed, rest, {})
  /\ UNCHANGED <<initTime, foodStock, sold, starts, crashes, cuts>>

-----------------------------------------------------------------------------
(* The other servers.                                                      *)

\* GET INIT_TIME; atoi panics on a key that does not exist.
Poll(s) ==
  /\ pc[s] = "poll"
  /\ \/ initTime = NULL /\ Goto(s, "down")
     \/ initTime # NULL /\ initTime < 1 /\ Goto(s, "serve")
  /\ UNCHANGED <<initTime, foodStock, sold, try, pending, sent, counters>>

\* GET fails: its Val is empty and atoi panics.
PollError(s) ==
  /\ pc[s] = "poll"
  /\ NetworkError
  /\ Goto(s, "down")
  /\ UNCHANGED <<initTime, foodStock, sold, try, pending, sent, starts, crashes, cuts, odd>>

-----------------------------------------------------------------------------

\* A server that serves places an order for one piece of f.  If the stock of
\* f is missing, place_order.lua fails and L.Fatal ends the process.
Sell(s, f) ==
  /\ pc[s] = "serve"
  /\ \/ /\ foodStock[f] # NULL
        /\ foodStock[f] - 1 >= 0
        /\ foodStock' = [foodStock EXCEPT ![f] = @ - 1]
        /\ sold' = [sold EXCEPT ![f] = @ + 1]
        /\ UNCHANGED pc
     \/ /\ foodStock[f] = NULL
        /\ Goto(s, "down")
        /\ UNCHANGED <<foodStock, sold>>
  /\ UNCHANGED <<initTime, try, pending, sent, counters>>

\* The process ends; Redis may have received what it sent, or not.
Crash(s) ==
  /\ pc[s] # "down"
  /\ crashes < MaxCrashes
  /\ crashes' = crashes + 1
  /\ Goto(s, "down")
  /\ sent' \in {sent, [sent EXCEPT ![s] = NothingSent]}
  /\ UNCHANGED <<initTime, foodStock, sold, try, pending, starts, errors, cuts, odd>>

Step(s) == Incr(s) \/ ExecDone(s) \/ Poll(s)

Next ==
  \/ \E s \in Server : \/ Start(s) \/ Step(s)
                       \/ IncrError(s) \/ ExecError(s) \/ PollError(s) \/ Crash(s)
  \/ \E s \in Server, k \in 0 .. MaxRetries : Execute(s, k)
  \/ \E s \in Server, f \in Food : Sell(s, f)

\* A server that is down is started again, a server that runs goes on, and
\* Redis executes what it received.
Fairness ==
  \A s \in Server : /\ WF_vars(Start(s)) /\ WF_vars(Step(s))
                    /\ \A k \in 0 .. MaxRetries : WF_vars(Execute(s, k))

Spec == Init /\ [][Next]_vars /\ Fairness

-----------------------------------------------------------------------------
(* Correctness.                                                            *)

\* The keys and the control state have values of their kinds; what Redis has
\* yet to execute of the attempt Exec waits for comes after what it executed.
TypeOK ==
  /\ initTime \in Int \cup {NULL}
  /\ \A f \in Food : foodStock[f] \in Int \cup {NULL}
  /\ pc \in [Server -> {"down", "incr", "exec", "poll", "serve"}]
  /\ try \in [Server -> 0 .. MaxRetries]
  /\ \A s \in Server :
       /\ \A k \in 0 .. MaxRetries : sent[s][k] \subseteq 1 .. Mark
       /\ pc[s] = "exec" =>
            /\ sent[s][try[s]] \subseteq pending[s]
            /\ \A i \in pending[s] \ sent[s][try[s]], j \in sent[s][try[s]] : i < j

\* Copying the stock never undoes a sale: what is left and what was sold add
\* up to the opening stock.
StockAddsUp == \A f \in Food : foodStock[f] # NULL => foodStock[f] + sold[f] = InitStock[f]

\* So it is whichever servers crash, restart and sell, and however much of the
\* foods was read, as long as no network error makes Exec send its commands again.
StockKept == errors = 0 => StockAddsUp

\* No server takes orders before every food that was read has its stock in
\* Redis, and that is every food if the result of MySQL was complete; an order
\* would otherwise end the process.  The attempts of Exec see to it while fewer
\* errors occur than it has attempts, and connections break instead of being
\* late or refused: for those it does nothing.
ServersFindStock ==
  odd = {} /\ errors <= MaxRetries =>
    \A s \in Server :
      pc[s] = "serve" => \E n \in 0 .. Len(FoodRows) :
                           /\ cuts = 0 => n = Len(FoodRows)
                           /\ \A i \in 1 .. Len(FoodRows) : foodStock[FoodRows[i]] # NULL <=> i <= n

\* README.md: the servers serve together.  If no server crashes and no
\* network error occurs, each server that starts serves in the end.
EveryServerServes ==
  [](crashes = 0 /\ errors = 0) => \A s \in Server : pc[s] = "incr" ~> pc[s] = "serve"

\* README.md again: a server that waits for the stock does not wait for ever.
WaitersServe == \A s \in Server : pc[s] = "poll" ~> pc[s] # "poll"
=============================================================================
