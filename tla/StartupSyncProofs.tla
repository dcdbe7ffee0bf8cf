------------------------- MODULE StartupSyncProofs --------------------------
(***************************************************************************)
(* Theorems about StartupSync, for every set of servers, every list of     *)
(* foods and every bound.  Two arguments are kept apart.                   *)
(*                                                                         *)
(* As long as connections break, and are neither late nor refused, the     *)
(* commands that Exec sends again are the end of what it waits for: Redis  *)
(* has executed all that comes before.  The mark comes last, hence         *)
(* INIT_TIME below 1 means that the foods are there.                       *)
(*                                                                         *)
(* That the stock is copied once depends on the counter: every INCR is one *)
(* of a start, so the starts bound how far INIT_TIME has counted.          *)
(***************************************************************************)
EXTENDS StartupSync, TLAPS, FiniteSetTheorems

Rows == Len(FoodRows)
Commands == 1 .. Mark

-----------------------------------------------------------------------------
(* The inductive invariant.                                                *)

Types ==
  /\ initTime \in Int \cup {NULL}
  /\ foodStock \in [Food -> Int \cup {NULL}]
  /\ sold \in [Food -> Int]
  /\ pc \in [Server -> {"down", "incr", "exec", "poll", "serve"}]
  /\ try \in [Server -> 0 .. MaxRetries]
  /\ pending \in [Server -> SUBSET Commands]
  /\ sent \in [Server -> [0 .. MaxRetries -> SUBSET Commands]]
  /\ starts \in Nat /\ errors \in Nat /\ cuts \in Nat

\* Each attempt but the first follows an error.
Trying == \A s \in Server : try[s] <= errors

\* What comes first in q is not in rest.
Follows(q, rest) == rest \subseteq q /\ \A i \in q \ rest, j \in rest : i < j

\* Redis executes what Exec waits for in its order.
Ordered == \A s \in Server : pc[s] = "exec" => Follows(pending[s], sent[s][try[s]])

Stocked(i) == foodStock[FoodRows[i]] # NULL

\* The foods of one pipeline; all foods, unless some result was cut short.
Complete(n) == n \in 0 .. Rows /\ (cuts = 0 => n = Rows)

\* A pipeline of n foods of which q is yet to be executed.
Stored(n, q) == Complete(n) /\ \A i \in 1 .. n : i \in q \/ Stocked(i)

\* What Redis has yet to execute of an attempt.
Left(q) == q # {} => \E n \in 0 .. Rows : q \subseteq Pipeline(n) /\ Stored(n, q)

Unexecuted == \A s \in Server, k \in 0 .. MaxRetries : Left(sent[s][k])

Awaits(s, n) == pending[s] \subseteq Pipeline(n) /\ Stored(n, sent[s][try[s]])

Executing == \A s \in Server : pc[s] = "exec" => \E n \in 0 .. Rows : Awaits(s, n)

\* The foods are stored in their order.
InOrder == \E n \in 0 .. Rows : \A i \in 1 .. Rows : Stocked(i) <=> i <= n

Ready == cuts = 0 => \A i \in 1 .. Rows : Stocked(i)

Marked == initTime # NULL /\ initTime < 1 => Ready

Serving == errors <= MaxRetries => \A s \in Server : pc[s] = "serve" => Ready

\* What depends on connections that are neither late nor refused.
Regular == Unexecuted /\ Executing /\ InOrder /\ Marked /\ Serving

IInv == Types /\ Trying /\ Ordered /\ (odd = {} => Regular)

-----------------------------------------------------------------------------
(* The stock is copied once.                                               *)

\* The counter does not come back to 1.
Counts == errors = 0 /\ starts <= 1 - InitMark

Incrementing == {s \in Server : pc[s] = "incr"}

\* Nothing happens in Redis before the first INCR, nothing is sold before it
\* is stored.
Untouched ==
  /\ initTime = NULL => /\ \A s \in Server, k \in 0 .. MaxRetries : sent[s][k] = {}
                        /\ \A s \in Server : pc[s] # "exec"
                        /\ \A f \in Food : foodStock[f] = NULL
  /\ \A f \in Food : foodStock[f] = NULL => sold[f] = 0

\* Each start is still to increment the counter or did so at most once.
Counted ==
  /\ IsFiniteSet(Incrementing)
  /\ LET ahead == Cardinality(Incrementing)
     IN  /\ ahead <= starts
         /\ Counts /\ initTime # NULL =>
              \/ initTime >= 1 /\ initTime + ahead <= starts
              \/ initTime < 1 /\ InitMark <= initTime /\ initTime - InitMark + 1 + ahead <= starts

\* One pipeline is under way, and none of its foods is stored yet.
OnePipeline ==
  Counts =>
    /\ \A s, t \in Server, j, k \in 0 .. MaxRetries :
         sent[s][j] # {} /\ sent[t][k] # {} => s = t /\ j = k
    /\ \A s \in Server, k \in 0 .. MaxRetries : \A i \in sent[s][k] : i # Mark => ~ Stocked(i)

KeptInv == Untouched /\ Counted /\ OnePipeline /\ (Counts => StockAddsUp)

-----------------------------------------------------------------------------
(* Foods and commands.                                                     *)

LEMMA Kinds ==
  /\ Rows \in Nat /\ FoodRows \in [1 .. Rows -> Food] /\ Mark = Rows + 1
  /\ \A i \in 1 .. Rows : FoodRows[i] \in Food
  /\ \A i, j \in 1 .. Rows : FoodRows[i] = FoodRows[j] => i = j
  /\ \A f \in Food : \E i \in 1 .. Rows : f = FoodRows[i]
<1>1. FoodRows \in Seq(Food)
  BY StartupAssumption
<1>2. Rows \in Nat /\ DOMAIN FoodRows = 1 .. Rows /\ FoodRows \in [1 .. Rows -> Food]
  BY <1>1 DEF Rows
<1>3. \A i, j \in 1 .. Rows : FoodRows[i] = FoodRows[j] => i = j
  BY <1>2, StartupAssumption
<1>4. \A f \in Food : \E i \in 1 .. Rows : f = FoodRows[i]
  BY <1>2 DEF Food, ToSet
<1> QED BY <1>2, <1>3, <1>4 DEF Mark, Rows

LEMMA Numbers ==
  /\ Commands \subseteq Int /\ IsFiniteSet(Commands) /\ Mark \in Int
  /\ \A cmd \in Commands : cmd = Mark \/ cmd \in 1 .. Rows
  /\ \A n \in 0 .. Rows : Pipeline(n) \in SUBSET Commands
<1>1. Mark \in Int /\ 1 \in Int
  BY Kinds
<1>2. IsFiniteSet(Commands)
  BY <1>1, FS_Interval DEF Commands
<1>3. \A n \in 0 .. Rows : Pipeline(n) \in SUBSET Commands
  BY Kinds DEF Commands, Pipeline
<1> QED BY <1>1, <1>2, <1>3, Kinds DEF Commands

\* If the commands that failed end what Exec waits for, and no more were answered
\* than executed, then all that is left failed.
LEMMA LeftFailed ==
  ASSUME NEW q \in SUBSET Commands, NEW rest, NEW failed,
         Follows(q, rest), Follows(q, failed), Cardinality(q \ failed) <= Cardinality(q \ rest)
  PROVE  rest \subseteq failed
<1> SUFFICES ASSUME NEW a \in rest, a \notin failed PROVE FALSE
  OBVIOUS
<1>1. a \in q \ failed
  BY DEF Follows
<1>2. ASSUME NEW b \in q \ rest PROVE b \in (q \ failed) \ {a}
  <2>1. b < a
    BY <1>2 DEF Follows
  <2>2. b \in failed => a < b
    BY <1>1 DEF Follows
  <2>3. a \in Int /\ b \in Int
    BY <1>1, <1>2, Numbers
  <2> QED BY <2>1, <2>2, <2>3, <1>2
<1>3. q \ rest \in SUBSET ((q \ failed) \ {a})
  BY <1>2
<1>4. IsFiniteSet(q \ failed)
  BY Numbers, FS_Subset
<1>5. /\ IsFiniteSet((q \ failed) \ {a})
      /\ Cardinality((q \ failed) \ {a}) = Cardinality(q \ failed) - 1
  BY <1>1, <1>4, FS_RemoveElement
<1>6. Cardinality(q \ rest) <= Cardinality((q \ failed) \ {a}) /\ IsFiniteSet(q \ rest)
  BY <1>3, <1>5, FS_Subset
<1>7. Cardinality(q \ failed) \in Nat /\ Cardinality(q \ rest) \in Nat
  BY <1>4, <1>6, FS_CardinalityType
<1> QED BY <1>5, <1>6, <1>7

-----------------------------------------------------------------------------
(* The invariant holds at the start.                                       *)

LEMMA InitIInv == Init => IInv
<1> SUFFICES ASSUME Init PROVE IInv
  OBVIOUS
<1>0. MaxRetries \in Nat /\ NULL \notin Int
  BY StartupAssumption
<1>1. Types
  <2>1. NothingSent \in [0 .. MaxRetries -> SUBSET Commands]
    BY DEF NothingSent
  <2>2. sent \in [Server -> [0 .. MaxRetries -> SUBSET Commands]]
    BY <2>1 DEF Init
  <2> QED BY <1>0, <2>2 DEF Init, Types
<1>2. Unexecuted
  <2>1. \A s \in Server, k \in 0 .. MaxRetries : sent[s][k] = {}
    BY DEF Init, NothingSent
  <2> QED BY <2>1 DEF Unexecuted, Left
<1>3. Executing /\ Serving /\ Ordered
  BY DEF Init, Executing, Serving, Ordered
<1>4. InOrder
  <2>1. \A i \in 1 .. Rows : ~ Stocked(i)
    BY Kinds DEF Init, Stocked
  <2>2. 0 \in 0 .. Rows /\ \A i \in 1 .. Rows : ~ (i <= 0)
    BY Kinds
  <2> QED BY <2>1, <2>2 DEF InOrder
<1>5. Marked /\ Trying
  BY DEF Init, Marked, Trying
<1> QED BY <1>1, <1>2, <1>3, <1>4, <1>5 DEF IInv, Regular

-----------------------------------------------------------------------------
(* What every step keeps.                                                  *)

\* The least command that is left is executed.
LEMMA Executes ==
  ASSUME Types, NEW s \in Server, NEW k \in 0 .. MaxRetries, Execute(s, k)
  PROVE  \E cmd \in sent[s][k] :
           /\ cmd \in Commands
           /\ \A i \in sent[s][k] : cmd <= i
           /\ sent' = [sent EXCEPT ![s][k] = sent[s][k] \ {cmd}]
           /\ sent'[s][k] = sent[s][k] \ {cmd}
           /\ \/ cmd = Mark /\ foodStock' = foodStock /\ initTime' = InitMark
              \/ /\ cmd \in 1 .. Rows /\ initTime' = initTime
                 /\ foodStock' = [foodStock EXCEPT ![FoodRows[cmd]] = InitStock[FoodRows[cmd]]]
                 /\ Stocked(cmd)'
<1>1. PICK cmd \in sent[s][k] :
        /\ \A i \in sent[s][k] : cmd <= i
        /\ \/ cmd = Mark /\ initTime' = InitMark /\ UNCHANGED foodStock
           \/ /\ cmd # Mark
              /\ foodStock' = [foodStock EXCEPT ![FoodRows[cmd]] = InitStock[FoodRows[cmd]]]
              /\ UNCHANGED initTime
        /\ sent' = [sent EXCEPT ![s][k] = sent[s][k] \ {cmd}]
  BY DEF Execute
<1>2. cmd \in Commands /\ sent'[s][k] = sent[s][k] \ {cmd}
  <2>1. sent \in [Server -> [0 .. MaxRetries -> SUBSET Commands]]
    BY DEF Types
  <2>2. sent[s][k] \in SUBSET Commands
    BY <2>1
  <2> QED BY <1>1, <2>1, <2>2
<1>3. CASE cmd = Mark
  BY <1>1, <1>2, <1>3
<1>4. CASE cmd # Mark
  <2>1. cmd \in 1 .. Rows
    BY <1>2, <1>4, Numbers
  <2>2. FoodRows[cmd] \in Food /\ InitStock[FoodRows[cmd]] # NULL
    BY <2>1, Kinds, StartupAssumption
  <2>3. foodStock' = [foodStock EXCEPT ![FoodRows[cmd]] = InitStock[FoodRows[cmd]]]
    BY <1>1, <1>4
  <2>4. Stocked(cmd)'
    BY <2>2, <2>3 DEF Stocked, Types
  <2> QED BY <1>1, <1>2, <1>4, <2>1, <2>3, <2>4
<1> QED BY <1>3, <1>4

\* A stock that is stored is never removed, and cuts and odd cases are kept.
LEMMA StocksStay ==
  ASSUME Types, [Next]_vars
  PROVE  /\ \A f \in Food : foodStock[f] # NULL => foodStock'[f] # NULL
         /\ cuts' = 0 => cuts = 0
         /\ odd' = {} => odd = {}
<1>0. NULL \notin Int /\ NULL \notin Food /\ InitStock \in [Food -> Nat]
  BY StartupAssumption
<1>1. ASSUME NEW s \in Server, NEW k \in 0 .. MaxRetries, Execute(s, k)
      PROVE  \A f \in Food : foodStock[f] # NULL => foodStock'[f] # NULL
  <2>1. PICK cmd \in sent[s][k] :
          \/ foodStock' = foodStock
          \/ /\ cmd \in 1 .. Rows
             /\ foodStock' = [foodStock EXCEPT ![FoodRows[cmd]] = InitStock[FoodRows[cmd]]]
    BY <1>1, Executes
  <2>2. cmd \in 1 .. Rows => InitStock[FoodRows[cmd]] # NULL
    BY <1>0, Kinds
  <2> QED BY <2>1, <2>2 DEF Types
<1>2. ASSUME NEW s \in Server, NEW f \in Food, Sell(s, f)
      PROVE  \A g \in Food : foodStock[g] # NULL => foodStock'[g] # NULL
  <2>1. foodStock[f] - 1 \in Int \/ foodStock[f] = NULL
    BY DEF Types
  <2>2. CASE foodStock[f] = NULL
    BY <1>2, <2>2 DEF Sell
  <2>3. CASE foodStock[f] # NULL
    <3>1. foodStock[f] - 1 # NULL
      BY <2>1, <2>3, <1>0
    <3>2. foodStock' = [foodStock EXCEPT ![f] = @ - 1]
      BY <1>2, <2>3 DEF Sell
    <3> QED BY <3>1, <3>2 DEF Types
  <2> QED BY <2>2, <2>3
<1>3. cuts' = cuts \/ cuts' = cuts + 1
  BY DEF Next, vars, counters, Start, Step, Incr, ReadAndSend, ExecDone, Poll, IncrError, ExecError,
         PollError, Crash, Execute, Sell
<1>4. cuts' = 0 => cuts = 0
  BY <1>3 DEF Types
<1>5. \/ foodStock' = foodStock
      \/ \E s \in Server, k \in 0 .. MaxRetries : Execute(s, k)
      \/ \E s \in Server, f \in Food : Sell(s, f)
  BY DEF Next, vars, Start, Step, Incr, ExecDone, Poll, IncrError, ExecError, PollError, Crash
<1>6. odd' = {} => odd = {}
  <2>1. ASSUME NEW s \in Server, ExecError(s) PROVE odd' = {} => odd = {}
    BY <2>1 DEF ExecError, SendAgain, GiveUp
  <2>2. odd' = odd \/ odd' = odd \cup {"refused"} \/ \E s \in Server : ExecError(s)
    BY DEF Next, vars, counters, Start, Step, Incr, ReadAndSend, ExecDone, Poll, IncrError, PollError,
           Crash, Execute, Sell
  <2> QED BY <2>1, <2>2
<1> QED BY <1>1, <1>2, <1>4, <1>5, <1>6

\* So what was true of a pipeline under way stays true.
LEMMA Stays ==
  ASSUME Types, [Next]_vars
  PROVE  /\ \A i \in 1 .. Rows : Stocked(i) => Stocked(i)'
         /\ \A n \in 0 .. Rows : \A q : Stored(n, q) => Stored(n, q)'
         /\ Ready => Ready'
         /\ \A q : Left(q) => Left(q)'
<1>1. \A i \in 1 .. Rows : Stocked(i) => Stocked(i)'
  BY StocksStay, Kinds DEF Stocked
<1>2. \A n \in 0 .. Rows : \A q : Stored(n, q) => Stored(n, q)'
  <2> SUFFICES ASSUME NEW n \in 0 .. Rows, NEW q, Stored(n, q) PROVE Stored(n, q)'
    OBVIOUS
  <2>1. Complete(n)'
    BY StocksStay DEF Stored, Complete
  <2>2. \A i \in 1 .. n : i \in 1 .. Rows
    BY Kinds
  <2> QED BY <2>1, <2>2, <1>1 DEF Stored
<1>3. Ready => Ready'
  BY <1>1, StocksStay DEF Ready
<1>4. \A q : Left(q) => Left(q)'
  <2> SUFFICES ASSUME NEW q, Left(q), q # {}
               PROVE  \E n \in 0 .. Rows : q \subseteq Pipeline(n) /\ Stored(n, q)'
    BY DEF Left
  <2>1. PICK n \in 0 .. Rows : q \subseteq Pipeline(n) /\ Stored(n, q)
    BY DEF Left
  <2> QED BY <2>1, <1>2
<1> QED BY <1>1, <1>2, <1>3, <1>4

LEMMA TypesOfSteps ==
  ASSUME Types, Next
  PROVE  /\ initTime' \in Int \cup {NULL}
         /\ pc' \in [Server -> {"down", "incr", "exec", "poll", "serve"}]
         /\ starts' \in Nat /\ errors' \in Nat /\ cuts' \in Nat
<1>1. initTime' \in Int \cup {NULL}
  <2>1. Incremented \in Int
    BY DEF Types, Incremented
  <2>2. initTime' \in {initTime, Incremented, InitMark}
    BY DEF Next, counters, Start, Step, Incr, ExecDone, Poll, IncrError, ExecError, PollError, Crash,
           Execute, Sell
  <2> QED BY <2>1, <2>2, StartupAssumption DEF Types
<1>2. pc' = pc \/ \E s \in Server, l \in {"down", "incr", "exec", "poll", "serve"} : Goto(s, l)
  BY ZenonT(60) DEF Next, Start, Step, Incr, ReadAndSend, ExecDone, Poll, IncrError, ExecError, SendAgain,
     GiveUp, PollError, Crash, Execute, Sell
<1>3. pc' \in [Server -> {"down", "incr", "exec", "poll", "serve"}]
  BY <1>2 DEF Types, Goto
<1>4. starts' \in {starts, starts + 1} /\ errors' \in {errors, errors + 1} /\ cuts' \in {cuts, cuts + 1}
  BY DEF Next, counters, NetworkError, Start, Step, Incr, ReadAndSend, ExecDone, Poll, IncrError, ExecError,
         PollError, Crash, Execute, Sell
<1> QED BY <1>1, <1>3, <1>4 DEF Types

LEMMA TypesOfRedis ==
  ASSUME Types, Next
  PROVE  foodStock' \in [Food -> Int \cup {NULL}] /\ sold' \in [Food -> Int]
<1>1. ASSUME NEW s \in Server, NEW k \in 0 .. MaxRetries, Execute(s, k)
      PROVE  foodStock' \in [Food -> Int \cup {NULL}] /\ sold' = sold
  <2>1. PICK cmd \in sent[s][k] :
          \/ foodStock' = foodStock
          \/ /\ cmd \in 1 .. Rows
             /\ foodStock' = [foodStock EXCEPT ![FoodRows[cmd]] = InitStock[FoodRows[cmd]]]
    BY <1>1, Executes
  <2>2. cmd \in 1 .. Rows => InitStock[FoodRows[cmd]] \in Int
    BY Kinds, StartupAssumption
  <2>3. sold' = sold
    BY <1>1 DEF Execute
  <2> QED BY <2>1, <2>2, <2>3 DEF Types
<1>2. ASSUME NEW s \in Server, NEW f \in Food, Sell(s, f)
      PROVE  foodStock' \in [Food -> Int \cup {NULL}] /\ sold' \in [Food -> Int]
  <2>1. foodStock[f] \in Int \/ foodStock[f] = NULL
    BY DEF Types
  <2>2. CASE foodStock[f] = NULL
    BY <1>2, <2>2 DEF Sell, Types
  <2>3. CASE foodStock[f] # NULL
    <3>1. foodStock' = [foodStock EXCEPT ![f] = @ - 1] /\ sold' = [sold EXCEPT ![f] = @ + 1]
      BY <1>2, <2>3 DEF Sell
    <3>2. foodStock[f] - 1 \in Int /\ sold[f] + 1 \in Int
      BY <2>1, <2>3 DEF Types
    <3> QED BY <3>1, <3>2 DEF Types
  <2> QED BY <2>2, <2>3
<1>3. \/ foodStock' = foodStock /\ sold' = sold
      \/ \E s \in Server, k \in 0 .. MaxRetries : Execute(s, k)
      \/ \E s \in Server, f \in Food : Sell(s, f)
  BY DEF Next, Start, Step, Incr, ExecDone, Poll, IncrError, ExecError, PollError, Crash
<1> QED BY <1>1, <1>2, <1>3 DEF Types

\* An attempt of Exec that fails: Exec sends again, or the server goes on.
LEMMA AfterExecError ==
  ASSUME NEW s \in Server, ExecError(s)
  PROVE  \E failed \in Failed(s), rest \in {{}, sent[s][try[s]]} :
           \/ try[s] < MaxRetries /\ SendAgain(s, failed, rest)
           \/ try[s] < MaxRetries /\ GiveUp(s, failed, rest, {"refused"})
           \/ try[s] = MaxRetries /\ GiveUp(s, failed, rest, {})
BY DEF ExecError

\* Who waits for what, and what Redis may still have of any attempt, afterwards.
Elects(s, n) ==
  /\ n \in 0 .. Rows
  /\ n = Rows \/ cuts' = cuts + 1
  /\ Goto(s, "exec") /\ Send(s, 0, Pipeline(n))

LEMMA IncrElects ==
  ASSUME NEW s \in Server, Incr(s)
  PROVE  \/ Incremented = 1 /\ \E n \in 0 .. Rows : Elects(s, n)
         \/ /\ Goto(s, "poll") \/ (Goto(s, "serve") /\ odd' = odd \cup {"refused"} /\ errors' = errors + 1)
            /\ UNCHANGED <<try, pending, sent>>
BY DEF Incr, ReadAndSend, Elects, Rows, NetworkError

LEMMA SentNext ==
  ASSUME Types, Next, NEW t \in Server, NEW j \in 0 .. MaxRetries
  PROVE  /\ sent' \in [Server -> [0 .. MaxRetries -> SUBSET Commands]]
         /\ \/ sent'[t][j] \in {sent[t][j], {}}
            \/ Execute(t, j)
            \/ Incr(t) /\ \E n \in 0 .. Rows : Elects(t, n) /\ sent'[t][j] = Pipeline(n)
            \/ /\ ExecError(t)
               /\ \E failed \in Failed(t) : odd' = odd \cup Late(t, failed) /\ sent'[t][j] = failed
<1>0. sent \in [Server -> [0 .. MaxRetries -> SUBSET Commands]] /\ try \in [Server -> 0 .. MaxRetries]
        /\ MaxRetries \in Nat /\ pending \in [Server -> SUBSET Commands]
  BY StartupAssumption DEF Types
<1> DEFINE P == /\ sent' \in [Server -> [0 .. MaxRetries -> SUBSET Commands]]
                /\ \/ sent'[t][j] \in {sent[t][j], {}}
                   \/ Execute(t, j)
                   \/ Incr(t) /\ \E n \in 0 .. Rows : Elects(t, n) /\ sent'[t][j] = Pipeline(n)
                   \/ /\ ExecError(t)
                      /\ \E failed \in Failed(t) :
                           odd' = odd \cup Late(t, failed) /\ sent'[t][j] = failed
<1>1. ASSUME NEW s \in Server, Incr(s) PROVE P
  <2>1. CASE UNCHANGED sent
    BY <1>0, <2>1
  <2>2. ASSUME NEW n \in 0 .. Rows, Elects(s, n) PROVE P
    <3>1. sent' = [sent EXCEPT ![s][0] = Pipeline(n)]
      BY <2>2 DEF Elects, Send
    <3>2. Pipeline(n) \in SUBSET Commands
      BY Numbers
    <3>3. sent' \in [Server -> [0 .. MaxRetries -> SUBSET Commands]]
      BY <3>1, <3>2, <1>0
    <3>4. sent'[t][j] = sent[t][j] \/ (t = s /\ sent'[t][j] = Pipeline(n))
      BY <3>1, <1>0
    <3> QED BY <1>1, <2>2, <3>3, <3>4
  <2> QED BY <1>1, <2>1, <2>2, IncrElects
<1>2. ASSUME NEW s \in Server, NEW k \in 0 .. MaxRetries, Execute(s, k) PROVE P
  <2>1. PICK cmd \in sent[s][k] : sent' = [sent EXCEPT ![s][k] = sent[s][k] \ {cmd}]
    BY <1>2, Executes
  <2>2. sent[s][k] \ {cmd} \in SUBSET Commands
    BY <1>0
  <2>3. sent'[t][j] = sent[t][j] \/ (t = s /\ j = k)
    BY <2>1, <1>0
  <2> QED BY <2>1, <2>2, <2>3, <1>0, <1>2
<1>3. ASSUME NEW s \in Server, Crash(s) PROVE P
  <2>1. NothingSent \in [0 .. MaxRetries -> SUBSET Commands] /\ NothingSent[j] = {}
    BY <1>0 DEF NothingSent
  <2>2. sent' = sent \/ sent' = [sent EXCEPT ![s] = NothingSent]
    BY <1>3 DEF Crash
  <2> QED BY <2>1, <2>2, <1>0
<1>4. ASSUME NEW s \in Server, ExecError(s) PROVE P
  <2>1. PICK failed \in Failed(s), rest \in {{}, sent[s][try[s]]} :
          \/ try[s] < MaxRetries /\ SendAgain(s, failed, rest)
          \/ sent' = [sent EXCEPT ![s][try[s]] = rest]
    BY <1>4, AfterExecError DEF GiveUp
  <2>2. try[s] \in 0 .. MaxRetries /\ sent[s][try[s]] \in SUBSET Commands
    BY <1>0
  <2>3. rest \in SUBSET Commands /\ failed \in SUBSET Commands
    <3>1. failed \in SUBSET pending[s]
      BY DEF Failed
    <3>2. pending[s] \in SUBSET Commands
      BY <1>0
    <3> QED BY <3>1, <3>2, <2>2
  <2>4. CASE sent' = [sent EXCEPT ![s][try[s]] = rest]
    <3>1. sent'[t][j] \in {sent[t][j], {}}
      BY <2>2, <2>4, <1>0
    <3> QED BY <3>1, <2>2, <2>3, <2>4, <1>0
  <2>5. CASE try[s] < MaxRetries /\ SendAgain(s, failed, rest)
    <3>1. try[s] + 1 \in 0 .. MaxRetries
      BY <2>2, <2>5, <1>0
    <3>2. /\ sent' = [sent EXCEPT ![s][try[s]] = rest, ![s][try[s] + 1] = failed]
          /\ odd' = odd \cup Late(s, failed)
      BY <2>5 DEF SendAgain
    <3>3. sent' \in [Server -> [0 .. MaxRetries -> SUBSET Commands]]
      BY <3>1, <3>2, <2>2, <2>3, <1>0
    <3>4. sent'[t][j] \in {sent[t][j], {}} \/ (t = s /\ sent'[t][j] = failed)
      BY <3>1, <3>2, <2>2, <1>0
    <3> QED BY <3>2, <3>3, <3>4, <1>4
  <2> QED BY <2>1, <2>4, <2>5
<1>5. \/ sent' = sent
      \/ \E s \in Server : Incr(s) \/ Crash(s) \/ ExecError(s)
      \/ \E s \in Server, k \in 0 .. MaxRetries : Execute(s, k)
  BY DEF Next, Start, Step, ExecDone, Poll, IncrError, PollError, Sell
<1> QED BY <1>0, <1>1, <1>2, <1>3, <1>4, <1>5

LEMMA NextTypes == IInv /\ Next => Types' /\ Trying'
<1> SUFFICES ASSUME IInv, Next PROVE Types' /\ Trying'
  OBVIOUS
<1>0. /\ try \in [Server -> 0 .. MaxRetries] /\ pending \in [Server -> SUBSET Commands] /\ errors \in Nat
      /\ \A s \in Server : try[s] <= errors
      /\ MaxRetries \in Nat /\ Types
  BY StartupAssumption DEF IInv, Types, Trying
<1> DEFINE P == /\ try' \in [Server -> 0 .. MaxRetries] /\ pending' \in [Server -> SUBSET Commands]
                /\ \A s \in Server : try'[s] <= errors'
<1>1. ASSUME NEW s \in Server, Start(s) PROVE P
  BY <1>0, <1>1 DEF Start
<1>2. ASSUME UNCHANGED <<try, pending>>, errors' \in {errors, errors + 1} PROVE P
  BY <1>0, <1>2
<1>3. ASSUME NEW s \in Server, Incr(s) PROVE P
  <2>0. errors' \in {errors, errors + 1}
    BY <1>3 DEF Incr, ReadAndSend, NetworkError
  <2>1. ASSUME NEW n \in 0 .. Rows, Elects(s, n) PROVE P
    <3>1. try' = [try EXCEPT ![s] = 0] /\ pending' = [pending EXCEPT ![s] = Pipeline(n)]
      BY <2>1 DEF Elects, Send
    <3>2. Pipeline(n) \in SUBSET Commands
      BY Numbers
    <3> QED BY <3>1, <3>2, <2>0, <1>0
  <2> QED BY <1>2, <1>3, <2>0, <2>1, IncrElects
<1>4. ASSUME NEW s \in Server, IncrError(s) PROVE P
  <2>1. pending' = pending /\ errors' = errors + 1
    BY <1>4 DEF IncrError, NetworkError
  <2>2. try' = try \/ (try[s] < MaxRetries /\ try' = [try EXCEPT ![s] = try[s] + 1])
    BY <1>4 DEF IncrError
  <2>3. CASE try' = try
    BY <1>0, <2>1, <2>3
  <2>4. CASE try[s] < MaxRetries /\ try' = [try EXCEPT ![s] = try[s] + 1]
    BY <1>0, <2>1, <2>4
  <2> QED BY <2>2, <2>3, <2>4
<1>5. ASSUME NEW s \in Server, ExecError(s) PROVE P
  <2>1. PICK failed \in Failed(s), rest \in {{}, sent[s][try[s]]} :
          \/ try[s] < MaxRetries /\ SendAgain(s, failed, rest)
          \/ UNCHANGED <<try, pending>>
    BY <1>5, AfterExecError DEF GiveUp
  <2>2. errors' = errors + 1
    BY <1>5 DEF ExecError, NetworkError
  <2>3. CASE try[s] < MaxRetries /\ SendAgain(s, failed, rest)
    <3>1. failed \in SUBSET pending[s]
      BY DEF Failed
    <3>2. failed \in SUBSET Commands
      BY <3>1, <1>0
    <3>3. /\ try' = [try EXCEPT ![s] = try[s] + 1] /\ pending' = [pending EXCEPT ![s] = failed]
      BY <2>3 DEF SendAgain
    <3> QED BY <3>2, <3>3, <2>2, <2>3, <1>0
  <2> QED BY <1>2, <2>1, <2>2, <2>3
<1>6. \/ UNCHANGED <<try, pending>> /\ errors' \in {errors, errors + 1}
      \/ \E s \in Server : Start(s) \/ Incr(s) \/ IncrError(s) \/ ExecError(s)
  BY DEF Next, counters, NetworkError, Step, ExecDone, Poll, PollError, Crash, Execute, Sell
<1>7. P
  BY <1>1, <1>2, <1>3, <1>4, <1>5, <1>6
<1>8. Trying'
  BY <1>7 DEF Trying
<1>9. sent' \in [Server -> [0 .. MaxRetries -> SUBSET Commands]]
  <2>1. CASE Server = {}
    BY <2>1, <1>6 DEF Next
  <2>2. ASSUME NEW t \in Server PROVE sent' \in [Server -> [0 .. MaxRetries -> SUBSET Commands]]
    <3>1. 0 \in 0 .. MaxRetries
      BY <1>0
    <3> QED BY <3>1, <1>0, SentNext
  <2> QED BY <2>1, <2>2
<1>10. Types'
  BY <1>7, <1>9, <1>0, TypesOfSteps, TypesOfRedis DEF Types
<1> QED BY <1>8, <1>10

\* How a server comes to execute its pipeline, or goes on.
LEMMA ExecNext ==
  ASSUME Types, Next, NEW s \in Server, pc'[s] = "exec"
  PROVE  \/ \E n \in 0 .. Rows : Elects(s, n)
         \/ \E failed \in Failed(s), rest \in {{}, sent[s][try[s]]} :
              pc[s] = "exec" /\ try[s] < MaxRetries /\ SendAgain(s, failed, rest)
         \/ /\ pc[s] = "exec" /\ try'[s] = try[s] /\ pending'[s] = pending[s]
            /\ Execute(s, try[s]) \/ sent'[s][try[s]] = sent[s][try[s]]
<1>0. /\ pc \in [Server -> {"down", "incr", "exec", "poll", "serve"}]
      /\ try \in [Server -> 0 .. MaxRetries] /\ pending \in [Server -> SUBSET Commands]
      /\ sent \in [Server -> [0 .. MaxRetries -> SUBSET Commands]]
  BY DEF Types
<1>1. ASSUME NEW t \in Server, Start(t) \/ IncrError(t) \/ PollError(t) \/ ExecDone(t) \/ Poll(t)
      PROVE  pc[s] = "exec" /\ try'[s] = try[s] /\ pending'[s] = pending[s] /\ sent' = sent
  BY <1>1, <1>0 DEF Start, IncrError, PollError, ExecDone, Poll, Goto
<1>2. ASSUME NEW t \in Server, Incr(t), ~ \E n \in 0 .. Rows : Elects(s, n)
      PROVE  /\ pc[s] = "exec" /\ try'[s] = try[s] /\ pending'[s] = pending[s]
             /\ sent'[s][try[s]] = sent[s][try[s]]
  <2>1. CASE (Goto(t, "poll") \/ Goto(t, "serve")) /\ UNCHANGED <<try, pending, sent>>
    BY <2>1, <1>0 DEF Goto
  <2>2. ASSUME NEW n \in 0 .. Rows, Elects(t, n)
        PROVE  /\ pc[s] = "exec" /\ try'[s] = try[s] /\ pending'[s] = pending[s]
               /\ sent'[s][try[s]] = sent[s][try[s]]
    <3>1. t # s
      BY <1>2, <2>2
    <3> QED BY <2>2, <3>1, <1>0 DEF Elects, Send, Goto
  <2> QED BY <1>2, <2>1, <2>2, IncrElects
<1>3. ASSUME NEW t \in Server, Crash(t)
      PROVE  /\ pc[s] = "exec" /\ try'[s] = try[s] /\ pending'[s] = pending[s]
             /\ sent'[s][try[s]] = sent[s][try[s]]
  BY <1>3, <1>0 DEF Crash, Goto
<1>4. ASSUME NEW t \in Server, NEW f \in Food, Sell(t, f)
      PROVE  pc[s] = "exec" /\ try'[s] = try[s] /\ pending'[s] = pending[s] /\ sent' = sent
  BY <1>4, <1>0 DEF Sell, Goto
<1>5. ASSUME NEW t \in Server, NEW k \in 0 .. MaxRetries, Execute(t, k)
      PROVE  /\ pc[s] = "exec" /\ try'[s] = try[s] /\ pending'[s] = pending[s]
             /\ Execute(s, try[s]) \/ sent'[s][try[s]] = sent[s][try[s]]
  <2>1. pc' = pc /\ try' = try /\ pending' = pending
    BY <1>5 DEF Execute
  <2>2. CASE t = s /\ k = try[s]
    BY <1>5, <2>1, <2>2
  <2>3. CASE t # s \/ k # try[s]
    <3>1. PICK cmd \in sent[t][k] : sent' = [sent EXCEPT ![t][k] = sent[t][k] \ {cmd}]
      BY <1>5, Executes
    <3> QED BY <2>1, <2>3, <3>1, <1>0
  <2> QED BY <2>2, <2>3
<1>6. ASSUME NEW t \in Server, ExecError(t),
             ~ \E failed \in Failed(s), rest \in {{}, sent[s][try[s]]} :
                 pc[s] = "exec" /\ try[s] < MaxRetries /\ SendAgain(s, failed, rest)
      PROVE  /\ pc[s] = "exec" /\ try'[s] = try[s] /\ pending'[s] = pending[s]
             /\ sent'[s][try[s]] = sent[s][try[s]]
  <2>1. PICK failed \in Failed(t), rest \in {{}, sent[t][try[t]]} :
          \/ try[t] < MaxRetries /\ SendAgain(t, failed, rest)
          \/ \E why : GiveUp(t, failed, rest, why)
    BY <1>6, AfterExecError
  <2>2. CASE \E why : GiveUp(t, failed, rest, why)
    BY <2>2, <1>0 DEF GiveUp, Goto
  <2>3. CASE try[t] < MaxRetries /\ SendAgain(t, failed, rest)
    <3>1. t # s
      BY <2>3, <1>6 DEF ExecError
    <3> QED BY <2>3, <3>1, <1>0 DEF SendAgain
  <2> QED BY <2>1, <2>2, <2>3
<1> QED BY <1>1, <1>2, <1>3, <1>4, <1>5, <1>6 DEF Next, Step

LEMMA NextOrdered == IInv /\ Next => Ordered'
<1> SUFFICES ASSUME IInv, Next, NEW s \in Server, pc'[s] = "exec"
             PROVE  Follows(pending'[s], sent'[s][try'[s]])
  BY DEF Ordered
<1>0. /\ try \in [Server -> 0 .. MaxRetries] /\ pending \in [Server -> SUBSET Commands]
      /\ sent \in [Server -> [0 .. MaxRetries -> SUBSET Commands]]
      /\ MaxRetries \in Nat /\ Types
  BY StartupAssumption DEF IInv, Types
<1>1. ASSUME NEW q PROVE Follows(q, q)
  BY DEF Follows
<1>2. CASE \E n \in 0 .. Rows : Elects(s, n)
  <2>1. PICK n \in 0 .. Rows : Elects(s, n)
    BY <1>2
  <2>2. try'[s] = 0 /\ pending'[s] = Pipeline(n) /\ sent'[s][0] = Pipeline(n)
    BY <2>1, <1>0 DEF Elects, Send
  <2> QED BY <2>2, <1>1
<1>3. CASE \E failed \in Failed(s), rest \in {{}, sent[s][try[s]]} :
             pc[s] = "exec" /\ try[s] < MaxRetries /\ SendAgain(s, failed, rest)
  <2>1. PICK failed \in Failed(s), rest \in {{}, sent[s][try[s]]} :
               try[s] < MaxRetries /\ SendAgain(s, failed, rest)
    BY <1>3
  <2>2. try'[s] = try[s] + 1 /\ pending'[s] = failed /\ sent'[s][try[s] + 1] = failed
    BY <2>1, <1>0 DEF SendAgain
  <2> QED BY <2>2, <1>1
<1>4. CASE /\ pc[s] = "exec" /\ try'[s] = try[s] /\ pending'[s] = pending[s]
           /\ Execute(s, try[s]) \/ sent'[s][try[s]] = sent[s][try[s]]
  <2>1. Follows(pending[s], sent[s][try[s]])
    BY <1>4 DEF IInv, Ordered
  <2>2. CASE sent'[s][try[s]] = sent[s][try[s]]
    BY <1>4, <2>1, <2>2
  <2>3. CASE Execute(s, try[s])
    <3>0. try[s] \in 0 .. MaxRetries /\ Types
      BY <1>0
    <3>1. PICK cmd \in sent[s][try[s]] :
            /\ \A i \in sent[s][try[s]] : cmd <= i
            /\ sent'[s][try[s]] = sent[s][try[s]] \ {cmd}
      BY <2>3, <3>0, Executes
    <3>2. sent[s][try[s]] \in SUBSET Int
      BY <1>0, Numbers
    <3>3. Follows(pending[s], sent[s][try[s]] \ {cmd})
      BY <2>1, <3>1, <3>2 DEF Follows
    <3> QED BY <1>4, <3>1, <3>3
  <2> QED BY <1>4, <2>2, <2>3
<1> QED BY <1>0, <1>2, <1>3, <1>4, ExecNext

-----------------------------------------------------------------------------
(* While connections break and are neither late nor refused.               *)

\* What Exec sends again is all that Redis has not executed.
LEMMA SendsTheRest ==
  ASSUME IInv, Regular, NEW s \in Server, pc[s] = "exec", NEW failed \in Failed(s), Late(s, failed) = {}
  PROVE  \E n \in 0 .. Rows : failed \subseteq Pipeline(n) /\ Stored(n, failed)
<1>1. PICK n \in 0 .. Rows : Awaits(s, n)
  BY DEF Regular, Executing
<1>2. /\ failed \subseteq pending[s] /\ pending[s] \in SUBSET Commands
      /\ Cardinality(pending[s] \ failed) <= Cardinality(pending[s] \ sent[s][try[s]])
  BY DEF Failed, IInv, Types
<1>3. Follows(pending[s], failed)
  BY <1>2 DEF Late, Follows
<1>4. sent[s][try[s]] \subseteq failed
  BY <1>2, <1>3, LeftFailed DEF IInv, Ordered
<1> QED BY <1>1, <1>2, <1>4 DEF Awaits, Stored

\* The foods that come before the command that Redis executes are stored; before
\* the mark these are all foods.
LEMMA Advances ==
  ASSUME IInv, Regular, NEW s \in Server, NEW k \in 0 .. MaxRetries, Execute(s, k)
  PROVE  \E cmd \in sent[s][k] :
           /\ sent'[s][k] = sent[s][k] \ {cmd}
           /\ \A i \in 1 .. Rows : i < cmd /\ cmd # Mark => Stocked(i)
           /\ \/ cmd = Mark /\ foodStock' = foodStock /\ Ready
              \/ /\ cmd \in 1 .. Rows /\ Stocked(cmd)' /\ initTime' = initTime
                 /\ foodStock' = [foodStock EXCEPT ![FoodRows[cmd]] = InitStock[FoodRows[cmd]]]
<1>1. PICK cmd \in sent[s][k] :
        /\ cmd \in Commands
        /\ \A i \in sent[s][k] : cmd <= i
        /\ sent'[s][k] = sent[s][k] \ {cmd}
        /\ \/ cmd = Mark /\ foodStock' = foodStock
           \/ /\ cmd \in 1 .. Rows /\ Stocked(cmd)' /\ initTime' = initTime
              /\ foodStock' = [foodStock EXCEPT ![FoodRows[cmd]] = InitStock[FoodRows[cmd]]]
  BY Executes DEF IInv
<1>2. PICK n \in 0 .. Rows : sent[s][k] \subseteq Pipeline(n) /\ Stored(n, sent[s][k])
  BY <1>1 DEF Regular, Unexecuted, Left
<1>3. n \in Nat /\ n <= Rows /\ Rows \in Nat /\ Mark = Rows + 1 /\ cmd \in Int
  BY <1>1, Kinds, Numbers
<1>4. cmd \in 1 .. n \/ cmd = Mark
  BY <1>1, <1>2 DEF Pipeline
<1>5. ASSUME NEW i \in 1 .. n, i < cmd PROVE Stocked(i)
  <2>1. i \notin sent[s][k]
    BY <1>1, <1>3, <1>5
  <2> QED BY <2>1, <1>2 DEF Stored
<1>6. \A i \in 1 .. Rows : i < cmd /\ cmd # Mark => Stocked(i)
  BY <1>3, <1>4, <1>5
<1>7. cmd = Mark => Ready
  <2>1. \A i \in 1 .. n : cmd = Mark => i < cmd
    BY <1>3
  <2>2. cuts = 0 => n = Rows
    BY <1>2 DEF Stored, Complete
  <2> QED BY <2>1, <2>2, <1>5 DEF Ready
<1> QED BY <1>1, <1>6, <1>7

LEMMA ElectsAll ==
  ASSUME IInv, Next, NEW s \in Server, NEW n \in 0 .. Rows, Elects(s, n)
  PROVE  Stored(n, Pipeline(n))'
<1>1. Complete(n)'
  BY DEF Elects, Complete, IInv, Types
<1> QED BY <1>1 DEF Stored, Pipeline

LEMMA NextUnexecuted == IInv /\ Regular /\ Next /\ odd' = {} => Unexecuted'
<1> SUFFICES ASSUME IInv, Regular, Next, odd' = {}, NEW s \in Server, NEW k \in 0 .. MaxRetries
             PROVE  Left(sent[s][k])'
  BY DEF Unexecuted
<1>1. Left(sent[s][k]) /\ Types /\ [Next]_vars
  BY DEF IInv, Regular, Unexecuted
<1>2. CASE sent'[s][k] \in {sent[s][k], {}}
  <2>1. CASE sent'[s][k] = {}
    BY <2>1 DEF Left
  <2>2. CASE sent'[s][k] = sent[s][k]
    <3>1. \A q : Left(q) => Left(q)'
      BY <1>1, Stays
    <3> QED BY <1>1, <2>2, <3>1 DEF Left
  <2> QED BY <1>2, <2>1, <2>2
<1>3. CASE Execute(s, k)
  <2>1. PICK cmd \in sent[s][k] : /\ sent'[s][k] = sent[s][k] \ {cmd}
                                  /\ cmd = Mark \/ Stocked(cmd)'
    BY <1>3, Advances
  <2>2. PICK n \in 0 .. Rows : sent[s][k] \subseteq Pipeline(n) /\ Stored(n, sent[s][k])
    BY <1>1, <2>1 DEF Left
  <2>3. \A i \in 1 .. n : i # Mark
    BY Kinds
  <2>4. Stored(n, sent[s][k])'
    <3>1. Complete(n)' /\ \A i \in 1 .. n : i \in sent[s][k] \/ Stocked(i)'
      <4>1. Stored(n, sent[s][k]) => Complete(n)'
        BY <1>1, StocksStay DEF Stored, Complete
      <4>2. \A i \in 1 .. n : i \in 1 .. Rows
        BY Kinds
      <4> QED BY <2>2, <4>1, <4>2, <1>1, Stays DEF Stored
    <3>2. \A i \in 1 .. n : i \in sent'[s][k] \/ Stocked(i)'
      BY <3>1, <2>1, <2>3
    <3> QED BY <3>1, <3>2 DEF Stored
  <2> QED BY <2>1, <2>2, <2>4 DEF Left
<1>4. CASE \E n \in 0 .. Rows : Elects(s, n) /\ sent'[s][k] = Pipeline(n)
  BY <1>4, ElectsAll DEF Left
<1>5. CASE ExecError(s) /\ \E failed \in Failed(s) : odd' = odd \cup Late(s, failed) /\ sent'[s][k] = failed
  <2>1. PICK failed \in Failed(s) : odd' = odd \cup Late(s, failed) /\ sent'[s][k] = failed
    BY <1>5
  <2>2. pc[s] = "exec" /\ Late(s, failed) = {}
    BY <1>5, <2>1 DEF ExecError
  <2>3. PICK n \in 0 .. Rows : failed \subseteq Pipeline(n) /\ Stored(n, failed)
    BY <2>2, SendsTheRest
  <2>4. Left(failed)
    BY <2>3 DEF Left
  <2>5. \A q : Left(q) => Left(q)'
    BY <1>1, Stays
  <2> QED BY <2>1, <2>4, <2>5 DEF Left
<1> QED BY <1>1, <1>2, <1>3, <1>4, <1>5, SentNext

LEMMA NextExecuting == IInv /\ Regular /\ Next /\ odd' = {} => Executing'
<1> SUFFICES ASSUME IInv, Regular, Next, odd' = {}, NEW s \in Server, pc'[s] = "exec"
             PROVE  \E n \in 0 .. Rows : pending'[s] \subseteq Pipeline(n) /\ Stored(n, sent[s][try[s]])'
  BY DEF Executing, Awaits
<1>0. /\ try \in [Server -> 0 .. MaxRetries] /\ pending \in [Server -> SUBSET Commands]
      /\ sent \in [Server -> [0 .. MaxRetries -> SUBSET Commands]]
      /\ MaxRetries \in Nat /\ Types /\ [Next]_vars
  BY StartupAssumption DEF IInv, Types
<1>1. CASE \E n \in 0 .. Rows : Elects(s, n)
  <2>1. PICK n \in 0 .. Rows : Elects(s, n)
    BY <1>1
  <2>2. try'[s] = 0 /\ pending'[s] = Pipeline(n) /\ sent'[s][0] = Pipeline(n)
    BY <2>1, <1>0 DEF Elects, Send
  <2> QED BY <2>1, <2>2, ElectsAll DEF Stored
<1>2. CASE \E failed \in Failed(s), rest \in {{}, sent[s][try[s]]} :
             pc[s] = "exec" /\ try[s] < MaxRetries /\ SendAgain(s, failed, rest)
  <2>1. PICK failed \in Failed(s), rest \in {{}, sent[s][try[s]]} :
               pc[s] = "exec" /\ try[s] < MaxRetries /\ SendAgain(s, failed, rest)
    BY <1>2
  <2>2. try'[s] = try[s] + 1 /\ pending'[s] = failed /\ sent'[s][try[s] + 1] = failed
    BY <2>1, <1>0 DEF SendAgain
  <2>3. Late(s, failed) = {}
    BY <2>1 DEF SendAgain
  <2>4. PICK n \in 0 .. Rows : failed \subseteq Pipeline(n) /\ Stored(n, failed)
    BY <2>1, <2>3, SendsTheRest
  <2>5. Stored(n, failed)'
    BY <2>4, <1>0, Stays
  <2> QED BY <2>2, <2>4, <2>5 DEF Stored
<1>3. CASE /\ pc[s] = "exec" /\ try'[s] = try[s] /\ pending'[s] = pending[s]
           /\ Execute(s, try[s]) \/ sent'[s][try[s]] = sent[s][try[s]]
  <2>1. PICK n \in 0 .. Rows : Awaits(s, n)
    BY <1>3 DEF Regular, Executing
  <2> DEFINE q == sent[s][try[s]]
  <2>2. pending[s] \subseteq Pipeline(n) /\ Stored(n, q)
    BY <2>1 DEF Awaits
  <2>3. Complete(n)' /\ \A i \in 1 .. n : i \in q \/ Stocked(i)'
    <3>1. Stored(n, q) => Complete(n)'
      BY <1>0, StocksStay DEF Stored, Complete
    <3>2. \A i \in 1 .. n : i \in 1 .. Rows
      BY Kinds
    <3> QED BY <2>2, <3>1, <3>2, <1>0, Stays DEF Stored
  <2>4. ASSUME NEW i \in 1 .. n PROVE i \in sent'[s][try[s]] \/ Stocked(i)'
    <3>1. CASE sent'[s][try[s]] = q
      BY <3>1, <2>3
    <3>2. CASE Execute(s, try[s])
      <4>0. try[s] \in 0 .. MaxRetries
        BY <1>0
      <4>1. PICK cmd \in q : sent'[s][try[s]] = q \ {cmd} /\ (cmd = Mark \/ Stocked(cmd)')
        BY <3>2, <4>0, Advances
      <4>2. i # Mark
        BY Kinds
      <4> QED BY <4>1, <4>2, <2>3
    <3> QED BY <1>3, <3>1, <3>2
  <2> HIDE DEF q
  <2>5. Stored(n, sent[s][try[s]])'
    BY <2>3, <2>4, <1>3 DEF Stored
  <2> QED BY <2>2, <2>5, <1>3
<1> QED BY <1>0, <1>1, <1>2, <1>3, ExecNext

\* Foods are stored one after another.
LEMMA NextInOrder == IInv /\ Regular /\ Next => InOrder'
<1> SUFFICES ASSUME IInv, Regular, Next PROVE InOrder'
  OBVIOUS
<1>0. Types /\ [Next]_vars /\ foodStock \in [Food -> Int \cup {NULL}]
  BY DEF IInv, Types
<1>1. PICK p \in 0 .. Rows : \A i \in 1 .. Rows : Stocked(i) <=> i <= p
  BY DEF Regular, InOrder
<1>2. \A i \in 1 .. Rows : Stocked(i) => Stocked(i)'
  BY <1>0, Stays
<1>3. ASSUME NEW s \in Server, NEW k \in 0 .. MaxRetries, Execute(s, k) PROVE InOrder'
  <2>1. PICK cmd \in sent[s][k] :
          /\ \A i \in 1 .. Rows : i < cmd /\ cmd # Mark => Stocked(i)
          /\ \/ cmd = Mark /\ foodStock' = foodStock
             \/ /\ cmd \in 1 .. Rows /\ Stocked(cmd)'
                /\ foodStock' = [foodStock EXCEPT ![FoodRows[cmd]] = InitStock[FoodRows[cmd]]]
    BY <1>3, Advances
  <2>2. CASE foodStock' = foodStock
    BY <1>1, <2>2 DEF InOrder, Stocked
  <2>3. CASE /\ cmd \in 1 .. Rows /\ Stocked(cmd)'
             /\ foodStock' = [foodStock EXCEPT ![FoodRows[cmd]] = InitStock[FoodRows[cmd]]]
    <3>1. Rows \in Nat /\ p \in Nat /\ cmd \in Nat /\ cmd # Mark
      BY <2>3, Kinds
    <3>2. \A i \in 1 .. Rows : i # cmd => foodStock'[FoodRows[i]] = foodStock[FoodRows[i]]
      BY <2>3, Kinds, <1>0
    <3>3. \A i \in 1 .. Rows : i # cmd => (Stocked(i)' <=> i <= p)
      BY <3>2, <1>1 DEF Stocked
    <3>4. cmd <= p + 1
      <4>1. CASE cmd = 1
        BY <4>1, <3>1
      <4>2. CASE cmd # 1
        <5>1. cmd - 1 \in 1 .. Rows /\ cmd - 1 < cmd
          BY <4>2, <3>1, <2>3
        <5> QED BY <5>1, <2>1, <1>1, <3>1
      <4> QED BY <4>1, <4>2
    <3>5. CASE cmd <= p
      BY <3>3, <3>5, <2>3 DEF InOrder
    <3>6. CASE cmd = p + 1
      <4>1. cmd \in 0 .. Rows /\ \A i \in 1 .. Rows : Stocked(i)' <=> i <= cmd
        BY <3>1, <3>3, <3>6, <2>3
      <4> QED BY <4>1 DEF InOrder
    <3> QED BY <3>4, <3>5, <3>6, <3>1
  <2> QED BY <2>1, <2>2, <2>3
<1>4. ASSUME NEW s \in Server, NEW f \in Food, Sell(s, f) PROVE InOrder'
  <2>1. \A g \in Food : foodStock[g] = NULL => foodStock'[g] = NULL
    BY <1>4, <1>0 DEF Sell
  <2>2. \A i \in 1 .. Rows : Stocked(i)' <=> i <= p
    BY <2>1, <1>1, <1>2, Kinds DEF Stocked
  <2> QED BY <2>2 DEF InOrder
<1>5. \/ UNCHANGED foodStock
      \/ \E s \in Server, k \in 0 .. MaxRetries : Execute(s, k)
      \/ \E s \in Server, f \in Food : Sell(s, f)
  BY DEF Next, Start, Step, Incr, ExecDone, Poll, IncrError, ExecError, PollError, Crash
<1>6. CASE UNCHANGED foodStock
  BY <1>1, <1>6 DEF InOrder, Stocked
<1> QED BY <1>3, <1>4, <1>5, <1>6

\* INIT_TIME is below 1 only if the mark was set.
LEMMA NextMarked == IInv /\ Regular /\ Next => Marked'
<1> SUFFICES ASSUME IInv, Regular, Next, initTime' # NULL, initTime' < 1 PROVE Ready'
  BY DEF Marked
<1>0. Types /\ [Next]_vars /\ initTime \in Int \cup {NULL}
  BY DEF IInv, Types
<1>1. CASE Ready
  BY <1>0, <1>1, Stays
<1>2. CASE ~ Ready
  <2>1. initTime = NULL \/ ~ (initTime < 1)
    BY <1>2 DEF Regular, Marked
  <2>2. initTime' # initTime
    BY <2>1
  <2>3. initTime' # Incremented
    BY <2>1, <1>0 DEF Incremented
  <2>4. PICK s \in Server, k \in 0 .. MaxRetries : Execute(s, k)
    BY <2>2, <2>3 DEF Next, Start, Step, Incr, ExecDone, Poll, IncrError, ExecError, PollError, Crash, Sell
  <2>5. Ready
    BY <2>2, <2>4, Advances
  <2> QED BY <1>2, <2>5
<1> QED BY <1>1, <1>2

\* How a server comes to serve: Redis has executed the whole pipeline, or it read
\* the mark, or its Exec ended with an error.
LEMMA ServeNext ==
  ASSUME Types, Next, NEW s \in Server, pc'[s] = "serve"
  PROVE  \/ pc[s] = "serve"
         \/ ExecDone(s)
         \/ Poll(s) /\ initTime # NULL /\ initTime < 1
         \/ odd' # {}
         \/ pc[s] = "exec" /\ try[s] = MaxRetries /\ errors' = errors + 1
<1>0. pc \in [Server -> {"down", "incr", "exec", "poll", "serve"}]
  BY DEF Types
<1>1. ASSUME NEW t \in Server,
             Start(t) \/ IncrError(t) \/ PollError(t) \/ Crash(t) \/ \E f \in Food : Sell(t, f)
      PROVE  pc[s] = "serve"
  <2>1. pc' = pc \/ \E l \in {"down", "incr", "poll"} : pc' = [pc EXCEPT ![t] = l]
    BY <1>1 DEF Start, IncrError, PollError, Crash, Sell, Goto
  <2> QED BY <2>1, <1>0
<1>2. ASSUME NEW t \in Server, Incr(t) PROVE pc[s] = "serve" \/ odd' # {}
  <2>1. (\E l \in {"exec", "poll"} : pc' = [pc EXCEPT ![t] = l]) \/ odd' # {}
    BY <1>2, IncrElects DEF Elects, Goto
  <2> QED BY <2>1, <1>0
<1>3. ASSUME NEW t \in Server, ExecError(t)
      PROVE  \/ pc[s] = "serve" \/ odd' # {}
             \/ pc[s] = "exec" /\ try[s] = MaxRetries /\ errors' = errors + 1
  <2>1. \/ UNCHANGED pc
        \/ odd' # {}
        \/ try[t] = MaxRetries /\ Goto(t, "serve")
    BY <1>3 DEF ExecError, SendAgain, GiveUp
  <2>2. pc[t] = "exec" /\ errors' = errors + 1
    BY <1>3 DEF ExecError, NetworkError
  <2> QED BY <2>1, <2>2, <1>0 DEF Goto
<1>4. ASSUME NEW t \in Server, ExecDone(t) \/ Poll(t)
      PROVE  pc[s] = "serve" \/ ExecDone(s) \/ (Poll(s) /\ initTime # NULL /\ initTime < 1)
  <2>1. CASE t # s
    <3>1. pc' = [pc EXCEPT ![t] = "serve"] \/ pc' = [pc EXCEPT ![t] = "down"]
      BY <1>4 DEF ExecDone, Poll, Goto
    <3> QED BY <3>1, <2>1, <1>0
  <2>2. CASE t = s
    BY <1>4, <2>2, <1>0 DEF Poll, Goto
  <2> QED BY <2>1, <2>2
<1>5. ASSUME NEW t \in Server, NEW k \in 0 .. MaxRetries, Execute(t, k) PROVE pc[s] = "serve"
  BY <1>5 DEF Execute
<1> QED BY <1>1, <1>2, <1>3, <1>4, <1>5 DEF Next, Step

LEMMA NextServing == IInv /\ Regular /\ Next /\ odd' = {} => Serving'
<1> SUFFICES ASSUME IInv, Regular, Next, odd' = {}, errors' <= MaxRetries,
                    NEW s \in Server, pc'[s] = "serve"
             PROVE  Ready'
  BY DEF Serving
<1>0. /\ try \in [Server -> 0 .. MaxRetries] /\ errors \in Nat
      /\ MaxRetries \in Nat /\ Types /\ [Next]_vars
  BY StartupAssumption DEF IInv, Types
<1>1. errors <= MaxRetries
  <2>1. errors' = errors \/ errors' = errors + 1
    BY DEF Next, counters, NetworkError, Start, Step, Incr, ReadAndSend, ExecDone, Poll, IncrError,
           ExecError, PollError, Crash, Execute, Sell
  <2> QED BY <2>1, <1>0
<1>2. Ready
  <2>1. CASE pc[s] = "serve"
    BY <1>1, <2>1 DEF Regular, Serving
  <2>2. CASE ExecDone(s)
    <3>1. pc[s] = "exec" /\ sent[s][try[s]] = {}
      BY <2>2 DEF ExecDone
    <3>2. PICK n \in 0 .. Rows : Awaits(s, n)
      BY <3>1 DEF Regular, Executing
    <3>3. Complete(n) /\ \A i \in 1 .. n : Stocked(i)
      BY <3>1, <3>2 DEF Awaits, Stored
    <3> QED BY <3>3 DEF Complete, Ready
  <2>3. CASE initTime # NULL /\ initTime < 1
    BY <2>3 DEF Regular, Marked
  <2>4. ASSUME try[s] = MaxRetries, errors' = errors + 1 PROVE FALSE
    <3>1. try[s] <= errors
      BY DEF IInv, Trying
    <3> QED BY <2>4, <3>1, <1>0
  <2> QED BY <1>0, <2>1, <2>2, <2>3, <2>4, ServeNext
<1> QED BY <1>0, <1>2, Stays

LEMMA NextIInv == IInv /\ [Next]_vars => IInv'
<1>1. IInv /\ Next => IInv'
  <2> SUFFICES ASSUME IInv, Next PROVE IInv'
    OBVIOUS
  <2>1. Types' /\ Trying' /\ Ordered'
    BY NextTypes, NextOrdered
  <2>2. ASSUME odd' = {} PROVE Regular'
    <3>1. Regular
      BY <2>2, StocksStay DEF IInv
    <3> QED BY <3>1, <2>2, NextUnexecuted, NextExecuting, NextInOrder, NextMarked, NextServing DEF Regular
  <2> QED BY <2>1, <2>2 DEF IInv
<1>2. ASSUME IInv, UNCHANGED vars PROVE IInv'
  <2>1. Types' /\ Trying' /\ Ordered'
    BY <1>2 DEF vars, IInv, Types, Trying, Ordered
  <2>2. Unexecuted' = Unexecuted /\ Executing' = Executing
    BY <1>2 DEF vars, Unexecuted, Left, Executing, Awaits, Stored, Stocked, Complete
  <2>3. InOrder' = InOrder /\ Marked' = Marked /\ Serving' = Serving
    BY <1>2 DEF vars, InOrder, Marked, Serving, Ready, Stocked
  <2>4. odd' = odd
    BY <1>2 DEF vars
  <2> QED BY <1>2, <2>1, <2>2, <2>3, <2>4 DEF IInv, Regular
<1> QED BY <1>1, <1>2

\* The inductive invariant holds in every state of every start-up.
THEOREM StartupInvariant == Spec => []IInv
<1> QED BY InitIInv, NextIInv, PTL DEF Spec

\* Keys and control states have values of their kinds, and what Redis has yet
\* to execute of the attempt Exec waits for comes after what it executed.
THEOREM StartupTypeCorrect == Spec => []TypeOK
<1>1. IInv => TypeOK
  <2> SUFFICES ASSUME IInv PROVE TypeOK
    OBVIOUS
  <2>1. \A s \in Server, k \in 0 .. MaxRetries : sent[s][k] \subseteq 1 .. Mark
    BY DEF IInv, Types, Commands
  <2>2. \A s \in Server : pc[s] = "exec" =>
          /\ sent[s][try[s]] \subseteq pending[s]
          /\ \A i \in pending[s] \ sent[s][try[s]], j \in sent[s][try[s]] : i < j
    BY DEF IInv, Ordered, Follows
  <2>3. /\ initTime \in Int \cup {NULL}
        /\ \A f \in Food : foodStock[f] \in Int \cup {NULL}
        /\ pc \in [Server -> {"down", "incr", "exec", "poll", "serve"}]
        /\ try \in [Server -> 0 .. MaxRetries]
    BY DEF IInv, Types
  <2> QED BY <2>1, <2>2, <2>3 DEF TypeOK
<1> QED BY <1>1, StartupInvariant, PTL

\* No server takes orders before the stock is in Redis, as long as there were no
\* more network errors than Exec has repetitions and Exec met no late reply and
\* no refused connection; and then it is a first part of the foods, all of them
\* if no result of MySQL was cut short.
THEOREM ServersAlwaysFindStock == Spec => []ServersFindStock
<1>1. IInv => ServersFindStock
  <2> SUFFICES ASSUME IInv, odd = {}, errors <= MaxRetries, NEW s \in Server, pc[s] = "serve"
               PROVE  \E n \in 0 .. Rows :
                        /\ cuts = 0 => n = Rows
                        /\ \A i \in 1 .. Rows : foodStock[FoodRows[i]] # NULL <=> i <= n
    BY DEF ServersFindStock, Rows
  <2>0. Regular
    BY DEF IInv
  <2>1. PICK n \in 0 .. Rows : \A i \in 1 .. Rows : Stocked(i) <=> i <= n
    BY <2>0 DEF Regular, InOrder
  <2>2. cuts = 0 => \A i \in 1 .. Rows : Stocked(i)
    BY <2>0 DEF Regular, Serving, Ready
  <2>3. cuts = 0 => n = Rows
    <3> SUFFICES ASSUME cuts = 0, n # Rows PROVE FALSE
      OBVIOUS
    <3>1. Rows \in 1 .. Rows /\ ~ (Rows <= n)
      BY Kinds
    <3> QED BY <3>1, <2>1, <2>2
  <2> QED BY <2>1, <2>3 DEF Stocked
<1> QED BY <1>1, StartupInvariant, PTL

-----------------------------------------------------------------------------
(* The stock is copied once.                                               *)

LEMMA InitKept == Init => KeptInv
<1> SUFFICES ASSUME Init PROVE KeptInv
  OBVIOUS
<1>1. Untouched
  <2>1. \A s \in Server, k \in 0 .. MaxRetries : sent[s][k] = {}
    BY DEF Init, NothingSent
  <2> QED BY <2>1 DEF Untouched, Init
<1>2. Counted
  <2>1. Incrementing = {}
    BY DEF Init, Incrementing
  <2> QED BY <2>1, FS_EmptySet DEF Counted, Init
<1>3. OnePipeline
  <2>1. \A s \in Server, k \in 0 .. MaxRetries : sent[s][k] = {}
    BY DEF Init, NothingSent
  <2> QED BY <2>1 DEF OnePipeline
<1>4. StockAddsUp
  BY DEF Init, StockAddsUp
<1> QED BY <1>1, <1>2, <1>3, <1>4 DEF KeptInv

\* The condition was true before the step too, and the step was no error.
LEMMA CountsBefore ==
  ASSUME Types, Next, Counts'
  PROVE  /\ Counts /\ starts' <= 1 - InitMark
         /\ \A s \in Server : ~ IncrError(s) /\ ~ ExecError(s) /\ ~ PollError(s)
<1>1. errors \in Nat /\ starts \in Nat
  BY DEF Types
<1>2. errors' \in {errors, errors + 1} /\ starts' \in {starts, starts + 1}
  BY DEF Next, counters, NetworkError, Start, Step, Incr, ReadAndSend, ExecDone, Poll, IncrError,
         ExecError, PollError, Crash, Execute, Sell
<1>3. errors' = 0 /\ starts' <= 1 - InitMark
  BY DEF Counts
<1>4. errors = 0 /\ errors' # errors + 1
  BY <1>1, <1>2, <1>3
<1>5. starts <= 1 - InitMark
  BY <1>1, <1>2, <1>3, StartupAssumption
<1> QED BY <1>3, <1>4, <1>5 DEF Counts, IncrError, ExecError, PollError, NetworkError

LEMMA NextUntouched == IInv /\ KeptInv /\ Next => Untouched'
<1> SUFFICES ASSUME IInv, KeptInv, Next PROVE Untouched'
  OBVIOUS
<1>0. /\ pc \in [Server -> {"down", "incr", "exec", "poll", "serve"}]
      /\ Types /\ Untouched /\ [Next]_vars /\ initTime \in Int \cup {NULL} /\ NULL \notin Int
      /\ InitMark \in Int /\ sent \in [Server -> [0 .. MaxRetries -> SUBSET Commands]]
      /\ foodStock \in [Food -> Int \cup {NULL}] /\ sold \in [Food -> Int]
  BY StartupAssumption DEF IInv, KeptInv, Types
<1>1. ASSUME initTime' = NULL
      PROVE  /\ \A s \in Server, k \in 0 .. MaxRetries : sent'[s][k] = {}
             /\ \A s \in Server : pc'[s] # "exec"
             /\ \A f \in Food : foodStock'[f] = NULL
  <2>1. Incremented # NULL
    BY <1>0 DEF Incremented
  <2>2. initTime' \in {initTime, Incremented, InitMark}
    BY DEF Next, counters, Start, Step, Incr, ExecDone, Poll, IncrError, ExecError, PollError, Crash,
           Execute, Sell
  <2>3. initTime = NULL
    BY <2>1, <2>2, <1>0, <1>1
  <2>4. /\ \A s \in Server, k \in 0 .. MaxRetries : sent[s][k] = {}
        /\ \A s \in Server : pc[s] # "exec"
        /\ \A f \in Food : foodStock[f] = NULL
    BY <2>3, <1>0 DEF Untouched
  <2>5. \A s \in Server : ~ Incr(s) /\ ~ ExecError(s) /\ ~ ExecDone(s)
    BY <2>1, <2>4, <1>1 DEF Incr, ExecError, ExecDone
  <2>6. \A s \in Server, k \in 0 .. MaxRetries : ~ Execute(s, k)
    BY <2>4 DEF Execute
  <2>7. foodStock' = foodStock
    BY <2>4, <2>5, <2>6 DEF Next, Start, Step, Poll, IncrError, PollError, Crash, Sell
  <2>8. \A s \in Server : pc'[s] # "exec"
    <3>1. pc' = pc \/ \E s \in Server, l \in {"down", "incr", "poll", "serve"} : pc' = [pc EXCEPT ![s] = l]
      BY <2>5, <2>6 DEF Next, Start, Step, Poll, IncrError, PollError, Crash, Sell, Goto
    <3> QED BY <3>1, <2>4, <1>0
  <2>9. \A s \in Server, k \in 0 .. MaxRetries : sent'[s][k] = {}
    <3>1. sent' = sent \/ \E s \in Server : sent' = [sent EXCEPT ![s] = NothingSent]
      BY <2>5, <2>6 DEF Next, Start, Step, Poll, IncrError, PollError, Crash, Sell
    <3>2. \A k \in 0 .. MaxRetries : NothingSent[k] = {}
      BY DEF NothingSent
    <3> QED BY <3>1, <3>2, <2>4, <1>0
  <2> QED BY <2>4, <2>7, <2>8, <2>9
<1>2. ASSUME NEW f \in Food, foodStock'[f] = NULL PROVE sold'[f] = 0
  <2>1. foodStock[f] = NULL /\ sold[f] = 0
    BY <1>0, <1>2, StocksStay DEF Untouched
  <2>2. \/ sold' = sold
        \/ \E s \in Server, g \in Food : foodStock[g] # NULL /\ sold' = [sold EXCEPT ![g] = @ + 1]
    BY DEF Next, Start, Step, Incr, ExecDone, Poll, IncrError, ExecError, PollError, Crash, Execute, Sell
  <2> QED BY <2>1, <2>2, <1>0
<1> QED BY <1>1, <1>2 DEF Untouched
\* What a step does to the counter and to the servers ahead of their INCR.
LEMMA CountNext ==
  ASSUME IInv, KeptInv, Next
  PROVE  \/ /\ \E s \in Server : pc[s] = "down" /\ Incrementing' = Incrementing \cup {s}
            /\ starts' = starts + 1 /\ initTime' = initTime
         \/ \E s \in Server : /\ pc[s] = "incr" /\ Incrementing' = Incrementing \ {s}
                              /\ starts' = starts /\ initTime' = Incremented
         \/ /\ Incrementing' = Incrementing \/ \E s \in Server : Incrementing' = Incrementing \ {s}
            /\ starts' = starts
            /\ \/ initTime' = initTime
               \/ errors' = errors + 1
               \/ initTime' = InitMark /\ initTime # NULL
<1>0. pc \in [Server -> {"down", "incr", "exec", "poll", "serve"}]
  BY DEF IInv, Types
<1>1. ASSUME NEW s \in Server, NEW l \in {"down", "exec", "poll", "serve"}, pc' = [pc EXCEPT ![s] = l]
      PROVE  Incrementing' = Incrementing \ {s}
  BY <1>0, <1>1 DEF Incrementing
<1>2. pc' = pc => Incrementing' = Incrementing
  BY DEF Incrementing
<1>3. ASSUME NEW s \in Server, Start(s)
      PROVE  /\ pc[s] = "down" /\ Incrementing' = Incrementing \cup {s}
             /\ starts' = starts + 1 /\ initTime' = initTime
  BY <1>0, <1>3 DEF Start, Goto, Incrementing
<1>4. ASSUME NEW s \in Server, Incr(s)
      PROVE  /\ pc[s] = "incr" /\ Incrementing' = Incrementing \ {s}
             /\ starts' = starts /\ initTime' = Incremented
  <2>1. \E l \in {"exec", "poll", "serve"} : pc' = [pc EXCEPT ![s] = l]
    BY <1>4 DEF Incr, ReadAndSend, Goto
  <2>2. pc[s] = "incr" /\ starts' = starts /\ initTime' = Incremented
    BY <1>4 DEF Incr
  <2> QED BY <2>1, <2>2, <1>1
<1>5. ASSUME NEW s \in Server,
             ExecDone(s) \/ Poll(s) \/ IncrError(s) \/ ExecError(s) \/ PollError(s) \/ Crash(s)
               \/ \E f \in Food : Sell(s, f)
      PROVE  /\ Incrementing' = Incrementing \/ Incrementing' = Incrementing \ {s}
             /\ starts' = starts /\ (initTime' = initTime \/ errors' = errors + 1)
  <2>1. pc' = pc \/ \E l \in {"down", "exec", "poll", "serve"} : pc' = [pc EXCEPT ![s] = l]
    BY <1>5 DEF ExecDone, Poll, IncrError, ExecError, SendAgain, GiveUp, PollError, Crash, Sell, Goto
  <2>2. starts' = starts /\ (initTime' = initTime \/ errors' = errors + 1)
    BY <1>5 DEF ExecDone, Poll, IncrError, ExecError, NetworkError, PollError, Crash, Sell, counters
  <2> QED BY <2>1, <2>2, <1>1, <1>2
<1>6. ASSUME NEW s \in Server, NEW k \in 0 .. MaxRetries, Execute(s, k)
      PROVE  /\ Incrementing' = Incrementing /\ starts' = starts
             /\ initTime' = initTime \/ (initTime' = InitMark /\ initTime # NULL)
  <2>1. pc' = pc /\ starts' = starts /\ initTime' \in {initTime, InitMark} /\ sent[s][k] # {}
    BY <1>6 DEF Execute, counters
  <2>2. initTime # NULL
    BY <2>1 DEF KeptInv, Untouched
  <2> QED BY <2>1, <2>2, <1>2
<1> QED BY <1>3, <1>4, <1>5, <1>6 DEF Next, Step

LEMMA NextCounted == IInv /\ KeptInv /\ Next => Counted'
<1> SUFFICES ASSUME IInv, KeptInv, Next PROVE Counted'
  OBVIOUS
<1> DEFINE ahead == Cardinality(Incrementing)
<1>0. /\ Types /\ starts \in Nat /\ errors \in Nat /\ initTime \in Int \cup {NULL} /\ NULL \notin Int
      /\ InitMark \in Int /\ InitMark < 1 /\ IsFiniteSet(Incrementing)
  BY StartupAssumption DEF IInv, KeptInv, Types, Counted
<1>1. ahead \in Nat /\ ahead <= starts
  BY <1>0, FS_CardinalityType DEF KeptInv, Counted
<1>2. Counts /\ initTime # NULL =>
        \/ initTime >= 1 /\ initTime + ahead <= starts
        \/ initTime < 1 /\ InitMark <= initTime /\ initTime - InitMark + 1 + ahead <= starts
  BY DEF KeptInv, Counted
<1>3. Counts' => Counts /\ starts' <= 1 - InitMark /\ errors' # errors + 1
  <2> SUFFICES ASSUME Counts' PROVE Counts /\ starts' <= 1 - InitMark /\ errors' # errors + 1
    OBVIOUS
  <2>1. Counts /\ starts' <= 1 - InitMark
    BY <1>0, CountsBefore
  <2> QED BY <2>1, <1>0 DEF Counts
<1> HIDE DEF ahead
<1>4. CASE /\ \E s \in Server : pc[s] = "down" /\ Incrementing' = Incrementing \cup {s}
           /\ starts' = starts + 1 /\ initTime' = initTime
  <2>1. PICK s \in Server : pc[s] = "down" /\ Incrementing' = Incrementing \cup {s}
    BY <1>4
  <2>2. s \notin Incrementing
    BY <2>1 DEF Incrementing
  <2>3. IsFiniteSet(Incrementing') /\ Cardinality(Incrementing') = ahead + 1
    BY <1>0, <2>1, <2>2, FS_AddElement DEF ahead
  <2> QED BY <1>0, <1>1, <1>2, <1>3, <1>4, <2>3 DEF Counted
<1>5. CASE \E s \in Server : /\ pc[s] = "incr" /\ Incrementing' = Incrementing \ {s}
                             /\ starts' = starts /\ initTime' = Incremented
  <2>1. PICK s \in Server : /\ pc[s] = "incr" /\ Incrementing' = Incrementing \ {s}
                            /\ starts' = starts /\ initTime' = Incremented
    BY <1>5
  <2>2. s \in Incrementing
    BY <2>1 DEF Incrementing
  <2>3. IsFiniteSet(Incrementing') /\ Cardinality(Incrementing') = ahead - 1
    BY <1>0, <2>1, <2>2, FS_RemoveElement DEF ahead
  <2>4. ahead - 1 \in Nat
    BY <2>3, FS_CardinalityType
  <2>5. Counts' => \/ initTime' >= 1 /\ initTime' + (ahead - 1) <= starts
                   \/ initTime' < 1 /\ InitMark <= initTime'
                        /\ initTime' - InitMark + 1 + (ahead - 1) <= starts
    <3> SUFFICES ASSUME Counts'
                 PROVE  \/ initTime' >= 1 /\ initTime' + (ahead - 1) <= starts
                        \/ initTime' < 1 /\ InitMark <= initTime'
                             /\ initTime' - InitMark + 1 + (ahead - 1) <= starts
      OBVIOUS
    <3>1. starts <= 1 - InitMark
      BY <1>3, <2>1
    <3>2. CASE initTime = NULL
      <4>1. initTime' = 1
        BY <3>2, <2>1 DEF Incremented
      <4> QED BY <4>1, <1>0, <1>1
    <3>3. CASE initTime # NULL
      <4>1. initTime' = initTime + 1 /\ initTime \in Int
        BY <3>3, <2>1, <1>0 DEF Incremented
      <4>2. CASE initTime >= 1 /\ initTime + ahead <= starts
        BY <4>1, <4>2, <1>0, <1>1
      <4>3. CASE initTime < 1 /\ InitMark <= initTime /\ initTime - InitMark + 1 + ahead <= starts
        <5>1. initTime <= 0 - ahead /\ ahead >= 1
          BY <4>1, <4>3, <3>1, <1>0, <1>1, <2>4
        <5>2. initTime + 1 < 1 /\ InitMark <= initTime + 1
                /\ (initTime + 1) - InitMark + 1 + (ahead - 1) <= starts
          BY <5>1, <4>1, <4>3, <1>0, <1>1
        <5> QED BY <5>2, <4>1
      <4>4. Counts
        BY <1>3
      <4>5. \/ initTime >= 1 /\ initTime + ahead <= starts
            \/ initTime < 1 /\ InitMark <= initTime /\ initTime - InitMark + 1 + ahead <= starts
        BY <4>4, <3>3, <1>2
      <4> QED BY <4>2, <4>3, <4>5
    <3> QED BY <3>2, <3>3
  <2>6. starts' = starts /\ ahead - 1 <= starts
    BY <2>1, <2>4, <1>0, <1>1
  <2> QED BY <2>3, <2>5, <2>6 DEF Counted
<1>6. CASE /\ Incrementing' = Incrementing \/ \E s \in Server : Incrementing' = Incrementing \ {s}
           /\ starts' = starts
           /\ \/ initTime' = initTime
              \/ errors' = errors + 1
              \/ initTime' = InitMark /\ initTime # NULL
  <2>1. IsFiniteSet(Incrementing') /\ Cardinality(Incrementing') \in Nat
          /\ Cardinality(Incrementing') <= ahead
    <3>1. CASE Incrementing' = Incrementing
      BY <3>1, <1>0, <1>1 DEF ahead
    <3>2. CASE \E s \in Server : Incrementing' = Incrementing \ {s}
      <4>1. Incrementing' \in SUBSET Incrementing
        BY <3>2
      <4> QED BY <4>1, <1>0, FS_Subset, FS_CardinalityType DEF ahead
    <3> QED BY <3>1, <3>2, <1>6
  <2> DEFINE ahead2 == Cardinality(Incrementing')
  <2>2. ahead2 \in Nat /\ ahead2 <= ahead
    BY <2>1
  <2> HIDE DEF ahead2
  <2>3. ASSUME Counts', initTime' # NULL
        PROVE  \/ initTime' >= 1 /\ initTime' + ahead2 <= starts
               \/ initTime' < 1 /\ InitMark <= initTime' /\ initTime' - InitMark + 1 + ahead2 <= starts
    <3>1. Counts /\ (initTime' = initTime \/ (initTime' = InitMark /\ initTime # NULL))
      BY <2>3, <1>3, <1>6
    <3>2. CASE initTime' = initTime
      BY <3>1, <3>2, <2>2, <2>3, <1>0, <1>1, <1>2
    <3>3. CASE initTime' = InitMark /\ initTime # NULL
      <4>1. initTime \in Int
        BY <3>3, <1>0
      <4>2. 1 + ahead <= starts
        BY <3>1, <3>3, <4>1, <1>0, <1>1, <1>2
      <4> QED BY <4>2, <3>3, <2>2, <1>0, <1>1
    <3> QED BY <3>1, <3>2, <3>3
  <2>4. ahead2 <= starts
    BY <2>2, <1>0, <1>1
  <2> QED BY <2>1, <2>3, <2>4, <1>6 DEF Counted, ahead2
<1> QED BY <1>4, <1>5, <1>6, CountNext
\* While the counter does not come back to 1, only the first INCR elects.
LEMMA ElectedFirst ==
  ASSUME IInv, KeptInv, Next, Counts', NEW s \in Server, Incr(s), Incremented = 1
  PROVE  initTime = NULL
<1> SUFFICES ASSUME initTime # NULL PROVE FALSE
  OBVIOUS
<1> DEFINE ahead == Cardinality(Incrementing)
<1>0. /\ starts \in Nat /\ initTime \in Int /\ InitMark \in Int
      /\ IsFiniteSet(Incrementing) /\ s \in Incrementing
  BY StartupAssumption DEF IInv, KeptInv, Types, Counted, Incr, Incrementing
<1>1. ahead \in Nat /\ ahead # 0
  BY <1>0, FS_EmptySet, FS_CardinalityType
<1>2. starts <= 1 - InitMark /\ Counts
  <2>1. Counts
    BY CountsBefore DEF IInv
  <2> QED BY <2>1 DEF Counts
<1>3. \/ initTime >= 1 /\ initTime + ahead <= starts
      \/ initTime < 1 /\ InitMark <= initTime /\ initTime - InitMark + 1 + ahead <= starts
  BY <1>2 DEF KeptInv, Counted
<1>4. initTime = 0
  BY <1>0 DEF Incremented
<1> HIDE DEF ahead
<1> QED BY <1>0, <1>1, <1>2, <1>3, <1>4

\* A command that Redis executes, of the only pipeline under way, stores a food
\* that is not stored yet.
LEMMA StoresNew ==
  ASSUME NEW s \in Server, NEW k \in 0 .. MaxRetries, IInv, KeptInv, Counts, Execute(s, k)
  PROVE  \E cmd \in sent[s][k] :
           /\ sent' = [sent EXCEPT ![s][k] = sent[s][k] \ {cmd}]
           /\ sent'[s][k] = sent[s][k] \ {cmd}
           /\ \/ cmd = Mark /\ foodStock' = foodStock
              \/ /\ cmd \in 1 .. Rows /\ ~ Stocked(cmd)
                 /\ foodStock' = [foodStock EXCEPT ![FoodRows[cmd]] = InitStock[FoodRows[cmd]]]
<1>1. PICK cmd \in sent[s][k] :
        /\ sent' = [sent EXCEPT ![s][k] = sent[s][k] \ {cmd}]
        /\ sent'[s][k] = sent[s][k] \ {cmd}
        /\ \/ cmd = Mark /\ foodStock' = foodStock
           \/ /\ cmd \in 1 .. Rows
              /\ foodStock' = [foodStock EXCEPT ![FoodRows[cmd]] = InitStock[FoodRows[cmd]]]
  BY Executes DEF IInv
<1>2. cmd # Mark => ~ Stocked(cmd)
  BY <1>1 DEF KeptInv, OnePipeline
<1>3. cmd \in 1 .. Rows => cmd # Mark
  BY Kinds
<1> QED BY <1>1, <1>2, <1>3

\* What is not stored stays so, unless Redis stores it.
LEMMA NotStored ==
  ASSUME IInv, Next
  PROVE  \/ \A f \in Food : foodStock[f] = NULL => foodStock'[f] = NULL
         \/ \E s \in Server, k \in 0 .. MaxRetries : Execute(s, k)
<1>1. ASSUME NEW s \in Server, NEW g \in Food, Sell(s, g)
      PROVE  \A f \in Food : foodStock[f] = NULL => foodStock'[f] = NULL
  BY <1>1 DEF Sell, IInv, Types
<1>2. \/ UNCHANGED foodStock
      \/ \E s \in Server, k \in 0 .. MaxRetries : Execute(s, k)
      \/ \E s \in Server, f \in Food : Sell(s, f)
  BY DEF Next, Start, Step, Incr, ExecDone, Poll, IncrError, ExecError, PollError, Crash
<1> QED BY <1>1, <1>2

LEMMA NextOnePipeline == IInv /\ KeptInv /\ Next => OnePipeline'
<1> SUFFICES ASSUME IInv, KeptInv, Next, Counts'
             PROVE  /\ \A s, t \in Server, j, k \in 0 .. MaxRetries :
                         sent'[s][j] # {} /\ sent'[t][k] # {} => s = t /\ j = k
                    /\ \A s \in Server, k \in 0 .. MaxRetries : \A i \in sent'[s][k] :
                         i # Mark => ~ Stocked(i)'
  BY DEF OnePipeline
<1>0. /\ sent \in [Server -> [0 .. MaxRetries -> SUBSET Commands]] /\ MaxRetries \in Nat
      /\ sent' \in [Server -> [0 .. MaxRetries -> SUBSET Commands]]
      /\ foodStock \in [Food -> Int \cup {NULL}] /\ Types
  BY NextTypes, StartupAssumption DEF IInv, Types
<1>1. Counts /\ errors' # errors + 1 /\ \A s \in Server : ~ IncrError(s) /\ ~ ExecError(s) /\ ~ PollError(s)
  BY <1>0, CountsBefore DEF Counts, Types
<1>2. /\ \A s, t \in Server, j, k \in 0 .. MaxRetries :
           sent[s][j] # {} /\ sent[t][k] # {} => s = t /\ j = k
      /\ \A s \in Server, k \in 0 .. MaxRetries : \A i \in sent[s][k] : i # Mark => ~ Stocked(i)
  BY <1>1 DEF KeptInv, OnePipeline
<1>3. \A s \in Server, k \in 0 .. MaxRetries : \A i \in sent'[s][k] : i # Mark => i \in 1 .. Rows
  <2>1. \A s \in Server, k \in 0 .. MaxRetries : sent'[s][k] \in SUBSET Commands
    BY <1>0
  <2> QED BY <2>1, Numbers
<1>4. ASSUME NEW s \in Server, Incr(s), NEW n \in 0 .. Rows, Elects(s, n), Incremented = 1
      PROVE  /\ \A t, u \in Server, j, k \in 0 .. MaxRetries :
                  sent'[t][j] # {} /\ sent'[u][k] # {} => t = u /\ j = k
             /\ \A i \in 1 .. Rows : ~ Stocked(i)'
  <2>1. sent' = [sent EXCEPT ![s][0] = Pipeline(n)]
    BY <1>4 DEF Elects, Send
  <2>2. initTime = NULL
    BY <1>4, ElectedFirst
  <2>3. /\ \A t \in Server, k \in 0 .. MaxRetries : sent[t][k] = {}
        /\ \A f \in Food : foodStock[f] = NULL
    BY <2>2 DEF KeptInv, Untouched
  <2>4. foodStock' = foodStock
    BY <1>4 DEF Incr
  <2>5. \A t \in Server, k \in 0 .. MaxRetries : sent'[t][k] # {} => t = s /\ k = 0
    BY <2>1, <2>3, <1>0
  <2>6. \A i \in 1 .. Rows : ~ Stocked(i)'
    BY <2>3, <2>4, Kinds DEF Stocked
  <2> QED BY <2>5, <2>6
<1>5. ASSUME NEW s \in Server, NEW k \in 0 .. MaxRetries, Execute(s, k)
      PROVE  /\ \A t \in Server, j \in 0 .. MaxRetries : sent'[t][j] # {} => t = s /\ j = k
             /\ \A i \in sent'[s][k] : i # Mark => ~ Stocked(i)'
  <2>1. PICK cmd \in sent[s][k] :
          /\ sent' = [sent EXCEPT ![s][k] = sent[s][k] \ {cmd}]
          /\ sent'[s][k] = sent[s][k] \ {cmd}
          /\ \/ cmd = Mark /\ foodStock' = foodStock
             \/ /\ cmd \in 1 .. Rows
                /\ foodStock' = [foodStock EXCEPT ![FoodRows[cmd]] = InitStock[FoodRows[cmd]]]
    BY <1>1, <1>5, StoresNew
  <2>2. \A t \in Server, j \in 0 .. MaxRetries : (t = s /\ j = k) \/ sent'[t][j] = sent[t][j]
    BY <2>1, <1>0
  <2>3. \A t \in Server, j \in 0 .. MaxRetries : sent'[t][j] # {} => t = s /\ j = k
    BY <2>1, <2>2, <1>2
  <2>4. ASSUME NEW i \in sent'[s][k], i # Mark PROVE ~ Stocked(i)'
    <3>1. i \in 1 .. Rows /\ i # cmd /\ ~ Stocked(i)
      BY <2>1, <2>4, <1>2, <1>3
    <3>2. cmd \in 1 .. Rows => FoodRows[i] # FoodRows[cmd]
      BY <3>1, Kinds
    <3>3. foodStock'[FoodRows[i]] = foodStock[FoodRows[i]]
      BY <2>1, <3>1, <3>2, <1>0, Kinds
    <3> QED BY <3>1, <3>3 DEF Stocked
  <2> QED BY <2>3, <2>4
<1>6. ASSUME \A f \in Food : foodStock[f] = NULL => foodStock'[f] = NULL,
             \A t \in Server, j \in 0 .. MaxRetries : sent'[t][j] = sent[t][j] \/ sent'[t][j] = {}
      PROVE  /\ \A s, t \in Server, j, k \in 0 .. MaxRetries :
                  sent'[s][j] # {} /\ sent'[t][k] # {} => s = t /\ j = k
             /\ \A s \in Server, k \in 0 .. MaxRetries : \A i \in sent'[s][k] : i # Mark => ~ Stocked(i)'
  <2>1. \A s, t \in Server, j, k \in 0 .. MaxRetries :
          sent'[s][j] # {} /\ sent'[t][k] # {} => s = t /\ j = k
    BY <1>2, <1>6
  <2>2. ASSUME NEW s \in Server, NEW k \in 0 .. MaxRetries, NEW i \in sent'[s][k], i # Mark
        PROVE  ~ Stocked(i)'
    <3>1. i \in sent[s][k] /\ FoodRows[i] \in Food
      BY <2>2, <1>3, <1>6, Kinds
    <3> QED BY <3>1, <2>2, <1>2, <1>6 DEF Stocked
  <2> QED BY <2>1, <2>2
<1>7. CASE \E s \in Server : Incr(s) /\ sent' # sent
  <2>1. PICK s \in Server : Incr(s) /\ sent' # sent
    BY <1>7
  <2>2. PICK n \in 0 .. Rows : Elects(s, n) /\ Incremented = 1
    BY <2>1, IncrElects
  <2> QED BY <2>1, <2>2, <1>3, <1>4
<1>8. CASE \E s \in Server, k \in 0 .. MaxRetries : Execute(s, k)
  <2>1. PICK s \in Server, k \in 0 .. MaxRetries : Execute(s, k)
    BY <1>8
  <2>2. \A t \in Server, j \in 0 .. MaxRetries : sent'[t][j] # {} => t = s /\ j = k
    BY <2>1, <1>5
  <2>3. \A i \in sent'[s][k] : i # Mark => ~ Stocked(i)'
    BY <2>1, <1>5
  <2> QED BY <2>2, <2>3
<1>9. CASE /\ ~ \E s \in Server : Incr(s) /\ sent' # sent
           /\ ~ \E s \in Server, k \in 0 .. MaxRetries : Execute(s, k)
  <2>1. sent' = sent \/ \E s \in Server : sent' = [sent EXCEPT ![s] = NothingSent]
    BY <1>1, <1>9 DEF Next, Start, Step, ExecDone, Poll, Crash, Sell
  <2>2. \A j \in 0 .. MaxRetries : NothingSent[j] = {}
    BY DEF NothingSent
  <2>3. \A t \in Server, j \in 0 .. MaxRetries : sent'[t][j] = sent[t][j] \/ sent'[t][j] = {}
    BY <2>1, <2>2, <1>0
  <2>4. \A f \in Food : foodStock[f] = NULL => foodStock'[f] = NULL
    BY <1>9, NotStored
  <2> QED BY <2>3, <2>4, <1>6
<1> QED BY <1>7, <1>8, <1>9

LEMMA NextAddsUp == IInv /\ KeptInv /\ Next => (Counts' => StockAddsUp')
<1> SUFFICES ASSUME IInv, KeptInv, Next, Counts', NEW f \in Food, foodStock'[f] # NULL
             PROVE  foodStock'[f] + sold'[f] = InitStock[f]
  BY DEF StockAddsUp
<1>0. /\ foodStock \in [Food -> Int \cup {NULL}] /\ sold \in [Food -> Int]
      /\ InitStock \in [Food -> Nat] /\ Counts /\ StockAddsUp /\ Untouched /\ NULL \notin Int
  BY CountsBefore, StartupAssumption DEF IInv, Types, KeptInv
<1>1. ASSUME NEW s \in Server, NEW k \in 0 .. MaxRetries, Execute(s, k)
      PROVE  foodStock'[f] + sold'[f] = InitStock[f]
  <2>1. PICK cmd \in sent[s][k] :
           \/ foodStock' = foodStock
           \/ /\ cmd \in 1 .. Rows /\ ~ Stocked(cmd)
              /\ foodStock' = [foodStock EXCEPT ![FoodRows[cmd]] = InitStock[FoodRows[cmd]]]
    BY <1>0, <1>1, StoresNew
  <2>2. sold' = sold
    BY <1>1 DEF Execute
  <2>3. CASE foodStock' = foodStock
    BY <1>0, <2>2, <2>3 DEF StockAddsUp
  <2>4. CASE /\ cmd \in 1 .. Rows /\ ~ Stocked(cmd)
             /\ foodStock' = [foodStock EXCEPT ![FoodRows[cmd]] = InitStock[FoodRows[cmd]]]
    <3>1. foodStock[FoodRows[cmd]] = NULL /\ FoodRows[cmd] \in Food
      BY <2>4, Kinds DEF Stocked
    <3>2. sold[FoodRows[cmd]] = 0
      BY <3>1, <1>0 DEF Untouched
    <3>3. CASE f = FoodRows[cmd]
      BY <3>2, <3>3, <2>2, <2>4, <1>0
    <3>4. CASE f # FoodRows[cmd]
      BY <3>4, <2>2, <2>4, <1>0 DEF StockAddsUp
    <3> QED BY <3>3, <3>4
  <2> QED BY <2>1, <2>3, <2>4
<1>2. ASSUME NEW s \in Server, NEW g \in Food, Sell(s, g)
      PROVE  foodStock'[f] + sold'[f] = InitStock[f]
  <2>1. CASE foodStock' = foodStock /\ sold' = sold
    BY <2>1, <1>0 DEF StockAddsUp
  <2>2. CASE /\ foodStock[g] # NULL
             /\ foodStock' = [foodStock EXCEPT ![g] = @ - 1] /\ sold' = [sold EXCEPT ![g] = @ + 1]
    <3>1. foodStock[g] \in Int /\ sold[g] \in Int
      BY <2>2, <1>0
    <3>2. CASE f = g
      BY <3>1, <3>2, <2>2, <1>0 DEF StockAddsUp
    <3>3. CASE f # g
      BY <3>3, <2>2, <1>0 DEF StockAddsUp
    <3> QED BY <3>2, <3>3
  <2> QED BY <1>2, <2>1, <2>2 DEF Sell
<1>3. \/ foodStock' = foodStock /\ sold' = sold
      \/ \E s \in Server, k \in 0 .. MaxRetries : Execute(s, k)
      \/ \E s \in Server, g \in Food : Sell(s, g)
  BY DEF Next, Start, Step, Incr, ExecDone, Poll, IncrError, ExecError, PollError, Crash
<1> QED BY <1>0, <1>1, <1>2, <1>3 DEF StockAddsUp

LEMMA NextKept == IInv /\ KeptInv /\ [Next]_vars => KeptInv'
<1>1. IInv /\ KeptInv /\ Next => KeptInv'
  BY NextUntouched, NextCounted, NextOnePipeline, NextAddsUp DEF KeptInv
<1>2. KeptInv /\ UNCHANGED vars => KeptInv'
  BY DEF vars, counters, KeptInv, Untouched, Counted, Incrementing, Counts, OnePipeline, Stocked,
         StockAddsUp
<1> QED BY <1>1, <1>2

\* As long as no more servers were started than INIT_TIME counts from its mark
\* to 1, and no network error makes Exec send its commands again, the stock is
\* copied once: what is left and what was sold add up to the opening stock.
THEOREM StockAlwaysKept == Spec => [](starts <= 1 - InitMark => StockKept)
<1>1. Spec => []KeptInv
  <2>1. Init => IInv /\ KeptInv
    BY InitIInv, InitKept
  <2>2. IInv /\ KeptInv /\ [Next]_vars => (IInv /\ KeptInv)'
    BY NextIInv, NextKept
  <2> QED BY <2>1, <2>2, PTL DEF Spec
<1>2. KeptInv => (starts <= 1 - InitMark => StockKept)
  BY DEF KeptInv, Counts, StockKept
<1> QED BY <1>1, <1>2, PTL
=============================================================================
