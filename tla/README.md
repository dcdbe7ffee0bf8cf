# A TLA+ model of the Eleme flash sale

The repository holds a flash-sale ("限时抢购") server: users log in, fill carts
with food and place one order each, while the stock lasts. `app.yml` starts the
Go program (`main.go`, `src/model/model.go`, `src/constant/constant.go`) with
its Lua scripts in `src/model/lua/`; the README asks for it to run alike on three servers
behind a round-robin balancer, with one Redis and one MySQL. The specifications
in this directory model that program from the sale down to the connections:
what is stored in Redis and how the scripts change it, the handlers of several
servers with their calls of Redis, retries and crashes, the way the servers
agree at start-up who fills Redis, the lists of stock they show, and the
vendored clients of Redis and MySQL with their pool, exchanges and packets.
Paths below are relative to the repository, `redis.v3` stands for
`src/gopkg.in/redis.v3`, `mysql` for `src/github.com/go-sql-driver/mysql`.

## The system

| Part | State it keeps | Operations | Interaction | What makes it correct |
| --- | --- | --- | --- | --- |
| Redis keyspace, Lua scripts (`src/model/lua/*.lua`, `model_design.md`) | `token:<t>:user`, `cart:<c>:user`, `cart:<c>`, `user:<u>:order`, `order:user`, `order:<o>`, `food:stock` | SET of token and cart owner, `add_food`, `place_order`, `admin_query`, GET, HGETALL | all servers, one command or script at a time | no overselling, one order per user, at most 3 pieces, both indexes of orders agree, orders never change |
| HTTP handlers (`main.go`, `model.go` 104-287) | `cache_token_user` of each server under a mutex; one goroutine per request | login, create cart, patch cart, place order, query orders, admin query, list foods | call Redis, share the token cache; `L.Fatal` ends the whole process | answers agree with Redis and with later answers of every server; each request ends |
| Redis client: calls (`redis.v3/redis.go`, `script.go`, `error.go`) | attempt number, connection | write, read reply, repeat on network errors | between a handler and Redis | a repeated or late command does no harm |
| Redis client: pool (`redis.v3/pool.go`, `ratelimit.go`) | list of connections, slots taken, channel of free connections | Get, Put, Remove, Replace, reaper, Close | all handlers of a server | at most PoolSize connections, each of one goroutine; nothing leaks; every Get ends |
| Redis client: exchanges (`redis.v3/commands.go`, `command.go`, `parser.go`, `pipeline.go`, `multi.go`) | bytes on the connection, timeouts, queue of a Multi | every method, pipelines, transactions | the pool hands the connection from call to call | each command has its own reply and leaves nothing unread |
| Start-up (`model.go` 291-341, 388-404; `redis.v3/pipeline.go`) | `INIT_TIME` in Redis, pipeline under way | INCR, pipeline of HSETs and SET, polling | servers start, crash and restart beside servers that sell | stock copied once, before anyone sells; every server serves |
| MySQL driver (`mysql/`) | sequence number, buffer, open rows, statement, transaction | handshake, Query, Exec, Prepare, rows, Close | reads users and foods at start-up | packets stay in step; rows are complete or end with an error |
| Stock list (`model.go` 191-195, 343-385) | `cache_food_stock`, `ret_get_foods` | refresher every 6 s, GET /foods | reads `food:stock` | eventually shows every sale, never half an order |
| Random ids (`model.go` 19-51) | three random sources, a mutex each | RandString | login, cart and order handlers | ids do not repeat |
| Legacy Python server (`app.py`, `model.py`, `lua/`) | orders refer to their cart; stock in sorted sets with timestamps | as the Go server, on asyncio | not started by `app.yml` | the sorted sets agree; the same sale |
| Load generator (`benchmark/`) | worker and reporter channels | | drives the servers | counts what happened |
| HTTP and JSON libraries, publish/subscribe, cluster, ring and sentinel clients, experiments, tests | | | | not modelled, see below |

Hard behaviours: handlers of all servers interleave between any two calls of
Redis; a call whose reply is lost is executed again, and an attempt that timed
out may be executed after the request was answered; errors of SET, GET,
HGETALL and Exec are ignored and read as empty values; `L.Fatal` turns one
failed script into the end of all requests of a server; the start-up pipeline
is neither atomic nor idempotent once the sale runs. The pool has a counter, a
list and a channel and no lock that holds them together. A connection has no
memory of whose reply comes next, and both clients hand it from call to call.
`PROJECT.json` lists each under `hazards`, with its line and the properties
that cover it.

## Modules

| Module | Models | Extends / instantiates |
| --- | --- | --- |
| `RedisHash` | Redis hashes: HSET, HINCRBY, sums over a hash | |
| `Sale` | the abstract sale: users buy at most once, at most 3 pieces, only what is in stock | `RedisHash` |
| `RedisStore` | every key and every command and script, each one atomic | `RedisHash`, `INSTANCE Sale` |
| `HashTheorems` | lemmas: what HSET and HINCRBY do to the sum over a hash | `RedisHash`, `FiniteSetTheorems` |
| `RedisStoreProofs` | the theorems about `RedisStore` | `RedisStore`, `HashTheorems` |
| `ShopServer` | servers, handlers, calls of Redis with attempts, crashes | `RedisStore` |
| `ShopServerProofs` | the theorems about `ShopServer`: with every fault, and until the first | `ShopServer`, `RedisStoreProofs` |
| `StartupSync` | election, pipeline, polling, restarts, with sales going on | |
| `StartupSyncProofs` | the theorems about it | `StartupSync` |
| `StockList` | the refresher of each server and the list it shows, with sales going on | |
| `LegacyStore` | the keys and scripts of the Python server | `RedisHash`, `INSTANCE Sale` |
| `StockListsProofs` | the theorems about `StockList` and `LegacyStore` | both, `HashTheorems` |
| `BoundedPool` | what a pool promises: so many connections, each of one borrower | |
| `ConnPool` | the pool step by step | `INSTANCE BoundedPool` |
| `ConnPoolProofs` | the theorems about it | `ConnPool` |
| `RedisCommands` | the methods of the Redis client by the type of their command | |
| `RedisWire` | replies as tokens, and the parsers that read them | `RedisCommands` |
| `RedisConn` | commands, pipelines and transactions on one connection | `RedisWire` |
| `RedisConnProofs` | the theorems about it | `RedisConn` |
| `MysqlConn` | the packets of one MySQL connection | |
| `MysqlConnProofs` | the theorems about it | `MysqlConn` |
| `MC...` | the instances that are model-checked | |

`MCStockLists` and `MCConnections` each put two independent models beside one
another, one of which a behaviour chooses: the Go servers or the Python server
before them, a connection to Redis or one to MySQL. They exclude each other, so
that their states add up and do not multiply.

**Sale.** `stock` and `bought`; `Buy(u)` is one purchase.

**RedisStore.** A variable per family of keys. A hash is a function from the
fields it has to integers: HGETALL lists its domain, and a line that a patch
brought to 0 stays listed, as in Redis. `AddFoodReply` and `PlaceOrderReply`
are the early returns of the scripts in their order, `AddFood` and `PlaceOrder`
the scripts as a whole. The Lua code checks every line before it writes the
first, so a refused order writes nothing; `PlaceOrderUnchecked` is the
variant that does, and `StockConserved` notices. A script is atomic because Redis runs
nothing beside it. `RedisNext` sends any command at any moment, with the
uniqueness of random ids as its only guard (a token and a cart id belong to
one user; an order id is recorded at most once). It therefore covers retries
and late executions too.

**ShopServer.** A request is an element of `Proc`, `pc` is the step its handler
has reached: `check` and `checking` are `TokenChecker` with its GET, `handle` is
the body of the handler, `call` and `items` are its calls of Redis. Between two
calls a handler touches nothing shared but the token cache, so the code between
two calls is one action; lookup and fill of the cache are separate critical
sections and separate actions. A call is the loop of `baseClient.process`:
`Issue` writes an attempt to `net`, `Execute` is Redis executing one,
`NetworkError` ends an attempt, with the command executed, still under way or
lost, and starts the next one or gives up after `MaxRetries`; `NoConnection` is
the pool failing, which `process` does not repeat. `Fatal` is `L.Fatal`:
`Die` closes all connections of the server and empties its cache; the process
that is started in its place begins with an empty cache, which is all that
distinguishes it. `drawn` is the id a handler has drawn; draws do not repeat. `told` and
`toldBefore` are the ids clients have been told, so that a
client only uses an id it was given (or one of `MadeUp`) and so that a query
can be compared with what was answered before it arrived. An EVALSHA that
answers NOSCRIPT and the EVAL that follows are one call. Bodies that are no
JSON are answered 400 without touching any state, and left out.
The servers take only steps of `RedisStore` (`UsesRedis`): the ids the handlers draw
keep to its guards, retries included, so all that holds of `RedisStore`
holds under the servers, and `ShopServer`'s runs do not repeat its invariants.
`RedisStep` is `RedisNext` without `LineFloor`, which the servers do not know.

**StartupSync.** `Incr` is the election, `Pipeline` the commands in the order
`init_cache_and_redis` queues them. `ReadAndSend` reads the foods before, in
full or up to a row where the connection to MySQL breaks: the start-up asks for no
error of the driver (`AllRowsOrError` of `MysqlConn` shows that there is one) and
goes on with what it has. Its other failures end the process, like `Crash`. Redis executes them one by one (`Execute`)
between the steps of other servers. A pipeline is the set of its positions.
`ExecError` is an attempt that fails: the commands without a reply (`Failed`) are sent again
(`SendAgain`), and what the old connection has delivered may still be executed. After the last
attempt, or when the pool has no connection for the next one, which `Exec` does not
try again, it returns (`GiveUp`), and the server goes on, since nobody looks at the error; so
it does when there is no connection for the first one (`ReadAndSend`). An INCR without a
connection ends like one whose attempts have all failed, in polling (`IncrError`). After a broken connection
no later reply is read, and the commands that failed are those at the end. After a
timeout `execCmds` reads on: a reply that comes late is taken by a later command, so
that any commands may fail, though no more are answered than Redis executed. `odd`
remembers whether an Exec met one of the two: `late`, `refused`. `Sell` is the effect of
`place_order.lua` for one piece, or the end of the process by `L.Fatal` when the stock is
missing. The code's constant -10000 is `InitMark`.

Three things the model shows and no document of the repository speaks of. An `Exec`
that repeats its HSETs undoes the sales made in between, and so does the start that
brings the counter to 1 again. And after a reply that was late, or a broken connection followed by
one that is refused, the elected server serves while some of the stock, or INIT_TIME, is
missing, well before `Exec` has used up its attempts: `ServersFindStock`
is about connections that break, no oftener than `Exec` repeats. `StockKept` therefore speaks of behaviours without
network errors, and `MaxStarts` ends before the counter comes back.

**StockList.** A stock is abstracted to its version, the number of times Redis
has changed it, which is all that the properties tell apart. `Build`, `Assign`,
`HGetAll`, `Fill` and `Again` are the rounds of the goroutine; the fields of the reply
are stored one by one, in any order. `ret_get_foods` is assigned without a lock
as two words, so `shown` has the list it points to and the one whose length it
has. A failed HGETALL answers the empty list and leaves the cache alone.

**LegacyStore.** The Python program before the Go program, which serves the same
API. The stock of a food is found by the time of its last change in two sorted
sets. An order refers to its cart, so what GET /orders shows can change after
the order; `purchase` is the history variable that says what was bought, and
with it the scripts implement `Sale`.
A sorted set keeps time and stock in one number, time * 10^7 + stock (`StockBase`), which the
model keeps as a pair. That is the same while a stock stays between 0 and 10^7 - 1 and the
number is one a double holds exactly: `LegacyAssumption` asks it of the opening stocks,
the lines and the number of changes, and the proofs show that the stock then
stays there.

**ConnPool.** `Get` begins a call; `First` pops from the channel and drops what
is idle, `Reserve`, `Dial`, `Add` take a slot and a connection, `Receive` and
`Timeout` are the select on the channel, `Put`, or `Renew`, `Replace` and
`Send` (the code's Remove) what is
done with a connection afterwards, with the counter, the list, the socket and
the channel each a step of its own where the code has no common lock. The
reaper is one of the goroutines, which only takes the first free connection and
puts it back; `Closer` calls Close. Time is `fresh`: a connection
put back becomes idle at any later moment. The rate limiter refuses a dial or
lets it pass. `BoundedPool` is what this implements; it knows only the
connections and who has them.

**RedisCommands, RedisWire, RedisConn.** Each method of the client is known by
the type of its command, the type by the reader of its reply (`Wants`), and
Redis by the replies it can give to the method (`Answers`): statuses, integers,
bulk strings, nils, arrays and errors as the Redis protocol has them for that
command. A reply is a sequence of tokens. `RedisConn` sends commands, reads
tokens (of which each carries whose reply it belongs to), meets timeouts with
replies that come later or never, and decides with `IsBad` (`isNetworkError`)
whether the pool gets the connection back. `kind` is `plain`, `pipeline` or
`multi`; `tx` is the Multi that has the connection for itself. A pipeline is of
two commands, a transaction of one between MULTI and EXEC: a second queued
command is read by the same loop as a second one of a pipeline.

**MysqlConn.** A call of database/sql is a plan of packets to write (capitals)
and to read, `steps`; reading one may extend the plan, as the driver's code
does: a header is followed by columns, a request for a file by its contents, a
long packet by its second part. `Fills` is the buffer that has received more
than the packet that was asked for, which `takeBuffer` notices when the next
one is written. `odd` records four cases the driver does not handle, which the
model found and the properties leave out:

- a result drained by `readUntilEOF` ends with an error packet, and the driver
  waits for an EOF that never comes (`ERR`);
- an unread row whose first value has 16 MB begins with the byte 0xfe, and is
  taken for the EOF (`Huge`);
- a prepared statement that has no result is queried: the driver waits for
  columns (`noResult`);
- in strict mode a prepared statement has warnings: they are asked for before
  its definitions are read (`warned`).

A packet of just 16 MB has an empty second part, at which the driver closes the
connection and reports it. `handleParams`, when the first of several charsets
closed the connection, writes on a nil `netConn`. The servers meet none of
these: their two queries use no parameters and short rows.

## Runs

| Run | Instance | Shows |
| --- | --- | --- |
| `store` | 2 users, tokens, carts, foods, order ids; counts -1 and 2; stock 4 and 2 | all invariants of the store, orders are frozen, `Sale` is implemented |
| `store_negative_line` | same | *violated*: an order line above 3 |
| `shop_orders` | 3 requests of every kind on 2 servers, no faults | answers and queries agree with Redis and with each other; each accepted patch counts once; ids given to clients are in Redis |
| `shop_faults` | 2 requests of any kind, 2 faults, 1 retry | orders answered with success stand; token caches agree with Redis; Redis takes steps of `RedisStore` only; every request ends |
| `shop_refused_though_placed` | 3 requests, 2 faults | *violated*: an order is refused and yet placed |
| `startup` | 2 servers, 4 starts, 2 crashes, 1 repetition, 2 network errors, 1 result of MySQL cut short | nobody serves before the stock is there, while connections break and no oftener than `Exec` repeats; no restart sets it back; without faults every server serves |
| `startup_stuck` | 2 servers, 1 crash | *violated*: nobody is elected again |
| `stock_lists` | 2 servers, 2 orders, 1 failed call, 1 crash; or 2 buyers, tokens, carts and foods of the Python server | lists are snapshots that advance and catch up; the sorted sets agree; `Sale` is implemented |
| `pool` | 2 goroutines, reaper and Close on 2 slots, 3 Gets, 1 failed dial | slots add up, nothing leaks, nobody is stuck, `BoundedPool` is implemented, every Get ends |
| `pool_stranded` | 2 goroutines and the reaper on 1 slot | *violated*: a Get waits though no connection is in use |
| `connections` | every method of the Redis client but two, 3 late or lost replies, 2 retries; MySQL with a row of each kind, with and without parameters | replies are one's own, understood and read to the end; packets in step, rows complete |
| `redis_not_restored` | transactions of HSET and SET | *violated*: a rejected command leaves replies on the connection |

The violated runs are quoted in `PROJECT.json` under `findings`, each with the
line of the documentation or the tests that says otherwise. `store_negative_line`
and `pool_stranded` need no fault; the others need one of the network, the end
of a process or a rejected command.

Five properties of `ShopServer` hold without faults only, and their run says
so by `MaxFaults` 0. With a network error the code breaks them all:
`RefusedOrdersAbsent` (the run above), `PatchedOnce` (a repeated `add_food.lua`
adds the count twice), `GivenIdsShared` (`PostLogin` and `Create_cart` ignore
the error of their SET) and `ToldOrdersShown`, `ShownOrdersReal` (`GetOrder`
takes the error of a read for an empty answer). Likewise `ServersFindStock`
needs fewer network errors than `Exec` has attempts, and none that is a late reply or
a refused connection (`odd`), because its error is not looked at, and promises all foods after a complete result of MySQL only, and `StockKept` and `EveryServerServes` state their own conditions.
The properties of the pool end with Close, after which a Get under way may take a slot
anew. `OwnReplies` leaves out pipelines whose replies were late: there the code
takes a late reply for that of the next command. SORT and GEOHASH are left out
of `connections` because their arrays may hold nils, at which the reader stops
with the rest unread. A script that returns an error within an array makes EVAL and EVALSHA
such methods too; no script of the repository does, and the runs leave it out (`ScriptErrors` is
FALSE).

### Bounds

- Two users suffice for a race for the last piece and for an order id that two
  users could share; two foods, for a cart that is in stock in part. Opening
  stocks 4 and 2 are exhausted within the run. `LineFloor` and `LineBound` bound
  how far a line goes below zero; -1 is enough for a line above the limit and
  for an order that adds to a stock.
- `MaxRetries` is 1 instead of 3 for the servers: one repetition is a second
  execution, and with `MaxFaults` 2 a call fails for good as well. On the
  connection it is 2, with 3 faults.
- Requests are 2 or 3; two servers, since a third can do nothing the second cannot.
  Warm starts (`WarmInit`) are states reached when logins and carts were
  answered and the servers restarted. Every run has ids enough for its requests.
- `InitMark` is -3 instead of -10000 and `MaxStarts` 4 the largest number of
  starts with which the counter does not come back to 1, in the code 10001.
- `startup`: with one repetition and two errors an Exec fails, is repeated and gives up, and is refused
  a connection before each attempt; the second server polls, serves and sells beside it.
- `stock_lists`: two orders make a list that is half old and half new possible,
  two servers a list behind another's; one failure falls in each of the steps.
- `pool`: two slots and three users, with Close a fourth, meet at every step;
  a third Get finds the channel, the list or neither. Six connections are more
  than three Gets and their replacements dial.
- `connections`: `SequenceMod` is 5 instead of 256 and `MaxRows` 1: a result of
  one row that is split in two packets passes it. The theorems have any number of rows
  and any width. `MaxLeft` is how many unread packets a
  call may find, so that a path that leaves some behind does not add up without
  end. Of the
  `Mishaps` this run has the function of Exec that fails, and
  `redis_not_restored` the command that Redis rejects; the two that are left break
  `OwnReplies` and `NothingPending`, as the code lets them: after a network
  error between WATCH and EXEC a Multi repeats its command on the connection it
  has, where the late reply may come first; and a pipeline is judged by its
  first error only, so that an error reply hides a later command's timeout and the
  connection goes back with that reply outstanding.
- Symmetry is used only for invariants and for properties of single steps
  (`OrdersFrozen`, `ImplementsSale`), and only among values that
  the instance does not name.
- Deadlock is checked for `store`, `stock_lists` and `connections`. The other
  runs end when all requests are answered or all starts or Gets are used up;
  that nobody is stuck on the way is `EveryRequestEnds`, `EveryServerServes`
  and `EveryGetReturns`.

### Fairness

`ShopServer`: weak fairness of each handler (goroutines are scheduled) and of
Redis executing the attempts of each request. No fairness is asked of faults:
a wait ends because Redis answers, or with an error, since the client sets
read and write timeouts of 3 s. `StartupSync`: weak fairness of starts (the process is
restarted by upstart), of the steps of a running server and of Redis. Sales are under no fairness.
`StockList`: weak fairness of the refresher, which sleeps six seconds and goes
on. `ConnPool`: weak fairness of each goroutine's steps, and strong fairness of the timeout
of a wait: a connection may come and go for ever while the deadline has
passed, but Go's select picks among the cases that are ready at random.
The exchanges on connections are checked for safety only.

### Mutations

Each property of a passing run is shown to notice a slip in the code it is
about. The variants stand beside the definitions they vary, marked as slips,
and take no part in any specification; `PROJECT.json` pairs them with the
properties under `mutants`.

## Proofs

The runs check small instances. The theorems below hold for all values of the
constants that keep to the modules' `ASSUME`s: any number of users, tokens,
carts, orders, foods, servers, requests, goroutines, connections, rows, packets, faults and
repetitions. Each component has an inductive invariant of its own. What is assumed is only that the
values kept apart are apart (a nil reply is no user, no id and no hash; a token
is no order id; the user a cart has that belongs to no one is none), that counts, lines, opening
stocks and the numbers of foods and users are small enough for the doubles the scripts
calculate with to be exact (`StoreAssumption` and `LegacyAssumption`, which say so with counts of up to a million), that
`Requests` are requests the router lets through (`RequestAssumption`), that the rows of the
food table have different ids, that stocks and bounds are natural numbers, and that the client calls
methods it has (`RedisConnAssumption`, `LocationAssumption`).

**Sums** (`HashTheorems`). `Total` folds a hash with a recursive function, in an order
`CHOOSE` picks. The function exists, and its sums do not depend on the order;
so HSET and HINCRBY change a sum by what they change in one field. Induction is the
least-element principle of `WellFoundedInduction`, on sets of fields.

**RedisStore** (`RedisStoreProofs`): `TypeCorrect`, `NeverOversold`, `AdminView`,
`PlacedOrdersFrozen`, `NothingLost`, `LimitKept`, `StoreImplementsSale`. `IInv` adds to `TypeOK` and
`NoOversell` that the two indexes of orders, `user:<u>:order` and `order:user`, are
inverse to each other. Without that, a step could give a second user the order id
of the first, and neither the agreement of the views nor their permanence would
be preserved. `Tallies` adds what the sums need: hashes are finite, an order that
was not placed has no lines, no cart passes the limit. Both are invariants of `RedisStep`,
in which a sequence of patches has no bound.

`add_food.lua` adds up a cart in doubles. For the counts of `StoreAssumption` and carts that no
2^53 passes its sums are those of the integers; for others they are not: patches of -2^60 of one food, 60
of another and 2^60 of the first are all accepted and leave 60 pieces. In `RedisNext` a
line stops at `LineFloor`, so the sums are exact; under the servers a line
goes down by a million with each patch at most, so they are for the first 10^9 patches.

**ShopServer** (`ShopServerProofs`, with every fault): `ServersUseRedis`,
`ShopImplementsSale`, `ShopNeverOversells`, `CachesNeverDisagree`, `PromisesKept`. `ShopInv` says where every id comes from: an
id in Redis, in a cache, in an attempt under way or in an answer was drawn by one
handler, for one user (`Origins`), an attempt under way is one its handler
has made, with the arguments that handler has (`Messages`), and what an executed
attempt replied is still true of what only grows in Redis (`Request`). From that
the guards of `RedisStore` on ids follow for every
attempt, repeated or late, and the theorems of the store carry over.

**ShopServer without faults** (`ShopServerProofs`): `CalmIdsShared`, `CalmRefusalsTrue`,
`CalmOrdersShown`, `CalmShownReal`, `CalmPatchesOnce`, each of the form "until the first fault". With faults
the code breaks these properties (see the runs), so the condition is part of what
is true, and `MaxFaults` 0 in `shop_orders` the same condition. `CalmInv` adds that each call has one
attempt, that a call which was executed holds the reply, and for each step of a
handler what Redis says of its token, cart and order. `SumsInv` relates the lines
of a cart to the patches that are accepted, and, in the step between Redis' reply and the
handler's answer, executed.

The runs begin in `WarmInit`, the theorems in `ShopInit`: a warm state is one
that `ShopSpec` reaches with more requests, which are then done and forgotten.
`PatchedOnce` of the run starts from the carts of that state, `CalmPatchesOnce` from empty ones.

**StartupSync** (`StartupSyncProofs`): `StartupTypeCorrect`, `ServersAlwaysFindStock`,
`StockAlwaysKept`. `IInv` says of every Exec that it is one of the attempts
it has (`Trying`) and that Redis executes what was sent in the order of the pipeline (`Ordered`), and, as
long as `odd` is empty (`Regular`), that what Redis has yet to execute of an Exec
is the end of a pipeline whose earlier foods are in Redis
(`Unexecuted`, `Executing`), that the foods in Redis are a first part of the rows (`InOrder`), and
that they are all there, after complete results of MySQL, once INIT_TIME is marked (`Marked`) or a
server serves (`Serving`). `Serving`, and with it `ServersAlwaysFindStock`, has the condition
`odd = {} /\ errors <= MaxRetries`: beyond it Exec ends with an error, and the code goes on without
the stock. `KeptInv` counts: each start is still to
increment INIT_TIME or has done so at most once, so that without network errors it takes
as many starts as the counter has values before a second server is elected. Therefore
`StockAlwaysKept` has the condition `starts <= 1 - InitMark`, which is 10001 starts,
and the run the bound `MaxStarts`.

**StockList** (`StockListsProofs`): `ListsShowOneMoment`, `ListsOnlyAdvance`. A cache is a stock Redis
had, or on the way from one to a later one while `Fill` runs; the list shown is no
later than the cache. Of the fairness of the run nothing is used (`ListSpec`).

**LegacyStore** (`StockListsProofs`): `SortedSetsAgree`, `OrdersOfCartsAgree`,
`PythonServerImplementsSale`. The lines of an order are a recursive function as well, with the sorted
sets as its value; `Shelves` is what each of its values satisfies, whatever the order of the lines.
From `Shelves` it follows that the script finds the stock of a food under its last change, and only that.
`Bounded` (`Floored`, `Sold`, `Storable`) is what the encoding needs: no line is below `LineBound`, each order adds
at most that much to a stock, and so no stock leaves 0 .. 10^7 - 1.

**ConnPool** (`ConnPoolProofs`): `PoolTypeCorrect`, `SlotsAlwaysAddUp`, `NothingEverLeaks`,
`PoolNeverStuck`, `PoolImplementsPromise`. The first holds after Close as well. Until Close each connection in the list is in the hands of one goroutine
or in the channel, once (`Owned`), and the counter is the list's length and the number of
goroutines between taking a slot and using it (`Slots`), as cardinalities. `Move` lists what a step may
do to list, counter and channel; the refinement of `BoundedPool` is shown for the moves.

**RedisConn** (`RedisConnProofs`): `RepliesInOrder`, `ConnectionsAreClean`, `RepliesAreOwn`,
`RepliesAreUnderstood`, `EveryMethodIsAnswered`. The first part is about reading alone, for any reader
and any tokens: the states of a reader are a recursive function of the tokens, which is shown to exist; a reader
that has all it wants, or an error, takes no further token; two readings agree on what they have in
common. So a reader that reads a reply whole when it is all there and waits when its last
token is missing (`ReadsWhole`) takes just that reply whatever follows it, and never the
whole of a part (`TakesItsOwn`). `ConnInv` then says of each attempt that what
lies on the connection is the replies of the commands still to be read, in their order
(`InOrder`), or that a reply was missed and an error stands that makes the pool
replace the connection (`Late`); between attempts nothing lies there (`Quiet`). `NoNilFirst` is needed
because a pipeline is judged by its first error: a nil there would hide that a later
reply is missing.

These theorems have a premise, `Fitting`: every method that is called reads each of its
replies whole, pipelined ones are never answered nil, and of the `Mishaps` at most
the function of Exec that fails is among them. Each part is needed; the runs and
the bounds above say what the code does without it (SORT and GEOHASH, an error hidden in a
pipeline, a rejected command of a transaction). `Understandable` leaves out the two methods that
`RepliesUnderstood` leaves out. `EveryMethodIsAnswered` proves both premises for every method
but SORT and GEOHASH, and EVAL and EVALSHA where `ScriptErrors` is TRUE (`Misfits`), in pipelines and transactions for those that are not answered nil
(`MayBeNil`), with any parameters. Its argument is on the reply as a whole: `Takes` says that a
list of readers takes just these lines and none of what follows, lists of readers take
lists of lines one after the other (`TakesTwo`), and a line that announces others is taken
with them (`ArrayTaken`). With that each shape of reply is shown to be taken by each type of
command that gets it (`ShapesFit`), and the methods are gone through by the sections of
`commands.go` (`TypesSuit`). BRPOPLPUSH is among them: it reads its nil array
whole and does not understand it, and `RepliesUnderstood` leaves it out.

**MysqlConn** (`MysqlConnProofs`): `MysqlTypes`, `NothingIsWrittenClosed`, `PacketsInSequence`,
`NothingIsLeft`, `NothingIsAwaitedInVain`, `RowsAreAllOrError`. `Shape` says which step of a call may follow
which (`Chain`), that rows are read only while they are open, and that a call
whose connection is closed has nothing more to do, but for a second charset; nothing is written
then. `InStep` has two parts, as long as `odd` is empty and the connection is open: the
packets in transit are numbered on from `sequence`, with one number more after each long
packet (`Counted`), and they are just those that the next step and the ones planned
after it will read (`Ahead`): the whole answer, the rest of a result from the
row under way, or the definitions of a statement. With
that a packet out of sequence, a packet left over and a wait for nothing are excluded
together, but after the four cases of `odd`. `Reading` is for rows, and holds after any cut and whatever else is in `odd`: each header in
transit is followed by the packets of its own result, as far as the network
lets them through, and open rows go on in their result where they stopped, so that its end comes
after all of its rows. `RowsAreAllOrError` has the condition that no statement without
a result was queried (`noResult` of `odd`): its rows are those of no result, and the property
has nothing to compare them with. The run checks `AllRowsOrError` without that condition.

Only model-checked:

- liveness (`EveryRequestEnds`, `EveryServerServes`, `EventuallyShown`, `EveryGetReturns`), which the
  proof system does not handle under fairness;
- `PatchedOnce` from the carts of a warm start, and `AllRowsOrError` after a statement without result;
- what the code does beyond the conditions of the theorems (faults, a counter that came back, a
  Get after Close), as far as the violated runs show it.

## Not modelled

- Prices and totals (constant after start-up), wording and layout of answers.
- The chance that two random ids coincide: ids are taken to be new.
- Loss of Redis' data: the deployment has no replica and no persistence the
  code relies on.
- `constant.DEBUG` is false in the repository, so the DEL in `Sync_redis_from_mysql` is left out.
- Publish and subscribe, cluster, ring and sentinel clients of Redis,
  `Multi.Discard`: not used by the program.
- The encoding of arguments and values in both clients, the data source name
  and TLS of the MySQL driver: pure conversions without shared state.
- The HTTP router and the JSON libraries: pure functions of a request.
- The start-up of the Python server and its list of foods, the load generator, the tests and the
  experiments: beside the program that `app.yml` starts.

## Plan

1. `Sale`, `RedisStore`, its first theorems; `ShopServer`; `StartupSync` (done).
2. `StockList`, `ConnPool` with `BoundedPool`, `LegacyStore`, the exchanges of
   the Redis client and `MysqlConn` (done).
3. Proofs: sums over a hash; `RedisStore` and the refinement of `Sale`; `ShopServer`;
   `StartupSync`; `StockList`; `LegacyStore`; `ConnPool` and the refinement of
   `BoundedPool` (done).
4. Proofs: `RedisConn`, from the fact about the parsers that each reads the replies of its methods
   to the end, and for all but `Misfits` that fact itself; `MysqlConn` (done).
