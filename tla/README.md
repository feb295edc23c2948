# Verification of the loyalty system

TLA+ specifications of the loyalty service (`cmd/gophermart`, `internal/`,
`pkg/`), the TLC configurations that check them on small instances, and proofs,
checked by TLAPS, that their main properties hold for every size. Line numbers
refer to the repository's files.

Contents: [the system](#1-the-system), [modules](#2-modules),
[reading the models](#3-reading-the-models), [runs](#4-runs-and-bounds),
[fairness](#5-fairness), [proofs](#6-what-is-proved),
[findings](#7-where-the-code-and-its-documents-differ),
[limits](#8-what-is-not-modelled), [plan](#9-plan).

## 1. The system

A user registers, uploads the numbers of orders made in a shop, and earns
points for them. An external *accrual system* decides how many. Points are
spent in withdrawals. One process serves HTTP and polls the accrual system; one
PostgreSQL database holds everything that outlives it.

| component | code | state | operations |
| --- | --- | --- | --- |
| Order upload | `internal/order/handler.go`, `service.go`, `repo.go` | table `orders`: owner, status, accrual, uploaded_at; unique number | `POST /api/user/orders`: check digit, INSERT, after a violation a SELECT, `Enqueue` |
| Accrual worker pool | `internal/order/worker.go`, `accrual.go` | channel `jobs`, `sync.Map` `inflight`, goroutines; table `orders` | `tryEnqueue`, scanner, `processJob`, `applyAccrualUpdate`, restart |
| Rate limit | `worker.go:253-290` | `rateLimitUntilUnixNano`, an atomic integer | `waitRateLimit`, `setRateLimit` |
| Order listing | `internal/order` | table `orders` | `GET /api/user/orders` |
| Balance | `internal/balance` | tables `user_balance`, `withdrawals`, `balance_accruals` | `WithdrawBalance`, `CreditAccrual`, two SELECTs |
| Accrual client | `pkg/accrualclient` | the attempts of a call | `GetOrderInfo` with retries; `Retry-After` |
| Accounts | `internal/user`, `internal/auth` | table `users`; tokens carry their own state | register, log in, authenticate |
| Process lifecycle | `cmd/gophermart` | ctx, listener, WaitGroup, connection pool | `initialize`, signal, `App.Run`, `Server.Start`, graceful shutdown |
| Configuration | `internal/config` | the `Config` that is built | `Load`: defaults, YAML, two kinds of environment variables, flags |
| Migrations | `pkg/pgmigrator` | the table of versions, the schema | `MigrateFromEmbeddedFS` |
| Check digit | `pkg/luhn` | none | `Valid` |
| Logging, helpers, mocks, encryption | `internal/logger`, `internal/httputil`, `*_mocks`, `pkg/encryption` | none | output; tests; nothing |

How they interact:

```
 client --HTTP--> handler --INSERT--> orders <--SELECT pending-- scanner
                     |                   ^  ^                        |
                     | tryEnqueue        |  | UPDATE status          | tryEnqueue
                     v                   |  |                        v
                  inflight + jobs  ======|==|=====================> workers --GET--> accrual system
                                         |  |                        |    |
                                     read +--+-----------------------+    | 429: deadline shared by all workers
                                                                     |
 client --HTTP--> handler --WithdrawBalance--> user_balance <--CreditAccrual
```

What is hard about it, and what makes each part correct:

- **Pool.** Handlers, the scanner and the workers share `inflight` and `jobs`
  without a lock around both: claim and send are two steps, a full channel
  drops the job, the worker releases the claim only when `processJob` returns.
  The row is read, compared and written in three steps, and the UPDATE is
  unconditional. The credit is another transaction than the status. Everything
  in memory is lost in a restart. *Correct* is: an order is processed by one
  worker at a time; no claim is left behind; a verdict is never overwritten;
  what is credited is the reward of a PROCESSED order, once; an order is polled
  until it has its verdict.
- **Upload.** The INSERT decides by the unique number, and a later SELECT
  explains; a statement may take effect and be reported as an error. *Correct*
  is: every answer is true, one upload of a number is accepted, an order that
  is queued has a row.
- **Balance.** READ COMMITTED transactions of any number of handlers and
  workers on the same rows. *Correct* is: no overdraft, no lost update, both
  writes of a transaction or none, one withdrawal per number, one credit per
  order, no deadlock. Status and credit, the list of orders and the balance, are
  separate transactions; a user who looks at one after the other must not see
  points without an order or miss a withdrawal that was confirmed.
- **Rate limit and client.** Concurrent answers 429 move one deadline, which
  workers read once and the client, with retries of its own, never reads; the
  pause comes out of 64-bit arithmetic on a number from outside. *Correct* is:
  no pause that was asked for is lost, pauses do not add up, what still leaves
  during a pause is bounded, nobody is stuck in the loop or in a call.
- **Accounts.** Registrations of one login race each other and log-ins; a user
  may be stored whose registration was answered 500. The server keeps nothing
  of a session: what a token says, and when, is all there is. *Correct* is: a
  login is registered once, answers are true, nobody is served without having
  given the password less than `TTL` ago, and a token lasts as long as it should.
- **Lifecycle.** A signal races the start, requests, workers, the shutdown's
  deadline and the closing of the connection pool. A migration may fail or be
  killed half-way and meets the next start. *Correct* is: `Run` outlasts the
  requests, no query is cut, nothing is served on a schema that is not complete,
  the process ends.
- **Configuration.** Four sources, each with its own reachable keys and its own
  idea of an empty value. *Correct* is the priority `config.go:10` states.
- **Check digit.** The loop counts from the left what the formula counts from
  the right. *Correct* is: it computes the formula, and a typing error is found.

The hazards, each at its line with the properties that watch it, are in
`PROJECT.json`.

## 2. Modules

| module | what it is | code |
| --- | --- | --- |
| `OrderStatus` | statuses, `MapAccrualStatus`, `ApplyAccrualInfo` | `order.go:15-31`, `accrual.go:28-58`, `accrualclient/model.go` |
| `OrderBook` | abstract: what is promised about orders | none of its own |
| `AccrualPool` | the pool, with the upload that feeds it | `worker.go`, `accrual.go:60-101`, `service.go`, `repo.go` |
| `AccrualPoolProofs` | theorems about `AccrualPool` | |
| `OrderUpload`, `OrderUploadProofs` | the answers of an upload | `handler.go:36-76`, `service.go:29-49`, `repo.go:33-65, 152-179` |
| `RateLimit` | the shared deadline | `worker.go:178-196, 253-290` |
| `AccrualClient` | one call of `GetOrderInfo` per caller | `client.go`, `retry.go` |
| `Polling`, `PollingProofs` | `RateLimit` and `AccrualClient` composed, as `processJob` does | `worker.go:178-206`, `accrual.go` |
| `Ledger` | abstract: withdrawals and credits as instants | none of its own |
| `BalanceRepo` | the transactions, statement by statement | `balance/repo.go:36-157`, the migrations' keys |
| `Loyalty` | orders, `BalanceRepo` and the pages of a user composed | the SELECTs of `internal/order` and `internal/balance` |
| `LoyaltyProofs` | theorems about `BalanceRepo` and about `Loyalty`, which extends it | |
| `Accounts`, `AccountsProofs` | registration, login, tokens | `internal/user`, `internal/auth/jwt.go` |
| `Luhn`, `LuhnProofs` | the check digit | `luhn.go` |
| `Config` | `Load` as a function of the sources | `internal/config` |
| `Migration` | one call of the migrator | `pgmigrator/migrator.go` |
| `Lifecycle`, `LifecycleProofs` | start and stop of the process, with `Config` and `Migration` | `main.go`, `di/app.go`, `di/server.go`, `worker.go:100-153` |
| `SumProofs` | lemmas: induction over finite sets, sums | |
| `MC...` | instances for TLC: values of constants, symmetry | |

How they are put together:

- `AccrualPool` EXTENDS `OrderStatus` and implements `OrderBook`; `BalanceRepo`
  implements `Ledger`. In both the abstract variables have the names of the
  concrete ones, so the refinement mapping is the identity on them, and the
  other variables of the concrete module are hidden.
- `Loyalty` EXTENDS `BalanceRepo` and takes the orders from `OrderBook` by
  `INSTANCE OrderBook WITH credited <- credited, ...`, where `credited` is a
  history variable: what `user_balance` really got, step by step, from the
  transactions that a worker ran for the order. The steps of orders are those of
  `OrderBook`, which `AccrualPool` is shown to implement; the steps of credits
  are not: they are the statements of `CreditAccrual`, and that what these add
  to the balance is what `OrderBook` promises, after PROCESSED, once and no more
  or less than the reward, is what the run and the theorem show. `AccrualPool` in
  turn uses the credit as one atomic step, which `BalanceRepo` justifies by
  implementing `Ledger`. So the two halves meet at `OrderBook`.
- `Polling` EXTENDS `RateLimit` and takes the client by `INSTANCE AccrualClient
  WITH Callers <- Workers, ...`. Every step of `RateLimit` that a worker makes is
  the step of `Polling`, and the client only fills the time a worker is at
  `"poll"`: `Polling` implements `RateLimit`.
- `Lifecycle` EXTENDS `Config` (operators only) and `Migration` (variables and
  actions), as `initialize` calls them one after the other.
- The pause after a 429 is left out of `AccrualPool`: it only delays a poll, and
  `Polling` shows that it ends.

## 3. Reading the models

**One action is one atomic effect**: an operation of the `sync.Map`, of the
channel or of the atomic integer, or one SQL statement as far as it gets
without waiting. A goroutine that has the next effect to do says so in its
`pc`. What lies between two effects is local to a goroutine, so no other can
see it. The graph of labels stands at the head of each module.

`AccrualPool`. `jobs`, `inflight` are the fields of `AccrualWorkerPool`; `job[p]`
is the order a goroutine is working on; `status`, `accrual`, `uploadedAt` are
columns of `orders`; `credited[o]` is the row of `balance_accruals`, which
exists exactly if the balance got the amount. `ext[o]` is what the accrual
system knows. Actions follow the code: `LoadOrStore`, `Send`, `Undo` are
`tryEnqueue`; `SelectPending`, `ScanNext` the scanner, with `tryEnqueue` for
each order of the batch; `Take`, `PollOrder`, `ReadOrder`, `UpdateOrderAccrual`,
`CreditAccrual`, `Finish` a job. `Finish` is the deferred `inflight.Delete`.
Failures are separate actions: an answer that is no answer, a statement that
fails, and one that takes effect while its caller sees an error
(the third conjunct of `InsertFails`, `UpdateFails` and `CreditFails`).
`Restart` empties the memory between any two steps; a shutdown, which does not
wait for the workers (section 7), is the same thing to the pool.
An upload is two steps, as `uploaded_at` is NOW() of the INSERT (`BeginInsert`) and
the row is seen when the INSERT is committed (`InsertOrder`): of two uploads that
overlap the older may be seen second, and the second INSERT of a number is
refused. `startedAt[h]` is the time of a handler's open INSERT, and times are
numbers in the order of the INSERTs; a number that was rolled back may be given
again. `FirstInLine` takes the open INSERTs into account. Rows are never deleted.
One process is modelled, as `inflight` is the memory of one.

`OrderUpload`. Requests of users for numbers, each of which runs once; a client
that retries is another request. The check digit is a subset of the numbers.
A number read by the SELECT without a row, which no reachable state has, would
be the answer 500 like any other error.

`BalanceRepo`. The variables of the tables hold what is committed. What an open
transaction has written follows from its `pc`, and `lock[u]` is the transaction
that has written the row of `user_balance`. PostgreSQL is the external part:
an UPDATE chooses its row by the committed version, waits for the row's lock
and evaluates its WHERE clause again on the new version (`UpdateBalance`,
`LockBalance`); an INSERT waits for an open transaction with the same key and
fails if that commits. Amounts are integers: they are NUMERIC columns, and a sum
keeps its exact value when it is added. `Rollback` covers every failed
statement and commit, `CommitUnseen` the commit whose confirmation is lost.
Sums may be 0 or negative: nothing between the JSON and the UPDATE looks at the
sign, and the properties hold with them all the same.

`RateLimit`. Time is a number of ticks in signed integers of limited width:
`Half` is 2^63 and a sum that reaches it wraps around. `setRateLimit` computes
its deadline once and then loops over load, comparison and compare-and-swap.

`AccrualClient`. `attempt[c]` counts the requests of a call, `result[c]` is what it
returns. The loop of go-retryablehttp is external; `accrualCheckRetry` decides
in `FailsTemporarily` (a network error, a timeout, 500), `Answers` (anything else
is final) and `SentCancelled`. `ParseRetryAfter` is `strconv.Atoi` and the
product with `time.Second`, both in 64 bits. A request is one step to the
accrual system and one back, and between two of them the deadline may move,
which the client does not see.

`Polling`. `asked` and `early` are history variables: what the last answer 429 of a
worker asked for, as if integers had no width, and how many requests of a
worker have left since the present deadline was set and before it was over.

`Loyalty`. `page[u]` and `listed[u]` are what a user saw last, `told[u]` the numbers
of withdrawals a user was told of by the answer 200 or 409. Each page is one
SELECT, so its contents are one committed state; any time may pass between
pages. `credited[o]` adds up, step by step, by how much the transactions that a
worker ran for `o` changed `current + withdrawn` of its owner (`Points`); it is
computed from these columns and knows nothing of `balance_accruals` or of the
reward. `told` and `credited` are history: no action reads them.

`Luhn`. The loop runs on two numbers side by side: `"meant"`, any sequence of
bytes, and `"typed"`, the same, or with a wrong digit, or with two neighbours
swapped (09 for 90 excepted, which no such sum can see).

`Accounts`. Requests run once, like those of `OrderUpload`. A password stands for
its hash, and `LongPasswords` for those bcrypt does not hash (more than 72
bytes); bcrypt compares the first 72 bytes only, and the passwords of the model
differ within them. The id of a row is the request that inserted it. `token[r]`
is the token a request was answered with and `bearer[q]` the one a later request
presents; the requests behind the middleware are their check only. A token
made by somebody else is refused by its signature, which is external, and
never appears. `Restart` ends the requests under way and nothing else.

`Config`. `given[s][k]` says what source `s` holds for key `k`: nothing, an empty
string or a value. The operators do not look at a value, they say where it
comes from. `Reads` are the keys a source can name at all; they differ (a
prefixed variable cannot name a key with an underscore, for instance).

`Migration`. `version` and `dirty` are golang-migrate's table, `schema` is how many
migrations have run in fact. A migration is three steps: its number is
recorded as dirty, its statements run in one transaction, the flag is cleared.
Any of them may fail, and the process may die between any two.

`Lifecycle`. `main` from `load` to `exited`, `Server.Start`, the pool's `Run`, the
workers and the handlers. `main` says how far the main goroutine is, and
`"failed"` is `log.Fatalf`. `given` and `cfg` are there from `Load` until the rest of
`initialize` has read them, and then forgotten, as no later step of the model
asks for a value. `net/http` and the connection pool are external: Shutdown
closes the listener and waits for the requests or its deadline, which may come
at any moment; `Close` refuses new queries and waits for those that run. `Kill`
ends the process between any two steps and `Begin` starts the next one on the
same database.

**Variants.** A definition marked "Variant" is a faulty form of the one that
follows it: a forgotten delete, an unchecked result, a swapped order. No
specification uses them. For every property of a passing run there is one, or
more, that makes TLC find the property violated; `PROJECT.json` lists the pairs
under `mutants`.

## 4. Runs and bounds

All passing runs are complete searches of their instance.

| run | checks | instance |
| --- | --- | --- |
| `pool_safety` | `TypeOK`, `OneOwner`, `CreditIsReward`, `FinalStatusIsFinal`, `ImplementsOrderBook` | 2 orders, 2 workers, 1 handler, channel of 2, batch of 1, 2 faults |
| `pool_live` | `NoLeak`, `VerdictDelivered`, `OldestIsRepolled`, `RewardCreditedUnlessFailed` | 2 orders, 1 worker, 1 handler, channel of 1, batch of 1, 2 faults |
| `balance_safety` | `TypeOK`, `NeverOverdrawn`, `BooksBalance`, `ImplementsLedger` | 1 user, 2 handlers, 2 workers, 2 orders, 2 numbers, sums -1, 0, 2, 1 fault |
| `loyalty` | `BalanceIsExplained`, `ToldIsListed`, `ImplementsOrderBook`, `EveryCallReturns` | 1 user, 2 orders, 1 handler, 2 workers, 1 number, sums -1, 2, 1 fault |
| `polling` | `PollTypeOK`, `AskedIsKept`, `PauseHoldsBut`, `PauseIsBounded`, `WorkerResumes` | 2 workers, 1 retry, headers none, 2 and 5, 2 ticks a second, `Half` 8, 4 ticks |
| `upload_safety` | `TypeOK`, `AnswersAreTrue`, `AcceptedOnce`, `EnqueuedIsStored` | 3 requests, 2 users, 2 valid numbers and 1 invalid, 2 faults |
| `accounts` | `TypeOK`, `RegisteredOnce`, `AnswersAreTrue`, `ServedAfterLogin`, `SessionLasts` | 3 requests, 2 logins and the empty one, 2 passwords and a long one, TTL 3, 2 ticks a second, 4 ticks, 1 fault |
| `luhn` | `ReturnsLuhn`, `TypoIsCaught` | all numbers of 0 to 3 bytes, each a digit or one other byte |
| `life` | `TypeOK`, `PriorityKept`, `ServesMigrated`, `RunWaitsForRequests`, `NoQueryIsCut`, `Terminates` | 2 workers, 2 requests, 2 migrations, 2 attempts to connect, 2 starts, one key at a time in all sources |
| `pool_reward_lost`, `pool_starved`, `life_workers` | `RewardCredited`; `RequeuedIsRepolled`; `WorkersHaveStopped`: refuted, section 7 | |

What they show:

- `pool_safety`: two workers, the scanner with a stale batch and an upload
  compete for two orders while statements fail and the process restarts; no
  order has two owners, and because of that the unconditional UPDATE is
  harmless: no verdict is overwritten and no reward is credited wrongly. The
  whole behaviour, seen through the tables, is one of `OrderBook`.
- `pool_live`: a dropped job costs time and nothing else. The key goes back,
  the scanner finds the row, and with an accrual system that reaches verdicts
  every order gets its own, also when the insert was reported as an error and
  never enqueued, or a restart came in the middle. If the accrual system stays
  silent the oldest pending order is still taken up again and again; how far
  this holds for the others is finding 3. The reward of a PROCESSED order is
  credited unless something failed, and when something did is finding 1.
- `balance_safety`: two withdrawals, each covered, whose sum is not; two first
  credits of a user; the same order credited twice at a time; the same number
  withdrawn twice at a time; each with a failure at any point.
- `loyalty`: two workers credit one order while its user withdraws and reads
  pages. A balance, with what was spent of it, is never more than the orders
  explain that are listed afterwards; that is the order status first, credit
  second. A withdrawal that was confirmed stays listed. And no two
  transactions wait for each other, though a credit holds one lock while it
  waits for another. What two workers add to `user_balance` for one order is
  its reward once: a transaction that added it a second time, or something else,
  would be no step of `OrderBook`.
- `polling`: a failed compare-and-swap looks again; it neither loses the later
  deadline nor loops for ever. A worker that read an old deadline, and a client
  that repeats its request, do send during a pause, but only the one call that
  was under way. A header whose product with a second wraps around leads to a
  shorter pause or to none, never to a longer one.
- `upload_safety`: 202 is given once per number, 200 to its owner, 409 to
  others, also between the two statements of another upload and after an insert
  that was reported as an error.
- `accounts`: of two registrations one wins, also when the winner was told 500;
  a log-in between them gets the row or 401; a token of before a restart is
  served until it expires, which is at a whole second: up to one second early
  and never late. Counting from the claim `iat`, which is cut already, would lose
  almost two.
- `luhn`: the loop agrees with the formula for both parities of the length and
  for no byte at all, and every single mistake is found.
- `life`: a signal at any moment of the start, two deadlines and a connection
  pool later the process has ended, and nothing was in a query at that moment,
  also if the server never listened. A migration cut in two is never served:
  the next start finds the flag and stops. Every key has the value of the
  highest source that sets it, with the sources' gaps and empty values.

Bounds, and why they are enough:

- *Two orders, two workers, two handlers, two users.* The races of this code are
  between two processes about one order or one row, with a third one to fill the
  channel or the batch. The theorems cover the other sizes. The pool has one
  handler: to the channel and to `inflight` the scanner is a second one. What two
  of them do to each other is an INSERT that is refused, which is the subject of
  `upload_safety`, and INSERTs that overlap, which are that of the theorem
  `NoOvertaking`. `loyalty` has one
  handler, as what two of them do to each other is the subject of
  `balance_safety` and its refinement.
- `QueueFactor` is 4 in the code (`worker.go:84-87`) and 1 in the passing runs: with
  one worker and a batch of 1 the channel then has one place and is full after
  one upload. `pool_starved` and `pool_reward_lost` use the
  real value, so nothing they show comes from a small channel.
- `PollBatch` is 1 or 2. `app.go` does not set it and the code's default is
  twice the number of workers; what matters is whether the pending orders exceed
  it.
- `MaxFaults` bounds failed statements, lost confirmations and restarts of a
  behaviour, together. Two are a failure and another one while the first is
  being recovered from.
- `Half` is 8 in `polling`, so that of two headers the larger one wraps around
  and the smaller one does not until the last ticks; `RetryMax` is 1, so that a
  call has a first, a repeated and no further attempt. `MaxTime` is where the
  clock stops; a deadline beyond it is not waited for. `Longest` is the longest
  pause of the instance, not a bound.
- `Lengths` up to 3 hold both parities, a doubled digit at either end and a
  neighbour on each side. `Others` are bytes that are no digits; the code treats
  them all alike.
- `OneKey` gives the sources of `life` something to say about one key at a time,
  as no key's value depends on another key; of keys that the same sources can
  name one stands for the others. The theorem needs neither.
- `Migrations` 2 is the least that has a complete one before one that is cut;
  `MaxStarts` 2 the least in which somebody meets what a killed process left;
  `Attempts` 2 (20 in the code) has a first, a last and none left.
- `TTL` of `Accounts` is odd where a second is 2 ticks, so that the moment a token
  is made falls on both sides of the cut; `MaxTime` lets it expire.
- `Requests` of `OrderUpload` and `Accounts` run once, so these systems come to an
  end: `CHECK_DEADLOCK FALSE` there, in `Luhn`, whose calls return, and in
  `Lifecycle`, whose process exits.
- Symmetry is used in the safety runs only.

## 5. Fairness

- *Pool*: weak fairness of every goroutine's next step, since Go schedules them
  and no step of theirs but a receive waits; the ticker ticks. Uploads, failures
  and restarts have none. A worker whose polls all fail would go on for ever;
  failures are bounded, which says that they are not for ever. `VerdictDelivered`
  and `RewardCreditedUnlessFailed` assume in addition that the accrual system
  reaches a verdict on each order, as a premise of the property (`ExtDecides`);
  `OldestIsRepolled` does not.
- *Balance, Loyalty*: weak fairness of statements that do not wait, strong
  fairness of those that wait for a lock: PostgreSQL grants locks in order, so a
  waiting transaction is not passed for ever. Nothing is assumed of requests,
  orders or pages.
- *Polling*: time passes, a woken worker goes on, an attempt is answered or times
  out, the loop of compare-and-swap is scheduled. It needs no strong fairness: a
  swap fails only because another one moved the deadline, which a bounded pause
  allows finitely often in an instance.
- *Lifecycle*: the goroutines of the start and the shutdown are scheduled and
  queries end; the database answers each attempt of the migrator, with success
  or an error. Nothing is assumed of handlers, which may hang, or of a signal.

## 6. What is proved

By TLAPS, for all values of the constants that satisfy the named assumptions
of the modules (finite sets of orders and workers, disjoint kinds of processes,
natural rewards, positive batch, times and pauses that fit into 64 bits; model values that stand for "none" are not
among the values they stand beside).

| theorem | says |
| --- | --- |
| `AccrualPoolProofs!TypeCorrect`, `Exclusion`, `NothingLeaks`, `RequeueIsVain`, `CreditCorrect` | `TypeOK`; `OneOwner`; `NoLeak`; `WorkersNeverSend`: a worker's own requeue never reaches the send; `CreditIsReward` |
| `AccrualPoolProofs!Implementation`, `VerdictIsKept` | the pool implements `OrderBook`; `FinalStatusIsFinal` |
| `AccrualPoolProofs!MemoryIsBounded` | `InflightIsCounted`: as many keys as places in the channel that are taken and goroutines at work, and no more places than the channel has |
| `AccrualPoolProofs!LossNeedsFault`, `LossIsForGood` | `LostOnlyByFault`: a reward is lost by a failed statement or a restart only; `LossIsFinal`: and then for good |
| `AccrualPoolProofs!NoOvertaking` | `PlaceIsKept`: an order that is first in line for the scanner stays so until its verdict |
| `LoyaltyProofs!TypeCorrect`, `NoOverdraft`, `WithdrawnOnce`, `Implementation` | of `BalanceRepo`: `TypeOK`; `NeverOverdrawn`; `OneWithdrawalPerNumber`; the transactions implement `Ledger` |
| `LoyaltyProofs!BooksAreBalanced`, `NoCircle` | of `BalanceRepo`: `BooksBalance`; `NobodyIsStuck`: behind every caller is one who waits for nobody |
| `LoyaltyProofs!BalanceRepoImplementation`, `ServiceKeepsBooks` | the service's balance is `BalanceRepo`, so all of the above holds of it |
| `LoyaltyProofs!OrderBookImplementation`, `ToldListed`, `BalanceExplained` | what the statements of `CreditAccrual` add to `user_balance` is what `OrderBook` promises; `ToldIsListed`; `BalanceIsExplained` |
| `PollingProofs!ImplementsRateLimit`, `LatestIsKept`, `PauseBounded`, `DeadlineMonotone` | `Polling` implements `RateLimit`; of that `DeadlineKept`, `PauseIsBounded`, `DeadlineGrows` |
| `PollingProofs!WaitBounded`, `SwapsProgress` | of `RateLimit`: `WaitIsBounded`; `SwapFailsForward` |
| `PollingProofs!PollTypeCorrect`, `PauseHolds`, `AskedKept` | `PollTypeOK`; `PauseHoldsBut`; `AskedIsKept` |
| `OrderUploadProofs!TypeCorrect`, `AnswersCorrect`, `AcceptedAtMostOnce`, `PoolFindsItsOrders`, `OwnerIsKept` | `TypeOK`; `AnswersAreTrue`; `AcceptedOnce`; `EnqueuedIsStored`; `OwnerIsFinal` |
| `AccountsProofs!TypeCorrect`, `RegistrationIsUnique`, `AnswersCorrect`, `LoginComesFirst`, `SessionsLast` | `TypeOK`; `RegisteredOnce`; `AnswersAreTrue`; `ServedAfterLogin`; `SessionLasts` |
| `LuhnProofs!ComputesLuhn`, `CatchesTypos` | `ReturnsLuhn`, `TypoIsCaught`, for numbers of any length |
| `LifecycleProofs!TypeCorrect`, `ConfigPriority`, `ServedSchema`, `RequestsAwaited`, `QueriesEnd` | `TypeOK`; `PriorityKept`; `ServesMigrated`; `RunWaitsForRequests`; `NoQueryIsCut` |

The arguments:

- *Pool.* `OneOwner` alone is not inductive: that a worker may delete a key
  safely needs that the key is its own, hence `NoLeak`, and that nobody else has
  the order, hence where each goroutine can be (`PcOK`). That the unconditional
  UPDATE is right needs that an answer on its way to the database is not older
  than the row's verdict (`AnswerIsFresh`), that the row cannot change between
  the read and the write (`WriteMovesOn`, from `OneOwner`), and that the table is
  never ahead of the accrual system (`RowFollowsExt`). `IInv` is their
  conjunction. Lemmas `SameOwners`, `OwnerLeaves`, `OwnerArrives` reduce each
  action's effect on ownership to one of three kinds, and `QueuedAppend`,
  `QueuedTail` say what a send and a receive do to the set of queued orders.
  `VerdictIsKept` then comes from the implementation: no step of `OrderBook`
  overwrites a verdict.
- *Pool, what is kept and lost.* `InflightIsCounted` counts by two bijections, from
  places of the channel and from owners to the keys they stand for, which
  `OneOwner` makes disjoint and `NoLeak` exhaustive (`InvCounts`). A reward is not
  lost by a step that is not a fault because the worker that writes PROCESSED
  goes on to `"credit"` (`AfterWrite`), is the only one there (`CreditIsFirst`) and
  credits; it stays lost because nobody comes to `"credit"` again with an order
  whose verdict is final (`LossStep`). For `PlaceIsKept`, `Ahead(o)` never grows
  (`AheadShrinks`): a new INSERT is later than every row (`NowIsLater`), and one
  that is committed was ahead already while it was open.
- *Balance.* `LockIsHeld`: a transaction holds the row from its write to its end.
  So what it checked under the lock is still true at the commit
  (`WithdrawalIsCovered`), and a key it has inserted is nobody else's
  (`CreditIsNew`). The commit is then the instant `Ledger` asks for, and a
  refusal is true at the statement that makes it. The books: a commit adds a row
  that was not there, to the sum and to the balance at once, and the sum over one
  row more is the sum plus that row (`StepBooks`, `SumAdd`). No circle: the row of
  `user_balance` is the last lock either transaction takes, so its holder waits
  for nothing (`HolderRuns`), and a wait for a key is a wait for somebody who holds
  or awaits that row, two locks away at most.
- *Sums.* The community modules sum f over S by a recursive function on the
  subsets of S, which takes out one element after the other by CHOOSE. `SumProofs`
  shows that the function exists (`SumsExist`) and that its value does not depend
  on the order (`SumRemove`), hence `SumAdd` and `SumMonotone`. The inductions are over
  finite sets, by a counterexample with fewest elements (`SetInduction`).
- *Loyalty.* Every step is a step of `BalanceRepo` or leaves its variables alone
  (`StepIsRepo`), which is the whole of `BalanceRepoImplementation` and brings
  the invariant of the transactions along. Over it, `CreditFollowsStatus`: a
  worker inside `CreditAccrual` works for a PROCESSED order, as verdicts are
  final. `credited` follows the change of `current + withdrawn`, and
  `CreditedOnce` ties it to the rows of `balance_accruals`: an order with a row got
  its reward, an order without one nothing. That is what makes the refinement go
  through: the commit finds an order without a row (`CreditIsNew`), adds the reward
  to a balance that nobody else writes, and is the step `Credit` of `OrderBook`;
  every other step of a transaction, the second worker's that finds the row
  included, adds nothing (`NothingCounted`).
  For `ToldIsListed`, an answer 200 or 409 is given in a state that has the row,
  and rows stay (`Progresses`). For `BalanceIsExplained`, a balance that was shown,
  with what was spent of it, is at most what is credited now; credits are of
  orders that are PROCESSED with their reward, and all of these are in the list,
  so the sum over the list is no less (`SumMonotone`).
- *Rate limit.* What a worker is about to write is bounded by now plus the
  longest pause, so is when it wakes up, and what it compares with was a deadline
  (`WriteIsBounded`). That a swap fails only after the deadline moved on is
  `DeadlineGrows` seen by the one who fails.
- *Polling.* The client's answer is one `RateLimit` admits (`ResultIsDelay`), so
  each step maps to a step of `RateLimit` or a stutter. For `PauseHoldsBut`,
  `EarlyIsOfThisCall`: what left early belongs to the call under way, so the
  attempts of the client bound it (`AttemptLeft`); a worker that is not in a call
  has to read the deadline before it starts one. For `AskedIsKept`,
  `AskedIsWritten`: until its swap a worker carries the deadline it was asked
  for, which did not wrap around if it is less than `Half` (`AskedFits`).
- *Upload.* A request past its INSERT has a row of its own, or knows that one
  exists; rows never change owner.
- *Accounts.* A step moves one request and at most adds a row or a token
  (`MovesKeep`), so the invariant is shown request by request (`Good`), and a
  request that does not move keeps it (`Frame`). `RegisteredOnce` is not
  inductive: a request on its way from the INSERT to its token is already the
  `Inserter` of the row, and a row has one. `SessionLasts` rests on
  `NumericDateBounds`: the cut takes less than a second.
- *Luhn.* At each turn of the loop the sum is that of the digits seen so far, and
  the parity from the left is that from the right (`ReturnsLuhn`, by `SumAdd`).
  The two calls have the same sum until the mistake and from then on
  sums that differ by the same amount modulo 10 (`Parallel`). That the amount is
  not 0 is a fact about ten digits: doubling and reducing is injective
  (`WeightInjective`), and of two neighbours one is doubled (`ParityAlternates`,
  `SwapShows`).
- *Lifecycle.* `LoadPrioritises` follows from one lemma about one source
  (`OverKeeps`), used four times, for all keys at once. `TableIsTrue`: a table
  without the flag tells how many migrations have run, whoever was killed where.
  `StartsInOrder` and `StopsInOrder` say what main's position implies of the
  migrator, the listener, `Start` and the connection pool.

Only model-checked are the liveness properties, as liveness under fairness is
out of the prover's reach. What each of them rests on besides fairness is a
safety property, and proved for all sizes:

| checked by TLC | what is proved towards it |
| --- | --- |
| `VerdictDelivered` | no key is left behind to shut its order out (`NothingLeaks`), the table follows the accrual system (`Implementation`) |
| `OldestIsRepolled` | first in line stays first in line (`NoOvertaking`) |
| `RewardCreditedUnlessFailed` | without a fault no reward is lost (`LossNeedsFault`) |
| `EveryCallReturns` | somebody can always go on, two locks away at most (`NoCircle`) |
| `WorkerResumes` | a sleep is bounded (`WaitBounded`), a failed swap means that another one moved the deadline (`SwapsProgress`) |
| `Terminates` | the order of the steps of start and stop (`StartsInOrder`, `StopsInOrder` in `Lifecycle`'s invariant) |

## 7. Where the code and its documents differ

1. **A reward can be lost** (`pool_reward_lost`). `applyAccrualUpdate` commits
   PROCESSED before it credits, in two transactions. If the credit fails or the
   process stops in between, no query selects the order again. That it takes such
   a fault, and that the loss is then final, is proved (`LossNeedsFault`,
   `LossIsForGood`).
   `docs/accrual-client.md:125` and `docs/pool-architecture.md:55` say otherwise.
2. **The requeue queues nothing** (`pool_starved`). A worker calls `tryEnqueue`
   while the key of its order is still in `inflight`, until `processJob` returns
   (`worker.go:174`), so `LoadOrStore` refuses it (`RequeueIsVain`, proved for all
   sizes). The comments at `worker.go:207-208, 240` say the order is put in the
   queue again because another poll is needed, `docs/accrual-client.md:127` says
   so of a 429. The run shows what is lost: an order that its worker requeues at
   PROCESSING is never polled again. If the key were given up before the call
   the property would hold in this instance, where the channel has room for every
   order.
3. **An order can be starved** (`pool_starved`). The same run needs a second
   cause: `SelectPendingOrders` takes the oldest `PollBatch` pending orders, and
   orders the accrual system never settles keep their places, so an order behind
   them is left to the requeue of 2. `worker.go:52` and `docs/accrual-client.md:126`
   say the scanner polls again. `OldestIsRepolled` is what remains true.
4. **`Run` does not wait for the workers** (`life_workers`), as the comment at
   `app.go:176` says. `NoQueryIsCut` shows that a query is not interrupted;
   the steps between two queries are, which is one way to meet 1.

Observations without a run that refutes a claim:

- "Pause for all workers" (`docs/accrual-client.md:127`) holds but for calls under
  way, since a deadline is read once and not by the client. `PauseHoldsBut` is
  what remains true.
- An answer is read as `ErrServer` by the words "giving up after" in the error, which go-retryablehttp
  also uses when the first attempt was cancelled; `client.go:136` and
  `docs/accrual-client.md:98` say the retries are exhausted. The branch for 500 at
  `client.go:112` is not reached: an answer 500 is retried or given up on.
- `--config` is parsed after the file was read (`loader.go:56-65, 145`), so it has
  no effect. A database URI from any source makes the flags for host, port,
  database, user and password ineffective. Keys with an underscore cannot be
  set by a prefixed environment variable, as its underscores become dots;
  `LOYALTY_SYSTEM_SERVER_ADDRESS` in `docker-compose` names no key. An empty
  prefixed variable or flag counts as a value, an empty standard variable does
  not.
- A dirty table of versions needs an operator: every later start ends at it.
- A signal during the start is noticed at the first use of ctx, and the process
  then ends in `log.Fatalf`, without the graceful shutdown.
- If `ListenAndServe` fails the process stays up without HTTP until a signal.
- `luhn.Valid` accepts the empty number. An upload without a number is refused
  before, a withdrawal is not.

## 8. What is not modelled

- Logging, JSON layout and `httputil`: output only. That the logger may fail to
  start is in `Lifecycle`.
- The mocks, generated code for unit tests; `pkg/encryption` and
  `pgmigrator.Migrate`, which nothing calls.
- `DatabaseDSN`, which formats what `Load` chose.
- The order of rows on a page.
- What a 64-bit sum of points would do: the columns are NUMERIC.
- Several processes on one database: `inflight` excludes nothing between them, and
  the repository starts one.
- The inside of PostgreSQL, `net/http`, go-retryablehttp, golang-migrate, bcrypt
  and the signature of tokens: external, as far as the code relies on them.

## 9. Plan

Done: `OrderStatus`, `OrderBook`, `AccrualPool`, as the most important behaviour;
`Ledger` and `BalanceRepo`; `RateLimit`, `OrderUpload`, `Accounts`; `AccrualClient`,
`Polling` and `Loyalty`, which compose; `Luhn`; `Config`, `Migration` and `Lifecycle`;
the proofs of all of them.

What could follow:

1. `Accounts` composed with `OrderUpload`: the owner of an order is a registered
   user who gave the password less than `TTL` before.
2. Two processes on one database, should the service ever be started twice:
   which of the pool's properties are left without a common `inflight`.
3. An abstract specification of uploads and accounts, a register of numbers and
   one of logins, for `OrderUpload` and `Accounts` to implement.
