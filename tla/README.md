# Specifications of the ledger service

TLA+ models of the multi-currency ledger in `src/`, the TLC configurations that
check them on small instances, and TLAPS proofs of what matters most for every
value of the constants. Paths below are relative to `src/src/` unless they start
with `migrations/`.

## 1. The system

Two NestJS applications (`apps/api.ts` and `apps/processing.ts`) share one PostgreSQL database, one Redis cache and two
Bull queues. Money lives in `sub_accounts` rows (`balance`, `hold`) keyed by
account and currency. In this code *debit* adds to a balance and *credit* takes
from it.

| component | state | operations | where |
|---|---|---|---|
| sub-account rows | `balance`, `hold` | four UPDATEs, three with a condition | `infrastructure/repositories/sub-account.postgres.repository.ts` |
| transaction service | `transactions` rows, status `initiated → pending → done`, `cancelled`, `failed` | create, send, cancel, process, fail, consolidateFee | `domain/services/ledger/transaction.service.ts` |
| account service | `accounts` rows | createAccount; hold, release, debit, credit for the above | `domain/services/ledger/account.service.ts` |
| consistent operations | a retry counter per operation and id in Redis; the open SERIALIZABLE transaction | begin, commit, rollback, check of the counter, retry after 40001 | `domain/services/ledger/consistent-operation.service.ts`, `infrastructure/services/*.postgres.service.ts` |
| PostgreSQL provider | clients allocated to transaction ids, a release timer each, the pool's idle clients and queue | allocate, release, run a statement | `libs/providers/postgres/postgres.provider.ts` |
| API | the one-second timer of a created transaction | create, cancel, send, process, open account | `infrastructure/controllers` |
| queues and processors | jobs that wait, are active or failed; paused queues | one job at a time per queue, failures are logged; pause and resume | `infrastructure/processors`, `infrastructure/controllers/processing.controller.ts` |
| fee cron | – | consolidateFee every five minutes | `infrastructure/workers/fee.worker.ts` |
| risk calculation | – | no module instantiates it | `domain/services/risk` |

How they interact: the API runs create, cancel, send and process directly and puts
openings and automatic processing into queues; the processing application takes
them from there and runs the cron. So calls on one transaction id overlap, in one
process between two `await`s and across the two processes. What they share is the
database (isolated by snapshots and 40001), the Redis counters (not isolated) and,
within a process, the connection pool.

What is hard in it, and what must be right in each part:

* **Entities are read outside the transaction that uses them.** Status checks look
  at copies that are several awaits old. Settling once, the life cycle and the hold
  behind a payment depend on them.
* **A hold is committed on its own**, before the row it is for.
* **An amount may be below zero.** `AmountPayloadDto` asks for a number (lines 10–12),
  no service looks at the sign and the columns have no CHECK. Such a payment lowers the
  hold of its payer, and `debitForAmount`, the one UPDATE without a condition, takes
  from its payee.
* **The fee is not part of the hold.** That holds stay covered depends on a check in
  a snapshot and on 40001.
* **consolidateFee reads, then updates.** Fees must be neither lost nor taken twice.
* **Retry counters** are read and written in two steps, shared, count calls rather
  than retries, are never reset, and expire.
* **The pool**: createTransaction needs two clients, a timer releases clients whatever
  their call is doing, and a statement whose client is gone falls back to the pool.
* **The pipeline**: the way from an accepted payment to its processing leads over an
  in-memory timer, a queue that may deliver a job twice, and a processor that reports
  every job as completed. Nothing must be stranded but where the code cannot help it.

The complete list, each at its line, is `hazards` in `PROJECT.json`.

## 2. Modules

| module | models |
|---|---|
| `SubAccounts` | the UPDATEs, their conditions, `currentBalance`, the fee: pure operators |
| `Books` | the abstract specification: `Reserve`, `Free`, `Settle`, `Sweep`, `Fund`, each one atomic move decided on current amounts |
| `LedgerServices` | both services over PostgreSQL and Redis, concurrent calls, failures |
| `LifeCycle` | the second abstract specification: rows of payments and the calls on them, without the money |
| `Pipeline` | both applications around the services: handlers, timer, queues, processors, stops and starts; composed with `LifeCycle` |
| `ConnectionPool` | `PostgresqlProvider`, the pool and the server sessions of one application |
| `MCBooks`, `MCLedgerServices`, `MCConnectionPool`, `MCPipeline` | instances for TLC |
| `SubAccountsProofs`, `BooksProofs`, `LifeCycleProofs`, `LedgerServicesProofs`, `LedgerLifeProofs`, `PipelineProofs`, `ConnectionPoolProofs` | theorems and proofs |
| `LibraryFacts` | lemmas on sequences without repetition and on finite sums, which the proofs share |

`Books` and `LedgerServices` use the operators of `SubAccounts`; `LedgerServices`
instantiates `Books` for the refinement `ImplementsBooks` and `LifeCycle` for
`ImplementsLifeCycle`. `Pipeline` uses `LifeCycle` in the place of the services, so
what it shows of statuses and settlements rests on that refinement.

### LedgerServices and the code

| variable | in the code |
|---|---|
| `accounts`, `balance`, `hold` | tables `accounts`, `sub_accounts` |
| `status`, `payment` | rows of `transactions` that clients create; only `status` is ever updated (`save`, ON CONFLICT) |
| `feeRows`, `sweptRows` | the summed amounts of fee and consolidation rows, which nothing reads back |
| `retry` | the counters in Redis, 1 when the key is absent |
| `pc`, `call` | where each call is and its local variables: the entity it read, the counter it read, the balances consolidateFee read |
| `stale` | per open transaction, the rows others changed since its snapshot |
| `settled` | history: how often a payment was settled |

A step is what a call does between two `await`s that another call can tell apart.
Statements inside an open transaction show nothing before COMMIT, so a begin step
takes the snapshot and makes the decisions, and a commit step applies every effect,
or throws. The exceptions are steps of their own because they autocommit:
`GetTransactionById` (lines 67, 279, 317, 344), `CreateHold` (line 259, no
transaction id), `SendSave`, `FailSave`, and the two Redis calls.

| code | actions |
|---|---|
| `getTransactionById`; `checkConsistentOperationRetryCount` | `GetTransactionById`; `GetRetryCounter`, `SetRetryCounter`, `RetryAmountExceeded`, `RedisRejects` |
| `createTransaction` | `StartCreate`, `CreateBegin`, `CreateHold`, `CreateCommit` |
| `processTransaction` | `StartById`, `ProcessBegin`, `ProcessCommit`; `failTransaction` is entered from `RetryCheckThrows`, whether the counter is spent or Redis rejects |
| `cancelTransaction`, `sendTransaction`, `failTransaction` | `CancelBegin`, `CancelCommit`, `SendSave`, `FailSave` |
| `consolidateFee` | `StartConsolidate`, `ConsolidateBegin`, `ConsolidateCommit` |
| `createAccount` | `StartOpen`, `OpenBegin`, `OpenCommit` |
| `transactionErrorHandler`, `accountErrorHandler` | `Throw`, `SerializationFailure` with `Retried` |
| a dead process or connection, 40P01; a Redis time to live | `Abandon`; `RetryExpires` |

PostgreSQL is external. Of SERIALIZABLE the model uses: reads come from the
snapshot taken at the first statement; an update of a row that another session
changed after it fails with 40001 (`NoConflict`). A failure for any other
dependency cycle is `SerializationFailure`, possible whenever another transaction
is or was concurrent. It is never forced, so nothing is proved with the help of
cycle detection. `ROLLBACK` restores everything but the autocommitted hold.

Amounts are integers, here and in `Books`, as the API takes them. What an amount below
zero does to a balance or a hold is modelled like any other amount; the properties that
say "not negative" and "covered" except the sub-accounts it reaches (`Reached` in
`Books`): those of its payer and its payee, those of transit and of the balance account
in its currency, as its fee is below zero too, and, when an opening may be below zero,
those of the accounts opened in that currency. In all others they say what they say
whatever amounts are submitted elsewhere. `HoldBacked` excepts only the sub-accounts
from which such an amount is paid (`NegativeFrom`).

`Failures` names what an instance lets go wrong besides 40001: `abandon` (a process or
a connection dies, a deadlock victim), `expiry` (a counter), `redis` (Redis rejects get
or set; the catch on line 71 takes that for a spent counter).

`Exclusive` says whether callers may overlap calls on one id. With `FALSE`
everything may overlap; with `TRUE` a call on an id waits for the previous one, as
a careful client and an undisturbed queue would have it. Properties that the code
keeps only for such callers begin with `Exclusive =>`.

### LifeCycle and the code

`status` is the row, `visit` the call each caller has in progress: its operation, its
id and the copy of the status that `getTransactionById` gave it. `Succeed` saves the
operation's status over whatever the row has by then, if the *copy* is one the
operation accepts (`Needs`); `Drop` ends calls without an effect (every thrown error,
and processes that die); `Restart` is a new attempt after 40001, `GiveUp` the spent
counter of processTransaction, which hands over to failTransaction. When a call is
retried, gives up or fails is left open. The mapping `visits` from `LedgerServices`
drops everything of a call but those three fields.

### Pipeline and the code

| variable | in the code |
|---|---|
| `status`, `visit`, `settled` | those of `LifeCycle`; a caller is the create of a payment, the callback of its timer, a client's call by hand, or the job of the transaction processor |
| `up` | the applications that run |
| `timer` | where `makeTransaction` and its callback are: `made`, `armed` (setTimeout), `sending`, `adding` (before queue.add) |
| `waiting`, `active`, `paused`, `stalls` | Bull's lists in Redis, its pause flag and its counter of stalls per job |
| `hand`, `phase` | the job each processor is at, and whether its handler has returned |
| `opened`, `asked`, `trail` | history: accounts opened per request, requests answered 201, and per payment or request what clients did by hand and how it was left behind |

| code | actions |
|---|---|
| `makeTransaction` and its timer | `MakeTransaction`, `Made`, `NotMade`, `Arm`, `Fire`, `Sent`, `NotSent`, `AddJob` |
| the same, when COMMIT is done and its answer is lost | `MadeUnseen`, `SentUnseen` |
| `cancelTransaction`, `sendTransaction`, `processTransaction` of the controller | `ByHand`, `ByHandDone`, `ByHandRefused` |
| `openAccount` | `OpenAccount` |
| both processors | `Take`, `Processed`, `NotProcessed`, `Opened`, `NotOpened`, `Complete` |
| `pause…Processing`, `resume…Processing` | `Pause`, `Resume` |
| inside a call, in either application | `Lookup` |
| Bull's lock and stalled-job checker (external) | `Orphaned`, `LockLost` |
| a kill, a deployment, an unhandled rejection; bootstrap | `ApiStops`, `ProcessingStops`; `ApiStarts`, `ProcessingStarts` |

A stop loses timers, calls and the processor's hold on a job; rows, lists and the
pause flag stay. A call whose COMMIT is done and whose process then dies is `Succeed`
followed by the stop. When the process lives and only the answer to COMMIT is lost, the
client of `makeTransaction` is given an error for a payment that is stored and has no
timer (`MadeUnseen`), and the callback of the timer adds no job for a payment that is
pending (`SentUnseen`). Elsewhere a lost answer makes no difference here: a processor
completes its job either way. createAccount is one step: it either commits or does not, and
nothing here sees inside it. Bull's defaults apply, as the modules register the queues
without settings: one job at a time, no retry of failed jobs, a job that stalls goes
back once (`MaxStalledCount`) and is failed the second time.

`trail` records the ways in which the code leaves something behind: `timerLost` (the
API stopped with the timer or its callback under way), `unsent` (the timer's send
ended with an error other than the wrong status), `unanswered` (the answer to the COMMIT
of the create or of that send was lost), `refused` (processing or opening
ended so and the job was completed all the same), `stalledTwice`, and a manual `send`
(see Findings). The properties say that there are no other ways.

### ConnectionPool and the code

`allocated` is `allocatedConnections`, `lent` the client that `pool.query` borrows
for one statement, `session` and `pending` what the server session of a client has
open. A call is of one of four kinds, by the statements it runs:

| kind | operations | statements |
|---|---|---|
| `create` | createTransaction | allocate, BEGIN, save, hold (untagged), COMMIT, release |
| `fresh` | createAccount, consolidateFee | allocate, BEGIN, save, COMMIT, release |
| `byId` | processTransaction, cancelTransaction | lookup (untagged), then as `fresh` |
| `status` | sendTransaction, failTransaction | lookup and save, both untagged, no transaction |

The writes of a transaction that need no client of their own are one `save`. `Connection` is `getConnection` with its fallback to the pool.
The pool hands out the client that came back last to the request that came first,
without a time limit (pg's defaults; the provider passes none). The constructor's
`connect()` (line 26) keeps one client for good, as in `Init`.

The release timer (lines 42–44) runs out when every client is in the hands of a call
that waits for one. With `SlowCalls`, whose statements may wait for a row lock, it also
runs out at any other point of a call that has a client allocated, on any call and as
often as there is one. `lapsed` is history: some timer has done so.

## 3. Runs

| run | question | bounds |
|---|---|---|
| `Books` | Do the abstract moves keep holds covered, and all the money? | 2 clients and an account to open, the 2 special accounts, 2 currencies; amounts of 50, and in one currency a payment of -50; `CONSTRAINT`: 200 below zero |
| `LedgerOverlap` | Are funds safe when any two calls overlap, on one id too? Are the calls those of `LifeCycle`? | 2 calls, 2 payments of one payer, counter limit 2 |
| `LedgerOpenings` | Do openings race safely with each other and with payments of the account that funds them, with crashes, rejecting Redis and expiring counters, and what do amounts below zero reach? | 2 accounts to open, amounts 100 and -50, funds for one opening of 100; 4 kinds of payment, one of them of -50, one at a time; `CONSTRAINT`: no hold below -50 |
| `LedgerCareful` | What do careful callers get? | 2 payments, limit 3 (one repetition or retry of each operation) |
| `LedgerReturns` | Do retries end (`FairSpec`)? Are fees neither lost nor swept twice? | 2 calls of create, send, process and consolidate, 1 payment, crashes, rejecting Redis; 2 currencies, in the one that is paid in the fee of a second payment is missing |
| `PoolCalls` | Is the pool's bookkeeping right, and does every call end? (`FairSpec`) | 2 calls of any of the four kinds, 3 clients, 2 of them usable; timers run out at any point |
| `Pipeline` | Does every accepted payment and request reach its end, and is nothing done twice? (`FairSpec`) | 1 payment, 1 request, 2 calls by hand (`MaxClientCalls`), 2 troubles (`MaxTroubles`: a stop, a lost answer, a lost lock or a pause each) |
| `ProcessTwice`, `SendOverCancel`, `FailSettled`, `ManualSend`, `PoolExhausted` | Does the code keep what it says? It does not: see Findings | the smallest instance that shows it |

Why the bounds are enough for what they are for: every hazard listed is a race of
two calls with at most two payments of one payer, and two payments are the least
with which one can eat the hold of the other. The funds are chosen at the boundary:
two payments of 50 with fees of 1 need 102, so in one currency both can be settled
exactly and in the other (101) the second lacks its fee. `LedgerOverlap` has 100: two
creates that both saw it free put all of it on hold, the fee of the first then comes
out of the hold of the second, and only 40001 stops that (its mutant for `HoldCovered`
takes 40001 away). `MaxRetryCount` 2 or 3
stands for 5: 2 lets each operation be tried once per counter, and twice by two
calls that race for the counter; 3 adds a retry. `MaxRetryCount` 5 is used where
the counter itself is the point. An absent counter reads as 1, so a limit of *n*
allows *n − 1* attempts, in the code too.

In `Pipeline` jobs of different payments never touch each other's rows and a queue is
served in order, so one payment and one request meet every race of the timer, the
calls by hand, the job and the stops. Two troubles are the least with which a job is
lost (it must stall twice) or a stop follows a lost lock. The order of several jobs is
not exercised by it.

Every state space is exhausted, in `Books` and `LedgerOpenings` up to the state
constraint of the table: amounts below zero can lower a hold again and again (each failed
create leaves its hold), or take from a payee, without an end. `LedgerOpenings` has two
such steps on one hold in it, `Books` several on every sub-account reached. Deadlock is checked everywhere but in `Pipeline`, which
comes to rest when the payment and the request are done and the bounds are used up. Worker and
transaction-id symmetry is used in the safety runs only; no property distinguishes
them. Every property of a passing run has a mutant, a plausible bug in one mapped
definition with which the run finds that property violated (`mutants` in
`PROJECT.json`; the operators are marked `Mutant` in the modules).

**Fairness.** `LedgerServices!FairSpec` has weak fairness on the steps of a call in
progress: the event loop runs, the database answers or reports an error, and the
retry delay is a timer that fires. Nothing is assumed about new calls, crashes or
about 40001 staying away: `CallsReturn` holds because the counter ends the retries.
It leaves out createTransaction, whose retries nothing bounds (the retry has a new
uuid and so a new counter), and counters that expire while calls retry. `ConnectionPool!FairSpec` adds that the pool
serves its queue and that release timers run out. `Pipeline!FairSpec` has weak fairness on the
timer's steps, on the ends of calls of the timer and the processors (which
`CallsReturn` justifies), and on what Bull does by itself: taking, completing and
finding stalled jobs. Nobody has to start an application or resume a queue; `Settles`
has the premise that from some time on both run and no queue is paused.

### Properties

* `HoldCovered`, `NonNegative` (`Covered`, `NeverNegative` in `Books`): no account but the
  balance account holds more than it has, and nothing is negative, in every interleaving
  and in every sub-account that no amount below zero reaches. createAccount takes from the
  balance account regardless of its hold, hence the exception.
* `SnapshotsHold`: what process and consolidateFee decided on still holds, or their
  COMMIT is bound to fail. The reason behind the first two.
* `ImplementsBooks`: each step is one move of `Books` or moves no money.
* `Conservation` (`Conserved` in `Books`), `FeesReconcile`: the sum of the balances of a
  currency stays what it was at first; transit holds the fees charged less those swept.
* `SettlesWithHold`: money moves with the row turning to done and the hold dropping.
* `HoldBacked`, `SettledOnce`, `FollowsLifecycle`: for careful callers only, and the
  first only where nobody pays an amount below zero. The run has no such amounts; the theorem has.
* `ImplementsLifeCycle`: a status is written only by the operation that may write it,
  on the word of the copy that its own call has read, whatever ran in between.
* `CallsReturn`; `TypeOK`, which bounds the counters.
* `PendingIsCarried`, `AskedIsKept`: a pending payment has a job or is under way, and an
  accepted request is opened or has a job, or `trail` says how it was left behind.
* `AutomaticOnce`: without manual send or process a payment is settled at most once,
  although its job may be delivered twice. There is one processor, so the second delivery
  starts after the first is over; two processTransaction calls on one id that overlap are
  in `LedgerServices` only (`ProcessedOnce`, `SettlesWithHold`). `OpenedPerDelivery` is
  the same for accounts, where a second delivery does open a second account.
* `AutomaticPath`: without calls by hand a row goes initiated, pending, done or failed.
  The exception it states is what the code does: the second delivery of a job whose
  first run committed may find the counter spent and save failed over done.
* `Settles`: liveness of both ways.
* `ClientsKept`, `OwnTransactions`, `Answered`, `CallsEnd` for the pool. The middle
  two hold until the timer has cut a transaction short, and not after.

### Findings

1. `ProcessTwice`: two overlapping process calls settle one payment twice, the second
   time out of the hold of another payment (`transaction.service.ts:67`, `:87`).
2. `SendOverCancel`: send turns a cancelled transaction to pending, and the reverse
   (`:317`, `:331`).
3. `FailSettled`: repeated process calls on a done transaction end in failed
   (`:72`, `:353`).
4. `ManualSend`: "Manual send transaction for processing" makes a payment pending and puts
   no job in the queue; the timer's own send is then refused and adds none
   (`transaction.controller.ts:46`, `:74`, `:81`).
5. `PoolExhausted`: when creates take every client, the timer makes statements run in
   foreign transactions and a create is answered with success that is not stored
   (`postgres.provider.ts:26`, `:42`, `:56`).

## 4. Proofs

`tlapm` checks every theorem, for any number of calls, clients, payments, requests,
accounts, currencies and troubles. Each invariant and each action property that a run
checks is stated by one of them. The assumptions are the named ones on constants:

* `BooksAssumption`, `LedgerAssumption`: the two special accounts are distinct and not
  for clients, amounts are integers, initial funds natural numbers, transit starts empty,
  the limit is at least 1. Nothing is assumed of the sign of an amount: the code enforces
  nothing. Accounts and transaction ids are finite sets, as uuids are; only
  the sums need that, and no bound is put on their number.
* `PipelineAssumption`: ids of payments and of requests differ. `PoolAssumption`: there
  is a client, and not infinitely many (the pool has a `max`).

### Money

* `BooksNeverNegative`, `BooksSafe`: `NeverNegative` and `Covered` hold of `Books`. Each
  alone is not inductive: `Settle` takes amount and fee, so the balance stays
  non-negative and covers the hold only because the hold was covered before and is
  lowered by the amount. Both are proved sub-account by sub-account for those that no
  amount below zero reaches: there every amount that a move takes or puts on hold is at
  least 0, and `debitForAmount` only adds. `BooksConserve`, of all sub-accounts and amounts: no move changes the sum of a currency
  (`TotalChanges`: what a move that changes two rows does to it).
* `SnapshotSound`: `Spec => []SnapshotsHold`, from an invariant that adds to the
  types that a decision is either still true of the current rows or the row is in
  `stale` of the call; each action either leaves the row alone or publishes it.
* `Refinement`: `Spec => ImplementsBooks`. Each commit step is a step of `Books`
  under that invariant: with `NoConflict` the row is not stale, so the amounts read
  in the snapshot are the current ones. All other steps stutter.
* `Solvent`, `ServicesNonNegative`, `ServicesConserve`: `HoldCovered`, `NonNegative` and
  `Conservation` of the services, from `Refinement` and the theorems on `Books`
  instantiated.
* `FeesKept`: `Spec => []FeesReconcile`, for any number of currencies (the run has two).
* `ServicesSettleWithHold`: `Spec => SettlesWithHold`. ProcessCommit lowers the hold that
  its *copy* of the row names, so the invariant (`RowInv`) says that the copy is the row:
  a create has its new id for itself until its row is there, no other step writes
  anything but the status, and a look-up copies what it finds.
* `ServicesBackHolds`: `Spec => []HoldBacked`, for careful callers. Between CreateHold
  and CreateCommit the hold of a payment is there and its row is not, and a create that
  fails in between leaves a hold that belongs to nobody, so the hold is no function of
  the rows. The invariant (`HoldInv`) therefore says, of each sub-account from which
  nobody pays an amount below zero, that *some* division of the hold
  among the ids exists (`Shares`) in which each open payment, and each create between
  the two steps, has its amount; what is over belongs to nobody. ProcessCommit and
  CancelCommit give back the share of their own payment, which takes `CarefulRows`: the
  copy they decided on is what the row says, and nobody else is on the id.
* `FeeBounds`, `FeeMonotone`: the rounded fee is between 0 and the amount, which may be
  below zero and its fee with it, and never falls when the amount grows.

Sums are `SumFunctionOnSet` of the community modules. Its facts (`SumChosen`, `SumRemove`,
`SumChange`, `SumMonotone` in `LibraryFacts`) need induction over a finite set, which
`SubsetInduction` gets from a least counterexample in the well-founded order of strict
inclusion; with a set in the place of the predicate no theorem with an operator parameter is
needed. `SumExists` builds the recursive function that the definition chooses.

### The life cycle

* `Typed`: `Spec => []TypeOK` for the services. Besides types it needs facts on where a call can be
  (`CallOK`: a call inside a begin, hold or commit step belongs to an operation that
  has that step, and a call on a known id has one).
* `CarefulSettlesOnce`, `CarefulFollows` (`LifeCycleProofs`): the abstract life cycle
  satisfies `SettledOnce` and `FollowsLifecycle`. The strengthening says that under
  `Exclusive` a copy, once read, is the row's status, since nobody else can have a
  call on it, that two calls are never on one id, and that `settled` counts what the
  status says.
* `LifeRefinement` (`LedgerLifeProofs`): `Spec => ImplementsLifeCycle`. It needs that a
  call past its look-up has a copy that is not `absent`, and in its commit step one
  that the begin step accepted. No other fact about the order of calls is used.
* `ServicesSettleOnce`, `ServicesFollowLifecycle`: `Spec => []SettledOnce` and
  `Spec => FollowsLifecycle` for the services, from the refinement and the two
  theorems on `LifeCycle` instantiated.

### The pipeline

`PipelineTypes`, `PendingPaymentsCarried`, `RequestsKept`, `OpeningsBounded`,
`SettledOnce` and `PaymentsOnTheirWay` state `TypeOK`, `PendingIsCarried`, `AskedIsKept`,
`OpenedPerDelivery`, `AutomaticOnce` and `AutomaticPath`, from one invariant
(`PipelineInv`), whose parts need each other:

* `QueueInv`: what waits or is active was stalled at most once, and a job that a processor is at
  while it waits again was. With it a job has at most one second delivery.
* `CallInv`: whose call is on which id. A call of the timer or of the processor is on
  its own payment; of a client it is only known that the row exists.
* `OrderOf`: a payment leaves its timer before it is in the queue and never returns, so
  no second job is ever added (the queue stays without repetition).
* `CarriedOf`: sharper than the property. A pending payment is about to be added or is in the
  lists of the queue; and while its processor is at it, its call cannot end with the
  wrong status without being recorded as `refused`.
* `OnceOf`: after the settlement not only is the row no longer pending, the processor
  does not *believe* it is either; otherwise a second delivery that had read before
  the first one's COMMIT would settle again.
* `PathOf`: the same for every label of the timer and the job on payments without calls
  by hand, where `stalls` tells a second delivery from the first.
* `RequestOf`: openings done, waiting and running together are at most one more than the stalls.

### The pool

`NoClientLost`, `TransactionsApart` and `AnswersTrue` state `ClientsKept`,
`OwnTransactions` and `Answered`, from `PoolInv`: each client but the one kept by the
constructor is in one place, with one call, in one role (`Apart`, `OneKept`); a call
waits for or has a client only at a statement that needs it (`CallOf`); and, until a
timer has cut a transaction short, the session of a client belongs to the call that has it
allocated, has exactly the writes that call has done, and only a call past COMMIT has
them durable (`Sound`). `ClientsKept` does not need the last part and so
holds with timers that run out at any time.

### Only model-checked

`CallsReturn`, `CallsEnd` and `Settles`, which are liveness under fairness. The inductive
invariants `PipelineInv`, `PoolInv` and `HoldInv` were checked with TLC on the bounds of
the runs before they were proved, `HoldInv` with divisions into shares of 0 and of the
one amount there.

## 5. Not modelled

* Amounts are integers of either sign. The DTO's scaling in floating point, with the
  fractions it may leave, is outside the models; so is int8 overflow, far from the
  funds the migrations create.
* Reads that only build a result (`getAccountById` after an update), rates, metrics,
  logging, swagger, the unwired risk calculation and the unused `save` of accounts
  and sub-accounts.
* A transaction that outlives the release timer is in `ConnectionPool` only;
  `LedgerServices` takes it that statements with a transaction id run in it.
* `Pipeline` has one payment and one request in its run, no schedule of the cron (its
  calls are in `LedgerServices`), and no `BaseProcessor`, whose listeners only log.
  Redis does not lose its lists: a Redis that restarts empty would lose every job.
* That a retried createTransaction is never given up is in the model
  (`SerializationFailure` resets its counter) and not stated as a property, as no text
  of the repository says otherwise.

## 6. Plan

Done: all modules of section 2, both refinements, and a theorem for every invariant and
action property of the runs. Left:

1. The safety half of `CallsReturn`: a measure of a call (attempts left by its counter, then
   the steps left in the attempt) that each of its steps lowers and no other call
   raises while counters do not expire.
2. Shorter proofs where a step of `PipelineProofs` and of `LedgerLifeProofs` repeats a case
   analysis that a lemma could state once.
