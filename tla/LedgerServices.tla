--------------------------- MODULE LedgerServices ---------------------------
(***************************************************************************)
(* TransactionService and AccountService over PostgreSQL and Redis.        *)
(*                                                                         *)
(* A worker is one call in progress, in either application (an HTTP        *)
(* handler, a queue job, the fee cron).  A step is what a call does between *)
(* two awaits that another call can tell apart: an autocommitted query, a  *)
(* Redis get or set, the snapshot of a SERIALIZABLE transaction, its       *)
(* COMMIT.  Statements inside an open transaction show nothing to the      *)
(* others before COMMIT, so their effects are applied there.               *)
(*                                                                         *)
(* Of SERIALIZABLE the model keeps the two parts the code relies on: reads  *)
(* come from the snapshot, and updating a row that another session changed *)
(* after the snapshot fails with 40001.  A dependency cycle found by       *)
(* PostgreSQL is SerializationFailure with any concurrent call.            *)
(*                                                                         *)
(* A definition whose comment begins "Mutant" is a bug the definition      *)
(* after it could have had; nothing uses it but the mutation runs.         *)
(***************************************************************************)
EXTENDS SubAccounts, FiniteSets, Functions

CONSTANTS
  Worker,          \* calls that can be in progress together
  TrxId,           \* uuids of client transactions
  Regular,         \* uuids of accounts of type regular
  BalanceAccount,  \* the account of type balance the migrations create
  TransitAccount,  \* the account of type transit the migrations create
  Currency,        \* CURRENCIES
  Payments,        \* ITransactionPayload values clients submit
  Openings,        \* IAmountPayload values clients submit
  InitialFunds,    \* balances once the migrations and the first openings ran
  OpenedAccounts,  \* regular accounts open at that point
  ApiOps,          \* operations that are called in the deployment
  Exclusive,       \* callers never overlap two calls on one transaction id
  Failures,        \* what can go wrong besides 40001: "abandon", "expiry", "redis"
  MaxRetryCount,   \* CONSISTENT_OPERATION_MAX_RETRY_COUNT, 5 in the code
  NoId             \* stands for an undefined id

Account == Regular \cup {BalanceAccount, TransitAccount}
SubKey == Account \X Currency
PaymentRow == [debit: Account, credit: Account, amount: Int, currency: Currency]

ById == {"process", "cancel", "send"}
Status == {"initiated", "cancelled", "pending", "failed", "done"}
RowStatus == Status \cup {"absent"}
RetryKey == ((ById \cup {"fail"}) \X TrxId)
            \cup ({"create", "consolidate", "open"} \X Worker)

\* Ids are uuids, of which there are finitely many.
ASSUME LedgerAssumption ==
  /\ IsFiniteSet(Regular) /\ IsFiniteSet(TrxId)
  /\ BalanceAccount # TransitAccount
  /\ {BalanceAccount, TransitAccount} \cap Regular = {}
  /\ NoId \notin TrxId
  /\ Currency # {}
  /\ Payments \subseteq PaymentRow
  /\ Openings \subseteq [amount: Int, currency: Currency]
  /\ InitialFunds \in [SubKey -> Nat]
  /\ \A c \in Currency : InitialFunds[<<TransitAccount, c>>] = 0
  /\ OpenedAccounts \subseteq Regular
  /\ ApiOps \subseteq ById \cup {"create", "consolidate", "open"}
  /\ Exclusive \in BOOLEAN
  /\ Failures \subseteq {"abandon", "expiry", "redis"}
  /\ MaxRetryCount \in Nat \ {0}

VARIABLES
  accounts,   \* ids in "public"."accounts"
  balance,    \* sub_accounts.balance
  hold,       \* sub_accounts.hold
  status,     \* transactions.status of client payments, "absent" for no row
  payment,    \* their immutable columns
  feeRows,    \* per currency, the summed amounts of rows of type fee
  sweptRows,  \* per currency, the summed amounts of consolidation rows
  retry,      \* retry counters in Redis; an absent key reads as 1
  pc,         \* where each call is
  call,       \* its local variables
  stale,      \* rows other sessions changed since the call's snapshot
  settled     \* history: commits of processTransaction per id, 2 for "several"

tables == <<accounts, balance, hold, status, payment, feeRows, sweptRows>>
vars == <<tables, retry, pc, call, stale, settled>>

NoPayment == [debit |-> BalanceAccount, credit |-> BalanceAccount, amount |-> 0,
              currency |-> CHOOSE c \in Currency : TRUE]
NothingSeen == [c \in Currency |-> 0]
NoCall == [op |-> "none", id |-> NoId, status |-> "absent",
           payment |-> NoPayment, count |-> 1, seen |-> NothingSeen]

Init ==
  /\ accounts = OpenedAccounts \cup {BalanceAccount, TransitAccount}
  /\ balance = InitialFunds
  /\ hold = [k \in SubKey |-> 0]
  /\ status = [i \in TrxId |-> "absent"]
  /\ payment = [i \in TrxId |-> NoPayment]
  /\ feeRows = [c \in Currency |-> 0]
  /\ sweptRows = [c \in Currency |-> 0]
  /\ retry = [k \in RetryKey |-> 1]
  /\ pc = [w \in Worker |-> "idle"]
  /\ call = [w \in Worker |-> NoCall]
  /\ stale = [w \in Worker |-> {}]
  /\ settled = [i \in TrxId |-> 0]

-----------------------------------------------------------------------------
(* Sessions and transactions.                                              *)

DebitKey(p) == <<p.debit, p.currency>>
CreditKey(p) == <<p.credit, p.currency>>
BalanceKey(c) == <<BalanceAccount, c>>
\* Mutant: getBalanceAccount in the place of getTransitAccount.
TransitKeyOfBalance(c) == <<BalanceAccount, c>>
TransitKey(c) == <<TransitAccount, c>>

InTx(w) == pc[w] \in {"hold", "commit"}

\* rows become visible to the transactions of the other calls as newer versions.
Publish(w, rows) ==
  [v \in Worker |-> IF v # w /\ InTx(v) THEN stale[v] \cup rows ELSE stale[v]]

\* Mutant: transactions below the isolation level SERIALIZABLE.
ReadCommitted(w, rows) == TRUE
NoConflict(w, rows) == stale[w] \cap rows = {}

At(w, o, label) == call[w].op = o /\ pc[w] = label
Goto(w, label) == pc' = [pc EXCEPT ![w] = label]

\* The call returns or throws to its caller; an open transaction is closed.
Return(w) ==
  /\ Goto(w, "idle")
  /\ call' = [call EXCEPT ![w] = NoCall]

ReturnAndPublish(w, rows) ==
  /\ Return(w)
  /\ stale' = [Publish(w, rows) EXCEPT ![w] = {}]

\* An error that is not retried: ROLLBACK, release, throw.
Throw(w) == ReturnAndPublish(w, {}) /\ UNCHANGED <<tables, retry, settled>>

OpenSnapshot(w, label) ==
  /\ Goto(w, label)
  /\ stale' = [stale EXCEPT ![w] = {}]
  /\ UNCHANGED <<tables, retry, settled>>

-----------------------------------------------------------------------------
(* Calls arrive, look their transaction up and draw on the retry budget.   *)

UnusedIds == {i \in TrxId : status[i] = "absent" /\ \A v \in Worker : call[v].id # i}

\* The key of a call without a client-visible id holds a fresh uuid.
KeyOf(c, w) == IF c.op \in ById \cup {"fail"} THEN <<c.op, c.id>> ELSE <<c.op, w>>

\* A client knows an id from the answer to its create call.
StartById(w) ==
  \E o \in ApiOps \cap ById, i \in TrxId :
    /\ pc[w] = "idle"
    /\ \A v \in Worker : call[v].id = i => ~Exclusive /\ call[v].op # "create"
    /\ call' = [call EXCEPT ![w] = [NoCall EXCEPT !.op = o, !.id = i]]
    /\ Goto(w, "read")
    /\ UNCHANGED <<tables, retry, stale, settled>>

StartFresh(w, c) ==
  /\ c.op \in ApiOps
  /\ pc[w] = "idle"
  /\ call' = [call EXCEPT ![w] = c]
  /\ retry' = [retry EXCEPT ![<<c.op, w>>] = 1]
  /\ Goto(w, "getRetry")
  /\ UNCHANGED <<tables, stale, settled>>

StartCreate(w) ==
  \E p \in Payments, i \in UnusedIds :
    StartFresh(w, [NoCall EXCEPT !.op = "create", !.id = i, !.status = "initiated", !.payment = p])

StartConsolidate(w) == StartFresh(w, [NoCall EXCEPT !.op = "consolidate"])

\* The ids that the database can generate for a new account, never one in use.
GeneratedIds ==
  {a \in Regular \ accounts :
     \A v \in Worker : call[v].op = "open" => call[v].payment.credit # a}

\* The payment is the opening row, whose credit account is the id of the new one.
StartOpen(w) ==
  \E o \in Openings, a \in GeneratedIds :
    StartFresh(w, [NoCall EXCEPT !.op = "open",
      !.payment = [debit |-> BalanceAccount, credit |-> a,
                   amount |-> o.amount, currency |-> o.currency]])

\* getTransactionById: an autocommitted read, outside the later transaction.
GetTransactionById(w) ==
  /\ pc[w] = "read"
  /\ LET i == call[w].id IN
     IF status[i] = "absent"
     THEN Throw(w)
     ELSE /\ call' = [call EXCEPT ![w].status = status[i], ![w].payment = payment[i]]
          /\ Goto(w, "getRetry")
          /\ UNCHANGED <<tables, retry, stale, settled>>

\* Mutant: the counter is read from a key that nobody writes.
GetRetryCounterElsewhere(w) ==
  /\ pc[w] = "getRetry"
  /\ call' = [call EXCEPT ![w].count = 1]
  /\ Goto(w, "setRetry")
  /\ UNCHANGED <<tables, retry, stale, settled>>

GetRetryCounter(w) ==
  /\ pc[w] = "getRetry"
  /\ call' = [call EXCEPT ![w].count = retry[KeyOf(call[w], w)]]
  /\ Goto(w, "setRetry")
  /\ UNCHANGED <<tables, retry, stale, settled>>

\* Mutant: > in place of >= in the comparison with the limit.
SetRetryCounterPastLimit(w) ==
  /\ pc[w] = "setRetry"
  /\ call[w].count <= MaxRetryCount
  /\ retry' = [retry EXCEPT ![KeyOf(call[w], w)] = call[w].count + 1]
  /\ Goto(w, "begin")
  /\ UNCHANGED <<tables, call, stale, settled>>

SetRetryCounter(w) ==
  /\ pc[w] = "setRetry"
  /\ call[w].count < MaxRetryCount
  /\ retry' = [retry EXCEPT ![KeyOf(call[w], w)] = call[w].count + 1]
  /\ Goto(w, "begin")
  /\ UNCHANGED <<tables, call, stale, settled>>

\* checkConsistentOperationRetryCount throws: processTransaction fails the transaction,
\* whatever the error is, the others throw.
RetryCheckThrows(w) ==
  IF call[w].op = "process"
  THEN /\ call' = [call EXCEPT ![w] = [NoCall EXCEPT !.op = "fail", !.id = call[w].id]]
       /\ Goto(w, "read")
       /\ UNCHANGED <<tables, retry, stale, settled>>
  ELSE Throw(w)

\* The budget is spent.
RetryAmountExceeded(w) ==
  /\ pc[w] = "setRetry"
  /\ call[w].count >= MaxRetryCount
  /\ RetryCheckThrows(w)

\* Redis rejects get or set.
RedisRejects(w) ==
  /\ "redis" \in Failures
  /\ pc[w] \in {"getRetry", "setRetry"}
  /\ RetryCheckThrows(w)

-----------------------------------------------------------------------------
(* createTransaction                                                       *)

CanPay(p, amount) ==
  /\ p.debit \in accounts
  /\ currentBalance(balance, hold, DebitKey(p)) >= amount

CreateBegin(w) ==
  /\ At(w, "create", "begin")
  /\ LET p == call[w].payment IN
     IF CanPay(p, p.amount + calculateTransactionFee(p.amount))
     THEN OpenSnapshot(w, "hold") /\ UNCHANGED call
     ELSE Throw(w)

\* save() is invisible until COMMIT; holdAmount runs without the transaction id,
\* so it autocommits on a connection of its own.
CreateHold(w) ==
  /\ At(w, "create", "hold")
  /\ LET p == call[w].payment IN
     IF CanHold(balance, hold, DebitKey(p), p.amount)
     THEN /\ hold' = holdForAmount(hold, DebitKey(p), p.amount)
          /\ stale' = Publish(w, {DebitKey(p)})
          /\ Goto(w, "commit")
          /\ UNCHANGED <<accounts, balance, status, payment, feeRows, sweptRows,
                         retry, call, settled>>
     ELSE Throw(w)

\* The deferred foreign key on credit_account is checked by COMMIT, in the snapshot.
CreateCommit(w) ==
  /\ At(w, "create", "commit")
  /\ LET i == call[w].id
         p == call[w].payment
     IN IF p.credit \in accounts /\ NoConflict(w, {p.credit})
        THEN /\ status' = [status EXCEPT ![i] = "initiated"]
             /\ payment' = [payment EXCEPT ![i] = p]
             /\ ReturnAndPublish(w, {i})
             /\ UNCHANGED <<accounts, balance, hold, feeRows, sweptRows, retry, settled>>
        ELSE Throw(w)

-----------------------------------------------------------------------------
(* processTransaction                                                      *)

\* Mutant: the payer is not asked for the fee.
ProcessBeginWithoutFee(w) ==
  /\ At(w, "process", "begin")
  /\ IF call[w].status = "pending" /\ CanPay(call[w].payment, 0)
     THEN OpenSnapshot(w, "commit") /\ UNCHANGED call
     ELSE Throw(w)

\* Mutant: the status is not looked at.
ProcessBeginAnyStatus(w) ==
  /\ At(w, "process", "begin")
  /\ LET p == call[w].payment IN
     IF CanPay(p, calculateTransactionFee(p.amount))
     THEN OpenSnapshot(w, "commit") /\ UNCHANGED call
     ELSE Throw(w)

ProcessBegin(w) ==
  /\ At(w, "process", "begin")
  /\ LET p == call[w].payment IN
     IF call[w].status = "pending" /\ CanPay(p, calculateTransactionFee(p.amount))
     THEN OpenSnapshot(w, "commit") /\ UNCHANGED call
     ELSE Throw(w)

\* releaseAmount, creditAmount and debitAmount throw when their update finds no row.
\* The payer and the transit account always have one.
RowsFound(p, fee) ==
  /\ CanRelease(hold, DebitKey(p), p.amount)
  /\ CanCredit(balance, DebitKey(p), p.amount + fee)
  /\ p.credit \in accounts

\* save(Done), save(fee row) and the four updates, in the order they are queued
\* on the connection: release, credit payer, debit payee, debit transit.
ProcessCommit(w) ==
  /\ At(w, "process", "commit")
  /\ LET i == call[w].id
         p == call[w].payment
         fee == calculateTransactionFee(p.amount)
         rows == {i, DebitKey(p), CreditKey(p), TransitKey(p.currency)}
         paid == creditForAmount(balance, DebitKey(p), p.amount + fee)
     IN /\ NoConflict(w, rows)
        /\ IF RowsFound(p, fee)
           THEN /\ status' = [status EXCEPT ![i] = "done"]
                /\ feeRows' = [feeRows EXCEPT ![p.currency] = @ + fee]
                /\ hold' = releaseForAmount(hold, DebitKey(p), p.amount)
                /\ balance' = debitForAmount(debitForAmount(paid, CreditKey(p), p.amount),
                                             TransitKey(p.currency), fee)
                /\ settled' = [settled EXCEPT ![i] = IF @ = 0 THEN 1 ELSE 2]
                /\ ReturnAndPublish(w, rows)
                /\ UNCHANGED <<accounts, payment, sweptRows, retry>>
           ELSE Throw(w)

-----------------------------------------------------------------------------
(* cancelTransaction, sendTransaction, failTransaction                     *)

\* Mutant: the status is not looked at.
CancelBeginAnyStatus(w) ==
  At(w, "cancel", "begin") /\ OpenSnapshot(w, "commit") /\ UNCHANGED call

CancelBegin(w) ==
  /\ At(w, "cancel", "begin")
  /\ IF call[w].status = "initiated"
     THEN OpenSnapshot(w, "commit") /\ UNCHANGED call
     ELSE Throw(w)

\* save(Cancelled) overwrites whatever status the row has in the snapshot.
CancelCommit(w) ==
  /\ At(w, "cancel", "commit")
  /\ LET i == call[w].id
         p == call[w].payment
     IN /\ NoConflict(w, {i, DebitKey(p)})
        /\ IF CanRelease(hold, DebitKey(p), p.amount)
           THEN /\ status' = [status EXCEPT ![i] = "cancelled"]
                /\ hold' = releaseForAmount(hold, DebitKey(p), p.amount)
                /\ ReturnAndPublish(w, {i, DebitKey(p)})
                /\ UNCHANGED <<accounts, balance, payment, feeRows, sweptRows, retry, settled>>
           ELSE Throw(w)

SaveStatus(w, s) ==
  /\ status' = [status EXCEPT ![call[w].id] = s]
  /\ ReturnAndPublish(w, {call[w].id})
  /\ UNCHANGED <<accounts, balance, hold, payment, feeRows, sweptRows, retry, settled>>

\* Mutant: the status is not looked at.
SendSaveAnyStatus(w) == At(w, "send", "begin") /\ SaveStatus(w, "pending")

\* One autocommitted save of an entity read three awaits ago.
SendSave(w) ==
  /\ At(w, "send", "begin")
  /\ IF call[w].status = "initiated" THEN SaveStatus(w, "pending") ELSE Throw(w)

\* failTransaction looks at no status and releases no hold.
FailSave(w) == At(w, "fail", "begin") /\ SaveStatus(w, "failed")

-----------------------------------------------------------------------------
(* consolidateFee                                                          *)

ConsolidateBegin(w) ==
  /\ At(w, "consolidate", "begin")
  /\ OpenSnapshot(w, "commit")
  /\ call' = [call EXCEPT ![w].seen =
                [c \in Currency |-> currentBalance(balance, hold, TransitKey(c))]]

ConsolidateCommit(w) ==
  /\ At(w, "consolidate", "commit")
  /\ LET seen == call[w].seen
         moved == {c \in Currency : seen[c] # 0}
         rows == {TransitKey(c) : c \in moved} \cup {BalanceKey(c) : c \in moved}
     IN /\ NoConflict(w, rows)
        /\ IF \A c \in moved : CanCredit(balance, TransitKey(c), seen[c])
           THEN /\ sweptRows' = [c \in Currency |-> sweptRows[c] + seen[c]]
                /\ balance' = [k \in SubKey |->
                                 IF k[1] = TransitAccount THEN balance[k] - seen[k[2]]
                                 ELSE IF k[1] = BalanceAccount THEN balance[k] + seen[k[2]]
                                 ELSE balance[k]]
                /\ ReturnAndPublish(w, rows)
                /\ UNCHANGED <<accounts, hold, status, payment, feeRows, retry, settled>>
           ELSE Throw(w)

-----------------------------------------------------------------------------
(* createAccount                                                           *)

OpenBegin(w) == At(w, "open", "begin") /\ OpenSnapshot(w, "commit") /\ UNCHANGED call

\* Mutant: the condition on the balance account's funds is not reported.
OpenCommitUnfunded(w) ==
  /\ At(w, "open", "commit")
  /\ LET p == call[w].payment IN
     /\ NoConflict(w, {DebitKey(p)})
     /\ accounts' = accounts \cup {p.credit}
     /\ balance' = debitForAmount(balance, CreditKey(p), p.amount)
     /\ ReturnAndPublish(w, {DebitKey(p), CreditKey(p), p.credit})
     /\ UNCHANGED <<hold, status, payment, feeRows, sweptRows, retry, settled>>

OpenCommit(w) ==
  /\ At(w, "open", "commit")
  /\ LET p == call[w].payment IN
     /\ NoConflict(w, {DebitKey(p)})
     /\ IF CanCredit(balance, DebitKey(p), p.amount)
        THEN /\ accounts' = accounts \cup {p.credit}
             /\ balance' = debitForAmount(creditForAmount(balance, DebitKey(p), p.amount),
                                          CreditKey(p), p.amount)
             /\ ReturnAndPublish(w, {DebitKey(p), CreditKey(p), p.credit})
             /\ UNCHANGED <<hold, status, payment, feeRows, sweptRows, retry, settled>>
        ELSE Throw(w)

-----------------------------------------------------------------------------
(* Failures.                                                               *)

\* The handler of a fresh attempt: an operation on a known id reads its entity
\* again, createTransaction builds a new one, the others keep their uuid.
Retried(w, c) ==
  IF c.op \in ById
  THEN [NoCall EXCEPT !.op = c.op, !.id = c.id]
  ELSE [c EXCEPT !.count = 1, !.seen = NothingSeen]

\* 40001: rollback, delay, retryHandler.  It needs a concurrent session.
SerializationFailure(w) ==
  /\ InTx(w)
  /\ stale[w] # {} \/ \E v \in Worker \ {w} : InTx(v)
  /\ call' = [call EXCEPT ![w] = Retried(w, @)]
  /\ Goto(w, IF call[w].op \in ById THEN "read" ELSE "getRetry")
  /\ retry' = IF call[w].op = "create" THEN [retry EXCEPT ![<<"create", w>>] = 1] ELSE retry
  /\ stale' = [stale EXCEPT ![w] = {}]
  /\ UNCHANGED <<tables, settled>>

\* The process dies, the connection is lost, or the call is a deadlock victim
\* (40P01): the transaction is rolled back and nobody goes on with the call.
Abandon(w) == "abandon" \in Failures /\ pc[w] # "idle" /\ Throw(w)

\* A counter's time to live in Redis runs out.
RetryExpires ==
  \E k \in RetryKey :
    /\ "expiry" \in Failures
    /\ k[1] \in ById \cup {"fail"}
    /\ retry[k] > 1
    /\ retry' = [retry EXCEPT ![k] = 1]
    /\ UNCHANGED <<tables, pc, call, stale, settled>>

Start(w) == StartById(w) \/ StartCreate(w) \/ StartConsolidate(w) \/ StartOpen(w)

Step(w) ==
  \/ GetTransactionById(w) \/ GetRetryCounter(w)
  \/ SetRetryCounter(w) \/ RetryAmountExceeded(w) \/ RedisRejects(w)
  \/ CreateBegin(w) \/ CreateHold(w) \/ CreateCommit(w)
  \/ ProcessBegin(w) \/ ProcessCommit(w)
  \/ CancelBegin(w) \/ CancelCommit(w)
  \/ SendSave(w) \/ FailSave(w)
  \/ ConsolidateBegin(w) \/ ConsolidateCommit(w)
  \/ OpenBegin(w) \/ OpenCommit(w)
  \/ SerializationFailure(w)

Next == RetryExpires \/ \E w \in Worker : Start(w) \/ Step(w) \/ Abandon(w)

Spec == Init /\ [][Next]_vars

\* Every await of a call in progress is answered: the event loop runs, the
\* database answers, the retry delay fires.
FairSpec == Spec /\ \A w \in Worker : WF_vars(Step(w))
-----------------------------------------------------------------------------
(* What the services promise.                                              *)

Local == [op: ApiOps \cup {"fail", "none"}, id: TrxId \cup {NoId}, status: RowStatus,
          payment: PaymentRow, count: 1..MaxRetryCount, seen: [Currency -> Int]]
Label == {"idle", "read", "getRetry", "setRetry", "begin", "hold", "commit"}

\* The types of the tables, the counters and the local variables.  The range of
\* retry and count says that no counter passes CONSISTENT_OPERATION_MAX_RETRY_COUNT.
TypeOK ==
  /\ accounts \subseteq Account
  /\ balance \in [SubKey -> Int]
  /\ hold \in [SubKey -> Int]
  /\ status \in [TrxId -> RowStatus]
  /\ payment \in [TrxId -> PaymentRow]
  /\ feeRows \in [Currency -> Int]
  /\ sweptRows \in [Currency -> Int]
  /\ retry \in [RetryKey -> 1..MaxRetryCount]
  /\ pc \in [Worker -> Label]
  /\ call \in [Worker -> Local]
  /\ stale \in [Worker -> SUBSET (SubKey \cup TrxId \cup Account)]
  /\ settled \in [TrxId -> 0..2]

\* The abstract ledger, with the same payments and openings.
Money == INSTANCE Books WITH NewAccount <- Regular \ OpenedAccounts

\* Money is neither created nor destroyed: in each currency the balances of all
\* accounts add up to what the migrations put in, whatever the calls do.
Conservation ==
  \A c \in Currency :
    SumFunctionOnSet(balance, Account \X {c}) = SumFunctionOnSet(InitialFunds, Account \X {c})

\* Amounts below zero are accepted, and debitForAmount has no condition.  Whatever
\* amounts others submit, no interleaving drives a balance or a hold below zero but
\* those that such an amount reaches (Reached in Books): in every other sub-account
\* the conditions of three UPDATEs are enough.
NonNegative ==
  \A k \in SubKey : ~Money!Reached(k) => balance[k] >= 0 /\ hold[k] >= 0

\* None of those accounts holds more than it has.  processTransaction takes amount + fee
\* from an account that held only amount: nothing but the fee check in its
\* snapshot, and the 40001 that a later hold causes, keeps the hold covered.
\* createAccount takes from the balance account without looking at its hold.
HoldCovered ==
  \A k \in SubKey : k[1] # BalanceAccount /\ ~Money!Reached(k) => hold[k] <= balance[k]

\* What a call decided on in its snapshot still holds, or a row it is going to
\* update has changed and its COMMIT cannot succeed: processTransaction's fee
\* check, and the balances consolidateFee is about to move.
SnapshotHolds(w) ==
  LET p == call[w].payment IN
  /\ At(w, "process", "commit") /\ DebitKey(p) \notin stale[w]
       => currentBalance(balance, hold, DebitKey(p)) >= calculateTransactionFee(p.amount)
  /\ At(w, "consolidate", "commit")
       => \A c \in Currency : TransitKey(c) \notin stale[w]
            => call[w].seen[c] = currentBalance(balance, hold, TransitKey(c))

SnapshotsHold == \A w \in Worker : SnapshotHolds(w)

\* The transit account holds the fees charged and not yet consolidated; it is
\* what consolidateFee, which reads before it writes, must neither lose nor take
\* twice.  Clients do not pay to or from the transit account here.
FeesReconcile ==
  (\A p \in Payments : TransitAccount \notin {p.debit, p.credit}) =>
    \A c \in Currency : balance[<<TransitAccount, c>>] = feeRows[c] - sweptRows[c]

\* Payments whose row says that their amount is still held.
Open(k) == {i \in TrxId : status[i] \in {"initiated", "pending"} /\ DebitKey(payment[i]) = k}

\* From these sub-accounts somebody pays an amount below zero: its hold is below zero
\* too, and stays when the create fails.
NegativeFrom(k) == \E p \in Payments : p.amount < 0 /\ DebitKey(p) = k

\* Callers that never overlap calls on one transaction: the hold of any other
\* sub-account backs every open payment it is to pay.
HoldBacked ==
  Exclusive =>
    \A k \in SubKey : ~NegativeFrom(k) =>
      SumFunction([i \in Open(k) |-> payment[i].amount]) <= hold[k]

\* Such callers see a payment settled at most once, and a cancelled one never.
SettledOnce ==
  Exclusive => \A i \in TrxId :
    /\ settled[i] <= 1
    /\ status[i] = "cancelled" => settled[i] = 0
    /\ status[i] = "done" => settled[i] = 1

\* The status changes such callers can see.  failTransaction saves over any.
Lifecycle ==
  {<<"absent", "initiated">>, <<"initiated", "pending">>, <<"initiated", "cancelled">>,
   <<"pending", "done">>} \cup (Status \X {"failed"})

FollowsLifecycle ==
  [][Exclusive => \A i \in TrxId :
       status'[i] # status[i] => <<status[i], status'[i]>> \in Lifecycle]_vars

\* A payment moves money only in the step that turns its row to done, and then
\* the payer's hold drops by the amount, however many calls race on the row.
SettlesWithHold ==
  [][\A i \in TrxId : settled'[i] # settled[i] =>
       /\ status'[i] = "done"
       /\ hold'[DebitKey(payment[i])] = hold[DebitKey(payment[i])] - payment[i].amount]_vars

\* Snapshots, optimistic conflicts and retries come to this: every step leaves the
\* money alone or is one move of Books, decided on the amounts of that moment.
ImplementsBooks == Money!Spec

\* What each call is and knows, seen from the rows of the payments.
visits ==
  [w \in Worker |->
     IF call[w].op \in ById \cup {"create", "fail"}
     THEN [op |-> call[w].op, id |-> call[w].id, copy |-> call[w].status]
     ELSE [op |-> "none", id |-> NoId, copy |-> "absent"]]

\* Between its look-up and its save or COMMIT a call may meet anything, and still
\* every step is a step of LifeCycle: a status is written only by the operation that
\* may write it, on the word of the copy its own call has read.
Life == INSTANCE LifeCycle WITH Caller <- Worker, visit <- visits
ImplementsLifeCycle == Life!Spec

\* 40001 is retried a bounded number of times: an operation that draws on the
\* counter of a known id, or keeps its uuid, returns or throws in the end.
CallsReturn ==
  \A w \in Worker : (pc[w] # "idle" /\ call[w].op # "create") ~> (pc[w] = "idle")

-----------------------------------------------------------------------------
(* What the code says of itself and does not keep (violation runs).        *)

\* "Process transaction failed: transaction has wrong state"
\* (transaction.service.ts:88): only a pending transaction is processed, so the
\* money of one payment moves once.
ProcessedOnce == \A i \in TrxId : settled[i] <= 1

\* "Cancel transaction failed: transaction has wrong state" (:291) and the same of
\* send (:327): a cancelled transaction is not sent, nor a sent one cancelled.
CancelledOrSent ==
  [][\A i \in TrxId : {status[i], status'[i]} # {"cancelled", "pending"}]_vars

\* "Retry amount exceeded, unexpected DB error" (consistent-operation.service.ts:21):
\* a transaction is failed after errors of the database.  A payment that was
\* settled is not one of them.
FailsUnsettledOnly ==
  [][\A i \in TrxId : status[i] # "failed" /\ status'[i] = "failed" => settled[i] = 0]_vars
=============================================================================
