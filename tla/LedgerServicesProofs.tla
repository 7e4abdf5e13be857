------------------------ MODULE LedgerServicesProofs ------------------------
(***************************************************************************)
(* Proofs about LedgerServices for any number of calls, accounts, payments *)
(* and currencies.                                                         *)
(***************************************************************************)
EXTENDS LedgerServices, SubAccountsProofs, LibraryFacts

-----------------------------------------------------------------------------
(* Types, and what the local variables of a call hold at each label.       *)

OpeningOf(p) == [amount |-> p.amount, currency |-> p.currency]

\* What the code has assigned to the variables c of a call that is at label, and
\* the row its look-up found: rows of st are never deleted.
CallOK(c, label, st) ==
  /\ label # "idle" => c.op # "none"
  /\ label = "read" => c.op \in ById \cup {"fail"}
  /\ c.op \in ById \cup {"create", "fail"} => c.id \in TrxId
  /\ c.op = "create" => c.payment \in Payments
  /\ c.op \in ById /\ label # "read" => c.payment \in Payments
  /\ c.op \in ById \cup {"fail"} /\ label # "read" => st[c.id] # "absent"
  /\ c.op = "open" => /\ c.payment.debit = BalanceAccount
                      /\ c.payment.credit \in Regular \ OpenedAccounts
                      /\ OpeningOf(c.payment) \in Openings

TypeInv ==
  /\ TypeOK
  /\ OpenedAccounts \subseteq accounts
  /\ \A w \in Worker : CallOK(call[w], pc[w], status)
  /\ \A i \in TrxId : status[i] # "absent" => payment[i] \in Payments

\* A default is only read once it was replaced, but it has the right type.
LEMMA NoCallTyped == NoCall \in Local /\ \A l \in Label : l = "idle" => \A st : CallOK(NoCall, l, st)
BY LedgerAssumption DEF NoCall, NoPayment, NothingSeen, Local, PaymentRow, Account, RowStatus,
   CallOK, ById

LEMMA InitTypeInv == Init => TypeInv
<1> SUFFICES ASSUME Init PROVE TypeInv
  OBVIOUS
<1>1. NoPayment \in PaymentRow
  BY LedgerAssumption DEF NoPayment, PaymentRow, Account
<1>2. TypeOK
  BY <1>1, NoCallTyped, LedgerAssumption DEF Init, TypeOK, Account, RowStatus, Label
<1> QED
  BY <1>2, NoCallTyped DEF Init, TypeInv, Label

\* A step that gives one call new variables and a new label.
LEMMA CallMoves ==
  ASSUME TypeInv, NEW w \in Worker, NEW c \in Local, NEW l \in Label, CallOK(c, l, status),
         call' = [call EXCEPT ![w] = c], pc' = [pc EXCEPT ![w] = l],
         \A i \in TrxId : status[i] # "absent" => status'[i] # "absent"
  PROVE  /\ call' \in [Worker -> Local]
         /\ pc' \in [Worker -> Label]
         /\ \A v \in Worker : CallOK(call'[v], pc'[v], status')
<1>1. call' \in [Worker -> Local] /\ pc' \in [Worker -> Label]
  BY DEF TypeInv, TypeOK
<1>2. ASSUME NEW v \in Worker
      PROVE  CallOK(call'[v], pc'[v], status')
  <2>1. CallOK(call'[v], pc'[v], status)
    BY DEF TypeInv, TypeOK
  <2> QED
    BY <2>1 DEF CallOK, ById
<1> QED
  BY <1>1, <1>2

LEMMA CallReturns ==
  ASSUME TypeInv, NEW w \in Worker, Return(w),
         \A i \in TrxId : status[i] # "absent" => status'[i] # "absent"
  PROVE  /\ call' \in [Worker -> Local]
         /\ pc' \in [Worker -> Label]
         /\ \A v \in Worker : CallOK(call'[v], pc'[v], status')
BY NoCallTyped, CallMoves DEF Return, Goto, Label

LEMMA PublishTyped ==
  ASSUME TypeInv, NEW w \in Worker, NEW rows \in SUBSET (SubKey \cup TrxId \cup Account),
         stale' = Publish(w, rows) \/ stale' = [Publish(w, rows) EXCEPT ![w] = {}]
  PROVE  stale' \in [Worker -> SUBSET (SubKey \cup TrxId \cup Account)]
<1> DEFINE Rows == SubKey \cup TrxId \cup Account
<1>1. stale \in [Worker -> SUBSET Rows]
  BY DEF TypeInv, TypeOK
<1> HIDE DEF Rows
<1>2. Publish(w, rows) \in [Worker -> SUBSET Rows]
  BY <1>1 DEF Publish, Rows
<1> QED
  BY <1>2 DEF Rows

LEMMA ThrowTyped ==
  ASSUME TypeInv, NEW w \in Worker, Throw(w)
  PROVE  TypeInv'
<1>1. stale' \in [Worker -> SUBSET (SubKey \cup TrxId \cup Account)]
  BY PublishTyped DEF Throw, ReturnAndPublish
<1> QED
  BY <1>1, CallReturns DEF Throw, ReturnAndPublish, tables, TypeInv, TypeOK

\* The check of the retry budget fails.
LEMMA RetryThrowTyped ==
  ASSUME TypeInv, NEW w \in Worker, pc[w] # "idle", RetryCheckThrows(w)
  PROVE  TypeInv'
<1>w. call[w] \in Local /\ CallOK(call[w], pc[w], status)
  BY DEF TypeInv, TypeOK
<1>1. CASE call[w].op = "process"
  <2> DEFINE c == [NoCall EXCEPT !.op = "fail", !.id = call[w].id]
  <2>1. c \in Local /\ CallOK(c, "read", status)
    BY <1>w, <1>1, NoCallTyped DEF Local, NoCall, CallOK, ById
  <2>2. call' = [call EXCEPT ![w] = c] /\ Goto(w, "read") /\ UNCHANGED <<tables, retry, stale, settled>>
    BY <1>1 DEF RetryCheckThrows
  <2> HIDE DEF c
  <2> QED
    BY <2>1, <2>2, CallMoves DEF Goto, Label, tables, TypeInv, TypeOK
<1>2. CASE call[w].op # "process"
  BY <1>2, ThrowTyped DEF RetryCheckThrows
<1> QED
  BY <1>1, <1>2

\* Calls that come in, look up their transaction and draw on the retry budget.
LEMMA BookkeepingTyped ==
  ASSUME TypeInv, NEW w \in Worker,
         \/ Start(w) \/ GetTransactionById(w) \/ GetRetryCounter(w)
         \/ SetRetryCounter(w) \/ RetryAmountExceeded(w) \/ RedisRejects(w)
  PROVE  TypeInv'
<1> USE DEF TypeInv, TypeOK
<1>w. call[w] \in Local /\ pc[w] \in Label /\ CallOK(call[w], pc[w], status)
  OBVIOUS
<1>1. ASSUME NEW o \in ApiOps \cap ById, NEW i \in TrxId,
             call' = [call EXCEPT ![w] = [NoCall EXCEPT !.op = o, !.id = i]],
             Goto(w, "read"), UNCHANGED <<tables, retry, stale, settled>>
      PROVE  TypeInv'
  <2>1. [NoCall EXCEPT !.op = o, !.id = i] \in Local
    BY NoCallTyped DEF Local, NoCall
  <2>2. CallOK([NoCall EXCEPT !.op = o, !.id = i], "read", status)
    BY DEF CallOK, NoCall, ById
  <2> QED
    BY <1>1, <2>1, <2>2, CallMoves DEF Goto, Label, tables
<1>2. ASSUME NEW c \in Local, CallOK(c, "getRetry", status), StartFresh(w, c)
      PROVE  TypeInv'
  <2>1. 1 \in 1..MaxRetryCount
    BY LedgerAssumption
  <2>2. retry' \in [RetryKey -> 1..MaxRetryCount]
    BY <1>2, <2>1 DEF StartFresh
  <2>3. /\ call' = [call EXCEPT ![w] = c] /\ pc' = [pc EXCEPT ![w] = "getRetry"]
        /\ UNCHANGED <<tables, stale, settled>>
    BY <1>2 DEF StartFresh, Goto
  <2> QED
    BY <1>2, <2>2, <2>3, CallMoves DEF Label, tables
<1>3. CASE StartById(w)
  BY <1>1, <1>3 DEF StartById
<1>4. CASE StartCreate(w)
  <2> PICK p \in Payments, i \in UnusedIds :
        StartFresh(w, [NoCall EXCEPT !.op = "create", !.id = i, !.status = "initiated", !.payment = p])
    BY <1>4 DEF StartCreate
  <2> DEFINE c == [NoCall EXCEPT !.op = "create", !.id = i, !.status = "initiated", !.payment = p]
  <2>1. c \in Local
    BY NoCallTyped, LedgerAssumption DEF Local, NoCall, UnusedIds, StartFresh, RowStatus, Status
  <2>2. CallOK(c, "getRetry", status)
    BY DEF CallOK, NoCall, ById, UnusedIds
  <2> QED
    BY <1>2, <2>1, <2>2
<1>5. CASE StartConsolidate(w)
  <2> DEFINE c == [NoCall EXCEPT !.op = "consolidate"]
  <2>1. c \in Local
    BY <1>5, NoCallTyped DEF Local, NoCall, StartFresh, StartConsolidate
  <2>2. CallOK(c, "getRetry", status)
    BY DEF CallOK, NoCall, ById
  <2> QED
    BY <1>2, <1>5, <2>1, <2>2 DEF StartConsolidate
<1>6. CASE StartOpen(w)
  <2> PICK o \in Openings, a \in Regular \ accounts :
        StartFresh(w, [NoCall EXCEPT !.op = "open",
          !.payment = [debit |-> BalanceAccount, credit |-> a,
                       amount |-> o.amount, currency |-> o.currency]])
    BY <1>6 DEF StartOpen, GeneratedIds
  <2> DEFINE c == [NoCall EXCEPT !.op = "open",
          !.payment = [debit |-> BalanceAccount, credit |-> a,
                       amount |-> o.amount, currency |-> o.currency]]
  <2>1. c.payment \in PaymentRow /\ "open" \in ApiOps
    BY LedgerAssumption DEF NoCall, StartFresh, PaymentRow, Account
  <2>2. c \in Local
    BY <2>1, NoCallTyped DEF Local, NoCall
  <2>3. CallOK(c, "getRetry", status)
    BY LedgerAssumption DEF CallOK, NoCall, ById, OpeningOf, TypeInv
  <2> QED
    BY <1>2, <2>2, <2>3
<1>7. CASE GetTransactionById(w)
  <2>1. CASE status[call[w].id] = "absent"
    BY <1>7, <2>1, ThrowTyped DEF GetTransactionById
  <2>2. CASE status[call[w].id] # "absent" /\ call[w].id \in TrxId
    <3> DEFINE c == [call[w] EXCEPT !.status = status[call[w].id], !.payment = payment[call[w].id]]
    <3>1. c \in Local
      BY <2>2 DEF Local
    <3>2. CallOK(c, "getRetry", status)
      BY <1>w, <1>7, <2>2 DEF CallOK, Local, GetTransactionById, ById
    <3>3. call' = [call EXCEPT ![w] = c] /\ Goto(w, "getRetry") /\ UNCHANGED <<tables, retry, stale, settled>>
      BY <1>7, <2>2 DEF GetTransactionById
    <3> HIDE DEF c
    <3> QED
      BY <3>1, <3>2, <3>3, CallMoves DEF Goto, Label, tables
  <2> QED
    BY <1>w, <1>7, <2>1, <2>2 DEF GetTransactionById, CallOK
<1>8. CASE GetRetryCounter(w)
  <2> DEFINE n == retry[KeyOf(call[w], w)]
             c == [call[w] EXCEPT !.count = n]
  <2>1. KeyOf(call[w], w) \in RetryKey
    BY <1>w, <1>8, LedgerAssumption DEF GetRetryCounter, KeyOf, RetryKey, CallOK, Local, ById
  <2>2. c \in Local /\ CallOK(c, "setRetry", status)
    <3>1. n \in 1..MaxRetryCount
      BY <2>1
    <3> HIDE DEF n
    <3> QED
      BY <1>w, <1>8, <3>1 DEF Local, CallOK, GetRetryCounter
  <2>3. call' = [call EXCEPT ![w] = c] /\ Goto(w, "setRetry") /\ UNCHANGED <<tables, retry, stale, settled>>
    BY <1>8 DEF GetRetryCounter
  <2> HIDE DEF c
  <2> QED
    BY <2>2, <2>3, CallMoves DEF Goto, Label, tables
<1>9. CASE SetRetryCounter(w)
  <2>1. CallOK(call[w], "begin", status)
    BY <1>w, <1>9 DEF CallOK, SetRetryCounter
  <2>2. call' = [call EXCEPT ![w] = call[w]]
    BY <1>9 DEF SetRetryCounter
  <2>3. call[w].count + 1 \in 1..MaxRetryCount
    BY <1>w, <1>9, LedgerAssumption DEF SetRetryCounter, Local
  <2> QED
    BY <1>w, <1>9, <2>1, <2>2, <2>3, CallMoves DEF SetRetryCounter, Goto, Label, tables
<1>10. CASE RetryAmountExceeded(w) \/ RedisRejects(w)
  BY <1>10, RetryThrowTyped DEF RetryAmountExceeded, RedisRejects
<1> QED
  BY <1>3, <1>4, <1>5, <1>6, <1>7, <1>8, <1>9, <1>10 DEF Start

\* The steps that touch the tables; a call that goes on keeps its variables.
LEMMA LabelMoves ==
  ASSUME TypeInv, NEW w \in Worker, NEW l \in Label, l \notin {"idle", "read"},
         pc[w] \notin {"idle", "read"}, Goto(w, l), UNCHANGED call,
         \A i \in TrxId : status[i] # "absent" => status'[i] # "absent"
  PROVE  /\ call' \in [Worker -> Local]
         /\ pc' \in [Worker -> Label]
         /\ \A v \in Worker : CallOK(call'[v], pc'[v], status')
<1>1. call[w] \in Local /\ CallOK(call[w], l, status)
  BY DEF TypeInv, TypeOK, CallOK
<1>2. call' = [call EXCEPT ![w] = call[w]]
  BY DEF TypeInv, TypeOK
<1> QED
  BY <1>1, <1>2, CallMoves DEF Goto

LEMMA SnapshotTyped ==
  ASSUME TypeInv, NEW w \in Worker, NEW l \in Label, l \notin {"idle", "read"},
         pc[w] = "begin", OpenSnapshot(w, l), UNCHANGED call
  PROVE  TypeInv'
<1>1. stale' \in [Worker -> SUBSET (SubKey \cup TrxId \cup Account)]
  BY DEF OpenSnapshot, TypeInv, TypeOK
<1> QED
  BY <1>1, LabelMoves DEF OpenSnapshot, tables, TypeInv, TypeOK

\* The keys of a payment are rows.
LEMMA KeysTyped ==
  \A p \in PaymentRow :
    /\ DebitKey(p) \in SubKey /\ CreditKey(p) \in SubKey
    /\ TransitKey(p.currency) \in SubKey /\ p.credit \in Account
    /\ p.amount \in Int /\ calculateTransactionFee(p.amount) \in Int
BY FeeBounds DEF PaymentRow, DebitKey, CreditKey, TransitKey, SubKey, Account

LEMMA CreateTyped ==
  ASSUME TypeInv, NEW w \in Worker,
         CreateBegin(w) \/ CreateHold(w) \/ CreateCommit(w)
  PROVE  TypeInv'
<1> DEFINE p == call[w].payment
<1>p. p \in PaymentRow
  BY DEF TypeInv, TypeOK, Local
<1>1. CASE CreateBegin(w)
  BY <1>1, ThrowTyped, SnapshotTyped DEF CreateBegin, At, Label
<1>2. CASE CreateHold(w) /\ ~Throw(w)
  <2>1. hold' = holdForAmount(hold, DebitKey(p), p.amount) /\ stale' = Publish(w, {DebitKey(p)})
    BY <1>2 DEF CreateHold
  <2>2. hold' \in [SubKey -> Int]
    BY <1>p, <2>1, KeysTyped DEF holdForAmount, TypeInv, TypeOK
  <2>3. stale' \in [Worker -> SUBSET (SubKey \cup TrxId \cup Account)]
    <3>1. {DebitKey(p)} \in SUBSET (SubKey \cup TrxId \cup Account)
      BY <1>p, KeysTyped
    <3> HIDE DEF p
    <3> QED
      BY <2>1, <3>1, PublishTyped
  <2>4. /\ Goto(w, "commit") /\ pc[w] = "hold"
        /\ UNCHANGED <<accounts, balance, status, payment, feeRows, sweptRows,
                        retry, call, settled>>
    BY <1>2 DEF CreateHold, At
  <2> QED
    BY <2>2, <2>3, <2>4, LabelMoves DEF TypeInv, TypeOK, Label
<1>3. CASE CreateCommit(w) /\ ~Throw(w)
  <2> DEFINE i == call[w].id
  <2>1. i \in TrxId /\ p \in Payments
    BY <1>3 DEF CreateCommit, At, TypeInv, CallOK
  <2>2. /\ status' = [status EXCEPT ![i] = "initiated"]
        /\ payment' = [payment EXCEPT ![i] = p]
        /\ ReturnAndPublish(w, {i})
        /\ UNCHANGED <<accounts, balance, hold, feeRows, sweptRows, retry, settled>>
    BY <1>3 DEF CreateCommit
  <2>3. stale' \in [Worker -> SUBSET (SubKey \cup TrxId \cup Account)]
    BY <2>1, <2>2, PublishTyped DEF ReturnAndPublish
  <2>4. /\ status' \in [TrxId -> RowStatus] /\ payment' \in [TrxId -> PaymentRow]
        /\ \A j \in TrxId : status'[j] # "absent" => payment'[j] \in Payments
    BY <1>p, <2>1, <2>2 DEF TypeInv, TypeOK, RowStatus, Status
  <2>5. \A j \in TrxId : status[j] # "absent" => status'[j] # "absent"
    BY <2>1, <2>2 DEF TypeInv, TypeOK
  <2> QED
    BY <2>2, <2>3, <2>4, <2>5, CallReturns DEF ReturnAndPublish, TypeInv, TypeOK
<1>4. CASE Throw(w)
  BY <1>4, ThrowTyped
<1> QED
  BY <1>1, <1>2, <1>3, <1>4

LEMMA ProcessTyped ==
  ASSUME TypeInv, NEW w \in Worker, ProcessBegin(w) \/ ProcessCommit(w)
  PROVE  TypeInv'
<1>1. CASE ProcessBegin(w)
  BY <1>1, ThrowTyped, SnapshotTyped DEF ProcessBegin, At, Label
<1>2. CASE ProcessCommit(w) /\ ~Throw(w)
  <2> DEFINE i == call[w].id
             p == call[w].payment
             fee == calculateTransactionFee(p.amount)
             rows == {i, DebitKey(p), CreditKey(p), TransitKey(p.currency)}
             paid == creditForAmount(balance, DebitKey(p), p.amount + fee)
             got == debitForAmount(paid, CreditKey(p), p.amount)
  <2>1. i \in TrxId /\ p \in PaymentRow
    BY <1>2 DEF ProcessCommit, At, TypeInv, TypeOK, CallOK, Local, ById
  <2>2. /\ status' = [status EXCEPT ![i] = "done"]
        /\ feeRows' = [feeRows EXCEPT ![p.currency] = @ + fee]
        /\ hold' = releaseForAmount(hold, DebitKey(p), p.amount)
        /\ balance' = debitForAmount(got, TransitKey(p.currency), fee)
        /\ settled' = [settled EXCEPT ![i] = IF @ = 0 THEN 1 ELSE 2]
        /\ ReturnAndPublish(w, rows)
        /\ UNCHANGED <<accounts, payment, sweptRows, retry>>
    BY <1>2 DEF ProcessCommit
  <2>3. fee \in Int /\ p.amount \in Int /\ p.currency \in Currency
    BY <2>1, KeysTyped DEF PaymentRow
  <2>4. /\ DebitKey(p) \in SubKey /\ CreditKey(p) \in SubKey
        /\ TransitKey(p.currency) \in SubKey
    BY <2>1, KeysTyped
  <2>5. rows \subseteq SubKey \cup TrxId \cup Account
    BY <2>1, <2>4
  <2> HIDE DEF i, p, fee, rows
  <2>6. hold' \in [SubKey -> Int]
    BY <2>2, <2>3, <2>4 DEF releaseForAmount, TypeInv, TypeOK
  <2>7. paid \in [SubKey -> Int]
    BY <2>3, <2>4 DEF creditForAmount, TypeInv, TypeOK
  <2> HIDE DEF paid
  <2>8. got \in [SubKey -> Int]
    BY <2>3, <2>4, <2>7 DEF debitForAmount
  <2> HIDE DEF got
  <2>9. balance' \in [SubKey -> Int]
    BY <2>2, <2>3, <2>4, <2>8 DEF debitForAmount
  <2>10. feeRows' \in [Currency -> Int] /\ status' \in [TrxId -> RowStatus] /\ settled' \in [TrxId -> 0..2]
    BY <2>1, <2>2, <2>3 DEF TypeInv, TypeOK, RowStatus, Status
  <2>11. \A j \in TrxId : status'[j] # "absent" => payment'[j] \in Payments
    <3>1. status[i] # "absent"
      BY <1>2 DEF ProcessCommit, At, TypeInv, CallOK, ById, i
    <3> QED
      BY <2>1, <2>2, <3>1 DEF TypeInv, TypeOK
  <2>13. \A j \in TrxId : status[j] # "absent" => status'[j] # "absent"
    BY <2>1, <2>2 DEF TypeInv, TypeOK
  <2>12. stale' \in [Worker -> SUBSET (SubKey \cup TrxId \cup Account)]
    BY <2>2, <2>5, PublishTyped DEF ReturnAndPublish
  <2> QED
    BY <2>2, <2>6, <2>9, <2>10, <2>11, <2>12, <2>13, CallReturns DEF ReturnAndPublish, TypeInv, TypeOK
<1>3. CASE Throw(w)
  BY <1>3, ThrowTyped
<1> QED
  BY <1>1, <1>2, <1>3

\* cancel, send and fail: one status and perhaps a hold.
LEMMA StatusTyped ==
  ASSUME TypeInv, NEW w \in Worker,
         CancelBegin(w) \/ CancelCommit(w) \/ SendSave(w) \/ FailSave(w)
  PROVE  TypeInv'
<1> DEFINE i == call[w].id
           p == call[w].payment
<1>p. p \in PaymentRow
  BY DEF TypeInv, TypeOK, Local
<1>1. CASE CancelBegin(w)
  BY <1>1, ThrowTyped, SnapshotTyped DEF CancelBegin, At, Label
<1>2. ASSUME NEW s \in Status, NEW rows \in SUBSET (SubKey \cup TrxId \cup Account),
             i \in TrxId, status[i] # "absent", status' = [status EXCEPT ![i] = s],
             hold' \in [SubKey -> Int], ReturnAndPublish(w, rows),
             UNCHANGED <<accounts, balance, payment, feeRows, sweptRows, retry, settled>>
      PROVE  TypeInv'
  <2>1. stale' \in [Worker -> SUBSET (SubKey \cup TrxId \cup Account)]
    BY <1>2, PublishTyped DEF ReturnAndPublish
  <2> HIDE DEF i
  <2>2. /\ status' \in [TrxId -> RowStatus]
        /\ \A j \in TrxId : status'[j] # "absent" => status[j] # "absent"
        /\ \A j \in TrxId : status[j] # "absent" => status'[j] # "absent"
    BY <1>2 DEF TypeInv, TypeOK, RowStatus, Status
  <2> QED
    BY <1>2, <2>1, <2>2, CallReturns DEF ReturnAndPublish, TypeInv, TypeOK
<1>3. CASE CancelCommit(w) /\ ~Throw(w)
  <2>1. i \in TrxId /\ status[i] # "absent"
    BY <1>3 DEF CancelCommit, At, TypeInv, CallOK, ById
  <2>2. {i, DebitKey(p)} \in SUBSET (SubKey \cup TrxId \cup Account) /\ "cancelled" \in Status
    BY <1>p, <2>1, KeysTyped DEF Status
  <2>3. /\ status' = [status EXCEPT ![i] = "cancelled"]
        /\ hold' = releaseForAmount(hold, DebitKey(p), p.amount)
        /\ ReturnAndPublish(w, {i, DebitKey(p)})
        /\ UNCHANGED <<accounts, balance, payment, feeRows, sweptRows, retry, settled>>
    BY <1>3 DEF CancelCommit
  <2>4. hold' \in [SubKey -> Int]
    BY <1>p, <2>3, KeysTyped DEF releaseForAmount, TypeInv, TypeOK
  <2> HIDE DEF i, p
  <2> QED
    BY <1>2, <2>1, <2>2, <2>3, <2>4
<1>4. ASSUME NEW s \in Status, SaveStatus(w, s), i \in TrxId, status[i] # "absent"
      PROVE  TypeInv'
  <2>1. {i} \in SUBSET (SubKey \cup TrxId \cup Account) /\ hold' \in [SubKey -> Int]
    BY <1>4 DEF SaveStatus, TypeInv, TypeOK
  <2> QED
    BY <1>2, <1>4, <2>1 DEF SaveStatus
<1>5. CASE SendSave(w)
  <2>1. i \in TrxId /\ status[i] # "absent"
    BY <1>5 DEF SendSave, At, TypeInv, CallOK, ById
  <2> QED
    BY <1>4, <1>5, <2>1, ThrowTyped DEF SendSave, Status
<1>6. CASE FailSave(w)
  <2>1. i \in TrxId /\ status[i] # "absent"
    BY <1>6 DEF FailSave, At, TypeInv, CallOK, ById
  <2> QED
    BY <1>4, <1>6, <2>1 DEF FailSave, Status
<1>7. CASE Throw(w)
  BY <1>7, ThrowTyped
<1> QED
  BY <1>1, <1>3, <1>5, <1>6, <1>7

LEMMA ConsolidateTyped ==
  ASSUME TypeInv, NEW w \in Worker, ConsolidateBegin(w) \/ ConsolidateCommit(w)
  PROVE  TypeInv'
<1>k. \A c \in Currency : TransitKey(c) \in SubKey /\ BalanceKey(c) \in SubKey
  BY DEF TransitKey, BalanceKey, SubKey, Account
<1>1. CASE ConsolidateBegin(w)
  <2> DEFINE seen == [c \in Currency |-> currentBalance(balance, hold, TransitKey(c))]
             c1 == [call[w] EXCEPT !.seen = seen]
  <2>1. seen \in [Currency -> Int]
    BY <1>k DEF currentBalance, TypeInv, TypeOK
  <2>2. call' = [call EXCEPT ![w] = c1]
    BY <1>1 DEF ConsolidateBegin
  <2> HIDE DEF seen
  <2>3. c1 \in Local
    BY <2>1 DEF TypeInv, TypeOK, Local
  <2>4. CallOK(c1, "commit", status)
    BY <1>1 DEF CallOK, TypeInv, TypeOK, Local, ConsolidateBegin, At, ById
  <2> HIDE DEF c1
  <2>5. stale' \in [Worker -> SUBSET (SubKey \cup TrxId \cup Account)]
    BY <1>1 DEF ConsolidateBegin, OpenSnapshot, TypeInv, TypeOK
  <2>6. UNCHANGED <<tables, retry, settled>> /\ pc' = [pc EXCEPT ![w] = "commit"]
    BY <1>1 DEF ConsolidateBegin, OpenSnapshot, Goto
  <2> QED
    BY <2>2, <2>3, <2>4, <2>5, <2>6, CallMoves DEF tables, TypeInv, TypeOK, Label
<1>2. CASE ConsolidateCommit(w) /\ ~Throw(w)
  <2> DEFINE seen == call[w].seen
             moved == {c \in Currency : seen[c] # 0}
             rows == {TransitKey(c) : c \in moved} \cup {BalanceKey(c) : c \in moved}
  <2>1. /\ sweptRows' = [c \in Currency |-> sweptRows[c] + seen[c]]
        /\ balance' = [k \in SubKey |->
                         IF k[1] = TransitAccount THEN balance[k] - seen[k[2]]
                         ELSE IF k[1] = BalanceAccount THEN balance[k] + seen[k[2]]
                         ELSE balance[k]]
        /\ ReturnAndPublish(w, rows)
        /\ UNCHANGED <<accounts, hold, status, payment, feeRows, retry, settled>>
    BY <1>2 DEF ConsolidateCommit
  <2>2. seen \in [Currency -> Int]
    BY DEF TypeInv, TypeOK, Local
  <2>3. rows \in SUBSET (SubKey \cup TrxId \cup Account)
    BY <1>k
  <2>4. \A k \in SubKey : k[2] \in Currency
    BY DEF SubKey
  <2> HIDE DEF seen, rows
  <2>5. balance' \in [SubKey -> Int] /\ sweptRows' \in [Currency -> Int]
    BY <2>1, <2>2, <2>4 DEF TypeInv, TypeOK
  <2>6. stale' \in [Worker -> SUBSET (SubKey \cup TrxId \cup Account)]
    BY <2>1, <2>3, PublishTyped DEF ReturnAndPublish
  <2> QED
    BY <2>1, <2>5, <2>6, CallReturns DEF ReturnAndPublish, TypeInv, TypeOK
<1>3. CASE Throw(w)
  BY <1>3, ThrowTyped
<1> QED
  BY <1>1, <1>2, <1>3

LEMMA OpenTyped ==
  ASSUME TypeInv, NEW w \in Worker, OpenBegin(w) \/ OpenCommit(w)
  PROVE  TypeInv'
<1>1. CASE OpenBegin(w)
  BY <1>1, SnapshotTyped DEF OpenBegin, At, Label
<1>2. CASE OpenCommit(w) /\ ~Throw(w)
  <2> DEFINE p == call[w].payment
             paid == creditForAmount(balance, DebitKey(p), p.amount)
  <2>1. p \in PaymentRow
    BY DEF TypeInv, TypeOK, Local
  <2>2. /\ accounts' = accounts \cup {p.credit}
        /\ balance' = debitForAmount(paid, CreditKey(p), p.amount)
        /\ ReturnAndPublish(w, {DebitKey(p), CreditKey(p), p.credit})
        /\ UNCHANGED <<hold, status, payment, feeRows, sweptRows, retry, settled>>
    BY <1>2 DEF OpenCommit
  <2>3. /\ p.amount \in Int /\ p.credit \in Account
        /\ DebitKey(p) \in SubKey /\ CreditKey(p) \in SubKey
    BY <2>1, KeysTyped
  <2> HIDE DEF p
  <2>4. paid \in [SubKey -> Int]
    BY <2>3 DEF creditForAmount, TypeInv, TypeOK
  <2> HIDE DEF paid
  <2>5. balance' \in [SubKey -> Int]
    BY <2>2, <2>3, <2>4 DEF debitForAmount
  <2>6. {DebitKey(p), CreditKey(p), p.credit} \in SUBSET (SubKey \cup TrxId \cup Account)
    BY <2>3
  <2>7. stale' \in [Worker -> SUBSET (SubKey \cup TrxId \cup Account)]
    BY <2>2, <2>6, PublishTyped DEF ReturnAndPublish
  <2> QED
    BY <2>2, <2>3, <2>5, <2>7, CallReturns DEF ReturnAndPublish, TypeInv, TypeOK
<1>3. CASE Throw(w)
  BY <1>3, ThrowTyped
<1> QED
  BY <1>1, <1>2, <1>3

LEMMA FailureTyped ==
  ASSUME TypeInv, NEW w \in Worker, SerializationFailure(w) \/ Abandon(w)
  PROVE  TypeInv'
<1>1. CASE SerializationFailure(w)
  <2> DEFINE c == Retried(w, call[w])
             l == IF call[w].op \in ById THEN "read" ELSE "getRetry"
  <2>1. call[w] \in Local /\ CallOK(call[w], pc[w], status) /\ pc[w] \in {"hold", "commit"}
    BY <1>1 DEF TypeInv, TypeOK, SerializationFailure, InTx
  <2>2. 1 \in 1..MaxRetryCount /\ NothingSeen \in [Currency -> Int]
    BY LedgerAssumption DEF NothingSeen
  <2>3. c \in Local
    BY <2>1, <2>2, NoCallTyped DEF Retried, Local, NoCall
  <2>4. CallOK(c, l, status)
    BY <2>1 DEF Retried, CallOK, NoCall, ById, Local
  <2>5. /\ call' = [call EXCEPT ![w] = c] /\ pc' = [pc EXCEPT ![w] = l] /\ l \in Label
        /\ stale' = [stale EXCEPT ![w] = {}] /\ UNCHANGED <<tables, settled>>
        /\ retry' = IF call[w].op = "create" THEN [retry EXCEPT ![<<"create", w>>] = 1] ELSE retry
    BY <1>1 DEF SerializationFailure, Goto, Label
  <2> HIDE DEF c, l
  <2>6. stale' \in [Worker -> SUBSET (SubKey \cup TrxId \cup Account)]
    BY <2>5 DEF TypeInv, TypeOK
  <2>7. retry' \in [RetryKey -> 1..MaxRetryCount]
    BY <2>2, <2>5 DEF TypeInv, TypeOK
  <2> QED
    BY <2>3, <2>4, <2>5, <2>6, <2>7, CallMoves DEF tables, TypeInv, TypeOK
<1>2. CASE Abandon(w)
  BY <1>2, ThrowTyped DEF Abandon
<1> QED
  BY <1>1, <1>2

LEMMA NextTypeInv == TypeInv /\ [Next]_vars => TypeInv'
<1> SUFFICES ASSUME TypeInv, [Next]_vars
             PROVE  TypeInv'
  OBVIOUS
<1>1. ASSUME NEW w \in Worker, Start(w) \/ Step(w) \/ Abandon(w)
      PROVE  TypeInv'
  BY <1>1, BookkeepingTyped, CreateTyped, ProcessTyped, StatusTyped, ConsolidateTyped,
     OpenTyped, FailureTyped DEF Step
<1>2. CASE RetryExpires
  <2>1. 1 \in 1..MaxRetryCount
    BY LedgerAssumption
  <2> QED
    BY <1>2, <2>1 DEF RetryExpires, tables, TypeInv, TypeOK
<1>3. CASE UNCHANGED vars
  BY <1>3 DEF vars, tables, TypeInv, TypeOK
<1> QED
  BY <1>1, <1>2, <1>3 DEF Next

\* Every table, counter and local variable keeps its type, and no retry counter
\* passes CONSISTENT_OPERATION_MAX_RETRY_COUNT, whatever calls overlap.
THEOREM Typed == Spec => []TypeOK
<1>1. TypeInv => TypeOK
  BY DEF TypeInv
<1> QED
  BY <1>1, InitTypeInv, NextTypeInv, PTL DEF Spec

-----------------------------------------------------------------------------
(* What a transaction saw in its snapshot.                                 *)

\* A step of w that tells the open transactions of the others about every row of
\* money it changes leaves what they saw true, or doomed.
LEMMA SnapshotsKept ==
  ASSUME TypeInv, SnapshotsHold, NEW w \in Worker, NEW rows,
         \A k \in SubKey \ rows : balance'[k] = balance[k] /\ hold'[k] = hold[k],
         \A v \in Worker \ {w} :
           /\ call'[v] = call[v] /\ pc'[v] = pc[v]
           /\ InTx(v) => stale[v] \cup rows \subseteq stale'[v],
         SnapshotHolds(w)'
  PROVE  SnapshotsHold'
<1> SUFFICES ASSUME NEW v \in Worker, v # w
             PROVE  SnapshotHolds(v)'
  BY DEF SnapshotsHold
<1>1. SnapshotHolds(v)
  BY DEF SnapshotsHold
<1>2. CASE pc[v] = "commit"
  <2>1. stale[v] \cup rows \subseteq stale'[v] /\ call'[v] = call[v] /\ pc'[v] = pc[v]
    BY <1>2 DEF InTx
  <2>2. call[v].payment \in PaymentRow
    BY DEF TypeInv, TypeOK, Local
  <2>3. DebitKey(call[v].payment) \in SubKey /\ \A c \in Currency : TransitKey(c) \in SubKey
    BY <2>2, KeysTyped DEF TransitKey, SubKey, Account
  <2>4. \A k \in SubKey : k \notin stale'[v] =>
          k \notin stale[v] /\ currentBalance(balance', hold', k) = currentBalance(balance, hold, k)
    BY <2>1 DEF currentBalance
  <2>5. At(v, "process", "commit")' /\ DebitKey(call[v].payment) \notin stale'[v] =>
          currentBalance(balance', hold', DebitKey(call[v].payment))
            >= calculateTransactionFee(call[v].payment.amount)
    BY <1>1, <2>1, <2>3, <2>4 DEF SnapshotHolds, At
  <2>6. At(v, "consolidate", "commit")' =>
          \A c \in Currency : TransitKey(c) \notin stale'[v] =>
            call[v].seen[c] = currentBalance(balance', hold', TransitKey(c))
    BY <1>1, <2>1, <2>3, <2>4 DEF SnapshotHolds, At
  <2> QED
    BY <2>1, <2>5, <2>6 DEF SnapshotHolds
<1>3. CASE pc[v] # "commit"
  BY <1>3 DEF SnapshotHolds, At
<1> QED
  BY <1>2, <1>3

\* A step that touches no money and leaves w short of COMMIT.
LEMMA SnapshotsUntouched ==
  ASSUME TypeInv, SnapshotsHold, NEW w \in Worker, UNCHANGED <<balance, hold>>,
         \A v \in Worker \ {w} :
           /\ call'[v] = call[v] /\ pc'[v] = pc[v]
           /\ InTx(v) => stale[v] \subseteq stale'[v],
         pc'[w] # "commit" \/ call'[w].op \notin {"process", "consolidate"}
  PROVE  SnapshotsHold'
<1>1. SnapshotHolds(w)'
  BY DEF SnapshotHolds, At
<1> DEFINE none == {}
<1>2. \A k \in SubKey \ none : balance'[k] = balance[k] /\ hold'[k] = hold[k]
  OBVIOUS
<1>3. \A v \in Worker \ {w} :
        /\ call'[v] = call[v] /\ pc'[v] = pc[v]
        /\ InTx(v) => stale[v] \cup none \subseteq stale'[v]
  OBVIOUS
<1> HIDE DEF none
<1> QED
  BY <1>1, <1>2, <1>3, SnapshotsKept

LEMMA PublishTells ==
  ASSUME TypeInv, NEW w \in Worker, NEW rows, ReturnAndPublish(w, rows)
  PROVE  /\ pc'[w] = "idle"
         /\ \A v \in Worker \ {w} :
              /\ call'[v] = call[v] /\ pc'[v] = pc[v]
              /\ InTx(v) => stale[v] \cup rows \subseteq stale'[v]
BY DEF ReturnAndPublish, Return, Goto, Publish, TypeInv, TypeOK

LEMMA ReturnKeepsSnapshots ==
  ASSUME TypeInv, SnapshotsHold, NEW w \in Worker, NEW rows, ReturnAndPublish(w, rows),
         \A k \in SubKey \ rows : balance'[k] = balance[k] /\ hold'[k] = hold[k]
  PROVE  SnapshotsHold'
<1>1. SnapshotHolds(w)'
  BY PublishTells DEF SnapshotHolds, At
<1> QED
  BY <1>1, PublishTells, SnapshotsKept

LEMMA ThrowKeepsSnapshots ==
  ASSUME TypeInv, SnapshotsHold, NEW w \in Worker, Throw(w)
  PROVE  SnapshotsHold'
<1> DEFINE none == {}
<1>1. ReturnAndPublish(w, none) /\ \A k \in SubKey \ none : balance'[k] = balance[k] /\ hold'[k] = hold[k]
  BY DEF Throw, tables
<1> HIDE DEF none
<1> QED
  BY <1>1, ReturnKeepsSnapshots

LEMMA BookkeepingKeepsSnapshots ==
  ASSUME TypeInv, SnapshotsHold, NEW w \in Worker,
         \/ Start(w) \/ GetTransactionById(w) \/ GetRetryCounter(w)
         \/ SetRetryCounter(w) \/ RetryAmountExceeded(w) \/ RedisRejects(w)
         \/ SerializationFailure(w) \/ SendSave(w) \/ FailSave(w) \/ CreateCommit(w) \/ Abandon(w)
  PROVE  SnapshotsHold'
<1> USE DEF TypeInv, TypeOK
<1>1. CASE /\ ~Throw(w)
           /\ Start(w) \/ GetTransactionById(w) \/ GetRetryCounter(w)
              \/ SetRetryCounter(w) \/ RetryAmountExceeded(w) \/ RedisRejects(w)
              \/ SerializationFailure(w)
  <2>1. UNCHANGED <<balance, hold>> /\ pc'[w] # "commit"
    BY <1>1 DEF Start, StartById, StartCreate, StartConsolidate, StartOpen, StartFresh,
       GetTransactionById, GetRetryCounter, SetRetryCounter, RetryAmountExceeded,
       RedisRejects, RetryCheckThrows, SerializationFailure, Goto, tables
  <2>2. \A v \in Worker \ {w} :
          call'[v] = call[v] /\ pc'[v] = pc[v] /\ stale[v] = stale'[v]
    BY <1>1 DEF Start, StartById, StartCreate, StartConsolidate, StartOpen, StartFresh,
       GetTransactionById, GetRetryCounter, SetRetryCounter, RetryAmountExceeded,
       RedisRejects, RetryCheckThrows, SerializationFailure, Goto
  <2> QED
    BY <2>1, <2>2, SnapshotsUntouched
<1>2. ASSUME NEW rows, ReturnAndPublish(w, rows), UNCHANGED <<balance, hold>>
      PROVE  SnapshotsHold'
  BY <1>2, ReturnKeepsSnapshots
<1>3. CASE (SendSave(w) \/ FailSave(w) \/ CreateCommit(w)) /\ ~Throw(w)
  BY <1>2, <1>3 DEF SendSave, FailSave, SaveStatus, CreateCommit
<1>4. CASE Throw(w)
  BY <1>4, ThrowKeepsSnapshots
<1> QED
  BY <1>1, <1>3, <1>4 DEF Abandon

\* Opening a snapshot publishes nothing.
LEMMA OpeningKeepsSnapshots ==
  ASSUME TypeInv, SnapshotsHold, NEW w \in Worker, NEW l \in Label, OpenSnapshot(w, l),
         \A v \in Worker \ {w} : call'[v] = call[v], SnapshotHolds(w)'
  PROVE  SnapshotsHold'
<1> DEFINE none == {}
<1>1. \A k \in SubKey \ none : balance'[k] = balance[k] /\ hold'[k] = hold[k]
  BY DEF OpenSnapshot, tables
<1>2. \A v \in Worker \ {w} :
        /\ call'[v] = call[v] /\ pc'[v] = pc[v]
        /\ InTx(v) => stale[v] \cup none \subseteq stale'[v]
  BY DEF OpenSnapshot, Goto, TypeInv, TypeOK
<1> HIDE DEF none
<1> QED
  BY <1>1, <1>2, SnapshotsKept

LEMMA BeginKeepsSnapshots ==
  ASSUME TypeInv, SnapshotsHold, NEW w \in Worker,
         CreateBegin(w) \/ ProcessBegin(w) \/ CancelBegin(w) \/ ConsolidateBegin(w) \/ OpenBegin(w)
  PROVE  SnapshotsHold'
<1>1. CASE (CreateBegin(w) \/ CancelBegin(w) \/ OpenBegin(w)) /\ ~Throw(w)
  <2>1. call[w].op \notin {"process", "consolidate"} /\ UNCHANGED call
        /\ \E l \in Label : OpenSnapshot(w, l)
    BY <1>1 DEF CreateBegin, CancelBegin, OpenBegin, At, Label
  <2>2. SnapshotHolds(w)'
    BY <2>1 DEF SnapshotHolds, At
  <2> QED
    BY <2>1, <2>2, OpeningKeepsSnapshots
<1>2. CASE ProcessBegin(w) /\ ~Throw(w)
  <2> DEFINE p == call[w].payment
  <2>1. /\ call[w].op = "process" /\ OpenSnapshot(w, "commit") /\ UNCHANGED call
        /\ CanPay(p, calculateTransactionFee(p.amount))
    BY <1>2 DEF ProcessBegin, At
  <2>2. SnapshotHolds(w)'
    BY <2>1 DEF SnapshotHolds, At, CanPay, OpenSnapshot, tables
  <2> QED
    BY <2>1, <2>2, OpeningKeepsSnapshots DEF Label
<1>3. CASE ConsolidateBegin(w)
  <2> DEFINE seen == [c \in Currency |-> currentBalance(balance, hold, TransitKey(c))]
  <2>1. /\ call[w].op = "consolidate" /\ OpenSnapshot(w, "commit")
        /\ call' = [call EXCEPT ![w].seen = seen]
    BY <1>3 DEF ConsolidateBegin, At
  <2>2. /\ call'[w].op = "consolidate" /\ call'[w].seen = seen
        /\ \A v \in Worker \ {w} : call'[v] = call[v]
    <3>1. call[w] \in Local /\ call \in [Worker -> Local]
      BY DEF TypeInv, TypeOK
    <3> HIDE DEF seen
    <3> QED
      BY <2>1, <3>1 DEF Local
  <2>3. SnapshotHolds(w)'
    BY <2>1, <2>2 DEF SnapshotHolds, At, OpenSnapshot, tables
  <2> HIDE DEF seen
  <2> QED
    BY <2>1, <2>2, <2>3, OpeningKeepsSnapshots DEF Label
<1>4. CASE Throw(w)
  BY <1>4, ThrowKeepsSnapshots
<1> QED
  BY <1>1, <1>2, <1>3, <1>4

\* Every row of money that a COMMIT or the autocommitted hold changes is told to
\* the open transactions of the others.
LEMMA MoneyKeepsSnapshots ==
  ASSUME TypeInv, SnapshotsHold, NEW w \in Worker,
         \/ CreateHold(w) \/ ProcessCommit(w) \/ CancelCommit(w)
         \/ ConsolidateCommit(w) \/ OpenCommit(w)
  PROVE  SnapshotsHold'
<1> DEFINE p == call[w].payment
<1>t. balance \in [SubKey -> Int] /\ hold \in [SubKey -> Int]
  BY DEF TypeInv, TypeOK
<1>1. CASE CreateHold(w) /\ ~Throw(w)
  <2> DEFINE rows == {DebitKey(p)}
  <2>1. /\ hold' = holdForAmount(hold, DebitKey(p), p.amount) /\ balance' = balance
        /\ stale' = Publish(w, rows) /\ Goto(w, "commit") /\ UNCHANGED call
        /\ call[w].op = "create"
    BY <1>1 DEF CreateHold, At
  <2>2. \A k \in SubKey \ rows : balance'[k] = balance[k] /\ hold'[k] = hold[k]
    BY <1>t, <2>1 DEF holdForAmount
  <2>3. \A v \in Worker \ {w} :
          /\ call'[v] = call[v] /\ pc'[v] = pc[v]
          /\ InTx(v) => stale[v] \cup rows \subseteq stale'[v]
    BY <2>1 DEF Publish, Goto, TypeInv, TypeOK
  <2>4. SnapshotHolds(w)'
    BY <2>1 DEF SnapshotHolds, At
  <2> HIDE DEF rows
  <2> QED
    BY <2>2, <2>3, <2>4, SnapshotsKept
<1>2. CASE ProcessCommit(w) /\ ~Throw(w)
  <2> DEFINE fee == calculateTransactionFee(p.amount)
             rows == {call[w].id, DebitKey(p), CreditKey(p), TransitKey(p.currency)}
             paid == creditForAmount(balance, DebitKey(p), p.amount + fee)
             got == debitForAmount(paid, CreditKey(p), p.amount)
  <2>1. /\ hold' = releaseForAmount(hold, DebitKey(p), p.amount)
        /\ balance' = debitForAmount(got, TransitKey(p.currency), fee)
        /\ ReturnAndPublish(w, rows)
    BY <1>2 DEF ProcessCommit
  <2>2. \A k \in SubKey \ rows : hold'[k] = hold[k]
    BY <1>t, <2>1 DEF releaseForAmount
  <2>3. DOMAIN paid = SubKey /\ \A k \in SubKey \ rows : paid[k] = balance[k]
    BY <1>t DEF creditForAmount
  <2> HIDE DEF paid
  <2>4. DOMAIN got = SubKey /\ \A k \in SubKey \ rows : got[k] = balance[k]
    BY <2>3 DEF debitForAmount
  <2> HIDE DEF got
  <2>5. \A k \in SubKey \ rows : balance'[k] = balance[k]
    BY <2>1, <2>4 DEF debitForAmount
  <2> HIDE DEF rows
  <2> QED
    BY <2>1, <2>2, <2>5, ReturnKeepsSnapshots
<1>3. CASE CancelCommit(w) /\ ~Throw(w)
  <2> DEFINE rows == {call[w].id, DebitKey(p)}
  <2>1. /\ hold' = releaseForAmount(hold, DebitKey(p), p.amount) /\ balance' = balance
        /\ ReturnAndPublish(w, rows)
    BY <1>3 DEF CancelCommit
  <2>2. \A k \in SubKey \ rows : balance'[k] = balance[k] /\ hold'[k] = hold[k]
    BY <1>t, <2>1 DEF releaseForAmount
  <2> HIDE DEF rows
  <2> QED
    BY <2>1, <2>2, ReturnKeepsSnapshots
<1>4. CASE ConsolidateCommit(w) /\ ~Throw(w)
  <2> DEFINE seen == call[w].seen
             moved == {c \in Currency : seen[c] # 0}
             rows == {TransitKey(c) : c \in moved} \cup {BalanceKey(c) : c \in moved}
  <2>1. /\ balance' = [k \in SubKey |->
                         IF k[1] = TransitAccount THEN balance[k] - seen[k[2]]
                         ELSE IF k[1] = BalanceAccount THEN balance[k] + seen[k[2]]
                         ELSE balance[k]]
        /\ ReturnAndPublish(w, rows) /\ hold' = hold
    BY <1>4 DEF ConsolidateCommit
  <2>2. seen \in [Currency -> Int]
    BY DEF TypeInv, TypeOK, Local
  <2>3. ASSUME NEW k \in SubKey \ rows, k[1] \in {TransitAccount, BalanceAccount}
        PROVE  seen[k[2]] = 0
    <3>1. k[2] \in Currency /\ (k = TransitKey(k[2]) \/ k = BalanceKey(k[2]))
      BY <2>3 DEF SubKey, TransitKey, BalanceKey
    <3> QED
      BY <3>1
  <2> HIDE DEF seen, rows
  <2>4. \A k \in SubKey \ rows : balance'[k] = balance[k] /\ hold'[k] = hold[k]
    BY <1>t, <2>1, <2>3
  <2> QED
    BY <2>1, <2>4, ReturnKeepsSnapshots
<1>5. CASE OpenCommit(w) /\ ~Throw(w)
  <2> DEFINE rows == {DebitKey(p), CreditKey(p), p.credit}
             paid == creditForAmount(balance, DebitKey(p), p.amount)
  <2>1. /\ balance' = debitForAmount(paid, CreditKey(p), p.amount) /\ hold' = hold
        /\ ReturnAndPublish(w, rows)
    BY <1>5 DEF OpenCommit
  <2>2. DOMAIN paid = SubKey /\ \A k \in SubKey \ rows : paid[k] = balance[k]
    BY <1>t DEF creditForAmount
  <2> HIDE DEF paid
  <2>3. \A k \in SubKey \ rows : balance'[k] = balance[k] /\ hold'[k] = hold[k]
    BY <2>1, <2>2 DEF debitForAmount
  <2> HIDE DEF rows
  <2> QED
    BY <2>1, <2>3, ReturnKeepsSnapshots
<1>6. CASE Throw(w)
  BY <1>6, ThrowKeepsSnapshots
<1> QED
  BY <1>1, <1>2, <1>3, <1>4, <1>5, <1>6

IInv == TypeInv /\ SnapshotsHold

LEMMA InitIInv == Init => IInv
BY InitTypeInv DEF Init, IInv, SnapshotsHold, SnapshotHolds, At

LEMMA NextIInv == IInv /\ [Next]_vars => IInv'
<1> SUFFICES ASSUME IInv, [Next]_vars
             PROVE  IInv'
  OBVIOUS
<1>1. TypeInv' /\ TypeInv /\ SnapshotsHold
  BY NextTypeInv DEF IInv
<1>2. ASSUME NEW w \in Worker, Start(w) \/ Step(w) \/ Abandon(w)
      PROVE  SnapshotsHold'
  BY <1>1, <1>2, BookkeepingKeepsSnapshots, BeginKeepsSnapshots, MoneyKeepsSnapshots DEF Step
<1>3. CASE RetryExpires \/ UNCHANGED vars
  <2>1. UNCHANGED <<balance, hold, pc, call, stale>>
    BY <1>3 DEF RetryExpires, vars, tables
  <2>2. ASSUME NEW w \in Worker
        PROVE  SnapshotHolds(w)'
    <3>1. SnapshotHolds(w)
      BY <1>1 DEF SnapshotsHold
    <3> QED
      BY <2>1, <3>1 DEF SnapshotHolds, At, currentBalance
  <2> QED
    BY <1>1, <2>2 DEF SnapshotsHold, IInv
<1> QED
  BY <1>1, <1>2, <1>3 DEF Next, IInv

\* A call that reaches its COMMIT without a conflict decided on amounts that are
\* still true: optimistic concurrency is enough for the fee check of
\* processTransaction and for consolidateFee, which writes back what it read.
THEOREM SnapshotSound == Spec => []SnapshotsHold
<1>1. IInv => SnapshotsHold
  BY DEF IInv
<1> QED
  BY <1>1, InitIInv, NextIInv, PTL DEF Spec

-----------------------------------------------------------------------------
(* The services implement Books.                                           *)

LEMMA InitMoney == Init => Money!Init
BY DEF Init, Money!Init, Money!SubKey, SubKey

\* One move of Books per COMMIT, and one for the hold createTransaction autocommits.
LEMMA StepMoney ==
  ASSUME IInv, NEW w \in Worker, Start(w) \/ Step(w) \/ Abandon(w)
  PROVE  [Money!Next]_(Money!books)
<1> DEFINE p == call[w].payment
<1> USE DEF Money!books
<1>t. TypeInv /\ SnapshotHolds(w) /\ p \in PaymentRow
  BY DEF IInv, TypeInv, TypeOK, Local, SnapshotsHold
<1>s. SubKey = Money!SubKey
  BY DEF SubKey, Money!SubKey
<1>k. /\ DebitKey(p) \in SubKey /\ DebitKey(p) = <<p.debit, p.currency>>
      /\ CreditKey(p) = <<p.credit, p.currency>>
      /\ p.debit \in Account /\ p.credit \in Account /\ p.currency \in Currency
  BY <1>t, KeysTyped DEF DebitKey, CreditKey, PaymentRow
<1>1. CASE UNCHANGED <<balance, hold>>
  BY <1>1
<1>2. CASE CreateHold(w) /\ ~Throw(w)
  <2>1. p \in Payments
    BY <1>t, <1>2 DEF CreateHold, At, TypeInv, CallOK
  <2>2. Money!Reserve(p)
    BY <1>2, <1>k DEF CreateHold, Money!Reserve, Money!CanHold, Money!holdForAmount, CanHold, holdForAmount
  <2> QED
    BY <2>1, <2>2 DEF Money!Next
<1>3. CASE CancelCommit(w) /\ ~Throw(w)
  <2>1. p \in Payments
    BY <1>t, <1>3 DEF CancelCommit, At, TypeInv, CallOK, ById
  <2>2. Money!Free(p)
    BY <1>3, <1>k DEF CancelCommit, Money!Free, Money!CanRelease, Money!releaseForAmount, CanRelease, releaseForAmount
  <2> QED
    BY <2>1, <2>2 DEF Money!Next
<1>4. CASE ProcessCommit(w) /\ ~Throw(w)
  <2>1. p \in Payments
    BY <1>t, <1>4 DEF ProcessCommit, At, TypeInv, CallOK, ById
  <2>2. currentBalance(balance, hold, DebitKey(p)) >= calculateTransactionFee(p.amount)
    BY <1>t, <1>4 DEF SnapshotHolds, ProcessCommit, NoConflict
  <2>3. Money!Settle(p)
    BY <1>4, <1>k, <2>2 DEF ProcessCommit, RowsFound, TransitKey, Money!Settle, Money!calculateTransactionFee,
       Money!PAYMENT_FEE_PERCENT, Money!CanRelease, Money!CanCredit, Money!currentBalance,
       Money!releaseForAmount, Money!creditForAmount, Money!debitForAmount,
       calculateTransactionFee, PAYMENT_FEE_PERCENT, CanRelease, CanCredit, currentBalance,
       releaseForAmount, creditForAmount, debitForAmount
  <2> QED
    BY <2>1, <2>3 DEF Money!Next
<1>5. CASE ConsolidateCommit(w) /\ ~Throw(w)
  <2> DEFINE seen == call[w].seen
             moved == {c \in Currency : seen[c] # 0}
             free == [c \in Currency |-> IF c \in moved
                        THEN currentBalance(balance, hold, TransitKey(c)) ELSE 0]
  <2>1. seen \in [Currency -> Int]
    BY <1>t DEF TypeInv, TypeOK, Local
  <2>2. \A c \in moved : seen[c] = currentBalance(balance, hold, TransitKey(c))
    BY <1>t, <1>5 DEF SnapshotHolds, ConsolidateCommit, NoConflict
  <2>3. free = seen
    BY <2>1, <2>2
  <2>4. /\ \A c \in moved : CanCredit(balance, TransitKey(c), seen[c])
        /\ balance' = [k \in SubKey |->
                         IF k[1] = TransitAccount THEN balance[k] - seen[k[2]]
                         ELSE IF k[1] = BalanceAccount THEN balance[k] + seen[k[2]]
                         ELSE balance[k]]
        /\ hold' = hold
    BY <1>5 DEF ConsolidateCommit
  <2> HIDE DEF seen
  <2>5. Money!Sweep(moved)
    BY <1>s, <2>3, <2>4 DEF Money!Sweep, Money!currentBalance, Money!CanCredit, CanCredit,
       currentBalance, TransitKey
  <2> QED
    BY <2>5 DEF Money!Next
<1>6. CASE OpenCommit(w) /\ ~Throw(w)
  <2>1. /\ p.debit = BalanceAccount /\ p.credit \in Regular \ OpenedAccounts
        /\ OpeningOf(p) \in Openings
    BY <1>t, <1>6 DEF OpenCommit, At, TypeInv, CallOK
  <2>2. Money!Fund(p.credit, OpeningOf(p))
    BY <1>6, <1>k, <2>1 DEF OpenCommit, OpeningOf, Money!Fund, Money!CanCredit, Money!creditForAmount,
       Money!debitForAmount, CanCredit, creditForAmount, debitForAmount
  <2> QED
    BY <2>1, <2>2 DEF Money!Next
<1>7. CASE Throw(w)
  BY <1>7, <1>1 DEF Throw, tables
<1>8. CASE \/ Start(w) \/ GetTransactionById(w) \/ GetRetryCounter(w) \/ SetRetryCounter(w)
           \/ RetryAmountExceeded(w) \/ RedisRejects(w) \/ CreateBegin(w) \/ CreateCommit(w) \/ ProcessBegin(w)
           \/ CancelBegin(w) \/ SendSave(w) \/ FailSave(w) \/ ConsolidateBegin(w)
           \/ OpenBegin(w) \/ SerializationFailure(w)
  BY <1>8, <1>1, <1>7 DEF Start, StartById, StartCreate, StartConsolidate, StartOpen, StartFresh,
     GetTransactionById, GetRetryCounter, SetRetryCounter, RetryAmountExceeded, RedisRejects, RetryCheckThrows, CreateBegin,
     CreateCommit, ProcessBegin, CancelBegin, SendSave, FailSave, SaveStatus, ConsolidateBegin,
     OpenBegin, SerializationFailure, OpenSnapshot, tables
<1> QED
  BY <1>2, <1>3, <1>4, <1>5, <1>6, <1>7, <1>8 DEF Step, Abandon

LEMMA NextMoney == IInv /\ [Next]_vars => [Money!Next]_(Money!books)
BY StepMoney DEF Next, RetryExpires, vars, tables, Money!books

\* Every step of the overlapping, retried, abandoned calls is at most one move of
\* Books, decided on the amounts of that moment.
THEOREM Refinement == Spec => ImplementsBooks
BY InitMoney, NextMoney, InitIInv, NextIInv, PTL DEF Spec, ImplementsBooks, Money!Spec

MoneyFacts == INSTANCE BooksProofs WITH NewAccount <- Regular \ OpenedAccounts

\* The invariants of Books hold of the tables in every state of the services.
LEMMA BooksHold == Spec => [](MoneyFacts!BooksInv /\ MoneyFacts!Conserved)
<1>1. MoneyFacts!BooksAssumption
  <2>1. MoneyFacts!SubKey = SubKey
    BY DEF MoneyFacts!SubKey, SubKey
  <2>2. /\ Payments \subseteq [debit: Account, credit: Account, amount: Int, currency: Currency]
        /\ Regular \ OpenedAccounts \subseteq Account \ {BalanceAccount, TransitAccount}
    BY LedgerAssumption DEF PaymentRow, Account
  <2>3. IsFiniteSet(Account)
    <3>1. IsFiniteSet(Regular \cup {BalanceAccount})
      BY LedgerAssumption, FS_AddElement
    <3>2. IsFiniteSet((Regular \cup {BalanceAccount}) \cup {TransitAccount})
      BY <3>1, FS_AddElement
    <3>3. Account = (Regular \cup {BalanceAccount}) \cup {TransitAccount}
      BY DEF Account
    <3> QED
      BY <3>2, <3>3
  <2>4. MoneyFacts!IsFiniteSet(Account)
    BY <2>3 DEF IsFiniteSet, MoneyFacts!IsFiniteSet
  <2> QED
    BY <2>1, <2>2, <2>4, LedgerAssumption DEF MoneyFacts!BooksAssumption, Account
<1>2. Init => MoneyFacts!BooksInv /\ MoneyFacts!Conserved
  <2>1. Init => MoneyFacts!Init
    BY DEF Init, MoneyFacts!Init, MoneyFacts!SubKey, SubKey
  <2> QED
    BY <1>1, <2>1, MoneyFacts!InitBooksInv, MoneyFacts!InitConserved
<1>3. IInv /\ [Next]_vars => [MoneyFacts!Next]_(MoneyFacts!books)
  <2>1. /\ Money!SubKey = MoneyFacts!SubKey /\ Money!books = MoneyFacts!books
        /\ Money!Next => MoneyFacts!Next
    BY DEF Money!Next, MoneyFacts!Next, Money!SubKey, MoneyFacts!SubKey, Money!books,
       MoneyFacts!books, Money!Reserve, MoneyFacts!Reserve, Money!Free, MoneyFacts!Free,
       Money!Settle, MoneyFacts!Settle, Money!Sweep, MoneyFacts!Sweep, Money!Fund,
       MoneyFacts!Fund, Money!CanHold, MoneyFacts!CanHold, Money!holdForAmount,
       MoneyFacts!holdForAmount, Money!CanRelease, MoneyFacts!CanRelease,
       Money!releaseForAmount, MoneyFacts!releaseForAmount, Money!CanCredit,
       MoneyFacts!CanCredit, Money!creditForAmount, MoneyFacts!creditForAmount,
       Money!debitForAmount, MoneyFacts!debitForAmount, Money!currentBalance,
       MoneyFacts!currentBalance, Money!calculateTransactionFee,
       MoneyFacts!calculateTransactionFee, Money!PAYMENT_FEE_PERCENT,
       MoneyFacts!PAYMENT_FEE_PERCENT
  <2> QED
    BY <2>1, NextMoney DEF Money!books, MoneyFacts!books
<1>4. /\ MoneyFacts!BooksInv /\ MoneyFacts!Conserved
      /\ [MoneyFacts!Next]_(MoneyFacts!books)
      => (MoneyFacts!BooksInv /\ MoneyFacts!Conserved)'
  BY <1>1, MoneyFacts!NextBooksInv, MoneyFacts!NextConserved
<1> QED
  BY <1>2, <1>3, <1>4, InitIInv, NextIInv, PTL DEF Spec

\* No interleaving of the UPDATEs of any number of calls takes a balance or a hold
\* below zero, but those that a submitted amount below zero reaches.
THEOREM ServicesNonNegative == Spec => []NonNegative
<1>1. MoneyFacts!BooksInv => NonNegative
  BY DEF MoneyFacts!BooksInv, MoneyFacts!NeverNegative, MoneyFacts!SubKey, SubKey, NonNegative,
     MoneyFacts!Reached, Money!Reached
<1> QED
  BY <1>1, BooksHold, PTL

\* Whatever overlaps, is retried, fails or dies half-way, the money of a currency adds
\* up to what the migrations put in: no call takes an amount and gives another.
THEOREM ServicesConserve == Spec => []Conservation
<1>1. MoneyFacts!Conserved => Conservation
  BY DEF MoneyFacts!Conserved, MoneyFacts!Total, Conservation,
     MoneyFacts!SumFunctionOnSet, SumFunctionOnSet, MoneyFacts!FoldFunctionOnSet,
     FoldFunctionOnSet, MoneyFacts!MapThenFoldSet, MapThenFoldSet
<1> QED
  BY <1>1, BooksHold, PTL

\* And none leaves an account that no such amount reaches, other than the balance
\* account, with less than it holds.
THEOREM Solvent == Spec => []HoldCovered
<1>1. MoneyFacts!BooksInv => HoldCovered
  BY DEF MoneyFacts!BooksInv, MoneyFacts!Covered, MoneyFacts!SubKey, SubKey, HoldCovered,
     MoneyFacts!Reached, Money!Reached
<1> QED
  BY <1>1, BooksHold, PTL

-----------------------------------------------------------------------------
(* The transit account.                                                    *)

\* Nobody but processTransaction and consolidateFee touches the transit account.
FeeInv == TypeInv /\ FeesReconcile

LEMMA StepFees ==
  ASSUME FeeInv, NEW w \in Worker, Start(w) \/ Step(w) \/ Abandon(w),
         \A p \in Payments : TransitAccount \notin {p.debit, p.credit},
         NEW c \in Currency
  PROVE  balance'[TransitKey(c)] = feeRows'[c] - sweptRows'[c]
<1> DEFINE p == call[w].payment
           kt == TransitKey(c)
<1>t. /\ TypeInv /\ p \in PaymentRow /\ balance \in [SubKey -> Int]
      /\ feeRows \in [Currency -> Int] /\ sweptRows \in [Currency -> Int]
  BY DEF FeeInv, TypeInv, TypeOK, Local
<1>0. balance[kt] = feeRows[c] - sweptRows[c]
  BY DEF FeeInv, FeesReconcile, TransitKey
<1>k. /\ kt \in SubKey /\ DebitKey(p) \in SubKey /\ CreditKey(p) \in SubKey
      /\ p.currency \in Currency /\ p.amount \in Int /\ calculateTransactionFee(p.amount) \in Int
  BY <1>t, KeysTyped DEF TransitKey, SubKey, Account, PaymentRow
<1>1. CASE UNCHANGED <<balance, feeRows, sweptRows>>
  BY <1>0, <1>1
<1>2. CASE ProcessCommit(w) /\ ~Throw(w)
  <2> DEFINE fee == calculateTransactionFee(p.amount)
             paid == creditForAmount(balance, DebitKey(p), p.amount + fee)
             got == debitForAmount(paid, CreditKey(p), p.amount)
  <2>1. /\ balance' = debitForAmount(got, TransitKey(p.currency), fee)
        /\ feeRows' = [feeRows EXCEPT ![p.currency] = @ + fee]
        /\ sweptRows' = sweptRows
    BY <1>2 DEF ProcessCommit
  <2>2. p \in Payments
    BY <1>t, <1>2 DEF ProcessCommit, At, TypeInv, CallOK, ById
  <2>3. DebitKey(p) # kt /\ CreditKey(p) # kt
    BY <2>2 DEF DebitKey, CreditKey, TransitKey
  <2>4. TransitKey(p.currency) = kt <=> p.currency = c
    BY DEF TransitKey
  <2>5. fee \in Int
    BY <1>k
  <2> HIDE DEF p, kt, fee
  <2>6. paid[kt] = balance[kt] /\ DOMAIN paid = SubKey
    BY <1>t, <1>k, <2>3 DEF creditForAmount
  <2> HIDE DEF paid
  <2>7. got[kt] = balance[kt] /\ DOMAIN got = SubKey
    BY <2>3, <2>6 DEF debitForAmount
  <2> HIDE DEF got
  <2>8. CASE p.currency = c
    <3>1. balance'[kt] = balance[kt] + fee /\ feeRows'[c] = feeRows[c] + fee
      BY <1>t, <1>k, <2>1, <2>4, <2>7, <2>8 DEF debitForAmount
    <3> QED
      BY <1>t, <1>0, <1>k, <2>1, <2>5, <3>1 DEF kt
  <2>9. CASE p.currency # c
    BY <1>0, <1>k, <2>1, <2>4, <2>7, <2>9 DEF debitForAmount, kt
  <2> QED
    BY <2>8, <2>9
<1>3. CASE ConsolidateCommit(w) /\ ~Throw(w)
  <2>1. /\ sweptRows' = [d \in Currency |-> sweptRows[d] + call[w].seen[d]]
        /\ balance'[kt] = balance[kt] - call[w].seen[c]
        /\ feeRows' = feeRows
    BY <1>3, <1>k DEF ConsolidateCommit, TransitKey
  <2>2. call[w].seen[c] \in Int
    BY <1>t DEF TypeInv, TypeOK, Local
  <2> QED
    BY <1>t, <1>0, <1>k, <2>1, <2>2
<1>4. CASE OpenCommit(w) /\ ~Throw(w)
  <2>1. p.debit = BalanceAccount /\ p.credit \in Regular
    BY <1>t, <1>4 DEF OpenCommit, At, TypeInv, CallOK
  <2>2. DebitKey(p) # kt /\ CreditKey(p) # kt
    BY <2>1, LedgerAssumption DEF DebitKey, CreditKey, TransitKey
  <2>3. /\ balance' = debitForAmount(creditForAmount(balance, DebitKey(p), p.amount), CreditKey(p), p.amount)
        /\ UNCHANGED <<feeRows, sweptRows>>
    BY <1>4 DEF OpenCommit
  <2> HIDE DEF p, kt
  <2>4. balance'[kt] = balance[kt]
    BY <1>t, <1>k, <2>2, <2>3 DEF debitForAmount, creditForAmount
  <2> QED
    BY <1>0, <2>3, <2>4 DEF kt
<1>5. CASE Throw(w)
  BY <1>1, <1>5 DEF Throw, tables
<1>6. CASE \/ Start(w) \/ GetTransactionById(w) \/ GetRetryCounter(w) \/ SetRetryCounter(w)
           \/ RetryAmountExceeded(w) \/ RedisRejects(w) \/ CreateBegin(w) \/ CreateHold(w) \/ CreateCommit(w)
           \/ ProcessBegin(w) \/ CancelBegin(w) \/ CancelCommit(w) \/ SendSave(w) \/ FailSave(w)
           \/ ConsolidateBegin(w) \/ OpenBegin(w) \/ SerializationFailure(w)
  BY <1>6, <1>1, <1>5 DEF Start, StartById, StartCreate, StartConsolidate, StartOpen, StartFresh,
     GetTransactionById, GetRetryCounter, SetRetryCounter, RetryAmountExceeded, RedisRejects, RetryCheckThrows, CreateBegin,
     CreateHold, CreateCommit, ProcessBegin, CancelBegin, CancelCommit, SendSave, FailSave,
     SaveStatus, ConsolidateBegin, OpenBegin, SerializationFailure, OpenSnapshot, tables
<1> QED
  BY <1>2, <1>3, <1>4, <1>5, <1>6 DEF Step, Abandon

LEMMA InitFeeInv == Init => FeeInv
<1> SUFFICES ASSUME Init
             PROVE  FeesReconcile
  BY InitTypeInv DEF FeeInv
<1> SUFFICES ASSUME NEW c \in Currency
             PROVE  balance[TransitKey(c)] = feeRows[c] - sweptRows[c]
  BY DEF FeesReconcile, TransitKey
<1> QED
  BY LedgerAssumption DEF Init, TransitKey

LEMMA NextFeeInv == FeeInv /\ [Next]_vars => FeeInv'
<1> SUFFICES ASSUME FeeInv, [Next]_vars
             PROVE  FeesReconcile'
  BY NextTypeInv DEF FeeInv
<1> SUFFICES ASSUME \A p \in Payments : TransitAccount \notin {p.debit, p.credit},
                    NEW c \in Currency
             PROVE  balance'[TransitKey(c)] = feeRows'[c] - sweptRows'[c]
  BY DEF FeesReconcile, TransitKey
<1>1. CASE \E w \in Worker : Start(w) \/ Step(w) \/ Abandon(w)
  BY <1>1, StepFees
<1>2. CASE UNCHANGED <<balance, feeRows, sweptRows>>
  BY <1>2 DEF FeeInv, FeesReconcile, TransitKey
<1> QED
  BY <1>1, <1>2 DEF Next, RetryExpires, vars, tables

\* The transit account always holds the fees charged and not yet consolidated.
THEOREM FeesKept == Spec => []FeesReconcile
<1>1. FeeInv => FeesReconcile
  BY DEF FeeInv
<1> QED
  BY <1>1, InitFeeInv, NextFeeInv, PTL DEF Spec
=============================================================================
