-------------------------- MODULE LedgerLifeProofs --------------------------
(***************************************************************************)
(* The services implement LifeCycle, and so keep its promises to careful   *)
(* callers, for any number of calls, payments and accounts.                *)
(***************************************************************************)
EXTENDS LedgerServicesProofs

LifeFacts == INSTANCE LifeCycleProofs WITH Caller <- Worker, visit <- visits

-----------------------------------------------------------------------------
(* What a call has decided on its copy of the status, at each label.       *)

CopyOK(c, label) ==
  /\ label = "idle" => c.op = "none"
  /\ c.op = "create" => c.status = "initiated"
  /\ c.op \in ById \cup {"fail"} /\ label # "read" => c.status \in Status
  /\ c.op = "process" /\ label = "commit" => c.status = "pending"
  /\ c.op = "cancel" /\ label = "commit" => c.status = "initiated"

LifeInv == TypeInv /\ \A w \in Worker : CopyOK(call[w], pc[w])

\* The part of a call that LifeCycle sees.
VisitOf(c) ==
  IF c.op \in ById \cup {"create", "fail"}
  THEN [op |-> c.op, id |-> c.id, copy |-> c.status]
  ELSE [op |-> "none", id |-> NoId, copy |-> "absent"]

LEMMA InitLife == Init => LifeInv /\ LifeFacts!Init
<1> SUFFICES ASSUME Init PROVE LifeInv /\ LifeFacts!Init
  OBVIOUS
<1>1. LifeInv
  BY InitTypeInv DEF Init, LifeInv, CopyOK, NoCall, ById
<1>2. LifeFacts!Init
  BY DEF Init, LifeFacts!Init, LifeFacts!NoVisit, visits, NoCall, ById
<1> QED
  BY <1>1, <1>2

\* A step that gives one call new variables and a new label.
LEMMA CopyMoves ==
  ASSUME LifeInv, TypeInv', NEW w \in Worker, NEW c, NEW l, CopyOK(c, l),
         call' = [call EXCEPT ![w] = c], pc' = [pc EXCEPT ![w] = l]
  PROVE  LifeInv' /\ visits' = [visits EXCEPT ![w] = VisitOf(c)]
<1>t. call \in [Worker -> Local] /\ pc \in [Worker -> Label]
  BY DEF LifeInv, TypeInv, TypeOK
<1>1. \A v \in Worker : call'[v] = (IF v = w THEN c ELSE call[v])
  BY <1>t
<1>2. \A v \in Worker : pc'[v] = (IF v = w THEN l ELSE pc[v])
  BY <1>t
<1>3. LifeInv'
  BY <1>1, <1>2 DEF LifeInv, CopyOK
<1>4. visits' = [visits EXCEPT ![w] = VisitOf(c)]
  BY <1>1 DEF visits, VisitOf
<1> QED
  BY <1>3, <1>4

LEMMA CopyReturns ==
  ASSUME LifeInv, TypeInv', NEW w \in Worker, Return(w)
  PROVE  /\ LifeInv'
         /\ visits' = [visits EXCEPT ![w] = LifeFacts!NoVisit]
<1>1. CopyOK(NoCall, "idle") /\ VisitOf(NoCall) = LifeFacts!NoVisit
  BY DEF CopyOK, VisitOf, NoCall, ById, LifeFacts!NoVisit
<1> QED
  BY <1>1, CopyMoves DEF Return, Goto

\* A call of LifeCycle that ends without an effect on a row.
LEMMA ThrowLife ==
  ASSUME LifeInv, TypeInv', NEW w \in Worker, Throw(w)
  PROVE  LifeInv' /\ LifeFacts!Drop({w})
<1>1. LifeInv' /\ visits' = [visits EXCEPT ![w] = LifeFacts!NoVisit]
  BY CopyReturns DEF Throw, ReturnAndPublish
<1>2. visits' = [c \in Worker |-> IF c \in {w} THEN LifeFacts!NoVisit ELSE visits[c]]
  BY <1>1 DEF visits
<1> QED
  BY <1>1, <1>2 DEF Throw, tables, LifeFacts!Drop

\* A call that ends by writing the status its operation writes.
LEMMA SaveLife ==
  ASSUME LifeInv, TypeInv', NEW w \in Worker, Return(w),
         call[w].op \in ById \cup {"create", "fail"},
         call[w].status \in LifeFacts!Needs(call[w].op),
         status' = [status EXCEPT ![call[w].id] = LifeFacts!Writes(call[w].op)],
         settled' = IF call[w].op = "process"
                    THEN [settled EXCEPT ![call[w].id] = IF @ = 0 THEN 1 ELSE 2]
                    ELSE settled
  PROVE  LifeInv' /\ LifeFacts!Succeed(w)
<1>1. LifeInv' /\ visits' = [visits EXCEPT ![w] = LifeFacts!NoVisit]
  BY CopyReturns
<1>2. visits[w] = [op |-> call[w].op, id |-> call[w].id, copy |-> call[w].status]
  BY DEF visits
<1> QED
  BY <1>1, <1>2 DEF LifeFacts!Succeed, LifeFacts!Op, LifeFacts!ById, ById

-----------------------------------------------------------------------------
(* One lemma per kind of step.                                             *)

LEMMA StartLife ==
  ASSUME LifeInv, TypeInv', NEW w \in Worker, Start(w)
  PROVE  LifeInv' /\ [LifeFacts!Next]_(LifeFacts!vars)
<1>t. call \in [Worker -> Local] /\ pc \in [Worker -> Label]
  BY DEF LifeInv, TypeInv, TypeOK
<1>i. pc[w] = "idle" => visits[w].op = "none" /\ visits[w] = LifeFacts!NoVisit
  BY DEF LifeInv, CopyOK, visits, ById, LifeFacts!NoVisit
<1>1. CASE StartById(w)
  <2> PICK o \in ApiOps \cap ById, i \in TrxId :
        /\ pc[w] = "idle"
        /\ \A v \in Worker : call[v].id = i => ~Exclusive /\ call[v].op # "create"
        /\ call' = [call EXCEPT ![w] = [NoCall EXCEPT !.op = o, !.id = i]]
        /\ Goto(w, "read")
        /\ UNCHANGED <<tables, retry, stale, settled>>
    BY <1>1 DEF StartById
  <2> DEFINE c == [NoCall EXCEPT !.op = o, !.id = i]
  <2>1. CopyOK(c, "read") /\ VisitOf(c) = [op |-> o, id |-> i, copy |-> "absent"]
    BY DEF CopyOK, VisitOf, NoCall, ById
  <2>2. LifeInv' /\ visits' = [visits EXCEPT ![w] = VisitOf(c)]
    BY <2>1, CopyMoves DEF Goto
  <2>3. \A v \in Worker : LifeFacts!On(v, i) => call[v].id = i /\ visits[v].op = call[v].op
    BY DEF LifeFacts!On, LifeFacts!Idle, visits
  <2>4. LifeFacts!Call(w, o, i)
    BY <1>i, <2>1, <2>2, <2>3 DEF LifeFacts!Call, LifeFacts!Idle, LifeFacts!ById, ById, tables
  <2> QED
    BY <2>2, <2>4 DEF LifeFacts!Next, LifeFacts!ById, ById
<1>2. CASE StartCreate(w)
  <2> PICK p \in Payments, i \in UnusedIds :
        StartFresh(w, [NoCall EXCEPT !.op = "create", !.id = i, !.status = "initiated", !.payment = p])
    BY <1>2 DEF StartCreate
  <2> DEFINE c == [NoCall EXCEPT !.op = "create", !.id = i, !.status = "initiated", !.payment = p]
  <2>1. CopyOK(c, "getRetry") /\ VisitOf(c) = [op |-> "create", id |-> i, copy |-> "initiated"]
    BY DEF CopyOK, VisitOf, NoCall, ById
  <2>2. LifeInv' /\ visits' = [visits EXCEPT ![w] = VisitOf(c)]
    BY <2>1, CopyMoves DEF StartFresh, Goto
  <2>3. i \in TrxId /\ status[i] = "absent" /\ \A v \in Worker : ~LifeFacts!On(v, i)
    BY DEF UnusedIds, LifeFacts!On, LifeFacts!Idle, visits
  <2>4. LifeFacts!CallCreate(w, i)
    BY <1>i, <2>1, <2>2, <2>3 DEF LifeFacts!CallCreate, LifeFacts!Idle, StartFresh, tables
  <2> QED
    BY <2>2, <2>3, <2>4 DEF LifeFacts!Next
<1>3. ASSUME NEW c, StartFresh(w, c), c.op \notin ById \cup {"create", "fail"}
      PROVE  LifeInv' /\ UNCHANGED LifeFacts!vars
  <2>1. CopyOK(c, "getRetry") /\ VisitOf(c) = LifeFacts!NoVisit
    BY <1>3 DEF CopyOK, VisitOf, ById, LifeFacts!NoVisit
  <2>2. LifeInv' /\ visits' = [visits EXCEPT ![w] = LifeFacts!NoVisit]
    BY <1>3, <2>1, CopyMoves DEF StartFresh, Goto
  <2>3. visits' = visits
    BY <1>3, <1>i, <2>2 DEF StartFresh, visits
  <2> QED
    BY <1>3, <2>2, <2>3 DEF StartFresh, tables, LifeFacts!vars
<1>4. CASE StartConsolidate(w)
  <2>1. [NoCall EXCEPT !.op = "consolidate"].op = "consolidate"
    BY DEF NoCall
  <2> QED
    BY <1>3, <1>4, <2>1 DEF StartConsolidate, ById
<1>5. CASE StartOpen(w)
  <2>1. ASSUME NEW p PROVE [NoCall EXCEPT !.op = "open", !.payment = p].op = "open"
    BY DEF NoCall
  <2> QED
    BY <1>3, <1>5, <2>1 DEF StartOpen, ById
<1> QED
  BY <1>1, <1>2, <1>4, <1>5 DEF Start

LEMMA BookkeepingLife ==
  ASSUME LifeInv, TypeInv', NEW w \in Worker,
         \/ GetTransactionById(w) \/ GetRetryCounter(w)
         \/ SetRetryCounter(w) \/ RetryAmountExceeded(w) \/ RedisRejects(w)
  PROVE  LifeInv' /\ [LifeFacts!Next]_(LifeFacts!vars)
<1>t. /\ call[w] \in Local /\ CallOK(call[w], pc[w], status) /\ CopyOK(call[w], pc[w])
      /\ call \in [Worker -> Local] /\ status \in [TrxId -> RowStatus]
  BY DEF LifeInv, TypeInv, TypeOK
<1>d. Throw(w) => LifeInv' /\ [LifeFacts!Next]_(LifeFacts!vars)
  BY ThrowLife DEF LifeFacts!Next
<1>1. CASE GetTransactionById(w) /\ ~Throw(w)
  <2> DEFINE i == call[w].id
             c == [call[w] EXCEPT !.status = status[i], !.payment = payment[i]]
  <2>1. /\ pc[w] = "read" /\ status[i] # "absent" /\ i \in TrxId
        /\ call[w].op \in ById \cup {"fail"}
        /\ call' = [call EXCEPT ![w] = c]
        /\ pc' = [pc EXCEPT ![w] = "getRetry"]
        /\ UNCHANGED <<tables, retry, stale, settled>>
    BY <1>t, <1>1 DEF GetTransactionById, Goto, CallOK
  <2>2. c.op = call[w].op /\ c.id = i /\ c.status = status[i]
    BY <1>t DEF Local
  <2>3. CopyOK(c, "getRetry")
    BY <1>t, <2>1, <2>2 DEF CopyOK, RowStatus, ById
  <2>4. VisitOf(c) = [VisitOf(call[w]) EXCEPT !.copy = status[i]]
    BY <2>1, <2>2 DEF VisitOf
  <2>5. visits[w] = VisitOf(call[w]) /\ visits[w].id = i /\ visits[w].op = call[w].op
    BY <2>1 DEF visits, VisitOf
  <2> HIDE DEF c
  <2>6. LifeInv' /\ visits' = [visits EXCEPT ![w] = VisitOf(c)]
    BY <2>1, <2>3, CopyMoves
  <2>7. LifeFacts!Read(w)
    BY <2>1, <2>4, <2>5, <2>6 DEF LifeFacts!Read, LifeFacts!ById, ById, tables
  <2> QED
    BY <2>6, <2>7 DEF LifeFacts!Next
<1>2. CASE GetRetryCounter(w)
  <2> DEFINE c == [call[w] EXCEPT !.count = retry[KeyOf(call[w], w)]]
  <2>1. c.op = call[w].op /\ c.id = call[w].id /\ c.status = call[w].status
    BY <1>t DEF Local
  <2>2. CopyOK(c, "setRetry") /\ VisitOf(c) = visits[w]
    BY <1>t, <1>2, <2>1 DEF CopyOK, VisitOf, visits, GetRetryCounter
  <2>3. call' = [call EXCEPT ![w] = c] /\ pc' = [pc EXCEPT ![w] = "setRetry"]
    BY <1>2 DEF GetRetryCounter, Goto
  <2> HIDE DEF c
  <2>4. LifeInv' /\ visits' = [visits EXCEPT ![w] = visits[w]]
    BY <2>2, <2>3, CopyMoves
  <2>5. visits' = visits
    BY <2>4 DEF visits
  <2> QED
    BY <1>2, <2>4, <2>5 DEF GetRetryCounter, tables, LifeFacts!vars
<1>3. CASE SetRetryCounter(w)
  <2>1. CopyOK(call[w], "begin") /\ VisitOf(call[w]) = visits[w]
    BY <1>t, <1>3 DEF CopyOK, VisitOf, visits, SetRetryCounter
  <2>2. call' = [call EXCEPT ![w] = call[w]] /\ pc' = [pc EXCEPT ![w] = "begin"] /\ visits' = visits
    BY <1>t, <1>3 DEF SetRetryCounter, Goto, visits
  <2>3. LifeInv'
    BY <2>1, <2>2, CopyMoves
  <2> QED
    BY <1>3, <2>2, <2>3 DEF SetRetryCounter, tables, LifeFacts!vars
<1>4. CASE (RetryAmountExceeded(w) \/ RedisRejects(w)) /\ ~Throw(w)
  <2> DEFINE c == [NoCall EXCEPT !.op = "fail", !.id = call[w].id]
  <2>1. /\ pc[w] \in {"getRetry", "setRetry"} /\ call[w].op = "process"
        /\ call' = [call EXCEPT ![w] = c] /\ pc' = [pc EXCEPT ![w] = "read"]
        /\ UNCHANGED <<tables, retry, stale, settled>>
    BY <1>4 DEF RetryAmountExceeded, RedisRejects, RetryCheckThrows, Goto
  <2>2. CopyOK(c, "read") /\ VisitOf(c) = [op |-> "fail", id |-> call[w].id, copy |-> "absent"]
    BY DEF CopyOK, VisitOf, NoCall, ById
  <2>3. visits[w] = [op |-> "process", id |-> call[w].id, copy |-> call[w].status]
    BY <2>1 DEF visits, ById
  <2>4. call[w].status # "absent"
    BY <1>t, <2>1 DEF CopyOK, ById, Status
  <2>5. LifeInv' /\ visits' = [visits EXCEPT ![w] = VisitOf(c)]
    BY <2>1, <2>2, CopyMoves
  <2>6. LifeFacts!GiveUp(w)
    <3>1. VisitOf(c) = [op |-> "fail", id |-> visits[w].id, copy |-> "absent"]
      BY <2>2, <2>3
    <3>2. visits[w].op = "process" /\ visits[w].copy # "absent"
      BY <2>3, <2>4
    <3> HIDE DEF c
    <3> QED
      BY <2>1, <2>5, <3>1, <3>2 DEF LifeFacts!GiveUp, tables
  <2> QED
    BY <2>5, <2>6 DEF LifeFacts!Next
<1> QED
  BY <1>d, <1>1, <1>2, <1>3, <1>4

\* Steps that take the snapshot or hold the amount: LifeCycle does not see them.
LEMMA BeginLife ==
  ASSUME LifeInv, TypeInv', NEW w \in Worker,
         \/ CreateBegin(w) \/ CreateHold(w) \/ ProcessBegin(w) \/ CancelBegin(w)
         \/ ConsolidateBegin(w) \/ OpenBegin(w)
  PROVE  LifeInv' /\ [LifeFacts!Next]_(LifeFacts!vars)
<1>t. /\ call[w] \in Local /\ CopyOK(call[w], pc[w])
      /\ call \in [Worker -> Local]
  BY DEF LifeInv, TypeInv, TypeOK
<1>d. Throw(w) => LifeInv' /\ [LifeFacts!Next]_(LifeFacts!vars)
  BY ThrowLife DEF LifeFacts!Next
<1>1. ASSUME NEW l, CopyOK(call[w], l), UNCHANGED <<call, status, settled>>, Goto(w, l)
      PROVE  LifeInv' /\ UNCHANGED LifeFacts!vars
  <2>1. call' = [call EXCEPT ![w] = call[w]] /\ pc' = [pc EXCEPT ![w] = l] /\ visits' = visits
    BY <1>t, <1>1 DEF Goto, visits
  <2> QED
    BY <1>1, <2>1, CopyMoves DEF LifeFacts!vars
<1>2. CASE (CreateBegin(w) \/ CreateHold(w) \/ OpenBegin(w)) /\ ~Throw(w)
  <2>1. CopyOK(call[w], "hold") /\ CopyOK(call[w], "commit")
    BY <1>t, <1>2 DEF CopyOK, CreateBegin, CreateHold, OpenBegin, At, ById
  <2> QED
    BY <1>1, <1>2, <2>1 DEF CreateBegin, CreateHold, OpenBegin, OpenSnapshot, tables
<1>3. CASE (ProcessBegin(w) \/ CancelBegin(w)) /\ ~Throw(w)
  <2>1. CopyOK(call[w], "commit")
    BY <1>t, <1>3 DEF CopyOK, ProcessBegin, CancelBegin, At, ById, Status
  <2> QED
    BY <1>1, <1>3, <2>1 DEF ProcessBegin, CancelBegin, OpenSnapshot, tables
<1>4. CASE ConsolidateBegin(w)
  <2> DEFINE c == [call[w] EXCEPT !.seen =
                     [k \in Currency |-> currentBalance(balance, hold, TransitKey(k))]]
  <2>1. c.op = "consolidate" /\ call[w].op = "consolidate"
    BY <1>t, <1>4 DEF ConsolidateBegin, At, Local
  <2>2. CopyOK(c, "commit") /\ VisitOf(c) = visits[w]
    BY <2>1 DEF CopyOK, VisitOf, visits, ById
  <2>3. call' = [call EXCEPT ![w] = c] /\ pc' = [pc EXCEPT ![w] = "commit"]
    BY <1>4 DEF ConsolidateBegin, OpenSnapshot, Goto
  <2> HIDE DEF c
  <2>4. LifeInv' /\ visits' = [visits EXCEPT ![w] = visits[w]]
    BY <2>2, <2>3, CopyMoves
  <2>5. visits' = visits
    BY <2>4 DEF visits
  <2> QED
    BY <1>4, <2>4, <2>5 DEF ConsolidateBegin, OpenSnapshot, tables, LifeFacts!vars
<1> QED
  BY <1>d, <1>2, <1>3, <1>4

\* Steps that end a call with its effect.
LEMMA CommitLife ==
  ASSUME LifeInv, TypeInv', NEW w \in Worker,
         \/ CreateCommit(w) \/ ProcessCommit(w) \/ CancelCommit(w) \/ SendSave(w)
         \/ FailSave(w) \/ ConsolidateCommit(w) \/ OpenCommit(w)
  PROVE  LifeInv' /\ [LifeFacts!Next]_(LifeFacts!vars)
<1>t. CopyOK(call[w], pc[w])
  BY DEF LifeInv
<1>d. Throw(w) => LifeInv' /\ [LifeFacts!Next]_(LifeFacts!vars)
  BY ThrowLife DEF LifeFacts!Next
<1>s. LifeFacts!Succeed(w) => [LifeFacts!Next]_(LifeFacts!vars)
  BY DEF LifeFacts!Next
<1> USE DEF LifeFacts!Needs, LifeFacts!Writes, LifeFacts!Status, ById, At, CopyOK
<1>1. CASE CreateCommit(w) /\ ~Throw(w)
  BY <1>t, <1>1, <1>s, SaveLife DEF CreateCommit, ReturnAndPublish
<1>2. CASE ProcessCommit(w) /\ ~Throw(w)
  BY <1>t, <1>2, <1>s, SaveLife DEF ProcessCommit, ReturnAndPublish
<1>3. CASE CancelCommit(w) /\ ~Throw(w)
  BY <1>t, <1>3, <1>s, SaveLife DEF CancelCommit, ReturnAndPublish
<1>4. CASE SendSave(w) /\ ~Throw(w)
  BY <1>t, <1>4, <1>s, SaveLife DEF SendSave, SaveStatus, ReturnAndPublish
<1>5. CASE FailSave(w)
  BY <1>t, <1>5, <1>s, SaveLife DEF FailSave, SaveStatus, ReturnAndPublish, Status
<1>6. CASE (ConsolidateCommit(w) \/ OpenCommit(w)) /\ ~Throw(w)
  <2>1. Return(w) /\ UNCHANGED <<status, settled>> /\ call[w].op \in {"consolidate", "open"}
    BY <1>6 DEF ConsolidateCommit, OpenCommit, ReturnAndPublish
  <2>2. LifeInv' /\ visits' = [visits EXCEPT ![w] = LifeFacts!NoVisit]
    BY <2>1, CopyReturns
  <2>3. visits' = visits
    BY <2>1, <2>2 DEF visits, LifeFacts!NoVisit
  <2> QED
    BY <2>1, <2>2, <2>3 DEF LifeFacts!vars
<1> QED
  BY <1>d, <1>1, <1>2, <1>3, <1>4, <1>5, <1>6

LEMMA FailureLife ==
  ASSUME LifeInv, TypeInv', NEW w \in Worker, SerializationFailure(w) \/ Abandon(w)
  PROVE  LifeInv' /\ [LifeFacts!Next]_(LifeFacts!vars)
<1>t. /\ call[w] \in Local /\ CopyOK(call[w], pc[w])
      /\ call \in [Worker -> Local]
  BY DEF LifeInv, TypeInv, TypeOK
<1>1. CASE Abandon(w)
  BY <1>1, ThrowLife DEF Abandon, LifeFacts!Next
<1>2. CASE SerializationFailure(w) /\ call[w].op \in ById
  <2> DEFINE c == [NoCall EXCEPT !.op = call[w].op, !.id = call[w].id]
  <2>1. /\ call' = [call EXCEPT ![w] = c] /\ pc' = [pc EXCEPT ![w] = "read"]
        /\ UNCHANGED <<status, settled>>
    BY <1>2 DEF SerializationFailure, Retried, Goto, tables
  <2>2. CopyOK(c, "read") /\ VisitOf(c) = [op |-> call[w].op, id |-> call[w].id, copy |-> "absent"]
    BY <1>2 DEF CopyOK, VisitOf, NoCall, ById
  <2>3. visits[w] = [op |-> call[w].op, id |-> call[w].id, copy |-> call[w].status]
    BY <1>2 DEF visits
  <2>4. LifeInv' /\ visits' = [visits EXCEPT ![w] = VisitOf(c)]
    BY <2>1, <2>2, CopyMoves
  <2>5. LifeFacts!Restart(w)
    <3>1. VisitOf(c) = [visits[w] EXCEPT !.copy = "absent"]
      BY <2>2, <2>3
    <3>2. visits[w].op \in ById
      BY <1>2, <2>3
    <3> HIDE DEF c
    <3> QED
      BY <2>1, <2>4, <3>1, <3>2 DEF LifeFacts!Restart, LifeFacts!ById, ById
  <2> QED
    BY <2>4, <2>5 DEF LifeFacts!Next
<1>3. CASE SerializationFailure(w) /\ call[w].op \notin ById
  <2> DEFINE c == [call[w] EXCEPT !.count = 1, !.seen = NothingSeen]
  <2>1. c.op = call[w].op /\ c.id = call[w].id /\ c.status = call[w].status
    BY <1>t DEF Local
  <2>2. /\ call' = [call EXCEPT ![w] = c] /\ pc' = [pc EXCEPT ![w] = "getRetry"]
        /\ UNCHANGED <<status, settled>> /\ pc[w] \in {"hold", "commit"}
    BY <1>3 DEF SerializationFailure, Retried, Goto, tables, InTx
  <2>3. CopyOK(c, "getRetry") /\ VisitOf(c) = visits[w]
    BY <1>t, <1>3, <2>1, <2>2 DEF CopyOK, VisitOf, visits
  <2> HIDE DEF c
  <2>4. LifeInv' /\ visits' = [visits EXCEPT ![w] = visits[w]]
    BY <2>2, <2>3, CopyMoves
  <2>5. visits' = visits
    BY <2>4 DEF visits
  <2> QED
    BY <2>2, <2>4, <2>5 DEF LifeFacts!vars
<1> QED
  BY <1>1, <1>2, <1>3

LEMMA NextLife == LifeInv /\ [Next]_vars => LifeInv' /\ [LifeFacts!Next]_(LifeFacts!vars)
<1> SUFFICES ASSUME LifeInv, [Next]_vars
             PROVE  LifeInv' /\ [LifeFacts!Next]_(LifeFacts!vars)
  OBVIOUS
<1>t. TypeInv'
  BY NextTypeInv DEF LifeInv
<1>1. ASSUME NEW w \in Worker, Start(w) \/ Step(w) \/ Abandon(w)
      PROVE  LifeInv' /\ [LifeFacts!Next]_(LifeFacts!vars)
  BY <1>t, <1>1, StartLife, BookkeepingLife, BeginLife, CommitLife, FailureLife DEF Step
<1>2. CASE RetryExpires \/ UNCHANGED vars
  <2>1. UNCHANGED <<call, pc, status, settled>>
    BY <1>2 DEF RetryExpires, vars, tables
  <2>2. LifeInv' /\ visits' = visits
    BY <1>t, <2>1 DEF LifeInv, visits
  <2> QED
    BY <2>1, <2>2 DEF LifeFacts!vars
<1> QED
  BY <1>1, <1>2 DEF Next

-----------------------------------------------------------------------------
(* The two instances of LifeCycle are the same specification.              *)

LEMMA SameLife ==
  /\ LifeFacts!vars = Life!vars
  /\ LifeFacts!Init => Life!Init
  /\ LifeFacts!Next => Life!Next
BY DEF LifeFacts!vars, Life!vars, LifeFacts!Init, Life!Init, LifeFacts!NoVisit, Life!NoVisit,
   LifeFacts!Next, Life!Next, LifeFacts!CallCreate, Life!CallCreate, LifeFacts!Call, Life!Call,
   LifeFacts!Read, Life!Read, LifeFacts!Restart, Life!Restart, LifeFacts!GiveUp, Life!GiveUp,
   LifeFacts!Succeed, Life!Succeed, LifeFacts!Drop, Life!Drop, LifeFacts!Idle, Life!Idle,
   LifeFacts!On, Life!On, LifeFacts!ById, Life!ById, LifeFacts!Op, Life!Op,
   LifeFacts!Needs, Life!Needs, LifeFacts!Writes, Life!Writes, LifeFacts!Status, Life!Status

\* Every step of the overlapping, retried, abandoned calls is a step of LifeCycle or
\* leaves the rows and what the calls know of them alone.
THEOREM LifeRefinement == Spec => ImplementsLifeCycle
<1>1. LifeInv /\ [Next]_vars => [Life!Next]_(Life!vars)
  <2>1. LifeInv /\ [Next]_vars => LifeFacts!Next \/ UNCHANGED LifeFacts!vars
    BY NextLife
  <2>2. UNCHANGED LifeFacts!vars => UNCHANGED Life!vars
    BY DEF LifeFacts!vars, Life!vars
  <2> QED
    BY <2>1, <2>2, SameLife
<1>2. Init => Life!Init
  BY InitLife, SameLife
<1> QED
  BY <1>1, <1>2, InitLife, NextLife, PTL DEF Spec, ImplementsLifeCycle, Life!Spec

LEMMA ServicesLife == Spec => LifeFacts!Spec
BY InitLife, NextLife, PTL DEF Spec, LifeFacts!Spec

\* Callers that never overlap calls on one id: a payment is settled at most once, a
\* cancelled one never, and done means that the money has moved, whatever calls on
\* other ids, conflicts, retries and crashes there are.
THEOREM ServicesSettleOnce == Spec => []SettledOnce
<1>1. LifeFacts!SettledOnce => SettledOnce
  BY DEF LifeFacts!SettledOnce, SettledOnce
<1> QED
  BY <1>1, ServicesLife, LifeFacts!CarefulSettlesOnce, PTL

\* For such callers the services change a row along the life cycle only.
THEOREM ServicesFollowLifecycle == Spec => FollowsLifecycle
<1> DEFINE Follows == Exclusive => \A i \in TrxId :
             status'[i] # status[i] => <<status[i], status'[i]>> \in Lifecycle
           LifeFollows == Exclusive => \A i \in TrxId :
             status'[i] # status[i] => <<status[i], status'[i]>> \in LifeFacts!Lifecycle
<1>1. [LifeFollows]_(LifeFacts!vars) => [Follows]_vars
  <2>1. LifeFacts!Lifecycle = Lifecycle
    BY DEF LifeFacts!Lifecycle, Lifecycle, LifeFacts!Status, Status
  <2>2. UNCHANGED LifeFacts!vars => Follows
    BY DEF LifeFacts!vars
  <2> QED
    BY <2>1, <2>2
<1>2. LifeFacts!FollowsLifecycle <=> [][LifeFollows]_(LifeFacts!vars)
  BY DEF LifeFacts!FollowsLifecycle
<1>3. FollowsLifecycle <=> [][Follows]_vars
  BY DEF FollowsLifecycle
<1> QED
  BY <1>1, <1>2, <1>3, ServicesLife, LifeFacts!CarefulFollows, PTL

-----------------------------------------------------------------------------
(* A payment moves money in one step, out of its own hold.                 *)

\* The columns of a row are written once, by the create that has its id for itself,
\* and the copy a later call has of them is the row.
RowInv ==
  /\ TypeInv
  /\ \A w \in Worker : call[w].op = "create" =>
       /\ status[call[w].id] = "absent"
       /\ \A v \in Worker \ {w} : call[v].id # call[w].id
  /\ \A w \in Worker : call[w].op \in ById /\ pc[w] # "read" =>
       call[w].payment = payment[call[w].id]

LEMMA InitRowInv == Init => RowInv
BY InitTypeInv DEF Init, RowInv, NoCall, ById

\* A step that gives one call new variables and a new label, and writes at most the
\* row of that call.
LEMMA RowMoves ==
  ASSUME RowInv, TypeInv', NEW w \in Worker, NEW c, NEW l,
         call' = [call EXCEPT ![w] = c], pc' = [pc EXCEPT ![w] = l],
         \A i \in TrxId \ {call[w].id} : status'[i] = status[i] /\ payment'[i] = payment[i],
         call[w].op # "create" => payment' = payment,
         c.id \in {call[w].id, NoId},
         c.op = "create" => call[w].op = "create" /\ c.id = call[w].id /\ status' = status,
         c.op \in ById /\ l # "read" => c.payment = payment'[c.id]
  PROVE  RowInv'
<1>t. call \in [Worker -> Local] /\ pc \in [Worker -> Label]
  BY DEF RowInv, TypeInv, TypeOK
<1>1. \A v \in Worker : call'[v] = (IF v = w THEN c ELSE call[v])
  BY <1>t
<1>2. \A v \in Worker : pc'[v] = (IF v = w THEN l ELSE pc[v])
  BY <1>t
<1>3. \A v \in Worker : call[v].op \in ById \cup {"create"} => call[v].id \in TrxId /\ call[v].id # NoId
  BY LedgerAssumption DEF RowInv, TypeInv, CallOK
<1>4. ASSUME NEW v \in Worker, call'[v].op = "create"
      PROVE  /\ status'[call'[v].id] = "absent"
             /\ \A u \in Worker \ {v} : call'[u].id # call'[v].id
  BY <1>1, <1>3, <1>4 DEF RowInv
<1>5. ASSUME NEW v \in Worker, call'[v].op \in ById, pc'[v] # "read"
      PROVE  call'[v].payment = payment'[call'[v].id]
  <2>1. CASE v = w
    BY <1>1, <1>2, <1>5, <2>1
  <2>2. CASE v # w
    BY <1>1, <1>2, <1>3, <1>5, <2>2 DEF RowInv
  <2> QED
    BY <2>1, <2>2
<1> QED
  BY <1>4, <1>5 DEF RowInv

\* A call that returns leaves nothing behind but what it wrote in its own row.
LEMMA RowReturns ==
  ASSUME RowInv, TypeInv', NEW w \in Worker, Return(w),
         \A i \in TrxId \ {call[w].id} : status'[i] = status[i] /\ payment'[i] = payment[i],
         call[w].op # "create" => payment' = payment
  PROVE  RowInv'
<1>1. NoCall.id = NoId /\ NoCall.op = "none"
  BY DEF NoCall
<1>2. call' = [call EXCEPT ![w] = NoCall] /\ pc' = [pc EXCEPT ![w] = "idle"]
  BY DEF Return, Goto
<1> QED
  BY <1>1, <1>2, RowMoves DEF ById

LEMMA ThrowRow ==
  ASSUME RowInv, TypeInv', NEW w \in Worker, Throw(w)
  PROVE  RowInv'
BY RowReturns DEF Throw, ReturnAndPublish, tables

\* Calls arrive.  A create takes an id that no call is on, the others none of a create.
LEMMA StartRow ==
  ASSUME RowInv, TypeInv', NEW w \in Worker, Start(w)
  PROVE  RowInv'
<1>t. call \in [Worker -> Local] /\ pc \in [Worker -> Label]
  BY DEF RowInv, TypeInv, TypeOK
<1>n. \A v \in Worker : call[v].op \in ById \cup {"create"} => call[v].id \in TrxId /\ call[v].id # NoId
  BY LedgerAssumption DEF RowInv, TypeInv, CallOK
<1>1. ASSUME NEW c, NEW l, call' = [call EXCEPT ![w] = c], pc' = [pc EXCEPT ![w] = l],
             UNCHANGED <<status, payment>>,
             c.op = "create" => status[c.id] = "absent" /\ \A v \in Worker : call[v].id # c.id,
             \A v \in Worker : call[v].id = c.id => call[v].op # "create",
             c.op \in ById => l = "read"
      PROVE  RowInv'
  <2>1. \A v \in Worker : call'[v] = (IF v = w THEN c ELSE call[v])
    BY <1>t, <1>1
  <2>2. \A v \in Worker : pc'[v] = (IF v = w THEN l ELSE pc[v])
    BY <1>t, <1>1
  <2> QED
    BY <1>1, <2>1, <2>2 DEF RowInv
<1>2. CASE StartById(w)
  <2> PICK o \in ApiOps \cap ById, i \in TrxId :
        /\ \A v \in Worker : call[v].id = i => ~Exclusive /\ call[v].op # "create"
        /\ call' = [call EXCEPT ![w] = [NoCall EXCEPT !.op = o, !.id = i]]
        /\ Goto(w, "read")
        /\ UNCHANGED tables
    BY <1>2 DEF StartById
  <2>1. [NoCall EXCEPT !.op = o, !.id = i].op = o /\ [NoCall EXCEPT !.op = o, !.id = i].id = i
    BY DEF NoCall
  <2>2. o # "create"
    BY DEF ById
  <2> QED
    BY <1>1, <2>1, <2>2 DEF Goto, tables
<1>3. CASE StartCreate(w)
  <2> PICK p \in Payments, i \in UnusedIds :
        StartFresh(w, [NoCall EXCEPT !.op = "create", !.id = i, !.status = "initiated", !.payment = p])
    BY <1>3 DEF StartCreate
  <2> DEFINE c == [NoCall EXCEPT !.op = "create", !.id = i, !.status = "initiated", !.payment = p]
  <2>1. c.op = "create" /\ c.id = i /\ "create" \notin ById
    BY DEF NoCall, ById
  <2>2. status[i] = "absent" /\ \A v \in Worker : call[v].id # i
    BY DEF UnusedIds
  <2>3. call' = [call EXCEPT ![w] = c] /\ pc' = [pc EXCEPT ![w] = "getRetry"]
        /\ UNCHANGED <<status, payment>>
    BY DEF StartFresh, Goto, tables
  <2> HIDE DEF c
  <2> QED
    BY <1>1, <2>1, <2>2, <2>3
<1>4. ASSUME NEW c, StartFresh(w, c), c.op \notin ById \cup {"create"}, c.id = NoId
      PROVE  RowInv'
  BY <1>1, <1>4, <1>n DEF StartFresh, Goto, tables
<1>5. CASE StartConsolidate(w)
  BY <1>4, <1>5 DEF StartConsolidate, NoCall, ById
<1>6. CASE StartOpen(w)
  <2>1. ASSUME NEW p
        PROVE  [NoCall EXCEPT !.op = "open", !.payment = p].op = "open"
               /\ [NoCall EXCEPT !.op = "open", !.payment = p].id = NoId
    BY DEF NoCall
  <2> QED
    BY <1>4, <1>6, <2>1 DEF StartOpen, ById
<1> QED
  BY <1>2, <1>3, <1>5, <1>6 DEF Start

\* Steps before the call writes: the tables of payments stay.
LEMMA WorkRow ==
  ASSUME RowInv, TypeInv', NEW w \in Worker,
         \/ GetTransactionById(w) \/ GetRetryCounter(w)
         \/ SetRetryCounter(w) \/ RetryAmountExceeded(w) \/ RedisRejects(w)
         \/ CreateBegin(w) \/ CreateHold(w) \/ ProcessBegin(w) \/ CancelBegin(w)
         \/ ConsolidateBegin(w) \/ OpenBegin(w)
         \/ SerializationFailure(w) \/ Abandon(w)
  PROVE  RowInv'
<1>t. call[w] \in Local /\ call \in [Worker -> Local]
  BY DEF RowInv, TypeInv, TypeOK
<1>1. ASSUME NEW c, NEW l, call' = [call EXCEPT ![w] = c], pc' = [pc EXCEPT ![w] = l],
             UNCHANGED <<status, payment>>,
             c.id = call[w].id, c.op \in ById \cup {"fail"} \/ c.op = call[w].op,
             c.op \in ById /\ l # "read" => c.payment = payment[c.id]
      PROVE  RowInv'
  BY <1>1, RowMoves DEF ById
<1>2. CASE Throw(w)
  BY <1>2, ThrowRow
<1>3. CASE GetTransactionById(w) /\ ~Throw(w)
  <2> DEFINE c == [call[w] EXCEPT !.status = status[call[w].id], !.payment = payment[call[w].id]]
  <2>1. c.id = call[w].id /\ c.op = call[w].op /\ c.payment = payment[c.id]
    BY <1>t DEF Local
  <2>2. call' = [call EXCEPT ![w] = c] /\ pc' = [pc EXCEPT ![w] = "getRetry"]
        /\ UNCHANGED <<status, payment>>
    BY <1>3 DEF GetTransactionById, Goto, tables
  <2> HIDE DEF c
  <2> QED
    BY <1>1, <2>1, <2>2
<1>4. CASE GetRetryCounter(w)
  <2> DEFINE c == [call[w] EXCEPT !.count = retry[KeyOf(call[w], w)]]
  <2>1. c.id = call[w].id /\ c.op = call[w].op /\ c.payment = call[w].payment
    BY <1>t DEF Local
  <2>2. call' = [call EXCEPT ![w] = c] /\ pc' = [pc EXCEPT ![w] = "setRetry"]
        /\ UNCHANGED <<status, payment>> /\ pc[w] # "read"
    BY <1>4 DEF GetRetryCounter, Goto, tables
  <2> HIDE DEF c
  <2> QED
    BY <1>1, <2>1, <2>2 DEF RowInv
<1>5. ASSUME NEW l, UNCHANGED <<call, status, payment>>, Goto(w, l), pc[w] # "read"
      PROVE  RowInv'
  <2>1. call' = [call EXCEPT ![w] = call[w]] /\ pc' = [pc EXCEPT ![w] = l]
    BY <1>t, <1>5 DEF Goto
  <2> QED
    BY <1>1, <1>5, <2>1 DEF RowInv
<1>6. CASE SetRetryCounter(w)
  BY <1>5, <1>6 DEF SetRetryCounter, tables
<1>7. CASE (RetryAmountExceeded(w) \/ RedisRejects(w)) /\ ~Throw(w)
  <2> DEFINE c == [NoCall EXCEPT !.op = "fail", !.id = call[w].id]
  <2>1. c.id = call[w].id /\ c.op = "fail" /\ "fail" \notin ById
    BY DEF NoCall, ById
  <2>2. call' = [call EXCEPT ![w] = c] /\ pc' = [pc EXCEPT ![w] = "read"]
        /\ UNCHANGED <<status, payment>>
    BY <1>7 DEF RetryAmountExceeded, RedisRejects, RetryCheckThrows, Goto, tables
  <2> HIDE DEF c
  <2> QED
    BY <1>1, <2>1, <2>2
<1>8. CASE (CreateBegin(w) \/ CreateHold(w) \/ ProcessBegin(w) \/ CancelBegin(w) \/ OpenBegin(w))
           /\ ~Throw(w)
  BY <1>5, <1>8
  DEF CreateBegin, CreateHold, ProcessBegin, CancelBegin, OpenBegin, OpenSnapshot, At, tables
<1>9. CASE ConsolidateBegin(w)
  <2> DEFINE c == [call[w] EXCEPT !.seen =
                     [k \in Currency |-> currentBalance(balance, hold, TransitKey(k))]]
  <2>1. c.id = call[w].id /\ c.op = call[w].op /\ c.op = "consolidate" /\ "consolidate" \notin ById
    BY <1>t, <1>9 DEF ConsolidateBegin, At, Local, ById
  <2>2. call' = [call EXCEPT ![w] = c] /\ pc' = [pc EXCEPT ![w] = "commit"]
        /\ UNCHANGED <<status, payment>>
    BY <1>9 DEF ConsolidateBegin, OpenSnapshot, Goto, tables
  <2> HIDE DEF c
  <2> QED
    BY <1>1, <2>1, <2>2
<1>10. CASE SerializationFailure(w)
  <2> DEFINE c == Retried(w, call[w])
             l == IF call[w].op \in ById THEN "read" ELSE "getRetry"
  <2>1. c.id = call[w].id /\ c.op = call[w].op /\ (c.op \in ById => l = "read")
    BY <1>t DEF Retried, NoCall, Local
  <2>2. call' = [call EXCEPT ![w] = c] /\ pc' = [pc EXCEPT ![w] = l]
        /\ UNCHANGED <<status, payment>>
    BY <1>10 DEF SerializationFailure, Goto, tables
  <2> HIDE DEF c, l
  <2> QED
    BY <1>1, <2>1, <2>2
<1> QED
  BY <1>2, <1>3, <1>4, <1>6, <1>7, <1>8, <1>9, <1>10 DEF Abandon

\* Steps that end a call with its effect write no row but its own.
LEMMA CommitRow ==
  ASSUME RowInv, TypeInv', NEW w \in Worker,
         \/ CreateCommit(w) \/ ProcessCommit(w) \/ CancelCommit(w) \/ SendSave(w)
         \/ FailSave(w) \/ ConsolidateCommit(w) \/ OpenCommit(w)
  PROVE  RowInv'
<1>t. status \in [TrxId -> RowStatus] /\ payment \in [TrxId -> PaymentRow]
  BY DEF RowInv, TypeInv, TypeOK
<1>1. CASE Throw(w)
  BY <1>1, ThrowRow
<1>2. CASE CreateCommit(w) /\ ~Throw(w)
  BY <1>t, <1>2, RowReturns DEF CreateCommit, ReturnAndPublish, At
<1>3. CASE ProcessCommit(w) /\ ~Throw(w)
  BY <1>t, <1>3, RowReturns DEF ProcessCommit, ReturnAndPublish
<1>4. CASE CancelCommit(w) /\ ~Throw(w)
  BY <1>t, <1>4, RowReturns DEF CancelCommit, ReturnAndPublish
<1>5. CASE (SendSave(w) \/ FailSave(w)) /\ ~Throw(w)
  BY <1>t, <1>5, RowReturns DEF SendSave, FailSave, SaveStatus, ReturnAndPublish
<1>6. CASE (ConsolidateCommit(w) \/ OpenCommit(w)) /\ ~Throw(w)
  BY <1>6, RowReturns DEF ConsolidateCommit, OpenCommit, ReturnAndPublish
<1> QED
  BY <1>1, <1>2, <1>3, <1>4, <1>5, <1>6

LEMMA NextRowInv == RowInv /\ [Next]_vars => RowInv'
<1> SUFFICES ASSUME RowInv, [Next]_vars
             PROVE  RowInv'
  OBVIOUS
<1>t. TypeInv'
  BY NextTypeInv DEF RowInv
<1>1. ASSUME NEW w \in Worker, Start(w) \/ Step(w) \/ Abandon(w)
      PROVE  RowInv'
  BY <1>t, <1>1, StartRow, WorkRow, CommitRow DEF Step
<1>2. CASE RetryExpires \/ UNCHANGED vars
  BY <1>t, <1>2 DEF RetryExpires, vars, tables, RowInv
<1> QED
  BY <1>1, <1>2 DEF Next

\* Only the COMMIT of processTransaction settles anything.
LEMMA OnlyProcessSettles ==
  ASSUME NEW w \in Worker, Start(w) \/ Step(w) \/ Abandon(w), ~ProcessCommit(w)
  PROVE  settled' = settled
BY DEF Step, Start, StartById, StartCreate, StartConsolidate, StartOpen, StartFresh,
   GetTransactionById, GetRetryCounter, SetRetryCounter, RetryAmountExceeded,
   RedisRejects, RetryCheckThrows, CreateBegin, CreateHold, CreateCommit, ProcessBegin, CancelBegin, CancelCommit,
   SendSave, FailSave, SaveStatus, ConsolidateBegin, ConsolidateCommit, OpenBegin, OpenCommit,
   SerializationFailure, Abandon, Throw, OpenSnapshot

\* However many calls race on a row, a payment is settled in the one step that turns
\* it to done, and that step takes exactly its amount, as its row has it, out of the
\* hold of its payer: the copy processTransaction works on cannot be out of date in it.
THEOREM ServicesSettleWithHold == Spec => SettlesWithHold
<1> DEFINE FromHold == \A i \in TrxId : settled'[i] # settled[i] =>
             /\ status'[i] = "done"
             /\ hold'[DebitKey(payment[i])] = hold[DebitKey(payment[i])] - payment[i].amount
<1>1. ASSUME RowInv, NEW w \in Worker, ProcessCommit(w), NEW i \in TrxId, settled'[i] # settled[i]
      PROVE  /\ status'[i] = "done"
             /\ hold'[DebitKey(payment[i])] = hold[DebitKey(payment[i])] - payment[i].amount
  <2>1. /\ status \in [TrxId -> RowStatus] /\ settled \in [TrxId -> 0..2]
        /\ hold \in [SubKey -> Int] /\ payment[i] \in PaymentRow
    BY <1>1 DEF RowInv, TypeInv, TypeOK
  <2>2. i = call[w].id /\ ~Throw(w)
    BY <1>1, <2>1 DEF ProcessCommit, Throw
  <2>3. call[w].payment = payment[i]
    BY <1>1, <2>2 DEF ProcessCommit, At, RowInv, ById
  <2>4. DebitKey(payment[i]) \in SubKey
    BY <2>1 DEF DebitKey, SubKey, PaymentRow
  <2> QED
    BY <1>1, <2>1, <2>2, <2>3, <2>4 DEF ProcessCommit, releaseForAmount
<1>2. RowInv /\ [Next]_vars => [FromHold]_vars
  BY <1>1, OnlyProcessSettles DEF Next, RetryExpires
<1>3. SettlesWithHold <=> [][FromHold]_vars
  BY DEF SettlesWithHold
<1> QED
  BY <1>2, <1>3, InitRowInv, NextRowInv, PTL DEF Spec

-----------------------------------------------------------------------------
(* The hold of a sub-account backs every payment open on it.               *)

\* d divides the hold of k among the payments: each that is open, or whose create
\* has its hold and not yet its row, has its amount.
Shares(k, d) ==
  /\ SumFunctionOnSet(d, TrxId) <= hold[k]
  /\ \A i \in Open(k) : d[i] = payment[i].amount
  /\ \A w \in Worker : At(w, "create", "commit") /\ DebitKey(call[w].payment) = k =>
       d[call[w].id] = call[w].payment.amount

HoldInv ==
  Exclusive => \A k \in SubKey : ~NegativeFrom(k) => \E d \in [TrxId -> Nat] : Shares(k, d)

\* What careful callers add to RowInv: no two calls on an id, and copies that are
\* what the row says.
CarefulRows == LifeInv /\ RowInv /\ (Exclusive => LifeFacts!CarefulInv)

LEMMA InitCarefulRows == Init => CarefulRows
BY InitLife, InitRowInv, LifeFacts!InitCareful DEF CarefulRows

LEMMA NextCarefulRows == CarefulRows /\ [Next]_vars => CarefulRows'
BY NextLife, NextRowInv, LifeFacts!NextCareful DEF CarefulRows

LEMMA InitHoldInv == Init => HoldInv
<1> SUFFICES ASSUME Init, NEW k \in SubKey
             PROVE  \E d \in [TrxId -> Nat] : Shares(k, d)
  BY DEF HoldInv
<1> DEFINE d == [i \in TrxId |-> 0]
<1>1. SumFunctionOnSet(d, TrxId) <= 0
  <2>1. IsFiniteSet(TrxId)
    BY LedgerAssumption
  <2> DEFINE Good == {T \in SUBSET TrxId : SumFunctionOnSet(d, T) = 0}
  <2>2. \A T \in SUBSET TrxId : (\A U \in SUBSET T : U # T => U \in Good) => T \in Good
    <3> SUFFICES ASSUME NEW T \in SUBSET TrxId, \A U \in SUBSET T : U # T => U \in Good
                 PROVE  SumFunctionOnSet(d, T) = 0
      OBVIOUS
    <3>1. CASE T = {}
      BY <3>1, SumEmpty
    <3>2. CASE T # {}
      <4>1. IsFiniteSet(T) /\ d[ChosenFrom(T)] = 0 /\ T \ {ChosenFrom(T)} \in Good
        BY <2>1, <3>2, FS_Subset, ChosenIn
      <4> HIDE DEF d
      <4> QED
        BY <3>2, <4>1, SumChosen
    <3> QED
      BY <3>1, <3>2
  <2> HIDE DEF Good
  <2>3. TrxId \in Good
    BY <2>1, <2>2, SubsetInduction
  <2> QED
    BY <2>3 DEF Good
<1>2. hold[k] = 0 /\ Open(k) = {} /\ \A w \in Worker : ~At(w, "create", "commit")
  BY DEF Init, Open, At
<1> HIDE DEF d
<1>3. Shares(k, d)
  BY <1>1, <1>2 DEF Shares
<1> QED
  BY <1>3 DEF d

\* A division of the hold stays one while nothing is added to what it must cover.
LEMMA SharesStay ==
  ASSUME NEW k \in SubKey, NEW d \in [TrxId -> Nat], Shares(k, d), hold'[k] = hold[k],
         \A i \in TrxId : i \in Open(k)' => d[i] = payment'[i].amount,
         \A v \in Worker : At(v, "create", "commit")' => At(v, "create", "commit") /\ call'[v] = call[v]
  PROVE  Shares(k, d)'
BY DEF Shares, Open

\* A payment gets or gives back its share, and the hold changes by as much.
LEMMA SharesChange ==
  ASSUME NEW k \in SubKey, NEW d \in [TrxId -> Nat], Shares(k, d), NEW i \in TrxId,
         NEW n \in Nat, hold[k] \in Int, hold'[k] \in Int, hold'[k] - hold[k] >= n - d[i],
         \A j \in TrxId : j \in Open(k)' => (IF j = i THEN n ELSE d[j]) = payment'[j].amount,
         \A v \in Worker : At(v, "create", "commit")' /\ DebitKey(call'[v].payment) = k =>
           /\ call'[v].id \in TrxId
           /\ (IF call'[v].id = i THEN n ELSE d[call'[v].id]) = call'[v].payment.amount
  PROVE  \E e \in [TrxId -> Nat] : Shares(k, e)'
<1> DEFINE e == [d EXCEPT ![i] = n]
<1>1. e \in [TrxId -> Nat] /\ \A j \in TrxId : e[j] = IF j = i THEN n ELSE d[j]
  OBVIOUS
<1> HIDE DEF e
<1>2. IsFiniteSet(TrxId) /\ \A j \in TrxId : d[j] \in Int /\ e[j] \in Int
  BY <1>1, LedgerAssumption
<1>3. SumFunctionOnSet(e, TrxId) = SumFunctionOnSet(d, TrxId) + (e[i] - d[i])
  BY <1>1, <1>2, SumChange
<1>4. SumFunctionOnSet(d, TrxId) \in Int
  BY <1>2, SumInt
<1>5. SumFunctionOnSet(e, TrxId) <= hold'[k]
  BY <1>1, <1>2, <1>3, <1>4 DEF Shares
<1>6. Shares(k, e)'
  BY <1>1, <1>5 DEF Shares, Open
<1> QED
  BY <1>1, <1>6

\* Steps that touch neither a hold nor a row, and take no create to its COMMIT.
LEMMA QuietHold ==
  ASSUME RowInv, NEW w \in Worker,
         \/ Start(w) \/ GetTransactionById(w) \/ GetRetryCounter(w)
         \/ SetRetryCounter(w) \/ RetryAmountExceeded(w) \/ RedisRejects(w)
         \/ CreateBegin(w) \/ ProcessBegin(w) \/ CancelBegin(w) \/ ConsolidateBegin(w) \/ ConsolidateCommit(w)
         \/ OpenBegin(w) \/ OpenCommit(w) \/ SerializationFailure(w) \/ Abandon(w) \/ Throw(w)
  PROVE  /\ UNCHANGED <<hold, status, payment>>
         /\ \A v \in Worker :
              At(v, "create", "commit")' => At(v, "create", "commit") /\ call'[v] = call[v]
<1>t. call \in [Worker -> Local] /\ pc \in [Worker -> Label]
  BY DEF RowInv, TypeInv, TypeOK
<1>1. ASSUME NEW c, NEW l, call' = [call EXCEPT ![w] = c], pc' = [pc EXCEPT ![w] = l],
             l # "commit" \/ c.op # "create"
      PROVE  \A v \in Worker :
               At(v, "create", "commit")' => At(v, "create", "commit") /\ call'[v] = call[v]
  BY <1>t, <1>1 DEF At
<1>2. CASE Return(w) /\ UNCHANGED <<hold, status, payment>>
  BY <1>1, <1>2 DEF Return, Goto
<1>3. CASE Throw(w)
  BY <1>2, <1>3 DEF Throw, ReturnAndPublish, tables
<1>4. CASE (ConsolidateCommit(w) \/ OpenCommit(w)) /\ ~Throw(w)
  BY <1>2, <1>4 DEF ConsolidateCommit, OpenCommit, ReturnAndPublish
<1>5. ASSUME NEW l, UNCHANGED <<call, hold, status, payment>>, Goto(w, l),
             l # "commit" \/ call[w].op # "create"
      PROVE  /\ UNCHANGED <<hold, status, payment>>
             /\ \A v \in Worker :
                  At(v, "create", "commit")' => At(v, "create", "commit") /\ call'[v] = call[v]
  BY <1>t, <1>5 DEF Goto, At
<1>6. CASE SetRetryCounter(w)
  BY <1>5, <1>6 DEF SetRetryCounter, tables
<1>7. CASE (CreateBegin(w) \/ ProcessBegin(w) \/ CancelBegin(w) \/ OpenBegin(w)) /\ ~Throw(w)
  BY <1>5, <1>7 DEF CreateBegin, ProcessBegin, CancelBegin, OpenBegin, OpenSnapshot, At, tables
<1>8. CASE ConsolidateBegin(w)
  <2> DEFINE c == [call[w] EXCEPT !.seen =
                     [k \in Currency |-> currentBalance(balance, hold, TransitKey(k))]]
  <2>1. c.op # "create"
    BY <1>t, <1>8 DEF ConsolidateBegin, At, Local
  <2>2. call' = [call EXCEPT ![w] = c] /\ pc' = [pc EXCEPT ![w] = "commit"]
        /\ UNCHANGED <<hold, status, payment>>
    BY <1>8 DEF ConsolidateBegin, OpenSnapshot, Goto, tables
  <2> HIDE DEF c
  <2> QED
    BY <1>1, <2>1, <2>2
<1>9. ASSUME NEW l, UNCHANGED <<hold, status, payment>>, pc' = [pc EXCEPT ![w] = l],
             \E c : call' = [call EXCEPT ![w] = c], l # "commit"
      PROVE  /\ UNCHANGED <<hold, status, payment>>
             /\ \A v \in Worker :
                  At(v, "create", "commit")' => At(v, "create", "commit") /\ call'[v] = call[v]
  BY <1>1, <1>9
<1>10. CASE Start(w)
  BY <1>9, <1>10
  DEF Start, StartById, StartCreate, StartConsolidate, StartOpen, StartFresh, Goto, tables
<1>11. CASE GetRetryCounter(w)
  BY <1>t, <1>9, <1>11 DEF GetRetryCounter, Goto, tables
<1>12. CASE (GetTransactionById(w) \/ RetryAmountExceeded(w) \/ RedisRejects(w)) /\ ~Throw(w)
  BY <1>t, <1>9, <1>12 DEF GetTransactionById, RetryAmountExceeded, RedisRejects,
     RetryCheckThrows, Goto, tables
<1>13. CASE SerializationFailure(w)
  <2> DEFINE l == IF call[w].op \in ById THEN "read" ELSE "getRetry"
  <2>1. /\ call' = [call EXCEPT ![w] = Retried(w, call[w])] /\ pc' = [pc EXCEPT ![w] = l]
        /\ UNCHANGED <<hold, status, payment>>
    BY <1>13 DEF SerializationFailure, Goto, tables
  <2>2. l # "commit"
    OBVIOUS
  <2> HIDE DEF l
  <2> QED
    BY <1>9, <2>1, <2>2
<1> QED
  BY <1>3, <1>4, <1>6, <1>7, <1>8, <1>10, <1>11, <1>12, <1>13 DEF Abandon

\* A careful call goes ahead on a row that has the status and the columns of its copy.
LEMMA CopyIsRow ==
  ASSUME CarefulRows, Exclusive, NEW w \in Worker, call[w].op \in ById, pc[w] # "read",
         pc[w] # "idle"
  PROVE  /\ call[w].id \in TrxId
         /\ status[call[w].id] = call[w].status
         /\ payment[call[w].id] = call[w].payment
         /\ call[w].payment \in PaymentRow
<1>1. call[w].id \in TrxId /\ call[w].payment \in PaymentRow
  BY LedgerAssumption DEF CarefulRows, RowInv, TypeInv, CallOK
<1>2. payment[call[w].id] = call[w].payment
  BY DEF CarefulRows, RowInv
<1>3. call[w].status # "absent"
  BY DEF CarefulRows, LifeInv, CopyOK, Status
<1>4. visits[w] = [op |-> call[w].op, id |-> call[w].id, copy |-> call[w].status]
  BY DEF visits
<1>5. call[w].status \in {"absent", status[call[w].id]}
  BY <1>4 DEF CarefulRows, LifeFacts!CarefulInv, LifeFacts!ById, ById
<1> QED
  BY <1>1, <1>2, <1>3, <1>5

\* createTransaction gets the amount on hold before its row is there.
LEMMA CreateHolds ==
  ASSUME CarefulRows, NEW w \in Worker, CreateHold(w), ~Throw(w),
         NEW k \in SubKey, ~NegativeFrom(k), NEW d \in [TrxId -> Nat], Shares(k, d)
  PROVE  \E e \in [TrxId -> Nat] : Shares(k, e)'
<1> DEFINE i == call[w].id
           p == call[w].payment
           n == IF DebitKey(p) = k THEN p.amount ELSE d[i]
<1>t. /\ call \in [Worker -> Local] /\ pc \in [Worker -> Label] /\ hold \in [SubKey -> Int]
      /\ call[w].op = "create" /\ i \in TrxId /\ p \in PaymentRow
  BY LedgerAssumption DEF CarefulRows, RowInv, TypeInv, TypeOK, CallOK, CreateHold, At
<1>1. /\ hold' = [hold EXCEPT ![DebitKey(p)] = @ + p.amount]
      /\ pc' = [pc EXCEPT ![w] = "commit"] /\ UNCHANGED <<status, payment, call>>
  BY DEF CreateHold, holdForAmount, Goto
<1>2. p.amount \in Int /\ DebitKey(p) \in SubKey /\ n \in Nat
  <2>1. p.amount \in Int /\ DebitKey(p) \in SubKey
    BY <1>t DEF PaymentRow, DebitKey, SubKey
  <2>2. p \in Payments
    BY <1>t DEF CarefulRows, RowInv, TypeInv, CallOK
  <2>3. DebitKey(p) = k => p.amount >= 0
    BY <2>1, <2>2 DEF NegativeFrom
  <2> QED
    BY <1>t, <2>1, <2>3
<1>3. status[i] = "absent" /\ \A v \in Worker \ {w} : call[v].id # i
  BY <1>t DEF CarefulRows, RowInv
<1> HIDE DEF i, p
<1>4. hold[k] \in Int /\ hold'[k] \in Int /\ hold'[k] - hold[k] >= n - d[i]
  BY <1>t, <1>1, <1>2
<1>5. ASSUME NEW j \in TrxId, j \in Open(k)'
      PROVE  (IF j = i THEN n ELSE d[j]) = payment'[j].amount
  BY <1>1, <1>3, <1>5 DEF Open, Shares
<1>6. ASSUME NEW v \in Worker, At(v, "create", "commit")', DebitKey(call'[v].payment) = k
      PROVE  /\ call'[v].id \in TrxId
             /\ (IF call'[v].id = i THEN n ELSE d[call'[v].id]) = call'[v].payment.amount
  <2>1. CASE v = w
    BY <1>1, <1>6, <1>t, <2>1 DEF i, p
  <2>2. CASE v # w
    <3>1. At(v, "create", "commit") /\ call'[v] = call[v]
      BY <1>t, <1>1, <1>6, <2>2 DEF At
    <3>2. call[v].id \in TrxId /\ call[v].id # i
      BY <1>3, <2>2, <3>1 DEF At, CarefulRows, RowInv, TypeInv, CallOK
    <3> QED
      BY <1>6, <3>1, <3>2 DEF Shares
  <2> QED
    BY <2>1, <2>2
<1> HIDE DEF n
<1> QED
  BY <1>t, <1>2, <1>4, <1>5, <1>6, SharesChange

\* The share of a payment that is settled or cancelled leaves with its hold.
LEMMA ReleaseShares ==
  ASSUME CarefulRows, NEW w \in Worker, Return(w), call[w].op # "create",
         NEW i \in TrxId, i = call[w].id, NEW p \in PaymentRow, p = payment[i],
         status[i] \in {"initiated", "pending"}, NEW s \in {"done", "cancelled"},
         status' = [status EXCEPT ![i] = s], payment' = payment,
         hold' = releaseForAmount(hold, DebitKey(p), p.amount),
         NEW k \in SubKey, NEW d \in [TrxId -> Nat], Shares(k, d)
  PROVE  \E e \in [TrxId -> Nat] : Shares(k, e)'
<1> DEFINE n == IF DebitKey(p) = k THEN 0 ELSE d[i]
<1>t. /\ call \in [Worker -> Local] /\ pc \in [Worker -> Label] /\ hold \in [SubKey -> Int]
      /\ status \in [TrxId -> RowStatus]
  BY DEF CarefulRows, RowInv, TypeInv, TypeOK
<1>1. hold' = [hold EXCEPT ![DebitKey(p)] = @ - p.amount]
  BY DEF releaseForAmount
<1>2. p.amount \in Int /\ DebitKey(p) \in SubKey /\ n \in Nat
  BY DEF PaymentRow, DebitKey, SubKey
<1>3. DebitKey(p) = k => d[i] = p.amount
  BY DEF Shares, Open
<1>4. hold[k] \in Int /\ hold'[k] \in Int /\ hold'[k] - hold[k] >= n - d[i]
  BY <1>t, <1>1, <1>2, <1>3
<1>5. ASSUME NEW j \in TrxId, j \in Open(k)'
      PROVE  (IF j = i THEN n ELSE d[j]) = payment'[j].amount
  <2>1. j # i
    BY <1>t, <1>5 DEF Open
  <2>2. j \in Open(k)
    BY <1>t, <1>5, <2>1 DEF Open
  <2> QED
    BY <2>1, <2>2 DEF Shares
<1>6. ASSUME NEW v \in Worker, At(v, "create", "commit")', DebitKey(call'[v].payment) = k
      PROVE  /\ call'[v].id \in TrxId
             /\ (IF call'[v].id = i THEN n ELSE d[call'[v].id]) = call'[v].payment.amount
  <2>1. v # w
    BY <1>t, <1>6 DEF Return, Goto, At
  <2>2. At(v, "create", "commit") /\ call'[v] = call[v]
    BY <1>t, <1>6, <2>1 DEF Return, Goto, At
  <2>3. call[v].id \in TrxId /\ call[v].id # i
    BY <2>1, <2>2 DEF At, CarefulRows, RowInv, TypeInv, CallOK
  <2> QED
    BY <1>6, <2>2, <2>3 DEF Shares
<1> HIDE DEF n
<1> QED
  BY <1>2, <1>4, <1>5, <1>6, SharesChange

\* The other saves change the status of a payment and no hold.
LEMMA SaveShares ==
  ASSUME CarefulRows, Exclusive, NEW w \in Worker,
         CreateCommit(w) \/ SendSave(w) \/ FailSave(w), ~Throw(w),
         NEW k \in SubKey, NEW d \in [TrxId -> Nat], Shares(k, d)
  PROVE  Shares(k, d)'
<1>t. /\ call \in [Worker -> Local] /\ pc \in [Worker -> Label]
      /\ status \in [TrxId -> RowStatus] /\ payment \in [TrxId -> PaymentRow]
  BY DEF CarefulRows, RowInv, TypeInv, TypeOK
<1>1. Return(w) /\ hold' = hold
  BY DEF CreateCommit, SendSave, FailSave, SaveStatus, ReturnAndPublish
<1>2. \A v \in Worker :
        At(v, "create", "commit")' => At(v, "create", "commit") /\ call'[v] = call[v]
  BY <1>t, <1>1 DEF Return, Goto, At
<1>3. CASE CreateCommit(w)
  <2>1. /\ status' = [status EXCEPT ![call[w].id] = "initiated"]
        /\ payment' = [payment EXCEPT ![call[w].id] = call[w].payment]
    BY <1>3 DEF CreateCommit
  <2>2. At(w, "create", "commit")
    BY <1>3 DEF CreateCommit
  <2>3. ASSUME NEW j \in TrxId, j \in Open(k)'
        PROVE  d[j] = payment'[j].amount
    <3>1. CASE j = call[w].id
      BY <1>t, <2>1, <2>2, <2>3, <3>1 DEF Open, Shares
    <3>2. CASE j # call[w].id
      BY <1>t, <2>1, <2>3, <3>2 DEF Open, Shares
    <3> QED
      BY <3>1, <3>2
  <2> QED
    BY <1>1, <1>2, <2>3, SharesStay
<1>4. CASE SendSave(w)
  <2>1. /\ status' = [status EXCEPT ![call[w].id] = "pending"] /\ payment' = payment
        /\ At(w, "send", "begin") /\ call[w].status = "initiated"
    BY <1>4 DEF SendSave, SaveStatus
  <2>2. status[call[w].id] = "initiated"
    BY <2>1, CopyIsRow DEF At, ById
  <2>3. ASSUME NEW j \in TrxId, j \in Open(k)'
        PROVE  d[j] = payment'[j].amount
    BY <1>t, <2>1, <2>2, <2>3 DEF Open, Shares
  <2> QED
    BY <1>1, <1>2, <2>3, SharesStay
<1>5. CASE FailSave(w)
  <2>1. status' = [status EXCEPT ![call[w].id] = "failed"] /\ payment' = payment
    BY <1>5 DEF FailSave, SaveStatus
  <2>2. ASSUME NEW j \in TrxId, j \in Open(k)'
        PROVE  d[j] = payment'[j].amount
    BY <1>t, <2>1, <2>2 DEF Open, Shares
  <2> QED
    BY <1>1, <1>2, <2>2, SharesStay
<1> QED
  BY <1>3, <1>4, <1>5

LEMMA StepShares ==
  ASSUME CarefulRows, Exclusive, NEW w \in Worker, Start(w) \/ Step(w) \/ Abandon(w),
         NEW k \in SubKey, ~NegativeFrom(k), NEW d \in [TrxId -> Nat], Shares(k, d)
  PROVE  \E e \in [TrxId -> Nat] : Shares(k, e)'
<1>1. CASE \/ Start(w) \/ GetTransactionById(w) \/ GetRetryCounter(w)
           \/ SetRetryCounter(w) \/ RetryAmountExceeded(w) \/ RedisRejects(w)
           \/ CreateBegin(w) \/ ProcessBegin(w) \/ CancelBegin(w) \/ ConsolidateBegin(w) \/ ConsolidateCommit(w)
           \/ OpenBegin(w) \/ OpenCommit(w) \/ SerializationFailure(w) \/ Abandon(w) \/ Throw(w)
  <2>1. /\ UNCHANGED <<hold, status, payment>>
        /\ \A v \in Worker :
             At(v, "create", "commit")' => At(v, "create", "commit") /\ call'[v] = call[v]
    BY <1>1, QuietHold DEF CarefulRows
  <2>2. \A i \in TrxId : i \in Open(k)' => d[i] = payment'[i].amount
    BY <2>1 DEF Open, Shares
  <2>3. Shares(k, d)'
    BY <2>1, <2>2, SharesStay
  <2> QED
    BY <2>3
<1>2. CASE CreateHold(w) /\ ~Throw(w)
  BY <1>2, CreateHolds
<1>3. CASE (CreateCommit(w) \/ SendSave(w) \/ FailSave(w)) /\ ~Throw(w)
  BY <1>3, SaveShares
<1>4. CASE ProcessCommit(w) /\ ~Throw(w)
  <2> DEFINE i == call[w].id
             p == call[w].payment
  <2>1. At(w, "process", "commit")
    BY <1>4 DEF ProcessCommit
  <2>2. i \in TrxId /\ status[i] = "pending" /\ p = payment[i] /\ p \in PaymentRow
    BY <2>1, CopyIsRow DEF At, ById, CarefulRows, LifeInv, CopyOK
  <2>3. /\ status' = [status EXCEPT ![i] = "done"] /\ payment' = payment
        /\ hold' = releaseForAmount(hold, DebitKey(p), p.amount) /\ Return(w)
    BY <1>4 DEF ProcessCommit, ReturnAndPublish
  <2>4. call[w].op # "create"
    BY <2>1 DEF At
  <2> QED
    BY <2>2, <2>3, <2>4, ReleaseShares
<1>5. CASE CancelCommit(w) /\ ~Throw(w)
  <2> DEFINE i == call[w].id
             p == call[w].payment
  <2>1. At(w, "cancel", "commit")
    BY <1>5 DEF CancelCommit
  <2>2. i \in TrxId /\ status[i] = "initiated" /\ p = payment[i] /\ p \in PaymentRow
    BY <2>1, CopyIsRow DEF At, ById, CarefulRows, LifeInv, CopyOK
  <2>3. /\ status' = [status EXCEPT ![i] = "cancelled"] /\ payment' = payment
        /\ hold' = releaseForAmount(hold, DebitKey(p), p.amount) /\ Return(w)
    BY <1>5 DEF CancelCommit, ReturnAndPublish
  <2>4. call[w].op # "create"
    BY <2>1 DEF At
  <2> QED
    BY <2>2, <2>3, <2>4, ReleaseShares
<1> QED
  BY <1>1, <1>2, <1>3, <1>4, <1>5 DEF Step

LEMMA NextHoldInv == CarefulRows /\ HoldInv /\ [Next]_vars => HoldInv'
<1> SUFFICES ASSUME CarefulRows, HoldInv, [Next]_vars, Exclusive,
                    NEW k \in SubKey, ~NegativeFrom(k)
             PROVE  \E e \in [TrxId -> Nat] : Shares(k, e)'
  BY DEF HoldInv, NegativeFrom
<1>1. PICK d \in [TrxId -> Nat] : Shares(k, d)
  BY DEF HoldInv
<1>2. ASSUME NEW w \in Worker, Start(w) \/ Step(w) \/ Abandon(w)
      PROVE  \E e \in [TrxId -> Nat] : Shares(k, e)'
  BY <1>1, <1>2, StepShares
<1>3. CASE UNCHANGED <<hold, status, payment, pc, call>>
  BY <1>1, <1>3 DEF Shares, Open, At
<1> QED
  BY <1>2, <1>3 DEF Next, RetryExpires, vars, tables

\* With careful callers the amounts of the payments that are initiated or pending on a
\* sub-account never add up to more than its hold, unless somebody pays an amount below
\* zero from it: no payment is left without the money that createTransaction set aside
\* for it, whatever became of the others.
THEOREM ServicesBackHolds == Spec => []HoldBacked
<1>1. CarefulRows /\ HoldInv => HoldBacked
  <2> SUFFICES ASSUME CarefulRows, HoldInv, Exclusive,
                      NEW k \in SubKey, ~NegativeFrom(k)
               PROVE  SumFunction([i \in Open(k) |-> payment[i].amount]) <= hold[k]
    BY DEF HoldBacked
  <2> DEFINE f == [i \in Open(k) |-> payment[i].amount]
  <2>1. PICK d \in [TrxId -> Nat] : Shares(k, d)
    BY DEF HoldInv
  <2>2. Open(k) \in SUBSET TrxId /\ IsFiniteSet(TrxId) /\ hold[k] \in Int
    BY LedgerAssumption DEF Open, CarefulRows, RowInv, TypeInv, TypeOK
  <2>3. IsFiniteSet(Open(k))
    BY <2>2, FS_Subset
  <2>4. \A i \in Open(k) : f[i] = d[i]
    BY <2>1 DEF Shares
  <2>5. SumFunction(f) = SumFunctionOnSet(f, Open(k))
    BY DEF SumFunction
  <2> HIDE DEF f
  <2>6. SumFunctionOnSet(f, Open(k)) = SumFunctionOnSet(d, Open(k))
    BY <2>3, <2>4, SumSame
  <2>7. SumFunctionOnSet(d, Open(k)) <= SumFunctionOnSet(d, TrxId)
    BY <2>2, SumMonotone
  <2>8. SumFunctionOnSet(d, TrxId) \in Int /\ SumFunctionOnSet(d, Open(k)) \in Int
    BY <2>2, <2>3, SumInt
  <2>9. SumFunction(f) <= hold[k]
    BY <2>1, <2>2, <2>5, <2>6, <2>7, <2>8 DEF Shares
  <2> QED
    BY <2>9 DEF f
<1> QED
  BY <1>1, InitCarefulRows, NextCarefulRows, InitHoldInv, NextHoldInv, PTL DEF Spec
=============================================================================
