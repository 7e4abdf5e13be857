--------------------------- MODULE PipelineProofs ---------------------------
(***************************************************************************)
(* No client call, stop, pause or second delivery loses a payment or a     *)
(* request, or settles a payment twice, except in a way that is on record, *)
(* for any number of payments, requests, clients and troubles.             *)
(***************************************************************************)
EXTENDS Pipeline, LibraryFacts, TLAPS

-----------------------------------------------------------------------------
(* The inductive invariant.                                                *)

Queued(q) == ToSet(waiting[q])
Event == ByHandOps \cup LeftBehind

\* A job that is, or once was, in a queue.
Known(q, j) == j \in Queued(q) \cup active[q] \/ hand[q] = j \/ stalls[j] > 0

\* Types of what TypeOK describes by its elements, and of the history.
Typed ==
  /\ TypeOK
  /\ waiting \in [QueueName -> Seq(Job)]
  /\ active \in [QueueName -> SUBSET Job]
  /\ hand \in [QueueName -> Job \cup {NoId}]
  /\ phase \in [QueueName -> {"idle", "running", "returned"}]
  /\ opened \in [Request -> Nat]
  /\ asked \subseteq Request
  /\ trail \in [Job -> SUBSET Event]

\* A job in a queue was stalled at most once, one that is taken and waits again was.
QueueOf(q, j) ==
  /\ j \in Queued(q) \cup active[q] => stalls[j] <= MaxStalledCount
  /\ hand[q] = j /\ j \in Queued(q) => stalls[j] > 0

QueueInv == \A q \in QueueName : \A j \in JobOf(q) : QueueOf(q, j)

\* Who has which call in progress.
MakerOf(i) ==
  \/ visit[Maker(i)].op = "none"
  \/ visit[Maker(i)].op = "create" /\ visit[Maker(i)].id = i /\ status[i] = "absent"

TimerOf(i) ==
  IF timer[i] = "sending" THEN visit[Timer(i)].op = "send" /\ visit[Timer(i)].id = i
  ELSE visit[Timer(i)].op = "none"

ProcessorOf ==
  IF phase["transaction"] = "running"
  THEN visit[Processor].op \in {"process", "fail"} /\ visit[Processor].id = hand["transaction"]
  ELSE visit[Processor].op = "none"

ClientOf(c) ==
  LET v == visit[<<"client", c>>] IN
  v.op = "none" \/ (v.op \in ByHandOps /\ status[v.id] # "absent")

CallInv ==
  /\ \A i \in TrxId : MakerOf(i) /\ TimerOf(i)
  /\ ProcessorOf
  /\ \A c \in Client : ClientOf(c)

\* A payment goes from its timer to the queue, and is there at most once in its life.
OrderOf(i) ==
  /\ status[i] = "absent" => timer[i] = "none" /\ settled[i] = 0
  /\ timer[i] = "adding" => status[i] \notin {"absent", "initiated"}
  /\ Known("transaction", i) => timer[i] = "none" /\ status[i] \notin {"absent", "initiated"}

\* Where a pending payment is; what its processor can know and leave.
CarriedOf(i) ==
  trail[i] \cap LeftBehind = {} =>
    /\ status[i] = "pending" =>
         timer[i] = "adding" \/ i \in Queued("transaction") \cup active["transaction"]
    /\ hand["transaction"] = i /\ status[i] = "pending" =>
         /\ phase["transaction"] = "running"
         /\ visit[Processor].op = "process" => visit[Processor].copy \in {"absent", "pending"}

\* A payment that was settled is not pending, and nobody believes it is.
OnceOf(i) ==
  trail[i] \cap {"send", "process"} = {} =>
    /\ settled[i] <= 1
    /\ settled[i] = 1 =>
         /\ status[i] # "pending" /\ timer[i] = "none"
         /\ visit[Processor].op = "process" /\ visit[Processor].id = i =>
              visit[Processor].copy # "pending"

\* Where a payment is on which no call by hand had an effect.
PathOf(i) ==
  trail[i] \cap ByHandOps = {} =>
    /\ timer[i] \in {"made", "armed", "sending"} => status[i] = "initiated"
    /\ timer[i] = "adding" => status[i] = "pending"
    /\ Known("transaction", i) => status[i] \in {"pending", "done", "failed"}
    /\ hand["transaction"] = i /\ phase["transaction"] = "running" =>
         visit[Processor].copy \in {"absent", status[i]}
    /\ i \in Queued("transaction") \/ (hand["transaction"] = i /\ phase["transaction"] = "running") =>
         status[i] = "pending" \/ stalls[i] > 0

PaymentInv == \A i \in TrxId : OrderOf(i) /\ CarriedOf(i) /\ OnceOf(i) /\ PathOf(i)

\* A request is somewhere, and every opening of it had a delivery of its own.
RequestOf(r) ==
  /\ Known("account", r) \/ opened[r] > 0 => r \in asked
  /\ r \in asked /\ opened[r] = 0 /\ trail[r] \cap LeftBehind = {} =>
       r \in Queued("account") \cup active["account"]
  /\ hand["account"] = r /\ phase["account"] = "returned" =>
       opened[r] > 0 \/ "refused" \in trail[r]
  /\ opened[r] + (IF r \in Queued("account") THEN 1 ELSE 0)
       + (IF hand["account"] = r /\ phase["account"] = "running" THEN 1 ELSE 0)
       <= 1 + stalls[r]

RequestInv == \A r \in Request : RequestOf(r)

PipelineInv == Typed /\ QueueInv /\ CallInv /\ PaymentInv /\ RequestInv

-----------------------------------------------------------------------------
(* The calls of LifeCycle, caller by caller and row by row.                *)

LEMMA Callers ==
  /\ \A i \in TrxId : Maker(i) \in ApiCaller /\ Timer(i) \in ApiCaller
  /\ \A c \in Client : <<"client", c>> \in ApiCaller
  /\ Processor \in Caller \ ApiCaller /\ ApiCaller \subseteq Caller
  /\ \A i, j : /\ Maker(i) # Timer(j) /\ Maker(i) # Processor /\ Timer(i) # Processor
               /\ Maker(i) = Maker(j) => i = j
               /\ Timer(i) = Timer(j) => i = j
               /\ Maker(i) # <<"client", j>> /\ Timer(i) # <<"client", j>>
               /\ Processor # <<"client", j>>
BY DEF ApiCaller, Caller, Maker, Timer, Processor

LEMMA SucceedFacts ==
  ASSUME LC!TypeOK, NEW c \in Caller, LC!Succeed(c)
  PROVE  /\ LC!TypeOK'
         /\ visit[c].op \in LC!Op /\ visit[c].id \in TrxId
         /\ visit[c].copy \in LC!Needs(visit[c].op)
         /\ \A d \in Caller : visit'[d] = IF d = c THEN LC!NoVisit ELSE visit[d]
         /\ \A i \in TrxId :
              /\ status'[i] = IF i = visit[c].id THEN LC!Writes(visit[c].op) ELSE status[i]
              /\ settled'[i] = IF i = visit[c].id /\ visit[c].op = "process"
                               THEN IF settled[i] = 0 THEN 1 ELSE 2 ELSE settled[i]
<1> DEFINE v == visit[c]
<1>1. v \in [op: LC!Op, id: TrxId, copy: LC!RowStatus]
  BY DEF LC!TypeOK, LC!Succeed, LC!NoVisit, LC!Op, LC!ById
<1>2. LC!Writes(v.op) \in LC!RowStatus
  BY <1>1 DEF LC!Writes, LC!Op, LC!ById, LC!RowStatus, LC!Status
<1>3. /\ v.op \in LC!Op /\ v.copy \in LC!Needs(v.op)
      /\ status' = [status EXCEPT ![v.id] = LC!Writes(v.op)]
      /\ settled' = IF v.op = "process"
                    THEN [settled EXCEPT ![v.id] = IF @ = 0 THEN 1 ELSE 2] ELSE settled
      /\ visit' = [visit EXCEPT ![c] = LC!NoVisit]
  BY DEF LC!Succeed
<1>4. /\ status \in [TrxId -> LC!RowStatus] /\ settled \in [TrxId -> 0..2]
      /\ visit \in [Caller -> [op: LC!Op, id: TrxId, copy: LC!RowStatus] \cup {LC!NoVisit}]
  BY DEF LC!TypeOK
<1> HIDE DEF v
<1>5. \A d \in Caller : visit'[d] = IF d = c THEN LC!NoVisit ELSE visit[d]
  BY <1>3, <1>4
<1>6. \A i \in TrxId :
        /\ status'[i] = IF i = v.id THEN LC!Writes(v.op) ELSE status[i]
        /\ settled'[i] = IF i = v.id /\ v.op = "process"
                         THEN IF settled[i] = 0 THEN 1 ELSE 2 ELSE settled[i]
  BY <1>1, <1>3, <1>4
<1>7. LC!TypeOK'
  BY <1>1, <1>2, <1>3, <1>4 DEF LC!TypeOK
<1> QED
  BY <1>1, <1>3, <1>5, <1>6, <1>7 DEF v

LEMMA DropFacts ==
  ASSUME LC!TypeOK, NEW C, LC!Drop(C)
  PROVE  /\ LC!TypeOK'
         /\ \A d \in Caller : visit'[d] = IF d \in C THEN LC!NoVisit ELSE visit[d]
         /\ status' = status /\ settled' = settled
BY DEF LC!TypeOK, LC!Drop

LEMMA CreateFacts ==
  ASSUME LC!TypeOK, NEW c \in Caller, NEW i \in TrxId, LC!CallCreate(c, i)
  PROVE  /\ LC!TypeOK'
         /\ status[i] = "absent"
         /\ \A d \in Caller :
              visit'[d] = IF d = c THEN [op |-> "create", id |-> i, copy |-> "initiated"] ELSE visit[d]
         /\ status' = status /\ settled' = settled
BY DEF LC!TypeOK, LC!CallCreate, LC!Op, LC!RowStatus, LC!Status

LEMMA CallFacts ==
  ASSUME LC!TypeOK, NEW c \in Caller, NEW i \in TrxId, NEW o, LC!Call(c, o, i)
  PROVE  /\ LC!TypeOK'
         /\ o \in LC!ById /\ LC!Idle(c)
         /\ \A d \in Caller :
              visit'[d] = IF d = c THEN [op |-> o, id |-> i, copy |-> "absent"] ELSE visit[d]
         /\ status' = status /\ settled' = settled
BY DEF LC!TypeOK, LC!Call, LC!Op, LC!RowStatus

LEMMA LookupFacts ==
  ASSUME LC!TypeOK, NEW c \in Caller, LC!Read(c) \/ LC!Restart(c) \/ LC!GiveUp(c)
  PROVE  /\ LC!TypeOK'
         /\ visit[c].op \in LC!ById \cup {"fail"} /\ visit[c].id \in TrxId
         /\ visit'[c].op = visit[c].op \/ (visit[c].op = "process" /\ visit'[c].op = "fail")
         /\ visit'[c].id = visit[c].id
         /\ visit'[c].copy \in {"absent", status[visit[c].id]}
         /\ \A d \in Caller : d # c => visit'[d] = visit[d]
         /\ status' = status /\ settled' = settled
<1> DEFINE Visit == [op: LC!Op, id: TrxId, copy: LC!RowStatus]
<1>t. /\ visit \in [Caller -> Visit \cup {LC!NoVisit}] /\ status \in [TrxId -> LC!RowStatus]
      /\ settled \in [TrxId -> 0..2]
  BY DEF LC!TypeOK
<1>1. visit[c].op \in LC!ById \cup {"fail"} /\ visit[c].op # "none"
  BY DEF LC!Read, LC!Restart, LC!GiveUp, LC!ById
<1>2. visit[c] \in Visit
  BY <1>t, <1>1 DEF LC!NoVisit
<1>3. ASSUME NEW v \in Visit, visit' = [visit EXCEPT ![c] = v],
             v.op = visit[c].op \/ (visit[c].op = "process" /\ v.op = "fail"),
             v.id = visit[c].id, v.copy \in {"absent", status[visit[c].id]},
             status' = status, settled' = settled
      PROVE  /\ LC!TypeOK'
             /\ visit'[c].op = visit[c].op \/ (visit[c].op = "process" /\ visit'[c].op = "fail")
             /\ visit'[c].id = visit[c].id
             /\ visit'[c].copy \in {"absent", status[visit[c].id]}
             /\ \A d \in Caller : d # c => visit'[d] = visit[d]
             /\ status' = status /\ settled' = settled
  BY <1>t, <1>3 DEF LC!TypeOK
<1>4. CASE LC!Read(c)
  <2> DEFINE v == [visit[c] EXCEPT !.copy = status[visit[c].id]]
  <2>1. v \in Visit /\ v.op = visit[c].op /\ v.id = visit[c].id /\ v.copy = status[visit[c].id]
    BY <1>t, <1>2
  <2>2. visit' = [visit EXCEPT ![c] = v] /\ status' = status /\ settled' = settled
    BY <1>4 DEF LC!Read
  <2> HIDE DEF v, Visit
  <2> QED
    BY <1>1, <1>2, <1>3, <2>1, <2>2 DEF Visit
<1>5. CASE LC!Restart(c)
  <2> DEFINE v == [visit[c] EXCEPT !.copy = "absent"]
  <2>1. v \in Visit /\ v.op = visit[c].op /\ v.id = visit[c].id /\ v.copy = "absent"
    BY <1>2 DEF LC!RowStatus
  <2>2. visit' = [visit EXCEPT ![c] = v] /\ status' = status /\ settled' = settled
    BY <1>5 DEF LC!Restart
  <2> HIDE DEF v, Visit
  <2> QED
    BY <1>1, <1>2, <1>3, <2>1, <2>2 DEF Visit
<1>6. CASE LC!GiveUp(c)
  <2> DEFINE v == [op |-> "fail", id |-> visit[c].id, copy |-> "absent"]
  <2>1. v \in Visit /\ v.op = "fail" /\ v.id = visit[c].id /\ v.copy = "absent"
    BY <1>2 DEF LC!RowStatus, LC!Op
  <2>2. visit' = [visit EXCEPT ![c] = v] /\ status' = status /\ settled' = settled
        /\ visit[c].op = "process"
    BY <1>6 DEF LC!GiveUp
  <2> HIDE DEF v, Visit
  <2> QED
    BY <1>1, <1>2, <1>3, <2>1, <2>2 DEF Visit
<1> QED
  BY <1>1, <1>2, <1>4, <1>5, <1>6

-----------------------------------------------------------------------------
(* The queues.                                                             *)

LEMMA WaitingIs ==
  ASSUME Typed, NEW q \in QueueName, NEW s \in Seq(Job), IsInjective(s),
         waiting' = [waiting EXCEPT ![q] = s]
  PROVE  /\ waiting' \in [QueueName -> Seq(Job)]
         /\ \A p \in QueueName :
              /\ IsInjective(waiting'[p])
              /\ Queued(p)' = IF p = q THEN ToSet(s) ELSE Queued(p)
<1>1. waiting \in [QueueName -> Seq(Job)] /\ \A p \in QueueName : IsInjective(waiting[p])
  BY DEF Typed, TypeOK
<1> QED
  BY <1>1 DEF Queued

LEMMA AddFacts ==
  ASSUME Typed, NEW q \in QueueName, NEW j \in JobOf(q), j \notin Queued(q), Add(q, j)
  PROVE  /\ waiting' \in [QueueName -> Seq(Job)]
         /\ \A p \in QueueName :
              /\ IsInjective(waiting'[p])
              /\ Queued(p)' = IF p = q THEN Queued(p) \cup {j} ELSE Queued(p)
<1>1. waiting[q] \in Seq(Job) /\ IsInjective(waiting[q]) /\ j \in Job
  BY DEF Typed, TypeOK, JobOf, Job
<1>2. /\ Append(waiting[q], j) \in Seq(Job) /\ IsInjective(Append(waiting[q], j))
      /\ ToSet(Append(waiting[q], j)) = Queued(q) \cup {j}
  BY <1>1, AppendSet DEF Queued
<1> QED
  BY <1>2, WaitingIs DEF Add

LEMMA TakeFacts ==
  ASSUME Typed, NEW q \in QueueName, waiting[q] # <<>>,
         waiting' = [waiting EXCEPT ![q] = Tail(@)]
  PROVE  /\ waiting' \in [QueueName -> Seq(Job)]
         /\ Head(waiting[q]) \in Queued(q)
         /\ \A p \in QueueName :
              /\ IsInjective(waiting'[p])
              /\ Queued(p)' = IF p = q THEN Queued(p) \ {Head(waiting[q])} ELSE Queued(p)
<1>1. waiting[q] \in Seq(Job) /\ IsInjective(waiting[q])
  BY DEF Typed, TypeOK
<1>2. /\ Tail(waiting[q]) \in Seq(Job) /\ IsInjective(Tail(waiting[q]))
      /\ Head(waiting[q]) \in Queued(q)
      /\ ToSet(Tail(waiting[q])) = Queued(q) \ {Head(waiting[q])}
  BY <1>1, TailSet DEF Queued
<1> QED
  BY <1>2, WaitingIs

LEMMA RequeueFacts ==
  ASSUME Typed, NEW q \in QueueName, NEW j \in JobOf(q), j \notin Queued(q),
         waiting' = [waiting EXCEPT ![q] = <<j>> \o @]
  PROVE  /\ waiting' \in [QueueName -> Seq(Job)]
         /\ \A p \in QueueName :
              /\ IsInjective(waiting'[p])
              /\ Queued(p)' = IF p = q THEN Queued(p) \cup {j} ELSE Queued(p)
<1>1. waiting[q] \in Seq(Job) /\ IsInjective(waiting[q]) /\ j \in Job
  BY DEF Typed, TypeOK, JobOf, Job
<1>2. /\ <<j>> \o waiting[q] \in Seq(Job) /\ IsInjective(<<j>> \o waiting[q])
      /\ ToSet(<<j>> \o waiting[q]) = Queued(q) \cup {j}
  BY <1>1, PrependSet DEF Queued
<1> QED
  BY <1>2, WaitingIs

-----------------------------------------------------------------------------
(* Every action keeps the invariant.                                       *)

\* A call arrives, looks up or is dropped: no row, timer or queue changes, and what the
\* processor knows of a row is what the row says, or nothing.
LEMMA VisitKeeps ==
  ASSUME PipelineInv, UNCHANGED <<status, settled, up, timer, queues, history>>,
         LC!TypeOK', CallInv',
         visit'[Processor].id = visit[Processor].id,
         visit'[Processor].op = "process" => visit[Processor].op = "process",
         visit'[Processor].copy \in {visit[Processor].copy, "absent", status[visit[Processor].id]}
  PROVE  PipelineInv'
<1> USE DEF PipelineInv
<1>1. Queued("account")' = Queued("account") /\ Queued("transaction")' = Queued("transaction")
  BY DEF queues, Queued
<1>2. Typed'
  BY DEF Typed, TypeOK, queues, history
<1>3. QueueInv'
  BY <1>1 DEF QueueInv, QueueOf, queues, QueueName
<1>4. PaymentInv'
  <2> SUFFICES ASSUME NEW i \in TrxId
               PROVE  OrderOf(i)' /\ CarriedOf(i)' /\ OnceOf(i)' /\ PathOf(i)'
    BY DEF PaymentInv
  <2>1. OrderOf(i) /\ CarriedOf(i) /\ OnceOf(i) /\ PathOf(i)
    BY DEF PaymentInv
  <2>2. OrderOf(i)'
    BY <1>1, <2>1 DEF OrderOf, Known, queues
  <2>3. CarriedOf(i)'
    BY <1>1, <2>1 DEF CarriedOf, CallInv, ProcessorOf, queues, history
  <2>4. OnceOf(i)'
    BY <2>1 DEF OnceOf, history
  <2>5. PathOf(i)'
    BY <1>1, <2>1 DEF PathOf, CallInv, ProcessorOf, Known, queues, history
  <2> QED
    BY <2>2, <2>3, <2>4, <2>5
<1>5. RequestInv'
  BY <1>1 DEF RequestInv, RequestOf, Known, queues, history
<1> QED
  BY <1>2, <1>3, <1>4, <1>5

\* Nothing moves but what the job j is about.
Only(j) ==
  /\ \A k \in Job \ {j} :
       /\ trail'[k] = trail[k] /\ stalls'[k] = stalls[k]
       /\ \A p \in QueueName : /\ k \in Queued(p)' <=> k \in Queued(p)
                               /\ k \in active'[p] <=> k \in active[p]
  /\ \A i \in TrxId \ {j} :
       status'[i] = status[i] /\ settled'[i] = settled[i] /\ timer'[i] = timer[i]
  /\ \A r \in Request \ {j} : opened'[r] = opened[r] /\ (r \in asked' <=> r \in asked)
  /\ \A p \in QueueName : \/ hand'[p] = hand[p] /\ phase'[p] = phase[p]
                          \/ hand[p] \in {j, NoId} /\ hand'[p] \in {j, NoId}
  /\ \/ visit'[Processor] = visit[Processor]
     \/ /\ hand'["transaction"] \in {j, NoId}
        /\ visit'[Processor].op = "process" => visit'[Processor].id = j

\* Then the invariant holds of everything else.
LEMMA OnlyKeeps ==
  ASSUME PipelineInv, NEW j \in Job, Only(j), Typed', CallInv',
         \A q \in QueueName : j \in JobOf(q) => QueueOf(q, j)',
         j \in TrxId => OrderOf(j)' /\ CarriedOf(j)' /\ OnceOf(j)' /\ PathOf(j)',
         j \in Request => RequestOf(j)'
  PROVE  PipelineInv'
<1> USE DEF PipelineInv
<1>1. \A p \in QueueName : \A k \in Job \ {j} :
        /\ hand'[p] = k <=> hand[p] = k
        /\ hand[p] = k => phase'[p] = phase[p]
  BY PipelineAssumption DEF Only
<1>2. QueueInv'
  <2> SUFFICES ASSUME NEW q \in QueueName, NEW k \in JobOf(q), k # j
               PROVE  QueueOf(q, k)'
    BY DEF QueueInv
  <2>1. k \in Job /\ QueueOf(q, k)
    BY DEF JobOf, Job, QueueInv
  <2> QED
    BY <1>1, <2>1 DEF QueueOf, Only
<1>3. PaymentInv'
  <2> SUFFICES ASSUME NEW i \in TrxId, i # j
               PROVE  OrderOf(i)' /\ CarriedOf(i)' /\ OnceOf(i)' /\ PathOf(i)'
    BY DEF PaymentInv
  <2>1. OrderOf(i) /\ CarriedOf(i) /\ OnceOf(i) /\ PathOf(i)
    BY DEF PaymentInv
  <2>2. i \in Job \ {j} /\ i \in TrxId \ {j} /\ "transaction" \in QueueName
    BY DEF Job, QueueName
  <2>3. Known("transaction", i)' <=> Known("transaction", i)
    BY <1>1, <2>2 DEF Known, Only
  <2>4. OrderOf(i)'
    BY <2>1, <2>2, <2>3 DEF OrderOf, Only
  <2>5. hand'["transaction"] = i => visit'[Processor] = visit[Processor]
    BY <2>2, PipelineAssumption DEF Only
  <2>6. CarriedOf(i)'
    BY <1>1, <2>1, <2>2, <2>5 DEF CarriedOf, Only
  <2>7. OnceOf(i)'
    BY <2>1, <2>2 DEF OnceOf, Only
  <2>8. PathOf(i)'
    BY <1>1, <2>1, <2>2, <2>3, <2>5 DEF PathOf, Only
  <2> QED
    BY <2>4, <2>6, <2>7, <2>8
<1>4. RequestInv'
  <2> SUFFICES ASSUME NEW r \in Request, r # j
               PROVE  RequestOf(r)'
    BY DEF RequestInv
  <2>1. RequestOf(r) /\ r \in Job \ {j} /\ r \in Request \ {j} /\ "account" \in QueueName
    BY DEF RequestInv, Job, QueueName
  <2> QED
    BY <1>1, <2>1 DEF RequestOf, Known, Only
<1> QED
  BY <1>2, <1>3, <1>4

\* One payment moves, and no queue or processor does.
LEMMA MoveKeeps ==
  ASSUME PipelineInv, NEW i \in TrxId,
         UNCHANGED <<up, queues, opened, asked>>,
         timer' \in [TrxId -> {"none", "made", "armed", "sending", "adding"}],
         trail' \in [Job -> SUBSET Event],
         \A j \in Job : j # i => trail'[j] = trail[j],
         \A j \in TrxId : j # i => /\ status'[j] = status[j] /\ settled'[j] = settled[j]
                                   /\ timer'[j] = timer[j],
         visit'[Processor] = visit[Processor],
         LC!TypeOK', CallInv', OrderOf(i)', CarriedOf(i)', OnceOf(i)', PathOf(i)'
  PROVE  PipelineInv'
<1>1. \A q \in QueueName : Queued(q)' = Queued(q)
  BY DEF queues, Queued
<1>2. Typed'
  BY DEF PipelineInv, Typed, TypeOK, queues
<1>3. Only(i)
  BY <1>1 DEF Only, queues
<1>4. \A q \in QueueName : i \in JobOf(q) => QueueOf(q, i)'
  BY <1>1 DEF PipelineInv, QueueInv, QueueOf, queues
<1>5. i \in Job /\ i \notin Request
  BY PipelineAssumption DEF Job
<1> QED
  BY <1>2, <1>3, <1>4, <1>5, OnlyKeeps

\* The call of one caller changes, no row vanishes, and only its maker makes one.
LEMMA CallsKeep ==
  ASSUME PipelineInv, NEW w \in Caller,
         \A d \in Caller : d # w => visit'[d] = visit[d],
         \A j \in TrxId : status'[j] = status[j]
                          \/ (status'[j] # "absent" /\ (status[j] # "absent" \/ w = Maker(j))),
         \A j \in TrxId : w # Timer(j) => (timer'[j] = "sending" <=> timer[j] = "sending"),
         w # Processor => UNCHANGED <<phase, hand>>,
         \A j \in TrxId : (w = Maker(j) => MakerOf(j)') /\ (w = Timer(j) => TimerOf(j)'),
         w = Processor => ProcessorOf',
         \A c \in Client : w = <<"client", c>> => ClientOf(c)'
  PROVE  CallInv'
<1>1. CallInv /\ LC!TypeOK
  BY DEF PipelineInv, Typed, TypeOK
<1>2. ASSUME NEW j \in TrxId
      PROVE  MakerOf(j)'
  BY <1>1, <1>2, Callers DEF CallInv, MakerOf
<1>3. ASSUME NEW j \in TrxId
      PROVE  TimerOf(j)'
  BY <1>1, <1>3, Callers DEF CallInv, TimerOf
<1>4. ProcessorOf'
  BY <1>1, Callers DEF CallInv, ProcessorOf
<1>5. ASSUME NEW c \in Client, w # <<"client", c>>
      PROVE  ClientOf(c)'
  <2>1. visit'[<<"client", c>>] = visit[<<"client", c>>] /\ ClientOf(c)
    BY <1>1, <1>5, Callers DEF CallInv
  <2>2. visit[<<"client", c>>].op # "none" => visit[<<"client", c>>].id \in TrxId
    BY <1>1, Callers DEF LC!TypeOK, LC!NoVisit
  <2> QED
    BY <2>1, <2>2 DEF ClientOf
<1> QED
  BY <1>2, <1>3, <1>4, <1>5 DEF CallInv

LEMMA MakeTransactionKeeps ==
  ASSUME PipelineInv, NEW i \in TrxId, MakeTransaction(i) \/ NotMade(i)
  PROVE  PipelineInv'
<1>t. LC!TypeOK
  BY DEF PipelineInv, Typed, TypeOK
<1>u. UNCHANGED <<up, timer, queues, history>>
  BY DEF MakeTransaction, NotMade
<1>1. /\ LC!TypeOK' /\ status' = status /\ settled' = settled
      /\ \A d \in Caller : d # Maker(i) => visit'[d] = visit[d]
      /\ MakerOf(i)'
  <2>1. CASE MakeTransaction(i)
    <3> DEFINE v == [op |-> "create", id |-> i, copy |-> "initiated"]
    <3>1. Maker(i) \in Caller
      BY Callers
    <3>2. /\ LC!TypeOK' /\ status[i] = "absent" /\ status' = status /\ settled' = settled
          /\ \A d \in Caller : visit'[d] = IF d = Maker(i) THEN v ELSE visit[d]
      BY <1>t, <2>1, <3>1, CreateFacts DEF MakeTransaction
    <3>3. visit'[Maker(i)] = v
      BY <3>1, <3>2
    <3> QED
      BY <3>2, <3>3 DEF MakerOf
  <2>2. CASE NotMade(i)
    BY <1>t, <2>2, Callers, DropFacts DEF NotMade, LC!NoVisit, MakerOf
  <2> QED
    BY <2>1, <2>2
<1>2. CallInv'
  BY <1>1, <1>u, Callers, CallsKeep DEF queues
<1> QED
  BY <1>1, <1>2, <1>u, Callers, VisitKeeps

LEMMA ByHandKeeps ==
  ASSUME PipelineInv, NEW c \in Client,
         (\E o \in ClientOps, i \in TrxId : ByHand(c, o, i)) \/ ByHandRefused(c)
  PROVE  PipelineInv'
<1> DEFINE w == <<"client", c>>
<1>t. LC!TypeOK
  BY DEF PipelineInv, Typed, TypeOK
<1>u. UNCHANGED <<up, timer, queues, history>>
  BY DEF ByHand, ByHandRefused
<1> DEFINE Moved == /\ LC!TypeOK' /\ status' = status /\ settled' = settled
                    /\ \A d \in Caller : d # w => visit'[d] = visit[d]
                    /\ ClientOf(c)'
<1>1. Moved
  <2>1. ASSUME NEW o \in ClientOps, NEW i \in TrxId, ByHand(c, o, i)
        PROVE  Moved
    <3> DEFINE v == [op |-> o, id |-> i, copy |-> "absent"]
    <3>1. w \in Caller /\ status[i] # "absent"
      BY <2>1, Callers DEF ByHand
    <3>2. /\ LC!TypeOK' /\ o \in LC!ById /\ status' = status /\ settled' = settled
          /\ \A d \in Caller : visit'[d] = IF d = w THEN v ELSE visit[d]
      BY <1>t, <2>1, <3>1, CallFacts DEF ByHand
    <3>3. visit'[w] = v /\ o \in ByHandOps
      BY <3>1, <3>2 DEF LC!ById, ByHandOps
    <3> QED
      BY <3>1, <3>2, <3>3 DEF ClientOf
  <2>2. CASE ByHandRefused(c)
    BY <1>t, <2>2, Callers, DropFacts DEF ByHandRefused, LC!NoVisit, ClientOf
  <2> QED
    BY <2>1, <2>2
<1>2. CallInv'
  BY <1>1, <1>u, Callers, CallsKeep DEF queues
<1> QED
  BY <1>1, <1>2, <1>u, Callers, VisitKeeps

LEMMA LookupKeeps ==
  ASSUME PipelineInv, NEW c \in Caller, Lookup(c)
  PROVE  PipelineInv'
<1>t. LC!TypeOK /\ CallInv
  BY DEF PipelineInv, Typed, TypeOK
<1>u. UNCHANGED <<up, timer, queues, history>>
  BY DEF Lookup
<1>1. /\ LC!TypeOK' /\ status' = status /\ settled' = settled
      /\ visit[c].op \in {"process", "cancel", "send", "fail"}
      /\ visit'[c].op = visit[c].op \/ (visit[c].op = "process" /\ visit'[c].op = "fail")
      /\ visit'[c].id = visit[c].id
      /\ visit'[c].copy \in {"absent", status[visit[c].id]}
      /\ \A d \in Caller : d # c => visit'[d] = visit[d]
  BY <1>t, LookupFacts DEF Lookup, LC!ById
<1>2. CallInv'
  <2>1. ASSUME NEW j \in TrxId
        PROVE  (c = Maker(j) => MakerOf(j)') /\ (c = Timer(j) => TimerOf(j)')
    BY <1>1, <1>t, <1>u DEF CallInv, MakerOf, TimerOf
  <2>2. c = Processor => ProcessorOf'
    BY <1>1, <1>t, <1>u DEF CallInv, ProcessorOf, queues
  <2>3. ASSUME NEW d \in Client, c = <<"client", d>>
        PROVE  ClientOf(d)'
    BY <1>1, <1>t, <2>3 DEF CallInv, ClientOf, ByHandOps
  <2> QED
    BY <1>1, <1>u, <2>1, <2>2, <2>3, CallsKeep DEF queues
<1>3. /\ visit'[Processor].id = visit[Processor].id
      /\ visit'[Processor].op = "process" => visit[Processor].op = "process"
      /\ visit'[Processor].copy \in {visit[Processor].copy, "absent", status[visit[Processor].id]}
  BY <1>1, Callers
<1> QED
  BY <1>1, <1>2, <1>3, <1>u, VisitKeeps

\* What the types give for one payment.
LEMMA PaymentFacts ==
  ASSUME PipelineInv, NEW i \in TrxId
  PROVE  /\ LC!TypeOK /\ i \in Job
         /\ timer \in [TrxId -> {"none", "made", "armed", "sending", "adding"}]
         /\ trail \in [Job -> SUBSET Event]
         /\ settled[i] \in 0..2 /\ stalls[i] \in Nat
         /\ OrderOf(i) /\ CarriedOf(i) /\ OnceOf(i) /\ PathOf(i)
BY DEF PipelineInv, Typed, TypeOK, LC!TypeOK, Job, PaymentInv, MaxStalledCount

\* What Note writes.
LEMMA NoteFacts ==
  ASSUME PipelineInv, NEW j \in Job, NEW e \in Event, Note(j, e)
  PROVE  /\ trail' \in [Job -> SUBSET Event]
         /\ trail'[j] = trail[j] \cup {e}
         /\ \A k \in Job : k # j => trail'[k] = trail[k]
BY DEF PipelineInv, Typed, Note

LEMMA MadeKeeps ==
  ASSUME PipelineInv, NEW i \in TrxId, Made(i)
  PROVE  PipelineInv'
<1> DEFINE w == Maker(i)
<1>1. w \in Caller /\ w \in ApiCaller
  BY Callers
<1>2. /\ LC!TypeOK' /\ visit[w].op \in LC!Op
      /\ \A d \in Caller : visit'[d] = IF d = w THEN LC!NoVisit ELSE visit[d]
      /\ \A j \in TrxId :
           /\ status'[j] = IF j = visit[w].id THEN LC!Writes(visit[w].op) ELSE status[j]
           /\ settled'[j] = IF j = visit[w].id /\ visit[w].op = "process"
                            THEN IF settled[j] = 0 THEN 1 ELSE 2 ELSE settled[j]
  BY <1>1, PaymentFacts, SucceedFacts DEF Made
<1>3. visit[w].op = "create" /\ visit[w].id = i /\ status[i] = "absent"
  BY <1>2 DEF PipelineInv, CallInv, MakerOf, LC!Op, LC!ById
<1>4. \A j \in TrxId : /\ status'[j] = IF j = i THEN "initiated" ELSE status[j]
                       /\ settled'[j] = settled[j]
  BY <1>2, <1>3 DEF LC!Writes
<1>5. timer' = [timer EXCEPT ![i] = "made"] /\ UNCHANGED <<up, queues, history>>
  BY DEF Made
<1>6. /\ visit'[w] = LC!NoVisit /\ visit'[Processor] = visit[Processor]
      /\ timer'[i] = "made" /\ \A j \in TrxId : j # i => timer'[j] = timer[j]
      /\ Queued("transaction")' = Queued("transaction")
  BY <1>1, <1>2, <1>5, Callers, PaymentFacts DEF queues, Queued
<1>7. timer[i] = "none" /\ settled[i] = 0 /\ ~Known("transaction", i)
  BY <1>3, PaymentFacts DEF OrderOf
<1>8. CallInv'
  <2>1. MakerOf(i)'
    BY <1>6 DEF MakerOf, LC!NoVisit
  <2> QED
    BY <1>1, <1>2, <1>4, <1>5, <1>6, <1>7, <2>1, Callers, CallsKeep DEF queues
<1>9. OrderOf(i)' /\ CarriedOf(i)' /\ OnceOf(i)' /\ PathOf(i)'
  BY <1>4, <1>5, <1>6, <1>7 DEF OrderOf, CarriedOf, OnceOf, PathOf, Known, queues
<1> QED
  BY <1>2, <1>4, <1>5, <1>6, <1>8, <1>9, PaymentFacts, MoveKeeps DEF history

LEMMA MadeUnseenKeeps ==
  ASSUME PipelineInv, NEW i \in TrxId, MadeUnseen(i)
  PROVE  PipelineInv'
<1> DEFINE w == Maker(i)
<1>1. w \in Caller /\ w \in ApiCaller
  BY Callers
<1>2. /\ LC!TypeOK' /\ visit[w].op \in LC!Op
      /\ \A d \in Caller : visit'[d] = IF d = w THEN LC!NoVisit ELSE visit[d]
      /\ \A j \in TrxId :
           /\ status'[j] = IF j = visit[w].id THEN LC!Writes(visit[w].op) ELSE status[j]
           /\ settled'[j] = IF j = visit[w].id /\ visit[w].op = "process"
                            THEN IF settled[j] = 0 THEN 1 ELSE 2 ELSE settled[j]
  BY <1>1, PaymentFacts, SucceedFacts DEF MadeUnseen
<1>3. visit[w].op = "create" /\ visit[w].id = i /\ status[i] = "absent"
  BY <1>2 DEF PipelineInv, CallInv, MakerOf, LC!Op, LC!ById
<1>4. \A j \in TrxId : /\ status'[j] = IF j = i THEN "initiated" ELSE status[j]
                       /\ settled'[j] = settled[j]
  BY <1>2, <1>3 DEF LC!Writes
<1>5. timer' = timer /\ UNCHANGED <<up, queues, opened, asked>> /\ Note(i, "unanswered")
  BY DEF MadeUnseen
<1>6. /\ visit'[w] = LC!NoVisit /\ visit'[Processor] = visit[Processor]
      /\ Queued("transaction")' = Queued("transaction")
  BY <1>1, <1>2, <1>5, Callers, PaymentFacts DEF queues, Queued
<1>7. timer[i] = "none" /\ settled[i] = 0 /\ ~Known("transaction", i)
  BY <1>3, PaymentFacts DEF OrderOf
<1>n. /\ trail' \in [Job -> SUBSET Event] /\ trail'[i] = trail[i] \cup {"unanswered"}
      /\ \A j \in Job : j # i => trail'[j] = trail[j]
  BY <1>5, NoteFacts, PaymentFacts DEF Event, LeftBehind
<1>8. CallInv'
  <2>1. MakerOf(i)'
    BY <1>6 DEF MakerOf, LC!NoVisit
  <2> QED
    BY <1>1, <1>2, <1>4, <1>5, <1>6, <1>7, <2>1, Callers, CallsKeep DEF queues
<1>9. OrderOf(i)' /\ CarriedOf(i)' /\ OnceOf(i)' /\ PathOf(i)'
  BY <1>4, <1>5, <1>6, <1>7, <1>n DEF LeftBehind, OrderOf, CarriedOf, OnceOf, PathOf, Known, queues
<1> QED
  BY <1>2, <1>4, <1>5, <1>6, <1>8, <1>9, <1>n, PaymentFacts, MoveKeeps

LEMMA ArmKeeps ==
  ASSUME PipelineInv, NEW i \in TrxId, Arm(i)
  PROVE  PipelineInv'
<1>1. /\ timer[i] = "made" /\ timer' = [timer EXCEPT ![i] = "armed"]
      /\ UNCHANGED <<status, visit, settled, up, queues, history>>
  BY DEF Arm
<1>2. /\ timer'[i] = "armed" /\ \A j \in TrxId : j # i => timer'[j] = timer[j]
      /\ LC!TypeOK' /\ Queued("transaction")' = Queued("transaction")
  BY <1>1, PaymentFacts DEF queues, Queued, LC!TypeOK
<1>3. CallInv'
  BY <1>1, <1>2 DEF PipelineInv, CallInv, MakerOf, TimerOf, ProcessorOf, ClientOf, queues
<1>4. OrderOf(i)' /\ CarriedOf(i)' /\ OnceOf(i)' /\ PathOf(i)'
  BY <1>1, <1>2, PaymentFacts DEF OrderOf, CarriedOf, OnceOf, PathOf, Known, queues, history
<1> QED
  BY <1>1, <1>2, <1>3, <1>4, PaymentFacts, MoveKeeps DEF history

LEMMA FireKeeps ==
  ASSUME PipelineInv, NEW i \in TrxId, Fire(i)
  PROVE  PipelineInv'
<1> DEFINE w == Timer(i)
           v == [op |-> "send", id |-> i, copy |-> "absent"]
<1>1. w \in Caller /\ timer[i] = "armed" /\ timer' = [timer EXCEPT ![i] = "sending"]
      /\ UNCHANGED <<up, queues, history>>
  BY Callers DEF Fire
<1>2. /\ LC!TypeOK' /\ status' = status /\ settled' = settled
      /\ \A d \in Caller : visit'[d] = IF d = w THEN v ELSE visit[d]
  BY <1>1, PaymentFacts, CallFacts DEF Fire
<1>3. /\ visit'[w] = v /\ visit'[Processor] = visit[Processor]
      /\ timer'[i] = "sending" /\ \A j \in TrxId : j # i => timer'[j] = timer[j]
      /\ Queued("transaction")' = Queued("transaction")
  BY <1>1, <1>2, Callers, PaymentFacts DEF queues, Queued
<1>4. CallInv'
  <2>1. TimerOf(i)'
    BY <1>3 DEF TimerOf
  <2> QED
    BY <1>1, <1>2, <1>3, <2>1, Callers, CallsKeep DEF queues
<1>5. OrderOf(i)' /\ CarriedOf(i)' /\ OnceOf(i)' /\ PathOf(i)'
  BY <1>1, <1>2, <1>3, PaymentFacts DEF OrderOf, CarriedOf, OnceOf, PathOf, Known, queues, history
<1> QED
  BY <1>1, <1>2, <1>3, <1>4, <1>5, PaymentFacts, MoveKeeps DEF history

LEMMA SentKeeps ==
  ASSUME PipelineInv, NEW i \in TrxId, Sent(i)
  PROVE  PipelineInv'
<1> DEFINE w == Timer(i)
<1>1. w \in Caller
  BY Callers
<1>2. /\ LC!TypeOK' /\ visit[w].op \in LC!Op
      /\ \A d \in Caller : visit'[d] = IF d = w THEN LC!NoVisit ELSE visit[d]
      /\ \A j \in TrxId :
           /\ status'[j] = IF j = visit[w].id THEN LC!Writes(visit[w].op) ELSE status[j]
           /\ settled'[j] = IF j = visit[w].id /\ visit[w].op = "process"
                            THEN IF settled[j] = 0 THEN 1 ELSE 2 ELSE settled[j]
  BY <1>1, PaymentFacts, SucceedFacts DEF Sent
<1>3. timer[i] = "sending" /\ visit[w].op = "send" /\ visit[w].id = i
  BY <1>2 DEF PipelineInv, CallInv, TimerOf, LC!Op, LC!ById
<1>4. \A j \in TrxId : /\ status'[j] = IF j = i THEN "pending" ELSE status[j]
                       /\ settled'[j] = settled[j]
  BY <1>2, <1>3 DEF LC!Writes
<1>5. timer' = [timer EXCEPT ![i] = "adding"] /\ UNCHANGED <<up, queues, history>>
  BY DEF Sent
<1>6. /\ visit'[w] = LC!NoVisit /\ visit'[Processor] = visit[Processor]
      /\ timer'[i] = "adding" /\ \A j \in TrxId : j # i => timer'[j] = timer[j]
      /\ Queued("transaction")' = Queued("transaction")
  BY <1>1, <1>2, <1>5, Callers, PaymentFacts DEF queues, Queued
<1>7. status[i] # "absent" /\ ~Known("transaction", i)
  BY <1>3, PaymentFacts DEF OrderOf
<1>8. CallInv'
  <2>1. TimerOf(i)'
    BY <1>6 DEF TimerOf, LC!NoVisit
  <2> QED
    BY <1>1, <1>2, <1>4, <1>5, <1>6, <1>7, <2>1, Callers, CallsKeep DEF queues
<1>9. OrderOf(i)' /\ CarriedOf(i)' /\ OnceOf(i)' /\ PathOf(i)'
  BY <1>3, <1>4, <1>5, <1>6, <1>7, PaymentFacts
     DEF OrderOf, CarriedOf, OnceOf, PathOf, Known, queues, history
<1> QED
  BY <1>2, <1>4, <1>5, <1>6, <1>8, <1>9, PaymentFacts, MoveKeeps DEF history

LEMMA SentUnseenKeeps ==
  ASSUME PipelineInv, NEW i \in TrxId, SentUnseen(i)
  PROVE  PipelineInv'
<1> DEFINE w == Timer(i)
<1>1. w \in Caller
  BY Callers
<1>2. /\ LC!TypeOK' /\ visit[w].op \in LC!Op
      /\ \A d \in Caller : visit'[d] = IF d = w THEN LC!NoVisit ELSE visit[d]
      /\ \A j \in TrxId :
           /\ status'[j] = IF j = visit[w].id THEN LC!Writes(visit[w].op) ELSE status[j]
           /\ settled'[j] = IF j = visit[w].id /\ visit[w].op = "process"
                            THEN IF settled[j] = 0 THEN 1 ELSE 2 ELSE settled[j]
  BY <1>1, PaymentFacts, SucceedFacts DEF SentUnseen
<1>3. timer[i] = "sending" /\ visit[w].op = "send" /\ visit[w].id = i
  BY <1>2 DEF PipelineInv, CallInv, TimerOf, LC!Op, LC!ById
<1>4. \A j \in TrxId : /\ status'[j] = IF j = i THEN "pending" ELSE status[j]
                       /\ settled'[j] = settled[j]
  BY <1>2, <1>3 DEF LC!Writes
<1>5. /\ timer' = [timer EXCEPT ![i] = "none"] /\ UNCHANGED <<up, queues, opened, asked>>
      /\ Note(i, "unanswered")
  BY DEF SentUnseen
<1>6. /\ visit'[w] = LC!NoVisit /\ visit'[Processor] = visit[Processor]
      /\ timer'[i] = "none" /\ \A j \in TrxId : j # i => timer'[j] = timer[j]
      /\ Queued("transaction")' = Queued("transaction")
  BY <1>1, <1>2, <1>5, Callers, PaymentFacts DEF queues, Queued
<1>7. status[i] # "absent" /\ ~Known("transaction", i)
  BY <1>3, PaymentFacts DEF OrderOf
<1>n. /\ trail' \in [Job -> SUBSET Event] /\ trail'[i] = trail[i] \cup {"unanswered"}
      /\ \A j \in Job : j # i => trail'[j] = trail[j]
  BY <1>5, NoteFacts, PaymentFacts DEF Event, LeftBehind
<1>8. CallInv'
  <2>1. TimerOf(i)'
    BY <1>6 DEF TimerOf, LC!NoVisit
  <2> QED
    BY <1>1, <1>2, <1>4, <1>5, <1>6, <1>7, <2>1, Callers, CallsKeep DEF queues
<1>9. OrderOf(i)' /\ CarriedOf(i)' /\ OnceOf(i)' /\ PathOf(i)'
  BY <1>3, <1>4, <1>5, <1>6, <1>7, <1>n, PaymentFacts
     DEF LeftBehind, OrderOf, CarriedOf, OnceOf, PathOf, Known, queues
<1> QED
  BY <1>2, <1>4, <1>5, <1>6, <1>8, <1>9, <1>n, PaymentFacts, MoveKeeps

LEMMA NotSentKeeps ==
  ASSUME PipelineInv, NEW i \in TrxId, NotSent(i)
  PROVE  PipelineInv'
<1> DEFINE w == Timer(i)
<1>1. w \in Caller /\ timer[i] = "sending" /\ timer' = [timer EXCEPT ![i] = "none"]
      /\ UNCHANGED <<up, queues, opened, asked>>
  BY Callers DEF NotSent
<1>2. /\ LC!TypeOK' /\ status' = status /\ settled' = settled
      /\ \A d \in Caller : visit'[d] = IF d = w THEN LC!NoVisit ELSE visit[d]
  BY <1>1, PaymentFacts, DropFacts DEF NotSent
<1>3. /\ visit'[w] = LC!NoVisit /\ visit'[Processor] = visit[Processor]
      /\ timer'[i] = "none" /\ \A j \in TrxId : j # i => timer'[j] = timer[j]
      /\ Queued("transaction")' = Queued("transaction")
  BY <1>1, <1>2, Callers, PaymentFacts DEF queues, Queued
<1>4. CallInv'
  <2>1. TimerOf(i)'
    BY <1>3 DEF TimerOf, LC!NoVisit
  <2> QED
    BY <1>1, <1>2, <1>3, <2>1, Callers, CallsKeep DEF queues
<1>5. /\ trail' \in [Job -> SUBSET Event] /\ trail[i] \subseteq trail'[i]
      /\ \A j \in Job : j # i => trail'[j] = trail[j]
  <2>1. trail' = trail \/ Note(i, "unsent")
    BY DEF NotSent
  <2> QED
    BY <2>1, NoteFacts, PaymentFacts DEF Event, LeftBehind
<1>6. ~Known("transaction", i) /\ status[i] # "absent"
  BY <1>1, PaymentFacts DEF OrderOf
<1>7. CarriedOf(i)'
  BY <1>1, <1>2, <1>5, <1>6, PaymentFacts DEF CarriedOf, Known, queues
<1>8. OrderOf(i)' /\ OnceOf(i)' /\ PathOf(i)'
  BY <1>1, <1>2, <1>3, <1>5, <1>6, PaymentFacts DEF OrderOf, OnceOf, PathOf, Known, queues
<1> QED
  BY <1>1, <1>2, <1>3, <1>4, <1>5, <1>7, <1>8, PaymentFacts, MoveKeeps

LEMMA ByHandDoneKeeps ==
  ASSUME PipelineInv, NEW c \in Client, ByHandDone(c)
  PROVE  PipelineInv'
<1> DEFINE w == <<"client", c>>
<1>1. w \in Caller /\ UNCHANGED <<up, timer, queues, opened, asked>> /\ LC!TypeOK
  BY Callers DEF ByHandDone, PipelineInv, Typed, TypeOK
<1>i. PICK i \in TrxId, o \in LC!Op : i = visit[w].id /\ o = visit[w].op
  BY <1>1, SucceedFacts DEF ByHandDone
<1>2. /\ LC!TypeOK'
      /\ \A d \in Caller : visit'[d] = IF d = w THEN LC!NoVisit ELSE visit[d]
      /\ \A j \in TrxId :
           /\ status'[j] = IF j = i THEN LC!Writes(o) ELSE status[j]
           /\ settled'[j] = IF j = i /\ o = "process"
                            THEN IF settled[j] = 0 THEN 1 ELSE 2 ELSE settled[j]
  BY <1>1, <1>i, SucceedFacts DEF ByHandDone
<1>3. o \in ByHandOps /\ status[i] # "absent"
  BY <1>i DEF PipelineInv, CallInv, ClientOf, LC!Op, LC!ById
<1>4. Note(i, o)
  BY <1>i DEF ByHandDone
<1>5. /\ trail' \in [Job -> SUBSET Event] /\ trail'[i] = trail[i] \cup {o}
      /\ \A j \in Job : j # i => trail'[j] = trail[j]
  BY <1>2, <1>3, <1>4, NoteFacts, PaymentFacts DEF Event
<1>6. /\ visit'[w] = LC!NoVisit /\ visit'[Processor] = visit[Processor]
      /\ Queued("transaction")' = Queued("transaction")
  BY <1>1, <1>2, Callers DEF queues, Queued
<1>7. /\ status'[i] \in {"cancelled", "pending", "done", "failed"}
      /\ status'[i] = "pending" => o = "send"
      /\ settled'[i] # settled[i] => o = "process"
  BY <1>2, <1>3 DEF ByHandOps, LC!Writes
<1>8. CallInv'
  <2>1. ClientOf(c)'
    BY <1>6 DEF ClientOf, LC!NoVisit
  <2>2. \A j \in TrxId : status'[j] = status[j] \/ (status'[j] # "absent" /\ status[j] # "absent")
    BY <1>2, <1>3, <1>7
  <2> QED
    BY <1>1, <1>2, <2>1, <2>2, Callers, CallsKeep DEF queues
<1>9. OrderOf(i)'
  BY <1>1, <1>2, <1>3, <1>6, <1>7, PaymentFacts DEF OrderOf, Known, queues
<1>10. CarriedOf(i)'
  BY <1>1, <1>2, <1>5, <1>6, <1>7, PaymentFacts DEF CarriedOf, LeftBehind, queues
<1>11. OnceOf(i)'
  BY <1>1, <1>2, <1>3, <1>5, <1>6, <1>7, PaymentFacts DEF OnceOf, ByHandOps
<1>12. PathOf(i)'
  BY <1>3, <1>5 DEF PathOf
<1> QED
  BY <1>1, <1>2, <1>5, <1>6, <1>8, <1>9, <1>10, <1>11, <1>12, PaymentFacts, MoveKeeps

\* What the types give for the queues.
LEMMA QueueFacts ==
  ASSUME PipelineInv, NEW q \in QueueName
  PROVE  /\ waiting[q] \in Seq(Job) /\ IsInjective(waiting[q])
         /\ active \in [QueueName -> SUBSET Job]
         /\ hand \in [QueueName -> Job \cup {NoId}]
         /\ phase \in [QueueName -> {"idle", "running", "returned"}]
         /\ Queued(q) \cup active[q] \subseteq JobOf(q) /\ Queued(q) \cap active[q] = {}
         /\ hand[q] \in JobOf(q) \cup {NoId}
         /\ phase[q] = "idle" <=> hand[q] = NoId
         /\ stalls \in [Job -> 0..2] /\ JobOf(q) \subseteq Job
         /\ \A j \in JobOf(q) : QueueOf(q, j)
BY DEF PipelineInv, Typed, TypeOK, Queued, JobOf, Job, QueueInv, MaxStalledCount

\* What the places of the jobs have to be for the types to hold again.
LEMMA QueuesTyped ==
  ASSUME PipelineInv, LC!TypeOK', UNCHANGED <<up, paused>>,
         timer' \in [TrxId -> {"none", "made", "armed", "sending", "adding"}],
         waiting' \in [QueueName -> Seq(Job)],
         active' \in [QueueName -> SUBSET Job],
         hand' \in [QueueName -> Job \cup {NoId}],
         phase' \in [QueueName -> {"idle", "running", "returned"}],
         stalls' \in [Job -> 0..2],
         opened' \in [Request -> Nat], asked' \subseteq Request, trail' \in [Job -> SUBSET Event],
         \A q \in QueueName :
           /\ IsInjective(waiting'[q])
           /\ Queued(q)' \cup active'[q] \subseteq JobOf(q)
           /\ Queued(q)' \cap active'[q] = {}
           /\ hand'[q] \in JobOf(q) \cup {NoId}
           /\ phase'[q] = "idle" <=> hand'[q] = NoId
  PROVE  Typed'
BY DEF PipelineInv, Typed, TypeOK, Queued, MaxStalledCount

LEMMA AddJobKeeps ==
  ASSUME PipelineInv, NEW i \in TrxId, AddJob(i)
  PROVE  PipelineInv'
<1> DEFINE q == "transaction"
<1>1. /\ timer[i] = "adding" /\ timer' = [timer EXCEPT ![i] = "none"]
      /\ UNCHANGED <<status, visit, settled, up, active, hand, phase, paused, stalls, history>>
      /\ Add(q, i)
  BY DEF AddJob
<1>2. q \in QueueName /\ i \in JobOf(q) /\ i \notin JobOf("account") /\ i \notin Request
  BY PipelineAssumption DEF QueueName, JobOf
<1>3. /\ status[i] \notin {"absent", "initiated"} /\ ~Known(q, i) /\ stalls[i] = 0
  BY <1>1, PaymentFacts DEF OrderOf, Known
<1>4. /\ waiting' \in [QueueName -> Seq(Job)]
      /\ \A p \in QueueName : /\ IsInjective(waiting'[p])
                              /\ Queued(p)' = IF p = q THEN Queued(p) \cup {i} ELSE Queued(p)
  BY <1>1, <1>2, <1>3, AddFacts DEF PipelineInv, Known
<1>5. timer'[i] = "none" /\ \A j \in TrxId : j # i => timer'[j] = timer[j]
  BY <1>1, PaymentFacts
<1>6. Typed'
  <2>1. ASSUME NEW p \in QueueName
        PROVE  /\ Queued(p)' \cup active'[p] \subseteq JobOf(p)
               /\ Queued(p)' \cap active'[p] = {}
    BY <1>1, <1>2, <1>3, <1>4, QueueFacts DEF Known
  <2> QED
    BY <1>1, <1>4, <2>1, QueueFacts, PaymentFacts, QueuesTyped
       DEF PipelineInv, Typed, TypeOK, LC!TypeOK, history
<1>7. CallInv'
  BY <1>1, <1>5 DEF PipelineInv, CallInv, MakerOf, TimerOf, ProcessorOf, ClientOf
<1>8. Only(i)
  BY <1>1, <1>4, <1>5 DEF Only, history
<1>9. \A p \in QueueName : i \in JobOf(p) => QueueOf(p, i)'
  BY <1>1, <1>2, <1>3 DEF QueueOf, QueueName, Known, MaxStalledCount
<1>10. OrderOf(i)' /\ CarriedOf(i)' /\ OnceOf(i)' /\ PathOf(i)'
  BY <1>1, <1>2, <1>3, <1>4, <1>5, PaymentFacts
     DEF OrderOf, CarriedOf, OnceOf, PathOf, Known, history
<1> QED
  BY <1>2, <1>6, <1>7, <1>8, <1>9, <1>10, OnlyKeeps, PaymentFacts

\* What the invariant gives for one request.
LEMMA RequestFacts ==
  ASSUME PipelineInv, NEW r \in Request
  PROVE  /\ LC!TypeOK /\ r \in Job /\ r \notin TrxId
         /\ r \in JobOf("account") /\ r \notin JobOf("transaction")
         /\ opened \in [Request -> Nat] /\ opened[r] \in Nat /\ asked \subseteq Request
         /\ stalls[r] \in Nat /\ RequestOf(r)
         /\ trail \in [Job -> SUBSET Event]
BY PipelineAssumption
   DEF PipelineInv, Typed, TypeOK, Job, JobOf, RequestInv, MaxStalledCount

LEMMA OpenAccountKeeps ==
  ASSUME PipelineInv, NEW r \in Request, OpenAccount(r)
  PROVE  PipelineInv'
<1> DEFINE q == "account"
<1>1. /\ r \notin asked /\ asked' = asked \cup {r}
      /\ UNCHANGED <<status, visit, settled, up, timer, active, hand, phase, paused, stalls,
                     opened, trail>>
      /\ Add(q, r)
  BY DEF OpenAccount
<1>2. q \in QueueName
  BY DEF QueueName
<1>3. ~Known(q, r) /\ stalls[r] = 0 /\ opened[r] = 0
  BY <1>1, RequestFacts DEF RequestOf, Known
<1>4. /\ waiting' \in [QueueName -> Seq(Job)]
      /\ \A p \in QueueName : /\ IsInjective(waiting'[p])
                              /\ Queued(p)' = IF p = q THEN Queued(p) \cup {r} ELSE Queued(p)
  BY <1>1, <1>2, <1>3, AddFacts, RequestFacts DEF PipelineInv, Known
<1>5. Typed'
  <2>1. ASSUME NEW p \in QueueName
        PROVE  /\ Queued(p)' \cup active'[p] \subseteq JobOf(p)
               /\ Queued(p)' \cap active'[p] = {}
    BY <1>1, <1>3, <1>4, QueueFacts, RequestFacts DEF Known
  <2> QED
    BY <1>1, <1>4, <2>1, QueueFacts, RequestFacts, QueuesTyped
       DEF PipelineInv, Typed, TypeOK, LC!TypeOK
<1>6. CallInv'
  BY <1>1 DEF PipelineInv, CallInv, MakerOf, TimerOf, ProcessorOf, ClientOf
<1>7. Only(r)
  BY <1>1, <1>4 DEF Only
<1>8. \A p \in QueueName : r \in JobOf(p) => QueueOf(p, r)'
  BY <1>1, <1>3, RequestFacts DEF QueueOf, QueueName, Known, MaxStalledCount
<1>9. RequestOf(r)'
  BY <1>1, <1>2, <1>3, <1>4, RequestFacts DEF RequestOf, Known
<1> QED
  BY <1>5, <1>6, <1>7, <1>8, <1>9, OnlyKeeps, RequestFacts

LEMMA TakeKeeps ==
  ASSUME PipelineInv, NEW q \in QueueName, Take(q)
  PROVE  PipelineInv'
<1>1. /\ phase[q] = "idle" /\ waiting[q] # <<>>
      /\ waiting' = [waiting EXCEPT ![q] = Tail(@)]
      /\ UNCHANGED <<up, timer, paused, stalls, history>>
  BY DEF Take
<1>2. PICK j \in JobOf(q) : j = Head(waiting[q])
  BY <1>1, TakeFacts, QueueFacts DEF PipelineInv
<1>3. /\ waiting' \in [QueueName -> Seq(Job)] /\ j \in Queued(q)
      /\ \A p \in QueueName : /\ IsInjective(waiting'[p])
                              /\ Queued(p)' = IF p = q THEN Queued(p) \ {j} ELSE Queued(p)
  BY <1>1, <1>2, TakeFacts DEF PipelineInv
<1>4. /\ active' = [active EXCEPT ![q] = @ \cup {j}]
      /\ hand' = [hand EXCEPT ![q] = j]
      /\ phase' = [phase EXCEPT ![q] = "running"]
      /\ IF q = "transaction" THEN LC!Call(Processor, "process", j)
         ELSE UNCHANGED <<status, visit, settled>>
  BY <1>2 DEF Take
<1>5. j \in Job /\ j # NoId /\ hand[q] = NoId /\ stalls[j] \in 0..2 /\ QueueOf(q, j)
  BY <1>1, QueueFacts, PipelineAssumption
<1>6. \A p \in QueueName :
        /\ active'[p] = IF p = q THEN active[p] \cup {j} ELSE active[p]
        /\ hand'[p] = IF p = q THEN j ELSE hand[p]
        /\ phase'[p] = IF p = q THEN "running" ELSE phase[p]
  BY <1>4, QueueFacts
<1>7. /\ LC!TypeOK' /\ status' = status /\ settled' = settled
      /\ \A d \in Caller : d # Processor => visit'[d] = visit[d]
      /\ IF q = "transaction"
         THEN visit'[Processor] = [op |-> "process", id |-> j, copy |-> "absent"]
         ELSE visit'[Processor] = visit[Processor]
  <2>1. LC!TypeOK /\ Processor \in Caller
    BY Callers DEF PipelineInv, Typed, TypeOK
  <2>2. CASE q = "transaction"
    <3>1. j \in TrxId
      BY <2>2 DEF JobOf
    <3> QED
      BY <1>4, <2>1, <2>2, <3>1, CallFacts
  <2>3. CASE q # "transaction"
    BY <1>4, <2>1, <2>3 DEF LC!TypeOK
  <2> QED
    BY <2>2, <2>3
<1>8. Typed'
  <2>1. ASSUME NEW p \in QueueName
        PROVE  /\ Queued(p)' \cup active'[p] \subseteq JobOf(p)
               /\ Queued(p)' \cap active'[p] = {}
               /\ hand'[p] \in JobOf(p) \cup {NoId}
               /\ phase'[p] = "idle" <=> hand'[p] = NoId
    BY <1>3, <1>5, <1>6, QueueFacts
  <2>2. active' \in [QueueName -> SUBSET Job] /\ hand' \in [QueueName -> Job \cup {NoId}]
        /\ phase' \in [QueueName -> {"idle", "running", "returned"}] /\ stalls \in [Job -> 0..2]
    BY <1>4, <1>5, QueueFacts
  <2> QED
    BY <1>1, <1>3, <1>7, <2>1, <2>2, QueuesTyped DEF PipelineInv, Typed, TypeOK, history
<1>9. CallInv'
  <2>1. ProcessorOf'
    BY <1>1, <1>6, <1>7 DEF PipelineInv, CallInv, ProcessorOf, QueueName
  <2> QED
    BY <1>1, <1>7, <2>1, Callers, CallsKeep
<1>10. Only(j)
  <2>1. q # "transaction" => UNCHANGED <<hand["transaction"], phase["transaction"]>>
    BY <1>6 DEF QueueName
  <2> QED
    BY <1>1, <1>3, <1>5, <1>6, <1>7, <2>1 DEF Only, history, QueueName
<1>11. ASSUME NEW p \in QueueName, j \in JobOf(p)
       PROVE  QueueOf(p, j)' /\ p = q
  <2>1. p = q
    BY <1>11, PipelineAssumption DEF JobOf, QueueName
  <2> QED
    BY <1>1, <1>3, <1>5, <1>6, <2>1 DEF QueueOf
<1>12. ASSUME j \in TrxId
       PROVE  OrderOf(j)' /\ CarriedOf(j)' /\ OnceOf(j)' /\ PathOf(j)'
  <2>1. q = "transaction"
    BY <1>12, PipelineAssumption DEF JobOf, QueueName
  <2>2. Known(q, j) /\ status[j] \notin {"absent", "initiated"} /\ timer[j] = "none"
    BY <1>3, <1>12, <2>1, PaymentFacts DEF Known, OrderOf
  <2>3. visit'[Processor].op = "process" /\ visit'[Processor].copy = "absent"
    BY <1>7, <2>1
  <2> QED
    BY <1>1, <1>3, <1>6, <1>7, <1>12, <2>1, <2>2, <2>3, PaymentFacts
       DEF OrderOf, CarriedOf, OnceOf, PathOf, history, Known
<1>13. ASSUME j \in Request
       PROVE  RequestOf(j)'
  <2>1. q = "account"
    BY <1>13, PipelineAssumption DEF JobOf, QueueName
  <2>2. /\ j \in Queued(q) /\ j \notin Queued(q)' /\ j \in active'[q]
        /\ hand[q] # j /\ hand'[q] = j /\ phase'[q] = "running"
    BY <1>3, <1>5, <1>6
  <2>3. opened[j] + 1 <= 1 + stalls[j] /\ j \in asked
    BY <1>13, <2>1, <2>2, RequestFacts DEF RequestOf, Known
  <2> QED
    BY <1>1, <1>13, <2>1, <2>2, <2>3, RequestFacts DEF RequestOf, history
<1> QED
  BY <1>5, <1>8, <1>9, <1>10, <1>11, <1>12, <1>13, OnlyKeeps

LEMMA ProcessedKeeps ==
  ASSUME PipelineInv, Processed
  PROVE  PipelineInv'
<1> DEFINE q == "transaction"
           w == Processor
<1>1. /\ w \in Caller /\ q \in QueueName /\ LC!TypeOK
      /\ phase' = [phase EXCEPT ![q] = "returned"]
      /\ UNCHANGED <<up, timer, waiting, active, hand, paused, stalls, history>>
  BY Callers DEF Processed, HandlerReturns, QueueName, history, PipelineInv, Typed, TypeOK
<1>2. PICK i \in TrxId, o \in LC!Op : i = visit[w].id /\ o = visit[w].op
  BY <1>1, SucceedFacts DEF Processed
<1>3. /\ LC!TypeOK' /\ visit[w].copy \in LC!Needs(o)
      /\ \A d \in Caller : visit'[d] = IF d = w THEN LC!NoVisit ELSE visit[d]
      /\ \A j \in TrxId :
           /\ status'[j] = IF j = i THEN LC!Writes(o) ELSE status[j]
           /\ settled'[j] = IF j = i /\ o = "process"
                            THEN IF settled[j] = 0 THEN 1 ELSE 2 ELSE settled[j]
  BY <1>1, <1>2, SucceedFacts DEF Processed
<1>4. o \in {"process", "fail"} /\ phase[q] = "running" /\ i = hand[q]
  BY <1>2 DEF PipelineInv, CallInv, ProcessorOf, LC!Op, LC!ById
<1>5. /\ status'[i] \in {"done", "failed"}
      /\ o = "process" => visit[w].copy = "pending"
      /\ visit'[w] = LC!NoVisit
  BY <1>1, <1>3, <1>4 DEF LC!Writes, LC!Needs
<1>6. \A p \in QueueName : Queued(p)' = Queued(p)
                           /\ phase'[p] = IF p = q THEN "returned" ELSE phase[p]
  BY <1>1, QueueFacts DEF Queued
<1>7. i \in JobOf(q) /\ i # NoId /\ i \notin Request /\ i \notin JobOf("account") /\ Known(q, i)
  BY <1>4, PipelineAssumption DEF JobOf, Job, Known
<1>8. Typed'
  <2>1. phase' \in [QueueName -> {"idle", "running", "returned"}]
    BY <1>1, QueueFacts
  <2>2. \A p \in QueueName : phase'[p] = "idle" <=> hand[p] = NoId
    BY <1>4, <1>6, <1>7, QueueFacts
  <2> QED
    BY <1>1, <1>3, <1>6, <2>1, <2>2, QueueFacts, QueuesTyped
       DEF PipelineInv, Typed, TypeOK, history
<1>9. status[i] \notin {"absent", "initiated"} /\ timer[i] = "none"
  BY <1>7, PaymentFacts DEF OrderOf
<1>10. CallInv'
  <2>1. ProcessorOf'
    BY <1>1, <1>5, <1>6 DEF ProcessorOf, LC!NoVisit
  <2>2. \A j \in TrxId : status'[j] = status[j] \/ (status'[j] # "absent" /\ status[j] # "absent")
    BY <1>3, <1>5, <1>9
  <2> QED
    BY <1>1, <1>3, <2>1, <2>2, Callers, CallsKeep
<1>11. Only(i)
  BY <1>1, <1>3, <1>4, <1>5, <1>6 DEF Only, LC!NoVisit, history
<1>12. \A p \in QueueName : i \in JobOf(p) => QueueOf(p, i)'
  BY <1>1, <1>6, QueueFacts DEF QueueOf
<1>13. OrderOf(i)'
  BY <1>1, <1>5, <1>9, PaymentFacts DEF OrderOf
<1>14. CarriedOf(i)'
  BY <1>5 DEF CarriedOf
<1>15. OnceOf(i)'
  BY <1>1, <1>2, <1>3, <1>4, <1>5, <1>9, PaymentFacts DEF OnceOf, history, LC!NoVisit
<1>16. PathOf(i)'
  <2>1. i \in Queued(q) => stalls[i] > 0
    BY <1>1, <1>4, <1>7, QueueFacts DEF QueueOf
  <2> QED
    BY <1>1, <1>5, <1>6, <1>9, <2>1 DEF PathOf
<1> QED
  BY <1>7, <1>8, <1>10, <1>11, <1>12, <1>13, <1>14, <1>15, <1>16, OnlyKeeps DEF Job

LEMMA NotProcessedKeeps ==
  ASSUME PipelineInv, NotProcessed
  PROVE  PipelineInv'
<1> DEFINE q == "transaction"
           w == Processor
<1>1. /\ w \in Caller /\ q \in QueueName /\ LC!TypeOK
      /\ phase[q] = "running" /\ phase' = [phase EXCEPT ![q] = "returned"]
      /\ UNCHANGED <<up, timer, waiting, active, hand, paused, stalls, asked, opened>>
  BY Callers DEF NotProcessed, HandlerReturns, QueueName, PipelineInv, Typed, TypeOK
<1>2. /\ LC!TypeOK' /\ status' = status /\ settled' = settled
      /\ \A d \in Caller : visit'[d] = IF d = w THEN LC!NoVisit ELSE visit[d]
  BY <1>1, DropFacts DEF NotProcessed
<1>3. visit[w].op \in {"process", "fail"} /\ visit[w].id = hand[q]
  BY <1>1 DEF PipelineInv, CallInv, ProcessorOf
<1>4. PICK i \in TrxId : i = hand[q] /\ i = visit[w].id
  BY <1>1, <1>3, QueueFacts DEF JobOf
<1>5. /\ trail' \in [Job -> SUBSET Event] /\ trail[i] \subseteq trail'[i]
      /\ \A j \in Job : j # i => trail'[j] = trail[j]
      /\ "refused" \notin trail'[i] => visit[w].op # "fail" /\ visit[w].copy \notin {"absent", "pending"}
  <2>1. IF visit[w].op = "fail" \/ visit[w].copy \in {"absent", "pending"}
        THEN Note(i, "refused") ELSE UNCHANGED trail
    BY <1>4 DEF NotProcessed
  <2> QED
    BY <2>1, NoteFacts, PaymentFacts DEF Event, LeftBehind
<1>6. \A p \in QueueName : Queued(p)' = Queued(p)
                           /\ phase'[p] = IF p = q THEN "returned" ELSE phase[p]
  BY <1>1, QueueFacts DEF Queued
<1>7. i \in JobOf(q) /\ i # NoId /\ i \notin Request /\ i \notin JobOf("account") /\ Known(q, i)
  BY <1>4, PipelineAssumption DEF JobOf, Job, Known
<1>8. Typed'
  <2>1. phase' \in [QueueName -> {"idle", "running", "returned"}]
    BY <1>1, QueueFacts
  <2>2. \A p \in QueueName : phase'[p] = "idle" <=> hand[p] = NoId
    BY <1>1, <1>6, QueueFacts
  <2> QED
    BY <1>1, <1>2, <1>5, <1>6, <2>1, <2>2, QueueFacts, QueuesTyped
       DEF PipelineInv, Typed, TypeOK
<1>9. visit'[w] = LC!NoVisit
  BY <1>1, <1>2
<1>10. CallInv'
  <2>1. ProcessorOf'
    BY <1>1, <1>6, <1>9 DEF ProcessorOf, LC!NoVisit
  <2> QED
    BY <1>1, <1>2, <2>1, Callers, CallsKeep
<1>11. Only(i)
  <2>1. visit'[w].op = "none" /\ hand' = hand
    BY <1>1, <1>9 DEF LC!NoVisit
  <2>2. \A p \in QueueName : hand[p] = i \/ phase'[p] = phase[p]
    BY <1>4, <1>6
  <2> QED
    BY <1>1, <1>2, <1>4, <1>5, <1>6, <2>1, <2>2 DEF Only
<1>12. \A p \in QueueName : i \in JobOf(p) => QueueOf(p, i)'
  BY <1>1, <1>6, QueueFacts DEF QueueOf
<1>13. OrderOf(i)'
  BY <1>1, <1>2, <1>6, PaymentFacts DEF OrderOf, Known
<1>14. CarriedOf(i)'
  BY <1>1, <1>2, <1>3, <1>4, <1>5, PaymentFacts DEF CarriedOf, LeftBehind
<1>15. OnceOf(i)'
  BY <1>1, <1>2, <1>5, <1>9, PaymentFacts DEF OnceOf, LC!NoVisit
<1>16. PathOf(i)'
  BY <1>1, <1>2, <1>5, <1>6, PaymentFacts DEF PathOf, Known
<1> QED
  BY <1>7, <1>8, <1>10, <1>11, <1>12, <1>13, <1>14, <1>15, <1>16, OnlyKeeps DEF Job

\* The handler of the queue "account" returns.
LEMMA OpenedKeeps ==
  ASSUME PipelineInv, Opened \/ NotOpened
  PROVE  PipelineInv'
<1> DEFINE q == "account"
<1>1. /\ q \in QueueName /\ LC!TypeOK
      /\ phase[q] = "running" /\ phase' = [phase EXCEPT ![q] = "returned"]
      /\ UNCHANGED <<status, visit, settled, up, timer, waiting, active, hand, paused, stalls, asked>>
  BY DEF Opened, NotOpened, HandlerReturns, QueueName, PipelineInv, Typed, TypeOK
<1>2. PICK r \in Request : r = hand[q]
  BY <1>1, QueueFacts DEF JobOf
<1>3. /\ r \in Job /\ r # NoId /\ Known(q, r) /\ r \in asked
      /\ \A p \in QueueName : hand[p] = r <=> p = q
  <2>1. r \in Job /\ r # NoId /\ Known(q, r) /\ r \in asked
    BY <1>2, PipelineAssumption, RequestFacts DEF RequestOf, Known, Job
  <2>2. "transaction" \in QueueName
    BY DEF QueueName
  <2> QED
    BY <1>2, <2>1, <2>2, QueueFacts, RequestFacts DEF QueueName
<1>4. /\ opened' \in [Request -> Nat] /\ trail' \in [Job -> SUBSET Event]
      /\ \A k \in Job : k # r => trail'[k] = trail[k]
      /\ \A k \in Request : k # r => opened'[k] = opened[k]
      /\ \/ opened'[r] = opened[r] + 1 /\ trail'[r] = trail[r]
         \/ opened'[r] = opened[r] /\ trail'[r] = trail[r] \cup {"refused"}
  <2>1. CASE Opened
    BY <1>2, <2>1, RequestFacts DEF Opened
  <2>2. CASE NotOpened
    BY <1>2, <1>3, <2>2, NoteFacts, RequestFacts DEF NotOpened, Event, LeftBehind
  <2> QED
    BY <2>1, <2>2
<1>5. \A p \in QueueName : Queued(p)' = Queued(p)
                           /\ phase'[p] = IF p = q THEN "returned" ELSE phase[p]
  BY <1>1, QueueFacts DEF Queued
<1>6. Typed'
  <2>1. phase' \in [QueueName -> {"idle", "running", "returned"}]
    BY <1>1, QueueFacts
  <2>2. \A p \in QueueName : phase'[p] = "idle" <=> hand[p] = NoId
    BY <1>1, <1>5, QueueFacts
  <2> QED
    BY <1>1, <1>4, <1>5, <2>1, <2>2, QueueFacts, QueuesTyped
       DEF PipelineInv, Typed, TypeOK, LC!TypeOK
<1>7. CallInv'
  <2>1. phase'["transaction"] = phase["transaction"]
    BY <1>5 DEF QueueName
  <2> QED
    BY <1>1, <2>1 DEF PipelineInv, CallInv, MakerOf, TimerOf, ProcessorOf, ClientOf
<1>8. Only(r)
  BY <1>1, <1>2, <1>4, <1>5 DEF Only
<1>9. \A p \in QueueName : r \in JobOf(p) => QueueOf(p, r)'
  BY <1>1, <1>5, QueueFacts DEF QueueOf
<1>10. RequestOf(r)'
  <2>1. opened[r] + (IF r \in Queued(q) THEN 1 ELSE 0) + 1 <= 1 + stalls[r]
    BY <1>1, <1>2, RequestFacts DEF RequestOf
  <2>2. opened'[r] + (IF r \in Queued(q)' THEN 1 ELSE 0) <= 1 + stalls'[r] /\ opened'[r] \in Nat
    BY <1>1, <1>4, <1>5, <2>1, RequestFacts
  <2>3. opened'[r] > 0 \/ "refused" \in trail'[r]
    BY <1>4, RequestFacts
  <2>4. phase'[q] = "returned" /\ r \in asked' /\ stalls'[r] \in Nat
    BY <1>1, <1>3, <1>5, RequestFacts
  <2>5. opened'[r] = 0 => trail'[r] \cap LeftBehind # {}
    BY <1>4, <2>3, RequestFacts DEF LeftBehind
  <2> QED
    BY <2>2, <2>3, <2>4, <2>5 DEF RequestOf
<1> QED
  BY <1>3, <1>6, <1>7, <1>8, <1>9, <1>10, OnlyKeeps, RequestFacts

LEMMA CompleteKeeps ==
  ASSUME PipelineInv, NEW q \in QueueName, Complete(q)
  PROVE  PipelineInv'
<1>1. /\ phase[q] = "returned"
      /\ active' = [active EXCEPT ![q] = @ \ {hand[q]}]
      /\ hand' = [hand EXCEPT ![q] = NoId]
      /\ phase' = [phase EXCEPT ![q] = "idle"]
      /\ UNCHANGED <<status, visit, settled, up, timer, waiting, paused, stalls, history>>
  BY DEF Complete, Returned
<1>2. PICK j \in JobOf(q) : j = hand[q]
  BY <1>1, QueueFacts
<1>3. j \in Job /\ j # NoId /\ stalls[j] \in 0..2 /\ QueueOf(q, j) /\ Known(q, j)
  BY <1>2, QueueFacts, PipelineAssumption DEF Known
<1>4. \A p \in QueueName :
        /\ Queued(p)' = Queued(p)
        /\ active'[p] = IF p = q THEN active[p] \ {j} ELSE active[p]
        /\ hand'[p] = IF p = q THEN NoId ELSE hand[p]
        /\ phase'[p] = IF p = q THEN "idle" ELSE phase[p]
  BY <1>1, <1>2, QueueFacts DEF Queued
<1>5. Typed'
  <2>1. /\ active' \in [QueueName -> SUBSET Job] /\ hand' \in [QueueName -> Job \cup {NoId}]
        /\ phase' \in [QueueName -> {"idle", "running", "returned"}]
    BY <1>1, QueueFacts
  <2>2. ASSUME NEW p \in QueueName
        PROVE  /\ Queued(p)' \cup active'[p] \subseteq JobOf(p)
               /\ Queued(p)' \cap active'[p] = {}
               /\ hand'[p] \in JobOf(p) \cup {NoId}
               /\ phase'[p] = "idle" <=> hand'[p] = NoId
    BY <1>4, QueueFacts
  <2>3. \A p \in QueueName : IsInjective(waiting[p])
    BY QueueFacts
  <2> QED
    BY <1>1, <2>1, <2>2, <2>3, QueueFacts, QueuesTyped
       DEF PipelineInv, Typed, TypeOK, LC!TypeOK, history
<1>6. CallInv'
  <2>1. ProcessorOf'
    BY <1>1, <1>4 DEF PipelineInv, CallInv, ProcessorOf, QueueName
  <2> QED
    BY <1>1, <2>1 DEF PipelineInv, CallInv, MakerOf, TimerOf, ClientOf
<1>7. Only(j)
  <2>1. \A p \in QueueName : \A k \in Job \ {j} :
          (k \in Queued(p)' <=> k \in Queued(p)) /\ (k \in active'[p] <=> k \in active[p])
    BY <1>4
  <2>2. \A p \in QueueName : IF p = q THEN hand[p] = j /\ hand'[p] = NoId
                            ELSE hand'[p] = hand[p] /\ phase'[p] = phase[p]
    BY <1>2, <1>4
  <2> QED
    BY <1>1, <2>1, <2>2 DEF Only, history
<1>8. ASSUME NEW p \in QueueName, j \in JobOf(p)
      PROVE  QueueOf(p, j)' /\ p = q
  <2>1. p = q
    BY <1>8, PipelineAssumption DEF JobOf, QueueName
  <2> QED
    BY <1>1, <1>3, <1>4, <2>1 DEF QueueOf
<1>9. ASSUME j \in TrxId
      PROVE  OrderOf(j)' /\ CarriedOf(j)' /\ OnceOf(j)' /\ PathOf(j)'
  <2>1. q = "transaction"
    BY <1>9, PipelineAssumption DEF JobOf, QueueName
  <2> QED
    BY <1>1, <1>2, <1>3, <1>4, <1>9, <2>1, PaymentFacts
       DEF OrderOf, CarriedOf, OnceOf, PathOf, history, Known
<1>10. ASSUME j \in Request
       PROVE  RequestOf(j)'
  <2>1. q = "account"
    BY <1>10, PipelineAssumption DEF JobOf, QueueName
  <2>2. /\ hand'[q] = NoId /\ Queued(q)' = Queued(q) /\ j \in asked
        /\ opened[j] > 0 \/ "refused" \in trail[j]
        /\ opened[j] + (IF j \in Queued(q) THEN 1 ELSE 0) <= 1 + stalls[j]
    BY <1>1, <1>2, <1>3, <1>4, <1>10, <2>1, RequestFacts DEF RequestOf
  <2>3. "refused" \in LeftBehind
    BY DEF LeftBehind
  <2> QED
    BY <1>1, <1>3, <1>10, <2>1, <2>2, <2>3, RequestFacts DEF RequestOf, history
<1> QED
  BY <1>3, <1>5, <1>6, <1>7, <1>8, <1>9, <1>10, OnlyKeeps

LEMMA StallKeeps ==
  ASSUME PipelineInv, NEW q \in QueueName, NEW j \in JobOf(q), Stall(q, j)
  PROVE  PipelineInv'
<1>1. /\ j \in active[q]
      /\ active' = [active EXCEPT ![q] = @ \ {j}]
      /\ stalls' = [stalls EXCEPT ![j] = @ + 1]
      /\ UNCHANGED <<status, visit, settled, up, timer, hand, phase, paused, opened, asked>>
  BY DEF Stall
<1>2. /\ j \in Job /\ j \notin Queued(q) /\ stalls[j] \in 0..1 /\ Known(q, j)
      /\ \A p \in QueueName : j \in JobOf(p) => p = q
  <2>1. j \in Job /\ j \notin Queued(q) /\ stalls[j] \in 0..1 /\ Known(q, j)
    BY <1>1, QueueFacts DEF QueueOf, Known, MaxStalledCount
  <2> QED
    BY <2>1, PipelineAssumption DEF JobOf, QueueName
<1>3. /\ stalls' \in [Job -> 0..2] /\ stalls'[j] = stalls[j] + 1
      /\ \A k \in Job : k # j => stalls'[k] = stalls[k]
  BY <1>1, <1>2, QueueFacts
<1>4. /\ waiting' \in [QueueName -> Seq(Job)] /\ trail' \in [Job -> SUBSET Event]
      /\ \A p \in QueueName : IsInjective(waiting'[p]) /\ (p # q => Queued(p)' = Queued(p))
      /\ trail[j] \subseteq trail'[j] /\ \A k \in Job : k # j => trail'[k] = trail[k]
      /\ \/ Queued(q)' = Queued(q) \cup {j} /\ stalls[j] = 0
         \/ Queued(q)' = Queued(q) /\ "stalledTwice" \in trail'[j]
  <2>1. CASE stalls[j] < MaxStalledCount
    <3>1. waiting' = [waiting EXCEPT ![q] = <<j>> \o @] /\ UNCHANGED trail /\ stalls[j] = 0
      BY <1>2, <2>1 DEF Stall, MaxStalledCount
    <3> QED
      BY <1>2, <3>1, RequeueFacts DEF PipelineInv, Typed
  <2>2. CASE ~(stalls[j] < MaxStalledCount)
    <3>1. Note(j, "stalledTwice") /\ UNCHANGED waiting
      BY <2>2 DEF Stall
    <3> QED
      BY <1>2, <3>1, NoteFacts DEF PipelineInv, Typed, TypeOK, Event, LeftBehind, Queued
  <2> QED
    BY <2>1, <2>2
<1>5. \A p \in QueueName : active'[p] = IF p = q THEN active[p] \ {j} ELSE active[p]
  BY <1>1, QueueFacts
<1>6. Typed'
  <2>1. active' \in [QueueName -> SUBSET Job]
    BY <1>1, QueueFacts
  <2>2. ASSUME NEW p \in QueueName
        PROVE  Queued(p)' \cup active'[p] \subseteq JobOf(p) /\ Queued(p)' \cap active'[p] = {}
    <3>1. Queued(p) \cup active[p] \subseteq JobOf(p) /\ Queued(p) \cap active[p] = {}
      BY QueueFacts
    <3>2. CASE p = q
      <4>1. active'[p] = active[p] \ {j} /\ Queued(p)' \subseteq Queued(p) \cup {j}
        BY <1>4, <1>5, <3>2
      <4>2. j \notin Queued(p) /\ j \in JobOf(p) /\ (Queued(p)' = Queued(p) \/ stalls[j] = 0)
        BY <1>2, <1>4, <3>2
      <4> QED
        BY <3>1, <4>1, <4>2
    <3>3. CASE p # q
      BY <1>4, <1>5, <3>1, <3>3
    <3> QED
      BY <3>2, <3>3
  <2> QED
    BY <1>1, <1>3, <1>4, <2>1, <2>2, QueueFacts, QueuesTyped
       DEF PipelineInv, Typed, TypeOK, LC!TypeOK
<1>7. CallInv'
  BY <1>1 DEF PipelineInv, CallInv, MakerOf, TimerOf, ProcessorOf, ClientOf
<1>8. Only(j)
  <2>1. \A p \in QueueName : \A k \in Job \ {j} :
          (k \in Queued(p)' <=> k \in Queued(p)) /\ (k \in active'[p] <=> k \in active[p])
    BY <1>4, <1>5
  <2> QED
    BY <1>1, <1>3, <1>4, <2>1 DEF Only
<1>9. \A p \in QueueName : j \in JobOf(p) => QueueOf(p, j)'
  <2>1. j \notin active'[q]
    BY <1>5
  <2>2. j \in Queued(q)' => stalls'[j] = 1
    <3>1. j \in Queued(q)' => stalls[j] = 0
      BY <1>2, <1>4
    <3> QED
      BY <1>3, <3>1
  <2> QED
    BY <1>2, <2>1, <2>2 DEF QueueOf, MaxStalledCount
<1>10. ASSUME j \in TrxId
       PROVE  OrderOf(j)' /\ CarriedOf(j)' /\ OnceOf(j)' /\ PathOf(j)'
  <2>1. q = "transaction"
    BY <1>10, PipelineAssumption DEF JobOf, QueueName
  <2>2. stalls'[j] > 0 /\ "stalledTwice" \in LeftBehind
    BY <1>2, <1>3 DEF LeftBehind
  <2>3. OrderOf(j)'
    BY <1>1, <1>2, <1>10, <2>1, PaymentFacts DEF OrderOf
  <2>4. CarriedOf(j)'
    BY <1>1, <1>4, <1>10, <2>1, <2>2, PaymentFacts DEF CarriedOf
  <2>5. OnceOf(j)'
    BY <1>1, <1>4, <1>10, PaymentFacts DEF OnceOf
  <2>6. PathOf(j)'
    BY <1>1, <1>2, <1>4, <1>10, <2>1, <2>2, PaymentFacts DEF PathOf
  <2> QED
    BY <2>3, <2>4, <2>5, <2>6
<1>11. ASSUME j \in Request
       PROVE  RequestOf(j)'
  <2>1. q = "account"
    BY <1>11, PipelineAssumption DEF JobOf, QueueName
  <2>2. j \in asked /\ "stalledTwice" \in LeftBehind
    BY <1>2, <1>11, <2>1, RequestFacts DEF RequestOf, LeftBehind
  <2>3. opened[j] + (IF j \in Queued(q)' THEN 1 ELSE 0)
          + (IF hand[q] = j /\ phase[q] = "running" THEN 1 ELSE 0) <= 1 + stalls'[j]
    BY <1>2, <1>3, <1>4, <1>11, <2>1, RequestFacts DEF RequestOf
  <2>4. hand[q] = j /\ phase[q] = "returned" => opened[j] > 0 \/ "refused" \in trail'[j]
    BY <1>4, <1>11, <2>1, RequestFacts DEF RequestOf
  <2>5. opened[j] = 0 /\ trail'[j] \cap LeftBehind = {} => j \in Queued(q)'
    BY <1>4, <2>2
  <2> QED
    BY <1>1, <2>1, <2>2, <2>3, <2>4, <2>5 DEF RequestOf
<1> QED
  BY <1>2, <1>6, <1>7, <1>8, <1>9, <1>10, <1>11, OnlyKeeps

\* A queue is paused or resumed, an application starts, or nothing happens.
LEMMA SwitchKeeps ==
  ASSUME PipelineInv, up' \subseteq App, paused' \subseteq QueueName,
         UNCHANGED <<status, visit, settled, timer, waiting, active, hand, phase, stalls, history>>
  PROVE  PipelineInv'
<1> USE DEF PipelineInv, history
<1>1. \A q \in QueueName : Queued(q)' = Queued(q)
  BY DEF Queued
<1>2. Typed'
  BY DEF Typed, TypeOK, LC!TypeOK
<1>3. CallInv'
  BY DEF CallInv, MakerOf, TimerOf, ProcessorOf, ClientOf
<1>4. QueueInv'
  BY <1>1 DEF QueueInv, QueueOf
<1>5. PaymentInv'
  BY <1>1 DEF PaymentInv, OrderOf, CarriedOf, OnceOf, PathOf, Known, QueueName
<1>6. RequestInv'
  BY <1>1 DEF RequestInv, RequestOf, Known, QueueName
<1> QED
  BY <1>2, <1>3, <1>4, <1>5, <1>6

LEMMA ApiStopsKeeps ==
  ASSUME PipelineInv, ApiStops
  PROVE  PipelineInv'
<1>1. /\ up' = up \ {"api"} /\ timer' = [i \in TrxId |-> "none"]
      /\ trail' = [j \in Job |-> IF j \in TrxId /\ timer[j] # "none"
                                 THEN trail[j] \cup {"timerLost"} ELSE trail[j]]
      /\ UNCHANGED <<queues, opened, asked>>
  BY DEF ApiStops
<1>2. /\ LC!TypeOK' /\ status' = status /\ settled' = settled
      /\ \A d \in Caller : visit'[d] = IF d \in ApiCaller THEN LC!NoVisit ELSE visit[d]
  BY DropFacts DEF ApiStops, PipelineInv, Typed, TypeOK
<1>3. \A q \in QueueName : Queued(q)' = Queued(q)
  BY <1>1 DEF queues, Queued
<1>4. Typed'
  <2>1. trail' \in [Job -> SUBSET Event]
    BY <1>1 DEF PipelineInv, Typed, Event, LeftBehind
  <2> QED
    BY <1>1, <1>2, <2>1 DEF PipelineInv, Typed, TypeOK, queues
<1>5. QueueInv'
  BY <1>1, <1>3 DEF PipelineInv, QueueInv, QueueOf, queues
<1>6. visit'[Processor] = visit[Processor]
  BY <1>2, Callers
<1>7. CallInv'
  BY <1>1, <1>2, <1>6, Callers
     DEF PipelineInv, CallInv, MakerOf, TimerOf, ProcessorOf, ClientOf, LC!NoVisit, queues
<1>8. PaymentInv'
  <2> SUFFICES ASSUME NEW i \in TrxId
               PROVE  OrderOf(i)' /\ CarriedOf(i)' /\ OnceOf(i)' /\ PathOf(i)'
    BY DEF PaymentInv
  <2>1. /\ timer'[i] = "none" /\ trail[i] \subseteq trail'[i]
        /\ trail'[i] \cap LeftBehind = {} => timer[i] = "none"
    BY <1>1, PaymentFacts DEF LeftBehind
  <2>2. OrderOf(i)'
    BY <1>1, <1>2, <1>3, <2>1, PaymentFacts DEF OrderOf, Known, queues, QueueName
  <2>3. CarriedOf(i)'
    BY <1>1, <1>2, <1>3, <1>6, <2>1, PaymentFacts DEF CarriedOf, queues, QueueName
  <2>4. OnceOf(i)'
    BY <1>2, <1>6, <2>1, PaymentFacts DEF OnceOf
  <2>5. PathOf(i)'
    BY <1>1, <1>2, <1>3, <1>6, <2>1, PaymentFacts DEF PathOf, Known, queues, QueueName
  <2> QED
    BY <2>2, <2>3, <2>4, <2>5
<1>9. RequestInv'
  <2>1. \A r \in Request : trail'[r] = trail[r]
    BY <1>1, RequestFacts
  <2> QED
    BY <1>1, <1>3, <2>1 DEF PipelineInv, RequestInv, RequestOf, Known, queues, QueueName
<1> QED
  BY <1>4, <1>5, <1>7, <1>8, <1>9 DEF PipelineInv

LEMMA ProcessingStopsKeeps ==
  ASSUME PipelineInv, ProcessingStops
  PROVE  PipelineInv'
<1>1. /\ up' = up \ {"processing"}
      /\ hand' = [q \in QueueName |-> NoId] /\ phase' = [q \in QueueName |-> "idle"]
      /\ UNCHANGED <<timer, waiting, active, paused, stalls, history>>
  BY DEF ProcessingStops
<1>2. /\ LC!TypeOK' /\ status' = status /\ settled' = settled
      /\ \A d \in Caller : visit'[d] = IF d = Processor THEN LC!NoVisit ELSE visit[d]
  BY DropFacts DEF ProcessingStops, PipelineInv, Typed, TypeOK
<1>3. \A q \in QueueName : Queued(q)' = Queued(q) /\ hand'[q] = NoId /\ phase'[q] = "idle"
  BY <1>1 DEF Queued
<1>4. Typed'
  BY <1>1, <1>2 DEF PipelineInv, Typed, TypeOK, history
<1>5. QueueInv'
  BY <1>1, <1>3, PipelineAssumption DEF PipelineInv, QueueInv, QueueOf, JobOf, Job
<1>6. visit'[Processor] = LC!NoVisit
  BY <1>2, Callers
<1>7. CallInv'
  BY <1>1, <1>2, <1>3, <1>6, Callers
     DEF PipelineInv, CallInv, MakerOf, TimerOf, ProcessorOf, ClientOf, LC!NoVisit, QueueName
<1>8. PaymentInv'
  <2> SUFFICES ASSUME NEW i \in TrxId
               PROVE  OrderOf(i)' /\ CarriedOf(i)' /\ OnceOf(i)' /\ PathOf(i)'
    BY DEF PaymentInv
  <2>1. "transaction" \in QueueName /\ i # NoId
    BY PipelineAssumption DEF QueueName, Job
  <2>2. OrderOf(i)'
    BY <1>1, <1>2, <1>3, <2>1, PaymentFacts DEF OrderOf, Known
  <2>3. CarriedOf(i)'
    BY <1>1, <1>2, <1>3, <2>1, PaymentFacts DEF CarriedOf, history
  <2>4. OnceOf(i)'
    BY <1>1, <1>2, <1>6, PaymentFacts DEF OnceOf, history, LC!NoVisit
  <2>5. PathOf(i)'
    BY <1>1, <1>2, <1>3, <2>1, PaymentFacts DEF PathOf, Known, history
  <2> QED
    BY <2>2, <2>3, <2>4, <2>5
<1>9. RequestInv'
  <2> SUFFICES ASSUME NEW r \in Request
               PROVE  RequestOf(r)'
    BY DEF RequestInv
  <2>1. "account" \in QueueName /\ r # NoId
    BY PipelineAssumption DEF QueueName, Job
  <2> QED
    BY <1>1, <1>3, <2>1, RequestFacts DEF RequestOf, Known, history
<1> QED
  BY <1>4, <1>5, <1>7, <1>8, <1>9 DEF PipelineInv

-----------------------------------------------------------------------------
(* The invariant holds, and what follows from it.                          *)

LEMMA InitPipelineInv == Init => PipelineInv
<1> SUFFICES ASSUME Init
             PROVE  PipelineInv
  OBVIOUS
<1>1. /\ LC!Init /\ timer = [i \in TrxId |-> "none"] /\ waiting = [q \in QueueName |-> <<>>]
      /\ active = [q \in QueueName |-> {}] /\ hand = [q \in QueueName |-> NoId]
      /\ phase = [q \in QueueName |-> "idle"] /\ stalls = [j \in Job |-> 0]
      /\ opened = [r \in Request |-> 0] /\ asked = {} /\ trail = [j \in Job |-> {}]
      /\ up = App /\ paused = {}
  BY DEF Init
<1>2. LC!TypeOK
  BY <1>1 DEF LC!Init, LC!TypeOK, LC!RowStatus
<1>3. \A q \in QueueName : /\ Queued(q) = {} /\ IsInjective(waiting[q]) /\ active[q] = {}
                           /\ hand[q] = NoId /\ phase[q] = "idle"
  BY <1>1 DEF Queued, ToSet, IsInjective
<1>4. Typed
  <2>1. waiting \in [QueueName -> Seq(Job)]
    BY <1>1
  <2> QED
    BY <1>1, <1>2, <1>3, <2>1 DEF Typed, TypeOK, Queued, MaxStalledCount
<1>5. QueueInv
  BY <1>3, PipelineAssumption DEF QueueInv, QueueOf, JobOf, Job
<1>6. CallInv
  <2>1. \A c \in Caller : visit[c].op = "none"
    BY <1>1 DEF LC!Init, LC!NoVisit
  <2> QED
    BY <1>1, <1>3, <2>1, Callers
       DEF CallInv, MakerOf, TimerOf, ProcessorOf, ClientOf, QueueName
<1>7. ASSUME NEW j \in Job, NEW q \in QueueName
      PROVE  ~Known(q, j)
  BY <1>1, <1>3, PipelineAssumption DEF Known
<1>8. PaymentInv
  <2> SUFFICES ASSUME NEW i \in TrxId
               PROVE  OrderOf(i) /\ CarriedOf(i) /\ OnceOf(i) /\ PathOf(i)
    BY DEF PaymentInv
  <2>1. status[i] = "absent" /\ settled[i] = 0 /\ timer[i] = "none" /\ ~Known("transaction", i)
    BY <1>1, <1>7 DEF LC!Init, QueueName, Job
  <2> QED
    BY <2>1 DEF OrderOf, CarriedOf, OnceOf, PathOf, Known
<1>9. RequestInv
  <2> SUFFICES ASSUME NEW r \in Request
               PROVE  RequestOf(r)
    BY DEF RequestInv
  <2>1. opened[r] = 0 /\ stalls[r] = 0 /\ asked = {} /\ ~Known("account", r)
    BY <1>1, <1>7 DEF QueueName, Job
  <2> QED
    BY <2>1 DEF RequestOf, Known
<1> QED
  BY <1>4, <1>5, <1>6, <1>8, <1>9 DEF PipelineInv

LEMMA NextPipelineInv == PipelineInv /\ [Next]_vars => PipelineInv'
<1> SUFFICES ASSUME PipelineInv, [Next]_vars
             PROVE  PipelineInv'
  OBVIOUS
<1>0. up \subseteq App /\ paused \subseteq QueueName
  BY DEF PipelineInv, Typed, TypeOK
<1>1. ASSUME NEW i \in TrxId,
             \/ MakeTransaction(i) \/ Made(i) \/ MadeUnseen(i) \/ NotMade(i)
             \/ Arm(i) \/ Fire(i) \/ Sent(i) \/ SentUnseen(i) \/ NotSent(i) \/ AddJob(i)
      PROVE  PipelineInv'
  BY <1>1, MakeTransactionKeeps, MadeKeeps, MadeUnseenKeeps, ArmKeeps, FireKeeps, SentKeeps,
     SentUnseenKeeps, NotSentKeeps, AddJobKeeps
<1>2. ASSUME NEW c \in Client,
             \/ \E o \in ClientOps, i \in TrxId : ByHand(c, o, i)
             \/ ByHandDone(c) \/ ByHandRefused(c)
      PROVE  PipelineInv'
  BY <1>2, ByHandKeeps, ByHandDoneKeeps
<1>3. ASSUME NEW r \in Request, OpenAccount(r)
      PROVE  PipelineInv'
  BY <1>3, OpenAccountKeeps
<1>4. ASSUME NEW c \in Caller, Lookup(c)
      PROVE  PipelineInv'
  BY <1>4, LookupKeeps
<1>5. CASE Processed \/ NotProcessed \/ Opened \/ NotOpened
  BY <1>5, ProcessedKeeps, NotProcessedKeeps, OpenedKeeps
<1>6. ASSUME NEW q \in QueueName, Take(q) \/ Complete(q)
      PROVE  PipelineInv'
  BY <1>6, TakeKeeps, CompleteKeeps
<1>7. ASSUME NEW q \in QueueName, Pause(q) \/ Resume(q)
      PROVE  PipelineInv'
  BY <1>0, <1>7, SwitchKeeps DEF Pause, Resume
<1>8. ASSUME NEW q \in QueueName, NEW j \in JobOf(q), Orphaned(q, j) \/ LockLost(q, j)
      PROVE  PipelineInv'
  BY <1>8, StallKeeps DEF Orphaned, LockLost
<1>9. CASE ApiStops \/ ProcessingStops
  BY <1>9, ApiStopsKeeps, ProcessingStopsKeeps
<1>10. CASE ApiStarts \/ ProcessingStarts
  BY <1>0, <1>10, SwitchKeeps DEF ApiStarts, ProcessingStarts, queues, App
<1>11. CASE UNCHANGED vars
  BY <1>0, <1>11, SwitchKeeps DEF vars, queues
<1> QED
  BY <1>1, <1>2, <1>3, <1>4, <1>5, <1>6, <1>7, <1>8, <1>9, <1>10, <1>11 DEF Next

LEMMA PipelineHolds == Spec => []PipelineInv
BY InitPipelineInv, NextPipelineInv, PTL DEF Spec

\* A job is in one place of one queue whatever is added, taken, completed, stalled and
\* lost: the enqueue of the timer callback (TransactionController) and of the account
\* handler, and Bull's stalled check, never put it there a second time.
THEOREM PipelineTypes == Spec => []TypeOK
<1>1. PipelineInv => TypeOK
  BY DEF PipelineInv, Typed
<1> QED
  BY <1>1, PipelineHolds, PTL

\* A pending payment, whose hold only its processing releases, is with its timer
\* callback, in the queue or in the hand of the processor, unless it was sent by hand
\* or lost or refused on record.
THEOREM PendingPaymentsCarried == Spec => []PendingIsCarried
<1>1. PipelineInv => PendingIsCarried
  BY DEF PipelineInv, PaymentInv, CarriedOf, PendingIsCarried, Carried, HasJob, Queued
<1> QED
  BY <1>1, PipelineHolds, PTL

\* A request for an account that POST accounts answered with 201 is opened or refused,
\* or has its job.
THEOREM RequestsKept == Spec => []AskedIsKept
<1>1. PipelineInv => AskedIsKept
  BY DEF PipelineInv, Typed, RequestInv, RequestOf, AskedIsKept, HasJob, Queued
<1> QED
  BY <1>1, PipelineHolds, PTL

\* CreateAccountProcessor opens at most one account for each delivery of a job.
THEOREM OpeningsBounded == Spec => []OpenedPerDelivery
<1>1. PipelineInv => OpenedPerDelivery
  <2> SUFFICES ASSUME PipelineInv, NEW r \in Request
               PROVE  opened[r] <= 1 + stalls[r]
    BY DEF OpenedPerDelivery
  <2> QED
    BY RequestFacts DEF RequestOf
<1> QED
  BY <1>1, PipelineHolds, PTL

\* A payment that no client sends or processes by hand is settled at most once, however
\* often ProcessTransactionProcessor is given its job, is stopped or loses its lock.
THEOREM SettledOnce == Spec => []AutomaticOnce
<1>1. PipelineInv => AutomaticOnce
  BY DEF PipelineInv, PaymentInv, OnceOf, AutomaticOnce
<1> QED
  BY <1>1, PipelineHolds, PTL

-----------------------------------------------------------------------------
(* The way of a payment that only the timer and the queue move.            *)

Forward(i) ==
  \/ <<status[i], status'[i]>> \in {<<"absent", "initiated">>, <<"initiated", "pending">>,
                                   <<"pending", "done">>, <<"pending", "failed">>}
  \/ status[i] = "done" /\ status'[i] = "failed" /\ stalls[i] > 0

OnItsWay == \A i \in TrxId :
              status'[i] # status[i] /\ trail'[i] \cap ByHandOps = {} => Forward(i)

LEMMA MadeForward ==
  ASSUME PipelineInv, NEW k \in TrxId, Made(k) \/ MadeUnseen(k)
  PROVE  OnItsWay
<1>1. Maker(k) \in Caller
  BY Callers
<1>2. /\ visit[Maker(k)].op = "create" /\ visit[Maker(k)].id = k /\ status[k] = "absent"
      /\ \A i \in TrxId : status'[i] = IF i = k THEN LC!Writes("create") ELSE status[i]
  BY <1>1, PaymentFacts, SucceedFacts
     DEF Made, MadeUnseen, PipelineInv, CallInv, MakerOf, LC!Op, LC!ById
<1> QED
  BY <1>2 DEF OnItsWay, Forward, LC!Writes

LEMMA SentForward ==
  ASSUME PipelineInv, NEW k \in TrxId, Sent(k) \/ SentUnseen(k)
  PROVE  OnItsWay
<1>1. Timer(k) \in Caller /\ trail[k] \subseteq trail'[k]
  <2>1. CASE Sent(k)
    BY <2>1, Callers DEF Sent, history
  <2>2. CASE SentUnseen(k)
    BY <2>2, Callers, NoteFacts, PaymentFacts DEF SentUnseen, Event, LeftBehind
  <2> QED
    BY <2>1, <2>2
<1>2. /\ timer[k] = "sending" /\ visit[Timer(k)].op = "send" /\ visit[Timer(k)].id = k
      /\ \A i \in TrxId : status'[i] = IF i = k THEN LC!Writes("send") ELSE status[i]
  BY <1>1, PaymentFacts, SucceedFacts
     DEF Sent, SentUnseen, PipelineInv, CallInv, TimerOf, LC!Op, LC!ById
<1>3. trail'[k] \cap ByHandOps = {} => status[k] = "initiated"
  BY <1>1, <1>2, PaymentFacts DEF PathOf
<1> QED
  BY <1>2, <1>3 DEF OnItsWay, Forward, LC!Writes

LEMMA ProcessedForward ==
  ASSUME PipelineInv, Processed
  PROVE  OnItsWay
<1> DEFINE w == Processor
           q == "transaction"
<1>1. w \in Caller /\ LC!TypeOK /\ trail' = trail
  BY Callers DEF Processed, PipelineInv, Typed, TypeOK
<1>2. PICK k \in TrxId, o \in LC!Op : k = visit[w].id /\ o = visit[w].op
  BY <1>1, SucceedFacts DEF Processed
<1>3. /\ visit[w].copy \in LC!Needs(o)
      /\ \A i \in TrxId : status'[i] = IF i = k THEN LC!Writes(o) ELSE status[i]
  BY <1>1, <1>2, SucceedFacts DEF Processed
<1>4. o \in {"process", "fail"} /\ phase[q] = "running" /\ k = hand[q]
  BY <1>2 DEF PipelineInv, CallInv, ProcessorOf, LC!Op, LC!ById
<1>5. ASSUME status'[k] # status[k], trail'[k] \cap ByHandOps = {}
      PROVE  Forward(k)
  <2>1. /\ visit[w].copy \in {"absent", status[k]} /\ status[k] \in {"pending", "done", "failed"}
        /\ status[k] = "pending" \/ stalls[k] > 0
    BY <1>1, <1>4, <1>5, PaymentFacts DEF PathOf, Known
  <2>2. CASE o = "process"
    BY <1>3, <2>1, <2>2 DEF Forward, LC!Writes, LC!Needs
  <2>3. CASE o = "fail"
    BY <1>3, <1>5, <2>1, <2>3 DEF Forward, LC!Writes
  <2> QED
    BY <1>4, <2>2, <2>3
<1> QED
  BY <1>3, <1>5 DEF OnItsWay

LEMMA ByHandDoneForward ==
  ASSUME PipelineInv, NEW c \in Client, ByHandDone(c)
  PROVE  OnItsWay
<1> DEFINE w == <<"client", c>>
<1>1. w \in Caller /\ LC!TypeOK
  BY Callers DEF PipelineInv, Typed, TypeOK
<1>2. PICK k \in TrxId, o \in LC!Op : k = visit[w].id /\ o = visit[w].op
  BY <1>1, SucceedFacts DEF ByHandDone
<1>3. \A i \in TrxId : i # k => status'[i] = status[i]
  BY <1>1, <1>2, SucceedFacts DEF ByHandDone
<1>4. o \in ByHandOps
  BY <1>2 DEF PipelineInv, CallInv, ClientOf, LC!Op, LC!ById
<1>5. o \in trail'[k]
  <2>1. Note(k, o)
    BY <1>2 DEF ByHandDone
  <2> QED
    BY <1>4, <2>1, NoteFacts, PaymentFacts DEF Event
<1> QED
  BY <1>3, <1>4, <1>5 DEF OnItsWay

\* Whatever else happens, no status changes.
LEMMA OthersForward ==
  ASSUME PipelineInv, Next,
         ~\E i \in TrxId : Made(i) \/ MadeUnseen(i) \/ Sent(i) \/ SentUnseen(i),
         ~\E c \in Client : ByHandDone(c), ~Processed
  PROVE  status' = status
<1> USE DEF LC!CallCreate, LC!Call, LC!Drop
<1>1. ASSUME NEW i \in TrxId,
             \/ MakeTransaction(i) \/ NotMade(i) \/ Arm(i) \/ Fire(i) \/ NotSent(i) \/ AddJob(i)
      PROVE  status' = status
  BY <1>1 DEF MakeTransaction, NotMade, Arm, Fire, NotSent, AddJob
<1>2. ASSUME NEW c \in Client,
             (\E o \in ClientOps, i \in TrxId : ByHand(c, o, i)) \/ ByHandRefused(c)
      PROVE  status' = status
  BY <1>2 DEF ByHand, ByHandRefused
<1>3. ASSUME NEW c \in Caller, Lookup(c)
      PROVE  status' = status
  BY <1>3 DEF Lookup, LC!Read, LC!Restart, LC!GiveUp
<1>4. ASSUME NEW q \in QueueName,
             \/ Take(q) \/ Complete(q) \/ Pause(q) \/ Resume(q)
             \/ \E j \in JobOf(q) : Orphaned(q, j) \/ LockLost(q, j)
      PROVE  status' = status
  BY <1>4 DEF Take, Complete, Pause, Resume, Orphaned, LockLost, Stall
<1>5. ASSUME \/ \E r \in Request : OpenAccount(r)
             \/ NotProcessed \/ Opened \/ NotOpened
             \/ ApiStops \/ ProcessingStops \/ ApiStarts \/ ProcessingStarts
      PROVE  status' = status
  BY <1>5 DEF OpenAccount, NotProcessed, Opened, NotOpened, ApiStops, ProcessingStops,
              ApiStarts, ProcessingStarts
<1> QED
  BY <1>1, <1>2, <1>3, <1>4, <1>5 DEF Next

\* A payment on which no call by hand had an effect is created, sent by its timer and
\* settled or failed by its job, in this order; only when its job was delivered a second
\* time can failTransaction overwrite a payment that is done.
THEOREM PaymentsOnTheirWay == Spec => AutomaticPath
<1>1. PipelineInv /\ [Next]_vars => [OnItsWay]_vars
  <2> SUFFICES ASSUME PipelineInv, Next
               PROVE  OnItsWay
    OBVIOUS
  <2>1. ASSUME status' = status
        PROVE  OnItsWay
    BY <2>1 DEF OnItsWay
  <2> QED
    BY <2>1, MadeForward, SentForward, ProcessedForward, ByHandDoneForward, OthersForward
<1>2. [OnItsWay]_vars <=>
        [\A i \in TrxId :
           status'[i] # status[i] /\ trail'[i] \cap ByHandOps = {} =>
             \/ <<status[i], status'[i]>> \in {<<"absent", "initiated">>, <<"initiated", "pending">>,
                                              <<"pending", "done">>, <<"pending", "failed">>}
             \/ status[i] = "done" /\ status'[i] = "failed" /\ stalls[i] > 0]_vars
  BY DEF OnItsWay, Forward
<1> QED
  BY <1>1, <1>2, PipelineHolds, PTL DEF Spec, AutomaticPath
=============================================================================
