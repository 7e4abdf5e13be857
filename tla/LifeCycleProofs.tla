--------------------------- MODULE LifeCycleProofs ---------------------------
(***************************************************************************)
(* What the life cycle promises to callers that never overlap two calls on *)
(* one transaction, for any number of callers and transactions.            *)
(***************************************************************************)
EXTENDS LifeCycle, TLAPS

-----------------------------------------------------------------------------
(* Types.                                                                  *)

LEMMA InitTypes == Init => TypeOK
BY DEF Init, TypeOK, RowStatus

LEMMA NextTypes == TypeOK /\ [Next]_vars => TypeOK'
<1> SUFFICES ASSUME TypeOK, [Next]_vars PROVE TypeOK'
  OBVIOUS
<1> USE DEF TypeOK
<1>1. ASSUME NEW c \in Caller, NEW i \in TrxId, CallCreate(c, i)
      PROVE  TypeOK'
  BY <1>1 DEF CallCreate, Op, RowStatus, Status
<1>2. ASSUME NEW c \in Caller, NEW i \in TrxId, NEW o \in ById, Call(c, o, i)
      PROVE  TypeOK'
  BY <1>2 DEF Call, Op, RowStatus
<1>3. ASSUME NEW c \in Caller, Read(c)
      PROVE  TypeOK'
  <2>1. visit[c] \in [op: Op, id: TrxId, copy: RowStatus]
    BY <1>3 DEF Read, NoVisit, ById
  <2> QED
    BY <1>3, <2>1 DEF Read
<1>4. ASSUME NEW c \in Caller, Restart(c)
      PROVE  TypeOK'
  <2>1. visit[c] \in [op: Op, id: TrxId, copy: RowStatus]
    BY <1>4 DEF Restart, NoVisit, ById
  <2> QED
    BY <1>4, <2>1 DEF Restart, RowStatus
<1>5. ASSUME NEW c \in Caller, GiveUp(c)
      PROVE  TypeOK'
  <2>1. visit[c].id \in TrxId
    BY <1>5 DEF GiveUp, NoVisit
  <2> QED
    BY <1>5, <2>1 DEF GiveUp, Op, RowStatus
<1>6. ASSUME NEW c \in Caller, Succeed(c)
      PROVE  TypeOK'
  <2>1. visit[c].id \in TrxId /\ visit[c].op \in Op
    BY <1>6 DEF Succeed, NoVisit, Op, ById
  <2>2. Writes(visit[c].op) \in RowStatus
    BY <2>1 DEF Writes, Op, ById, RowStatus, Status
  <2> QED
    BY <1>6, <2>1, <2>2 DEF Succeed
<1>7. ASSUME NEW C, Drop(C)
      PROVE  TypeOK'
  BY <1>7 DEF Drop
<1>8. CASE UNCHANGED vars
  BY <1>8 DEF vars
<1> QED
  BY <1>1, <1>2, <1>3, <1>4, <1>5, <1>6, <1>7, <1>8 DEF Next

\* The rows, the calls and the history keep their types.
THEOREM LifeTyped == Spec => []TypeOK
<1> QED
  BY InitTypes, NextTypes, PTL DEF Spec

-----------------------------------------------------------------------------
(* Careful callers.                                                        *)

\* One call at a time on an id, on a copy that is still what the row says, and a
\* row that tells whether the money moved.
CarefulInv ==
  /\ TypeOK
  /\ \A c, d \in Caller : \A i \in TrxId : On(c, i) /\ On(d, i) => c = d
  /\ \A c \in Caller : visit[c].op = "create" => status[visit[c].id] = "absent"
  /\ \A c \in Caller : visit[c].op \in ById \cup {"fail"} =>
       visit[c].copy \in {"absent", status[visit[c].id]}
  /\ \A i \in TrxId :
       /\ settled[i] <= 1
       /\ status[i] \in {"absent", "initiated", "pending", "cancelled"} => settled[i] = 0
       /\ status[i] = "done" => settled[i] = 1

LEMMA InitCareful == Init => CarefulInv
BY InitTypes DEF Init, CarefulInv, On, Idle, NoVisit, ById

LEMMA SucceedCareful ==
  ASSUME CarefulInv, TypeOK', NEW c \in Caller, Succeed(c)
  PROVE  /\ CarefulInv'
         /\ \A i \in TrxId :
              status'[i] # status[i] => <<status[i], status'[i]>> \in Lifecycle
<1> DEFINE v == visit[c]
<1>t. TypeOK /\ v \in [op: Op, id: TrxId, copy: RowStatus] /\ On(c, v.id)
  BY DEF CarefulInv, TypeOK, Succeed, NoVisit, Op, ById, On, Idle
<1>1. /\ status' = [status EXCEPT ![v.id] = Writes(v.op)]
      /\ visit' = [visit EXCEPT ![c] = NoVisit]
      /\ v.copy \in Needs(v.op)
      /\ settled' = IF v.op = "process"
                    THEN [settled EXCEPT ![v.id] = IF @ = 0 THEN 1 ELSE 2]
                    ELSE settled
  BY DEF Succeed
<1>2. \A d \in Caller : d # c /\ ~Idle(d) => visit[d].id # v.id
  BY <1>t DEF CarefulInv, On
<1>3. v.op = "create" => status[v.id] = "absent" /\ settled[v.id] = 0
  BY <1>t DEF CarefulInv
<1>4. v.op # "create" => v.copy = status[v.id] /\ v.copy # "absent"
  BY <1>t, <1>1 DEF CarefulInv, Needs, Op, ById, Status
<1>5. \A i \in TrxId : i # v.id => status'[i] = status[i] /\ settled'[i] = settled[i]
  BY <1>t, <1>1 DEF TypeOK
<1>6. /\ status'[v.id] = Writes(v.op)
      /\ settled'[v.id] \in 0..1
      /\ status'[v.id] \in {"initiated", "pending", "cancelled"} => settled'[v.id] = 0
      /\ status'[v.id] = "done" => settled'[v.id] = 1
      /\ status'[v.id] # "absent"
      /\ <<status[v.id], Writes(v.op)>> \in Lifecycle
  <2>1. status'[v.id] = Writes(v.op)
    BY <1>t, <1>1 DEF TypeOK
  <2>2. settled[v.id] \in 0..1 /\ (status[v.id] \in {"initiated", "pending"} => settled[v.id] = 0)
    BY <1>t DEF CarefulInv, TypeOK
  <2>3. v.op = "process" => settled'[v.id] = (IF settled[v.id] = 0 THEN 1 ELSE 2)
    BY <1>t, <1>1 DEF TypeOK
  <2>4. v.op # "process" => settled'[v.id] = settled[v.id]
    BY <1>1
  <2>5. CASE v.op = "create"
    BY <2>1, <2>4, <2>5, <1>3 DEF Writes, Lifecycle, Status
  <2>6. CASE v.op = "process"
    BY <2>1, <2>2, <2>3, <2>6, <1>1, <1>4 DEF Writes, Needs, Lifecycle, Status
  <2>7. CASE v.op \in {"send", "cancel"}
    BY <2>1, <2>2, <2>4, <2>7, <1>1, <1>4 DEF Writes, Needs, Lifecycle, Status
  <2>8. CASE v.op = "fail"
    BY <2>1, <2>2, <2>4, <2>8, <1>1, <1>4 DEF Writes, Needs, Lifecycle, Status
  <2> QED
    BY <1>t, <2>5, <2>6, <2>7, <2>8 DEF Op, ById
<1>7. \A d \in Caller : d # c => visit'[d] = visit[d]
  BY <1>t, <1>1 DEF TypeOK
<1>8. visit'[c] = NoVisit
  BY <1>t, <1>1 DEF TypeOK
<1>9. \A d \in Caller : d # c /\ visit[d].op \in Op =>
        visit[d].id \in TrxId /\ status'[visit[d].id] = status[visit[d].id]
  BY <1>t, <1>2, <1>5 DEF TypeOK, NoVisit, Op, ById, Idle
<1>10. \A d, e \in Caller : \A i \in TrxId : (On(d, i) /\ On(e, i))' => d = e
  BY <1>7, <1>8 DEF CarefulInv, On, Idle, NoVisit
<1>11. \A d \in Caller : visit'[d].op = "create" => status'[visit'[d].id] = "absent"
  BY <1>7, <1>8, <1>9 DEF CarefulInv, NoVisit, Op
<1>12. \A d \in Caller : visit'[d].op \in ById \cup {"fail"} =>
         visit'[d].copy \in {"absent", status'[visit'[d].id]}
  BY <1>7, <1>8, <1>9 DEF CarefulInv, NoVisit, Op, ById
<1>13. \A i \in TrxId :
         /\ settled'[i] <= 1
         /\ status'[i] \in {"absent", "initiated", "pending", "cancelled"} => settled'[i] = 0
         /\ status'[i] = "done" => settled'[i] = 1
  BY <1>5, <1>6 DEF CarefulInv
<1> QED
  BY <1>5, <1>6, <1>10, <1>11, <1>12, <1>13 DEF CarefulInv

\* A step that writes no row.
LEMMA CallsCareful ==
  ASSUME CarefulInv, TypeOK', Exclusive,
         \/ \E c \in Caller, i \in TrxId : CallCreate(c, i)
         \/ \E c \in Caller, i \in TrxId, o \in ById : Call(c, o, i)
         \/ \E c \in Caller : Read(c) \/ Restart(c) \/ GiveUp(c)
         \/ \E C : Drop(C)
         \/ UNCHANGED vars
  PROVE  CarefulInv' /\ UNCHANGED <<status, settled>>
<1>t. TypeOK
  BY DEF CarefulInv
<1> USE DEF CarefulInv, TypeOK, On, Idle
<1>1. ASSUME NEW c \in Caller, NEW i \in TrxId, CallCreate(c, i)
      PROVE  CarefulInv' /\ UNCHANGED <<status, settled>>
  BY <1>t, <1>1 DEF CallCreate, ById
<1>2. ASSUME NEW c \in Caller, NEW i \in TrxId, NEW o \in ById, Call(c, o, i)
      PROVE  CarefulInv' /\ UNCHANGED <<status, settled>>
  BY <1>t, <1>2 DEF Call, ById
<1>3. ASSUME NEW c \in Caller, Read(c)
      PROVE  CarefulInv' /\ UNCHANGED <<status, settled>>
  BY <1>t, <1>3 DEF Read, ById, NoVisit
<1>4. ASSUME NEW c \in Caller, Restart(c)
      PROVE  CarefulInv' /\ UNCHANGED <<status, settled>>
  BY <1>t, <1>4 DEF Restart, ById, NoVisit
<1>5. ASSUME NEW c \in Caller, GiveUp(c)
      PROVE  CarefulInv' /\ UNCHANGED <<status, settled>>
  BY <1>t, <1>5 DEF GiveUp, ById, NoVisit
<1>6. ASSUME NEW C, Drop(C)
      PROVE  CarefulInv' /\ UNCHANGED <<status, settled>>
  BY <1>t, <1>6 DEF Drop, NoVisit, ById
<1>7. CASE UNCHANGED vars
  BY <1>t, <1>7 DEF vars
<1> QED
  BY <1>1, <1>2, <1>3, <1>4, <1>5, <1>6, <1>7

LEMMA NextCareful == Exclusive /\ CarefulInv /\ [Next]_vars => CarefulInv'
<1> SUFFICES ASSUME Exclusive, CarefulInv, [Next]_vars PROVE CarefulInv'
  OBVIOUS
<1>1. TypeOK'
  BY NextTypes DEF CarefulInv
<1> QED
  BY <1>1, SucceedCareful, CallsCareful DEF Next

\* When callers never overlap two calls on one id, a payment is settled at most
\* once, a cancelled one never, and done means that the money has moved.
THEOREM CarefulSettlesOnce == Spec => []SettledOnce
<1>1. Init => (Exclusive => CarefulInv)
  BY InitCareful
<1>2. (Exclusive => CarefulInv) /\ [Next]_vars => (Exclusive => CarefulInv)'
  BY NextCareful
<1>3. (Exclusive => CarefulInv) => SettledOnce
  BY DEF CarefulInv, SettledOnce
<1> QED
  BY <1>1, <1>2, <1>3, PTL DEF Spec

\* For such callers every change of a row is one of the life cycle.
THEOREM CarefulFollows == Spec => FollowsLifecycle
<1>1. Init => (Exclusive => CarefulInv)
  BY InitCareful
<1>2. (Exclusive => CarefulInv) /\ [Next]_vars => (Exclusive => CarefulInv)'
  BY NextCareful
<1>3. (Exclusive => CarefulInv) /\ [Next]_vars =>
        [Exclusive => \A i \in TrxId :
           status'[i] # status[i] => <<status[i], status'[i]>> \in Lifecycle]_vars
  <2> SUFFICES ASSUME Exclusive, CarefulInv, [Next]_vars
               PROVE  \A i \in TrxId :
                        status'[i] # status[i] => <<status[i], status'[i]>> \in Lifecycle
    OBVIOUS
  <2>1. TypeOK'
    BY NextTypes DEF CarefulInv
  <2> QED
    BY <2>1, SucceedCareful, CallsCareful DEF Next
<1> QED
  BY <1>1, <1>2, <1>3, PTL DEF Spec, FollowsLifecycle
=============================================================================
