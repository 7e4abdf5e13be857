------------------------------ MODULE LifeCycle ------------------------------
(***************************************************************************)
(* The rows of client payments and the calls on them, without the money:   *)
(* what TransactionService promises to the handlers, the timer and the     *)
(* queue job that call it.                                                 *)
(*                                                                         *)
(* A call on a known id works on the copy of the row's status that         *)
(* getTransactionById gave it.  It ends by writing a status, which it      *)
(* decides on from that copy alone, or without an effect: refused, failed, *)
(* or dropped with its process.  LedgerServices implements this            *)
(* specification; Pipeline is composed with it.                            *)
(***************************************************************************)
EXTENDS Naturals

CONSTANTS
  Caller,     \* whoever can have a call in progress, one each
  TrxId,      \* uuids of client transactions
  NoId,       \* stands for an undefined id
  Exclusive   \* callers never overlap two calls on one transaction id

VARIABLES
  status,     \* transactions.status, "absent" for no row
  visit,      \* the call each caller has in progress
  settled     \* history: how often processTransaction committed, 2 for "several"

vars == <<status, visit, settled>>

ById == {"process", "cancel", "send"}
Op == ById \cup {"create", "fail"}
Status == {"initiated", "cancelled", "pending", "failed", "done"}
RowStatus == Status \cup {"absent"}

NoVisit == [op |-> "none", id |-> NoId, copy |-> "absent"]

Init ==
  /\ status = [i \in TrxId |-> "absent"]
  /\ visit = [c \in Caller |-> NoVisit]
  /\ settled = [i \in TrxId |-> 0]

Idle(c) == visit[c].op = "none"
On(c, i) == ~Idle(c) /\ visit[c].id = i

\* A client knows an id from the answer to its create call.
Call(c, o, i) ==
  /\ o \in ById
  /\ Idle(c)
  /\ \A d \in Caller : On(d, i) => ~Exclusive /\ visit[d].op # "create"
  /\ visit' = [visit EXCEPT ![c] = [op |-> o, id |-> i, copy |-> "absent"]]
  /\ UNCHANGED <<status, settled>>

\* The new entity is initiated before there is a row.
CallCreate(c, i) ==
  /\ Idle(c)
  /\ status[i] = "absent"
  /\ \A d \in Caller : ~On(d, i)
  /\ visit' = [visit EXCEPT ![c] = [op |-> "create", id |-> i, copy |-> "initiated"]]
  /\ UNCHANGED <<status, settled>>

\* getTransactionById.  An attempt after 40001 begins with it again.
Read(c) ==
  /\ visit[c].op \in ById \cup {"fail"}
  /\ status[visit[c].id] # "absent"
  /\ visit' = [visit EXCEPT ![c].copy = status[visit[c].id]]
  /\ UNCHANGED <<status, settled>>

\* 40001: what the call knew of the row is dropped.
Restart(c) ==
  /\ visit[c].op \in ById
  /\ visit' = [visit EXCEPT ![c].copy = "absent"]
  /\ UNCHANGED <<status, settled>>

\* The retry budget of a process call is spent: failTransaction takes over.
GiveUp(c) ==
  /\ visit[c].op = "process"
  /\ visit[c].copy # "absent"
  /\ visit' = [visit EXCEPT ![c] = [op |-> "fail", id |-> @.id, copy |-> "absent"]]
  /\ UNCHANGED <<status, settled>>

\* Mutant: no operation looks at the status but to find the row.
NeedsAnyRow(o) == IF o = "create" THEN {"initiated"} ELSE Status

\* The copies on which an operation goes ahead.
Needs(o) ==
  CASE o = "create" -> {"initiated"}
    [] o \in {"cancel", "send"} -> {"initiated"}
    [] o = "process" -> {"pending"}
    [] o = "fail" -> Status

\* The status it writes.
Writes(o) ==
  CASE o = "create" -> "initiated"
    [] o = "cancel" -> "cancelled"
    [] o = "send" -> "pending"
    [] o = "process" -> "done"
    [] o = "fail" -> "failed"

\* save, which overwrites whatever status the row has by now, and the return.
Succeed(c) ==
  LET v == visit[c] IN
  /\ v.op \in Op
  /\ v.copy \in Needs(v.op)
  /\ status' = [status EXCEPT ![v.id] = Writes(v.op)]
  /\ settled' = IF v.op = "process"
                THEN [settled EXCEPT ![v.id] = IF @ = 0 THEN 1 ELSE 2]
                ELSE settled
  /\ visit' = [visit EXCEPT ![c] = NoVisit]

\* The calls of C end without an effect on a row: an error, or a process that died.
Drop(C) ==
  /\ visit' = [c \in Caller |-> IF c \in C THEN NoVisit ELSE visit[c]]
  /\ UNCHANGED <<status, settled>>

Next ==
  \E c \in Caller :
    \/ \E i \in TrxId : CallCreate(c, i) \/ \E o \in ById : Call(c, o, i)
    \/ Read(c) \/ Restart(c) \/ GiveUp(c) \/ Succeed(c) \/ Drop({c})

Spec == Init /\ [][Next]_vars
-----------------------------------------------------------------------------
TypeOK ==
  /\ status \in [TrxId -> RowStatus]
  /\ visit \in [Caller -> [op: Op, id: TrxId, copy: RowStatus] \cup {NoVisit}]
  /\ settled \in [TrxId -> 0..2]

\* Callers that never overlap calls on one id see a payment settled at most once,
\* a cancelled one never, and done only with the money moved.
SettledOnce ==
  Exclusive => \A i \in TrxId :
    /\ settled[i] <= 1
    /\ status[i] = "cancelled" => settled[i] = 0
    /\ status[i] = "done" => settled[i] = 1

\* The status changes such callers can see.  failTransaction saves over any.
Lifecycle ==
  {<<"absent", "initiated">>, <<"initiated", "pending">>, <<"initiated", "cancelled">>,
   <<"pending", "done">>} \cup (Status \X {"failed"})

FollowsLifecycle ==
  [][Exclusive => \A i \in TrxId :
       status'[i] # status[i] => <<status[i], status'[i]>> \in Lifecycle]_vars
=============================================================================
