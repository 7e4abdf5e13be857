--------------------------- MODULE ConnectionPool ---------------------------
(***************************************************************************)
(* PostgresqlProvider of one application over the pool of the pg library,  *)
(* and the calls of the ledger services that run their statements on it.   *)
(*                                                                         *)
(* A statement given a transaction id runs on the client allocated to that *)
(* id while there is one, any other on a client borrowed from the pool for *)
(* that statement.  A client keeps its server session, with a transaction  *)
(* left open in it, when it goes from one borrower to the next.            *)
(*                                                                         *)
(* The pool is external: as pg 8 has it, clients are handed out last in,   *)
(* first out, to requests in their order, without a time limit.            *)
(*                                                                         *)
(* A definition whose comment begins "Mutant" is a bug the definition      *)
(* after it could have had; nothing uses it but the mutation runs.         *)
(***************************************************************************)
EXTENDS SequencesExt

CONSTANTS
  Call,      \* calls in progress in the application
  Client,    \* connections the pool may have, 10 by default
  SlowCalls, \* statements may wait longer than RELEASE_CONNECTION_TIMEOUT
  None

ASSUME PoolAssumption ==
  /\ Client # {} /\ IsFiniteSet(Client)
  /\ SlowCalls \in BOOLEAN
  /\ None \notin Call \cup Client

VARIABLES
  idle,       \* clients in the pool, the one handed out next is the last
  waiting,    \* calls that wait for a client, in order
  allocated,  \* allocatedConnections, by the call that owns the transaction id
  lent,       \* the client pool.query has borrowed for a call's statement
  session,    \* per client, the call whose BEGIN opened the transaction in it
  pending,    \* per client, the writes in that transaction
  durable,    \* committed writes
  op,         \* the kind of operation each call is
  pc,         \* the statement or request each call is at
  lapsed      \* history: the timer took a client away from a call

\* createTransaction; createAccount and consolidateFee, which begin with a transaction
\* too; processTransaction and cancelTransaction, which look their row up before it;
\* sendTransaction and failTransaction, which save the row they looked up without one.
Kind == {"create", "fresh", "byId", "status"}

server == <<session, pending, durable>>
vars == <<idle, waiting, allocated, lent, server, op, pc, lapsed>>

\* The constructor connects one client and drops it: it never returns to the pool.
Dropped == CHOOSE c \in Client : TRUE

Init ==
  /\ idle = SetToSeq(Client \ {Dropped})
  /\ waiting = <<>>
  /\ allocated = [w \in Call |-> None]
  /\ lent = [w \in Call |-> None]
  /\ session = [c \in Client |-> None]
  /\ pending = [c \in Client |-> {}]
  /\ durable = {}
  /\ op = [w \in Call |-> "none"]
  /\ pc = [w \in Call |-> "idle"]
  /\ lapsed = FALSE

-----------------------------------------------------------------------------
(* Clients change hands.                                                   *)

Statement == {"lookup", "update", "begin", "save", "hold", "commit", "rollback"}

\* Mutant: save is not given the transaction id either.
TaggedButSave == {"begin", "commit", "rollback"}
\* Statements that are given the transaction id.
Tagged == {"begin", "save", "commit", "rollback"}

\* getConnection, the fallback to the pool included.
Connection(w) ==
  IF pc[w] \in Tagged /\ allocated[w] # None THEN allocated[w] ELSE lent[w]

\* pool.connect(), for allocateConnection or for a statement of its own.
Connect(w) ==
  /\ pc[w] = "allocate" \/ (pc[w] \in Statement /\ Connection(w) = None)
  /\ ~Contains(waiting, w)
  /\ waiting' = Append(waiting, w)
  /\ UNCHANGED <<idle, allocated, lent, server, op, pc, lapsed>>

Serve ==
  /\ idle # <<>> /\ waiting # <<>>
  /\ LET w == Head(waiting)
         c == Last(idle)
     IN /\ waiting' = Tail(waiting)
        /\ idle' = Front(idle)
        /\ IF pc[w] = "allocate"
           THEN /\ allocated' = [allocated EXCEPT ![w] = c]
                /\ pc' = [pc EXCEPT ![w] = "begin"]
                /\ UNCHANGED lent
           ELSE /\ lent' = [lent EXCEPT ![w] = c]
                /\ UNCHANGED <<allocated, pc>>
        /\ UNCHANGED <<server, op, lapsed>>

\* Mutant: the entry is not deleted.
releaseConnectionKept(w) ==
  /\ idle' = IF allocated[w] # None THEN Append(idle, allocated[w]) ELSE idle
  /\ UNCHANGED allocated

releaseConnection(w) ==
  /\ idle' = IF allocated[w] # None THEN Append(idle, allocated[w]) ELSE idle
  /\ allocated' = [allocated EXCEPT ![w] = None]

\* Every client is in the hands of a call that waits for another one.
Exhausted ==
  /\ idle = <<>>
  /\ \A w \in Call : lent[w] = None /\ (allocated[w] # None => Contains(waiting, w))

\* Mutant: the timer is not set.
NoTimeout(w) == FALSE

\* The timer that allocateConnection sets.  It runs out on calls that wait for each
\* other, and on any whose statements wait for long, for a row another session has
\* locked.
ReleaseTimeout(w) ==
  /\ SlowCalls \/ Exhausted
  /\ allocated[w] # None
  /\ releaseConnection(w)
  /\ lapsed' = TRUE
  /\ UNCHANGED <<waiting, lent, server, op, pc>>

-----------------------------------------------------------------------------
(* The statements of a call, in order.                                     *)

Start(w) ==
  \E kind \in Kind :
    /\ pc[w] = "idle"
    /\ op' = [op EXCEPT ![w] = kind]
    /\ pc' = [pc EXCEPT ![w] = IF kind \in {"create", "fresh"} THEN "allocate" ELSE "lookup"]
    /\ UNCHANGED <<idle, waiting, allocated, lent, server, lapsed>>

\* The statement that w is at is answered, and a borrowed client goes back.
Answer(w, label) ==
  /\ Connection(w) # None
  /\ pc' = [pc EXCEPT ![w] = label]
  /\ IF lent[w] = None
     THEN UNCHANGED <<idle, lent>>
     ELSE idle' = Append(idle, lent[w]) /\ lent' = [lent EXCEPT ![w] = None]
  /\ UNCHANGED <<waiting, allocated, op, lapsed>>

\* An INSERT or UPDATE joins the transaction open in the session, if there is one.
Write(w, what) ==
  LET c == Connection(w) IN
  IF session[c] = None
  THEN durable' = durable \cup {<<w, what>>} /\ UNCHANGED <<session, pending>>
  ELSE pending' = [pending EXCEPT ![c] = @ \cup {<<w, what>>}] /\ UNCHANGED <<session, durable>>

CloseTransaction(c) ==
  /\ session' = [session EXCEPT ![c] = None]
  /\ pending' = [pending EXCEPT ![c] = {}]

\* getTransactionById; there may be no row, or the retry budget is spent, or it has not
\* the status that sendTransaction asks for.
Lookup(w) ==
  /\ pc[w] = "lookup"
  /\ \E label \in {"failed", IF op[w] = "status" THEN "update" ELSE "allocate"} : Answer(w, label)
  /\ UNCHANGED server

\* save without a transaction id, and without a transaction.
Update(w) ==
  /\ pc[w] = "update"
  /\ \/ Answer(w, "done") /\ Write(w, "save")
     \/ Answer(w, "failed") /\ UNCHANGED server

\* BEGIN in an open transaction is answered with a warning and changes nothing.
Begin(w) ==
  /\ pc[w] = "begin"
  /\ Answer(w, "save")
  /\ session' = [session EXCEPT ![Connection(w)] = IF @ = None THEN w ELSE @]
  /\ UNCHANGED <<pending, durable>>

\* Mutant: the transaction is not rolled back before its client is released.
RefuseWithoutRollback(w) ==
  /\ pc[w] = "save"
  /\ lent[w] = None /\ ~Contains(waiting, w)
  /\ pc' = [pc EXCEPT ![w] = "giveUp"]
  /\ UNCHANGED <<idle, waiting, allocated, lent, server, op, lapsed>>

\* A check of the service throws: rollbackConsistentOperation.
Refuse(w) ==
  /\ pc[w] = "save"
  /\ lent[w] = None /\ ~Contains(waiting, w)
  /\ pc' = [pc EXCEPT ![w] = "rollback"]
  /\ UNCHANGED <<idle, waiting, allocated, lent, server, op, lapsed>>

Save(w) ==
  /\ pc[w] = "save"
  /\ Answer(w, IF op[w] = "create" THEN "hold" ELSE "commit")
  /\ Write(w, "save")

\* holdAmount without a transaction id; the UPDATE may match no row.
Hold(w) ==
  /\ pc[w] = "hold"
  /\ \/ Answer(w, "commit") /\ Write(w, "hold")
     \/ Answer(w, "rollback") /\ UNCHANGED server

\* COMMIT outside a transaction is answered with a warning, as a success.
Commit(w) ==
  /\ pc[w] = "commit"
  /\ LET c == Connection(w) IN
     \/ /\ Answer(w, "release")
        /\ CloseTransaction(c)
        /\ durable' = durable \cup pending[c]
     \/ /\ Answer(w, "rollback")
        /\ session[c] # None
        /\ CloseTransaction(c)
        /\ UNCHANGED durable

Rollback(w) ==
  /\ pc[w] = "rollback"
  /\ Answer(w, "giveUp")
  /\ CloseTransaction(Connection(w))
  /\ UNCHANGED durable

Release(w) ==
  /\ pc[w] \in {"release", "giveUp"}
  /\ releaseConnection(w)
  /\ pc' = [pc EXCEPT ![w] = IF @ = "release" THEN "done" ELSE "failed"]
  /\ UNCHANGED <<waiting, lent, server, op, lapsed>>

\* The caller has its answer; what the call wrote is not followed further.
Return(w) ==
  /\ pc[w] \in {"done", "failed"}
  /\ pc' = [pc EXCEPT ![w] = "idle"]
  /\ op' = [op EXCEPT ![w] = "none"]
  /\ durable' = durable \ ({w} \X {"save", "hold"})
  /\ pending' = [c \in Client |-> pending[c] \ ({w} \X {"save", "hold"})]
  /\ UNCHANGED <<idle, waiting, allocated, lent, session, lapsed>>

Step(w) ==
  \/ Connect(w)
  \/ Lookup(w) \/ Update(w) \/ Begin(w) \/ Refuse(w) \/ Save(w) \/ Hold(w) \/ Commit(w) \/ Rollback(w)
  \/ Release(w) \/ Return(w)

Next == Serve \/ \E w \in Call : Start(w) \/ Step(w) \/ ReleaseTimeout(w)

Spec == Init /\ [][Next]_vars

\* The pool serves its queue, the database answers, timers fire.
FairSpec ==
  /\ Spec
  /\ WF_vars(Serve)
  /\ \A w \in Call : WF_vars(Step(w)) /\ WF_vars(ReleaseTimeout(w))

-----------------------------------------------------------------------------
(* What the provider promises.                                             *)

\* The calls that have client c in hand, and the places it has in the pool.
Holders(c) == {w \in Call : allocated[w] = c} \cup {w \in Call : lent[w] = c}
Places(c) == {i \in DOMAIN idle : idle[i] = c}

\* Timer and call may both release: a client is in one pair of hands or in the pool
\* once, and none is lost but the one the constructor keeps.
ClientsKept ==
  /\ \A c \in Client : Cardinality(Holders(c)) + Cardinality(Places(c)) <= 1
  /\ Cardinality({c \in Client : Holders(c) # {} \/ Places(c) # {}}) = Cardinality(Client) - 1

\* Until the timer cuts a transaction short, a transaction is open only on the client
\* allocated to the call that began it, and no other call's statement is in it.
OwnTransactions ==
  ~lapsed => \A c \in Client :
    /\ session[c] = None => pending[c] = {}
    /\ session[c] # None => /\ allocated[session[c]] = c
                            /\ pending[c] \subseteq {<<session[c], "save">>}

\* Until then, a call that was answered with success has all its writes committed;
\* of one that failed only the hold, which is outside its transaction, can stay.
Answered ==
  ~lapsed => \A w \in Call :
    /\ pc[w] = "done" => <<w, "save">> \in durable /\ (op[w] = "create" => <<w, "hold">> \in durable)
    /\ pc[w] = "failed" => <<w, "save">> \notin durable

\* createTransaction asks for a second client while it has one, and as many creates
\* as there are clients wait for each other; the timer ends that.
CallsEnd == \A w \in Call : (pc[w] # "idle") ~> (pc[w] = "idle")

-----------------------------------------------------------------------------
(* What the API says and the provider does not keep (violation run).       *)

\* transaction.controller.ts:30-33 answers 201, "Create transaction": the row of a
\* transaction whose creation was answered with success is stored.
CreatedIsStored ==
  \A w \in Call : op[w] = "create" /\ pc[w] = "done" => <<w, "save">> \in durable
=============================================================================
