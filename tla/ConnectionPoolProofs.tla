------------------------ MODULE ConnectionPoolProofs ------------------------
(***************************************************************************)
(* No client of the pool is lost or held twice, and until a timer cuts a   *)
(* transaction short every call's statements are in its own transaction,   *)
(* for any number of calls and clients.                                    *)
(***************************************************************************)
EXTENDS ConnectionPool, LibraryFacts, TLAPS

-----------------------------------------------------------------------------
(* The inductive invariant.                                                *)

Written == Call \X {"save", "hold"}
Pc == Statement \cup {"idle", "allocate", "release", "giveUp", "done", "failed"}

PoolTyped ==
  /\ idle \in Seq(Client) /\ waiting \in Seq(Call)
  /\ allocated \in [Call -> Client \cup {None}]
  /\ lent \in [Call -> Client \cup {None}]
  /\ session \in [Client -> Call \cup {None}]
  /\ pending \in [Client -> SUBSET Written]
  /\ durable \subseteq Written
  /\ op \in [Call -> Kind \cup {"none"}]
  /\ pc \in [Call -> Pc]
  /\ lapsed \in BOOLEAN

\* From allocateConnection to releaseConnection.
Inside(w) == pc[w] \in {"begin", "save", "hold", "commit", "rollback", "release", "giveUp"}

\* A call has clients and requests only while it is at a statement that needs them.
CallOf(w) ==
  /\ Contains(waiting, w) => /\ pc[w] \in Statement \cup {"allocate"} /\ lent[w] = None
                             /\ pc[w] \in Tagged => allocated[w] = None
  /\ lent[w] # None => pc[w] \in Statement
  /\ allocated[w] # None => Inside(w)

\* A client is in one place.
Pooled == ToSet(idle)

Apart ==
  /\ IsInjective(idle) /\ IsInjective(waiting)
  /\ \A w \in Call : allocated[w] \notin Pooled /\ lent[w] \notin Pooled
  /\ \A w, v \in Call :
       /\ allocated[w] = allocated[v] => w = v \/ allocated[w] = None
       /\ lent[w] = lent[v] => w = v \/ lent[w] = None
       /\ allocated[w] = lent[v] => allocated[w] = None

\* All clients but the one that the constructor keeps are somewhere.
InUse(c) == c \in Pooled \/ \E w \in Call : allocated[w] = c \/ lent[w] = c
OneKept == \E kept \in Client : \A c \in Client : InUse(c) <=> c # kept

\* Until a timer has run out: where the transaction of a call stands.
TransactionOf(w) ==
  /\ Inside(w) => allocated[w] # None
  /\ pc[w] \in {"begin", "release", "giveUp"} => session[allocated[w]] = None
  /\ pc[w] \in {"save", "hold", "commit"} => session[allocated[w]] = w
  /\ pc[w] \in {"hold", "commit"} => <<w, "save">> \in pending[allocated[w]]
  /\ pc[w] \in {"commit", "release", "done"} /\ op[w] = "create" => <<w, "hold">> \in durable
  /\ pc[w] \in {"lookup", "update"} => op[w] # "create"
  /\ <<w, "save">> \in durable <=> pc[w] \in {"release", "done"}

SessionOf(c) ==
  /\ session[c] = None => pending[c] = {}
  /\ session[c] # None => /\ allocated[session[c]] = c
                          /\ pending[c] \subseteq {<<session[c], "save">>}

Sound == (\A w \in Call : TransactionOf(w)) /\ (\A c \in Client : SessionOf(c))

PoolInv ==
  /\ PoolTyped /\ Apart /\ OneKept
  /\ \A w \in Call : CallOf(w)
  /\ ~lapsed => Sound

-----------------------------------------------------------------------------
(* Clients change hands.                                                   *)

\* What the types give for one call.
LEMMA CallFacts ==
  ASSUME PoolInv, NEW w \in Call
  PROVE  /\ allocated[w] \in Client \cup {None} /\ lent[w] \in Client \cup {None}
         /\ allocated \in [Call -> Client \cup {None}] /\ lent \in [Call -> Client \cup {None}]
         /\ pc \in [Call -> Pc] /\ op \in [Call -> Kind \cup {"none"}]
         /\ idle \in Seq(Client) /\ waiting \in Seq(Call)
         /\ None \notin Client /\ None \notin Call /\ CallOf(w)
         /\ Pooled \subseteq Client
BY PoolAssumption, LenProperties DEF PoolInv, PoolTyped, Pooled, ToSet

\* The clients that are in use stay the same, so one is kept out of use.
LEMMA KeptStays ==
  ASSUME PoolInv, \A c \in Client : InUse(c)' <=> InUse(c)
  PROVE  OneKept'
BY DEF PoolInv, OneKept

\* A client goes back to the pool.
LEMMA BackFacts ==
  ASSUME PoolInv, NEW c \in Client, c \notin Pooled, idle' = Append(idle, c)
  PROVE  idle' \in Seq(Client) /\ Pooled' = Pooled \cup {c} /\ IsInjective(idle')
BY AppendSet DEF PoolInv, PoolTyped, Apart, Pooled

\* The call that answers has its client and waits for none; the client it borrowed
\* for the statement, if any, is the only thing that moves.
LEMMA AnswerFacts ==
  ASSUME PoolInv, NEW w \in Call, NEW label \in Pc, pc[w] \in Statement, Answer(w, label),
         Inside(w) => Inside(w)'
  PROVE  /\ idle' \in Seq(Client) /\ lent' \in [Call -> Client \cup {None}] /\ pc' \in [Call -> Pc]
         /\ Apart' /\ OneKept' /\ \A v \in Call : CallOf(v)'
         /\ pc'[w] = label /\ \A v \in Call : v # w => pc'[v] = pc[v]
<1>1. /\ Connection(w) # None /\ pc' = [pc EXCEPT ![w] = label]
      /\ waiting' = waiting /\ allocated' = allocated
      /\ IF lent[w] = None
         THEN UNCHANGED <<idle, lent>>
         ELSE idle' = Append(idle, lent[w]) /\ lent' = [lent EXCEPT ![w] = None]
  BY DEF Answer
<1>2. ~Contains(waiting, w)
  BY <1>1, CallFacts DEF CallOf, Connection
<1>3. /\ pc' \in [Call -> Pc] /\ pc'[w] = label /\ \A v \in Call : v # w => pc'[v] = pc[v]
      /\ lent' \in [Call -> Client \cup {None}]
      /\ lent'[w] = None /\ \A v \in Call : v # w => lent'[v] = lent[v]
  BY <1>1, CallFacts
<1>4. /\ idle' \in Seq(Client) /\ IsInjective(idle')
      /\ Pooled' = IF lent[w] = None THEN Pooled ELSE Pooled \cup {lent[w]}
  <2>1. CASE lent[w] = None
    BY <1>1, <2>1, CallFacts DEF PoolInv, Apart, Pooled
  <2>2. CASE lent[w] # None
    BY <1>1, <2>2, BackFacts, CallFacts DEF PoolInv, Apart
  <2> QED
    BY <2>1, <2>2
<1>5. Apart'
  <2>1. ASSUME NEW v \in Call
        PROVE  allocated'[v] \notin Pooled' /\ lent'[v] \notin Pooled'
    <3>1. allocated[v] \notin Pooled /\ lent[v] \notin Pooled /\ None \notin Pooled
      BY CallFacts DEF PoolInv, Apart
    <3>2. CASE v = w
      BY <1>1, <1>3, <1>4, <3>1, <3>2, CallFacts DEF PoolInv, Apart
    <3>3. CASE v # w
      BY <1>1, <1>3, <1>4, <3>1, <3>3, CallFacts DEF PoolInv, Apart
    <3> QED
      BY <3>2, <3>3
  <2>2. ASSUME NEW u \in Call, NEW v \in Call
        PROVE  /\ allocated'[u] = allocated'[v] => u = v \/ allocated'[u] = None
               /\ lent'[u] = lent'[v] => u = v \/ lent'[u] = None
               /\ allocated'[u] = lent'[v] => allocated'[u] = None
    BY <1>1, <1>3, <1>4 DEF PoolInv, Apart
  <2> QED
    BY <1>1, <1>3, <1>4, <2>1, <2>2 DEF PoolInv, Apart
<1>6. OneKept'
  <2>1. ASSUME NEW c \in Client
        PROVE  InUse(c)' <=> InUse(c)
    BY <1>1, <1>3, <1>4, CallFacts DEF InUse
  <2> QED
    BY <2>1, KeptStays
<1>7. ASSUME NEW v \in Call
      PROVE  CallOf(v)'
  <2>1. CASE v = w
    BY <1>1, <1>2, <1>3, <2>1, CallFacts DEF CallOf, Inside
  <2>2. CASE v # w
    BY <1>1, <1>3, <2>2, CallFacts DEF CallOf, Inside
  <2> QED
    BY <2>1, <2>2
<1> QED
  BY <1>3, <1>4, <1>5, <1>6, <1>7

LEMMA ReleaseFacts ==
  ASSUME PoolInv, NEW w \in Call, releaseConnection(w), UNCHANGED <<waiting, lent>>
  PROVE  /\ idle' \in Seq(Client) /\ allocated' \in [Call -> Client \cup {None}]
         /\ allocated'[w] = None /\ \A v \in Call : v # w => allocated'[v] = allocated[v]
         /\ Apart' /\ OneKept'
<1>1. /\ idle' = IF allocated[w] # None THEN Append(idle, allocated[w]) ELSE idle
      /\ allocated' = [allocated EXCEPT ![w] = None]
  BY DEF releaseConnection
<1>2. /\ allocated' \in [Call -> Client \cup {None}]
      /\ allocated'[w] = None /\ \A v \in Call : v # w => allocated'[v] = allocated[v]
  BY <1>1, CallFacts
<1>3. /\ idle' \in Seq(Client) /\ IsInjective(idle')
      /\ Pooled' = IF allocated[w] = None THEN Pooled ELSE Pooled \cup {allocated[w]}
  <2>1. CASE allocated[w] = None
    BY <1>1, <2>1, CallFacts DEF PoolInv, Apart, Pooled
  <2>2. CASE allocated[w] # None
    BY <1>1, <2>2, BackFacts, CallFacts DEF PoolInv, Apart
  <2> QED
    BY <2>1, <2>2
<1>4. Apart'
  <2>1. ASSUME NEW v \in Call
        PROVE  allocated'[v] \notin Pooled' /\ lent'[v] \notin Pooled'
    <3>1. allocated[v] \notin Pooled /\ lent[v] \notin Pooled /\ None \notin Pooled
      BY CallFacts DEF PoolInv, Apart
    <3>2. CASE v = w
      BY <1>2, <1>3, <3>1, <3>2, CallFacts DEF PoolInv, Apart
    <3>3. CASE v # w
      BY <1>2, <1>3, <3>1, <3>3, CallFacts DEF PoolInv, Apart
    <3> QED
      BY <3>2, <3>3
  <2>2. ASSUME NEW u \in Call, NEW v \in Call
        PROVE  /\ allocated'[u] = allocated'[v] => u = v \/ allocated'[u] = None
               /\ lent'[u] = lent'[v] => u = v \/ lent'[u] = None
               /\ allocated'[u] = lent'[v] => allocated'[u] = None
    BY <1>2, <1>3 DEF PoolInv, Apart
  <2> QED
    BY <1>2, <1>3, <2>1, <2>2 DEF PoolInv, Apart
<1>5. OneKept'
  <2>1. ASSUME NEW c \in Client
        PROVE  InUse(c)' <=> InUse(c)
    BY <1>2, <1>3, CallFacts DEF InUse
  <2> QED
    BY <2>1, KeptStays
<1> QED
  BY <1>2, <1>3, <1>4, <1>5

\* No client changes hands.
LEMMA StayFacts ==
  ASSUME PoolInv, UNCHANGED <<idle, allocated, lent>>
  PROVE  /\ IsInjective(waiting') => Apart'
         /\ OneKept'
<1>1. \A c \in Client : InUse(c)' <=> InUse(c)
  BY DEF InUse, Pooled
<1> QED
  BY <1>1, KeptStays DEF PoolInv, Apart, Pooled

-----------------------------------------------------------------------------
(* The transactions of the calls, while no timer has run out.              *)

LEMMA SoundKeeps ==
  ASSUME PoolInv, Sound, NEW w \in Call,
         \A v \in Call : v # w => /\ pc'[v] = pc[v] /\ op'[v] = op[v] /\ allocated'[v] = allocated[v]
                                  /\ \A what \in {"save", "hold"} :
                                       <<v, what>> \in durable' <=> <<v, what>> \in durable,
         \A c \in Client : c # allocated[w] => session'[c] = session[c] /\ pending'[c] = pending[c],
         TransactionOf(w)',
         \A c \in Client : c = allocated[w] => SessionOf(c)'
  PROVE  Sound'
<1>1. ASSUME NEW v \in Call, v # w
      PROVE  TransactionOf(v)'
  <2>1. TransactionOf(v)
    BY DEF Sound
  <2>2. CASE allocated[v] = None
    BY <1>1, <2>1, <2>2 DEF TransactionOf, Inside
  <2>3. CASE allocated[v] # None
    <3>1. allocated[v] \in Client /\ allocated[v] # allocated[w]
      BY <1>1, <2>3, CallFacts DEF PoolInv, Apart
    <3> QED
      BY <1>1, <2>1, <3>1 DEF TransactionOf, Inside
  <2> QED
    BY <2>2, <2>3
<1>2. ASSUME NEW c \in Client, c # allocated[w]
      PROVE  SessionOf(c)'
  <2>1. SessionOf(c) /\ session'[c] = session[c] /\ pending'[c] = pending[c]
    BY <1>2 DEF Sound
  <2>2. session[c] # None => session[c] \in Call /\ session[c] # w
    BY <1>2, <2>1 DEF SessionOf, PoolInv, PoolTyped
  <2> QED
    BY <2>1, <2>2 DEF SessionOf
<1> QED
  BY <1>1, <1>2 DEF Sound

\* A client that a call borrowed for a statement has no transaction open.
LEMMA LentSession ==
  ASSUME PoolInv, Sound, NEW w \in Call, lent[w] # None
  PROVE  lent[w] \in Client /\ session[lent[w]] = None
<1>1. lent[w] \in Client
  BY CallFacts
<1>2. session[lent[w]] \in Call \cup {None} /\ SessionOf(lent[w])
  BY <1>1 DEF PoolInv, PoolTyped, Sound
<1> QED
  BY <1>1, <1>2 DEF SessionOf, PoolInv, Apart

-----------------------------------------------------------------------------
(* Every action keeps the invariant.                                       *)

\* What the types give for the server.
LEMMA ServerFacts ==
  ASSUME PoolInv
  PROVE  /\ session \in [Client -> Call \cup {None}] /\ pending \in [Client -> SUBSET Written]
         /\ durable \subseteq Written /\ lapsed \in BOOLEAN
BY DEF PoolInv, PoolTyped

\* The client that a statement runs on.
LEMMA ConnectionFacts ==
  ASSUME PoolInv, NEW w \in Call
  PROVE  /\ Connection(w) \in Client \cup {None}
         /\ Sound /\ pc[w] \in Tagged => Connection(w) = allocated[w] /\ allocated[w] \in Client
<1>1. pc[w] \in Tagged => Inside(w)
  BY DEF Tagged, Inside
<1> QED
  BY <1>1, CallFacts DEF Connection, Sound, TransactionOf

LEMMA ConnectKeeps ==
  ASSUME PoolInv, NEW w \in Call, Connect(w)
  PROVE  PoolInv'
<1>1. /\ pc[w] = "allocate" \/ (pc[w] \in Statement /\ Connection(w) = None)
      /\ ~Contains(waiting, w) /\ waiting' = Append(waiting, w)
      /\ UNCHANGED <<idle, allocated, lent, server, op, pc, lapsed>>
  BY DEF Connect
<1>2. /\ waiting' \in Seq(Call) /\ IsInjective(waiting')
      /\ \A v \in Call : Contains(waiting', v) <=> Contains(waiting, v) \/ v = w
  <2>1. w \notin ToSet(waiting)
    BY <1>1, CallFacts, ContainsSet
  <2>2. waiting' \in Seq(Call) /\ IsInjective(waiting') /\ ToSet(waiting') = ToSet(waiting) \cup {w}
    BY <1>1, <2>1, CallFacts, AppendSet DEF PoolInv, Apart
  <2> QED
    BY <2>2, CallFacts, ContainsSet
<1>3. PoolTyped'
  BY <1>1, <1>2 DEF PoolInv, PoolTyped, server
<1>4. Apart' /\ OneKept'
  BY <1>1, <1>2, StayFacts
<1>5. ASSUME NEW v \in Call
      PROVE  CallOf(v)'
  <2>1. CASE v = w
    BY <1>1, <2>1, CallFacts DEF CallOf, Inside, Connection, Statement
  <2>2. CASE v # w
    BY <1>1, <1>2, <2>2, CallFacts DEF CallOf, Inside
  <2> QED
    BY <2>1, <2>2
<1>6. ~lapsed' => Sound'
  BY <1>1 DEF PoolInv, Sound, TransactionOf, SessionOf, Inside, server
<1> QED
  BY <1>3, <1>4, <1>5, <1>6 DEF PoolInv

LEMMA ServeKeeps ==
  ASSUME PoolInv, Serve
  PROVE  PoolInv'
<1>1. idle # <<>> /\ waiting # <<>>
  BY DEF Serve
<1>2. PICK w \in Call, c \in Client : w = Head(waiting) /\ c = Last(idle)
  <2>1. Head(waiting) \in ToSet(waiting) /\ Last(idle) \in ToSet(idle)
    BY <1>1, TailSet, FrontSet DEF PoolInv, PoolTyped
  <2>2. ToSet(waiting) \subseteq Call /\ ToSet(idle) \subseteq Client
    BY LenProperties DEF PoolInv, PoolTyped, ToSet
  <2> QED
    BY <2>1, <2>2
<1>3. /\ waiting' = Tail(waiting) /\ idle' = Front(idle)
      /\ IF pc[w] = "allocate"
         THEN /\ allocated' = [allocated EXCEPT ![w] = c]
              /\ pc' = [pc EXCEPT ![w] = "begin"]
              /\ UNCHANGED lent
         ELSE /\ lent' = [lent EXCEPT ![w] = c]
              /\ UNCHANGED <<allocated, pc>>
      /\ UNCHANGED <<server, op, lapsed>>
  BY <1>2 DEF Serve
<1>4. /\ c \in Pooled /\ idle' \in Seq(Client) /\ IsInjective(idle') /\ Pooled' = Pooled \ {c}
  BY <1>1, <1>2, <1>3, FrontSet DEF PoolInv, PoolTyped, Apart, Pooled
<1>5. /\ Contains(waiting, w) /\ waiting' \in Seq(Call) /\ IsInjective(waiting')
      /\ \A v \in Call : Contains(waiting', v) <=> Contains(waiting, v) /\ v # w
  <2>1. /\ w \in ToSet(waiting) /\ waiting' \in Seq(Call) /\ IsInjective(waiting')
        /\ ToSet(waiting') = ToSet(waiting) \ {w}
    BY <1>1, <1>2, <1>3, TailSet DEF PoolInv, PoolTyped, Apart
  <2> QED
    BY <2>1, CallFacts, ContainsSet
<1>6. c # None /\ lent[w] = None /\ \A v \in Call : allocated[v] # c /\ lent[v] # c
  BY <1>4, <1>5, CallFacts DEF CallOf, PoolInv, Apart
<1>7. /\ allocated' \in [Call -> Client \cup {None}] /\ lent' \in [Call -> Client \cup {None}]
      /\ pc' \in [Call -> Pc]
      /\ \A v \in Call : v # w => allocated'[v] = allocated[v] /\ lent'[v] = lent[v] /\ pc'[v] = pc[v]
      /\ IF pc[w] = "allocate"
         THEN allocated[w] = None /\ allocated'[w] = c /\ pc'[w] = "begin" /\ lent'[w] = None
         ELSE pc[w] \in Statement /\ allocated'[w] = allocated[w] /\ pc'[w] = pc[w] /\ lent'[w] = c
  <2>1. "begin" \in Pc
    BY DEF Pc, Statement
  <2>2. /\ pc[w] = "allocate" => allocated[w] = None
        /\ pc[w] # "allocate" => pc[w] \in Statement
    BY <1>5, CallFacts DEF CallOf, Inside
  <2> QED
    BY <1>3, <1>6, <2>1, <2>2, CallFacts
<1>8. PoolTyped'
  BY <1>3, <1>4, <1>5, <1>7 DEF PoolInv, PoolTyped, server
<1>9. Apart'
  <2>1. ASSUME NEW v \in Call
        PROVE  allocated'[v] \notin Pooled' /\ lent'[v] \notin Pooled'
    <3>1. allocated[v] \notin Pooled /\ lent[v] \notin Pooled /\ None \notin Pooled
      BY CallFacts DEF PoolInv, Apart
    <3>2. CASE v = w
      BY <1>4, <1>7, <3>1, <3>2
    <3>3. CASE v # w
      BY <1>4, <1>7, <3>1, <3>3
    <3> QED
      BY <3>2, <3>3
  <2>2. ASSUME NEW u \in Call, NEW v \in Call
        PROVE  /\ allocated'[u] = allocated'[v] => u = v \/ allocated'[u] = None
               /\ lent'[u] = lent'[v] => u = v \/ lent'[u] = None
               /\ allocated'[u] = lent'[v] => allocated'[u] = None
    BY <1>6, <1>7 DEF PoolInv, Apart
  <2> QED
    BY <1>4, <1>5, <2>1, <2>2 DEF Apart
<1>10. OneKept'
  <2>1. ASSUME NEW d \in Client
        PROVE  InUse(d)' <=> InUse(d)
    <3>1. CASE d = c
      BY <1>4, <1>7, <3>1 DEF InUse
    <3>2. CASE d # c
      BY <1>4, <1>6, <1>7, <3>2, CallFacts DEF InUse
    <3> QED
      BY <3>1, <3>2
  <2> QED
    BY <2>1, KeptStays
<1>11. ASSUME NEW v \in Call
       PROVE  CallOf(v)'
  <2>1. CASE v = w
    BY <1>5, <1>7, <2>1, CallFacts DEF CallOf, Inside
  <2>2. CASE v # w
    BY <1>5, <1>7, <2>2, CallFacts DEF CallOf, Inside
  <2> QED
    BY <2>1, <2>2
<1>12. ASSUME ~lapsed'
       PROVE  Sound'
  <2>1. Sound /\ UNCHANGED <<session, pending, durable, op>>
    BY <1>3, <1>12 DEF PoolInv, server
  <2>2. session[c] = None
    BY <1>6, <2>1, ServerFacts DEF Sound, SessionOf
  <2>3. TransactionOf(w)'
    <3>1. TransactionOf(w)
      BY <2>1 DEF Sound
    <3>2. CASE pc[w] = "allocate"
      BY <1>6, <1>7, <2>1, <2>2, <3>1, <3>2 DEF TransactionOf, Inside
    <3>3. CASE pc[w] # "allocate"
      BY <1>7, <2>1, <3>1, <3>3 DEF TransactionOf, Inside
    <3> QED
      BY <3>2, <3>3
  <2>4. \A d \in Client : d = allocated[w] => SessionOf(d)'
    BY <1>6, <1>7, <2>1, CallFacts, ServerFacts DEF Sound, SessionOf
  <2> QED
    BY <1>7, <2>1, <2>3, <2>4, SoundKeeps
<1> QED
  BY <1>8, <1>9, <1>10, <1>11, <1>12 DEF PoolInv

LEMMA ReleaseTimeoutKeeps ==
  ASSUME PoolInv, NEW w \in Call, ReleaseTimeout(w)
  PROVE  PoolInv'
<1>1. releaseConnection(w) /\ lapsed' = TRUE /\ UNCHANGED <<waiting, lent, server, op, pc>>
  BY DEF ReleaseTimeout
<1>2. /\ idle' \in Seq(Client) /\ allocated' \in [Call -> Client \cup {None}]
      /\ allocated'[w] = None /\ \A v \in Call : v # w => allocated'[v] = allocated[v]
      /\ Apart' /\ OneKept'
  BY <1>1, ReleaseFacts
<1>3. PoolTyped'
  BY <1>1, <1>2 DEF PoolInv, PoolTyped, server
<1>4. \A v \in Call : CallOf(v)'
  BY <1>1, <1>2 DEF PoolInv, CallOf, Inside
<1> QED
  BY <1>1, <1>2, <1>3, <1>4 DEF PoolInv

\* A call that does not wait moves on without the pool or the server.
LEMMA AsideKeeps ==
  ASSUME PoolInv, NEW w \in Call, NEW label \in Pc, ~Contains(waiting, w), lent[w] = None,
         pc' = [pc EXCEPT ![w] = label], Inside(w) => Inside(w)',
         UNCHANGED <<idle, waiting, allocated, lent, session, lapsed>>,
         pending' \in [Client -> SUBSET Written], ~lapsed => pending' = pending,
         durable' \subseteq Written, op' \in [Call -> Kind \cup {"none"}],
         \A v \in Call : v # w => op'[v] = op[v],
         \A v \in Call : v # w => \A what \in {"save", "hold"} :
                                    <<v, what>> \in durable' <=> <<v, what>> \in durable,
         ~lapsed => TransactionOf(w)'
  PROVE  PoolInv'
<1>1. pc' \in [Call -> Pc] /\ pc'[w] = label /\ \A v \in Call : v # w => pc'[v] = pc[v]
  BY CallFacts
<1>2. PoolTyped'
  BY <1>1 DEF PoolInv, PoolTyped
<1>3. Apart' /\ OneKept'
  BY StayFacts DEF PoolInv, Apart
<1>4. ASSUME NEW v \in Call
      PROVE  CallOf(v)'
  <2>1. CASE v = w
    BY <1>1, <2>1, CallFacts DEF CallOf
  <2>2. CASE v # w
    BY <1>1, <2>2, CallFacts DEF CallOf, Inside
  <2> QED
    BY <2>1, <2>2
<1>5. ASSUME ~lapsed'
      PROVE  Sound'
  <2>1. Sound /\ pending' = pending
    BY <1>5 DEF PoolInv
  <2>2. ASSUME NEW c \in Client, c = allocated[w]
        PROVE  SessionOf(c)'
    BY <2>1 DEF Sound, SessionOf
  <2> QED
    BY <1>1, <1>5, <2>1, <2>2, SoundKeeps
<1> QED
  BY <1>2, <1>3, <1>4, <1>5 DEF PoolInv

LEMMA StartKeeps ==
  ASSUME PoolInv, NEW w \in Call, Start(w)
  PROVE  PoolInv'
<1>1. PICK kind \in Kind :
        /\ pc[w] = "idle" /\ UNCHANGED <<idle, waiting, allocated, lent, server, lapsed>>
        /\ op' = [op EXCEPT ![w] = kind]
        /\ pc' = [pc EXCEPT ![w] = IF kind \in {"create", "fresh"} THEN "allocate" ELSE "lookup"]
  BY DEF Start
<1>2. PICK label \in {"allocate", "lookup"} :
        pc' = [pc EXCEPT ![w] = label] /\ (label = "lookup" => kind # "create")
  BY <1>1
<1>3. /\ op' \in [Call -> Kind \cup {"none"}] /\ op'[w] = kind
      /\ \A v \in Call : v # w => op'[v] = op[v]
  BY <1>1, CallFacts
<1>4. pc'[w] = label /\ label \in Pc
  BY <1>2, CallFacts DEF Pc, Statement
<1>5. ~Contains(waiting, w) /\ lent[w] = None /\ allocated[w] = None /\ ~Inside(w) /\ ~Inside(w)'
  BY <1>1, <1>4, CallFacts DEF CallOf, Inside, Statement
<1>6. ~lapsed => TransactionOf(w)'
  BY <1>1, <1>2, <1>3, <1>4, <1>5 DEF PoolInv, Sound, TransactionOf, server
<1> QED
  BY <1>1, <1>2, <1>3, <1>4, <1>5, <1>6, ServerFacts, AsideKeeps DEF server

LEMMA RefuseKeeps ==
  ASSUME PoolInv, NEW w \in Call, Refuse(w)
  PROVE  PoolInv'
<1>1. /\ pc[w] = "save" /\ lent[w] = None /\ ~Contains(waiting, w)
      /\ pc' = [pc EXCEPT ![w] = "rollback"]
      /\ UNCHANGED <<idle, waiting, allocated, lent, server, op, lapsed>>
  BY DEF Refuse
<1>2. pc'[w] = "rollback" /\ "rollback" \in Pc /\ Inside(w) /\ Inside(w)'
  BY <1>1, CallFacts DEF Pc, Statement, Inside
<1>3. ~lapsed => TransactionOf(w)'
  BY <1>1, <1>2 DEF PoolInv, Sound, TransactionOf, server
<1> QED
  BY <1>1, <1>2, <1>3, CallFacts, ServerFacts, AsideKeeps DEF server

LEMMA ReturnKeeps ==
  ASSUME PoolInv, NEW w \in Call, Return(w)
  PROVE  PoolInv'
<1>1. /\ pc[w] \in {"done", "failed"} /\ pc' = [pc EXCEPT ![w] = "idle"]
      /\ op' = [op EXCEPT ![w] = "none"]
      /\ durable' = durable \ ({w} \X {"save", "hold"})
      /\ pending' = [c \in Client |-> pending[c] \ ({w} \X {"save", "hold"})]
      /\ UNCHANGED <<idle, waiting, allocated, lent, session, lapsed>>
  BY DEF Return
<1>2. pc'[w] = "idle" /\ "idle" \in Pc
  BY <1>1, CallFacts DEF Pc
<1>3. ~Contains(waiting, w) /\ lent[w] = None /\ allocated[w] = None /\ ~Inside(w) /\ ~Inside(w)'
  BY <1>1, <1>2, CallFacts DEF CallOf, Inside, Statement
<1>4. <<w, "save">> \notin durable'
  BY <1>1
<1>5. ~lapsed => TransactionOf(w)'
  BY <1>2, <1>3, <1>4 DEF TransactionOf
<1>6. \A v \in Call : v # w => \A what \in {"save", "hold"} :
                               <<v, what>> \in durable' <=> <<v, what>> \in durable
  BY <1>1
<1>7. pending' \in [Client -> SUBSET Written]
  BY <1>1, ServerFacts
<1>8. ASSUME ~lapsed
      PROVE  pending' = pending
  <2>1. ASSUME NEW c \in Client
        PROVE  pending[c] \ ({w} \X {"save", "hold"}) = pending[c]
    <3>1. SessionOf(c)
      BY <1>8 DEF PoolInv, Sound
    <3>2. session[c] # w
      BY <1>3, <3>1, CallFacts DEF SessionOf
    <3> QED
      BY <3>1, <3>2 DEF SessionOf
  <2>2. pending = [c \in Client |-> pending[c]]
    BY ServerFacts
  <2> QED
    BY <1>1, <2>1, <2>2
<1>9. op' \in [Call -> Kind \cup {"none"}] /\ \A v \in Call : v # w => op'[v] = op[v]
  BY <1>1, CallFacts
<1>10. durable' \subseteq Written
  BY <1>1, ServerFacts
<1> QED
  BY <1>1, <1>2, <1>3, <1>5, <1>6, <1>7, <1>8, <1>9, <1>10, AsideKeeps

LEMMA ReleaseKeeps ==
  ASSUME PoolInv, NEW w \in Call, Release(w)
  PROVE  PoolInv'
<1>1. /\ pc[w] \in {"release", "giveUp"} /\ releaseConnection(w)
      /\ pc' = [pc EXCEPT ![w] = IF @ = "release" THEN "done" ELSE "failed"]
      /\ UNCHANGED <<waiting, lent, server, op, lapsed>>
  BY DEF Release
<1>2. /\ idle' \in Seq(Client) /\ allocated' \in [Call -> Client \cup {None}]
      /\ allocated'[w] = None /\ \A v \in Call : v # w => allocated'[v] = allocated[v]
      /\ Apart' /\ OneKept'
  BY <1>1, ReleaseFacts
<1>3. /\ pc' \in [Call -> Pc] /\ \A v \in Call : v # w => pc'[v] = pc[v]
      /\ pc'[w] = IF pc[w] = "release" THEN "done" ELSE "failed"
  BY <1>1, CallFacts DEF Pc
<1>4. PoolTyped'
  BY <1>1, <1>2, <1>3 DEF PoolInv, PoolTyped, server
<1>5. ASSUME NEW v \in Call
      PROVE  CallOf(v)'
  <2>1. CASE v = w
    BY <1>1, <1>2, <2>1, CallFacts DEF CallOf, Statement
  <2>2. CASE v # w
    BY <1>1, <1>2, <1>3, <2>2, CallFacts DEF CallOf, Inside
  <2> QED
    BY <2>1, <2>2
<1>6. ASSUME ~lapsed'
      PROVE  Sound'
  <2>1. Sound /\ session' = session /\ pending' = pending /\ durable' = durable /\ op' = op
    BY <1>1, <1>6 DEF PoolInv, server
  <2>2. TransactionOf(w)'
    BY <1>1, <1>2, <1>3, <2>1 DEF Sound, TransactionOf, Inside
  <2>3. ASSUME NEW c \in Client, c = allocated[w]
        PROVE  SessionOf(c)'
    BY <1>1, <2>1, <2>3 DEF Sound, SessionOf, TransactionOf
  <2> QED
    BY <1>2, <1>3, <2>1, <2>2, <2>3, SoundKeeps
<1> QED
  BY <1>2, <1>4, <1>5, <1>6 DEF PoolInv

-----------------------------------------------------------------------------
(* The statements.                                                         *)

LEMMA AnswerKeeps ==
  ASSUME PoolInv, NEW w \in Call, NEW label \in Pc, pc[w] \in Statement, Answer(w, label),
         Inside(w) => Inside(w)',
         session' \in [Client -> Call \cup {None}], pending' \in [Client -> SUBSET Written],
         durable' \subseteq Written,
         ~lapsed =>
           /\ TransactionOf(w)'
           /\ \A c \in Client :
                /\ c # allocated[w] => session'[c] = session[c] /\ pending'[c] = pending[c]
                /\ c = allocated[w] => SessionOf(c)'
           /\ \A v \in Call : v # w => \A what \in {"save", "hold"} :
                                         <<v, what>> \in durable' <=> <<v, what>> \in durable
  PROVE  PoolInv'
<1>1. UNCHANGED <<waiting, allocated, op, lapsed>>
  BY DEF Answer
<1>2. /\ idle' \in Seq(Client) /\ lent' \in [Call -> Client \cup {None}] /\ pc' \in [Call -> Pc]
      /\ Apart' /\ OneKept' /\ \A v \in Call : CallOf(v)'
      /\ \A v \in Call : v # w => pc'[v] = pc[v]
  BY AnswerFacts
<1>3. PoolTyped'
  BY <1>1, <1>2 DEF PoolInv, PoolTyped
<1>4. ASSUME ~lapsed'
      PROVE  Sound'
  <2>1. Sound /\ ~lapsed
    BY <1>1, <1>4 DEF PoolInv
  <2> QED
    BY <1>1, <1>2, <2>1, SoundKeeps
<1> QED
  BY <1>2, <1>3, <1>4 DEF PoolInv

\* What an answer leaves as it is, for the call itself.
LEMMA AnsweredCall ==
  ASSUME PoolInv, NEW w \in Call, NEW label, Answer(w, label)
  PROVE  /\ Connection(w) \in Client
         /\ pc'[w] = label /\ allocated' = allocated /\ op' = op /\ lapsed' = lapsed
BY CallFacts, ConnectionFacts DEF Answer

LEMMA LookupKeeps ==
  ASSUME PoolInv, NEW w \in Call, Lookup(w)
  PROVE  PoolInv'
<1>1. PICK label \in {"failed", "update", "allocate"} :
        /\ pc[w] = "lookup" /\ Answer(w, label) /\ session' = session /\ pending' = pending
        /\ durable' = durable
  BY DEF Lookup, server
<1>2. /\ pc[w] \in Statement /\ label \in Pc /\ ~Inside(w)
      /\ pc'[w] = label /\ allocated' = allocated /\ op' = op
  BY <1>1, AnsweredCall DEF Statement, Pc, Inside
<1>3. ASSUME ~lapsed
      PROVE  /\ TransactionOf(w)'
             /\ \A c \in Client : SessionOf(c)'
  BY <1>1, <1>2, <1>3 DEF PoolInv, Sound, TransactionOf, SessionOf, Inside
<1> QED
  BY <1>1, <1>2, <1>3, ServerFacts, AnswerKeeps

LEMMA BeginKeeps ==
  ASSUME PoolInv, NEW w \in Call, Begin(w)
  PROVE  PoolInv'
<1>1. /\ pc[w] = "begin" /\ Answer(w, "save")
      /\ session' = [session EXCEPT ![Connection(w)] = IF @ = None THEN w ELSE @]
      /\ pending' = pending /\ durable' = durable
  BY DEF Begin
<1>2. /\ pc[w] \in Statement /\ "save" \in Pc /\ Inside(w)
      /\ Connection(w) \in Client /\ pc'[w] = "save" /\ allocated' = allocated /\ op' = op
  BY <1>1, AnsweredCall DEF Statement, Pc, Inside
<1>3. Inside(w)'
  BY <1>2 DEF Inside
<1>4. session' \in [Client -> Call \cup {None}]
  BY <1>1, <1>2, ServerFacts
<1>5. ASSUME ~lapsed
      PROVE  /\ TransactionOf(w)'
             /\ \A c \in Client :
                  /\ c # allocated[w] => session'[c] = session[c]
                  /\ c = allocated[w] => SessionOf(c)'
  <2>1. Sound /\ TransactionOf(w) /\ Connection(w) = allocated[w] /\ allocated[w] \in Client
    BY <1>1, <1>5, ConnectionFacts DEF PoolInv, Sound, Tagged
  <2>2. /\ session[allocated[w]] = None /\ pending[allocated[w]] = {}
        /\ <<w, "save">> \notin durable
    BY <1>1, <2>1 DEF Sound, TransactionOf, SessionOf
  <2>3. /\ session'[allocated[w]] = w
        /\ \A c \in Client : c # allocated[w] => session'[c] = session[c]
    BY <1>1, <2>1, <2>2, ServerFacts
  <2> QED
    BY <1>1, <1>2, <2>1, <2>2, <2>3, CallFacts DEF TransactionOf, SessionOf
<1> QED
  BY <1>1, <1>2, <1>3, <1>4, <1>5, ServerFacts, AnswerKeeps

\* A write keeps the server's types, inside a transaction and outside.
LEMMA WriteFacts ==
  ASSUME PoolInv, NEW w \in Call, NEW what \in {"save", "hold"}, Write(w, what), Connection(w) \in Client
  PROVE  /\ session' = session
         /\ pending' \in [Client -> SUBSET Written] /\ durable' \subseteq Written
         /\ IF session[Connection(w)] = None
            THEN durable' = durable \cup {<<w, what>>} /\ pending' = pending
            ELSE /\ durable' = durable
                 /\ pending'[Connection(w)] = pending[Connection(w)] \cup {<<w, what>>}
                 /\ \A c \in Client : c # Connection(w) => pending'[c] = pending[c]
<1>1. <<w, what>> \in Written
  BY DEF Written
<1> QED
  BY <1>1, ServerFacts DEF Write

LEMMA SaveKeeps ==
  ASSUME PoolInv, NEW w \in Call, Save(w)
  PROVE  PoolInv'
<1> DEFINE label == IF op[w] = "create" THEN "hold" ELSE "commit"
<1>1. pc[w] = "save" /\ Answer(w, label) /\ Write(w, "save")
  BY DEF Save
<1>2. /\ pc[w] \in Statement /\ label \in Pc /\ Inside(w)
      /\ Connection(w) \in Client /\ pc'[w] = label /\ allocated' = allocated /\ op' = op
  BY <1>1, AnsweredCall DEF Statement, Pc, Inside
<1>3. Inside(w)'
  BY <1>2 DEF Inside
<1>4. /\ session' = session
      /\ pending' \in [Client -> SUBSET Written] /\ durable' \subseteq Written
  BY <1>1, <1>2, WriteFacts
<1>5. ASSUME ~lapsed
      PROVE  /\ TransactionOf(w)' /\ durable' = durable
             /\ \A c \in Client :
                  /\ c # allocated[w] => pending'[c] = pending[c]
                  /\ c = allocated[w] => SessionOf(c)'
  <2>1. Sound /\ TransactionOf(w) /\ Connection(w) = allocated[w] /\ allocated[w] \in Client
    BY <1>1, <1>5, ConnectionFacts DEF PoolInv, Sound, Tagged
  <2>2. /\ session[allocated[w]] = w /\ w # None /\ <<w, "save">> \notin durable
        /\ SessionOf(allocated[w])
    BY <1>1, <2>1, CallFacts DEF Sound, TransactionOf
  <2>3. /\ durable' = durable
        /\ pending'[allocated[w]] = pending[allocated[w]] \cup {<<w, "save">>}
        /\ \A c \in Client : c # allocated[w] => pending'[c] = pending[c]
    BY <1>1, <1>2, <2>1, <2>2, WriteFacts
  <2>4. TransactionOf(w)'
    BY <1>2, <1>4, <2>1, <2>2, <2>3, CallFacts DEF TransactionOf
  <2>5. SessionOf(allocated[w])'
    BY <1>2, <1>4, <2>2, <2>3 DEF SessionOf
  <2> QED
    BY <2>3, <2>4, <2>5, <1>2
<1> QED
  BY <1>1, <1>2, <1>3, <1>4, <1>5, ServerFacts, AnswerKeeps

LEMMA HoldKeeps ==
  ASSUME PoolInv, NEW w \in Call, Hold(w)
  PROVE  PoolInv'
<1>1. PICK label \in {"commit", "rollback"} :
        /\ pc[w] = "hold" /\ Answer(w, label)
        /\ IF label = "commit" THEN Write(w, "hold") ELSE UNCHANGED server
  BY DEF Hold
<1>2. /\ pc[w] \in Statement /\ label \in Pc /\ Inside(w)
      /\ Connection(w) \in Client /\ pc'[w] = label /\ allocated' = allocated /\ op' = op
  BY <1>1, AnsweredCall DEF Statement, Pc, Inside
<1>3. Inside(w)'
  BY <1>2 DEF Inside
<1>4. /\ session' = session
      /\ pending' \in [Client -> SUBSET Written] /\ durable' \subseteq Written
  <2>1. CASE label = "commit"
    BY <1>1, <1>2, <2>1, WriteFacts
  <2>2. CASE label = "rollback"
    BY <1>1, <2>2, ServerFacts DEF server
  <2> QED
    BY <2>1, <2>2
<1>5. ASSUME ~lapsed
      PROVE  /\ TransactionOf(w)' /\ pending' = pending
             /\ durable' = durable \/ durable' = durable \cup {<<w, "hold">>}
             /\ \A c \in Client : SessionOf(c)'
  <2>1. Sound /\ TransactionOf(w)
    BY <1>5 DEF PoolInv, Sound
  <2>2. session[Connection(w)] = None
    <3>1. Connection(w) = lent[w] /\ lent[w] # None
      BY <1>1, <1>2, CallFacts DEF Connection, Tagged
    <3> QED
      BY <2>1, <3>1, LentSession
  <2>3. pending' = pending /\ durable' = IF label = "commit" THEN durable \cup {<<w, "hold">>} ELSE durable
    BY <1>1, <1>2, <2>2, WriteFacts DEF server
  <2>4. <<w, "save">> \in durable' <=> <<w, "save">> \in durable
    BY <2>3
  <2>5. TransactionOf(w)'
    BY <1>1, <1>2, <1>4, <2>1, <2>3, <2>4 DEF TransactionOf, Inside
  <2>6. \A c \in Client : SessionOf(c)'
    BY <1>2, <1>4, <2>1, <2>3 DEF Sound, SessionOf
  <2> QED
    BY <2>3, <2>5, <2>6
<1>6. ~lapsed => \A v \in Call : v # w => \A what \in {"save", "hold"} :
                   <<v, what>> \in durable' <=> <<v, what>> \in durable
  BY <1>5
<1> QED
  BY <1>1, <1>2, <1>3, <1>4, <1>5, <1>6, ServerFacts, AnswerKeeps

LEMMA UpdateKeeps ==
  ASSUME PoolInv, NEW w \in Call, Update(w)
  PROVE  PoolInv'
<1>1. PICK label \in {"done", "failed"} :
        /\ pc[w] = "update" /\ Answer(w, label)
        /\ IF label = "done" THEN Write(w, "save") ELSE UNCHANGED server
  BY DEF Update
<1>2. /\ pc[w] \in Statement /\ label \in Pc /\ ~Inside(w)
      /\ Connection(w) \in Client /\ pc'[w] = label /\ allocated' = allocated /\ op' = op
  BY <1>1, AnsweredCall DEF Statement, Pc, Inside
<1>3. ~Inside(w)'
  BY <1>1, <1>2 DEF Inside
<1>4. /\ session' = session
      /\ pending' \in [Client -> SUBSET Written] /\ durable' \subseteq Written
  <2>1. CASE label = "done"
    BY <1>1, <1>2, <2>1, WriteFacts
  <2>2. CASE label = "failed"
    BY <1>1, <2>2, ServerFacts DEF server
  <2> QED
    BY <2>1, <2>2
<1>5. ASSUME ~lapsed
      PROVE  /\ TransactionOf(w)' /\ pending' = pending
             /\ durable' = durable \/ durable' = durable \cup {<<w, "save">>}
             /\ \A c \in Client : SessionOf(c)'
  <2>1. Sound /\ TransactionOf(w)
    BY <1>5 DEF PoolInv, Sound
  <2>2. session[Connection(w)] = None
    <3>1. Connection(w) = lent[w] /\ lent[w] # None
      BY <1>1, <1>2, CallFacts DEF Connection, Tagged
    <3> QED
      BY <2>1, <3>1, LentSession
  <2>3. pending' = pending /\ durable' = IF label = "done" THEN durable \cup {<<w, "save">>} ELSE durable
    BY <1>1, <1>2, <2>2, WriteFacts DEF server
  <2>4. <<w, "save">> \notin durable
    BY <1>1, <2>1 DEF TransactionOf
  <2>5. op[w] # "create"
    BY <1>1, <2>1 DEF TransactionOf
  <2>6. TransactionOf(w)'
    BY <1>1, <1>2, <1>3, <2>3, <2>4, <2>5 DEF TransactionOf
  <2>7. \A c \in Client : SessionOf(c)'
    BY <1>2, <1>4, <2>1, <2>3 DEF Sound, SessionOf
  <2> QED
    BY <2>3, <2>6, <2>7
<1>6. ~lapsed => \A v \in Call : v # w => \A what \in {"save", "hold"} :
                   <<v, what>> \in durable' <=> <<v, what>> \in durable
  BY <1>5
<1> QED
  BY <1>1, <1>2, <1>3, <1>4, <1>5, <1>6, ServerFacts, AnswerKeeps

LEMMA CloseFacts ==
  ASSUME PoolInv, NEW c \in Client, CloseTransaction(c)
  PROVE  /\ session' \in [Client -> Call \cup {None}] /\ pending' \in [Client -> SUBSET Written]
         /\ session'[c] = None /\ pending'[c] = {}
         /\ \A d \in Client : d # c => session'[d] = session[d] /\ pending'[d] = pending[d]
BY ServerFacts DEF CloseTransaction

LEMMA CommitKeeps ==
  ASSUME PoolInv, NEW w \in Call, Commit(w)
  PROVE  PoolInv'
<1>1. PICK label \in {"release", "rollback"} :
        /\ pc[w] = "commit" /\ Answer(w, label) /\ CloseTransaction(Connection(w))
        /\ durable' = IF label = "release" THEN durable \cup pending[Connection(w)] ELSE durable
  BY DEF Commit
<1>2. /\ pc[w] \in Statement /\ label \in Pc /\ Inside(w)
      /\ Connection(w) \in Client /\ pc'[w] = label /\ allocated' = allocated /\ op' = op
  BY <1>1, AnsweredCall DEF Statement, Pc, Inside
<1>3. Inside(w)'
  BY <1>2 DEF Inside
<1>4. /\ session' \in [Client -> Call \cup {None}] /\ pending' \in [Client -> SUBSET Written]
      /\ session'[Connection(w)] = None /\ pending'[Connection(w)] = {}
      /\ \A d \in Client : d # Connection(w) => session'[d] = session[d] /\ pending'[d] = pending[d]
  BY <1>1, <1>2, CloseFacts
<1>5. durable' \subseteq Written
  BY <1>1, <1>2, ServerFacts
<1>6. ASSUME ~lapsed
      PROVE  /\ TransactionOf(w)'
             /\ \A c \in Client :
                  /\ c # allocated[w] => session'[c] = session[c] /\ pending'[c] = pending[c]
                  /\ c = allocated[w] => SessionOf(c)'
             /\ durable' \subseteq durable \cup {<<w, "save">>} /\ durable \subseteq durable'
  <2>1. Sound /\ TransactionOf(w) /\ Connection(w) = allocated[w] /\ allocated[w] \in Client
    BY <1>1, <1>6, ConnectionFacts DEF PoolInv, Sound, Tagged
  <2>2. pending[allocated[w]] = {<<w, "save">>}
    <3>1. session[allocated[w]] = w /\ <<w, "save">> \in pending[allocated[w]] /\ w # None
      BY <1>1, <2>1, CallFacts DEF TransactionOf
    <3>2. pending[allocated[w]] \subseteq {<<w, "save">>}
      BY <2>1, <3>1 DEF Sound, SessionOf
    <3> QED
      BY <3>1, <3>2
  <2>3. /\ durable' = IF label = "release" THEN durable \cup {<<w, "save">>} ELSE durable
        /\ <<w, "save">> \notin durable
    BY <1>1, <2>1, <2>2 DEF TransactionOf
  <2>4. TransactionOf(w)'
    <3>1. op[w] = "create" => <<w, "hold">> \in durable
      BY <1>1, <2>1 DEF TransactionOf
    <3> QED
      BY <1>2, <1>4, <2>1, <2>3, <3>1, CallFacts DEF TransactionOf, Inside
  <2>5. SessionOf(allocated[w])'
    BY <1>2, <1>4, <2>1 DEF SessionOf
  <2> QED
    BY <1>2, <1>4, <2>1, <2>3, <2>4, <2>5
<1>7. ~lapsed => \A v \in Call : v # w => \A what \in {"save", "hold"} :
                   <<v, what>> \in durable' <=> <<v, what>> \in durable
  BY <1>6
<1> QED
  BY <1>1, <1>2, <1>3, <1>4, <1>5, <1>6, <1>7, AnswerKeeps

LEMMA RollbackKeeps ==
  ASSUME PoolInv, NEW w \in Call, Rollback(w)
  PROVE  PoolInv'
<1>1. /\ pc[w] = "rollback" /\ Answer(w, "giveUp") /\ CloseTransaction(Connection(w))
      /\ durable' = durable
  BY DEF Rollback
<1>2. /\ pc[w] \in Statement /\ "giveUp" \in Pc /\ Inside(w)
      /\ Connection(w) \in Client /\ pc'[w] = "giveUp" /\ allocated' = allocated /\ op' = op
  BY <1>1, AnsweredCall DEF Statement, Pc, Inside
<1>3. Inside(w)'
  BY <1>2 DEF Inside
<1>4. /\ session' \in [Client -> Call \cup {None}] /\ pending' \in [Client -> SUBSET Written]
      /\ session'[Connection(w)] = None /\ pending'[Connection(w)] = {}
      /\ \A d \in Client : d # Connection(w) => session'[d] = session[d] /\ pending'[d] = pending[d]
  BY <1>1, <1>2, CloseFacts
<1>5. ASSUME ~lapsed
      PROVE  /\ TransactionOf(w)'
             /\ \A c \in Client :
                  /\ c # allocated[w] => session'[c] = session[c] /\ pending'[c] = pending[c]
                  /\ c = allocated[w] => SessionOf(c)'
  <2>1. Sound /\ TransactionOf(w) /\ Connection(w) = allocated[w] /\ allocated[w] \in Client
    BY <1>1, <1>5, ConnectionFacts DEF PoolInv, Sound, Tagged
  <2>2. TransactionOf(w)'
    BY <1>1, <1>2, <1>4, <2>1, CallFacts DEF TransactionOf, Inside
  <2>3. SessionOf(allocated[w])'
    BY <1>2, <1>4, <2>1 DEF SessionOf
  <2> QED
    BY <1>2, <1>4, <2>1, <2>2, <2>3
<1> QED
  BY <1>1, <1>2, <1>3, <1>4, <1>5, ServerFacts, AnswerKeeps

-----------------------------------------------------------------------------
(* The invariant holds, and what follows from it.                          *)

LEMMA InitPoolInv == Init => PoolInv
<1> SUFFICES ASSUME Init
             PROVE  PoolInv
  OBVIOUS
<1>1. Dropped \in Client
  BY PoolAssumption DEF Dropped
<1>2. idle \in Seq(Client) /\ IsInjective(idle) /\ Pooled = Client \ {Dropped}
  <2>1. IsFiniteSet(Client \ {Dropped})
    BY PoolAssumption, FS_RemoveElement
  <2>2. idle \in Seq(Client \ {Dropped}) /\ IsInjective(idle) /\ ToSet(idle) = Client \ {Dropped}
    BY <2>1, SetToSeqSet DEF Init
  <2> QED
    BY <2>2, SeqDef DEF Pooled
<1>3. /\ waiting = <<>> /\ allocated = [w \in Call |-> None] /\ lent = [w \in Call |-> None]
      /\ session = [c \in Client |-> None] /\ pending = [c \in Client |-> {}] /\ durable = {}
      /\ op = [w \in Call |-> "none"] /\ pc = [w \in Call |-> "idle"] /\ lapsed = FALSE
  BY DEF Init
<1>4. PoolTyped
  <2>1. waiting \in Seq(Call) /\ durable \subseteq Written
    BY <1>3
  <2>2. /\ pc \in [Call -> Pc] /\ op \in [Call -> Kind \cup {"none"}]
        /\ pending \in [Client -> SUBSET Written]
    BY <1>3 DEF Pc
  <2> QED
    BY <1>2, <1>3, <2>1, <2>2 DEF PoolTyped
<1>5. Apart
  BY <1>2, <1>3, PoolAssumption DEF Apart, IsInjective
<1>6. OneKept
  BY <1>1, <1>2, <1>3, PoolAssumption DEF OneKept, InUse
<1>7. \A w \in Call : CallOf(w)
  BY <1>3 DEF CallOf, Contains
<1>8. Sound
  BY <1>3 DEF Sound, TransactionOf, SessionOf, Inside
<1> QED
  BY <1>4, <1>5, <1>6, <1>7, <1>8 DEF PoolInv

LEMMA NextPoolInv == PoolInv /\ [Next]_vars => PoolInv'
<1> SUFFICES ASSUME PoolInv, [Next]_vars
             PROVE  PoolInv'
  OBVIOUS
<1>1. ASSUME NEW w \in Call, Start(w) \/ Step(w) \/ ReleaseTimeout(w)
      PROVE  PoolInv'
  BY <1>1, StartKeeps, ConnectKeeps, LookupKeeps, UpdateKeeps, BeginKeeps, RefuseKeeps, SaveKeeps, HoldKeeps,
     CommitKeeps, RollbackKeeps, ReleaseKeeps, ReturnKeeps, ReleaseTimeoutKeeps DEF Step
<1>2. CASE UNCHANGED vars
  <2>1. PoolTyped' /\ Apart' /\ OneKept'
    BY <1>2 DEF vars, server, PoolInv, PoolTyped, Apart, Pooled, OneKept, InUse
  <2>2. (\A w \in Call : CallOf(w)') /\ (~lapsed' => Sound')
    BY <1>2 DEF vars, server, PoolInv, CallOf, Inside, Sound, TransactionOf, SessionOf
  <2> QED
    BY <2>1, <2>2 DEF PoolInv
<1> QED
  BY <1>1, <1>2, ServeKeeps DEF Next

LEMMA PoolHolds == Spec => []PoolInv
BY InitPoolInv, NextPoolInv, PTL DEF Spec

\* A client that is in use is in one call's hands or once in the pool.
LEMMA OnePlace ==
  ASSUME PoolInv, NEW c \in Client
  PROVE  /\ Cardinality(Holders(c)) + Cardinality(Places(c)) <= 1
         /\ Holders(c) # {} \/ Places(c) # {} <=> InUse(c)
<1>1. Holders(c) # {} \/ Places(c) # {} <=> InUse(c)
  BY DEF Holders, Places, InUse, Pooled, ToSet
<1>2. \A w, v \in Holders(c) : w = v
  BY CallFacts DEF PoolInv, Apart, Holders
<1>3. \A i, j \in Places(c) : i = j
  BY DEF PoolInv, Apart, IsInjective, Places
<1>4. Holders(c) = {} \/ Places(c) = {}
  <2>1. c \in Pooled => Holders(c) = {}
    BY DEF PoolInv, Apart, Holders
  <2>2. c \notin Pooled => Places(c) = {}
    BY DEF Places, Pooled, ToSet
  <2> QED
    BY <2>1, <2>2
<1>5. Cardinality(Holders(c)) = IF Holders(c) = {} THEN 0 ELSE 1
  <2>1. Holders(c) # {} => \E w : Holders(c) = {w}
    BY <1>2
  <2> QED
    BY <2>1, FS_EmptySet, FS_Singleton
<1>6. Cardinality(Places(c)) = IF Places(c) = {} THEN 0 ELSE 1
  <2>1. Places(c) # {} => \E i : Places(c) = {i}
    BY <1>3
  <2> QED
    BY <2>1, FS_EmptySet, FS_Singleton
<1> QED
  BY <1>1, <1>4, <1>5, <1>6

\* allocateConnection, releaseConnection, the timer of RELEASE_CONNECTION_TIMEOUT and
\* pool.query never hand one client to two calls, nor lose one, but for the client that
\* the constructor of PostgresqlProvider keeps.
THEOREM NoClientLost == Spec => []ClientsKept
<1>1. PoolInv => ClientsKept
  <2> SUFFICES ASSUME PoolInv
               PROVE  Cardinality({c \in Client : Holders(c) # {} \/ Places(c) # {}})
                        = Cardinality(Client) - 1
    BY OnePlace DEF ClientsKept
  <2>1. PICK kept \in Client : \A c \in Client : InUse(c) <=> c # kept
    BY DEF PoolInv, OneKept
  <2>2. {c \in Client : Holders(c) # {} \/ Places(c) # {}} = Client \ {kept}
    BY <2>1, OnePlace
  <2> QED
    BY <2>2, FS_RemoveElement, PoolAssumption
<1> QED
  BY <1>1, PoolHolds, PTL

\* While no timer has taken a client away, every statement that a consistent operation
\* gives its transaction id runs in the transaction of its own BEGIN, and no other.
THEOREM TransactionsApart == Spec => []OwnTransactions
<1>1. PoolInv => OwnTransactions
  BY DEF PoolInv, Sound, SessionOf, OwnTransactions
<1> QED
  BY <1>1, PoolHolds, PTL

\* While no timer has taken a client away, a call that commitConsistentOperation reports
\* as done has all its rows stored, and one that was rolled back has none.
THEOREM AnswersTrue == Spec => []Answered
<1>1. PoolInv => Answered
  BY DEF PoolInv, Sound, TransactionOf, Answered
<1> QED
  BY <1>1, PoolHolds, PTL
=============================================================================
