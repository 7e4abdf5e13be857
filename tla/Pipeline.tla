------------------------------ MODULE Pipeline ------------------------------
(***************************************************************************)
(* The two applications around the services: the handlers of the API, the  *)
(* timer of a created transaction, the Bull queues "account" and           *)
(* "transaction" in Redis, their processors, and what is lost when an      *)
(* application stops.                                                      *)
(*                                                                         *)
(* The services are LifeCycle here: a call reads a copy of its row and     *)
(* ends with a save or without an effect.  createAccount is one step, for  *)
(* nothing here can tell its inside.  Redis and PostgreSQL outlive both    *)
(* applications; timers, calls and jobs in a processor's hand do not.      *)
(***************************************************************************)
EXTENDS Naturals, FiniteSets, SequencesExt

CONSTANTS
  TrxId,           \* payments that clients create
  Request,         \* openings that clients ask for
  ClientOps,       \* operations that clients call by hand
  Client,          \* clients with a call by hand in progress, one each
  MaxClientCalls,  \* bound on the calls by hand
  MaxTroubles,     \* bound on stops of an application, lost answers and job locks, pauses
  NoId             \* stands for an undefined id

MaxStalledCount == 1  \* Bull's default

App == {"api", "processing"}
QueueName == {"account", "transaction"}
Job == TrxId \cup Request

ASSUME PipelineAssumption ==
  /\ TrxId \cap Request = {}
  /\ NoId \notin Job

JobOf(q) == IF q = "account" THEN Request ELSE TrxId

Maker(i) == <<"make", i>>   \* POST transactions/create
Timer(i) == <<"timer", i>>  \* the callback of its setTimeout
Processor == <<"job", NoId>>
Caller == ({"make", "timer"} \X TrxId) \cup {Processor} \cup ({"client"} \X Client)
ApiCaller == Caller \ {Processor}

VARIABLES
  status, visit, settled,  \* LifeCycle
  up,       \* which applications run
  timer,    \* where makeTransaction and its callback are, per payment
  waiting,  \* jobs of each queue that wait, in order
  active,   \* jobs of each queue that were taken and not completed
  hand,     \* the job the processor of each queue is at, NoId for none
  phase,    \* where that processor is
  paused,   \* queues that are paused
  stalls,   \* how often Bull found a job stalled
  opened,   \* history: accounts opened for a request
  asked,    \* history: requests for an account that were answered 201
  trail,    \* history: calls by hand that had an effect, and what was left behind
  budget    \* what is left of MaxClientCalls and MaxTroubles

queues == <<waiting, active, hand, phase, paused, stalls>>
history == <<opened, asked, trail>>
vars == <<status, visit, settled, up, timer, queues, history, budget>>

LC == INSTANCE LifeCycle WITH Exclusive <- FALSE

Init ==
  /\ LC!Init
  /\ up = App
  /\ timer = [i \in TrxId |-> "none"]
  /\ waiting = [q \in QueueName |-> <<>>]
  /\ active = [q \in QueueName |-> {}]
  /\ hand = [q \in QueueName |-> NoId]
  /\ phase = [q \in QueueName |-> "idle"]
  /\ paused = {}
  /\ stalls = [j \in Job |-> 0]
  /\ opened = [r \in Request |-> 0]
  /\ asked = {}
  /\ trail = [j \in Job |-> {}]
  /\ budget = [calls |-> MaxClientCalls, troubles |-> MaxTroubles]

Note(j, event) == trail' = [trail EXCEPT ![j] = @ \cup {event}]
Spend(what) == budget[what] > 0 /\ budget' = [budget EXCEPT ![what] = @ - 1]

\* queue.add: a job is new once, its queue may be paused.
Add(q, j) == waiting' = [waiting EXCEPT ![q] = Append(@, j)]

-----------------------------------------------------------------------------
(* The API.                                                                *)

MakeTransaction(i) ==
  /\ "api" \in up
  /\ timer[i] = "none"
  /\ LC!CallCreate(Maker(i), i)
  /\ UNCHANGED <<up, timer, queues, history, budget>>

\* COMMIT is done; the client on the connection is released, the use case returns.
Made(i) ==
  /\ LC!Succeed(Maker(i))
  /\ timer' = [timer EXCEPT ![i] = "made"]
  /\ UNCHANGED <<up, queues, history, budget>>

\* The connection is lost with the answer to COMMIT: the row is there, the client is
\* given an error and the timer is not set.
MadeUnseen(i) ==
  /\ LC!Succeed(Maker(i))
  /\ Note(i, "unanswered")
  /\ Spend("troubles")
  /\ UNCHANGED <<up, timer, queues, opened, asked>>

NotMade(i) ==
  /\ ~LC!Idle(Maker(i))
  /\ LC!Drop({Maker(i)})
  /\ UNCHANGED <<up, timer, queues, history, budget>>

\* setTimeout, and 201 with the id.
Arm(i) ==
  /\ timer[i] = "made"
  /\ timer' = [timer EXCEPT ![i] = "armed"]
  /\ UNCHANGED <<status, visit, settled, up, queues, history, budget>>

\* Mutant: the job is put in the queue before the transaction is sent.
FireAddsFirst(i) ==
  /\ timer[i] = "armed"
  /\ timer' = [timer EXCEPT ![i] = "sending"]
  /\ LC!Call(Timer(i), "send", i)
  /\ Add("transaction", i)
  /\ UNCHANGED <<up, active, hand, phase, paused, stalls, history, budget>>

Fire(i) ==
  /\ timer[i] = "armed"
  /\ timer' = [timer EXCEPT ![i] = "sending"]
  /\ LC!Call(Timer(i), "send", i)
  /\ UNCHANGED <<up, queues, history, budget>>

Sent(i) ==
  /\ LC!Succeed(Timer(i))
  /\ timer' = [timer EXCEPT ![i] = "adding"]
  /\ UNCHANGED <<up, queues, history, budget>>

\* The same of the UPDATE that sends: the result is an error, which the callback drops.
SentUnseen(i) ==
  /\ LC!Succeed(Timer(i))
  /\ timer' = [timer EXCEPT ![i] = "none"]
  /\ Note(i, "unanswered")
  /\ Spend("troubles")
  /\ UNCHANGED <<up, queues, opened, asked>>

\* The result is an error, which the callback drops.  "unsent" when it was not for
\* the status that the row had already.
NotSent(i) ==
  /\ timer[i] = "sending"
  /\ LC!Drop({Timer(i)})
  /\ timer' = [timer EXCEPT ![i] = "none"]
  /\ IF visit[Timer(i)].copy \in {"absent", "initiated"} THEN Note(i, "unsent") ELSE UNCHANGED trail
  /\ UNCHANGED <<up, queues, opened, asked, budget>>

\* Mutant: queue.add is repeated when its answer does not come.
AddJobTwice(i) ==
  /\ timer[i] = "adding"
  /\ waiting' = [waiting EXCEPT !["transaction"] = @ \o <<i, i>>]
  /\ timer' = [timer EXCEPT ![i] = "none"]
  /\ UNCHANGED <<status, visit, settled, up, active, hand, phase, paused, stalls, history, budget>>

\* Mutant: the test of isSuccess is the wrong way round.
AddJobNever(i) ==
  /\ timer[i] = "adding"
  /\ timer' = [timer EXCEPT ![i] = "none"]
  /\ UNCHANGED <<status, visit, settled, up, queues, history, budget>>

AddJob(i) ==
  /\ timer[i] = "adding"
  /\ Add("transaction", i)
  /\ timer' = [timer EXCEPT ![i] = "none"]
  /\ UNCHANGED <<status, visit, settled, up, active, hand, phase, paused, stalls, history, budget>>

\* POST transactions/cancel, send and process: the answer to create gave the id.
ByHand(c, o, i) ==
  /\ "api" \in up
  /\ status[i] # "absent"
  /\ Spend("calls")
  /\ LC!Call(<<"client", c>>, o, i)
  /\ UNCHANGED <<up, timer, queues, history>>

ByHandDone(c) ==
  LET v == visit[<<"client", c>>] IN
  /\ LC!Succeed(<<"client", c>>)
  /\ Note(v.id, v.op)
  /\ UNCHANGED <<up, timer, queues, opened, asked, budget>>

\* The handler throws the error of the result to the client.
ByHandRefused(c) ==
  /\ ~LC!Idle(<<"client", c>>)
  /\ LC!Drop({<<"client", c>>})
  /\ UNCHANGED <<up, timer, queues, history, budget>>

\* POST accounts.
OpenAccount(r) ==
  /\ "api" \in up
  /\ r \notin asked
  /\ asked' = asked \cup {r}
  /\ Add("account", r)
  /\ UNCHANGED <<status, visit, settled, up, timer, active, hand, phase, paused, stalls,
                 opened, trail, budget>>

\* The look-ups and retries of any call in progress, while its application runs.
Lookup(c) ==
  /\ LC!Read(c) \/ LC!Restart(c) \/ LC!GiveUp(c)
  /\ UNCHANGED <<up, timer, queues, history, budget>>

-----------------------------------------------------------------------------
(* The queues and the processors.  One job of a queue at a time.           *)

Take(q) ==
  /\ "processing" \in up /\ q \notin paused
  /\ phase[q] = "idle" /\ waiting[q] # <<>>
  /\ LET j == Head(waiting[q]) IN
     /\ waiting' = [waiting EXCEPT ![q] = Tail(@)]
     /\ active' = [active EXCEPT ![q] = @ \cup {j}]
     /\ hand' = [hand EXCEPT ![q] = j]
     /\ phase' = [phase EXCEPT ![q] = "running"]
     /\ IF q = "transaction" THEN LC!Call(Processor, "process", j)
        ELSE UNCHANGED <<status, visit, settled>>
  /\ UNCHANGED <<up, timer, paused, stalls, history, budget>>

HandlerReturns(q) ==
  /\ phase' = [phase EXCEPT ![q] = "returned"]
  /\ UNCHANGED <<up, timer, waiting, active, hand, paused, stalls, asked, budget>>

Processed ==
  /\ LC!Succeed(Processor)
  /\ HandlerReturns("transaction")
  /\ UNCHANGED <<opened, trail>>

\* The error of the result is logged and the handler returns all the same.
\* "refused" when it was not for the status that the row had already.
NotProcessed ==
  LET v == visit[Processor] IN
  /\ phase["transaction"] = "running"
  /\ LC!Drop({Processor})
  /\ HandlerReturns("transaction")
  /\ IF v.op = "fail" \/ v.copy \in {"absent", "pending"}
     THEN Note(v.id, "refused") ELSE UNCHANGED trail
  /\ UNCHANGED opened

\* Mutant: the handler looks for success in getResult(), which is undefined for an
\* opening, and executes the use case again.
OpenedUnseen ==
  /\ phase["account"] = "running"
  /\ opened' = [opened EXCEPT ![hand["account"]] = @ + 1]
  /\ UNCHANGED <<status, visit, settled, up, timer, queues, asked, trail, budget>>

Opened ==
  /\ phase["account"] = "running"
  /\ HandlerReturns("account")
  /\ opened' = [opened EXCEPT ![hand["account"]] = @ + 1]
  /\ UNCHANGED <<status, visit, settled, trail>>

NotOpened ==
  /\ phase["account"] = "running"
  /\ HandlerReturns("account")
  /\ Note(hand["account"], "refused")
  /\ UNCHANGED <<status, visit, settled, opened>>

\* Mutant: the handler does not await the use case.
ReturnedEarly(q) == phase[q] \in {"running", "returned"}
Returned(q) == phase[q] = "returned"

\* The job is completed, unless it has lost its lock and is elsewhere by now.
Complete(q) ==
  /\ Returned(q)
  /\ active' = [active EXCEPT ![q] = @ \ {hand[q]}]
  /\ hand' = [hand EXCEPT ![q] = NoId]
  /\ phase' = [phase EXCEPT ![q] = "idle"]
  /\ UNCHANGED <<status, visit, settled, up, timer, waiting, paused, stalls, history, budget>>

\* moveStalledJobsToWait: an active job whose lock has run out goes to the front of
\* its queue once, and to the failed jobs the next time.
Stall(q, j) ==
  /\ "processing" \in up
  /\ j \in active[q]
  /\ active' = [active EXCEPT ![q] = @ \ {j}]
  /\ stalls' = [stalls EXCEPT ![j] = @ + 1]
  /\ IF stalls[j] < MaxStalledCount
     THEN waiting' = [waiting EXCEPT ![q] = <<j>> \o @] /\ UNCHANGED trail
     ELSE Note(j, "stalledTwice") /\ UNCHANGED waiting
  /\ UNCHANGED <<status, visit, settled, up, timer, hand, phase, paused, opened, asked>>

\* The processor that had the job is gone with its application.
Orphaned(q, j) == Stall(q, j) /\ hand[q] # j /\ UNCHANGED budget

\* The application runs, but did not renew the lock of the job it is at.
LockLost(q, j) == Stall(q, j) /\ hand[q] = j /\ Spend("troubles")

\* POST processing/<queue>/pause and resume.
Pause(q) ==
  /\ "processing" \in up
  /\ q \notin paused
  /\ paused' = paused \cup {q}
  /\ Spend("troubles")
  /\ UNCHANGED <<status, visit, settled, up, timer, waiting, active, hand, phase, stalls, history>>

Resume(q) ==
  /\ "processing" \in up
  /\ q \in paused
  /\ paused' = paused \ {q}
  /\ UNCHANGED <<status, visit, settled, up, timer, waiting, active, hand, phase, stalls,
                 history, budget>>

-----------------------------------------------------------------------------
(* Applications stop, and are started again by hand.                       *)

\* Besides a kill or a deployment: queue.add rejects in the callback of the timer,
\* where nobody catches it.
ApiStops ==
  /\ "api" \in up
  /\ Spend("troubles")
  /\ up' = up \ {"api"}
  /\ LC!Drop(ApiCaller)
  /\ trail' = [j \in Job |-> IF j \in TrxId /\ timer[j] # "none"
                             THEN trail[j] \cup {"timerLost"} ELSE trail[j]]
  /\ timer' = [i \in TrxId |-> "none"]
  /\ UNCHANGED <<queues, opened, asked>>

\* Besides those: consolidateFee leaves the promise of its error handler behind, and
\* an error it ends with is a rejection that nobody handles.
ProcessingStops ==
  /\ "processing" \in up
  /\ Spend("troubles")
  /\ up' = up \ {"processing"}
  /\ LC!Drop({Processor})
  /\ hand' = [q \in QueueName |-> NoId]
  /\ phase' = [q \in QueueName |-> "idle"]
  /\ UNCHANGED <<timer, waiting, active, paused, stalls, history>>

ApiStarts ==
  /\ "api" \notin up
  /\ up' = up \cup {"api"}
  /\ UNCHANGED <<status, visit, settled, timer, queues, history, budget>>

ProcessingStarts ==
  /\ "processing" \notin up
  /\ up' = up \cup {"processing"}
  /\ UNCHANGED <<status, visit, settled, timer, queues, history, budget>>

-----------------------------------------------------------------------------
Next ==
  \/ \E i \in TrxId :
       \/ MakeTransaction(i) \/ Made(i) \/ MadeUnseen(i) \/ NotMade(i)
       \/ Arm(i) \/ Fire(i) \/ Sent(i) \/ SentUnseen(i) \/ NotSent(i) \/ AddJob(i)
  \/ \E c \in Client :
       \/ \E o \in ClientOps, i \in TrxId : ByHand(c, o, i)
       \/ ByHandDone(c) \/ ByHandRefused(c)
  \/ \E r \in Request : OpenAccount(r)
  \/ \E c \in Caller : Lookup(c)
  \/ Processed \/ NotProcessed \/ Opened \/ NotOpened
  \/ \E q \in QueueName :
       \/ Take(q) \/ Complete(q) \/ Pause(q) \/ Resume(q)
       \/ \E j \in JobOf(q) : Orphaned(q, j) \/ LockLost(q, j)
  \/ ApiStops \/ ProcessingStops \/ ApiStarts \/ ProcessingStarts

Spec == Init /\ [][Next]_vars

\* The event loop of an application that runs goes on: timers fire, every call
\* returns (CallsReturn of LedgerServices), Bull takes jobs, completes them and
\* looks for stalled ones.  Nobody has to start an application or resume a queue.
FairSpec ==
  /\ Spec
  /\ \A i \in TrxId :
       /\ WF_vars(Arm(i)) /\ WF_vars(Fire(i)) /\ WF_vars(AddJob(i))
       /\ WF_vars(Sent(i) \/ NotSent(i))
  /\ WF_vars(Processed \/ NotProcessed) /\ WF_vars(Opened \/ NotOpened)
  /\ \A q \in QueueName :
       /\ WF_vars(Take(q)) /\ WF_vars(Complete(q))
       /\ \A j \in JobOf(q) : WF_vars(Orphaned(q, j))
-----------------------------------------------------------------------------
(* What the pipeline promises.                                             *)

\* Where everything is.  A job waits in one place of one queue, and one that waits
\* is not active; a processor at work has a job.
TypeOK ==
  /\ LC!TypeOK
  /\ up \subseteq App /\ paused \subseteq QueueName
  /\ timer \in [TrxId -> {"none", "made", "armed", "sending", "adding"}]
  /\ \A q \in QueueName :
       /\ IsInjective(waiting[q])
       /\ ToSet(waiting[q]) \cup active[q] \subseteq JobOf(q)
       /\ ToSet(waiting[q]) \cap active[q] = {}
       /\ hand[q] \in JobOf(q) \cup {NoId}
       /\ phase[q] \in {"idle", "running", "returned"}
       /\ phase[q] = "idle" <=> hand[q] = NoId
  /\ stalls \in [Job -> 0..MaxStalledCount + 1]

\* Something is under way that will process the payment.
HasJob(q, j) ==
  \/ j \in ToSet(waiting[q]) \cup active[q]
  \/ hand[q] = j /\ phase[q] = "running"
Carried(i) == timer[i] # "none" \/ HasJob("transaction", i)

\* What clients do by hand, and the ways to leave a payment or a request behind.
ByHandOps == {"cancel", "send", "process", "fail"}
LeftBehind == {"send", "timerLost", "unsent", "unanswered", "refused", "stalledTwice"}

\* A pending payment, whose hold nothing but its processing releases, has a job, or
\* is being processed, or was left behind in a way that is on record: there is no
\* further interleaving of client calls, timer, queue and crashes that strands it.
PendingIsCarried ==
  \A i \in TrxId : status[i] = "pending" /\ trail[i] \cap LeftBehind = {} => Carried(i)

\* A request for an account that was answered 201 is opened, refused, or has a job.
AskedIsKept ==
  \A r \in asked : opened[r] = 0 /\ trail[r] \cap LeftBehind = {} => HasJob("account", r)

\* createAccount runs again when its job is delivered again, and makes a new account:
\* never more accounts than deliveries, so one if no job was found stalled.
OpenedPerDelivery == \A r \in Request : opened[r] <= 1 + stalls[r]

\* A payment that clients neither send nor process by hand is settled at most once,
\* although its job may be delivered twice, before or after its COMMIT.
AutomaticOnce ==
  \A i \in TrxId : trail[i] \cap {"send", "process"} = {} => settled[i] <= 1

\* A payment on which no call by hand had an effect goes the way of the timer and
\* the job, in this order, and ends there.  Only a second delivery of the job can
\* do more: its call may find the retry counter spent and fail a done payment.
AutomaticPath ==
  [][\A i \in TrxId :
       status'[i] # status[i] /\ trail'[i] \cap ByHandOps = {} =>
         \/ <<status[i], status'[i]>> \in {<<"absent", "initiated">>, <<"initiated", "pending">>,
                                          <<"pending", "done">>, <<"pending", "failed">>}
         \/ status[i] = "done" /\ status'[i] = "failed" /\ stalls[i] > 0]_vars

\* From some time on both applications run and no queue is paused.
Running == up = App /\ paused = {}

\* Then a created payment comes to an end, and a request is opened, unless they were
\* left behind in a way that is on record.
Settles ==
  <>[]Running =>
    /\ \A i \in TrxId :
         (status[i] = "initiated") ~>
           (status[i] \in {"cancelled", "failed", "done"} \/ trail[i] \cap LeftBehind # {})
    /\ \A r \in Request :
         (r \in asked) ~> (opened[r] > 0 \/ trail[r] \cap LeftBehind # {})

-----------------------------------------------------------------------------
(* What the code says of itself and does not keep (a violation run).       *)

\* "Manual send transaction for processing" (transaction.controller.ts:74): a payment
\* that was sent by hand, and met nothing else, is on its way to being processed.
SentIsCarried ==
  \A i \in TrxId : status[i] = "pending" /\ trail[i] = {"send"} => Carried(i)
=============================================================================
