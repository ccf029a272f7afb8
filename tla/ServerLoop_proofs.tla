-------------------------- MODULE ServerLoop_proofs --------------------------
(***************************************************************************)
(* The safety properties of the server loop, for any number of             *)
(* descriptors, workers, connections, requests and timeouts, and for       *)
(* queues of any size.                                                     *)
(***************************************************************************)
EXTENDS ServerLoop, TLAPS

-----------------------------------------------------------------------------
(* The jobs a queue holds, and that it holds each of them once. *)

QueuedIn(q) == {q[i] : i \in DOMAIN q} \ {None}

JobOf(result) == [s |-> result.s, request |-> result.request]
FinishedIn(q) == {JobOf(q[i]) : i \in DOMAIN q}

OnceQueued(q) == \A i, k \in DOMAIN q : i # k /\ q[i] = q[k] => q[i] = None
OnceFinished(q) == \A i, k \in DOMAIN q : i # k => JobOf(q[i]) # JobOf(q[k])

ResultRecord == [s : Fds, request : Requests, ok : BOOLEAN]

LEMMA TailIndices ==
  ASSUME NEW S, NEW q \in Seq(S), q # <<>>
  PROVE  /\ Head(q) = q[1] /\ Head(q) \in S /\ 1 \in DOMAIN q
         /\ Tail(q) \in Seq(S) /\ Len(Tail(q)) = Len(q) - 1 /\ Len(q) \in Nat
         /\ \A i \in DOMAIN Tail(q) : i + 1 \in DOMAIN q /\ Tail(q)[i] = q[i + 1] /\ i \in Nat
         /\ \A i \in DOMAIN q : i # 1 => i - 1 \in DOMAIN Tail(q) /\ Tail(q)[i - 1] = q[i]
         /\ \A i \in DOMAIN Tail(q) : i + 1 # 1
         /\ \A i, k \in DOMAIN Tail(q) : i # k => i + 1 # k + 1
OBVIOUS

LEMMA AppendIndices ==
  ASSUME NEW S, NEW q \in Seq(S), NEW x \in S
  PROVE  /\ Append(q, x) \in Seq(S) /\ Len(Append(q, x)) = Len(q) + 1 /\ Len(q) \in Nat
         /\ DOMAIN Append(q, x) = DOMAIN q \cup {Len(q) + 1}
         /\ Len(q) + 1 \notin DOMAIN q
         /\ Append(q, x)[Len(q) + 1] = x
         /\ \A i \in DOMAIN q : Append(q, x)[i] = q[i]
OBVIOUS

LEMMA JobsInQueues ==
  /\ \A q \in Seq(Job \cup {None}) : QueuedIn(q) \subseteq Job
  /\ \A q \in Seq(ResultRecord) : FinishedIn(q) \subseteq Job
<1>1. ASSUME NEW S, NEW q \in Seq(S) PROVE \A i \in DOMAIN q : q[i] \in S
  OBVIOUS
<1>2. \A x \in ResultRecord : JobOf(x) \in Job
  BY DEF ResultRecord, JobOf, Job
<1>3. ASSUME NEW q \in Seq(Job \cup {None}) PROVE QueuedIn(q) \subseteq Job
  <2>1. \A i \in DOMAIN q : q[i] \in Job \cup {None}
    BY <1>1
  <2> QED BY <2>1 DEF QueuedIn
<1>4. ASSUME NEW q \in Seq(ResultRecord) PROVE FinishedIn(q) \subseteq Job
  <2>1. \A i \in DOMAIN q : q[i] \in ResultRecord
    BY <1>1
  <2> QED BY <1>2, <2>1 DEF FinishedIn
<1> QED BY <1>3, <1>4

LEMMA TailQueued ==
  ASSUME NEW q \in Seq(Job \cup {None}), q # <<>>
  PROVE  /\ QueuedIn(q) = QueuedIn(Tail(q)) \cup ({Head(q)} \ {None})
         /\ OnceQueued(q) => OnceQueued(Tail(q)) /\ Head(q) \notin QueuedIn(Tail(q))
<1> DEFINE t == Tail(q)
           D == DOMAIN q
           E == DOMAIN t
<1>1. /\ Head(q) = q[1] /\ 1 \in D
      /\ \A i \in E : i + 1 \in D /\ t[i] = q[i + 1]
      /\ \A i \in D : i # 1 => i - 1 \in E /\ t[i - 1] = q[i]
      /\ \A i \in E : i + 1 # 1
      /\ \A i, k \in E : i # k => i + 1 # k + 1
  BY TailIndices
<1> HIDE DEF t, D, E
<1>2. QueuedIn(q) = {q[i] : i \in D} \ {None} /\ QueuedIn(t) = {t[i] : i \in E} \ {None}
  BY DEF QueuedIn, t, D, E
<1>3. QueuedIn(q) = QueuedIn(t) \cup ({Head(q)} \ {None})
  BY <1>1, <1>2
<1>4. ASSUME OnceQueued(q) PROVE OnceQueued(t) /\ Head(q) \notin QueuedIn(t)
  <2>1. \A i, k \in D : i # k /\ q[i] = q[k] => q[i] = None
    BY <1>4 DEF OnceQueued, D
  <2>2. \A i, k \in E : i # k /\ t[i] = t[k] => t[i] = None
    BY <1>1, <2>1
  <2>3. \A i \in E : t[i] = Head(q) => t[i] = None
    BY <1>1, <2>1
  <2> QED BY <1>2, <2>2, <2>3 DEF OnceQueued, E
<1> QED BY <1>3, <1>4 DEF t

LEMMA AppendQueued ==
  ASSUME NEW q \in Seq(Job \cup {None}), NEW x \in Job \cup {None}
  PROVE  /\ QueuedIn(Append(q, x)) = QueuedIn(q) \cup ({x} \ {None})
         /\ OnceQueued(q) /\ x \notin QueuedIn(q) => OnceQueued(Append(q, x))
<1> DEFINE a == Append(q, x)
           D == DOMAIN q
           E == DOMAIN a
           n == Len(q) + 1
<1>1. E = D \cup {n} /\ n \notin D /\ a[n] = x /\ \A i \in D : a[i] = q[i]
  BY AppendIndices
<1> HIDE DEF a, D, E, n
<1>2. QueuedIn(q) = {q[i] : i \in D} \ {None} /\ QueuedIn(a) = {a[i] : i \in E} \ {None}
  BY DEF QueuedIn, a, D, E
<1>3. QueuedIn(a) = QueuedIn(q) \cup ({x} \ {None})
  BY <1>1, <1>2
<1>4. ASSUME OnceQueued(q), x \notin QueuedIn(q) PROVE OnceQueued(a)
  <2>1. \A i, k \in D : i # k /\ q[i] = q[k] => q[i] = None
    BY <1>4 DEF OnceQueued, D
  <2>2. \A i \in D : q[i] = x => q[i] = None
    BY <1>2, <1>4
  <2> QED BY <1>1, <2>1, <2>2 DEF OnceQueued, E
<1> QED BY <1>3, <1>4 DEF a

LEMMA TailFinished ==
  ASSUME NEW q \in Seq(ResultRecord), q # <<>>
  PROVE  /\ FinishedIn(q) = FinishedIn(Tail(q)) \cup {JobOf(Head(q))}
         /\ OnceFinished(q) => /\ OnceFinished(Tail(q))
                               /\ JobOf(Head(q)) \notin FinishedIn(Tail(q))
<1> DEFINE t == Tail(q)
           D == DOMAIN q
           E == DOMAIN t
<1>1. /\ Head(q) = q[1] /\ 1 \in D
      /\ \A i \in E : i + 1 \in D /\ t[i] = q[i + 1]
      /\ \A i \in D : i # 1 => i - 1 \in E /\ t[i - 1] = q[i]
      /\ \A i \in E : i + 1 # 1
      /\ \A i, k \in E : i # k => i + 1 # k + 1
  BY TailIndices
<1> HIDE DEF t, D, E
<1>2. FinishedIn(q) = {JobOf(q[i]) : i \in D} /\ FinishedIn(t) = {JobOf(t[i]) : i \in E}
  BY DEF FinishedIn, t, D, E
<1>3. FinishedIn(q) = FinishedIn(t) \cup {JobOf(Head(q))}
  BY <1>1, <1>2
<1>4. ASSUME OnceFinished(q) PROVE OnceFinished(t) /\ JobOf(Head(q)) \notin FinishedIn(t)
  <2>1. \A i, k \in D : i # k => JobOf(q[i]) # JobOf(q[k])
    BY <1>4 DEF OnceFinished, D
  <2>2. \A i, k \in E : i # k => JobOf(t[i]) # JobOf(t[k])
    BY <1>1, <2>1
  <2>3. \A i \in E : JobOf(t[i]) # JobOf(Head(q))
    BY <1>1, <2>1
  <2> QED BY <1>2, <2>2, <2>3 DEF OnceFinished, E
<1> QED BY <1>3, <1>4 DEF t

LEMMA AppendFinished ==
  ASSUME NEW q \in Seq(ResultRecord), NEW x \in ResultRecord
  PROVE  /\ FinishedIn(Append(q, x)) = FinishedIn(q) \cup {JobOf(x)}
         /\ OnceFinished(q) /\ JobOf(x) \notin FinishedIn(q) => OnceFinished(Append(q, x))
<1> DEFINE a == Append(q, x)
           D == DOMAIN q
           E == DOMAIN a
           n == Len(q) + 1
<1>1. E = D \cup {n} /\ n \notin D /\ a[n] = x /\ \A i \in D : a[i] = q[i]
  BY AppendIndices
<1> HIDE DEF a, D, E, n
<1>2. FinishedIn(q) = {JobOf(q[i]) : i \in D} /\ FinishedIn(a) = {JobOf(a[i]) : i \in E}
  BY DEF FinishedIn, a, D, E
<1>3. FinishedIn(a) = FinishedIn(q) \cup {JobOf(x)}
  BY <1>1, <1>2
<1>4. ASSUME OnceFinished(q), JobOf(x) \notin FinishedIn(q) PROVE OnceFinished(a)
  <2>1. \A i, k \in D : i # k => JobOf(q[i]) # JobOf(q[k])
    BY <1>4 DEF OnceFinished, D
  <2> QED BY <1>1, <1>2, <1>4, <2>1 DEF OnceFinished, E
<1> QED BY <1>3, <1>4 DEF a
-----------------------------------------------------------------------------
(* The invariant. *)

Running == pc \in {"act", "select", "drain", "close", "blocked"}

Busy == {w \in Workers : worker[w].state = "work"}
JobsInWork == {worker[w].job : w \in Busy}

\* The jobs whose result has not been dispatched.
Outstanding == QueuedIn(request_queue) \cup JobsInWork \cup FinishedIn(result_queue)

\* Every one of them is in one place.
OnceInv ==
  /\ OnceQueued(request_queue) /\ OnceFinished(result_queue)
  /\ \A v, w \in Busy : worker[v].job = worker[w].job => v = w
  /\ QueuedIn(request_queue) \cap JobsInWork = {}
  /\ QueuedIn(request_queue) \cap FinishedIn(result_queue) = {}
  /\ JobsInWork \cap FinishedIn(result_queue) = {}

\* Request numbers are new, and unless a connection has timed out waiting, the
\* jobs of its descriptor are its own: it waits for the result.
OwnInv ==
  \A job \in Outstanding :
    /\ job.request <= requests
    /\ job.s \notin late => /\ job.s \in In("WAIT")
                            /\ connection_map[job.s].request = job.request

\* A connection that waits has a job.
WaitInv == \A s \in In("WAIT") : [s |-> s, request |-> connection_map[s].request] \in Outstanding

\* What select returned still holds when it is handled, but for descriptors of
\* connections that timed out waiting; and a connection that is ignored has
\* been given its answer.
PolledInv ==
  /\ backlog <= connections
  /\ polled.listener => backlog > 0
  /\ polled.readable \ late \subseteq In("READ")
  /\ polled.writable \ late \subseteq In("WRITE")
  /\ ignore \subseteq In("WRITE")

\* TypeOK.
TypesInv ==
  /\ connection_map \in [Fds -> Connection \cup {None}]
  /\ client \in [Fds -> {"quiet", "request", "gone"}]
  /\ backlog \in 0..MaxConnections
  /\ request_queue \in Seq(Job \cup {None}) /\ Len(request_queue) <= queue_size
  /\ result_queue \in Seq(ResultRecord) /\ Len(result_queue) <= queue_size
  /\ worker \in [Workers -> WorkerState]
  /\ control \in BOOLEAN
  /\ pc \in {"act", "select", "drain", "close", "blocked", "stop pool", "join", "end"}
  /\ polled \in [listener : BOOLEAN, control : BOOLEAN, readable : SUBSET Fds,
                 writable : SUBSET Fds]
  /\ ignore \in SUBSET Fds
  /\ stop \in {"no", "wakeup", "done"}
  /\ nones \in 0..worker_count
  /\ late \in SUBSET Fds
  /\ connections \in 0..MaxConnections /\ requests \in 0..MaxRequests
  /\ timeouts \in 0..MaxTimeouts

\* What holds until shutdown closes the connections; then none is left.
LoopInv == IF Running THEN OwnInv /\ WaitInv /\ PolledInv
           ELSE Open = {} /\ backlog <= connections

IInv == TypesInv /\ OnceInv /\ LoopInv /\ AnswerBelongs
-----------------------------------------------------------------------------
(* The workers move jobs from one place to the next. *)

LEMMA WorkerFacts ==
  ASSUME TypesInv, NEW w \in Workers, worker[w].state = "work"
  PROVE  worker[w].job \in Job /\ worker[w] = [state |-> "work", job |-> worker[w].job]
BY DEF TypesInv, WorkerState

LEMMA CounterFacts ==
  ASSUME TypesInv
  PROVE  /\ backlog \in 0..MaxConnections /\ connections \in 0..MaxConnections
         /\ nones \in 0..worker_count /\ timeouts \in 0..MaxTimeouts
         /\ backlog \in Nat /\ connections \in Nat /\ nones \in Nat /\ timeouts \in Nat
<1>1. /\ backlog \in 0..MaxConnections /\ connections \in 0..MaxConnections
      /\ nones \in 0..worker_count /\ timeouts \in 0..MaxTimeouts
  BY DEF TypesInv
<1> QED BY <1>1, BoundsAssumption, SizesAssumption

\* What has to hold of the threads and queues after a step.
PoolTypes == /\ request_queue \in Seq(Job \cup {None}) /\ Len(request_queue) <= queue_size
             /\ result_queue \in Seq(ResultRecord) /\ Len(result_queue) <= queue_size
             /\ worker \in [Workers -> WorkerState]

LEMMA GetJobMoves ==
  ASSUME TypesInv, OnceInv, NEW w \in Workers, GetJob(w)
  PROVE  PoolTypes' /\ OnceInv' /\ Outstanding' = Outstanding
<1> DEFINE h == Head(request_queue)
<1>1. /\ request_queue \in Seq(Job \cup {None}) /\ Len(request_queue) <= queue_size
      /\ worker \in [Workers -> WorkerState] /\ queue_size \in Nat
      /\ request_queue # <<>> /\ worker[w].state = "get"
      /\ request_queue' = Tail(request_queue) /\ UNCHANGED result_queue
      /\ worker' = [worker EXCEPT ![w] = IF h = None THEN [state |-> "ended"]
                                         ELSE [state |-> "work", job |-> h]]
  BY SizesAssumption DEF TypesInv, GetJob
<1>2. /\ h \in Job \cup {None}
      /\ Tail(request_queue) \in Seq(Job \cup {None})
      /\ Len(Tail(request_queue)) <= queue_size
  BY <1>1, TailIndices
<1>3. /\ QueuedIn(request_queue) = QueuedIn(request_queue') \cup ({h} \ {None})
      /\ OnceQueued(request_queue') /\ h \notin QueuedIn(request_queue')
  BY <1>1, TailQueued DEF OnceInv
<1> HIDE DEF h
<1>4. PoolTypes'
  <2>1. worker' \in [Workers -> WorkerState]
    <3>1. (IF h = None THEN [state |-> "ended"] ELSE [state |-> "work", job |-> h]) \in WorkerState
      <4>1. CASE h = None BY <4>1 DEF WorkerState
      <4>2. CASE h # None BY <4>2, <1>2 DEF WorkerState
      <4> QED BY <4>1, <4>2
    <3> QED BY <1>1, <3>1
  <2> QED BY <1>1, <1>2, <2>1 DEF PoolTypes, TypesInv
<1>5. CASE h = None
  <2>1. /\ worker'[w].state = "ended" /\ w \notin Busy
        /\ \A v \in Workers : v # w => worker'[v] = worker[v]
    BY <1>1, <1>5 DEF Busy
  <2>2. Busy' = Busy
    BY <2>1 DEF Busy
  <2>3. \A v \in Busy : worker'[v] = worker[v]
    BY <2>1 DEF Busy
  <2>4. JobsInWork' = JobsInWork
    BY <2>2, <2>3 DEF JobsInWork
  <2> QED BY <1>1, <1>3, <1>4, <1>5, <2>2, <2>3, <2>4 DEF OnceInv, Outstanding
<1>6. CASE h # None
  <2>1. /\ worker'[w].state = "work" /\ worker'[w].job = h /\ w \notin Busy
        /\ \A v \in Workers : v # w => worker'[v] = worker[v]
    BY <1>1, <1>6 DEF Busy
  <2>2. Busy' = Busy \cup {w}
    BY <2>1 DEF Busy
  <2>3. \A v \in Busy : worker'[v] = worker[v]
    BY <2>1 DEF Busy
  <2>4. JobsInWork' = JobsInWork \cup {h}
    BY <2>1, <2>2, <2>3 DEF JobsInWork
  <2>5. h \in QueuedIn(request_queue)
    BY <1>3, <1>6
  <2>6. \A v \in Busy : worker[v].job # h
    BY <2>5 DEF OnceInv, JobsInWork
  <2>7. \A v, u \in Busy' : worker'[v].job = worker'[u].job => v = u
    BY <2>1, <2>2, <2>3, <2>6 DEF OnceInv
  <2> QED BY <1>1, <1>3, <1>4, <1>6, <2>4, <2>5, <2>7 DEF OnceInv, Outstanding
<1> QED BY <1>5, <1>6

LEMMA FinishJobMoves ==
  ASSUME TypesInv, OnceInv, NEW w \in Workers, FinishJob(w)
  PROVE  PoolTypes' /\ OnceInv' /\ Outstanding' = Outstanding
<1> DEFINE j == worker[w].job
<1>1. /\ result_queue \in Seq(ResultRecord) /\ Len(result_queue) < queue_size
      /\ worker \in [Workers -> WorkerState] /\ queue_size \in Nat /\ Len(result_queue) \in Nat
      /\ worker[w].state = "work" /\ j \in Job
      /\ UNCHANGED request_queue
      /\ worker' = [worker EXCEPT ![w] = [state |-> "notify"]]
  <2>1. worker[w].state = "work" /\ result_queue \in Seq(ResultRecord)
    BY DEF FinishJob, TypesInv
  <2>2. j \in Job
    BY <2>1, WorkerFacts
  <2>3. Len(result_queue) \in Nat
    BY <2>1
  <2> QED BY SizesAssumption, <2>1, <2>2, <2>3 DEF TypesInv, FinishJob
<1>2. PICK ok \in BOOLEAN : result_queue' = Append(result_queue, Result(j, ok))
  BY DEF FinishJob, PutResult
<1>3. Result(j, ok) \in ResultRecord /\ JobOf(Result(j, ok)) = j
  BY <1>1 DEF Result, ResultRecord, Job, JobOf
<1>4. PoolTypes'
  <2>1. worker' \in [Workers -> WorkerState]
    <3>1. [state |-> "notify"] \in WorkerState
      BY DEF WorkerState
    <3> QED BY <1>1, <3>1
  <2>2. result_queue' \in Seq(ResultRecord) /\ Len(result_queue') <= queue_size
    BY <1>1, <1>2, <1>3, AppendIndices
  <2> QED BY <1>1, <2>1, <2>2 DEF PoolTypes, TypesInv
<1> HIDE DEF j
<1>5. /\ worker'[w].state = "notify" /\ w \in Busy
      /\ \A v \in Workers : v # w => worker'[v] = worker[v]
  BY <1>1 DEF Busy
<1>6. Busy' = Busy \ {w}
  BY <1>5 DEF Busy
<1>7. \A v \in Busy' : worker'[v] = worker[v] /\ v \in Busy /\ v # w
  BY <1>5, <1>6 DEF Busy
<1>8. j \in JobsInWork /\ \A v \in Busy : worker[v].job = j => v = w
  BY <1>5 DEF JobsInWork, OnceInv, j
<1>9. JobsInWork' = JobsInWork \ {j}
  BY <1>5, <1>6, <1>7, <1>8 DEF JobsInWork, j
<1>10. j \notin FinishedIn(result_queue)
  BY <1>8 DEF OnceInv
<1>11. FinishedIn(result_queue') = FinishedIn(result_queue) \cup {j} /\ OnceFinished(result_queue')
  BY <1>1, <1>2, <1>3, <1>10, AppendFinished DEF OnceInv
<1>12. \A v, u \in Busy' : worker'[v].job = worker'[u].job => v = u
  BY <1>7 DEF OnceInv
<1> QED BY <1>1, <1>4, <1>8, <1>9, <1>10, <1>11, <1>12 DEF OnceInv, Outstanding

LEMMA NotifyMoves ==
  ASSUME TypesInv, OnceInv, NEW w \in Workers, Notify(w)
  PROVE  PoolTypes' /\ OnceInv' /\ Outstanding' = Outstanding
<1>1. /\ worker \in [Workers -> WorkerState] /\ worker[w].state = "notify"
      /\ UNCHANGED <<request_queue, result_queue>>
      /\ worker' = [worker EXCEPT ![w] = [state |-> "get"]]
  BY DEF TypesInv, Notify
<1>2. PoolTypes'
  <2>1. worker' \in [Workers -> WorkerState]
    <3>1. [state |-> "get"] \in WorkerState
      BY DEF WorkerState
    <3> QED BY <1>1, <3>1
  <2> QED BY <1>1, <2>1 DEF PoolTypes, TypesInv
<1>3. /\ worker'[w].state = "get" /\ w \notin Busy
      /\ \A v \in Workers : v # w => worker'[v] = worker[v]
  BY <1>1 DEF Busy
<1>4. Busy' = Busy
  BY <1>3 DEF Busy
<1>5. \A v \in Busy : worker'[v] = worker[v]
  BY <1>3 DEF Busy
<1>6. JobsInWork' = JobsInWork
  BY <1>4, <1>5 DEF JobsInWork
<1> QED BY <1>1, <1>2, <1>4, <1>5, <1>6 DEF OnceInv, Outstanding

LEMMA StepWorker == ASSUME IInv, NEW w \in Workers, Worker(w) PROVE IInv'
<1> USE DEF IInv
<1>1. PoolTypes' /\ OnceInv' /\ Outstanding' = Outstanding
  BY GetJobMoves, FinishJobMoves, NotifyMoves DEF Worker
<1>2. /\ UNCHANGED <<connection_map, client, backlog, connections, pc, polled, ignore, stop, nones,
                     late, requests, timeouts>>
      /\ control' \in BOOLEAN
  BY DEF Worker, GetJob, FinishJob, Notify, clients, loop, TypesInv
<1>3. TypesInv'
  BY <1>1, <1>2 DEF TypesInv, PoolTypes
<1>4. Open' = Open /\ In("WAIT")' = In("WAIT") /\ In("READ")' = In("READ")
      /\ In("WRITE")' = In("WRITE") /\ Running' = Running
  BY <1>2 DEF Open, In, Running
<1>5. LoopInv'
  BY <1>1, <1>2, <1>4 DEF LoopInv, OwnInv, WaitInv, PolledInv
<1>6. AnswerBelongs'
  BY <1>2, <1>4 DEF AnswerBelongs
<1> QED BY <1>1, <1>3, <1>5, <1>6
-----------------------------------------------------------------------------
(* Handling an event. *)

LEMMA ConnectionFacts ==
  /\ Fresh \in Connection /\ Fresh.wait_for = "READ"
  /\ \A c \in Connection, r \in Requests : [c EXCEPT !.request = r] \in Connection
  /\ \A c \in Connection, b \in BOOLEAN :
       /\ [c EXCEPT !.has_data = b] \in Connection /\ [c EXCEPT !.idle = b] \in Connection
BY DEF Connection, Fresh

LEMMA RespondFacts ==
  ASSUME NEW c \in Connection, NEW answer \in Requests \cup {None}, NEW close \in BOOLEAN
  PROVE  LET d == Respond(c, answer, close)
         IN  d \in Connection /\ d.wait_for = "WRITE" /\ d.answer = answer /\ d.request = c.request
BY DEF Connection, Respond

LEMMA RequestFacts ==
  ASSUME TypesInv
  PROVE  /\ requests \in 0..MaxRequests /\ requests \in Nat /\ requests <= requests
         /\ client \in [Fds -> {"quiet", "request", "gone"}]
<1>1. requests \in 0..MaxRequests /\ client \in [Fds -> {"quiet", "request", "gone"}]
  BY DEF TypesInv
<1> QED BY <1>1, BoundsAssumption

LEMMA InFacts ==
  ASSUME TypesInv
  PROVE  /\ Open \subseteq Fds
         /\ \A s \in Fds : s \in Open <=> connection_map[s] \in Connection
         /\ \A state, s : s \in In(state) <=> /\ s \in Fds /\ connection_map[s] \in Connection
                                             /\ connection_map[s].wait_for = state
         /\ \A s \in Open : connection_map[s].wait_for \in {"READ", "WAIT", "WRITE"}
<1>1. \A s \in Fds : s \in Open <=> connection_map[s] \in Connection
  BY NoneAssumption DEF TypesInv, Open
<1>2. \A s \in Open : s \in Fds /\ connection_map[s] \in Connection
  BY <1>1 DEF Open
<1> QED BY <1>1, <1>2 DEF In, Open, Connection

\* What a handled event of connection s may have done: answered with nothing but
\* its own result, or queued a new job.
Answered(s) == s \in In("WRITE") => connection_map[s].answer \in {None, connection_map[s].request}

Handled(s) ==
  /\ connection_map' \in [Fds -> Connection \cup {None}]
  /\ client' \in [Fds -> {"quiet", "request", "gone"}]
  /\ \A t \in Fds \ {s} : connection_map'[t] = connection_map[t]
  /\ requests' \in 0..MaxRequests /\ requests <= requests'
  /\ \/ /\ UNCHANGED request_queue
        /\ s \notin In("WAIT")'
        /\ s \in In("WRITE")' /\ s \notin late => Answered(s)'
     \/ /\ HasRoom /\ requests' = requests + 1
        /\ request_queue' = Append(request_queue, [s |-> s, request |-> requests + 1])
        /\ connection_map'[s] \in Connection /\ connection_map'[s].wait_for = "WAIT"
        /\ connection_map'[s].request = requests + 1

\* The connection of s becomes c, which does not wait, and nothing is queued.
LEMMA BecomesHandled ==
  ASSUME TypesInv, NEW s \in Fds, NEW c \in Connection \cup {None}, Becomes(s, c),
         c \in Connection => /\ c.wait_for # "WAIT"
                             /\ c.wait_for = "WRITE" /\ s \notin late
                                => c.answer \in {None, c.request},
         client' \in [Fds -> {"quiet", "request", "gone"}],
         requests' \in 0..MaxRequests, requests <= requests', UNCHANGED request_queue
  PROVE  Handled(s)
<1>1. /\ connection_map' \in [Fds -> Connection \cup {None}] /\ connection_map'[s] = c
      /\ \A t \in Fds \ {s} : connection_map'[t] = connection_map[t]
  BY DEF Becomes, TypesInv
<1>2. \A state : s \in In(state)' => c \in Connection /\ c.wait_for = state
  BY <1>1 DEF In, Open
<1>3. s \notin In("WAIT")' /\ (s \in In("WRITE")' /\ s \notin late => Answered(s)')
  BY <1>1, <1>2 DEF Answered
<1> QED BY <1>1, <1>3 DEF Handled

LEMMA QueueJobHandled ==
  ASSUME TypesInv, NEW s \in Fds, NEW c \in Connection, QueueJob(s, c),
         client' \in [Fds -> {"quiet", "request", "gone"}]
  PROVE  Handled(s)
<1> DEFINE r == requests + 1
           asked == [c EXCEPT !.request = r]
<1>1. r \in Requests /\ requests \in Nat /\ requests' = r /\ r \in 0..MaxRequests
      /\ requests <= requests'
  BY BoundsAssumption, RequestFacts DEF QueueJob, Requests
<1>2. asked \in Connection /\ asked.request = r
  BY <1>1, ConnectionFacts DEF Connection
<1>3. CASE /\ HasRoom
           /\ request_queue' = Append(request_queue, [s |-> s, request |-> r])
           /\ Becomes(s, [asked EXCEPT !.wait_for = "WAIT"])
  <2>1. /\ [asked EXCEPT !.wait_for = "WAIT"] \in Connection
        /\ [asked EXCEPT !.wait_for = "WAIT"].wait_for = "WAIT"
        /\ [asked EXCEPT !.wait_for = "WAIT"].request = r
    BY <1>2 DEF Connection
  <2> HIDE DEF asked
  <2>2. /\ connection_map' \in [Fds -> Connection \cup {None}]
        /\ connection_map'[s] = [asked EXCEPT !.wait_for = "WAIT"]
        /\ \A t \in Fds \ {s} : connection_map'[t] = connection_map[t]
    BY <1>3, <2>1 DEF Becomes, TypesInv
  <2> QED BY <1>1, <1>3, <2>1, <2>2 DEF Handled
<1>4. CASE ~HasRoom /\ Becomes(s, Respond(asked, None, TRUE)) /\ UNCHANGED request_queue
  <2> DEFINE d == Respond(asked, None, TRUE)
  <2>1. d \in Connection /\ d.wait_for = "WRITE" /\ d.answer = None
    BY <1>2, RespondFacts
  <2> HIDE DEF d, asked, r
  <2> QED BY <1>1, <1>4, <2>1, BecomesHandled DEF d
<1> QED BY <1>3, <1>4 DEF QueueJob

LEMMA ParseHandled ==
  ASSUME TypesInv, NEW s \in Fds, NEW c \in Connection, ParseRequest(s, c),
         client' \in [Fds -> {"quiet", "request", "gone"}]
  PROVE  Handled(s)
<1>1. CASE QueueJob(s, c)
  BY <1>1, QueueJobHandled
<1>2. ASSUME NEW close \in BOOLEAN, Becomes(s, Respond(c, None, close)),
             UNCHANGED <<request_queue, requests>>
      PROVE  Handled(s)
  <2> DEFINE d == Respond(c, None, close)
  <2>1. d \in Connection /\ d.wait_for = "WRITE" /\ d.answer = None
    BY RespondFacts
  <2>2. requests \in 0..MaxRequests /\ requests <= requests
    BY RequestFacts
  <2> HIDE DEF d
  <2> QED BY <1>2, <2>1, <2>2, BecomesHandled DEF d
<1> QED BY <1>1, <1>2 DEF ParseRequest

LEMMA ReadHandled ==
  ASSUME TypesInv, NEW s \in In("READ"), HandleRead(s)
  PROVE  s \in Fds /\ Handled(s)
<1> DEFINE c == connection_map[s]
<1>1. s \in Fds /\ c \in Connection /\ c.wait_for = "READ"
  BY InFacts
<1>2. requests \in 0..MaxRequests /\ requests <= requests
      /\ client \in [Fds -> {"quiet", "request", "gone"}]
  BY RequestFacts
<1> HIDE DEF c
\* The part of a request that is there is kept.
<1>7. ASSUME NEW has_data \in BOOLEAN, NEW idle \in BOOLEAN,
             Becomes(s, [c EXCEPT !.has_data = has_data, !.idle = idle]),
             client' \in [Fds -> {"quiet", "request", "gone"}],
             UNCHANGED <<request_queue, requests>>
      PROVE  Handled(s)
  <2> DEFINE d == [c EXCEPT !.has_data = has_data, !.idle = idle]
  <2>1. d \in Connection /\ d.wait_for = "READ"
    BY <1>1 DEF Connection
  <2> HIDE DEF d
  <2> QED BY <1>1, <1>2, <1>7, <2>1, BecomesHandled DEF d
<1>3. CASE /\ ParseRequest(s, [c EXCEPT !.has_data = FALSE])
              \/ /\ Becomes(s, [c EXCEPT !.has_data = FALSE, !.idle = c.idle])
                 /\ UNCHANGED <<request_queue, requests>>
           /\ UNCHANGED client
  <2>1. [c EXCEPT !.has_data = FALSE] \in Connection
    BY <1>1, ConnectionFacts
  <2>2. c.idle \in BOOLEAN
    BY <1>1 DEF Connection
  <2>3. client' \in [Fds -> {"quiet", "request", "gone"}]
    BY <1>2, <1>3
  <2> QED BY <1>1, <1>2, <1>3, <1>7, <2>1, <2>2, <2>3, ParseHandled
<1>4. CASE /\ client' = [client EXCEPT ![s] = "quiet"]
           /\ \/ ParseRequest(s, [c EXCEPT !.idle = FALSE])
              \/ \E has_data \in BOOLEAN :
                   /\ Becomes(s, [c EXCEPT !.has_data = has_data, !.idle = FALSE])
                   /\ UNCHANGED <<request_queue, requests>>
  <2>1. [c EXCEPT !.idle = FALSE] \in Connection
    BY <1>1 DEF Connection
  <2>2. client' \in [Fds -> {"quiet", "request", "gone"}]
    BY <1>2, <1>4
  <2> QED BY <1>1, <1>2, <1>4, <1>7, <2>1, <2>2, ParseHandled
<1>5. CASE Close(s) /\ UNCHANGED <<request_queue, requests>>
  <2>1. client' \in [Fds -> {"quiet", "request", "gone"}] /\ Becomes(s, None)
    BY <1>2, <1>5 DEF Close
  <2> QED BY <1>1, <1>2, <1>5, <2>1, NoneAssumption, BecomesHandled
<1>6. CASE UNCHANGED <<connection_map, client, request_queue, requests>>
  <2>1. s \notin In("WAIT") /\ s \notin In("WRITE")
    BY <1>1, InFacts DEF c
  <2>2. s \notin In("WAIT")' /\ s \notin In("WRITE")'
    BY <1>6, <2>1 DEF In, Open
  <2> QED BY <1>1, <1>2, <1>6, <2>2 DEF Handled, TypesInv
<1> QED BY <1>1, <1>3, <1>4, <1>5, <1>6 DEF HandleRead, c

LEMMA WriteHandled ==
  ASSUME TypesInv, NEW s \in In("WRITE"), HandleWrite(s)
  PROVE  s \in Fds /\ Handled(s)
<1>1. s \in Fds
  BY InFacts
<1>2. requests \in 0..MaxRequests /\ requests <= requests
      /\ client \in [Fds -> {"quiet", "request", "gone"}]
  BY RequestFacts
<1>3. UNCHANGED <<request_queue, requests>>
  BY DEF HandleWrite
<1>4. CASE Close(s)
  <2>1. client' \in [Fds -> {"quiet", "request", "gone"}] /\ Becomes(s, None)
    BY <1>2, <1>4 DEF Close
  <2> QED BY <1>1, <1>2, <1>3, <2>1, NoneAssumption, BecomesHandled
<1>5. CASE Becomes(s, Fresh) /\ UNCHANGED client
  BY <1>1, <1>2, <1>3, <1>5, ConnectionFacts, BecomesHandled
<1> QED BY <1>4, <1>5 DEF HandleWrite

LEMMA NoResultHandled ==
  ASSUME TypesInv, NEW s \in In("WAIT"), NoResult(s)
  PROVE  s \in Fds /\ Handled(s) /\ s \in In("WRITE")'
<1> DEFINE d == Respond(connection_map[s], None, TRUE)
<1>1. s \in Fds /\ d \in Connection /\ d.wait_for = "WRITE" /\ d.answer = None
  <2>1. s \in Fds /\ connection_map[s] \in Connection
    BY InFacts
  <2> QED BY <2>1, RespondFacts
<1>2. /\ requests' \in 0..MaxRequests /\ requests <= requests' /\ UNCHANGED request_queue
      /\ client' \in [Fds -> {"quiet", "request", "gone"}] /\ Becomes(s, d)
  BY RequestFacts DEF NoResult
<1> HIDE DEF d
<1>3. s \in In("WRITE")'
  BY <1>1, <1>2, NoneAssumption DEF Becomes, TypesInv, In, Open
<1> QED BY <1>1, <1>2, <1>3, BecomesHandled

LEMMA JobDoneHandled ==
  ASSUME TypesInv, NEW s \in In("WAIT"), NEW job \in ResultRecord, JobDone(s, job),
         s \notin late => connection_map[s].request = job.request
  PROVE  s \in Fds /\ Handled(s) /\ s \in In("WRITE")'
<1>1. PICK close \in BOOLEAN : Becomes(s, Respond(connection_map[s], job.request, close))
  BY DEF JobDone
<1> DEFINE d == Respond(connection_map[s], job.request, close)
<1>2. s \in Fds /\ d \in Connection /\ d.wait_for = "WRITE" /\ d.answer = job.request
      /\ d.request = connection_map[s].request
  BY InFacts, RespondFacts DEF ResultRecord
<1>3. /\ requests' \in 0..MaxRequests /\ requests <= requests' /\ UNCHANGED request_queue
      /\ client' \in [Fds -> {"quiet", "request", "gone"}] /\ Becomes(s, d)
  BY <1>1, RequestFacts DEF JobDone
<1> HIDE DEF d
<1>4. s \in In("WRITE")'
  BY <1>2, <1>3, NoneAssumption DEF Becomes, TypesInv, In, Open
<1> QED BY <1>2, <1>3, <1>4, BecomesHandled

LEMMA InFactsNext ==
  ASSUME connection_map' \in [Fds -> Connection \cup {None}]
  PROVE  \A state, s : s \in In(state)' <=> /\ s \in Fds /\ connection_map'[s] \in Connection
                                          /\ connection_map'[s].wait_for = state
<1>1. \A s \in Fds : connection_map'[s] # None <=> connection_map'[s] \in Connection
  BY NoneAssumption
<1> QED BY <1>1 DEF In, Open

\* The jobs there are while an event is handled: without the result in hand.
Kept == QueuedIn(request_queue) \cup JobsInWork \cup FinishedIn(result_queue')

\* The places of jobs after an event of s.
LEMMA EventJobs ==
  ASSUME TypesInv, OnceInv, OwnInv, NEW s \in Fds, Handled(s), UNCHANGED worker,
         result_queue' \in Seq(ResultRecord), Len(result_queue') <= queue_size,
         OnceFinished(result_queue'), FinishedIn(result_queue') \subseteq FinishedIn(result_queue)
  PROVE  /\ PoolTypes' /\ OnceInv'
         /\ \/ s \notin In("WAIT")' /\ Outstanding' = Kept
            \/ /\ s \in In("WAIT")' /\ connection_map'[s].request = requests + 1
               /\ requests' = requests + 1
               /\ Outstanding' = Kept \cup {[s |-> s, request |-> requests + 1]}
<1>1. JobsInWork' = JobsInWork /\ Busy' = Busy /\ worker \in [Workers -> WorkerState]
  BY DEF JobsInWork, Busy, TypesInv
<1>2. \A v, w \in Busy' : worker'[v].job = worker'[w].job => v = w
  BY <1>1 DEF OnceInv
<1>3. CASE UNCHANGED request_queue /\ s \notin In("WAIT")'
  <2>1. PoolTypes'
    BY <1>1, <1>3 DEF PoolTypes, TypesInv
  <2> QED BY <1>1, <1>2, <1>3, <2>1 DEF OnceInv, Outstanding, Kept
<1>4. CASE /\ HasRoom /\ requests' = requests + 1
           /\ request_queue' = Append(request_queue, [s |-> s, request |-> requests + 1])
           /\ connection_map'[s] \in Connection /\ connection_map'[s].wait_for = "WAIT"
           /\ connection_map'[s].request = requests + 1
  <2> DEFINE new == [s |-> s, request |-> requests + 1]
  <2>1. new \in Job /\ new # None /\ new.request = requests + 1 /\ requests \in Nat
    BY <1>4, RequestFacts, BoundsAssumption, NoneAssumption DEF Handled, Job, Requests
  <2>2. request_queue \in Seq(Job \cup {None}) /\ Len(request_queue) < queue_size
        /\ Len(request_queue) \in Nat /\ queue_size \in Nat
    <3>1. request_queue \in Seq(Job \cup {None}) /\ queue_size \in Nat
      BY SizesAssumption DEF TypesInv
    <3>2. Len(request_queue) \in Nat
      BY <3>1
    <3> QED BY <1>4, <3>1, <3>2 DEF HasRoom
  <2>3. new \notin Outstanding
    BY <2>1 DEF OwnInv
  <2> HIDE DEF new
  <2>4. request_queue' \in Seq(Job \cup {None}) /\ Len(request_queue') <= queue_size
    BY <1>4, <2>1, <2>2, AppendIndices DEF new
  <2>5. QueuedIn(request_queue') = QueuedIn(request_queue) \cup {new} /\ OnceQueued(request_queue')
    BY <1>4, <2>1, <2>2, <2>3, AppendQueued DEF OnceInv, Outstanding, new
  <2>6. PoolTypes'
    BY <1>1, <2>4 DEF PoolTypes
  <2>7. OnceInv'
    BY <1>1, <1>2, <2>3, <2>5 DEF OnceInv, Outstanding
  <2>8. s \in In("WAIT")'
    BY <1>4, InFactsNext DEF Handled
  <2> QED BY <1>1, <1>4, <2>5, <2>6, <2>7, <2>8 DEF Outstanding, Kept, new
<1> QED BY <1>3, <1>4 DEF Handled

\* An event of s, of which no other job is left unless it is late, keeps the invariant.
LEMMA EventKeeps ==
  ASSUME IInv, Running, NEW s \in Fds, Handled(s), s \notin ignore,
         s \notin late => \A job \in Kept : job.s # s,
         \A job \in FinishedIn(result_queue) \ FinishedIn(result_queue') : job.s = s,
         result_queue' \in Seq(ResultRecord), Len(result_queue') <= queue_size,
         OnceFinished(result_queue'), FinishedIn(result_queue') \subseteq FinishedIn(result_queue),
         ignore' = ignore \/ (ignore' = ignore \cup {s} /\ s \in In("WRITE")'),
         polled' \in [listener : BOOLEAN, control : BOOLEAN, readable : SUBSET Fds,
                     writable : SUBSET Fds],
         polled'.listener => polled.listener,
         polled'.readable \subseteq polled.readable, polled'.writable \subseteq polled.writable,
         s \notin late => s \notin polled'.readable /\ s \notin polled'.writable,
         UNCHANGED <<backlog, worker, control, pc, stop, nones, late, connections, timeouts>>
  PROVE  IInv'
<1> USE DEF IInv
<1>1. OwnInv /\ WaitInv /\ PolledInv
  BY DEF LoopInv
<1>2. /\ PoolTypes' /\ OnceInv'
      /\ \/ s \notin In("WAIT")' /\ Outstanding' = Kept
         \/ /\ s \in In("WAIT")' /\ connection_map'[s].request = requests + 1
            /\ requests' = requests + 1
            /\ Outstanding' = Kept \cup {[s |-> s, request |-> requests + 1]}
  BY <1>1, EventJobs
<1>3. /\ connection_map' \in [Fds -> Connection \cup {None}]
      /\ client' \in [Fds -> {"quiet", "request", "gone"}]
      /\ \A t \in Fds \ {s} : connection_map'[t] = connection_map[t]
      /\ requests' \in 0..MaxRequests /\ requests <= requests'
      /\ s \in In("WRITE")' /\ s \notin late => Answered(s)'
  <2>1. s \in In("WRITE")' => connection_map'[s].wait_for = "WRITE"
    BY InFactsNext DEF Handled
  <2> QED BY <2>1 DEF Handled
<1>4. ignore' \in SUBSET Fds
  BY DEF TypesInv
<1>5. TypesInv'
  BY <1>2, <1>3, <1>4 DEF TypesInv, PoolTypes
<1>6. \A state : \A t \in Fds \ {s} : t \in In(state)' <=> t \in In(state)
  BY <1>3, InFacts, InFactsNext
<1>7. \A state : In(state) \subseteq Fds /\ In(state)' \subseteq Fds
  BY <1>3, InFacts, InFactsNext
<1>8. Kept \subseteq Outstanding /\ \A job \in Outstanding \ Kept : job.s = s
  BY DEF Kept, Outstanding
<1>9. OwnInv'
  <2>1. ASSUME NEW job \in Kept
        PROVE  /\ job.request <= requests'
               /\ job.s \notin late => /\ job.s \in In("WAIT")'
                                       /\ connection_map'[job.s].request = job.request
    <3>1. /\ job.request <= requests
          /\ job.s \notin late => /\ job.s \in In("WAIT")
                                  /\ connection_map[job.s].request = job.request
      BY <1>1, <1>8 DEF OwnInv
    <3>2. job.request <= requests'
      <4>1. requests \in Nat /\ requests' \in Nat
        BY <1>3, RequestFacts, BoundsAssumption
      <4>2. job.request \in Nat
        <5>1. job \in Job
          <6>1. QueuedIn(request_queue) \subseteq Job
            BY JobsInQueues DEF TypesInv
          <6>2. JobsInWork \subseteq Job
            BY WorkerFacts DEF JobsInWork, Busy
          <6>3. FinishedIn(result_queue') \subseteq Job
            BY JobsInQueues
          <6> QED BY <6>1, <6>2, <6>3 DEF Kept
        <5> QED BY <5>1, BoundsAssumption DEF Job, Requests
      <4> QED BY <1>3, <3>1, <4>1, <4>2
    <3>3. ASSUME job.s \notin late
          PROVE  job.s \in In("WAIT")' /\ connection_map'[job.s].request = job.request
      <4>1. job.s # s /\ job.s \in Fds
        BY <1>7, <3>1, <3>3
      <4> QED BY <1>3, <1>6, <3>1, <3>3, <4>1
    <3> QED BY <3>2, <3>3
  <2>2. ASSUME NEW job, job = [s |-> s, request |-> requests + 1],
               s \in In("WAIT")', connection_map'[s].request = requests + 1,
               requests' = requests + 1
        PROVE  /\ job.request <= requests'
               /\ job.s \in In("WAIT")' /\ connection_map'[job.s].request = job.request
    BY <2>2, RequestFacts
  <2> QED BY <1>2, <2>1, <2>2 DEF OwnInv
<1>10. WaitInv'
  <2>1. ASSUME NEW t \in In("WAIT")', t # s
        PROVE  [s |-> t, request |-> connection_map'[t].request] \in Outstanding'
    <3>1. t \in In("WAIT") /\ connection_map'[t] = connection_map[t]
      BY <1>3, <1>6, <1>7, <2>1
    <3> DEFINE job == [s |-> t, request |-> connection_map[t].request]
    <3>2. job \in Outstanding /\ job.s # s
      BY <1>1, <2>1, <3>1 DEF WaitInv
    <3>3. job \in Kept
      BY <1>8, <3>2
    <3> QED BY <1>2, <3>1, <3>3
  <2> QED BY <1>2, <2>1 DEF WaitInv
<1>11. PolledInv'
  <2>1. ignore' \subseteq In("WRITE")'
    BY <1>1, <1>6, <1>7 DEF PolledInv
  <2>2. polled'.readable \ late' \subseteq In("READ")' /\ polled'.writable \ late' \subseteq In("WRITE")'
    BY <1>1, <1>6, <1>7 DEF PolledInv
  <2> QED BY <1>1, <2>1, <2>2 DEF PolledInv
<1>12. AnswerBelongs'
  BY <1>3, <1>6, <1>7 DEF AnswerBelongs, Answered
<1>13. Running'
  BY DEF Running
<1> QED BY <1>2, <1>5, <1>9, <1>10, <1>11, <1>12, <1>13 DEF LoopInv
LEMMA JobsOutstanding == ASSUME TypesInv PROVE Outstanding \subseteq Job
<1>1. QueuedIn(request_queue) \subseteq Job /\ FinishedIn(result_queue) \subseteq Job
  BY JobsInQueues DEF TypesInv
<1>2. JobsInWork \subseteq Job
  BY WorkerFacts DEF JobsInWork, Busy
<1> QED BY <1>1, <1>2 DEF Outstanding

\* A step of the loop that changes no connection and no queue.
LEMMA FrameKeeps ==
  ASSUME IInv, Running, Running', TypesInv',
         UNCHANGED <<connection_map, request_queue, result_queue, worker, ignore, late, requests>>,
         backlog' <= connections', polled'.listener => backlog' > 0,
         polled'.readable \ late \subseteq In("READ"), polled'.writable \ late \subseteq In("WRITE")
  PROVE  IInv'
<1>1. In("WAIT")' = In("WAIT") /\ In("READ")' = In("READ") /\ In("WRITE")' = In("WRITE")
  BY DEF In, Open
<1>2. Outstanding' = Outstanding /\ OnceInv'
  BY DEF IInv, Outstanding, OnceInv, JobsInWork, Busy
<1>3. OwnInv' /\ WaitInv' /\ PolledInv'
  BY <1>1, <1>2 DEF IInv, LoopInv, OwnInv, WaitInv, PolledInv
<1>4. AnswerBelongs'
  BY <1>1 DEF IInv, AnswerBelongs
<1> QED BY <1>2, <1>3, <1>4 DEF IInv, LoopInv

\* A result is dropped for which nobody waits.
LEMMA DroppedKeeps ==
  ASSUME IInv, Running, NEW s \in Fds, s \notin In("WAIT"), s \in late,
         UNCHANGED <<connection_map, client, request_queue, ignore, requests, pc, polled,
                     backlog, worker, control, stop, nones, late, connections, timeouts>>,
         \A job \in FinishedIn(result_queue) \ FinishedIn(result_queue') : job.s = s,
         result_queue' \in Seq(ResultRecord), Len(result_queue') <= queue_size,
         OnceFinished(result_queue'), FinishedIn(result_queue') \subseteq FinishedIn(result_queue)
  PROVE  IInv'
<1>1. In("WAIT")' = In("WAIT") /\ In("READ")' = In("READ") /\ In("WRITE")' = In("WRITE")
  BY DEF In, Open
<1>2. Busy' = Busy /\ JobsInWork' = JobsInWork
  BY DEF JobsInWork, Busy
<1>3. OnceInv'
  BY <1>2 DEF IInv, OnceInv
<1>4. Outstanding' \subseteq Outstanding /\ \A job \in Outstanding \ Outstanding' : job.s = s
  BY <1>2 DEF Outstanding
<1>5. OwnInv' /\ WaitInv' /\ PolledInv'
  <2>1. OwnInv' /\ PolledInv'
    BY <1>1, <1>4 DEF IInv, LoopInv, OwnInv, PolledInv
  <2>2. ASSUME NEW t \in In("WAIT")
        PROVE  [s |-> t, request |-> connection_map[t].request] \in Outstanding'
    <3> DEFINE job == [s |-> t, request |-> connection_map[t].request]
    <3>1. job \in Outstanding /\ job.s # s
      BY <2>2 DEF IInv, LoopInv, WaitInv
    <3> QED BY <1>4, <3>1
  <2> QED BY <1>1, <2>1, <2>2 DEF WaitInv
<1>6. AnswerBelongs' /\ TypesInv' /\ Running'
  BY <1>1 DEF IInv, AnswerBelongs, TypesInv, Running
<1> QED BY <1>3, <1>5, <1>6 DEF IInv, LoopInv

\* An event of select, for a connection that does not wait unless it is late.
LEMMA EventStep ==
  ASSUME IInv, Running, NEW s \in Fds, HandleEvent(s), s \notin ignore,
         s \notin late => s \notin In("WAIT"),
         polled' \in [listener : BOOLEAN, control : BOOLEAN, readable : SUBSET Fds,
                     writable : SUBSET Fds],
         polled'.listener => polled.listener,
         polled'.readable \subseteq polled.readable, polled'.writable \subseteq polled.writable,
         s \notin late => s \notin polled'.readable /\ s \notin polled'.writable,
         UNCHANGED <<backlog, result_queue, worker, control, pc, stop, nones, late, connections,
                     timeouts>>
  PROVE  IInv'
<1> USE DEF IInv
<1>1. Handled(s) /\ (ignore' = ignore \/ (ignore' = ignore \cup {s} /\ s \in In("WRITE")'))
  BY ReadHandled, WriteHandled, NoResultHandled DEF HandleEvent
<1>2. Kept = Outstanding
  BY DEF Kept, Outstanding
<1>3. s \notin late => \A job \in Kept : job.s # s
  BY <1>2 DEF LoopInv, OwnInv
<1>4. /\ result_queue' \in Seq(ResultRecord) /\ Len(result_queue') <= queue_size
      /\ OnceFinished(result_queue') /\ FinishedIn(result_queue') = FinishedIn(result_queue)
  BY DEF TypesInv, OnceInv
<1> QED BY <1>1, <1>3, <1>4, EventKeeps
-----------------------------------------------------------------------------
(* The steps of the loop. *)

LEMMA StepReadReady == ASSUME IInv, NEW s \in Fds, ReadReady(s) PROVE IInv'
<1> USE DEF IInv
<1>1. /\ Running /\ OwnInv /\ WaitInv /\ PolledInv /\ pc = "act" /\ s \in polled.readable
      /\ UNCHANGED <<backlog, result_queue, worker, control, pc, stop, nones, late, connections,
                     timeouts>>
  BY DEF ReadReady, LoopInv, Running
<1>2. CASE /\ polled' \in {NothingPolled, [polled EXCEPT !.readable = @ \ {s}]}
           /\ UNCHANGED <<connection_map, client, request_queue, ignore, requests>>
  <2>1. /\ polled' \in [listener : BOOLEAN, control : BOOLEAN, readable : SUBSET Fds,
                        writable : SUBSET Fds]
        /\ polled'.listener => polled.listener
        /\ polled'.readable \subseteq polled.readable /\ polled'.writable \subseteq polled.writable
    <3>1. CASE polled' = NothingPolled
      BY <3>1 DEF NothingPolled
    <3>2. CASE polled' = [polled EXCEPT !.readable = @ \ {s}]
      BY <3>2 DEF TypesInv
    <3> QED BY <1>2, <3>1, <3>2
  <2>2. TypesInv' /\ Running'
    BY <1>1, <1>2, <2>1 DEF TypesInv, Running
  <2> QED BY <1>1, <1>2, <2>1, <2>2, FrameKeeps DEF PolledInv
<1>3. CASE /\ polled' = [polled EXCEPT !.readable = @ \ {s}]
           /\ s \notin ignore /\ HandleEvent(s)
  <2>1. /\ polled' \in [listener : BOOLEAN, control : BOOLEAN, readable : SUBSET Fds,
                        writable : SUBSET Fds]
        /\ polled'.listener = polled.listener
        /\ polled'.readable = polled.readable \ {s} /\ polled'.writable = polled.writable
    BY <1>3 DEF TypesInv
  <2>2. s \notin late => s \in In("READ") /\ s \notin In("WRITE") /\ s \notin In("WAIT")
    BY <1>1, InFacts DEF PolledInv
  <2>3. s \notin late => s \notin polled'.readable /\ s \notin polled'.writable
    BY <1>1, <2>1, <2>2 DEF PolledInv
  <2> QED BY <1>1, <1>3, <2>1, <2>2, <2>3, EventStep
<1> QED BY <1>2, <1>3 DEF ReadReady

LEMMA StepWriteReady == ASSUME IInv, NEW s \in Fds, WriteReady(s) PROVE IInv'
<1> USE DEF IInv
<1>1. /\ Running /\ OwnInv /\ WaitInv /\ PolledInv /\ pc = "act" /\ s \in polled.writable
      /\ polled.readable = {} /\ polled' = [polled EXCEPT !.writable = @ \ {s}]
      /\ UNCHANGED <<backlog, result_queue, worker, control, pc, stop, nones, late, connections,
                     timeouts>>
  BY DEF WriteReady, LoopInv, Running
<1>2. /\ polled' \in [listener : BOOLEAN, control : BOOLEAN, readable : SUBSET Fds,
                      writable : SUBSET Fds]
      /\ polled'.listener = polled.listener
      /\ polled'.readable = {} /\ polled'.writable = polled.writable \ {s}
  BY <1>1 DEF TypesInv
<1>3. CASE UNCHANGED <<connection_map, client, request_queue, ignore, requests>>
  <2>1. TypesInv' /\ Running'
    BY <1>1, <1>2, <1>3 DEF TypesInv, Running
  <2> QED BY <1>1, <1>2, <1>3, <2>1, FrameKeeps DEF PolledInv
<1>4. CASE s \notin ignore /\ HandleEvent(s)
  <2>1. s \notin late => s \notin In("WAIT")
    BY <1>1, InFacts DEF PolledInv
  <2> QED BY <1>1, <1>2, <1>4, <2>1, EventStep
<1> QED BY <1>3, <1>4 DEF WriteReady

LEMMA StepDispatchJobResult == ASSUME IInv, DispatchJobResult PROVE IInv'
<1> USE DEF IInv
<1>1. /\ Running /\ OwnInv /\ WaitInv /\ PolledInv
      /\ UNCHANGED <<backlog, worker, control, polled, stop, nones, late, connections, timeouts>>
  BY DEF DispatchJobResult, LoopInv, Running
<1>2. CASE /\ pc' = "act"
           /\ UNCHANGED <<connection_map, client, request_queue, result_queue, ignore, requests>>
  <2>1. TypesInv' /\ Running'
    BY <1>1, <1>2 DEF TypesInv, Running
  <2> QED BY <1>1, <1>2, <2>1, FrameKeeps DEF PolledInv
<1>3. CASE result_queue # <<>>
  <2> DEFINE x == Head(result_queue)
             s == x.s
  <2>1. /\ result_queue' = Tail(result_queue) /\ UNCHANGED pc
        /\ result_queue \in Seq(ResultRecord) /\ Len(result_queue) <= queue_size
        /\ queue_size \in Nat
    BY <1>3, SizesAssumption DEF DispatchJobResult, TypesInv
  <2>2. /\ x \in ResultRecord /\ result_queue' \in Seq(ResultRecord)
        /\ Len(result_queue') <= queue_size
    BY <1>3, <2>1, TailIndices
  <2>3. /\ FinishedIn(result_queue) = FinishedIn(result_queue') \cup {JobOf(x)}
        /\ OnceFinished(result_queue') /\ JobOf(x) \notin FinishedIn(result_queue')
    BY <1>3, <2>1, TailFinished DEF OnceInv
  <2>4. s \in Fds /\ JobOf(x).s = s /\ JobOf(x).request = x.request
    BY <2>2 DEF ResultRecord, JobOf
  <2>5. Kept = Outstanding \ {JobOf(x)} /\ JobOf(x) \in Outstanding
    BY <2>3 DEF Kept, Outstanding, OnceInv
  <2>6. s \notin late => s \in In("WAIT") /\ connection_map[s].request = x.request
    BY <1>1, <2>4, <2>5 DEF OwnInv
  <2>7. ASSUME s \notin late, NEW job \in Kept, job.s = s PROVE FALSE
    <3>1. job \in Outstanding /\ job # JobOf(x) /\ job.request = x.request
      BY <1>1, <2>5, <2>6, <2>7 DEF OwnInv
    <3>2. job \in Job
      BY <3>1, JobsOutstanding
    <3> QED BY <2>7, <3>1, <3>2 DEF Job, JobOf
  <2>8. \A job \in FinishedIn(result_queue) \ FinishedIn(result_queue') : job.s = s
    BY <2>3, <2>4
  <2>9. polled \in [listener : BOOLEAN, control : BOOLEAN, readable : SUBSET Fds,
                   writable : SUBSET Fds]
    BY DEF TypesInv
  <2>10. s \notin late => s \notin polled.readable /\ s \notin polled.writable
    BY <1>1, <2>6, InFacts DEF PolledInv
  <2> HIDE DEF x, s
  <2>11. CASE /\ connection_map[s] = None \/ s \in ignore
              /\ UNCHANGED <<connection_map, client, request_queue, ignore, requests>>
    <3>1. s \notin In("WAIT") /\ s \in late
      BY <1>1, <2>4, <2>6, <2>11, InFacts, NoneAssumption DEF PolledInv
    <3> QED BY <1>1, <2>1, <2>2, <2>3, <2>4, <2>8, <2>11, <3>1, DroppedKeeps
  <2>12. CASE /\ s \notin ignore /\ HandleResult(s, x)
    <3>1. CASE s \in In("READ") /\ HandleRead(s) /\ UNCHANGED ignore
      BY <1>1, <2>1, <2>2, <2>3, <2>4, <2>7, <2>8, <2>9, <2>10, <2>12, <3>1, ReadHandled, EventKeeps
    <3>2. CASE s \in In("WRITE") /\ HandleWrite(s) /\ UNCHANGED ignore
      BY <1>1, <2>1, <2>2, <2>3, <2>4, <2>7, <2>8, <2>9, <2>10, <2>12, <3>2, WriteHandled, EventKeeps
    <3>3. CASE /\ s \in In("WAIT") /\ JobDone(s, x)
               /\ ignore' = IF x.ok THEN ignore ELSE ignore \cup {s}
      <4>1. Handled(s) /\ s \in In("WRITE")'
        BY <2>2, <2>6, <3>3, JobDoneHandled
      <4>2. ignore' = ignore \/ (ignore' = ignore \cup {s} /\ s \in In("WRITE")')
        BY <3>3, <4>1
      <4> QED BY <1>1, <2>1, <2>2, <2>3, <2>4, <2>7, <2>8, <2>9, <2>10, <2>12, <4>1, <4>2, EventKeeps
    <3> QED BY <2>12, <3>1, <3>2, <3>3 DEF HandleResult
  <2> QED BY <1>3, <2>11, <2>12 DEF DispatchJobResult, x, s
<1> QED BY <1>2, <1>3 DEF DispatchJobResult

LEMMA StepTick == ASSUME IInv, Tick PROVE IInv'
<1> USE DEF IInv
<1> DEFINE idle == {s \in Open : connection_map[s].idle}
<1>1. /\ Running /\ OwnInv /\ WaitInv /\ PolledInv /\ pc = "act" /\ polled = NothingPolled
  BY DEF Tick, LoopInv, Running
<1>2. /\ connection_map' = [s \in Fds |-> IF s \in idle THEN HandleTimeout(connection_map[s])
                                          ELSE connection_map[s]]
      /\ client' = [s \in Fds |-> IF connection_map'[s] = None THEN "quiet" ELSE client[s]]
      /\ late' = late \cup (idle \cap In("WAIT"))
      /\ polled' = [NothingPolled EXCEPT !.readable =
                      {s \in Fds : connection_map'[s] # None /\ connection_map'[s].wait_for = "READ"
                                   /\ connection_map'[s].has_data}]
      /\ pc' \in {"select", "act"} /\ ignore' = {}
      /\ UNCHANGED <<backlog, request_queue, result_queue, worker, control, stop, nones,
                     connections, requests, timeouts>>
  BY DEF Tick, pool
<1>3. ASSUME NEW s \in idle
      PROVE  /\ s \in Fds /\ connection_map'[s] \in Connection \cup {None}
             /\ connection_map'[s] \in Connection => /\ connection_map'[s].wait_for = "WRITE"
                                                     /\ connection_map'[s].answer = None
             /\ s \in In("WAIT") => connection_map'[s] \in Connection
  <2> DEFINE c == connection_map[s]
             d == Respond(c, None, TRUE)
  <2>1. s \in Fds /\ c \in Connection /\ connection_map'[s] = HandleTimeout(c)
    BY <1>2, InFacts
  <2>2. d \in Connection /\ d.wait_for = "WRITE" /\ d.answer = None
    BY <2>1, RespondFacts
  <2> HIDE DEF d
  <2>3. /\ [d EXCEPT !.idle = FALSE] \in Connection
        /\ [d EXCEPT !.idle = FALSE].wait_for = "WRITE" /\ [d EXCEPT !.idle = FALSE].answer = None
    BY <2>2 DEF Connection
  <2>4. s \in In("WAIT") => c.wait_for = "WAIT"
    BY InFacts
  <2> QED BY <2>1, <2>2, <2>3, <2>4, NoneAssumption DEF HandleTimeout, d
<1>4. \A s \in Fds \ idle : connection_map'[s] = connection_map[s]
  BY <1>2
<1>5. connection_map' \in [Fds -> Connection \cup {None}]
  <2>1. \A s \in Fds : connection_map'[s] \in Connection \cup {None}
    BY <1>3, <1>4 DEF TypesInv
  <2>2. connection_map' = [s \in Fds |-> connection_map'[s]]
    BY <1>2
  <2> HIDE DEF idle
  <2> QED BY <2>1, <2>2
<1>6. client' \in [Fds -> {"quiet", "request", "gone"}]
  BY <1>2 DEF TypesInv
<1>7. /\ late' \in SUBSET Fds /\ late \subseteq late'
      /\ polled' \in [listener : BOOLEAN, control : BOOLEAN, readable : SUBSET Fds,
                     writable : SUBSET Fds]
      /\ ~polled'.listener /\ polled'.writable = {}
      /\ polled'.readable = {s \in Fds : connection_map'[s] # None
                                         /\ connection_map'[s].wait_for = "READ"
                                         /\ connection_map'[s].has_data}
  <2>1. late' \in SUBSET Fds /\ late \subseteq late'
    BY <1>2, InFacts DEF TypesInv
  <2> QED BY <1>2, <2>1 DEF NothingPolled
<1>8. TypesInv'
  BY <1>2, <1>5, <1>6, <1>7 DEF TypesInv
<1>9. Outstanding' = Outstanding /\ OnceInv'
  BY <1>2 DEF Outstanding, OnceInv, JobsInWork, Busy
<1>10. \A state : \A s \in Fds \ idle : s \in In(state)' <=> s \in In(state)
  BY <1>4, <1>5, InFacts, InFactsNext
<1>11. \A s \in idle : s \notin In("WAIT")' /\ s \notin In("READ")'
  BY <1>3, <1>5, InFactsNext
<1>12. \A state : In(state) \subseteq Fds /\ In(state)' \subseteq Fds
  BY <1>5, InFacts, InFactsNext
<1>13. OwnInv'
  <2>1. ASSUME NEW job \in Outstanding, job.s \notin late'
        PROVE  job.s \in In("WAIT")' /\ connection_map'[job.s].request = job.request
    <3>1. job.s \in In("WAIT") /\ connection_map[job.s].request = job.request
      BY <1>1, <1>7, <2>1 DEF OwnInv
    <3>2. job.s \in Fds \ idle
      BY <1>2, <1>12, <2>1, <3>1
    <3> QED BY <1>4, <1>10, <3>1, <3>2
  <2> QED BY <1>1, <1>2, <1>9, <2>1 DEF OwnInv
<1>14. WaitInv'
  <2>1. ASSUME NEW s \in In("WAIT")'
        PROVE  [s |-> s, request |-> connection_map'[s].request] \in Outstanding
    <3>1. s \in Fds \ idle
      BY <1>11, <1>12, <2>1
    <3> QED BY <1>1, <1>4, <1>10, <2>1, <3>1 DEF WaitInv
  <2> QED BY <1>9, <2>1 DEF WaitInv
<1>15. PolledInv'
  <2>1. \A s \in polled'.readable : s \in In("READ")'
    BY <1>5, <1>7, InFactsNext
  <2> QED BY <1>1, <1>2, <1>7, <2>1 DEF PolledInv
<1>16. AnswerBelongs'
  <2>1. ASSUME NEW s \in In("WRITE")', s \notin late', connection_map'[s].answer # None
        PROVE  connection_map'[s].answer = connection_map'[s].request
    <3>1. s \in Fds /\ connection_map'[s] \in Connection
      BY <1>5, <2>1, InFactsNext
    <3>2. s \notin idle
      BY <1>3, <2>1, <3>1
    <3> QED BY <1>4, <1>7, <1>10, <2>1, <3>1, <3>2 DEF AnswerBelongs
  <2> QED BY <2>1 DEF AnswerBelongs
<1>17. Running'
  BY <1>2 DEF Running
<1> QED BY <1>8, <1>9, <1>13, <1>14, <1>15, <1>16, <1>17 DEF LoopInv

LEMMA StepSelect == ASSUME IInv, Select PROVE IInv'
<1> USE DEF IInv
<1>1. /\ Running /\ PolledInv /\ pc' = "act"
      /\ stop' \in {"no", "wakeup", "done"}
      /\ UNCHANGED <<connection_map, client, backlog, connections, request_queue, result_queue,
                     worker, control, ignore, nones, late, requests, timeouts>>
  BY DEF Select, LoopInv, Running, clients, pool, TypesInv
<1>2. \/ polled' = [listener |-> backlog > 0, control |-> control,
                    readable |-> {s \in ReadNeeded : client[s] # "quiet"},
                    writable |-> In("WRITE")]
      \/ polled' = NothingPolled
  BY DEF Select
<1>3. /\ polled' \in [listener : BOOLEAN, control : BOOLEAN, readable : SUBSET Fds,
                      writable : SUBSET Fds]
      /\ polled'.listener => backlog > 0
      /\ polled'.readable \subseteq In("READ") /\ polled'.writable \subseteq In("WRITE")
  <2>1. In("READ") \subseteq Fds /\ In("WRITE") \subseteq Fds /\ control \in BOOLEAN
    BY InFacts DEF TypesInv
  <2>2. CASE polled' = NothingPolled
    BY <2>2 DEF NothingPolled
  <2>3. CASE polled' = [listener |-> backlog > 0, control |-> control,
                        readable |-> {s \in ReadNeeded : client[s] # "quiet"},
                        writable |-> In("WRITE")]
    <3> DEFINE R == {s \in ReadNeeded : client[s] # "quiet"}
               L == backlog > 0
    <3>1. R \subseteq In("READ") /\ L \in BOOLEAN
      BY DEF ReadNeeded
    <3> HIDE DEF R
    <3> QED BY <2>1, <2>3, <3>1 DEF R
  <2> QED BY <1>2, <2>2, <2>3
<1>4. TypesInv' /\ Running'
  BY <1>1, <1>3 DEF TypesInv, Running
<1> QED BY <1>1, <1>3, <1>4, FrameKeeps DEF PolledInv

LEMMA StepReadControl == ASSUME IInv, ReadControl PROVE IInv'
<1> USE DEF IInv
<1>1. /\ Running /\ PolledInv /\ pc' \in {"act", "drain"} /\ control' \in BOOLEAN
      /\ polled' = [polled EXCEPT !.control = FALSE]
      /\ UNCHANGED <<connection_map, client, backlog, connections, request_queue, result_queue,
                     worker, ignore, stop, nones, late, requests, timeouts>>
  BY DEF ReadControl, LoopInv, Running, clients, pool
<1>2. /\ polled' \in [listener : BOOLEAN, control : BOOLEAN, readable : SUBSET Fds,
                      writable : SUBSET Fds]
      /\ polled'.listener = polled.listener
      /\ polled'.readable = polled.readable /\ polled'.writable = polled.writable
  BY <1>1 DEF TypesInv
<1>3. TypesInv' /\ Running'
  BY <1>1, <1>2 DEF TypesInv, Running
<1> QED BY <1>1, <1>2, <1>3, FrameKeeps DEF PolledInv

\* A step that may open a connection or mark one as idle.
LEMMA StepAccept == ASSUME IInv, Accept PROVE IInv'
<1> USE DEF IInv
<1>1. /\ Running /\ PolledInv /\ OwnInv /\ WaitInv /\ polled.listener
      /\ polled' = [polled EXCEPT !.listener = FALSE] /\ backlog' = backlog - 1
      /\ UNCHANGED <<client, connections, request_queue, result_queue, worker, control, pc,
                     ignore, stop, nones, late, requests, timeouts>>
  BY DEF Accept, LoopInv, Running, clients, pool
<1>2. /\ polled' \in [listener : BOOLEAN, control : BOOLEAN, readable : SUBSET Fds,
                      writable : SUBSET Fds]
      /\ ~polled'.listener
      /\ polled'.readable = polled.readable /\ polled'.writable = polled.writable
  BY <1>1 DEF TypesInv
<1>3. /\ backlog' \in 0..MaxConnections /\ backlog' <= connections'
  BY <1>1, CounterFacts, BoundsAssumption DEF PolledInv
<1>4. CASE UNCHANGED connection_map
  <2>1. TypesInv' /\ Running'
    BY <1>1, <1>2, <1>3, <1>4 DEF TypesInv, Running
  <2> QED BY <1>1, <1>2, <1>3, <1>4, <2>1, FrameKeeps DEF PolledInv
<1>5. ASSUME NEW s \in Fds \ Open, Becomes(s, Fresh) PROVE IInv'
  <2>1. /\ connection_map' \in [Fds -> Connection \cup {None}] /\ connection_map'[s] = Fresh
        /\ \A t \in Fds \ {s} : connection_map'[t] = connection_map[t]
    BY <1>5, ConnectionFacts DEF Becomes, TypesInv
  <2>2. TypesInv' /\ Running'
    BY <1>1, <1>2, <1>3, <2>1 DEF TypesInv, Running
  <2>3. /\ \A state : s \notin In(state)
        /\ s \notin In("WAIT")' /\ s \notin In("WRITE")'
        /\ \A state : \A t \in Fds \ {s} : t \in In(state)' <=> t \in In(state)
        /\ \A state : In(state) \subseteq Fds /\ In(state)' \subseteq Fds
    BY <1>5, <2>1, InFacts, InFactsNext, ConnectionFacts
  <2>4. /\ In("WAIT")' = In("WAIT") /\ In("WRITE")' = In("WRITE") /\ In("READ") \subseteq In("READ")'
        /\ \A t \in In("WAIT") \cup In("WRITE") : connection_map'[t] = connection_map[t]
    <3>1. In("WAIT")' = In("WAIT")
      BY <2>3
    <3>2. In("WRITE")' = In("WRITE")
      BY <2>3
    <3>3. In("READ") \subseteq In("READ")'
      BY <2>3
    <3>4. \A t \in In("WAIT") \cup In("WRITE") : t \in Fds \ {s}
      BY <2>3
    <3> QED BY <2>1, <3>1, <3>2, <3>3, <3>4
  <2>5. Outstanding' = Outstanding /\ OnceInv'
    BY <1>1 DEF Outstanding, OnceInv, JobsInWork, Busy
  <2>6. OwnInv' /\ WaitInv'
    BY <1>1, <2>4, <2>5 DEF OwnInv, WaitInv
  <2>7. PolledInv'
    BY <1>1, <1>2, <1>3, <2>4 DEF PolledInv
  <2>8. AnswerBelongs'
    BY <1>1, <2>4 DEF AnswerBelongs
  <2> QED BY <2>2, <2>5, <2>6, <2>7, <2>8 DEF LoopInv
<1> QED BY <1>4, <1>5 DEF Accept
-----------------------------------------------------------------------------
(* The other steps. *)

LEMMA StepIdleForTooLong == ASSUME IInv, NEW s \in Fds, IdleForTooLong(s) PROVE IInv'
<1> USE DEF IInv
<1>1. /\ s \in Open /\ timeouts' \in 0..MaxTimeouts
      /\ connection_map' = [connection_map EXCEPT ![s].idle = TRUE]
      /\ UNCHANGED <<client, backlog, connections, request_queue, result_queue, worker, control,
                     pc, polled, ignore, stop, nones, late, requests>>
  BY CounterFacts, BoundsAssumption DEF IdleForTooLong, clients, pool, loop
<1>2. Running /\ OwnInv /\ WaitInv /\ PolledInv
  BY <1>1 DEF LoopInv
<1> DEFINE c == connection_map[s]
           d == [c EXCEPT !.idle = TRUE]
<1>3. c \in Connection /\ d \in Connection /\ d.wait_for = c.wait_for /\ d.request = c.request
      /\ d.answer = c.answer
  <2>1. c \in Connection
    BY <1>1, InFacts
  <2> QED BY <2>1 DEF Connection
<1> HIDE DEF d
<1>4. /\ connection_map' \in [Fds -> Connection \cup {None}] /\ connection_map'[s] = d
      /\ \A t \in Fds \ {s} : connection_map'[t] = connection_map[t]
  BY <1>1, <1>3 DEF TypesInv, d
<1>5. \A state : In(state)' = In(state)
  <2> SUFFICES ASSUME NEW state PROVE In(state)' = In(state)
    OBVIOUS
  <2>1. In(state) \subseteq Fds /\ In(state)' \subseteq Fds
    BY <1>4, InFacts, InFactsNext
  <2>2. \A t \in Fds : t \in In(state)' <=> t \in In(state)
    BY <1>3, <1>4, InFacts, InFactsNext
  <2> QED BY <2>1, <2>2
<1>6. \A t \in Fds : connection_map[t] \in Connection =>
        /\ connection_map'[t].request = connection_map[t].request
        /\ connection_map'[t].answer = connection_map[t].answer
  BY <1>3, <1>4
<1>7. \A state : \A t \in In(state) : t \in Fds /\ connection_map[t] \in Connection
  BY InFacts
<1>8. Outstanding' = Outstanding /\ OnceInv'
  BY <1>1 DEF Outstanding, OnceInv, JobsInWork, Busy
<1>9. OwnInv' /\ WaitInv' /\ PolledInv'
  <2>1. OwnInv'
    BY <1>1, <1>2, <1>5, <1>6, <1>7, <1>8 DEF OwnInv
  <2>2. WaitInv'
    BY <1>1, <1>2, <1>5, <1>6, <1>7, <1>8 DEF WaitInv
  <2>3. PolledInv'
    BY <1>1, <1>2, <1>5 DEF PolledInv
  <2> QED BY <2>1, <2>2, <2>3
<1>10. AnswerBelongs'
  BY <1>1, <1>5, <1>6, <1>7 DEF AnswerBelongs
<1>11. TypesInv' /\ Running'
  BY <1>1, <1>2, <1>4 DEF TypesInv, Running
<1> QED BY <1>8, <1>9, <1>10, <1>11 DEF LoopInv

\* A step that changes neither connections nor jobs nor what the loop knows.
LEMMA OutsideKeeps ==
  ASSUME IInv, TypesInv', backlog' <= connections', backlog <= backlog',
         UNCHANGED <<connection_map, request_queue, result_queue, worker, pc, polled, ignore,
                     late, requests>>
  PROVE  IInv'
<1>1. Open' = Open /\ In("WAIT")' = In("WAIT") /\ In("READ")' = In("READ")
      /\ In("WRITE")' = In("WRITE") /\ Running' = Running
  BY DEF In, Open, Running
<1>2. Outstanding' = Outstanding /\ OnceInv'
  BY DEF IInv, Outstanding, OnceInv, JobsInWork, Busy
<1>3. backlog \in Nat /\ backlog' \in Nat
  <2>1. backlog' \in 0..MaxConnections
    BY DEF TypesInv
  <2> QED BY <2>1, CounterFacts, BoundsAssumption DEF IInv
<1>4. LoopInv'
  <2>1. PolledInv => PolledInv'
    BY <1>1, <1>3 DEF PolledInv
  <2>2. OwnInv' = OwnInv /\ WaitInv' = WaitInv
    BY <1>1, <1>2 DEF OwnInv, WaitInv
  <2> QED BY <1>1, <2>1, <2>2 DEF IInv, LoopInv
<1>5. AnswerBelongs'
  BY <1>1 DEF IInv, AnswerBelongs
<1> QED BY <1>2, <1>4, <1>5 DEF IInv

LEMMA BacklogBound == ASSUME IInv PROVE backlog <= connections /\ backlog \in Nat
BY CounterFacts DEF IInv, LoopInv, PolledInv

LEMMA StepConnect == ASSUME IInv, Connect PROVE IInv'
<1>1. /\ backlog <= connections /\ backlog \in Nat /\ connections \in Nat
      /\ backlog' = backlog + 1 /\ connections' = connections + 1 /\ connections < MaxConnections
  BY BacklogBound, CounterFacts DEF Connect, IInv
<1>2. backlog' \in 0..MaxConnections /\ connections' \in 0..MaxConnections
      /\ backlog' <= connections' /\ backlog <= backlog'
  BY <1>1, BoundsAssumption
<1>3. UNCHANGED <<connection_map, client, request_queue, result_queue, worker, control, pc, polled,
                 ignore, stop, nones, late, requests, timeouts>>
  BY DEF Connect, pool, loop
<1>4. TypesInv'
  BY <1>2, <1>3 DEF IInv, TypesInv
<1> QED BY <1>2, <1>3, <1>4, OutsideKeeps

LEMMA StepClientActs == ASSUME IInv, NEW s \in Fds, ClientActs(s) PROVE IInv'
<1>1. /\ client' \in [Fds -> {"quiet", "request", "gone"}]
      /\ UNCHANGED <<connection_map, backlog, connections, request_queue, result_queue, worker,
                     control, pc, polled, ignore, stop, nones, late, requests, timeouts>>
  BY DEF ClientActs, pool, loop, IInv, TypesInv
<1>2. TypesInv'
  BY <1>1 DEF IInv, TypesInv
<1> QED BY <1>1, <1>2, BacklogBound, OutsideKeeps

LEMMA StepStop == ASSUME IInv, Stop PROVE IInv'
<1>1. /\ stop' \in {"no", "wakeup", "done"} /\ control' \in BOOLEAN
      /\ UNCHANGED <<connection_map, client, backlog, connections, request_queue, result_queue,
                     worker, pc, polled, ignore, nones, late, requests, timeouts>>
  BY DEF Stop, clients, pool, loop, IInv, TypesInv
<1>2. TypesInv'
  BY <1>1 DEF IInv, TypesInv
<1> QED BY <1>1, <1>2, BacklogBound, OutsideKeeps

LEMMA StepShutdown == ASSUME IInv, Shutdown PROVE IInv'
<1>1. /\ pc = "act" /\ pc' \in {"close", "blocked"} /\ polled = NothingPolled
      /\ UNCHANGED <<connection_map, client, backlog, connections, request_queue, result_queue,
                     worker, control, polled, ignore, stop, nones, late, requests, timeouts>>
  BY DEF Shutdown, clients, pool
<1>2. TypesInv' /\ Running /\ Running'
  BY <1>1 DEF IInv, TypesInv, Running
<1>3. polled.readable = {} /\ polled.writable = {} /\ ~polled.listener
  BY <1>1 DEF NothingPolled
<1> QED BY <1>1, <1>2, <1>3, BacklogBound, FrameKeeps

\* When the connections are closed only the queue of requests changes.
LEMMA EndKeeps ==
  ASSUME IInv, TypesInv', ~Running', Open' = {}, backlog' <= connections', OnceInv'
  PROVE  IInv'
<1>1. AnswerBelongs'
  BY DEF AnswerBelongs, In
<1> QED BY <1>1 DEF IInv, LoopInv

LEMMA StepCloseConnections == ASSUME IInv, CloseConnections PROVE IInv'
<1>1. /\ connection_map' = [s \in Fds |-> None] /\ client' = [s \in Fds |-> "quiet"]
      /\ pc' = "stop pool"
      /\ UNCHANGED <<backlog, connections, request_queue, result_queue, worker, control, polled,
                     ignore, stop, nones, late, requests, timeouts>>
  BY DEF CloseConnections, pool
<1>2. TypesInv' /\ ~Running' /\ Open' = {}
  BY <1>1 DEF IInv, TypesInv, Running, Open
<1>3. OnceInv'
  BY <1>1 DEF IInv, OnceInv, JobsInWork, Busy
<1> QED BY <1>1, <1>2, <1>3, BacklogBound, EndKeeps

LEMMA StepStopWorker == ASSUME IInv, StopWorker PROVE IInv'
<1>1. /\ pc = "stop pool"
      /\ UNCHANGED <<connection_map, client, backlog, connections, result_queue, worker, control,
                     polled, ignore, stop, late, requests, timeouts>>
  BY DEF StopWorker, clients
<1>2. Open' = {} /\ backlog' <= connections'
  BY <1>1, BacklogBound DEF IInv, LoopInv, Running, Open
<1>3. CASE pc' = "join" /\ UNCHANGED <<request_queue, nones>>
  <2>1. TypesInv' /\ ~Running'
    BY <1>1, <1>3 DEF IInv, TypesInv, Running
  <2>2. OnceInv'
    BY <1>1, <1>3 DEF IInv, OnceInv, JobsInWork, Busy
  <2> QED BY <1>2, <2>1, <2>2, EndKeeps
<1>4. CASE /\ nones < worker_count /\ HasRoom /\ nones' = nones + 1 /\ UNCHANGED pc
           /\ request_queue' = Append(request_queue, None)
  <2>1. request_queue \in Seq(Job \cup {None}) /\ Len(request_queue) < queue_size
        /\ Len(request_queue) \in Nat /\ queue_size \in Nat
    <3>1. request_queue \in Seq(Job \cup {None}) /\ queue_size \in Nat
      BY SizesAssumption DEF IInv, TypesInv
    <3>2. Len(request_queue) \in Nat
      BY <3>1
    <3> QED BY <1>4, <3>1, <3>2 DEF HasRoom
  <2>2. request_queue' \in Seq(Job \cup {None}) /\ Len(request_queue') <= queue_size
    BY <1>4, <2>1, AppendIndices
  <2>3. nones' \in 0..worker_count
    BY <1>4, CounterFacts, SizesAssumption DEF IInv
  <2>4. TypesInv' /\ ~Running'
    BY <1>1, <1>4, <2>2, <2>3 DEF IInv, TypesInv, Running
  <2>5. None \notin QueuedIn(request_queue)
    BY DEF QueuedIn
  <2>6. QueuedIn(request_queue') = QueuedIn(request_queue) /\ OnceQueued(request_queue')
    BY <1>4, <2>1, <2>5, AppendQueued DEF IInv, OnceInv
  <2>7. Busy' = Busy /\ JobsInWork' = JobsInWork
    BY <1>1 DEF Busy, JobsInWork
  <2>8. OnceInv'
    BY <1>1, <2>6, <2>7 DEF IInv, OnceInv
  <2> QED BY <1>2, <2>4, <2>8, EndKeeps
<1> QED BY <1>3, <1>4 DEF StopWorker

LEMMA StepJoinWorkers == ASSUME IInv, JoinWorkers PROVE IInv'
<1>1. /\ pc = "join" /\ pc' = "end"
      /\ UNCHANGED <<connection_map, client, backlog, connections, request_queue, result_queue,
                     worker, control, polled, ignore, stop, nones, late, requests, timeouts>>
  BY DEF JoinWorkers, clients, pool
<1>2. Open' = {} /\ backlog' <= connections'
  BY <1>1, BacklogBound DEF IInv, LoopInv, Running, Open
<1>3. TypesInv' /\ ~Running'
  BY <1>1 DEF IInv, TypesInv, Running
<1>4. OnceInv'
  BY <1>1 DEF IInv, OnceInv, JobsInWork, Busy
<1> QED BY <1>2, <1>3, <1>4, EndKeeps
-----------------------------------------------------------------------------
(* The theorems. *)

LEMMA Initial == Init => IInv
<1> SUFFICES ASSUME Init PROVE IInv
  OBVIOUS
<1> USE DEF Init
<1>1. Open = {} /\ In("WAIT") = {} /\ In("WRITE") = {} /\ In("READ") = {}
  BY DEF Open, In
<1>2. Busy = {} /\ JobsInWork = {}
  BY DEF Busy, JobsInWork
<1>3. DOMAIN request_queue = {} /\ DOMAIN result_queue = {}
  OBVIOUS
<1>4. QueuedIn(request_queue) = {} /\ FinishedIn(result_queue) = {}
  BY <1>3 DEF QueuedIn, FinishedIn
<1>5. OnceInv
  BY <1>2, <1>3, <1>4 DEF OnceInv, OnceQueued, OnceFinished
<1>6. TypesInv
  <2>1. /\ request_queue \in Seq(Job \cup {None}) /\ Len(request_queue) <= queue_size
        /\ result_queue \in Seq(ResultRecord) /\ Len(result_queue) <= queue_size
    BY SizesAssumption
  <2>2. [state |-> "get"] \in WorkerState
    BY DEF WorkerState
  <2>3. polled \in [listener : BOOLEAN, control : BOOLEAN, readable : SUBSET Fds,
                   writable : SUBSET Fds]
    BY DEF NothingPolled
  <2>4. 0 \in 0..MaxConnections /\ 0 \in 0..MaxRequests /\ 0 \in 0..MaxTimeouts
        /\ 0 \in 0..worker_count
    BY BoundsAssumption, SizesAssumption
  <2> QED BY <2>1, <2>2, <2>3, <2>4 DEF TypesInv
<1>7. OwnInv /\ WaitInv /\ PolledInv
  BY <1>1, <1>2, <1>4 DEF OwnInv, WaitInv, PolledInv, Outstanding, NothingPolled
<1>8. AnswerBelongs /\ Running
  BY <1>1 DEF AnswerBelongs, Running
<1> QED BY <1>5, <1>6, <1>7, <1>8 DEF IInv, LoopInv

LEMMA Step == IInv /\ [Next]_vars => IInv'
<1> SUFFICES ASSUME IInv, [Next]_vars PROVE IInv'
  OBVIOUS
<1>1. CASE Connect
  BY <1>1, StepConnect
<1>2. CASE Stop
  BY <1>2, StepStop
<1>3. CASE Loop
  BY <1>3, StepTick, StepSelect, StepAccept, StepReadControl, StepDispatchJobResult,
     StepReadReady, StepWriteReady, StepShutdown, StepCloseConnections, StepStopWorker, StepJoinWorkers DEF Loop
<1>4. CASE \E s \in Fds : ClientActs(s) \/ IdleForTooLong(s)
  BY <1>4, StepClientActs, StepIdleForTooLong
<1>5. CASE \E w \in Workers : Worker(w)
  BY <1>5, StepWorker
<1>6. CASE UNCHANGED vars
  <2>1. TypesInv' /\ backlog' = backlog /\ connections' = connections
    BY <1>6 DEF vars, IInv, TypesInv
  <2> QED BY <1>6, <2>1, BacklogBound, OutsideKeeps DEF vars
<1> QED BY <1>1, <1>2, <1>3, <1>4, <1>5, <1>6 DEF Next

\* The invariant of the loop, its queues and its threads, which the other
\* theorems follow from.
THEOREM Invariance == Spec => []IInv
<1> QED BY Initial, Step, PTL DEF Spec

\* A job of Outstanding is in a queue or in the hands of a worker.
LEMMA OutstandingHasJob ==
  ASSUME TypesInv, NEW s \in Fds, NEW r, [s |-> s, request |-> r] \in Outstanding
  PROVE  HasJob(s, r)
<1> DEFINE job == [s |-> s, request |-> r]
<1>1. CASE job \in QueuedIn(request_queue)
  BY <1>1 DEF QueuedIn, HasJob
<1>2. CASE job \in JobsInWork
  <2>1. PICK w \in Workers : worker[w].state = "work" /\ worker[w].job = job
    BY <1>2 DEF JobsInWork, Busy
  <2>2. worker[w] = [state |-> "work", job |-> job]
    BY <2>1, WorkerFacts
  <2> QED BY <2>2 DEF HasJob
<1>3. CASE job \in FinishedIn(result_queue)
  BY <1>3 DEF FinishedIn, JobOf, HasJob
<1> QED BY <1>1, <1>2, <1>3 DEF Outstanding

\* The variables keep their types, the queues of the ThreadPool their size.
THEOREM TypeCorrect == Spec => []TypeOK
<1>1. IInv => TypeOK
  BY DEF IInv, TypesInv, TypeOK, ResultRecord
<1> QED BY <1>1, Invariance, PTL

\* What the control pipe is for: the loop hears of every result and of stop.
WakeInv == /\ result_queue # <<>> => \/ control \/ pc = "drain" \/ stop = "done"
                                     \/ \E w \in Workers : worker[w].state = "notify"
           /\ pc = "select" /\ stop = "done" => control

LEMMA WakeStep == IInv /\ WakeInv /\ [Next]_vars => WakeInv'
<1> SUFFICES ASSUME IInv, WakeInv, [Next]_vars PROVE WakeInv'
  OBVIOUS
<1>1. /\ worker \in [Workers -> WorkerState]
      /\ stop \in {"no", "wakeup", "done"}
  BY DEF IInv, TypesInv
\* The queue of results, the pipe and the worker threads are left alone, and the
\* loop does not leave dispatch_job_results or fall asleep.
<1>2. ASSUME UNCHANGED <<result_queue, control, worker, stop>>, pc # "drain",
             pc' = "select" => stop # "done" \/ pc = "select"
      PROVE  WakeInv'
  BY <1>2 DEF WakeInv
<1>3. CASE UNCHANGED vars \/ Connect \/ \E s \in Fds : ClientActs(s) \/ IdleForTooLong(s)
  <2>1. UNCHANGED <<result_queue, control, worker, stop, pc>>
    BY <1>3 DEF vars, Connect, ClientActs, IdleForTooLong, pool, loop
  <2> QED BY <2>1 DEF WakeInv
<1>4. CASE Stop
  BY <1>4 DEF Stop, WakeInv, pool, loop
<1>5. CASE Tick
  BY <1>2, <1>5 DEF Tick, ready, pool
<1>6. CASE Select
  <2>1. /\ UNCHANGED <<result_queue, control, worker>> /\ pc = "select" /\ pc' = "act"
        /\ stop' \in {stop, "done"}
    BY <1>6 DEF Select, pool
  <2> QED BY <2>1 DEF WakeInv
<1>14. CASE Accept
  BY <1>2, <1>14 DEF Accept, pool
<1>7. CASE ReadControl
  BY <1>7 DEF ReadControl, WakeInv, pool
<1>8. CASE DispatchJobResult
  BY <1>8 DEF DispatchJobResult, WakeInv
<1>9. CASE \E s \in Fds : ReadReady(s) \/ WriteReady(s)
  BY <1>2, <1>9 DEF ReadReady, WriteReady
<1>10. CASE Shutdown \/ CloseConnections \/ StopWorker \/ JoinWorkers
  BY <1>2, <1>10 DEF Shutdown, CloseConnections, StopWorker, JoinWorkers, pool
<1>11. ASSUME NEW w \in Workers, GetJob(w) PROVE WakeInv'
  <2>1. UNCHANGED <<result_queue, control, stop, pc>> /\ worker[w].state = "get"
    BY <1>11 DEF GetJob, loop
  <2>2. \A u \in Workers : u # w => worker'[u] = worker[u]
    BY <1>1, <1>11 DEF GetJob
  <2> QED BY <2>1, <2>2 DEF WakeInv
<1>12. ASSUME NEW w \in Workers, FinishJob(w) PROVE WakeInv'
  <2>1. UNCHANGED <<control, stop, pc>> /\ worker'[w].state = "notify"
    BY <1>1, <1>12 DEF FinishJob, loop
  <2> QED BY <2>1 DEF WakeInv
<1>13. ASSUME NEW w \in Workers, Notify(w) PROVE WakeInv'
  BY <1>13 DEF Notify, WakeInv
<1> QED BY <1>3, <1>4, <1>5, <1>6, <1>7, <1>8, <1>9, <1>10, <1>11, <1>12, <1>13, <1>14
        DEF Next, Loop, Worker

\* As long as a connection waits its job is in a queue or in work: no event of
\* the loop (srv/loop.py) loses it.  A result is fetched or announced, and who
\* stops the server wakes it, whatever other bytes the pipe held.
THEOREM WakesUp == Spec => []NoLostWakeUp
<1>1. Init => WakeInv
  BY DEF Init, WakeInv
<1>2. IInv /\ WakeInv => NoLostWakeUp
  <2> SUFFICES ASSUME IInv, WakeInv PROVE NoLostWakeUp
    OBVIOUS
  <2>1. ASSUME NEW s \in In("WAIT") PROVE HasJob(s, connection_map[s].request)
    <3>1. Open # {} /\ s \in Fds
      BY InFacts DEF IInv, In
    <3>2. [s |-> s, request |-> connection_map[s].request] \in Outstanding
      BY <3>1 DEF IInv, LoopInv, WaitInv
    <3> QED BY <3>1, <3>2, OutstandingHasJob DEF IInv
  <2> QED BY <2>1 DEF WakeInv, NoLostWakeUp
<1> QED BY <1>1, <1>2, WakeStep, Invariance, PTL DEF Spec

\* However many descriptors, workers and requests there are, job_done answers a
\* connection with the result of its own request, unless a connection with that
\* descriptor timed out while its job was running.
THEOREM AnswersBelong == Spec => []AnswerBelongs
<1>1. IInv => AnswerBelongs
  BY DEF IInv
<1> QED BY <1>1, Invariance, PTL

\* Connections are closed all at once only by a server that was told to stop.
CloseInv == pc = "close" => ~ready

LEMMA CloseStep == CloseInv /\ IInv /\ [Next]_vars => CloseInv'
<1> SUFFICES ASSUME CloseInv, IInv, [Next]_vars PROVE CloseInv'
  OBVIOUS
<1>1. CASE UNCHANGED vars \/ Connect \/ (\E s \in Fds : ClientActs(s) \/ IdleForTooLong(s))
           \/ \E w \in Workers : Worker(w)
  <2>1. UNCHANGED <<pc, stop>>
    BY <1>1 DEF vars, Connect, ClientActs, IdleForTooLong, Worker, GetJob, FinishJob, Notify, loop
  <2> QED BY <2>1 DEF CloseInv, ready
<1>2. CASE Stop
  BY <1>2 DEF Stop, CloseInv, ready, loop
<1>3. CASE Shutdown
  BY <1>3 DEF Shutdown, CloseInv, ready
<1>4. CASE Loop /\ ~Shutdown
  <2>1. pc' # "close"
    BY <1>4 DEF Loop, Tick, Select, Accept, ReadControl, DispatchJobResult, ReadReady, WriteReady,
                CloseConnections, StopWorker, JoinWorkers
  <2> QED BY <2>1 DEF CloseInv
<1> QED BY <1>1, <1>2, <1>3, <1>4 DEF Next

\* A connection that waits for its result is answered, by job_done or
\* handle_timeout, before it is closed, unless the server shuts down.
THEOREM ClosedAfterAnswer == Spec => AnsweredBeforeClosed
<1> DEFINE Kind == \A s \in In("WAIT") : connection_map'[s] = None => ~ready
<1>1. IInv /\ CloseInv /\ [Next]_vars => [Kind]_vars
  <2> SUFFICES ASSUME IInv, CloseInv, Next PROVE Kind
    OBVIOUS
  <2> USE DEF IInv
  <2>1. \A s \in In("WAIT") : s \in Fds /\ connection_map[s] # None
    BY InFacts DEF In, Open
  <2>2. CASE UNCHANGED connection_map
    BY <2>1, <2>2
  <2>3. CASE Tick
    <3>1. ASSUME NEW s \in In("WAIT")
          PROVE  connection_map'[s] # None
      <4> DEFINE c == connection_map[s]
      <4>1. s \in Fds /\ c \in Connection /\ c.wait_for = "WAIT"
        BY InFacts
      <4>2. connection_map'[s] \in {HandleTimeout(c), c}
        BY <4>1, <2>3 DEF Tick
      <4>3. Respond(c, None, TRUE) \in Connection
        BY <4>1, RespondFacts
      <4>4. HandleTimeout(c) \in Connection
        BY <4>1, <4>3, ConnectionFacts DEF HandleTimeout
      <4> QED BY <4>1, <4>2, <4>4, NoneAssumption
    <3> QED BY <3>1
  <2>4. CASE CloseConnections
    <3>1. pc = "close"
      BY <2>4 DEF CloseConnections
    <3> QED BY <3>1 DEF CloseInv
  <2>5. ASSUME NEW s \in Fds, HandleEvent(s) \/ \E x \in ResultRecord : HandleResult(s, x)
        PROVE  Kind
    <3>1. ASSUME NEW t \in In("WAIT") PROVE connection_map'[t] # None
      <4>1. CASE t # s
        <5>1. \E c : Becomes(s, c) \/ UNCHANGED connection_map
          BY <2>5 DEF HandleEvent, HandleResult, HandleRead, HandleWrite, ParseRequest, QueueJob,
                      Close, NoResult, JobDone
        <5> QED BY <2>1, <4>1, <5>1 DEF Becomes, TypesInv
      <4>2. CASE t = s
        <5>1. s \notin In("READ") /\ s \notin In("WRITE")
          BY <4>2, InFacts
        <5>2. CASE NoResult(s)
          BY <4>2, <5>2, NoResultHandled, NoneAssumption DEF In, Open
        <5>3. ASSUME NEW x \in ResultRecord, JobDone(s, x) PROVE connection_map'[s] # None
          <6>1. PICK close \in BOOLEAN : Becomes(s, Respond(connection_map[s], x.request, close))
            BY <5>3 DEF JobDone
          <6>2. Respond(connection_map[s], x.request, close) \in Connection
            BY <4>2, InFacts, RespondFacts DEF ResultRecord
          <6> QED BY <6>1, <6>2, NoneAssumption DEF Becomes, TypesInv
        <5> QED BY <2>5, <4>2, <5>1, <5>2, <5>3 DEF HandleEvent, HandleResult
      <4> QED BY <4>1, <4>2
    <3> QED BY <3>1
  <2>6. CASE Accept
    <3>1. \/ UNCHANGED connection_map
          \/ \E s \in Fds \ Open : Becomes(s, Fresh)
      BY <2>6 DEF Accept
    <3>2. ASSUME NEW s \in Fds \ Open, Becomes(s, Fresh) PROVE Kind
      <4>1. \A t \in In("WAIT") : t # s
        BY <3>2 DEF In
      <4> QED BY <2>1, <3>2, <4>1 DEF Becomes, TypesInv
    <3> QED BY <2>2, <3>1, <3>2
  <2>7. CASE DispatchJobResult
    <3>1. result_queue # <<>> => Head(result_queue) \in ResultRecord
      BY TailIndices DEF TypesInv
    <3>2. \/ UNCHANGED connection_map
          \/ /\ result_queue # <<>>
             /\ HandleResult(Head(result_queue).s, Head(result_queue))
      BY <2>7 DEF DispatchJobResult
    <3>3. \A x \in ResultRecord : x.s \in Fds
      BY DEF ResultRecord
    <3> QED BY <2>2, <2>5, <3>1, <3>2, <3>3
  <2>8. ASSUME NEW s \in Fds, ReadReady(s) \/ WriteReady(s) PROVE Kind
    <3>1. UNCHANGED connection_map \/ HandleEvent(s)
      BY <2>8 DEF ReadReady, WriteReady
    <3> QED BY <2>2, <2>5, <3>1
  <2>9. ASSUME NEW s \in Fds, IdleForTooLong(s) PROVE Kind
    <3>1. s \in Open /\ connection_map' = [connection_map EXCEPT ![s].idle = TRUE]
      BY <2>9 DEF IdleForTooLong
    <3>2. connection_map[s] \in Connection
      BY <3>1, InFacts
    <3>3. [connection_map[s] EXCEPT !.idle = TRUE] # None
      BY <3>2, ConnectionFacts, NoneAssumption
    <3> QED BY <2>1, <3>1, <3>3 DEF TypesInv
  <2>10. CASE Connect \/ Stop \/ Select \/ ReadControl \/ Shutdown \/ StopWorker \/ JoinWorkers
              \/ (\E s \in Fds : ClientActs(s)) \/ \E w \in Workers : Worker(w)
    <3>1. UNCHANGED connection_map
      BY <2>10 DEF Connect, Stop, Select, ReadControl, Shutdown, StopWorker, JoinWorkers, ClientActs, Worker,
                   GetJob, FinishJob, Notify
    <3> QED BY <2>2, <3>1
  <2> QED BY <2>3, <2>4, <2>6, <2>7, <2>8, <2>9, <2>10 DEF Next, Loop
<1>2. Init => CloseInv
  BY DEF Init, CloseInv
<1> QED BY <1>1, <1>2, CloseStep, Invariance, PTL DEF Spec, AnsweredBeforeClosed
=============================================================================
