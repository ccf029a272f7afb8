-------------------------- MODULE WorkerPool_proofs --------------------------
(***************************************************************************)
(* The pool of worker processes for any number of workers, rounds and      *)
(* jobs: it implements JobService, uses the workers it may have, counts    *)
(* the jobs it has and runs each with the data of its round.               *)
(***************************************************************************)
EXTENDS WorkerPool, FiniteSetTheorems, TLAPS

-----------------------------------------------------------------------------
(* The jobs that queues and workers hold. *)

Event == [kind : {"job"}, job : Jobs] \cup [kind : {"data"}, round : 1..Rounds]
         \cup [kind : {"result"}, worker : Workers, job : Jobs, crashed : BOOLEAN]
         \cup [kind : {"stop"}]

\* The jobs of the events of a kind, each of which comes once.
JobsOf(q, kind) == {q[i].job : i \in {k \in DOMAIN q : q[k].kind = kind}}
OnceOf(q, kind) == \A i, k \in DOMAIN q :
                     i # k /\ q[i].kind = kind /\ q[k].kind = kind => q[i].job # q[k].job

Elements(q) == {q[i] : i \in DOMAIN q}
Once(q) == \A i, k \in DOMAIN q : i # k => q[i] # q[k]

\* The jobs that are still to be handed to a worker.
Unstarted == JobsOf(events, "job") \cup Elements(pending_jobs)
BusyJobs == {busy_workers[w] : w \in Busy}
Reported == JobsOf(events, "result")
-----------------------------------------------------------------------------
(* The invariant. *)

TypesInv ==
  /\ pc \in {"start", "wait", "announce", "drain", "terminal", "ended"}
  /\ event \in Event \cup {None}
  /\ events \in Seq(Event)
  /\ pending_jobs \in Seq(Jobs)
  /\ busy_workers \in [Workers -> Jobs \cup {None}]
  /\ alive \subseteq Workers
  /\ terminal_failure \in BOOLEAN /\ shutting_down \in BOOLEAN
  /\ answer \in [Jobs -> {"unasked", "none", "result", "lost"}]

\* After a failure the thread of the pool does nothing but answer what it has.
FailInv == /\ terminal_failure => pc \in {"terminal", "ended"}
           /\ pc = "terminal" => terminal_failure

\* Jobs are asked for in their order, and no more than there are in the rounds.
UserInv == /\ asked \in Nat /\ round \in 1..Rounds
           /\ user \in {"data", "put_data", "job", "count", "put_job", "results", "tasks", "last",
                        "done", "cancelled"}
           /\ user \in {"data", "put_data", "job", "count", "put_job"} => asked < round * RoundSize
           /\ asked <= round * RoundSize
           /\ \A j \in Jobs : answer[j] = "unasked" <=> j > asked

\* The job whose result is about to be put has no answer.
HandInv == pc = "announce" => event \in Event /\ event.kind = "result" /\ answer[event.job] = "none"

\* Until the pool shuts down, a job is in one place, where it waits for its
\* answer; the one exception is a job that is done, which its worker keeps until
\* the result has been handled.
PlacesInv ==
  /\ OnceOf(events, "job") /\ OnceOf(events, "result") /\ Once(pending_jobs)
  /\ JobsOf(events, "job") \cap Elements(pending_jobs) = {}
  /\ \A v, w \in Busy : busy_workers[v] = busy_workers[w] => v = w
  /\ Unstarted \cap (BusyJobs \cup Reported) = {}
  /\ \A i \in DOMAIN events, w \in Busy :
       events[i].kind = "result" /\ busy_workers[w] = events[i].job => w = events[i].worker
  /\ \A j \in Unstarted \cup BusyJobs \cup Reported : answer[j] = "none"
  /\ pc = "announce" => event.job \notin Unstarted \cup BusyJobs \cup Reported

IInv == TypesInv /\ FailInv /\ UserInv /\ HandInv /\ (~shutting_down => PlacesInv)
-----------------------------------------------------------------------------
(* Queues. *)

LEMMA NoneIsNoJob == None \notin Jobs /\ Jobs \subseteq Nat /\ Rounds * RoundSize \in Nat
<1>1. Rounds * RoundSize \in Nat
  BY RoundsAssumption
<1> QED BY <1>1, RoundsAssumption DEF Jobs

LEMMA TailIndices ==
  ASSUME NEW S, NEW q \in Seq(S), q # <<>>
  PROVE  /\ Head(q) = q[1] /\ Head(q) \in S /\ 1 \in DOMAIN q /\ Tail(q) \in Seq(S)
         /\ \A i \in DOMAIN Tail(q) : i + 1 \in DOMAIN q /\ Tail(q)[i] = q[i + 1]
         /\ \A i \in DOMAIN Tail(q) : i + 1 # 1
         /\ \A i, k \in DOMAIN Tail(q) : i # k => i + 1 # k + 1
OBVIOUS

LEMMA AppendIndices ==
  ASSUME NEW S, NEW q \in Seq(S), NEW x \in S
  PROVE  /\ Append(q, x) \in Seq(S)
         /\ DOMAIN Append(q, x) = DOMAIN q \cup {Len(q) + 1}
         /\ Len(q) + 1 \notin DOMAIN q
         /\ Append(q, x)[Len(q) + 1] = x
         /\ \A i \in DOMAIN q : Append(q, x)[i] = q[i]
OBVIOUS

LEMMA TailEvents ==
  ASSUME NEW q \in Seq(Event), q # <<>>
  PROVE  /\ Head(q) \in Event /\ Tail(q) \in Seq(Event)
         /\ Head(q) = q[1] /\ 1 \in DOMAIN q
         /\ \A i \in DOMAIN Tail(q) : \E k \in DOMAIN q : Tail(q)[i] = q[k]
         /\ \A kind : /\ JobsOf(Tail(q), kind) \subseteq JobsOf(q, kind)
                      /\ OnceOf(q, kind) => OnceOf(Tail(q), kind)
                      /\ Head(q).kind = kind =>
                           /\ Head(q).job \in JobsOf(q, kind)
                           /\ OnceOf(q, kind) => Head(q).job \notin JobsOf(Tail(q), kind)
<1> DEFINE t == Tail(q)
           D == DOMAIN q
           E == DOMAIN t
<1>1. /\ Head(q) = q[1] /\ Head(q) \in Event /\ 1 \in D /\ t \in Seq(Event)
      /\ \A i \in E : i + 1 \in D /\ t[i] = q[i + 1]
      /\ \A i \in E : i + 1 # 1
      /\ \A i, k \in E : i # k => i + 1 # k + 1
  BY TailIndices
<1> HIDE DEF t, D, E
<1>2. ASSUME NEW kind
      PROVE  /\ JobsOf(t, kind) \subseteq JobsOf(q, kind)
             /\ OnceOf(q, kind) => OnceOf(t, kind)
             /\ Head(q).kind = kind =>
                  /\ Head(q).job \in JobsOf(q, kind)
                  /\ OnceOf(q, kind) => Head(q).job \notin JobsOf(t, kind)
  <2>1. /\ JobsOf(q, kind) = {q[i].job : i \in {k \in D : q[k].kind = kind}}
        /\ JobsOf(t, kind) = {t[i].job : i \in {k \in E : t[k].kind = kind}}
    BY DEF JobsOf, D, E
  <2>2. OnceOf(q, kind) =>
          \A i, k \in D : i # k /\ q[i].kind = kind /\ q[k].kind = kind => q[i].job # q[k].job
    BY DEF OnceOf, D
  <2>3. JobsOf(t, kind) \subseteq JobsOf(q, kind)
    BY <1>1, <2>1
  <2>4. OnceOf(q, kind) => OnceOf(t, kind)
    <3>1. ASSUME OnceOf(q, kind), NEW i \in E, NEW k \in E, i # k, t[i].kind = kind, t[k].kind = kind
          PROVE  t[i].job # t[k].job
      BY <1>1, <2>2, <3>1
    <3> QED BY <3>1 DEF OnceOf, E
  <2>5. ASSUME Head(q).kind = kind
        PROVE  /\ Head(q).job \in JobsOf(q, kind)
               /\ OnceOf(q, kind) => Head(q).job \notin JobsOf(t, kind)
    <3>1. Head(q).job \in JobsOf(q, kind)
      BY <1>1, <2>1, <2>5
    <3>2. ASSUME OnceOf(q, kind), NEW i \in E, t[i].kind = kind PROVE t[i].job # Head(q).job
      BY <1>1, <2>2, <2>5, <3>2
    <3> QED BY <2>1, <3>1, <3>2
  <2> QED BY <2>3, <2>4, <2>5
<1> QED BY <1>1, <1>2 DEF t, D, E

LEMMA AppendEvents ==
  ASSUME NEW q \in Seq(Event), NEW x \in Event
  PROVE  /\ Append(q, x) \in Seq(Event)
         /\ \A i \in DOMAIN Append(q, x) :
              Append(q, x)[i] = x \/ \E k \in DOMAIN q : Append(q, x)[i] = q[k]
         /\ \A kind : x.kind # kind => JobsOf(Append(q, x), kind) = JobsOf(q, kind)
         /\ \A kind : x.kind # kind /\ OnceOf(q, kind) => OnceOf(Append(q, x), kind)
         /\ \A kind : x.kind = kind => JobsOf(Append(q, x), kind) = JobsOf(q, kind) \cup {x.job}
         /\ \A kind : x.kind = kind /\ OnceOf(q, kind) /\ x.job \notin JobsOf(q, kind)
                       => OnceOf(Append(q, x), kind)
<1> DEFINE a == Append(q, x)
           D == DOMAIN q
           E == DOMAIN a
           n == Len(q) + 1
<1>1. /\ a \in Seq(Event) /\ E = D \cup {n} /\ n \notin D /\ a[n] = x
      /\ \A i \in D : a[i] = q[i]
  BY AppendIndices
<1> HIDE DEF a, D, E, n
<1>2. ASSUME NEW kind
      PROVE  /\ x.kind # kind => JobsOf(a, kind) = JobsOf(q, kind)
             /\ x.kind # kind /\ OnceOf(q, kind) => OnceOf(a, kind)
             /\ x.kind = kind => JobsOf(a, kind) = JobsOf(q, kind) \cup {x.job}
             /\ x.kind = kind /\ OnceOf(q, kind) /\ x.job \notin JobsOf(q, kind) => OnceOf(a, kind)
  <2>1. /\ JobsOf(q, kind) = {q[i].job : i \in {k \in D : q[k].kind = kind}}
        /\ JobsOf(a, kind) = {a[i].job : i \in {k \in E : a[k].kind = kind}}
    BY DEF JobsOf, D, E
  <2>2. OnceOf(q, kind) =>
          \A i, k \in D : i # k /\ q[i].kind = kind /\ q[k].kind = kind => q[i].job # q[k].job
    BY DEF OnceOf, D
  <2>3. x.kind # kind => JobsOf(a, kind) = JobsOf(q, kind)
    BY <1>1, <2>1
  <2>4. x.kind = kind => JobsOf(a, kind) = JobsOf(q, kind) \cup {x.job}
    BY <1>1, <2>1
  <2>5. ASSUME OnceOf(q, kind), x.kind = kind => x.job \notin JobsOf(q, kind)
        PROVE  OnceOf(a, kind)
    <3>1. ASSUME NEW i \in E, NEW k \in E, i # k, a[i].kind = kind, a[k].kind = kind
          PROVE  a[i].job # a[k].job
      <4>1. \A m \in D : q[m].kind = kind => q[m].job \in JobsOf(q, kind)
        BY <2>1
      <4> QED BY <1>1, <2>2, <2>5, <3>1, <4>1
    <3> QED BY <3>1 DEF OnceOf, E
  <2> QED BY <2>3, <2>4, <2>5
<1>3. \A i \in E : a[i] = x \/ \E k \in D : a[i] = q[k]
  BY <1>1
<1>4. a \in Seq(Event)
  BY <1>1
<1> QED BY <1>2, <1>3, <1>4 DEF a, D, E

LEMMA AppendOnce ==
  ASSUME NEW S, NEW q \in Seq(S), NEW j \in S
  PROVE  /\ Append(q, j) \in Seq(S)
         /\ Elements(Append(q, j)) = Elements(q) \cup {j}
         /\ Once(q) /\ j \notin Elements(q) => Once(Append(q, j))
<1> DEFINE a == Append(q, j)
           D == DOMAIN q
           E == DOMAIN a
           n == Len(q) + 1
<1>1. a \in Seq(S) /\ E = D \cup {n} /\ n \notin D /\ a[n] = j /\ \A i \in D : a[i] = q[i]
  BY AppendIndices
<1> HIDE DEF a, D, E, n
<1>2. Elements(q) = {q[i] : i \in D} /\ Elements(a) = {a[i] : i \in E}
  BY DEF Elements, D, E
<1>3. Elements(a) = Elements(q) \cup {j}
  BY <1>1, <1>2
<1>4. ASSUME Once(q), j \notin Elements(q) PROVE Once(a)
  <2>1. \A i, k \in D : i # k => q[i] # q[k]
    BY <1>4 DEF Once, D
  <2> QED BY <1>1, <1>2, <1>4, <2>1 DEF Once, E
<1> QED BY <1>1, <1>3, <1>4 DEF a

LEMMA FrontOnce ==
  ASSUME NEW S, NEW q \in Seq(S), q # <<>>
  PROVE  /\ Last(q) \in S /\ Front(q) \in Seq(S)
         /\ Last(q) \in Elements(q) /\ Elements(Front(q)) \subseteq Elements(q)
         /\ Once(q) => Once(Front(q)) /\ Last(q) \notin Elements(Front(q))
<1> DEFINE f == Front(q)
           D == DOMAIN q
           E == DOMAIN f
           n == Len(q)
<1>1. /\ f \in Seq(S) /\ n \in D /\ n \notin E /\ E \subseteq D
      /\ \A i \in E : f[i] = q[i]
      /\ \A i \in D : q[i] \in S
  BY DEF Front
<1> HIDE DEF f, D, E, n
<1>2. Elements(q) = {q[i] : i \in D} /\ Elements(f) = {f[i] : i \in E} /\ Last(q) = q[n]
  BY DEF Elements, D, E, Last, n
<1>3. ASSUME Once(q) PROVE Once(f) /\ Last(q) \notin Elements(f)
  <2>1. \A i, k \in D : i # k => q[i] # q[k]
    BY <1>3 DEF Once, D
  <2> QED BY <1>1, <1>2, <2>1 DEF Once, E
<1> QED BY <1>1, <1>2, <1>3 DEF f
-----------------------------------------------------------------------------
(* What the steps do to the places of jobs. *)

\* The queues lose elements, or keep what they have.
QueuesShrink ==
  /\ OnceOf(events', "job") /\ OnceOf(events', "result") /\ Once(pending_jobs')
  /\ JobsOf(events', "job") \subseteq JobsOf(events, "job")
  /\ JobsOf(events', "result") \subseteq JobsOf(events, "result")
  /\ Elements(pending_jobs') \subseteq Elements(pending_jobs)
  /\ \A i \in DOMAIN events' : events'[i].kind = "result" =>
                              \E k \in DOMAIN events : events'[i] = events[k]

\* Workers become free.
WorkersShrink == \A w \in Busy' : w \in Busy /\ busy_workers'[w] = busy_workers[w]

LEMMA PlacesShrink ==
  ASSUME PlacesInv, QueuesShrink, WorkersShrink, UNCHANGED answer,
         pc' = "announce" => pc = "announce" /\ UNCHANGED event
  PROVE  PlacesInv'
<1>1. /\ Unstarted' \subseteq Unstarted /\ Reported' \subseteq Reported /\ BusyJobs' \subseteq BusyJobs
  BY DEF QueuesShrink, WorkersShrink, Unstarted, Reported, BusyJobs
<1>2. JobsOf(events', "job") \cap Elements(pending_jobs') = {}
  BY DEF PlacesInv, QueuesShrink
<1>3. \A v, w \in Busy' : busy_workers'[v] = busy_workers'[w] => v = w
  BY DEF PlacesInv, WorkersShrink
<1>4. \A i \in DOMAIN events', w \in Busy' :
        events'[i].kind = "result" /\ busy_workers'[w] = events'[i].job => w = events'[i].worker
  BY DEF PlacesInv, QueuesShrink, WorkersShrink
<1> QED BY <1>1, <1>2, <1>3, <1>4 DEF PlacesInv, QueuesShrink

\* run_job: a job that waited is handed to w.
LEMMA Handed ==
  ASSUME TypesInv, PlacesInv, QueuesShrink, NEW w \in Workers, NEW j \in Jobs, j \in Unstarted,
         j \notin Unstarted', busy_workers' = [busy_workers EXCEPT ![w] = j],
         UNCHANGED answer, pc' # "announce"
  PROVE  PlacesInv'
<1>1. /\ Unstarted' \subseteq Unstarted /\ Reported' \subseteq Reported
  BY DEF QueuesShrink, Unstarted, Reported
<1>2. /\ Busy' = Busy \cup {w} /\ busy_workers'[w] = j
      /\ \A v \in Busy' : v # w => v \in Busy /\ busy_workers'[v] = busy_workers[v]
  BY NoneIsNoJob DEF TypesInv, Busy
<1>3. BusyJobs' \subseteq BusyJobs \cup {j}
  BY <1>2 DEF BusyJobs
<1>4. j \notin BusyJobs /\ j \notin Reported
  BY DEF PlacesInv
<1>5. \A v \in Busy : busy_workers[v] \in BusyJobs
  BY DEF BusyJobs
<1>6. \A v, u \in Busy' : busy_workers'[v] = busy_workers'[u] => v = u
  BY <1>2, <1>4, <1>5 DEF PlacesInv
<1>7. \A i \in DOMAIN events', v \in Busy' :
        events'[i].kind = "result" /\ busy_workers'[v] = events'[i].job => v = events'[i].worker
  <2>1. ASSUME NEW i \in DOMAIN events', NEW v \in Busy', events'[i].kind = "result",
               busy_workers'[v] = events'[i].job
        PROVE  v = events'[i].worker
    <3>1. PICK k \in DOMAIN events : events'[i] = events[k]
      BY <2>1 DEF QueuesShrink
    <3>2. events'[i].job \in Reported
      BY <2>1, <3>1 DEF Reported, JobsOf
    <3>3. v # w
      BY <1>2, <1>4, <2>1, <3>2
    <3> QED BY <1>2, <2>1, <3>1, <3>3 DEF PlacesInv
  <2> QED BY <2>1
<1>8. JobsOf(events', "job") \cap Elements(pending_jobs') = {}
  BY DEF PlacesInv, QueuesShrink
<1> QED BY <1>1, <1>3, <1>4, <1>6, <1>7, <1>8 DEF PlacesInv, QueuesShrink

\* Taking the next event.
LEMMA GetsNext ==
  ASSUME TypesInv, NEW kind, Gets(kind)
  PROVE  /\ events \in Seq(Event) /\ events # <<>> /\ events' = Tail(events) /\ pc = "wait"
         /\ ~shutting_down /\ events' \in Seq(Event)
         /\ Head(events) \in Event /\ Head(events).kind = kind
         /\ Head(events) = events[1] /\ 1 \in DOMAIN events
         /\ PlacesInv /\ UNCHANGED pending_jobs => QueuesShrink
<1>1. /\ events \in Seq(Event) /\ events # <<>> /\ events' = Tail(events) /\ pc = "wait"
      /\ ~shutting_down /\ Head(events).kind = kind
  BY DEF Gets, TypesInv
<1>2. PlacesInv /\ UNCHANGED pending_jobs => QueuesShrink
  BY <1>1, TailEvents DEF PlacesInv, QueuesShrink
<1> QED BY <1>1, <1>2, TailEvents

LEMMA EventFacts ==
  /\ \A e \in Event : /\ e.kind = "job" => e.job \in Jobs
                      /\ e.kind = "result" => e.job \in Jobs /\ e.worker \in Workers
  /\ \A j \in Jobs : JobEvent(j) \in Event /\ JobEvent(j).kind = "job" /\ JobEvent(j).job = j
  /\ \A r \in 1..Rounds : DataEvent(r) \in Event /\ DataEvent(r).kind = "data"
  /\ Stop \in Event /\ Stop.kind = "stop"
BY DEF Event, JobEvent, DataEvent, Stop

LEMMA ResultFacts ==
  ASSUME NEW w \in Workers, NEW j \in Jobs, NEW crashed \in BOOLEAN
  PROVE  LET e == ResultEvent(w, j, crashed)
         IN  e \in Event /\ e.kind = "result" /\ e.job = j /\ e.worker = w
BY DEF Event, ResultEvent
-----------------------------------------------------------------------------
(* The steps of the thread of the pool. *)

LEMMA StepStartFirst == ASSUME IInv, StartFirst PROVE IInv'
<1> USE DEF IInv
<1>1. /\ pc = "start" /\ UNCHANGED <<event, events, pending_jobs, busy_workers, alive, shutting_down,
                                    answer, user, round, asked>>
      /\ \/ pc' = "wait" /\ UNCHANGED terminal_failure
         \/ pc' = "terminal" /\ terminal_failure' = TRUE
  BY DEF StartFirst, Fails, processes, client
<1>2. TypesInv' /\ FailInv' /\ UserInv' /\ HandInv'
  <2>1. TypesInv'
    BY <1>1 DEF TypesInv
  <2>2. FailInv' /\ HandInv'
    BY <1>1 DEF FailInv, HandInv
  <2>3. UserInv'
    BY <1>1 DEF UserInv
  <2> QED BY <2>1, <2>2, <2>3
<1>3. PlacesInv => PlacesInv'
  BY <1>1 DEF PlacesInv, Unstarted, BusyJobs, Busy, Reported
<1> QED BY <1>1, <1>2, <1>3

LEMMA StepEnd == ASSUME IInv, End PROVE IInv'
<1> USE DEF IInv
<1>1. /\ pc = "wait" /\ pc' = "ended" /\ events # <<>> /\ events' = Tail(events)
      /\ UNCHANGED <<event, pending_jobs, busy_workers, alive, terminal_failure, shutting_down, answer,
                     user, round, asked>>
  BY DEF End, lists, processes, client
<1>2. events \in Seq(Event)
  BY DEF TypesInv
<1>3. TypesInv' /\ FailInv' /\ UserInv' /\ HandInv'
  BY <1>1, <1>2, TailEvents DEF TypesInv, FailInv, UserInv, HandInv
<1>4. ASSUME PlacesInv PROVE PlacesInv'
  <2>1. QueuesShrink
    BY <1>1, <1>2, <1>4, TailEvents DEF PlacesInv, QueuesShrink
  <2>2. WorkersShrink
    BY <1>1 DEF WorkersShrink, Busy
  <2> QED BY <1>1, <1>4, <2>1, <2>2, PlacesShrink
<1> QED BY <1>1, <1>3, <1>4

\* What handing a job to a worker has in common in HandleJob and Drain.
LEMMA RunKeeps ==
  ASSUME IInv, pc \in {"wait", "drain"}, NEW w, NEW j \in Jobs, NEW then \in {"wait", "drain"},
         RunJob(w, j, then),
         ~shutting_down => j \in Unstarted /\ j \notin Unstarted' /\ QueuesShrink,
         events' \in Seq(Event), pending_jobs' \in Seq(Jobs),
         UNCHANGED <<event, alive, shutting_down, answer, user, round, asked>>
  PROVE  IInv'
<1> USE DEF IInv
<1>1. CASE /\ w \in alive /\ busy_workers' = [busy_workers EXCEPT ![w] = j] /\ pc' = then
           /\ UNCHANGED terminal_failure
  <2>1. w \in Workers
    BY <1>1 DEF TypesInv
  <2>2. ~shutting_down => PlacesInv'
    BY <1>1, <2>1, Handed
  <2>3. TypesInv' /\ FailInv' /\ UserInv' /\ HandInv'
    BY <1>1, <2>1 DEF TypesInv, FailInv, UserInv, HandInv
  <2> QED BY <2>2, <2>3
<1>2. CASE Fails /\ UNCHANGED busy_workers
  <2>1. WorkersShrink
    BY <1>2 DEF WorkersShrink, Busy
  <2>2. ~shutting_down => PlacesInv'
    BY <1>2, <2>1, PlacesShrink DEF Fails
  <2>3. TypesInv' /\ FailInv' /\ UserInv' /\ HandInv'
    BY <1>2 DEF TypesInv, FailInv, UserInv, HandInv, Fails
  <2> QED BY <2>2, <2>3
<1> QED BY <1>1, <1>2 DEF RunJob

LEMMA StepHandleJob == ASSUME IInv, HandleJob PROVE IInv'
<1> USE DEF IInv
<1> DEFINE j == Head(events).job
<1>1. /\ events \in Seq(Event) /\ events # <<>> /\ events' = Tail(events) /\ pc = "wait"
      /\ ~shutting_down /\ events' \in Seq(Event) /\ Head(events).kind = "job" /\ j \in Jobs
      /\ PlacesInv /\ (UNCHANGED pending_jobs => QueuesShrink)
      /\ UNCHANGED <<event, alive, shutting_down, answer, user, round, asked>>
  BY GetsNext, EventFacts DEF HandleJob, client
<1>2. j \in JobsOf(events, "job") /\ j \notin JobsOf(events', "job")
  BY <1>1, TailEvents DEF PlacesInv
<1>3. j \in Unstarted /\ j \notin Elements(pending_jobs)
  BY <1>1, <1>2 DEF Unstarted, PlacesInv
<1>4. UNCHANGED pending_jobs => pending_jobs' \in Seq(Jobs) /\ j \notin Unstarted'
  BY <1>2, <1>3 DEF TypesInv, Unstarted
<1> HIDE DEF j
<1>5. ASSUME NEW w, RunJob(w, j, "wait"), UNCHANGED pending_jobs
      PROVE  IInv'
  BY <1>1, <1>3, <1>4, <1>5, RunKeeps
<1>6. CASE /\ pending_jobs' = Append(pending_jobs, j)
           /\ UNCHANGED <<pc, terminal_failure, busy_workers>>
  <2>1. /\ pending_jobs' \in Seq(Jobs) /\ Once(pending_jobs')
        /\ Elements(pending_jobs') = Elements(pending_jobs) \cup {j}
    BY <1>1, <1>3, <1>6, AppendOnce DEF TypesInv, PlacesInv
  <2>2. /\ OnceOf(events', "job") /\ OnceOf(events', "result")
        /\ JobsOf(events', "job") \subseteq JobsOf(events, "job") /\ Reported' \subseteq Reported
        /\ \A i \in DOMAIN events' : \E k \in DOMAIN events : events'[i] = events[k]
    BY <1>1, TailEvents DEF PlacesInv, Reported
  <2>3. Busy' = Busy /\ BusyJobs' = BusyJobs
    BY <1>6 DEF Busy, BusyJobs
  <2>4. Unstarted' \subseteq Unstarted
    BY <1>3, <2>1, <2>2 DEF Unstarted
  <2>5. JobsOf(events', "job") \cap Elements(pending_jobs') = {}
    BY <1>1, <1>2, <2>1, <2>2 DEF PlacesInv
  <2>6. \A i \in DOMAIN events', w \in Busy' :
          events'[i].kind = "result" /\ busy_workers'[w] = events'[i].job => w = events'[i].worker
    BY <1>1, <1>6, <2>2, <2>3 DEF PlacesInv
  <2>7. PlacesInv'
    BY <1>1, <1>6, <2>1, <2>2, <2>3, <2>4, <2>5, <2>6 DEF PlacesInv
  <2>8. TypesInv' /\ FailInv' /\ UserInv' /\ HandInv'
    BY <1>1, <1>6, <2>1 DEF TypesInv, FailInv, UserInv, HandInv
  <2> QED BY <2>7, <2>8
<1>7. CASE Fails /\ UNCHANGED <<busy_workers, pending_jobs>>
  <2>1. WorkersShrink
    BY <1>7 DEF WorkersShrink, Busy
  <2>2. PlacesInv'
    BY <1>1, <1>7, <2>1, PlacesShrink DEF Fails
  <2>3. TypesInv' /\ FailInv' /\ UserInv' /\ HandInv'
    BY <1>1, <1>4, <1>7 DEF TypesInv, FailInv, UserInv, HandInv, Fails
  <2> QED BY <2>2, <2>3
<1> QED BY <1>5, <1>6, <1>7 DEF HandleJob, j

LEMMA StepHandleResult == ASSUME IInv, HandleResult PROVE IInv'
<1> USE DEF IInv
<1> DEFINE h == Head(events)
<1>1. /\ events \in Seq(Event) /\ events # <<>> /\ events' = Tail(events) /\ pc = "wait"
      /\ ~shutting_down /\ events' \in Seq(Event) /\ h \in Event /\ h.kind = "result"
      /\ h.job \in Jobs /\ h.worker \in Workers /\ PlacesInv
      /\ h = events[1] /\ 1 \in DOMAIN events
      /\ UNCHANGED pending_jobs /\ QueuesShrink
      /\ event' = h /\ busy_workers' = [busy_workers EXCEPT ![h.worker] = None]
      /\ pc' = "announce"
      /\ UNCHANGED <<alive, terminal_failure, shutting_down, answer, user, round, asked>>
  BY GetsNext, EventFacts DEF HandleResult, Freed, client, processes
<1>2. h.job \in Reported /\ h.job \notin Reported'
  BY <1>1, TailEvents DEF PlacesInv, Reported
<1> HIDE DEF h
<1>3. /\ \A w \in Busy' : w \in Busy /\ w # h.worker /\ busy_workers'[w] = busy_workers[w]
  BY <1>1 DEF Busy, TypesInv
<1>4. Unstarted' \subseteq Unstarted /\ Reported' \subseteq Reported /\ BusyJobs' \subseteq BusyJobs
  BY <1>1, <1>3 DEF QueuesShrink, Unstarted, Reported, BusyJobs
<1>5. h.job \notin BusyJobs'
  BY <1>1, <1>3 DEF PlacesInv, BusyJobs
<1>6. h.job \notin Unstarted'
  BY <1>1, <1>2, <1>4 DEF PlacesInv
<1>7. PlacesInv'
  <2>1. JobsOf(events', "job") \cap Elements(pending_jobs') = {}
    BY <1>1 DEF PlacesInv, QueuesShrink
  <2>2. \A v, w \in Busy' : busy_workers'[v] = busy_workers'[w] => v = w
    BY <1>1, <1>3 DEF PlacesInv
  <2>3. \A i \in DOMAIN events', w \in Busy' :
          events'[i].kind = "result" /\ busy_workers'[w] = events'[i].job => w = events'[i].worker
    BY <1>1, <1>3 DEF PlacesInv, QueuesShrink
  <2> QED BY <1>1, <1>2, <1>4, <1>5, <1>6, <2>1, <2>2, <2>3 DEF PlacesInv, QueuesShrink
<1>8. answer[h.job] = "none"
  BY <1>1, <1>2 DEF PlacesInv
<1>9. TypesInv' /\ FailInv' /\ UserInv' /\ HandInv'
  BY <1>1, <1>8 DEF TypesInv, FailInv, UserInv, HandInv
<1> QED BY <1>7, <1>9

\* Nothing moves.
LEMMA SamePlaces ==
  ASSUME UNCHANGED <<pc, event, events, pending_jobs, busy_workers, answer>>, PlacesInv
  PROVE  PlacesInv'
BY DEF PlacesInv, Unstarted, BusyJobs, Busy, Reported

LEMMA SameQueues ==
  ASSUME UNCHANGED <<events, pending_jobs>>, PlacesInv
  PROVE  QueuesShrink
BY DEF PlacesInv, QueuesShrink

LEMMA StepAnnounce == ASSUME IInv, Announce PROVE IInv'
<1> USE DEF IInv
<1>1. /\ pc = "announce" /\ ~terminal_failure /\ event' = None
      /\ event.job \in Jobs /\ answer[event.job] = "none"
      /\ UNCHANGED <<events, pending_jobs, busy_workers, alive, shutting_down, user, round, asked>>
  BY EventFacts DEF Announce, lists, processes, client, FailInv, HandInv
<1>2. CASE Fails /\ UNCHANGED answer
  <2>1. TypesInv' /\ FailInv' /\ UserInv' /\ HandInv'
    BY <1>1, <1>2 DEF TypesInv, FailInv, UserInv, HandInv, Fails
  <2>2. PlacesInv => PlacesInv'
    <3>1. WorkersShrink
      BY <1>1 DEF WorkersShrink, Busy
    <3> QED BY <1>1, <1>2, <3>1, SameQueues, PlacesShrink DEF Fails
  <2> QED BY <1>1, <2>1, <2>2
<1>3. CASE /\ answer' = [answer EXCEPT ![event.job] = "result"]
           /\ pc' = "drain"
           /\ UNCHANGED terminal_failure
  <2>1. TypesInv'
    BY <1>1, <1>3 DEF TypesInv
  <2>2. FailInv' /\ HandInv'
    BY <1>1, <1>3 DEF FailInv, HandInv
  <2>3. \A j \in Jobs : answer'[j] = (IF j = event.job THEN "result" ELSE answer[j])
    BY <1>1, <1>3 DEF TypesInv
  <2>4. UserInv'
    BY <1>1, <2>3 DEF UserInv
  <2>5. ASSUME PlacesInv PROVE PlacesInv'
    <3>1. Unstarted' = Unstarted /\ Busy' = Busy /\ BusyJobs' = BusyJobs /\ Reported' = Reported
      BY <1>1 DEF Unstarted, Busy, BusyJobs, Reported
    <3>2. \A j \in Unstarted \cup BusyJobs \cup Reported : answer'[j] = "none"
      BY <1>1, <1>3, <2>5 DEF PlacesInv, TypesInv
    <3> QED BY <1>1, <1>3, <2>5, <3>1, <3>2 DEF PlacesInv
  <2> QED BY <1>1, <2>1, <2>2, <2>4, <2>5
<1> QED BY <1>2, <1>3 DEF Announce, AfterResult

LEMMA StepHandleData == ASSUME IInv, HandleData PROVE IInv'
<1> USE DEF IInv
<1>1. /\ events' = Tail(events) /\ pc = "wait" /\ ~shutting_down /\ events' \in Seq(Event)
      /\ PlacesInv /\ QueuesShrink
      /\ UNCHANGED <<event, pending_jobs, busy_workers, alive, shutting_down, answer, user, round, asked>>
  BY GetsNext DEF HandleData, lists, client
<1>2. \/ pc' = "drain" /\ UNCHANGED terminal_failure
      \/ pc' = "terminal" /\ terminal_failure' = TRUE
  BY DEF HandleData, Fails
<1>3. WorkersShrink
  BY <1>1 DEF WorkersShrink, Busy
<1>4. PlacesInv'
  BY <1>1, <1>2, <1>3, PlacesShrink
<1>5. TypesInv' /\ UserInv'
  BY <1>1, <1>2 DEF TypesInv, UserInv
<1>6. FailInv' /\ HandInv'
  BY <1>1, <1>2 DEF FailInv, HandInv
<1> QED BY <1>4, <1>5, <1>6

LEMMA StepDrain == ASSUME IInv, Drain PROVE IInv'
<1> USE DEF IInv
<1>1. /\ pc = "drain"
      /\ UNCHANGED <<event, events, alive, shutting_down, answer, user, round, asked>>
  BY DEF Drain, client, processes
<1>2. CASE /\ pending_jobs # <<>>
           /\ pending_jobs' = Front(pending_jobs)
           /\ RunJob(Last(available_workers), Last(pending_jobs), "drain")
  <2> DEFINE j == Last(pending_jobs)
  <2>1. /\ j \in Jobs /\ pending_jobs' \in Seq(Jobs) /\ j \in Elements(pending_jobs)
        /\ Elements(pending_jobs') \subseteq Elements(pending_jobs)
        /\ Once(pending_jobs) => Once(pending_jobs') /\ j \notin Elements(pending_jobs')
    BY <1>2, FrontOnce DEF TypesInv
  <2>2. RunJob(Last(available_workers), j, "drain")
    BY <1>2
  <2> HIDE DEF j
  <2>3. ~shutting_down => j \in Unstarted /\ j \notin Unstarted' /\ QueuesShrink
    BY <1>1, <2>1 DEF Unstarted, QueuesShrink, PlacesInv
  <2>4. events' \in Seq(Event)
    BY <1>1 DEF TypesInv
  <2> QED BY <1>1, <2>1, <2>2, <2>3, <2>4, RunKeeps
<1>3. CASE pc' = "wait" /\ UNCHANGED <<pending_jobs, busy_workers, terminal_failure>>
  <2>1. TypesInv' /\ UserInv'
    BY <1>1, <1>3 DEF TypesInv, UserInv
  <2>2. FailInv' /\ HandInv'
    BY <1>1, <1>3 DEF FailInv, HandInv
  <2>3. WorkersShrink
    BY <1>3 DEF WorkersShrink, Busy
  <2>4. PlacesInv => PlacesInv'
    BY <1>1, <1>3, <2>3, SameQueues, PlacesShrink
  <2> QED BY <1>1, <2>1, <2>2, <2>4
<1> QED BY <1>2, <1>3 DEF Drain, Taken

\* SetToSeq lists a finite set.
LEMMA SetToSeqLists ==
  ASSUME NEW S, IsFiniteSet(S)
  PROVE  SetToSeq(S) \in Seq(S)
<1> DEFINE n == Cardinality(S)
<1>1. n \in Nat /\ ExistsBijection(1..n, S)
  BY FS_CardinalityType
<1>2. \E f \in [1..n -> S] : IsInjective(f)
  BY <1>1 DEF ExistsBijection, Bijection, Injection
<1>3. SetToSeq(S) \in [1..n -> S]
  BY <1>2 DEF SetToSeq
<1> QED BY <1>1, <1>3

LEMMA ConcatElements ==
  ASSUME NEW S, NEW T, NEW s \in Seq(S), NEW t \in Seq(T)
  PROVE  /\ s \o t \in Seq(S \cup T)
         /\ Range(s \o t) \subseteq S \cup T
<1>1. /\ Len(s \o t) = Len(s) + Len(t) /\ Len(s) \in Nat /\ Len(t) \in Nat
      /\ DOMAIN (s \o t) = 1..(Len(s) + Len(t))
      /\ \A i \in 1..(Len(s) + Len(t)) :
           (s \o t)[i] = IF i <= Len(s) THEN s[i] ELSE t[i - Len(s)]
  OBVIOUS
<1>2. \A i \in 1..(Len(s) + Len(t)) : (s \o t)[i] \in S \cup T
  <2>1. ASSUME NEW i \in 1..(Len(s) + Len(t)) PROVE (s \o t)[i] \in S \cup T
    <3>1. CASE i <= Len(s)
      BY <1>1, <2>1, <3>1
    <3>2. CASE ~(i <= Len(s))
      <4>1. i - Len(s) \in 1..Len(t)
        BY <1>1, <2>1, <3>2
      <4> QED BY <1>1, <2>1, <3>2, <4>1
    <3> QED BY <3>1, <3>2
  <2> QED BY <2>1
<1>3. s \o t \in Seq(S \cup T)
  <2>1. s \in Seq(S \cup T) /\ t \in Seq(S \cup T)
    OBVIOUS
  <2> QED BY <2>1
<1> QED BY <1>1, <1>2, <1>3 DEF Range

\* The jobs terminal_error answers come from places.
LEMMA GivenUpLists ==
  ASSUME TypesInv
  PROVE  /\ SetToSeq(BusyJobs) \in Seq(BusyJobs)
         /\ Reverse(pending_jobs) \in Seq(Elements(pending_jobs))
         /\ SetToSeq(BusyJobs) \o Reverse(pending_jobs) \in Seq(BusyJobs \cup Elements(pending_jobs))
<1>1. BusyJobs \subseteq Jobs
  BY DEF BusyJobs, Busy, TypesInv
<1>2. IsFiniteSet(BusyJobs)
  <2>1. 1 \in Int /\ Rounds * RoundSize \in Int
    BY NoneIsNoJob
  <2>2. IsFiniteSet(Jobs)
    BY <2>1, FS_Interval DEF Jobs
  <2> QED BY <1>1, <2>2, FS_Subset
<1>3. SetToSeq(BusyJobs) \in Seq(BusyJobs)
  BY <1>2, SetToSeqLists
<1>4. Reverse(pending_jobs) \in Seq(Elements(pending_jobs))
  <2>1. \A i \in 1..Len(pending_jobs) :
          /\ Len(pending_jobs) - i + 1 \in DOMAIN pending_jobs
          /\ pending_jobs[Len(pending_jobs) - i + 1] \in Elements(pending_jobs)
    BY DEF TypesInv, Elements
  <2>2. Len(pending_jobs) \in Nat
    BY DEF TypesInv
  <2> QED BY <2>1, <2>2 DEF Reverse
<1> QED BY <1>3, <1>4, ConcatElements

LEMMA GivenUpWait ==
  ASSUME TypesInv
  PROVE  Range(GivenUp) \subseteq BusyJobs \cup Elements(pending_jobs)
<1>1. GivenUp = SetToSeq(BusyJobs) \o Reverse(pending_jobs)
  BY DEF GivenUp, BusyJobs
<1> QED BY <1>1, GivenUpLists, ConcatElements

LEMMA StepTerminalError == ASSUME IInv, TerminalError PROVE IInv'
<1> USE DEF IInv
<1>1. /\ pc = "terminal" /\ pc' = "ended" /\ terminal_failure
      /\ UNCHANGED <<event, alive, terminal_failure, user, round, asked>>
  BY DEF TerminalError, processes, client, FailInv
<1>2. CASE shutting_down /\ UNCHANGED <<events, pending_jobs, busy_workers, shutting_down, answer>>
  <2>1. TypesInv' /\ UserInv'
    BY <1>1, <1>2 DEF TypesInv, UserInv
  <2>2. FailInv' /\ HandInv'
    BY <1>1 DEF FailInv, HandInv
  <2> QED BY <1>2, <2>1, <2>2
<1>3. CASE /\ ~shutting_down
           /\ answer' = [j \in Jobs |-> IF j \in Range(GivenUp) THEN "lost" ELSE answer[j]]
           /\ pending_jobs' = <<>> /\ events' = Append(events, Stop) /\ Shutdown
  <2>1. TypesInv'
    BY <1>1, <1>3, AppendEvents, EventFacts DEF TypesInv, Shutdown
  <2>2. FailInv' /\ HandInv'
    BY <1>1 DEF FailInv, HandInv
  <2>3. \A j \in Jobs : j \in Range(GivenUp) => answer[j] = "none"
    BY <1>3, GivenUpWait DEF PlacesInv, Unstarted
  <2>4. \A j \in Jobs : answer'[j] = "unasked" <=> answer[j] = "unasked"
    BY <1>3, <2>3
  <2>5. UserInv'
    BY <1>1, <2>4 DEF UserInv
  <2> QED BY <1>3, <2>1, <2>2, <2>5 DEF Shutdown
<1> QED BY <1>2, <1>3 DEF TerminalError
-----------------------------------------------------------------------------
(* The steps of the processes. *)

LEMMA StepJobEnds == ASSUME IInv, NEW w \in Workers, JobEnds(w) PROVE IInv'
<1> USE DEF IInv
<1> DEFINE j == busy_workers[w]
           e == ResultEvent(w, j, w \notin alive)
<1>1. /\ w \in Busy /\ j \in Jobs /\ events' = Append(events, e) /\ events \in Seq(Event)
      /\ ~\E i \in DOMAIN events : events[i].kind = "result" /\ events[i].worker = w
      /\ UNCHANGED <<pc, event, pending_jobs, busy_workers, alive, terminal_failure, shutting_down,
                     answer, user, round, asked>>
  BY DEF JobEnds, Busy, TypesInv, lists, processes, client
<1>2. e \in Event /\ e.kind = "result" /\ e.job = j /\ e.worker = w
  BY <1>1, ResultFacts
<1> HIDE DEF e, j
<1>3. /\ events' \in Seq(Event)
      /\ JobsOf(events', "job") = JobsOf(events, "job")
      /\ OnceOf(events, "job") => OnceOf(events', "job")
      /\ Reported' = Reported \cup {j}
      /\ OnceOf(events, "result") /\ j \notin Reported => OnceOf(events', "result")
      /\ \A i \in DOMAIN events' : events'[i] = e \/ \E k \in DOMAIN events : events'[i] = events[k]
  BY <1>1, <1>2, AppendEvents DEF Reported
<1>4. TypesInv' /\ FailInv' /\ UserInv' /\ HandInv'
  BY <1>1, <1>3 DEF TypesInv, FailInv, UserInv, HandInv
<1>5. ASSUME PlacesInv PROVE PlacesInv'
  <2>1. j \in BusyJobs /\ j = busy_workers[w]
    BY <1>1 DEF BusyJobs, j
  <2>2. j \notin Reported
    <3>1. ASSUME NEW i \in DOMAIN events, events[i].kind = "result", events[i].job = j PROVE FALSE
      BY <1>1, <1>5, <2>1, <3>1 DEF PlacesInv
    <3> QED BY <3>1 DEF Reported, JobsOf
  <2>3. Unstarted' = Unstarted /\ Busy' = Busy /\ BusyJobs' = BusyJobs
    BY <1>1, <1>3 DEF Unstarted, Busy, BusyJobs
  <2>4. \A i \in DOMAIN events', v \in Busy' :
          events'[i].kind = "result" /\ busy_workers'[v] = events'[i].job => v = events'[i].worker
    BY <1>1, <1>2, <1>3, <1>5, <2>1, <2>3 DEF PlacesInv
  <2>5. OnceOf(events', "job") /\ OnceOf(events', "result")
    BY <1>3, <1>5, <2>2 DEF PlacesInv
  <2>6. Unstarted' \cap (BusyJobs' \cup Reported') = {}
    BY <1>3, <1>5, <2>1, <2>3 DEF PlacesInv
  <2>7. \A i \in Unstarted' \cup BusyJobs' \cup Reported' : answer'[i] = "none"
    BY <1>1, <1>3, <1>5, <2>1, <2>3 DEF PlacesInv
  <2>8. pc' = "announce" => event'.job \notin Unstarted' \cup BusyJobs' \cup Reported'
    BY <1>1, <1>3, <1>5, <2>1, <2>3 DEF PlacesInv
  <2>9. /\ Once(pending_jobs') /\ JobsOf(events', "job") \cap Elements(pending_jobs') = {}
        /\ \A v, u \in Busy' : busy_workers'[v] = busy_workers'[u] => v = u
    BY <1>1, <1>3, <1>5, <2>3 DEF PlacesInv
  <2> QED BY <2>4, <2>5, <2>6, <2>7, <2>8, <2>9 DEF PlacesInv
<1> QED BY <1>1, <1>4, <1>5

LEMMA StepWorkerDies == ASSUME IInv, NEW w \in Workers, WorkerDies(w) PROVE IInv'
<1> USE DEF IInv
<1>1. /\ alive' = alive \ {w}
      /\ UNCHANGED <<pc, event, events, pending_jobs, busy_workers, terminal_failure, shutting_down,
                     answer, user, round, asked>>
  BY DEF WorkerDies, lists, client
<1>2. TypesInv' /\ FailInv' /\ UserInv' /\ HandInv'
  BY <1>1 DEF TypesInv, FailInv, UserInv, HandInv
<1> QED BY <1>1, <1>2, SamePlaces
-----------------------------------------------------------------------------
(* The steps of the user. *)

LEMMA RoundFits ==
  ASSUME NEW r \in 1..Rounds
  PROVE  /\ r * RoundSize \in Nat
         /\ r * RoundSize <= Rounds * RoundSize
         /\ r * RoundSize < (r + 1) * RoundSize
<1>1. r \in Nat /\ RoundSize \in Nat /\ RoundSize >= 1 /\ Rounds \in Nat /\ r <= Rounds
  BY RoundsAssumption
<1>2. r * RoundSize \in Nat /\ (r + 1) * RoundSize = r * RoundSize + RoundSize
  BY <1>1
<1>3. PICK d \in Nat : Rounds = r + d
  <2>1. Rounds - r \in Nat /\ Rounds = r + (Rounds - r)
    BY <1>1
  <2> QED BY <2>1
<1>4. Rounds * RoundSize = r * RoundSize + d * RoundSize /\ d * RoundSize \in Nat
  BY <1>1, <1>3
<1> QED BY <1>1, <1>2, <1>4

\* The user goes on and does nothing to the pool but count.
LEMMA UserGoesOn ==
  ASSUME IInv, UserUnchanged, UNCHANGED <<events, shutting_down, answer>>, UserInv'
  PROVE  IInv'
<1> USE DEF IInv
<1>1. /\ UNCHANGED <<pc, event, events, pending_jobs, busy_workers, alive, terminal_failure,
                     shutting_down, answer>>
  BY DEF UserUnchanged, lists, processes
<1>2. TypesInv' /\ FailInv' /\ HandInv'
  BY <1>1 DEF TypesInv, FailInv, HandInv
<1> QED BY <1>1, <1>2, SamePlaces

LEMMA StepCalls ==
  ASSUME IInv,
         \/ Calls("data", "put_data") \/ Calls("job", "count") \/ WaitForTasks \/ CountJob \/ NoResult
  PROVE  IInv'
<1>1. UserUnchanged /\ UNCHANGED <<events, shutting_down, round, asked, answer>>
  BY DEF Calls, WaitForTasks, CountJob, NoResult
<1>2. UserInv
  BY DEF IInv
<1>3. \/ user = "data" /\ user' = "put_data"
      \/ user = "job" /\ user' = "count"
      \/ user = "count" /\ user' = "put_job"
      \/ user' \in {"last", "results", "tasks"}
  <2>1. /\ Calls("data", "put_data") => user = "data" /\ user' = "put_data"
        /\ Calls("job", "count") => user = "job" /\ user' = "count"
    BY DEF Calls
  <2>2. WaitForTasks => user' = IF tracker = 0 THEN "last" ELSE "results"
    BY DEF WaitForTasks, Calls
  <2>3. CountJob => user = "count" /\ user' = "put_job"
    BY DEF CountJob
  <2>4. NoResult => user' = "tasks"
    BY DEF NoResult
  <2>5. (IF tracker = 0 THEN "last" ELSE "results") \in {"last", "results", "tasks"}
    OBVIOUS
  <2> QED BY <2>1, <2>2, <2>3, <2>4, <2>5
<1>4. UserInv'
  BY <1>1, <1>2, <1>3 DEF UserInv
<1> QED BY <1>1, <1>4, UserGoesOn

\* The user shuts the pool down.
LEMMA UserLeaves ==
  ASSUME IInv, Shutdown, user' \in {"cancelled", "done"}, events' = Append(events, Stop),
         UNCHANGED <<pc, event, pending_jobs, alive, terminal_failure, answer, round, asked>>
  PROVE  IInv'
<1> USE DEF IInv
<1>1. TypesInv'
  BY AppendEvents, EventFacts DEF TypesInv, Shutdown
<1>2. FailInv' /\ HandInv'
  BY DEF FailInv, HandInv
<1>3. UserInv'
  BY DEF UserInv
<1> QED BY <1>1, <1>2, <1>3 DEF Shutdown

LEMMA StepPutData == ASSUME IInv, PutData PROVE IInv'
<1> USE DEF IInv
<1> DEFINE e == DataEvent(round)
<1>1. /\ user = "put_data" /\ user' = "job" /\ events' = Append(events, e) /\ events \in Seq(Event)
      /\ UNCHANGED <<pc, event, pending_jobs, busy_workers, alive, terminal_failure, shutting_down,
                     answer, round, asked>>
  BY DEF PutData, UserUnchanged, TypesInv, lists, processes
<1>2. e \in Event /\ e.kind = "data"
  BY EventFacts DEF UserInv
<1> HIDE DEF e
<1>3. /\ events' \in Seq(Event)
      /\ JobsOf(events', "job") = JobsOf(events, "job")
      /\ OnceOf(events, "job") => OnceOf(events', "job")
      /\ Reported' = Reported
      /\ OnceOf(events, "result") => OnceOf(events', "result")
      /\ \A i \in DOMAIN events' : events'[i] = e \/ \E k \in DOMAIN events : events'[i] = events[k]
  BY <1>1, <1>2, AppendEvents DEF Reported
<1>4. TypesInv' /\ FailInv' /\ HandInv'
  BY <1>1, <1>3 DEF TypesInv, FailInv, HandInv
<1>5. UserInv'
  BY <1>1 DEF UserInv
<1>6. ASSUME PlacesInv PROVE PlacesInv'
  <2>1. Unstarted' = Unstarted /\ Busy' = Busy /\ BusyJobs' = BusyJobs
    BY <1>1, <1>3 DEF Unstarted, Busy, BusyJobs
  <2>2. \A i \in DOMAIN events', v \in Busy' :
          events'[i].kind = "result" /\ busy_workers'[v] = events'[i].job => v = events'[i].worker
    BY <1>1, <1>2, <1>3, <1>6, <2>1 DEF PlacesInv
  <2> QED BY <1>1, <1>3, <1>6, <2>1, <2>2 DEF PlacesInv
<1> QED BY <1>1, <1>4, <1>5, <1>6

\* The next job is one that nobody asked for yet, and one of those of the rounds.
LEMMA NextJob ==
  ASSUME UserInv, user = "put_job"
  PROVE  asked + 1 \in Jobs /\ answer[asked + 1] = "unasked"
<1>1. /\ asked \in Nat /\ round \in 1..Rounds /\ asked < round * RoundSize
      /\ \A j \in Jobs : answer[j] = "unasked" <=> j > asked
  BY DEF UserInv
<1>2. round * RoundSize \in Nat /\ round * RoundSize <= Rounds * RoundSize /\ Rounds * RoundSize \in Nat
  BY <1>1, RoundFits, NoneIsNoJob
<1> DEFINE n == round * RoundSize
           m == Rounds * RoundSize
<1>3. asked < n /\ n \in Nat /\ n <= m /\ m \in Nat /\ Jobs = 1..m
  BY <1>1, <1>2 DEF Jobs
<1> HIDE DEF n, m
<1>4. asked + 1 \in Jobs
  BY <1>1, <1>3
<1> QED BY <1>1, <1>4

LEMMA StepPutJob == ASSUME IInv, PutJob PROVE IInv'
<1> USE DEF IInv
<1> DEFINE j == asked + 1
           e == JobEvent(j)
<1>1. /\ user = "put_job" /\ events' = Append(events, e) /\ events \in Seq(Event)
      /\ asked' = j /\ answer' = [answer EXCEPT ![j] = "none"]
      /\ user' = IF j = round * RoundSize THEN "results" ELSE "job"
      /\ UNCHANGED <<pc, event, pending_jobs, busy_workers, alive, terminal_failure, shutting_down, round>>
  BY DEF PutJob, UserUnchanged, TypesInv, lists, processes
<1>2. j \in Jobs /\ answer[j] = "unasked"
  BY <1>1, NextJob
<1>3. e \in Event /\ e.kind = "job" /\ e.job = j
  BY <1>2, EventFacts
<1>4. UserInv'
  <2> DEFINE n == round * RoundSize
  <2>1. /\ asked \in Nat /\ round \in 1..Rounds /\ asked < n /\ n \in Nat
        /\ \A i \in Jobs : answer[i] = "unasked" <=> i > asked
        /\ answer \in [Jobs -> {"unasked", "none", "result", "lost"}]
    BY <1>1, RoundFits DEF UserInv, TypesInv
  <2>2. \A i \in Jobs : i \in Nat /\ (answer'[i] = "unasked" <=> i > j)
    <3>1. ASSUME NEW i \in Jobs PROVE i \in Nat /\ (answer'[i] = "unasked" <=> i > j)
      <4>1. i \in Nat /\ answer'[i] = IF i = j THEN "none" ELSE answer[i]
        BY <1>1, <1>2, <2>1, NoneIsNoJob
      <4> QED BY <2>1, <4>1
    <3> QED BY <3>1
  <2>3. user' = (IF j = n THEN "results" ELSE "job") /\ asked' = j /\ round' = round
    BY <1>1
  <2>4. n = round' * RoundSize
    BY <1>1
  <2> HIDE DEF n
  <2>5. asked' \in Nat /\ asked' <= n /\ (user' = "job" => asked' < n) /\ user' \in {"results", "job"}
    BY <2>1, <2>3
  <2>6. \A i \in Jobs : answer'[i] = "unasked" <=> i > asked'
    BY <1>1, <2>2
  <2> QED BY <2>1, <2>3, <2>4, <2>5, <2>6 DEF UserInv
<1> HIDE DEF e, j
<1>5. /\ events' \in Seq(Event)
      /\ JobsOf(events', "job") = JobsOf(events, "job") \cup {j}
      /\ OnceOf(events, "job") /\ j \notin JobsOf(events, "job") => OnceOf(events', "job")
      /\ Reported' = Reported
      /\ OnceOf(events, "result") => OnceOf(events', "result")
      /\ \A i \in DOMAIN events' : events'[i] = e \/ \E k \in DOMAIN events : events'[i] = events[k]
  BY <1>1, <1>3, AppendEvents DEF Reported
<1>6. \A i \in Jobs : answer'[i] = IF i = j THEN "none" ELSE answer[i]
  BY <1>1, <1>2 DEF TypesInv
<1>7. TypesInv'
  BY <1>1, <1>2, <1>5 DEF TypesInv
<1>8. FailInv' /\ HandInv'
  <2>1. pc = "announce" => event.job \in Jobs
    BY EventFacts DEF HandInv
  <2> QED BY <1>1, <1>2, <1>6, <2>1 DEF FailInv, HandInv
<1>9. ASSUME PlacesInv PROVE PlacesInv'
  <2>1. j \notin Unstarted /\ j \notin BusyJobs /\ j \notin Reported
    BY <1>2, <1>9 DEF PlacesInv
  <2>2. Unstarted' = Unstarted \cup {j} /\ Busy' = Busy /\ BusyJobs' = BusyJobs
    BY <1>1, <1>5 DEF Unstarted, Busy, BusyJobs
  <2>3. pc = "announce" => event.job # j
    BY <1>2 DEF HandInv
  <2>4. OnceOf(events', "job") /\ JobsOf(events', "job") \cap Elements(pending_jobs') = {}
    BY <1>1, <1>5, <1>9, <2>1 DEF PlacesInv, Unstarted
  <2>5. \A i \in DOMAIN events', v \in Busy' :
          events'[i].kind = "result" /\ busy_workers'[v] = events'[i].job => v = events'[i].worker
    BY <1>1, <1>3, <1>5, <1>9, <2>2 DEF PlacesInv
  <2>6. \A i \in Unstarted' \cup BusyJobs' \cup Reported' : answer'[i] = "none"
    <3>1. \A i \in Unstarted \cup BusyJobs \cup Reported : answer[i] = "none"
      BY <1>9 DEF PlacesInv
    <3> QED BY <1>1, <1>2, <1>5, <2>2, <3>1 DEF TypesInv
  <2>7. pc' = "announce" => event'.job \notin Unstarted' \cup BusyJobs' \cup Reported'
    BY <1>1, <1>5, <1>9, <2>2, <2>3 DEF PlacesInv
  <2>8. /\ Unstarted' \cap (BusyJobs' \cup Reported') = {} /\ Once(pending_jobs')
        /\ OnceOf(events', "result") /\ \A v, u \in Busy' : busy_workers'[v] = busy_workers'[u] => v = u
    BY <1>1, <1>5, <1>9, <2>1, <2>2 DEF PlacesInv
  <2> QED BY <2>4, <2>5, <2>6, <2>7, <2>8 DEF PlacesInv
<1> QED BY <1>1, <1>4, <1>7, <1>8, <1>9

LEMMA StepTakeResult == ASSUME IInv, TakeResult PROVE IInv'
<1>1. CASE UNCHANGED <<user, events, shutting_down, lists>>
  <2>1. UserUnchanged /\ UNCHANGED <<events, shutting_down, answer, round, asked, user>>
    BY <1>1 DEF TakeResult, UserUnchanged
  <2>2. UserInv'
    BY <2>1 DEF IInv, UserInv
  <2> QED BY <2>1, <2>2, UserGoesOn
<1>2. CASE user' = "cancelled" /\ events' = Append(events, Stop) /\ Shutdown /\ UNCHANGED pending_jobs
  <2>1. UNCHANGED <<pc, event, pending_jobs, alive, terminal_failure, answer, round, asked>>
    BY <1>2 DEF TakeResult, processes
  <2> QED BY <1>2, <2>1, UserLeaves
<1> QED BY <1>1, <1>2 DEF TakeResult

LEMMA StepLeave == ASSUME IInv, NEW how \in {"cancelled", "done"}, Leave(how) PROVE IInv'
<1>1. /\ user' \in {"cancelled", "done"} /\ events' = Append(events, Stop) /\ Shutdown
      /\ UNCHANGED <<pc, event, pending_jobs, alive, terminal_failure, answer, round, asked>>
  BY DEF Leave, processes
<1> QED BY <1>1, UserLeaves

LEMMA StepLastLook == ASSUME IInv, LastLook PROVE IInv'
<1>1. CASE Leave("done")
  BY <1>1, StepLeave
<1>2. CASE /\ results # <<>> \/ round < Rounds
           /\ user' = IF results = <<>> THEN "data" ELSE "results"
           /\ round' = IF results = <<>> THEN round + 1 ELSE round
           /\ UserUnchanged
           /\ UNCHANGED <<events, results, tracker, shutting_down, asked, answer>>
  <2> DEFINE n == round * RoundSize
             m == round' * RoundSize
  <2>1. /\ asked \in Nat /\ round \in 1..Rounds /\ asked <= n
        /\ \A j \in Jobs : answer[j] = "unasked" <=> j > asked
    BY DEF IInv, UserInv
  <2>2. round' \in 1..Rounds
    BY <1>2, <2>1, RoundsAssumption
  <2>3. n \in Nat /\ m \in Nat
    BY <2>1, <2>2, RoundFits
  <2>4. IF results = <<>> THEN n < m ELSE m = n
    BY <1>2, <2>1, RoundFits
  <2> HIDE DEF n
  <2>5. asked' \in Nat /\ asked' <= m /\ (user' = "data" => asked' < m) /\ user' \in {"data", "results"}
    <3> HIDE DEF m
    <3> QED BY <1>2, <2>1, <2>3, <2>4
  <2>6. \A j \in Jobs : answer'[j] = "unasked" <=> j > asked'
    BY <1>2, <2>1
  <2>7. UserInv'
    BY <2>2, <2>5, <2>6 DEF UserInv
  <2> QED BY <1>2, <2>7, UserGoesOn
<1> QED BY <1>1, <1>2 DEF LastLook
-----------------------------------------------------------------------------
(* The invariant holds ... *)

LEMMA Initial == ASSUME Init PROVE IInv
<1>2. 1 \in 1..Rounds /\ 0 < 1 * RoundSize /\ 1 * RoundSize \in Nat
  BY RoundsAssumption
<1>3. TypesInv
  <2>1. events \in Seq(Event) /\ pending_jobs \in Seq(Jobs)
    BY DEF Init
  <2>2. /\ busy_workers \in [Workers -> Jobs \cup {None}]
        /\ answer \in [Jobs -> {"unasked", "none", "result", "lost"}]
    BY DEF Init
  <2> QED BY <2>1, <2>2 DEF Init, TypesInv
<1>4. FailInv /\ HandInv
  BY DEF Init, FailInv, HandInv
<1>5. UserInv
  <2>1. \A j \in Jobs : j \in Nat /\ j > 0
    BY NoneIsNoJob DEF Jobs
  <2> QED BY <1>2, <2>1 DEF Init, UserInv
<1>6. PlacesInv
  BY DEF Init, PlacesInv, OnceOf, Once, JobsOf, Elements, Busy, Unstarted, BusyJobs, Reported
<1> QED BY <1>3, <1>4, <1>5, <1>6 DEF IInv

LEMMA Step == ASSUME IInv, [Next]_vars PROVE IInv'
<1>1. CASE PoolThread
  BY <1>1, StepStartFirst, StepEnd, StepHandleJob, StepHandleResult, StepAnnounce, StepHandleData,
     StepDrain, StepTerminalError DEF PoolThread
<1>2. CASE User
  <2>1. CASE CallFails
    BY <2>1, StepLeave DEF CallFails
  <2> QED BY <1>2, <2>1, StepCalls, StepPutData, StepPutJob, StepTakeResult, StepLastLook DEF User
<1>3. CASE Cancel
  BY <1>3, StepLeave DEF Cancel
<1>4. ASSUME NEW w \in Workers, JobEnds(w) \/ WorkerDies(w) PROVE IInv'
  BY <1>4, StepJobEnds, StepWorkerDies
<1>5. CASE UNCHANGED vars
  <2>1. UNCHANGED <<pc, event, events, pending_jobs, busy_workers, alive, terminal_failure,
                    shutting_down, answer, user, round, asked>>
    BY <1>5 DEF vars
  <2>2. TypesInv' /\ FailInv' /\ UserInv' /\ HandInv'
    BY <2>1 DEF IInv, TypesInv, FailInv, UserInv, HandInv
  <2> QED BY <2>1, <2>2, SamePlaces DEF IInv
<1> QED BY <1>1, <1>2, <1>3, <1>4, <1>5 DEF Next

LEMMA Invariance == Spec => []IInv
<1>1. Init => IInv
  BY Initial
<1>2. IInv /\ [Next]_vars => IInv'
  BY Step
<1> QED BY <1>1, <1>2, PTL DEF Spec
-----------------------------------------------------------------------------
(* ... and what a step does to answers is what JobService allows. *)

\* Nobody is answered and nothing breaks.
Quiet == UNCHANGED <<answer, terminal_failure>>

\* The thread of the pool fails.
LEMMA FailsIsBreak ==
  ASSUME IInv, pc \notin {"terminal", "ended"}, Fails, UNCHANGED answer
  PROVE  Service!Break
BY DEF IInv, FailInv, Fails, Service!Break

LEMMA RunJobBreaks ==
  ASSUME IInv, pc \in {"wait", "drain"}, NEW w, NEW j, NEW then, RunJob(w, j, then), UNCHANGED answer
  PROVE  Service!Break \/ Quiet
BY FailsIsBreak DEF RunJob, Quiet

LEMMA ThreadServes == ASSUME IInv, PoolThread PROVE Service!Next \/ Quiet
<1>1. CASE StartFirst
  BY <1>1, FailsIsBreak DEF StartFirst, Service!Next, Quiet
<1>2. CASE End
  BY <1>2 DEF End, Quiet
<1>3. CASE HandleJob
  BY <1>3, FailsIsBreak, RunJobBreaks DEF HandleJob, Gets, Service!Next, Quiet
<1>4. CASE HandleResult
  BY <1>4 DEF HandleResult, Quiet
<1>5. CASE Announce
  <2>1. pc = "announce" /\ ~terminal_failure /\ event.job \in Jobs /\ answer[event.job] = "none"
    BY <1>5, EventFacts DEF Announce, IInv, FailInv, HandInv
  <2>2. \/ Fails /\ UNCHANGED answer
        \/ answer' = [answer EXCEPT ![event.job] = "result"] /\ UNCHANGED terminal_failure
    BY <1>5 DEF Announce
  <2>3. CASE answer' = [answer EXCEPT ![event.job] = "result"] /\ UNCHANGED terminal_failure
    <3>1. Service!Answer(event.job)
      BY <2>1, <2>3 DEF Service!Answer
    <3> QED BY <2>1, <3>1 DEF Service!Next
  <2> QED BY <2>1, <2>2, <2>3, FailsIsBreak DEF Service!Next
<1>6. CASE HandleData
  BY <1>6, FailsIsBreak DEF HandleData, Gets, Service!Next, Quiet
<1>7. CASE Drain
  BY <1>7, RunJobBreaks DEF Drain, Service!Next, Quiet
<1>8. CASE TerminalError
  <2>1. terminal_failure /\ UNCHANGED terminal_failure
    BY <1>8 DEF TerminalError, IInv, FailInv
  <2>2. CASE ~shutting_down /\ answer' = [j \in Jobs |-> IF j \in Range(GivenUp) THEN "lost" ELSE answer[j]]
    <3>1. \A j \in Range(GivenUp) : answer[j] = "none"
      BY <2>2, GivenUpWait DEF IInv, PlacesInv, Unstarted
    <3> DEFINE S == Range(GivenUp) \cap Jobs
    <3>2. answer' = [j \in Jobs |-> IF j \in S THEN "lost" ELSE answer[j]]
      BY <2>2
    <3>3. Service!GiveUp(S) /\ S \in SUBSET Jobs
      BY <2>1, <3>1, <3>2 DEF Service!GiveUp
    <3> QED BY <3>3 DEF Service!Next
  <2> QED BY <1>8, <2>1, <2>2 DEF TerminalError, Quiet
<1> QED BY <1>1, <1>2, <1>3, <1>4, <1>5, <1>6, <1>7, <1>8 DEF PoolThread

LEMMA UserServes == ASSUME IInv, User \/ Cancel PROVE Service!Next \/ Quiet
<1>1. CASE PutJob
  <2>1. asked + 1 \in Jobs /\ answer[asked + 1] = "unasked"
    BY <1>1, NextJob DEF PutJob, IInv
  <2>2. Service!Ask(asked + 1)
    BY <1>1, <2>1 DEF PutJob, UserUnchanged, Service!Ask
  <2> QED BY <2>1, <2>2 DEF Service!Next
<1>2. CASE \E at, then : Calls(at, then)
  BY <1>2 DEF Calls, UserUnchanged, Quiet
<1>3. CASE PutData \/ CountJob \/ NoResult
  BY <1>3 DEF PutData, CountJob, NoResult, UserUnchanged, Quiet
<1>4. CASE \E how : Leave(how)
  BY <1>4 DEF Leave, Quiet
<1>5. CASE TakeResult
  BY <1>5 DEF TakeResult, Quiet
<1>6. CASE LastLook
  <2>1. UserUnchanged => UNCHANGED terminal_failure
    BY DEF UserUnchanged
  <2> QED BY <1>4, <1>6, <2>1 DEF LastLook, Quiet
<1> QED BY <1>1, <1>2, <1>3, <1>4, <1>5, <1>6 DEF User, CallFails, Cancel, WaitForTasks

LEMMA StepServes == ASSUME IInv, [Next]_vars PROVE [Service!Next]_(Service!vars)
<1>1. CASE PoolThread \/ User \/ Cancel
  BY <1>1, ThreadServes, UserServes DEF Quiet, Service!vars
<1>2. ASSUME NEW w \in Workers, JobEnds(w) \/ WorkerDies(w) PROVE UNCHANGED Service!vars
  BY <1>2 DEF JobEnds, WorkerDies, Service!vars
<1>3. CASE UNCHANGED vars
  BY <1>3 DEF vars, Service!vars
<1> QED BY <1>1, <1>2, <1>3 DEF Next

\* Whatever becomes of workers, of their processes and of the pool, a job gets
\* at most one answer, only when it was asked for, and its result only before
\* the pool has failed: the pool implements JobService.
THEOREM Refinement == Spec => KeepsPromise
<1>1. Init => Service!Init
  BY DEF Init, Service!Init
<1>2. IInv /\ [Next]_vars => [Service!Next]_(Service!vars)
  BY StepServes
<1> QED BY <1>1, <1>2, Invariance, PTL DEF Spec, KeepsPromise, Service!Spec
-----------------------------------------------------------------------------
(* Workers: each process is free or busy until the pool fails. *)

Running == ~shutting_down /\ ~terminal_failure

Free == Elements(available_workers)

WorkersInv ==
  /\ available_workers \in Seq(Workers) /\ Once(available_workers)
  /\ started \in 0..max_workers
  /\ pc = "start" => started = 0
  /\ shutting_down => available_workers = <<>> /\ Busy = {}
  /\ Free \cap Busy = {}
  /\ Free \cup Busy \subseteq 1..started
  /\ Running => 1..started \subseteq Free \cup Busy
  /\ Running /\ pending_jobs # <<>> => started = max_workers
  /\ Running /\ pending_jobs # <<>> /\ pc = "wait" => available_workers = <<>>

\* A result says what its worker works at.
ResultsInv == ~shutting_down =>
                \A i \in DOMAIN events : events[i].kind = "result" =>
                   busy_workers[events[i].worker] = events[i].job

\* The results among the events were there before.
ResultsStay == \A i \in DOMAIN events' : events'[i].kind = "result" =>
                  \E k \in DOMAIN events : events'[i] = events[k]

LEMMA ElementsFront ==
  ASSUME NEW S, NEW q \in Seq(S), q # <<>>
  PROVE  Elements(q) = Elements(Front(q)) \cup {Last(q)}
<1> DEFINE f == Front(q)
           D == DOMAIN q
           E == DOMAIN f
           n == Len(q)
<1>1. f \in Seq(S) /\ n \in D /\ D = E \cup {n} /\ \A i \in E : f[i] = q[i]
  <2>1. Len(q) \in Nat /\ Len(q) >= 1 /\ D = 1..Len(q)
    OBVIOUS
  <2>2. f \in Seq(S) /\ E = 1..(Len(q) - 1) /\ \A i \in E : f[i] = q[i]
    BY DEF Front
  <2> QED BY <2>1, <2>2
<1> HIDE DEF f, D, E, n
<1>2. Elements(q) = {q[i] : i \in D} /\ Elements(f) = {f[i] : i \in E} /\ Last(q) = q[n]
  BY DEF Elements, D, E, Last, n
<1> QED BY <1>1, <1>2 DEF f

LEMMA EmptyList == Elements(<<>>) = {} /\ Once(<<>>)
BY DEF Elements, Once

LEMMA SameWorkers ==
  ASSUME WorkersInv, UNCHANGED <<available_workers, busy_workers, started, pending_jobs, shutting_down>>,
         terminal_failure => terminal_failure',
         pc' = "start" => pc = "start",
         pc' = "wait" => pc = "wait" \/ pending_jobs = <<>> \/ available_workers = <<>>
  PROVE  WorkersInv'
BY DEF WorkersInv, Running, Free, Busy

LEMMA SameResults ==
  ASSUME TypesInv, ResultsInv, ResultsStay, UNCHANGED <<busy_workers, shutting_down>>
  PROVE  ResultsInv'
BY DEF ResultsInv, ResultsStay

LEMMA NoMoreWorkers ==
  ASSUME WorkersInv, Shutdown, started' = started, pc' = "start" => pc = "start"
  PROVE  WorkersInv' /\ ResultsInv'
<1>1. shutting_down' /\ available_workers' = <<>> /\ Busy' = {}
  BY DEF Shutdown, Busy
<1>2. Free' = {} /\ Once(available_workers')
  BY <1>1, EmptyList DEF Free
<1> QED BY <1>1, <1>2 DEF WorkersInv, ResultsInv, Running

\* A free worker, the one that became free last, gets a job.
LEMMA FreeRuns ==
  ASSUME IInv, WorkersInv, ResultsInv, ~shutting_down, ~terminal_failure, pc \in {"wait", "drain"},
         available_workers # <<>>, available_workers' = Front(available_workers),
         NEW j \in Jobs, NEW then \in {"wait", "drain"}, RunJob(Last(available_workers), j, then),
         ResultsStay, UNCHANGED <<started, shutting_down>>,
         pending_jobs' # <<>> => pending_jobs # <<>>,
         then = "wait" => pending_jobs' = <<>>
  PROVE  WorkersInv' /\ ResultsInv'
<1> DEFINE w == Last(available_workers)
<1>1. /\ available_workers \in Seq(Workers) /\ Once(available_workers)
      /\ busy_workers \in [Workers -> Jobs \cup {None}]
      /\ events \in Seq(Event)
  BY DEF IInv, TypesInv, WorkersInv
<1>2. /\ w \in Workers /\ available_workers' \in Seq(Workers) /\ Once(available_workers')
      /\ Free = Free' \cup {w} /\ w \notin Free'
  BY <1>1, FrontOnce, ElementsFront DEF Free
<1>3. RunJob(w, j, then)
  OBVIOUS
<1> HIDE DEF w
<1>4. w \notin Busy
  BY <1>2 DEF WorkersInv
<1>5. \A i \in DOMAIN events : events[i].kind = "result" => events[i].worker \in Workers /\ events[i].worker # w
  <2>1. ASSUME NEW i \in DOMAIN events, events[i].kind = "result"
        PROVE  events[i].worker \in Workers /\ events[i].worker # w
    <3>1. events[i] \in Event
      BY <1>1
    <3>2. events[i].worker \in Workers /\ events[i].job \in Jobs
      BY <2>1, <3>1, EventFacts
    <3>3. busy_workers[events[i].worker] \in Jobs
      BY <2>1, <3>2 DEF ResultsInv
    <3> QED BY <1>4, <3>2, <3>3, NoneIsNoJob DEF Busy
  <2> QED BY <2>1
<1>6. CASE busy_workers' = [busy_workers EXCEPT ![w] = j] /\ pc' = then /\ UNCHANGED terminal_failure
  <2>1. Busy' = Busy \cup {w}
    BY <1>1, <1>2, <1>6, NoneIsNoJob DEF Busy
  <2>2. Free' \cup Busy' = Free \cup Busy /\ Free' \cap Busy' = {}
    BY <1>2, <1>4, <2>1 DEF WorkersInv
  <2>3. ResultsInv'
    BY <1>1, <1>5, <1>6 DEF ResultsInv, ResultsStay
  <2>4. WorkersInv'
    BY <1>2, <1>6, <2>2 DEF WorkersInv, Running
  <2> QED BY <2>3, <2>4
<1>7. CASE Fails /\ UNCHANGED busy_workers
  <2>1. Free' \cap Busy' = {} /\ Free' \cup Busy' \subseteq 1..started
    BY <1>2, <1>7 DEF WorkersInv, Busy
  <2>2. ResultsInv'
    BY <1>7, SameResults DEF IInv
  <2>3. WorkersInv'
    BY <1>2, <1>7, <2>1 DEF WorkersInv, Running, Fails
  <2> QED BY <2>2, <2>3
<1> QED BY <1>3, <1>6, <1>7 DEF RunJob

LEMMA WorkersStartFirst == ASSUME IInv, WorkersInv, ResultsInv, StartFirst PROVE WorkersInv' /\ ResultsInv'
<1>1. /\ pc = "start" /\ started = 0
      /\ UNCHANGED <<events, pending_jobs, busy_workers, shutting_down>>
  BY DEF StartFirst, WorkersInv
<1>2. ResultsInv'
  BY <1>1, SameResults DEF IInv, ResultsStay
<1>3. CASE /\ started' = 1 /\ available_workers' = IF shutting_down THEN <<>> ELSE <<1>>
           /\ pc' = "wait" /\ UNCHANGED terminal_failure
  <2>1. Free \cup Busy = {} /\ Busy' = {}
    BY <1>1 DEF WorkersInv, Busy
  <2>2. 1 \in Workers /\ 1 \in 0..max_workers /\ max_workers \in Nat \ {0}
    BY WorkersAssumption DEF Workers
  <2>3. /\ available_workers' \in Seq(Workers) /\ Once(available_workers')
        /\ Free' = IF shutting_down THEN {} ELSE {1}
    BY <1>3, <2>2, EmptyList DEF Elements, Once, Free
  <2>4. Running => pending_jobs = <<>>
    BY <1>1, <2>2 DEF WorkersInv
  <2> QED BY <1>1, <1>2, <1>3, <2>1, <2>2, <2>3, <2>4 DEF WorkersInv, Running
<1>4. CASE Fails /\ UNCHANGED <<started, available_workers>>
  BY <1>1, <1>2, <1>4, SameWorkers DEF Fails
<1> QED BY <1>3, <1>4 DEF StartFirst

LEMMA WorkersEnd == ASSUME IInv, WorkersInv, ResultsInv, End PROVE WorkersInv' /\ ResultsInv'
<1>1. /\ events' = Tail(events) /\ events # <<>> /\ events \in Seq(Event) /\ pc' = "ended"
      /\ UNCHANGED <<available_workers, busy_workers, started, pending_jobs, shutting_down, terminal_failure>>
  BY DEF End, lists, IInv, TypesInv
<1>2. ResultsStay
  BY <1>1, TailEvents DEF ResultsStay
<1> QED BY <1>1, <1>2, SameResults, SameWorkers DEF IInv

LEMMA WorkersHandleJob == ASSUME IInv, WorkersInv, ResultsInv, HandleJob PROVE WorkersInv' /\ ResultsInv'
<1> DEFINE j == Head(events).job
<1>1. /\ events \in Seq(Event) /\ events # <<>> /\ events' = Tail(events) /\ pc = "wait"
      /\ ~shutting_down /\ j \in Jobs
      /\ UNCHANGED shutting_down
  BY GetsNext, EventFacts DEF HandleJob, IInv
<1>2. ResultsStay /\ ~terminal_failure
  BY <1>1, TailEvents DEF ResultsStay, IInv, FailInv
<1> HIDE DEF j
<1>3. CASE /\ available_workers # <<>> /\ available_workers' = Front(available_workers)
           /\ RunJob(Last(available_workers), j, "wait") /\ UNCHANGED <<pending_jobs, started>>
  <2>1. pending_jobs = <<>>
    BY <1>1, <1>2, <1>3 DEF WorkersInv, Running
  <2> QED BY <1>1, <1>2, <1>3, <2>1, FreeRuns
<1>4. CASE /\ available_workers = <<>> /\ Cardinality(Busy) >= max_workers
           /\ pending_jobs' = Append(pending_jobs, j)
           /\ UNCHANGED <<pc, terminal_failure, available_workers, busy_workers, started>>
  <2>1. ResultsInv'
    BY <1>1, <1>2, <1>4, SameResults DEF IInv
  <2>2. Busy = 1..started /\ started \in 0..max_workers
    BY <1>1, <1>2, <1>4, EmptyList DEF WorkersInv, Running, Free
  <2>3. started = max_workers
    <3>1. 1 \in Int /\ started \in Int
      BY <2>2
    <3>2. Cardinality(1..started) = started
      BY <2>2, <3>1, FS_Interval
    <3> QED BY <1>4, <2>2, <3>2, WorkersAssumption
  <2>4. Busy' = Busy /\ Free' = Free
    BY <1>4 DEF Busy, Free
  <2> QED BY <1>1, <1>4, <2>1, <2>3, <2>4 DEF WorkersInv, Running
<1>5. CASE /\ available_workers = <<>> /\ Cardinality(Busy) < max_workers
           /\ started' = started + 1 /\ RunJob(started', j, "wait")
           /\ UNCHANGED <<available_workers, pending_jobs>>
  <2>1. Busy = 1..started /\ started \in 0..max_workers /\ Free = {} /\ Free' = {}
    BY <1>1, <1>2, <1>5, EmptyList DEF WorkersInv, Running, Free
  <2>2. started < max_workers
    BY <1>5, <2>1, FS_Interval, WorkersAssumption
  <2>3. started' \in Workers /\ started' \in 0..max_workers /\ started' \notin Busy
    BY <1>5, <2>1, <2>2, WorkersAssumption DEF Workers
  <2>4. pending_jobs' = <<>>
    BY <1>1, <1>2, <1>5, <2>2, WorkersAssumption DEF WorkersInv, Running
  <2>5. ASSUME NEW i \in DOMAIN events, events[i].kind = "result"
        PROVE  events[i].worker \in Workers /\ events[i].worker # started'
    <3>1. events[i] \in Event
      BY <1>1
    <3>2. events[i].worker \in Workers /\ events[i].job \in Jobs
      BY <2>5, <3>1, EventFacts
    <3>3. busy_workers[events[i].worker] \in Jobs
      BY <1>1, <2>5, <3>2 DEF ResultsInv
    <3> QED BY <2>3, <3>2, <3>3, NoneIsNoJob DEF Busy
  <2>6. CASE busy_workers' = [busy_workers EXCEPT ![started'] = j] /\ pc' = "wait" /\ UNCHANGED terminal_failure
    <3>1. Busy' = Busy \cup {started'}
      BY <1>1, <2>3, <2>6, NoneIsNoJob DEF Busy, IInv, TypesInv
    <3>2. Busy' = 1..started'
      BY <1>5, <2>1, <3>1
    <3>3. ResultsInv'
      BY <1>1, <1>2, <2>3, <2>5, <2>6 DEF ResultsInv, ResultsStay, IInv, TypesInv
    <3>4. WorkersInv'
      BY <1>1, <1>5, <2>1, <2>3, <2>4, <2>6, <3>2 DEF WorkersInv, Running
    <3> QED BY <3>3, <3>4
  <2>7. CASE Fails /\ UNCHANGED busy_workers
    <3>1. ResultsInv'
      BY <1>1, <1>2, <2>7, SameResults DEF IInv
    <3>2. Busy' \subseteq 1..started'
      BY <1>5, <2>1, <2>7 DEF Busy
    <3>3. WorkersInv'
      BY <1>1, <1>5, <2>1, <2>3, <2>7, <3>2 DEF WorkersInv, Running, Fails
    <3> QED BY <3>1, <3>3
  <2> QED BY <1>5, <2>6, <2>7 DEF RunJob
<1>6. CASE Fails /\ UNCHANGED <<started, busy_workers, available_workers, pending_jobs>>
  BY <1>1, <1>2, <1>6, SameWorkers, SameResults DEF IInv, Fails
<1> QED BY <1>3, <1>4, <1>5, <1>6 DEF HandleJob, j

LEMMA WorkersHandleResult == ASSUME IInv, WorkersInv, ResultsInv, HandleResult PROVE WorkersInv' /\ ResultsInv'
<1> DEFINE h == Head(events)
           w == h.worker
<1>1. /\ events \in Seq(Event) /\ events # <<>> /\ events' = Tail(events) /\ pc = "wait"
      /\ ~shutting_down /\ h \in Event /\ h.kind = "result" /\ h.job \in Jobs /\ w \in Workers
      /\ h = events[1] /\ 1 \in DOMAIN events /\ PlacesInv
      /\ event' = h /\ busy_workers' = [busy_workers EXCEPT ![w] = None]
      /\ available_workers' = Append(available_workers, w)
      /\ pc' = "announce"
      /\ UNCHANGED <<pending_jobs, started, terminal_failure, shutting_down>>
  BY GetsNext, EventFacts DEF HandleResult, Freed, IInv
<1>2. busy_workers[w] = h.job /\ w \in Busy
  BY <1>1, NoneIsNoJob DEF ResultsInv, Busy
<1>3. h.job \notin JobsOf(events', "result")
  BY <1>1, TailEvents DEF PlacesInv
<1> HIDE DEF h, w
<1>4. Busy' = Busy \ {w}
  BY <1>1 DEF Busy, IInv, TypesInv
<1>5. available_workers' \in Seq(Workers) /\ Free' = Free \cup {w} /\ Once(available_workers')
  BY <1>1, <1>2, AppendOnce DEF WorkersInv, Free
<1>6. Free' \cup Busy' = Free \cup Busy /\ Free' \cap Busy' = {}
  BY <1>2, <1>4, <1>5 DEF WorkersInv
<1>7. WorkersInv'
  BY <1>1, <1>5, <1>6 DEF WorkersInv, Running
<1>8. ASSUME NEW i \in DOMAIN events', events'[i].kind = "result"
      PROVE  busy_workers'[events'[i].worker] = events'[i].job
  <2>1. PICK k \in DOMAIN events : events'[i] = events[k]
    BY <1>1, TailEvents
  <2>2. events'[i].job # h.job
    BY <1>3, <1>8 DEF JobsOf
  <2>3. busy_workers[events'[i].worker] = events'[i].job
    BY <1>1, <1>8, <2>1 DEF ResultsInv
  <2>4. events'[i].worker # w
    BY <1>2, <2>2, <2>3
  <2> QED BY <1>1, <2>3, <2>4 DEF IInv, TypesInv
<1> QED BY <1>7, <1>8 DEF ResultsInv

LEMMA WorkersAnnounce == ASSUME IInv, WorkersInv, ResultsInv, Announce PROVE WorkersInv' /\ ResultsInv'
<1>1. /\ UNCHANGED <<events, available_workers, busy_workers, started, pending_jobs, shutting_down>>
      /\ ~terminal_failure /\ pc' \in {"drain", "terminal"}
  BY DEF Announce, AfterResult, lists, Fails, IInv, FailInv
<1>2. ResultsStay
  BY <1>1 DEF ResultsStay
<1> QED BY <1>1, <1>2, SameWorkers, SameResults DEF IInv

LEMMA WorkersHandleData == ASSUME IInv, WorkersInv, ResultsInv, HandleData PROVE WorkersInv' /\ ResultsInv'
<1>1. /\ UNCHANGED <<available_workers, busy_workers, started, pending_jobs, shutting_down>>
      /\ events \in Seq(Event) /\ events # <<>> /\ events' = Tail(events)
      /\ terminal_failure => terminal_failure'
      /\ pc' \in {"drain", "terminal"}
  BY GetsNext DEF HandleData, lists, Fails, IInv
<1>2. ResultsStay
  BY <1>1, TailEvents DEF ResultsStay
<1> QED BY <1>1, <1>2, SameWorkers, SameResults DEF IInv

LEMMA WorkersDrain == ASSUME IInv, WorkersInv, ResultsInv, Drain PROVE WorkersInv' /\ ResultsInv'
<1>1. /\ pc = "drain" /\ ~terminal_failure
      /\ UNCHANGED <<events, started, shutting_down>>
  BY DEF Drain, IInv, FailInv
<1>2. ResultsStay
  BY <1>1 DEF ResultsStay
<1>3. CASE /\ pending_jobs # <<>> /\ available_workers # <<>>
           /\ available_workers' = Front(available_workers)
           /\ RunJob(Last(available_workers), Last(pending_jobs), "drain")
  <2>1. ~shutting_down
    BY <1>3 DEF WorkersInv
  <2>2. Last(pending_jobs) \in Jobs
    BY <1>3, FrontOnce DEF IInv, TypesInv
  <2> QED BY <1>1, <1>2, <1>3, <2>1, <2>2, FreeRuns
<1>4. CASE /\ pending_jobs = <<>> \/ available_workers = <<>>
           /\ UNCHANGED <<pending_jobs, available_workers, busy_workers, terminal_failure>>
           /\ pc' = "wait"
  BY <1>1, <1>2, <1>4, SameWorkers, SameResults DEF IInv
<1> QED BY <1>3, <1>4 DEF Drain

LEMMA WorkersTerminalError == ASSUME IInv, WorkersInv, ResultsInv, TerminalError PROVE WorkersInv' /\ ResultsInv'
<1>1. pc' = "ended" /\ started' = started /\ terminal_failure' = terminal_failure
  BY DEF TerminalError
<1>2. CASE Shutdown
  BY <1>1, <1>2, NoMoreWorkers
<1>3. CASE UNCHANGED <<events, pending_jobs, available_workers, busy_workers, shutting_down>>
  <2>1. ResultsStay
    BY <1>3 DEF ResultsStay
  <2> QED BY <1>1, <1>3, <2>1, SameWorkers, SameResults DEF IInv
<1> QED BY <1>2, <1>3 DEF TerminalError

LEMMA WorkersJobEnds ==
  ASSUME IInv, WorkersInv, ResultsInv, NEW w \in Workers, JobEnds(w)
  PROVE  WorkersInv' /\ ResultsInv'
<1> DEFINE e == ResultEvent(w, busy_workers[w], w \notin alive)
<1>1. /\ UNCHANGED <<pc, available_workers, busy_workers, started, pending_jobs, shutting_down, terminal_failure>>
      /\ events' = Append(events, e) /\ events \in Seq(Event)
      /\ busy_workers[w] \in Jobs
  BY DEF JobEnds, lists, IInv, TypesInv
<1>2. e \in Event /\ e.job = busy_workers[w] /\ e.worker = w
  BY <1>1, ResultFacts
<1> HIDE DEF e
<1>3. \A i \in DOMAIN events' : events'[i] = e \/ \E k \in DOMAIN events : events'[i] = events[k]
  BY <1>1, <1>2, AppendEvents
<1>4. ResultsInv'
  BY <1>1, <1>2, <1>3 DEF ResultsInv
<1> QED BY <1>1, <1>4, SameWorkers

LEMMA WorkersWorkerDies ==
  ASSUME IInv, WorkersInv, ResultsInv, NEW w \in Workers, WorkerDies(w)
  PROVE  WorkersInv' /\ ResultsInv'
<1>1. UNCHANGED <<pc, events, available_workers, busy_workers, started, pending_jobs, shutting_down, terminal_failure>>
  BY DEF WorkerDies, lists
<1>2. ResultsStay
  BY <1>1 DEF ResultsStay
<1> QED BY <1>1, <1>2, SameWorkers, SameResults DEF IInv

\* The user queues something, or does nothing to the pool.
LEMMA WorkersUserGoesOn ==
  ASSUME IInv, WorkersInv, ResultsInv, UserUnchanged, shutting_down' = shutting_down,
         \/ events' = events
         \/ \E e \in Event : e.kind # "result" /\ events' = Append(events, e)
  PROVE  WorkersInv' /\ ResultsInv'
<1>1. UNCHANGED <<pc, available_workers, busy_workers, started, pending_jobs, shutting_down, terminal_failure>>
  BY DEF UserUnchanged, lists
<1>2. ResultsStay
  <2>1. CASE events' = events
    BY <2>1 DEF ResultsStay
  <2>2. ASSUME NEW e \in Event, e.kind # "result", events' = Append(events, e) PROVE ResultsStay
    <3>1. \A i \in DOMAIN events' : events'[i] = e \/ \E k \in DOMAIN events : events'[i] = events[k]
      BY <2>2, AppendEvents DEF IInv, TypesInv
    <3> QED BY <2>2, <3>1 DEF ResultsStay
  <2> QED BY <2>1, <2>2
<1> QED BY <1>1, <1>2, SameWorkers, SameResults DEF IInv

LEMMA WorkersLeave == ASSUME WorkersInv, NEW how, Leave(how) PROVE WorkersInv' /\ ResultsInv'
BY NoMoreWorkers DEF Leave

LEMMA WorkersUser == ASSUME IInv, WorkersInv, ResultsInv, User \/ Cancel PROVE WorkersInv' /\ ResultsInv'
<1>1. ASSUME NEW at, NEW then, Calls(at, then) PROVE WorkersInv' /\ ResultsInv'
  BY <1>1, WorkersUserGoesOn DEF Calls
<1>2. CASE PutData
  <2>1. DataEvent(round) \in Event /\ DataEvent(round).kind # "result"
    BY EventFacts DEF IInv, UserInv
  <2> QED BY <1>2, <2>1, WorkersUserGoesOn DEF PutData
<1>3. CASE CountJob \/ NoResult
  BY <1>3, WorkersUserGoesOn DEF CountJob, NoResult
<1>4. CASE PutJob
  <2>1. asked + 1 \in Jobs
    BY <1>4, NextJob DEF PutJob, IInv
  <2>2. JobEvent(asked + 1) \in Event /\ JobEvent(asked + 1).kind # "result"
    BY <2>1, EventFacts
  <2>3. UserUnchanged /\ shutting_down' = shutting_down /\ events' = Append(events, JobEvent(asked + 1))
    BY <1>4 DEF PutJob
  <2> QED BY <2>2, <2>3, WorkersUserGoesOn
<1>5. CASE TakeResult
  <2>1. CASE UNCHANGED <<user, events, shutting_down, lists>>
    <3>1. UserUnchanged
      BY <1>5, <2>1 DEF TakeResult, UserUnchanged
    <3> QED BY <2>1, <3>1, WorkersUserGoesOn
  <2>2. CASE Shutdown /\ UNCHANGED started
    BY <1>5, <2>2, NoMoreWorkers DEF TakeResult
  <2> QED BY <1>5, <2>1, <2>2 DEF TakeResult
<1>6. CASE LastLook
  <2>1. CASE Leave("done")
    BY <2>1, WorkersLeave
  <2>2. CASE UserUnchanged /\ UNCHANGED <<events, shutting_down>>
    BY <2>2, WorkersUserGoesOn
  <2> QED BY <1>6, <2>1, <2>2 DEF LastLook
<1>7. CASE CallFails \/ Cancel
  BY <1>7, WorkersLeave DEF CallFails, Cancel
<1> QED BY <1>1, <1>2, <1>3, <1>4, <1>5, <1>6, <1>7 DEF User, WaitForTasks

LEMMA WorkersStep ==
  ASSUME IInv, WorkersInv, ResultsInv, [Next]_vars
  PROVE  WorkersInv' /\ ResultsInv'
<1>1. CASE PoolThread
  BY <1>1, WorkersStartFirst, WorkersEnd, WorkersHandleJob, WorkersHandleResult, WorkersAnnounce,
     WorkersHandleData, WorkersDrain, WorkersTerminalError DEF PoolThread
<1>2. CASE User \/ Cancel
  BY <1>2, WorkersUser
<1>3. ASSUME NEW w \in Workers, JobEnds(w) \/ WorkerDies(w) PROVE WorkersInv' /\ ResultsInv'
  BY <1>3, WorkersJobEnds, WorkersWorkerDies
<1>4. CASE UNCHANGED vars
  BY <1>4 DEF vars, WorkersInv, ResultsInv, Running, Free, Busy
<1> QED BY <1>1, <1>2, <1>3, <1>4 DEF Next

LEMMA WorkersInvariance == Spec => [](IInv /\ WorkersInv /\ ResultsInv)
<1>1. Init => WorkersInv /\ ResultsInv
  <2> SUFFICES ASSUME Init PROVE WorkersInv /\ ResultsInv
    OBVIOUS
  <2>1. available_workers = <<>> /\ Busy = {} /\ Free = {} /\ pending_jobs = <<>> /\ events = <<>>
    BY EmptyList DEF Init, Busy, Free
  <2> QED BY <2>1, EmptyList, WorkersAssumption DEF Init, WorkersInv, ResultsInv
<1>2. IInv /\ WorkersInv /\ ResultsInv /\ [Next]_vars => WorkersInv' /\ ResultsInv'
  BY WorkersStep
<1> QED BY <1>1, <1>2, Invariance, PTL DEF Spec

\* While jobs wait for a worker, and the pool for an event, every process it may
\* have works: none that is started, dies or becomes free is forgotten.
THEOREM WorkersUsed == Spec => []NoIdleWorker
<1>1. IInv /\ WorkersInv => NoIdleWorker
  <2> SUFFICES ASSUME IInv, WorkersInv, pc = "wait", pending_jobs # <<>>, ~shutting_down
               PROVE  available_workers = <<>> /\ Cardinality(Busy) = max_workers
    BY DEF NoIdleWorker
  <2>1. ~terminal_failure
    BY DEF IInv, FailInv
  <2>2. available_workers = <<>> /\ Busy = 1..max_workers
    BY <2>1, EmptyList DEF WorkersInv, Running, Free
  <2> QED BY <2>2, FS_Interval, WorkersAssumption
<1> QED BY <1>1, WorkersInvariance, PTL
-----------------------------------------------------------------------------
(* Tasks: the tracker counts jobs without an answer. *)

Unanswered == {j \in 1..asked : answer[j] = "none"}
ToPut == IF user = "put_job" THEN 1 ELSE 0
ToAnnounce == IF pc = "announce" THEN 1 ELSE 0

TasksInv == tracker \in Int /\ (Running => tracker = Cardinality(Unanswered) + ToPut - ToAnnounce)

LEMMA UnansweredFinite ==
  ASSUME IInv
  PROVE  IsFiniteSet(Unanswered) /\ Cardinality(Unanswered) \in Nat
<1>1. IsFiniteSet(1..asked)
  BY FS_Interval DEF IInv, UserInv
<1> QED BY <1>1, FS_Subset, FS_CardinalityType DEF Unanswered

\* A job that was asked for and has no result.
LEMMA NotAnswered ==
  ASSUME IInv, NEW j \in Jobs, answer[j] = "none"
  PROVE  j \in Unanswered
<1>1. j \in Nat /\ j >= 1 /\ asked \in Nat /\ ~(j > asked)
  BY NoneIsNoJob DEF IInv, UserInv, Jobs
<1> QED BY <1>1 DEF Unanswered

LEMMA SameTasks ==
  ASSUME TasksInv, UNCHANGED <<tracker, answer, asked>>, ToPut' = ToPut, ToAnnounce' = ToAnnounce,
         Running' => Running
  PROVE  TasksInv'
BY DEF TasksInv, Unanswered

LEMMA TasksThread == ASSUME IInv, TasksInv, PoolThread PROVE TasksInv'
<1> USE DEF ToPut, ToAnnounce
<1>1. CASE StartFirst \/ End \/ HandleJob \/ HandleData \/ Drain
  <2>1. UNCHANGED <<tracker, answer, client>> /\ pc # "announce" /\ shutting_down' = shutting_down
    BY <1>1 DEF StartFirst, End, HandleJob, HandleData, Drain, Gets
  <2>2. ~terminal_failure' => ~terminal_failure
    BY <1>1 DEF StartFirst, End, HandleJob, HandleData, Drain, RunJob, Fails
  <2>3. pc' # "announce"
    BY <1>1 DEF StartFirst, End, HandleJob, HandleData, Drain, Gets, RunJob, Fails
  <2> QED BY <2>1, <2>2, <2>3, SameTasks DEF client, Running
<1>2. CASE HandleResult
  <2>1. /\ pc = "wait" /\ pc' = "announce" /\ tracker' = tracker - 1
        /\ UNCHANGED <<answer, asked, user, shutting_down, terminal_failure>>
    BY <1>2 DEF HandleResult, Gets, client
  <2> QED BY <2>1, UnansweredFinite DEF TasksInv, Running, Unanswered
<1>3. CASE Announce
  <2>1. pc = "announce" /\ UNCHANGED <<tracker, asked, user, shutting_down>>
    BY <1>3 DEF Announce, client
  <2>2. CASE terminal_failure' = TRUE
    BY <2>1, <2>2 DEF TasksInv, Running
  <2>3. CASE answer' = [answer EXCEPT ![event.job] = "result"] /\ pc' = "drain" /\ UNCHANGED terminal_failure
    <3>1. event.job \in Jobs /\ answer[event.job] = "none"
      BY <2>1, EventFacts DEF IInv, HandInv
    <3>2. event.job \in Unanswered
      BY <3>1, NotAnswered
    <3>3. \A j \in 1..asked : j \in Jobs
      BY RoundFits, NoneIsNoJob DEF IInv, UserInv, Jobs
    <3>4. Unanswered' = Unanswered \ {event.job}
      BY <2>1, <2>3, <3>1, <3>3 DEF Unanswered, IInv, TypesInv
    <3>5. Cardinality(Unanswered') = Cardinality(Unanswered) - 1
      BY <3>2, <3>4, UnansweredFinite, FS_RemoveElement
    <3> QED BY <2>1, <2>3, <3>5, UnansweredFinite DEF TasksInv, Running
  <2> QED BY <1>3, <2>2, <2>3 DEF Announce, AfterResult, Fails
<1>4. CASE TerminalError
  <2>1. terminal_failure' /\ terminal_failure
    BY <1>4 DEF TerminalError, IInv, FailInv
  <2>2. tracker' \in Int
    <3>1. Len(GivenUp) \in Nat
      <4>1. SetToSeq(BusyJobs) \o Reverse(pending_jobs) \in Seq(BusyJobs \cup Elements(pending_jobs))
        BY GivenUpLists DEF IInv
      <4> QED BY <4>1 DEF GivenUp, BusyJobs
    <3> QED BY <1>4, <3>1 DEF TerminalError, TasksInv
  <2> QED BY <2>1, <2>2 DEF TasksInv, Running
<1> QED BY <1>1, <1>2, <1>3, <1>4 DEF PoolThread

LEMMA TasksUser == ASSUME IInv, TasksInv, User \/ Cancel PROVE TasksInv'
<1> USE DEF ToPut, ToAnnounce
<1>1. CASE CountJob
  <2>1. /\ tracker' = tracker + 1 /\ user = "count" /\ user' = "put_job"
        /\ UNCHANGED <<pc, answer, asked, terminal_failure, shutting_down>>
    BY <1>1 DEF CountJob, Counted, UserUnchanged
  <2> QED BY <2>1, UnansweredFinite DEF TasksInv, Running, Unanswered
<1>2. CASE PutJob
  <2>1. /\ user = "put_job" /\ user' # "put_job" /\ asked' = asked + 1
        /\ answer' = [answer EXCEPT ![asked + 1] = "none"]
        /\ UNCHANGED <<pc, tracker, terminal_failure, shutting_down>>
    BY <1>2 DEF PutJob, UserUnchanged
  <2>2. asked + 1 \in Jobs /\ answer[asked + 1] = "unasked" /\ asked \in Nat
    BY <2>1, NextJob DEF IInv, UserInv
  <2>3. \A j \in 1..(asked + 1) : j \in Jobs
    BY <2>2, NoneIsNoJob DEF Jobs
  <2>4. Unanswered' = Unanswered \cup {asked + 1} /\ asked + 1 \notin Unanswered
    BY <2>1, <2>2, <2>3 DEF Unanswered, IInv, TypesInv
  <2>5. Cardinality(Unanswered') = Cardinality(Unanswered) + 1
    BY <2>4, UnansweredFinite, FS_AddElement
  <2> QED BY <2>1, <2>5, UnansweredFinite DEF TasksInv, Running
<1>3. CASE Cancel \/ CallFails
  <2>1. PICK how : Leave(how)
    BY <1>3 DEF Cancel, CallFails
  <2> QED BY <2>1 DEF Leave, Shutdown, TasksInv, Running
<1>4. CASE TakeResult
  <2>1. UNCHANGED <<pc, tracker, answer, asked, terminal_failure>> /\ user = "results"
    BY <1>4 DEF TakeResult
  <2>2. shutting_down' \/ UNCHANGED <<user, shutting_down>>
    BY <1>4 DEF TakeResult, Shutdown
  <2> QED BY <2>1, <2>2, SameTasks DEF TasksInv, Running
<1>5. CASE LastLook
  <2>1. CASE Leave("done")
    BY <2>1 DEF Leave, Shutdown, TasksInv, Running
  <2>2. CASE /\ user' = IF results = <<>> THEN "data" ELSE "results"
             /\ UserUnchanged
             /\ UNCHANGED <<tracker, shutting_down, asked, answer>>
    <3>1. UNCHANGED <<pc, terminal_failure>> /\ user = "last" /\ user' # "put_job"
      BY <1>5, <2>2 DEF LastLook, UserUnchanged
    <3> QED BY <2>2, <3>1, SameTasks DEF Running
  <2> QED BY <1>5, <2>1, <2>2 DEF LastLook
<1>6. ASSUME NEW at, NEW then, Calls(at, then), at # "put_job", then # "put_job" PROVE TasksInv'
  BY <1>6, SameTasks DEF Calls, UserUnchanged, Running
<1>7. CASE PutData \/ NoResult
  <2>1. /\ UNCHANGED <<pc, tracker, answer, asked, terminal_failure, shutting_down>>
        /\ user # "put_job" /\ user' # "put_job"
    BY <1>7 DEF PutData, NoResult, UserUnchanged
  <2> QED BY <2>1, SameTasks DEF Running
<1>8. CASE WaitForTasks
  BY <1>6, <1>8 DEF WaitForTasks
<1> QED BY <1>1, <1>2, <1>3, <1>4, <1>5, <1>6, <1>7, <1>8 DEF User

LEMMA TasksInvariance == Spec => []TasksInv
<1>1. Init => TasksInv
  <2> SUFFICES ASSUME Init PROVE TasksInv
    OBVIOUS
  <2>1. Unanswered = {} /\ tracker = 0 /\ ToPut = 0 /\ ToAnnounce = 0
    BY DEF Init, Unanswered, ToPut, ToAnnounce
  <2> QED BY <2>1, FS_EmptySet DEF TasksInv
<1>2. IInv /\ TasksInv /\ [Next]_vars => TasksInv'
  <2> SUFFICES ASSUME IInv, TasksInv, [Next]_vars PROVE TasksInv'
    OBVIOUS
  <2>1. CASE \E w \in Workers : JobEnds(w) \/ WorkerDies(w)
    <3>1. UNCHANGED <<pc, tracker, answer, asked, user, terminal_failure, shutting_down>>
      BY <2>1 DEF JobEnds, WorkerDies, client
    <3> QED BY <3>1, SameTasks DEF Running, ToPut, ToAnnounce
  <2>2. CASE UNCHANGED vars
    BY <2>2, SameTasks DEF vars, Running, ToPut, ToAnnounce
  <2> QED BY <2>1, <2>2, TasksThread, TasksUser DEF Next
<1> QED BY <1>1, <1>2, Invariance, PTL DEF Spec

\* What wait_for_tasks waits for is the jobs without an answer, one for each.
THEOREM TasksCounted == Spec => []TrackerCounts
<1>1. TasksInv => TrackerCounts
  BY DEF TasksInv, TrackerCounts, Running, Unanswered, ToPut, ToAnnounce
<1> QED BY <1>1, TasksInvariance, PTL
-----------------------------------------------------------------------------
(* Data: a job is run with the data of its round. *)

\* The jobs that wait for a result, but for the one whose result is being put.
OpenJobs == {j \in Jobs : answer[j] = "none" /\ ~(pc = "announce" /\ event.job = j)}

\* Data are on their way to the pool, and before every job.
DataAhead == \E i \in DOMAIN events : events[i].kind = "data"
DataFirst == \A i, k \in DOMAIN events : events[i].kind = "data" /\ events[k].kind = "job" => i < k
DataNew == \A i \in DOMAIN events : events[i].kind = "data" => events[i].round = round

\* The jobs the user asked for are those of the rounds before and of this one.
AskedInv ==
  /\ (round - 1) * RoundSize <= asked
  /\ user \in {"data", "put_data"} => asked = (round - 1) * RoundSize
  /\ user \in {"results", "tasks", "last"} => asked = round * RoundSize

\* What is run is run with the right data.
HeldInv ==
  /\ common_data \in Int /\ has_data \in [Workers -> Int] /\ ran_with \in [Jobs -> Int \cup {None}]
  /\ pc = "start" => common_data = 0 /\ \A w \in Workers : has_data[w] = 0
  /\ \A w \in Busy : has_data[w] = Round(busy_workers[w])
  /\ RunWithData

\* Until the pool fails, a free worker has the data the pool has, which are those
\* of the round unless they are on their way.  While they are, no worker is busy,
\* no job of the round has been done, and all that wait for a result are behind.
RoundInv ==
  /\ \A w \in Free : has_data[w] = common_data
  /\ \A j \in OpenJobs : Round(j) = round
  /\ user \in {"data", "put_data", "last"} => OpenJobs = {}
  /\ DataFirst /\ DataNew
  /\ DataAhead => /\ user \notin {"data", "put_data"}
                  /\ pending_jobs = <<>> /\ Busy = {}
                  /\ \A j \in Jobs : j <= asked /\ Round(j) = round => j \in OpenJobs
  /\ ~DataAhead /\ user \notin {"data", "put_data"} => common_data = round

DataInv == AskedInv /\ HeldInv /\ (Running => RoundInv)

AllInv == IInv /\ WorkersInv /\ ResultsInv /\ TasksInv /\ DataInv

\* Data are on their way as before, and the jobs behind.
SameAhead ==
  /\ DataAhead' = DataAhead
  /\ DataFirst => DataFirst'
  /\ \A i \in DOMAIN events' : events'[i].kind = "data" => \E k \in DOMAIN events : events'[i] = events[k]

LEMMA RoundOf ==
  ASSUME NEW r \in Nat, NEW j \in Nat, (r - 1) * RoundSize < j, j <= r * RoundSize
  PROVE  Round(j) = r
BY RoundsAssumption DEF Round

LEMMA TailAhead ==
  ASSUME events \in Seq(Event), events # <<>>, events' = Tail(events)
  PROVE  /\ DataFirst => DataFirst'
         /\ DataAhead' => DataAhead
         /\ Head(events).kind = "job" /\ DataFirst => ~DataAhead
         /\ Head(events).kind # "data" => SameAhead
<1> DEFINE E == DOMAIN events'
<1>1. /\ Head(events) = events[1] /\ 1 \in DOMAIN events
      /\ \A i \in E : i + 1 \in DOMAIN events /\ events'[i] = events[i + 1] /\ i \in Nat
      /\ \A i \in DOMAIN events : i \in Nat /\ i >= 1 /\ (i # 1 => i - 1 \in E)
  BY DEF E
<1>2. \A i \in DOMAIN events : i # 1 => events'[i - 1] = events[i]
  <2>1. ASSUME NEW i \in DOMAIN events, i # 1 PROVE events'[i - 1] = events[i]
    <3>1. i - 1 \in E /\ (i - 1) + 1 = i
      BY <1>1, <2>1
    <3>2. events'[i - 1] = events[(i - 1) + 1]
      BY <1>1, <3>1
    <3> QED BY <3>1, <3>2
  <2> QED BY <2>1
<1> HIDE DEF E
<1>3. ASSUME DataFirst PROVE DataFirst'
  <2>1. ASSUME NEW i \in E, NEW k \in E, events'[i].kind = "data", events'[k].kind = "job" PROVE i < k
    <3>1. i + 1 < k + 1
      BY <1>1, <1>3, <2>1 DEF DataFirst
    <3> QED BY <1>1, <3>1
  <2> QED BY <2>1 DEF DataFirst, E
<1>4. DataAhead' => DataAhead
  BY <1>1 DEF DataAhead, E
<1>5. Head(events).kind = "job" /\ DataFirst => ~DataAhead
  BY <1>1 DEF DataAhead, DataFirst
<1>6. Head(events).kind # "data" /\ DataAhead => DataAhead'
  <2> SUFFICES ASSUME Head(events).kind # "data", DataAhead PROVE \E i \in E : events'[i].kind = "data"
    BY DEF DataAhead, E
  <2>1. PICK i \in DOMAIN events : events[i].kind = "data"
    BY DEF DataAhead
  <2> QED BY <1>1, <1>2, <2>1
<1> QED BY <1>1, <1>3, <1>4, <1>5, <1>6 DEF SameAhead, DataAhead, E

LEMMA AppendAhead ==
  ASSUME events \in Seq(Event), NEW e \in Event, events' = Append(events, e)
  PROVE  /\ e.kind # "data" => SameAhead
         /\ e.kind = "data" /\ JobsOf(events, "job") = {} => DataFirst'
         /\ e.kind = "data" => DataAhead'
         /\ \A i \in DOMAIN events' : events'[i] = e \/ \E k \in DOMAIN events : events'[i] = events[k]
<1> DEFINE n == Len(events) + 1
           D == DOMAIN events
           E == DOMAIN events'
<1>1. /\ E = D \cup {n} /\ n \notin D /\ events'[n] = e
      /\ \A i \in D : events'[i] = events[i]
      /\ \A i \in D : i < n /\ i \in Nat
      /\ n \in Nat
  BY AppendIndices
<1> HIDE DEF n, D, E
<1>2. /\ DataAhead <=> \E i \in D : events[i].kind = "data"
      /\ DataAhead' <=> \E i \in E : events'[i].kind = "data"
      /\ DataFirst <=> \A i, k \in D : events[i].kind = "data" /\ events[k].kind = "job" => i < k
      /\ DataFirst' <=> \A i, k \in E : events'[i].kind = "data" /\ events'[k].kind = "job" => i < k
  BY DEF DataAhead, DataFirst, D, E
<1>3. e.kind # "data" => SameAhead
  <2> SUFFICES ASSUME e.kind # "data"
               PROVE  /\ DataAhead' <=> DataAhead
                      /\ DataFirst => DataFirst'
                      /\ \A i \in E : events'[i].kind = "data" => \E k \in D : events'[i] = events[k]
    BY DEF SameAhead, D, E, DataAhead
  <2>1. \A i \in E : events'[i].kind = "data" => i \in D /\ events'[i] = events[i]
    BY <1>1
  <2>2. \A i \in D : i \in E /\ events'[i] = events[i]
    BY <1>1
  <2>3. ASSUME DataFirst, NEW i \in E, NEW k \in E, events'[i].kind = "data", events'[k].kind = "job"
        PROVE  i < k
    <3>1. i \in D /\ events[i].kind = "data"
      BY <2>1, <2>3
    <3>2. CASE k = n
      BY <1>1, <3>1, <3>2
    <3>3. CASE k \in D
      <4>1. events[k].kind = "job"
        BY <1>1, <2>3, <3>3
      <4> QED BY <1>2, <2>3, <3>1, <3>3, <4>1
    <3> QED BY <1>1, <3>2, <3>3
  <2>4. DataAhead' <=> DataAhead
    BY <1>2, <2>1, <2>2
  <2> QED BY <1>2, <2>1, <2>3, <2>4
<1>4. ASSUME e.kind = "data", JobsOf(events, "job") = {} PROVE DataFirst'
  <2>1. \A k \in D : events[k].kind # "job"
    BY <1>4 DEF JobsOf, D
  <2>2. \A k \in E : events'[k].kind # "job"
    BY <1>1, <1>4, <2>1
  <2> QED BY <1>2, <2>2
<1>5. e.kind = "data" => DataAhead'
  BY <1>1, <1>2
<1> QED BY <1>1, <1>3, <1>4, <1>5 DEF D, E

\* A job that is somewhere waits for its result.
LEMMA PlacedOpen ==
  ASSUME IInv, ~shutting_down
  PROVE  Unstarted \cup BusyJobs \cup Reported \subseteq OpenJobs
<1>1. Unstarted \cup BusyJobs \cup Reported \subseteq Jobs
  <2>1. \A kind \in {"job", "result"} : JobsOf(events, kind) \subseteq Jobs
    BY EventFacts DEF JobsOf, IInv, TypesInv
  <2>2. Elements(pending_jobs) \subseteq Jobs /\ BusyJobs \subseteq Jobs
    BY DEF Elements, BusyJobs, Busy, IInv, TypesInv
  <2> QED BY <2>1, <2>2 DEF Unstarted, Reported
<1> QED BY <1>1 DEF IInv, PlacesInv, OpenJobs

\* Nothing of it changes.
LEMMA SameRound ==
  ASSUME RoundInv, SameAhead, OpenJobs' = OpenJobs,
         UNCHANGED <<user, round, asked, common_data, has_data, available_workers, busy_workers>>,
         pending_jobs = <<>> => pending_jobs' = <<>> \/ ~DataAhead
  PROVE  RoundInv'
<1>1. DataNew' /\ DataFirst'
  BY DEF RoundInv, SameAhead, DataNew
<1>2. Free' = Free /\ Busy' = Busy
  BY DEF Free, Busy
<1>3. DataAhead' = DataAhead
  BY DEF SameAhead
<1> QED BY <1>1, <1>2, <1>3 DEF RoundInv

LEMMA SameData ==
  ASSUME DataInv, SameAhead, OpenJobs' = OpenJobs, pc' = "start" => pc = "start",
         UNCHANGED <<user, round, asked, common_data, has_data, ran_with, available_workers, busy_workers>>,
         Running' => Running,
         pending_jobs = <<>> => pending_jobs' = <<>> \/ ~DataAhead
  PROVE  DataInv'
<1>1. AskedInv'
  BY DEF DataInv, AskedInv
<1>2. HeldInv'
  BY DEF DataInv, HeldInv, Busy, RunWithData
<1> QED BY <1>1, <1>2, SameRound DEF DataInv

\* The pool has failed or is shut down.
LEMMA FailedData ==
  ASSUME DataInv, ~Running', AskedInv', pc' # "start",
         common_data' \in Int, has_data' \in [Workers -> Int], UNCHANGED ran_with,
         \A w \in Busy' : w \in Busy /\ busy_workers'[w] = busy_workers[w] /\ has_data'[w] = has_data[w]
  PROVE  DataInv'
<1>1. HeldInv'
  BY DEF DataInv, HeldInv, RunWithData
<1> QED BY <1>1 DEF DataInv

LEMMA SameAsked ==
  ASSUME DataInv, UNCHANGED <<user, round, asked>>
  PROVE  AskedInv'
BY DEF DataInv, AskedInv

LEMMA StillAhead == ASSUME UNCHANGED events PROVE SameAhead
BY DEF SameAhead, DataAhead, DataFirst

\* An open job of this round is handed to a worker, who has the data the pool has.
LEMMA HandedData ==
  ASSUME AllInv, Running, pc \in {"wait", "drain"}, ~DataAhead, ~DataAhead',
         NEW w \in Workers, w \notin Busy, NEW j \in OpenJobs, NEW then \in {"wait", "drain"},
         RunJob(w, j, then),
         has_data' \in [Workers -> Int], has_data'[w] = common_data,
         \A v \in Workers : v # w => has_data'[v] = has_data[v],
         Free' \subseteq Free,
         UNCHANGED <<event, answer, user, round, asked, common_data, ran_with, shutting_down>>
  PROVE  DataInv'
<1> USE DEF AllInv
<1>1. j \in Jobs /\ Round(j) = common_data /\ RoundInv
  BY DEF OpenJobs, DataInv, RoundInv
<1>2. AskedInv'
  BY SameAsked
<1>3. CASE busy_workers' = [busy_workers EXCEPT ![w] = j] /\ pc' = then /\ UNCHANGED terminal_failure
  <2>1. Busy' = Busy \cup {w} /\ busy_workers'[w] = j
        /\ \A v \in Busy : v # w /\ busy_workers'[v] = busy_workers[v]
    BY <1>1, <1>3, NoneIsNoJob DEF Busy, IInv, TypesInv
  <2>2. \A v \in Busy : has_data'[v] = has_data[v]
    BY <2>1 DEF Busy
  <2>3. HeldInv'
    BY <1>1, <1>3, <2>1, <2>2 DEF DataInv, HeldInv, RunWithData
  <2>4. OpenJobs' = OpenJobs
    BY <1>3 DEF OpenJobs
  <2>5. \A v \in Free' : has_data'[v] = common_data
    <3>1. Free \subseteq Workers
      BY DEF Free, Elements, WorkersInv
    <3> QED BY <1>1, <3>1 DEF RoundInv
  <2>6. DataFirst' /\ DataNew'
    BY DEF DataFirst, DataNew, DataAhead
  <2>7. RoundInv'
    BY <1>1, <2>4, <2>5, <2>6 DEF RoundInv
  <2> QED BY <1>2, <2>3, <2>7 DEF DataInv
<1>4. CASE Fails /\ UNCHANGED busy_workers
  <2>1. \A v \in Busy' : v \in Busy /\ busy_workers'[v] = busy_workers[v] /\ has_data'[v] = has_data[v]
    BY <1>4 DEF Busy
  <2> QED BY <1>2, <1>4, <2>1, FailedData DEF Fails, Running, DataInv, HeldInv
<1> QED BY <1>3, <1>4 DEF RunJob

LEMMA DataStartFirst == ASSUME AllInv, StartFirst PROVE DataInv'
<1> USE DEF AllInv
<1>1. /\ pc = "start" /\ pc' # "start" /\ pc' # "announce" /\ events' = events
      /\ UNCHANGED <<pending_jobs, busy_workers, has_data, common_data, shutting_down, user, round, asked,
                     answer, ran_with>>
  BY DEF StartFirst, Fails, processes, client
<1>2. AskedInv'
  BY <1>1, SameAsked
<1>3. CASE Fails
  <2>1. \A w \in Busy' : w \in Busy /\ busy_workers'[w] = busy_workers[w] /\ has_data'[w] = has_data[w]
    BY <1>1 DEF Busy
  <2> QED BY <1>1, <1>2, <1>3, <2>1, FailedData DEF Fails, Running, DataInv, HeldInv
<1>4. CASE available_workers' = (IF shutting_down THEN <<>> ELSE <<1>>) /\ UNCHANGED terminal_failure
  <2>1. HeldInv'
    BY <1>1 DEF DataInv, HeldInv, Busy, RunWithData
  <2>2. ASSUME Running' PROVE RoundInv'
    <3>1. RoundInv /\ Running
      BY <1>1, <1>4, <2>2 DEF DataInv, Running
    <3>2. 1 \in Workers /\ Free' = {1}
      BY <1>4, <3>1, WorkersAssumption DEF Workers, Free, Elements, Running
    <3>3. has_data[1] = common_data
      BY <1>1, <3>2 DEF DataInv, HeldInv
    <3>4. OpenJobs' = OpenJobs /\ Busy' = Busy
      BY <1>1 DEF OpenJobs, Busy
    <3>5. DataFirst' = DataFirst /\ DataNew' = DataNew /\ DataAhead' = DataAhead
      BY <1>1 DEF DataFirst, DataNew, DataAhead
    <3> QED BY <1>1, <3>1, <3>2, <3>3, <3>4, <3>5 DEF RoundInv
  <2> QED BY <1>2, <2>1, <2>2 DEF DataInv
<1> QED BY <1>3, <1>4 DEF StartFirst

LEMMA DataEnd == ASSUME AllInv, End PROVE DataInv'
<1> USE DEF AllInv
<1>1. /\ pc = "wait" /\ pc' = "ended" /\ events \in Seq(Event) /\ events # <<>> /\ events' = Tail(events)
      /\ shutting_down \/ Head(events) = Stop
      /\ UNCHANGED <<pending_jobs, available_workers, busy_workers, has_data, common_data, shutting_down,
                     terminal_failure, user, round, asked, answer, ran_with>>
  BY DEF End, processes, client, lists, IInv, TypesInv
<1>2. CASE shutting_down
  <2>1. \A w \in Busy' : w \in Busy /\ busy_workers'[w] = busy_workers[w] /\ has_data'[w] = has_data[w]
    BY <1>1 DEF Busy
  <2> QED BY <1>1, <1>2, <2>1, SameAsked, FailedData DEF Running, DataInv, HeldInv
<1>3. CASE Head(events) = Stop
  <2>1. SameAhead
    BY <1>1, <1>3, TailAhead, EventFacts
  <2>2. OpenJobs' = OpenJobs /\ Running' = Running
    BY <1>1 DEF OpenJobs, Running
  <2> QED BY <1>1, <2>1, <2>2, SameData
<1> QED BY <1>1, <1>2, <1>3

LEMMA DataHandleJob == ASSUME AllInv, HandleJob PROVE DataInv'
<1> USE DEF AllInv
<1> DEFINE j == Head(events).job
<1>1. /\ events \in Seq(Event) /\ events # <<>> /\ events' = Tail(events) /\ pc = "wait"
      /\ ~shutting_down /\ j \in Jobs /\ Head(events).kind = "job"
      /\ UNCHANGED <<event, answer, user, round, asked, common_data, ran_with, shutting_down>>
  BY GetsNext, EventFacts DEF HandleJob, IInv, client
<1>2. Running /\ RoundInv
  BY <1>1 DEF IInv, FailInv, Running, DataInv
<1>3. ~DataAhead /\ ~DataAhead'
  BY <1>1, <1>2, TailAhead DEF RoundInv
<1>4. j \in OpenJobs
  <2>1. j \in JobsOf(events, "job")
    BY <1>1, TailEvents
  <2> QED BY <1>1, <2>1, PlacedOpen DEF Unstarted
<1> HIDE DEF j
<1>5. CASE /\ available_workers # <<>> /\ available_workers' = Front(available_workers)
           /\ RunJob(Last(available_workers), j, "wait") /\ UNCHANGED has_data
  <2> DEFINE w == Last(available_workers)
  <2>1. w \in Workers /\ w \in Free /\ Free' \subseteq Free
    BY <1>5, FrontOnce DEF WorkersInv, Free
  <2>2. w \notin Busy /\ has_data'[w] = common_data /\ has_data' \in [Workers -> Int]
    BY <1>2, <1>5, <2>1 DEF WorkersInv, RoundInv, DataInv, HeldInv
  <2>3. RunJob(w, j, "wait")
    BY <1>5
  <2> HIDE DEF w
  <2> QED BY <1>1, <1>2, <1>3, <1>4, <1>5, <2>1, <2>2, <2>3, HandedData
<1>6. CASE /\ available_workers = <<>>
           /\ pending_jobs' = Append(pending_jobs, j)
           /\ UNCHANGED <<pc, terminal_failure, available_workers, busy_workers, has_data>>
  <2>1. OpenJobs' = OpenJobs /\ Running'
    BY <1>1, <1>2, <1>6 DEF OpenJobs, Running
  <2>2. SameAhead
    BY <1>1, TailAhead
  <2> QED BY <1>1, <1>2, <1>3, <1>6, <2>1, <2>2, SameData
<1>7. CASE /\ available_workers = <<>> /\ Cardinality(Busy) < max_workers
           /\ started' = started + 1
           /\ has_data' = [has_data EXCEPT ![started'] = DataOfNewWorker]
           /\ RunJob(started', j, "wait")
           /\ UNCHANGED available_workers
  <2>1. Busy = 1..started /\ started \in 0..max_workers /\ Free = {} /\ Free' = {}
    BY <1>2, <1>7, EmptyList DEF WorkersInv, Free
  <2>2. started < max_workers
    BY <1>7, <2>1, FS_Interval, WorkersAssumption
  <2>3. started' \in Workers /\ started' \notin Busy
    BY <1>7, <2>1, <2>2, WorkersAssumption DEF Workers
  <2>4. /\ has_data' \in [Workers -> Int] /\ has_data'[started'] = common_data
        /\ \A v \in Workers : v # started' => has_data'[v] = has_data[v]
    BY <1>7, <2>3 DEF DataOfNewWorker, DataInv, HeldInv
  <2> DEFINE w == started'
  <2>5. RunJob(w, j, "wait") /\ w \in Workers /\ w \notin Busy /\ has_data'[w] = common_data
        /\ \A v \in Workers : v # w => has_data'[v] = has_data[v]
    BY <1>7, <2>3, <2>4
  <2> HIDE DEF w
  <2> QED BY <1>1, <1>2, <1>3, <1>4, <2>1, <2>4, <2>5, HandedData
<1>8. CASE Fails /\ UNCHANGED <<busy_workers, has_data>>
  <2>1. \A w \in Busy' : w \in Busy /\ busy_workers'[w] = busy_workers[w] /\ has_data'[w] = has_data[w]
    BY <1>8 DEF Busy
  <2> QED BY <1>1, <1>8, <2>1, SameAsked, FailedData DEF Fails, Running, DataInv, HeldInv
<1> QED BY <1>5, <1>6, <1>7, <1>8 DEF HandleJob, j

LEMMA DataHandleResult == ASSUME AllInv, HandleResult PROVE DataInv'
<1> USE DEF AllInv
<1> DEFINE h == Head(events)
           w == h.worker
<1>1. /\ events \in Seq(Event) /\ events # <<>> /\ events' = Tail(events) /\ pc = "wait"
      /\ ~shutting_down /\ h \in Event /\ h.kind = "result" /\ h.job \in Jobs /\ w \in Workers
      /\ h = events[1] /\ 1 \in DOMAIN events
      /\ event' = h /\ busy_workers' = [busy_workers EXCEPT ![w] = None]
      /\ available_workers' = Append(available_workers, w)
      /\ pc' = "announce"
      /\ UNCHANGED <<pending_jobs, has_data, common_data, ran_with, terminal_failure, shutting_down,
                     user, round, asked, answer>>
  BY GetsNext, EventFacts DEF HandleResult, Freed, IInv, client, processes
<1>2. busy_workers[w] = h.job /\ w \in Busy
  BY <1>1, NoneIsNoJob DEF ResultsInv, Busy
<1>3. Running /\ Running' /\ RoundInv
  BY <1>1 DEF IInv, FailInv, Running, DataInv
<1>4. SameAhead /\ ~DataAhead
  BY <1>1, <1>2, <1>3, TailAhead DEF RoundInv
<1>5. h.job \in OpenJobs
  <2>1. h.job \in Reported
    BY <1>1, TailEvents DEF Reported
  <2> QED BY <1>1, <2>1, PlacedOpen
<1> HIDE DEF h, w
<1>6. Round(h.job) = common_data
  BY <1>3, <1>4, <1>5 DEF RoundInv
<1>7. Free' = Free \cup {w}
  BY <1>1, AppendOnce DEF WorkersInv, Free
<1>8. \A v \in Free' : has_data'[v] = common_data'
  BY <1>1, <1>2, <1>3, <1>6, <1>7 DEF RoundInv, DataInv, HeldInv
<1>9. \A v \in Busy' : v \in Busy /\ busy_workers'[v] = busy_workers[v]
  BY <1>1 DEF Busy, IInv, TypesInv
<1>10. HeldInv'
  BY <1>1, <1>9 DEF DataInv, HeldInv, RunWithData
<1>11. OpenJobs' \subseteq OpenJobs
  BY <1>1 DEF OpenJobs
<1>12. DataFirst' /\ DataNew' /\ ~DataAhead'
  BY <1>3, <1>4 DEF RoundInv, SameAhead, DataNew, DataAhead
<1>13. RoundInv'
  BY <1>1, <1>3, <1>4, <1>8, <1>11, <1>12 DEF RoundInv
<1> QED BY <1>1, <1>10, <1>13, SameAsked DEF DataInv

LEMMA DataAnnounce == ASSUME AllInv, Announce PROVE DataInv'
<1> USE DEF AllInv
<1>1. /\ pc = "announce" /\ events' = events
      /\ UNCHANGED <<pending_jobs, available_workers, busy_workers, has_data, common_data, shutting_down,
                     user, round, asked, ran_with>>
  BY DEF Announce, lists, processes, client
<1>2. CASE Fails
  <2>1. \A w \in Busy' : w \in Busy /\ busy_workers'[w] = busy_workers[w] /\ has_data'[w] = has_data[w]
    BY <1>1 DEF Busy
  <2> QED BY <1>1, <1>2, <2>1, SameAsked, FailedData DEF Fails, Running, DataInv, HeldInv
<1>3. CASE answer' = [answer EXCEPT ![event.job] = "result"] /\ pc' = "drain" /\ UNCHANGED terminal_failure
  <2>1. event.job \in Jobs
    BY <1>1, EventFacts DEF IInv, HandInv
  <2>2. OpenJobs' = OpenJobs
    BY <1>1, <1>3, <2>1 DEF OpenJobs, IInv, TypesInv
  <2> QED BY <1>1, <1>3, <2>2, StillAhead, SameData DEF Running
<1> QED BY <1>2, <1>3 DEF Announce, AfterResult

LEMMA DataHandleData == ASSUME AllInv, HandleData PROVE DataInv'
<1> USE DEF AllInv
<1>1. /\ events \in Seq(Event) /\ events # <<>> /\ events' = Tail(events) /\ pc = "wait"
      /\ ~shutting_down /\ Head(events).kind = "data" /\ Head(events) = events[1] /\ 1 \in DOMAIN events
      /\ common_data' = Head(events).round
      /\ UNCHANGED <<pending_jobs, available_workers, busy_workers, started, ran_with, shutting_down,
                     user, round, asked, answer>>
  BY GetsNext DEF HandleData, IInv, client, lists
<1>2. Running /\ RoundInv
  BY <1>1 DEF IInv, FailInv, Running, DataInv
<1>3. DataAhead /\ common_data' = round
  BY <1>1, <1>2 DEF DataAhead, RoundInv, DataNew
<1>4. common_data' \in Int
  BY <1>3 DEF IInv, UserInv
<1>5. Busy' = {}
  BY <1>1, <1>2, <1>3 DEF RoundInv, Busy
<1>6. CASE /\ has_data' = [w \in Workers |-> IF w \in Range(available_workers) THEN common_data' ELSE has_data[w]]
           /\ pc' = "drain" /\ UNCHANGED terminal_failure
  <2>1. Free' = Free /\ Free = Range(available_workers) /\ Free \subseteq Workers
    BY <1>1 DEF Free, Elements, Range, WorkersInv
  <2>2. \A w \in Free' : has_data'[w] = common_data'
    BY <1>6, <2>1
  <2>3. has_data' \in [Workers -> Int]
    BY <1>4, <1>6 DEF DataInv, HeldInv
  <2>4. HeldInv'
    BY <1>1, <1>4, <1>5, <1>6, <2>3 DEF DataInv, HeldInv, RunWithData
  <2>5. OpenJobs' = OpenJobs
    BY <1>1, <1>6 DEF OpenJobs
  <2>6. DataFirst'
    BY <1>1, <1>2, TailAhead DEF RoundInv
  <2>7. DataNew'
    BY <1>1, <1>2, TailEvents DEF RoundInv, DataNew
  <2>8. RoundInv'
    BY <1>1, <1>2, <1>3, <1>5, <2>2, <2>5, <2>6, <2>7 DEF RoundInv
  <2> QED BY <1>1, <2>4, <2>8, SameAsked DEF DataInv
<1>7. CASE Fails /\ UNCHANGED has_data
  BY <1>1, <1>4, <1>5, <1>7, SameAsked, FailedData DEF Fails, Running, DataInv, HeldInv
<1> QED BY <1>6, <1>7 DEF HandleData

LEMMA DataDrain == ASSUME AllInv, Drain PROVE DataInv'
<1> USE DEF AllInv
<1>1. /\ pc = "drain" /\ events' = events
      /\ UNCHANGED <<event, answer, user, round, asked, common_data, has_data, ran_with, shutting_down>>
  BY DEF Drain, client, processes
<1>2. CASE /\ pending_jobs # <<>> /\ available_workers # <<>>
           /\ available_workers' = Front(available_workers)
           /\ RunJob(Last(available_workers), Last(pending_jobs), "drain")
  <2> DEFINE w == Last(available_workers)
             j == Last(pending_jobs)
  <2>1. Running /\ RoundInv
    BY <1>1, <1>2 DEF WorkersInv, IInv, FailInv, Running, DataInv
  <2>2. ~DataAhead /\ ~DataAhead'
    BY <1>1, <1>2, <2>1 DEF RoundInv, DataAhead
  <2>3. w \in Workers /\ w \in Free /\ Free' \subseteq Free
    BY <1>2, FrontOnce DEF WorkersInv, Free
  <2>4. w \notin Busy /\ has_data'[w] = common_data /\ has_data' \in [Workers -> Int]
    BY <1>1, <2>1, <2>3 DEF WorkersInv, RoundInv, DataInv, HeldInv
  <2>5. j \in OpenJobs
    <3>1. j \in Elements(pending_jobs)
      BY <1>2, FrontOnce DEF IInv, TypesInv
    <3> QED BY <2>1, <3>1, PlacedOpen DEF Unstarted, Running
  <2>6. RunJob(w, j, "drain")
    BY <1>2
  <2> HIDE DEF w, j
  <2> QED BY <1>1, <2>1, <2>2, <2>3, <2>4, <2>5, <2>6, HandedData
<1>3. CASE pc' = "wait" /\ UNCHANGED <<pending_jobs, available_workers, busy_workers, terminal_failure>>
  <2>1. OpenJobs' = OpenJobs /\ Running' = Running
    BY <1>1, <1>3 DEF OpenJobs, Running
  <2> QED BY <1>1, <1>3, <2>1, StillAhead, SameData
<1> QED BY <1>2, <1>3 DEF Drain

LEMMA DataTerminalError == ASSUME AllInv, TerminalError PROVE DataInv'
<1> USE DEF AllInv
<1>1. /\ pc = "terminal" /\ pc' = "ended" /\ terminal_failure'
      /\ UNCHANGED <<user, round, asked, common_data, has_data, ran_with>>
  BY DEF TerminalError, processes, client, IInv, FailInv
<1>2. \A w \in Busy' : w \in Busy /\ busy_workers'[w] = busy_workers[w] /\ has_data'[w] = has_data[w]
  BY <1>1 DEF TerminalError, Shutdown, Busy
<1> QED BY <1>1, <1>2, SameAsked, FailedData DEF Running, DataInv, HeldInv

LEMMA DataJobEnds == ASSUME AllInv, NEW w \in Workers, JobEnds(w) PROVE DataInv'
<1> USE DEF AllInv
<1> DEFINE j == busy_workers[w]
           e == ResultEvent(w, j, w \notin alive)
<1>1. /\ w \in Busy /\ j \in Jobs /\ events' = Append(events, e) /\ events \in Seq(Event)
      /\ ran_with' = [ran_with EXCEPT ![j] = has_data[w]]
      /\ UNCHANGED <<pc, event, pending_jobs, available_workers, busy_workers, has_data, common_data,
                     terminal_failure, shutting_down, answer, user, round, asked>>
  BY DEF JobEnds, Busy, IInv, TypesInv, lists, processes, client
<1>2. e \in Event /\ e.kind = "result"
  BY <1>1, ResultFacts
<1> HIDE DEF e
<1>3. SameAhead
  BY <1>1, <1>2, AppendAhead
<1>4. ran_with' \in [Jobs -> Int \cup {None}] /\ RunWithData'
  BY <1>1 DEF DataInv, HeldInv, RunWithData
<1>5. HeldInv'
  BY <1>1, <1>4 DEF DataInv, HeldInv, Busy
<1>6. OpenJobs' = OpenJobs /\ Running' = Running
  BY <1>1 DEF OpenJobs, Running
<1> QED BY <1>1, <1>3, <1>5, <1>6, SameRound, SameAsked DEF DataInv

LEMMA DataWorkerDies == ASSUME AllInv, NEW w \in Workers, WorkerDies(w) PROVE DataInv'
<1>1. UNCHANGED <<pc, event, events, pending_jobs, available_workers, busy_workers, has_data, common_data,
                  terminal_failure, shutting_down, answer, user, round, asked, ran_with>>
  BY DEF WorkerDies, lists, client
<1>2. OpenJobs' = OpenJobs /\ Running' = Running
  BY <1>1 DEF OpenJobs, Running
<1> QED BY <1>1, <1>2, StillAhead, SameData DEF AllInv

\* The user goes on and does nothing to the pool but count.
LEMMA DataUserGoesOn ==
  ASSUME AllInv, UserUnchanged, UNCHANGED <<events, shutting_down, round, asked, answer>>,
         user' \in {"data", "put_data"} <=> user \in {"data", "put_data"},
         user' \in {"results", "tasks", "last"} => user \in {"results", "tasks", "last"},
         Running /\ user' = "last" => OpenJobs = {}
  PROVE  DataInv'
<1> USE DEF AllInv
<1>1. UNCHANGED <<pc, event, pending_jobs, available_workers, busy_workers, has_data, common_data,
                  terminal_failure, ran_with>>
  BY DEF UserUnchanged, lists, processes
<1>2. AskedInv'
  BY DEF DataInv, AskedInv
<1>3. HeldInv'
  BY <1>1 DEF DataInv, HeldInv, Busy, RunWithData
<1>4. OpenJobs' = OpenJobs /\ Running' = Running
  BY <1>1 DEF OpenJobs, Running
<1>5. DataFirst' = DataFirst /\ DataNew' = DataNew /\ DataAhead' = DataAhead /\ Free' = Free /\ Busy' = Busy
  BY <1>1 DEF DataFirst, DataNew, DataAhead, Free, Busy
<1>6. Running /\ RoundInv => RoundInv'
  BY <1>1, <1>4, <1>5 DEF RoundInv
<1> QED BY <1>2, <1>3, <1>4, <1>6 DEF DataInv

\* The user shuts the pool down.
LEMMA DataUserLeaves ==
  ASSUME AllInv, Shutdown, UNCHANGED <<common_data, has_data, ran_with, round, asked>>,
         user' \in {"cancelled", "done"}, pc' = pc
  PROVE  DataInv'
<1> USE DEF AllInv
<1>1. AskedInv'
  BY DEF DataInv, AskedInv
<1>2. Busy' = {} /\ ~Running'
  BY DEF Shutdown, Busy, Running
<1>3. HeldInv'
  BY <1>2 DEF DataInv, HeldInv, RunWithData
<1> QED BY <1>1, <1>2, <1>3 DEF DataInv

\* When no task is left, no job is open.
LEMMA DataWaitForTasks == ASSUME AllInv, WaitForTasks PROVE DataInv'
<1> USE DEF AllInv
<1>1. /\ user = "tasks" /\ user' = IF tracker = 0 THEN "last" ELSE "results"
      /\ UserUnchanged /\ UNCHANGED <<events, shutting_down, round, asked, answer>>
  BY DEF WaitForTasks, Calls
<1>2. ASSUME Running, tracker = 0 PROVE OpenJobs = {}
  <2>1. Cardinality(Unanswered) = ToAnnounce
    BY <1>1, <1>2, UnansweredFinite DEF TasksInv, ToPut, ToAnnounce
  <2>2. \A j \in Jobs : answer[j] = "none" => j \in Unanswered
    BY NotAnswered
  <2>3. CASE pc = "announce"
    <3>1. event.job \in Unanswered
      BY <2>2, <2>3, EventFacts DEF IInv, HandInv
    <3>2. Cardinality(Unanswered \ {event.job}) = 0 /\ IsFiniteSet(Unanswered \ {event.job})
      BY <2>1, <2>3, <3>1, UnansweredFinite, FS_RemoveElement DEF ToAnnounce
    <3>3. Unanswered \ {event.job} = {}
      BY <3>2, FS_EmptySet
    <3> QED BY <2>2, <2>3, <3>3 DEF OpenJobs
  <2>4. CASE pc # "announce"
    <3>1. Unanswered = {}
      BY <2>1, <2>4, UnansweredFinite, FS_EmptySet DEF ToAnnounce
    <3> QED BY <2>2, <3>1 DEF OpenJobs
  <2> QED BY <2>3, <2>4
<1> QED BY <1>1, <1>2, DataUserGoesOn

LEMMA DataPutData == ASSUME AllInv, PutData PROVE DataInv'
<1> USE DEF AllInv
<1> DEFINE e == DataEvent(round)
<1>1. /\ user = "put_data" /\ user' = "job" /\ events' = Append(events, e) /\ events \in Seq(Event)
      /\ UNCHANGED <<pc, event, pending_jobs, available_workers, busy_workers, has_data, common_data,
                     terminal_failure, shutting_down, ran_with, answer, round, asked>>
  BY DEF PutData, UserUnchanged, IInv, TypesInv, lists, processes
<1>2. e \in Event /\ e.kind = "data" /\ e.round = round
  BY EventFacts DEF IInv, UserInv, DataEvent
<1> HIDE DEF e
<1>3. AskedInv'
  BY <1>1 DEF DataInv, AskedInv
<1>4. HeldInv'
  BY <1>1 DEF DataInv, HeldInv, Busy, RunWithData
<1>5. ASSUME Running' PROVE RoundInv'
  <2>1. Running /\ RoundInv /\ OpenJobs = {}
    BY <1>1, <1>5 DEF Running, DataInv, RoundInv
  <2>2. Unstarted = {} /\ BusyJobs = {}
    BY <2>1, PlacedOpen DEF Running
  <2>3. JobsOf(events, "job") = {} /\ pending_jobs = <<>> /\ Busy = {}
    <3>1. pending_jobs # <<>> => Last(pending_jobs) \in Elements(pending_jobs)
      BY FrontOnce DEF IInv, TypesInv
    <3> QED BY <2>2, <3>1 DEF Unstarted, BusyJobs
  <2>4. DataFirst' /\ DataAhead'
    BY <1>1, <1>2, <2>3, AppendAhead
  <2>5. \A i \in DOMAIN events' : events'[i] = e \/ \E k \in DOMAIN events : events'[i] = events[k]
    BY <1>1, <1>2, AppendAhead
  <2>6. DataNew'
    BY <1>1, <1>2, <2>1, <2>5 DEF RoundInv, DataNew
  <2>7. OpenJobs' = OpenJobs /\ Free' = Free /\ Busy' = Busy
    BY <1>1 DEF OpenJobs, Free, Busy
  <2>8. \A j \in Jobs : ~(j <= asked /\ Round(j) = round)
    <3> DEFINE n == (round - 1) * RoundSize
    <3>1. asked = n /\ n \in Int
      BY <1>1, RoundsAssumption DEF DataInv, AskedInv, IInv, UserInv
    <3>2. ASSUME NEW j \in Jobs, j <= asked, Round(j) = round PROVE FALSE
      <4>1. j \in Nat /\ j >= 1 /\ j <= (round - 1) * RoundSize
        BY <3>1, <3>2, NoneIsNoJob DEF Jobs
      <4>2. round \in Nat /\ round >= 1 /\ RoundSize \in Nat /\ RoundSize >= 1
        BY RoundsAssumption DEF IInv, UserInv
      <4>3. 1 + (j - 1) \div RoundSize = round
        BY <3>2 DEF Round
      <4> QED BY <4>1, <4>2, <4>3
    <3> QED BY <3>2
  <2> QED BY <1>1, <2>1, <2>3, <2>4, <2>6, <2>7, <2>8 DEF RoundInv
<1> QED BY <1>3, <1>4, <1>5 DEF DataInv

LEMMA DataPutJob == ASSUME AllInv, PutJob PROVE DataInv'
<1> USE DEF AllInv
<1> DEFINE j == asked + 1
           e == JobEvent(j)
<1>1. /\ user = "put_job" /\ events' = Append(events, e) /\ events \in Seq(Event)
      /\ asked' = j /\ answer' = [answer EXCEPT ![j] = "none"]
      /\ user' = IF j = round * RoundSize THEN "results" ELSE "job"
      /\ UNCHANGED <<pc, event, pending_jobs, available_workers, busy_workers, has_data, common_data,
                     terminal_failure, shutting_down, ran_with, round>>
  BY DEF PutJob, UserUnchanged, IInv, TypesInv, lists, processes
<1>2. j \in Jobs /\ answer[j] = "unasked"
  BY <1>1, NextJob DEF IInv
<1>3. e \in Event /\ e.kind = "job" /\ e.job = j
  BY <1>2, EventFacts
<1>4. AskedInv' /\ Round(j) = round
  <2> DEFINE n == round * RoundSize
             m == (round - 1) * RoundSize
  <2>1. asked \in Nat /\ asked < n /\ m <= asked /\ n \in Int /\ m \in Int /\ round \in Nat
    BY <1>1, RoundsAssumption DEF IInv, UserInv, DataInv, AskedInv
  <2>2. Round(j) = round
    <3>1. m < j /\ j <= n /\ j \in Nat
      <4> HIDE DEF n, m
      <4> QED BY <2>1
    <3> QED BY <2>1, <3>1, RoundOf
  <2>3. user' \in {"results", "job"} /\ (user' = "results" => asked' = n) /\ m <= asked'
    <3>1. user' = (IF j = n THEN "results" ELSE "job") /\ asked' = j
      BY <1>1
    <3> HIDE DEF n, m
    <3> QED BY <2>1, <3>1
  <2> QED BY <1>1, <2>2, <2>3 DEF AskedInv
<1>5. j \in Nat /\ asked \in Nat
  BY <1>2, NoneIsNoJob DEF IInv, UserInv
<1>6. \A i \in Jobs : i <= j <=> i <= asked \/ i = j
  BY <1>5, NoneIsNoJob
<1> HIDE DEF e, j
<1>7. HeldInv'
  BY <1>1 DEF DataInv, HeldInv, Busy, RunWithData
<1>8. SameAhead
  BY <1>1, <1>3, AppendAhead
<1>9. OpenJobs' = OpenJobs \cup {j}
  <2>1. pc = "announce" => event.job # j
    BY <1>2 DEF IInv, HandInv
  <2>2. \A i \in Jobs : answer'[i] = IF i = j THEN "none" ELSE answer[i]
    BY <1>1, <1>2 DEF IInv, TypesInv
  <2> QED BY <1>1, <1>2, <2>1, <2>2 DEF OpenJobs
<1>10. ASSUME Running' PROVE RoundInv'
  <2>1. RoundInv
    BY <1>1, <1>10 DEF Running, DataInv
  <2>2. DataFirst' /\ DataNew' /\ DataAhead' = DataAhead
    BY <1>1, <1>8, <2>1 DEF RoundInv, SameAhead, DataNew
  <2>3. Free' = Free /\ Busy' = Busy
    BY <1>1 DEF Free, Busy
  <2>4. user' \notin {"data", "put_data", "last"}
    BY <1>1
  <2>5. \A i \in OpenJobs' : Round(i) = round'
    BY <1>1, <1>4, <1>9, <2>1 DEF RoundInv
  <2>6. \A w \in Free' : has_data'[w] = common_data'
    BY <1>1, <2>1, <2>3 DEF RoundInv
  <2>7. DataAhead' =>
          /\ pending_jobs' = <<>> /\ Busy' = {}
          /\ \A i \in Jobs : i <= asked' /\ Round(i) = round' => i \in OpenJobs'
    BY <1>1, <1>6, <1>9, <2>1, <2>2, <2>3 DEF RoundInv
  <2>8. ~DataAhead' => common_data' = round'
    BY <1>1, <2>1, <2>2 DEF RoundInv
  <2> QED BY <2>2, <2>4, <2>5, <2>6, <2>7, <2>8 DEF RoundInv
<1> QED BY <1>4, <1>7, <1>10 DEF DataInv

\* The next round: all jobs of the last one are done, and its data arrived.
LEMMA DataLastLook == ASSUME AllInv, LastLook PROVE DataInv'
<1> USE DEF AllInv
<1>1. CASE Leave("done")
  BY <1>1, DataUserLeaves DEF Leave, processes
<1>2. CASE /\ results = <<>> /\ round < Rounds
           /\ user' = "data" /\ round' = round + 1 /\ UserUnchanged
           /\ UNCHANGED <<events, shutting_down, asked, answer>>
  <2>1. /\ user = "last"
        /\ UNCHANGED <<pc, event, pending_jobs, available_workers, busy_workers, has_data, common_data,
                       terminal_failure, ran_with>>
    BY <1>2 DEF LastLook, UserUnchanged, lists, processes
  <2>2. round \in 1..Rounds /\ round \in Nat /\ asked = round * RoundSize /\ round' - 1 = round
    BY <1>2, <2>1 DEF IInv, UserInv, DataInv, AskedInv
  <2>3. AskedInv'
    <3>1. (round' - 1) * RoundSize = asked' /\ asked' \in Int
      BY <1>2, <2>2, RoundFits
    <3> QED BY <1>2, <3>1 DEF AskedInv
  <2>4. HeldInv'
    BY <2>1 DEF DataInv, HeldInv, Busy, RunWithData
  <2>5. ASSUME Running' PROVE RoundInv'
    <3>1. Running /\ RoundInv /\ OpenJobs = {}
      BY <1>2, <2>1, <2>5 DEF Running, DataInv, RoundInv
    <3>2. asked \in Jobs /\ Round(asked) = round
      <4> DEFINE n == round * RoundSize
                 m == Rounds * RoundSize
                 l == (round - 1) * RoundSize
      <4>1. n \in Nat /\ n <= m /\ m \in Nat /\ RoundSize \in Nat /\ RoundSize >= 1 /\ l \in Nat /\ n = l + RoundSize
        BY <2>2, RoundFits, NoneIsNoJob, RoundsAssumption
      <4>2. asked = n /\ Jobs = 1..m
        BY <2>2 DEF Jobs
      <4>3. asked \in Jobs /\ l < asked /\ asked <= n /\ asked \in Nat
        <5> HIDE DEF n, m, l
        <5> QED BY <4>1, <4>2
      <4> QED BY <2>2, <4>3, RoundOf
    <3>3. ~DataAhead
      <4>1. asked <= asked
        BY DEF IInv, UserInv
      <4> QED BY <3>1, <3>2, <4>1 DEF RoundInv
    <3>4. OpenJobs' = {} /\ Free' = Free
      BY <1>2, <2>1, <3>1 DEF OpenJobs, Free
    <3>5. DataFirst' /\ DataNew' /\ ~DataAhead'
      BY <1>2, <3>3 DEF DataFirst, DataNew, DataAhead
    <3> QED BY <1>2, <2>1, <3>1, <3>4, <3>5 DEF RoundInv
  <2> QED BY <2>3, <2>4, <2>5 DEF DataInv
<1>3. CASE /\ user' = "results" /\ UserUnchanged
           /\ UNCHANGED <<events, shutting_down, round, asked, answer>>
  BY <1>3, DataUserGoesOn DEF LastLook
<1> QED BY <1>1, <1>2, <1>3 DEF LastLook

LEMMA DataUser == ASSUME AllInv, User \/ Cancel PROVE DataInv'
<1>1. CASE Calls("data", "put_data") \/ Calls("job", "count")
  BY <1>1, DataUserGoesOn DEF Calls
<1>2. CASE CountJob \/ NoResult
  BY <1>2, DataUserGoesOn DEF CountJob, NoResult
<1>3. CASE CallFails \/ Cancel
  <2>1. PICK how \in {"cancelled", "done"} : Leave(how)
    BY <1>3 DEF CallFails, Cancel
  <2> QED BY <2>1, DataUserLeaves DEF Leave, processes
<1>4. CASE TakeResult
  <2>1. CASE UNCHANGED <<user, events, shutting_down, lists>>
    <3>1. UserUnchanged
      BY <1>4, <2>1 DEF TakeResult, UserUnchanged
    <3> QED BY <1>4, <2>1, <3>1, DataUserGoesOn DEF TakeResult
  <2>2. CASE user' = "cancelled" /\ Shutdown
    BY <1>4, <2>2, DataUserLeaves DEF TakeResult, processes
  <2> QED BY <1>4, <2>1, <2>2 DEF TakeResult
<1> QED BY <1>1, <1>2, <1>3, <1>4, DataWaitForTasks, DataPutData, DataPutJob, DataLastLook DEF User

\* A job is run with the common data that were set before it was queued, also by
\* a process that is started later or was busy when they came.
THEOREM DataPassedOn == Spec => []RunWithData
<1>1. Init => DataInv
  <2> SUFFICES ASSUME Init PROVE DataInv
    OBVIOUS
  <2>1. AskedInv
    BY RoundsAssumption DEF Init, AskedInv
  <2>2. HeldInv
    BY DEF Init, HeldInv, Busy, RunWithData
  <2>3. RoundInv
    BY EmptyList DEF Init, RoundInv, Free, OpenJobs, DataFirst, DataNew, DataAhead
  <2> QED BY <2>1, <2>2, <2>3 DEF DataInv
<1>2. AllInv /\ [Next]_vars => DataInv'
  <2> SUFFICES ASSUME AllInv, [Next]_vars PROVE DataInv'
    OBVIOUS
  <2>1. CASE PoolThread
    BY <2>1, DataStartFirst, DataEnd, DataHandleJob, DataHandleResult, DataAnnounce, DataHandleData,
       DataDrain, DataTerminalError DEF PoolThread
  <2>2. CASE UNCHANGED vars
    <3>1. OpenJobs' = OpenJobs /\ Running' = Running
      BY <2>2 DEF vars, OpenJobs, Running
    <3> QED BY <2>2, <3>1, StillAhead, SameData DEF vars, AllInv
  <2> QED BY <2>1, <2>2, DataUser, DataJobEnds, DataWorkerDies DEF Next
<1>3. DataInv => RunWithData
  BY DEF DataInv, HeldInv
<1> QED BY <1>1, <1>2, <1>3, WorkersInvariance, TasksInvariance, PTL DEF Spec, AllInv
-----------------------------------------------------------------------------
(* Types: the tracker keeps to its bounds, also when the pool fails. *)

\* The jobs terminal_error would answer, and those in the queue.
Held == Unstarted \cup BusyJobs

CountsInv ==
  /\ tracker <= asked + ToPut
  /\ ~Running => tracker >= 0
  /\ terminal_failure /\ ~shutting_down => Cardinality(Held) + ToPut <= tracker

LEMMA HeldFinite ==
  ASSUME IInv
  PROVE  Held \subseteq Jobs /\ IsFiniteSet(Held) /\ Cardinality(Held) \in Nat
<1>1. JobsOf(events, "job") \subseteq Jobs
  BY EventFacts DEF JobsOf, IInv, TypesInv
<1>2. Elements(pending_jobs) \subseteq Jobs /\ BusyJobs \subseteq Jobs
  BY DEF Elements, BusyJobs, Busy, IInv, TypesInv
<1>3. IsFiniteSet(Jobs)
  <2>1. 1 \in Int /\ Rounds * RoundSize \in Int
    BY NoneIsNoJob
  <2> QED BY <2>1, FS_Interval DEF Jobs
<1>4. Held \subseteq Jobs
  BY <1>1, <1>2 DEF Held, Unstarted
<1> QED BY <1>3, <1>4, FS_Subset, FS_CardinalityType

\* Jobs that are held are counted.
LEMMA HeldCounted ==
  ASSUME IInv, TasksInv, CountsInv, ~shutting_down
  PROVE  Cardinality(Held) + ToPut <= tracker
<1>1. CASE terminal_failure
  BY <1>1 DEF CountsInv
<1>2. CASE ~terminal_failure
  <2>1. tracker = Cardinality(Unanswered) + ToPut - ToAnnounce
    BY <1>2 DEF TasksInv, Running
  <2>2. Held \subseteq Unanswered
    <3>1. \A j \in Held : j \in Jobs /\ answer[j] = "none"
      BY HeldFinite DEF Held, IInv, PlacesInv
    <3> QED BY <3>1, NotAnswered
  <2>3. CASE pc = "announce"
    <3>1. event.job \in Unanswered /\ event.job \notin Held
      BY <2>3, EventFacts, NotAnswered DEF IInv, HandInv, PlacesInv, Held
    <3>2. Held \in SUBSET (Unanswered \ {event.job})
      BY <2>2, <3>1
    <3>3. /\ IsFiniteSet(Unanswered \ {event.job})
          /\ Cardinality(Unanswered \ {event.job}) = Cardinality(Unanswered) - 1
      BY <3>1, UnansweredFinite, FS_RemoveElement
    <3>4. Cardinality(Held) <= Cardinality(Unanswered) - 1
      BY <3>2, <3>3, FS_Subset
    <3> QED BY <2>1, <2>3, <3>4, UnansweredFinite, HeldFinite DEF ToPut, ToAnnounce
  <2>4. CASE pc # "announce"
    <3>1. Cardinality(Held) <= Cardinality(Unanswered)
      BY <2>2, UnansweredFinite, FS_Subset
    <3> QED BY <2>1, <2>4, <3>1, UnansweredFinite, HeldFinite DEF ToPut, ToAnnounce
  <2> QED BY <2>3, <2>4
<1> QED BY <1>1, <1>2

LEMMA NeverNegative ==
  ASSUME IInv, TasksInv, CountsInv
  PROVE  tracker \in Nat
<1>1. Running => tracker >= 0
  BY HeldCounted, HeldFinite DEF Running, ToPut, TasksInv
<1> QED BY <1>1 DEF CountsInv, TasksInv

LEMMA SameCounts ==
  ASSUME IInv, TasksInv, CountsInv, UNCHANGED <<tracker, asked>>, ToPut' = ToPut,
         terminal_failure' /\ ~shutting_down' => ~shutting_down /\ Held' \subseteq Held
  PROVE  CountsInv'
<1>1. tracker >= 0 /\ tracker' <= asked' + ToPut'
  BY NeverNegative DEF CountsInv
<1>2. ASSUME terminal_failure', ~shutting_down' PROVE Cardinality(Held') + ToPut' <= tracker'
  <2>1. Cardinality(Held') <= Cardinality(Held) /\ Cardinality(Held') \in Nat
    BY <1>2, HeldFinite, FS_Subset, FS_CardinalityType
  <2>2. Cardinality(Held) + ToPut <= tracker
    BY <1>2, HeldCounted
  <2> QED BY <2>1, <2>2, HeldFinite DEF ToPut, TasksInv
<1> QED BY <1>1, <1>2 DEF CountsInv

\* Each job is answered by terminal_error once.
LEMMA GivenUpCounted ==
  ASSUME IInv, ~shutting_down
  PROVE  Len(GivenUp) \in Nat /\ Len(GivenUp) <= Cardinality(Held)
<1> DEFINE P == Elements(pending_jobs)
           n == Len(pending_jobs)
<1>1. /\ IsFiniteSet(BusyJobs) /\ Cardinality(BusyJobs) \in Nat
      /\ IsFiniteSet(P) /\ Cardinality(P) \in Nat
  <2>1. BusyJobs \in SUBSET Held /\ P \in SUBSET Held
    BY DEF Held, Unstarted
  <2> QED BY <2>1, HeldFinite, FS_Subset, FS_CardinalityType
<1>2. Len(SetToSeq(BusyJobs)) = Cardinality(BusyJobs)
  <2>1. \E f \in [1..Cardinality(BusyJobs) -> BusyJobs] : IsInjective(f)
    BY <1>1, FS_CardinalityType DEF ExistsBijection, Bijection, Injection
  <2>2. SetToSeq(BusyJobs) \in [1..Cardinality(BusyJobs) -> BusyJobs]
    BY <2>1 DEF SetToSeq
  <2> QED BY <1>1, <2>2
<1>3. n \in Nat /\ Len(Reverse(pending_jobs)) = n
  BY DEF Reverse, IInv, TypesInv
<1>4. Cardinality(P) = n
  <2>1. pending_jobs \in Bijection(1..n, P)
    <3>1. pending_jobs \in Seq(Jobs) /\ Once(pending_jobs)
      BY DEF IInv, TypesInv, PlacesInv
    <3>2. DOMAIN pending_jobs = 1..n /\ pending_jobs = [i \in 1..n |-> pending_jobs[i]]
      BY <3>1
    <3> QED BY <3>1, <3>2 DEF Once, Elements, Bijection, Injection, Surjection, IsInjective
  <2> HIDE DEF n, P
  <2>2. IsFiniteSet(1..n) /\ Cardinality(1..n) = n
    <3>1. 1 \in Int /\ n \in Int
      BY <1>3
    <3>2. IsFiniteSet(1..n) /\ Cardinality(1..n) = IF 1 > n THEN 0 ELSE n - 1 + 1
      BY <3>1, FS_Interval
    <3> QED BY <1>3, <3>2
  <2>3. ExistsBijection(1..n, P)
    BY <2>1 DEF ExistsBijection
  <2> QED BY <2>2, <2>3, FS_Bijection
<1>5. BusyJobs \cap P = {}
  BY DEF IInv, PlacesInv, Unstarted
<1>6. Cardinality(BusyJobs \cup P) = Cardinality(BusyJobs) + Cardinality(P)
  <2> HIDE DEF P
  <2>1. Cardinality(BusyJobs \cup P) = Cardinality(BusyJobs) + Cardinality(P) - Cardinality(BusyJobs \cap P)
    BY <1>1, FS_Union
  <2>2. Cardinality(BusyJobs \cap P) = 0
    BY <1>5, FS_EmptySet
  <2> QED BY <1>1, <2>1, <2>2
<1>7. Cardinality(BusyJobs \cup P) <= Cardinality(Held)
  BY HeldFinite, FS_Subset DEF Held, Unstarted
<1>8. Len(GivenUp) = Cardinality(BusyJobs) + n
  <2>1. GivenUp = SetToSeq(BusyJobs) \o Reverse(pending_jobs)
    BY DEF GivenUp, BusyJobs
  <2>2. SetToSeq(BusyJobs) \in Seq(BusyJobs) /\ Reverse(pending_jobs) \in Seq(P)
    BY GivenUpLists DEF IInv
  <2>3. Len(SetToSeq(BusyJobs) \o Reverse(pending_jobs)) = Len(SetToSeq(BusyJobs)) + Len(Reverse(pending_jobs))
    BY <2>2
  <2> QED BY <1>2, <1>3, <2>1, <2>3
<1> QED BY <1>1, <1>3, <1>4, <1>6, <1>7, <1>8

LEMMA CountsThread == ASSUME IInv, TasksInv, CountsInv, PoolThread PROVE CountsInv'
<1>1. CASE HandleResult
  <2>1. /\ pc = "wait" /\ ~shutting_down /\ tracker' = tracker - 1
        /\ UNCHANGED <<asked, user, terminal_failure, shutting_down>>
    BY <1>1 DEF HandleResult, Gets, client
  <2>2. ~terminal_failure /\ tracker \in Int /\ asked \in Int
    BY <2>1 DEF IInv, FailInv, UserInv, TasksInv
  <2> QED BY <2>1, <2>2 DEF CountsInv, Running, ToPut
<1>2. CASE TerminalError
  <2>1. UNCHANGED <<asked, user>> /\ asked \in Int
    BY <1>2 DEF TerminalError, client, IInv, UserInv
  <2>2. CASE shutting_down
    <3>1. shutting_down' /\ tracker' = tracker
      BY <1>2, <2>2 DEF TerminalError
    <3> QED BY <2>1, <3>1, SameCounts DEF ToPut
  <2>3. CASE ~shutting_down
    <3>1. shutting_down' /\ tracker' = tracker - Len(GivenUp)
      BY <1>2, <2>3 DEF TerminalError, Shutdown
    <3>2. /\ tracker \in Nat /\ Len(GivenUp) \in Nat /\ Len(GivenUp) <= Cardinality(Held)
          /\ Cardinality(Held) + ToPut <= tracker /\ Cardinality(Held) \in Nat
      BY <2>3, NeverNegative, GivenUpCounted, HeldCounted, HeldFinite
    <3> QED BY <2>1, <3>1, <3>2 DEF CountsInv, ToPut, Running
  <2> QED BY <2>2, <2>3
<1>3. CASE StartFirst \/ End \/ HandleJob \/ Announce \/ HandleData \/ Drain
  <2>1. UNCHANGED <<tracker, asked, user, shutting_down>>
    BY <1>3 DEF StartFirst, End, HandleJob, Announce, HandleData, Drain, client
  <2>2. ~terminal_failure
    BY <1>3 DEF StartFirst, End, HandleJob, Announce, HandleData, Drain, Gets, IInv, FailInv
  <2>3. ASSUME terminal_failure' PROVE Held' \subseteq Held
    <3>1. busy_workers' = busy_workers
      BY <1>3, <2>2, <2>3 DEF StartFirst, End, HandleJob, Announce, HandleData, Drain, RunJob, lists
    <3>2. events' = events \/ (events # <<>> /\ events' = Tail(events))
      <4>1. StartFirst \/ Announce \/ Drain => events' = events
        BY DEF StartFirst, Announce, Drain
      <4>2. End \/ HandleJob \/ HandleData => events # <<>> /\ events' = Tail(events)
        BY DEF End, HandleJob, HandleData, Gets
      <4> QED BY <1>3, <4>1, <4>2
    <3>3. JobsOf(events', "job") \subseteq JobsOf(events, "job")
      BY <3>2, TailEvents DEF IInv, TypesInv
    <3>4. pending_jobs' = pending_jobs \/ (pending_jobs # <<>> /\ pending_jobs' = Front(pending_jobs))
      <4>1. StartFirst \/ End \/ Announce \/ HandleData => pending_jobs' = pending_jobs
        BY DEF StartFirst, End, Announce, HandleData, lists
      <4>2. HandleJob => pending_jobs' = pending_jobs
        BY <2>2, <2>3 DEF HandleJob
      <4>3. Drain => pending_jobs' = pending_jobs \/ (pending_jobs # <<>> /\ pending_jobs' = Front(pending_jobs))
        BY DEF Drain, Taken
      <4> QED BY <1>3, <4>1, <4>2, <4>3
    <3>5. Elements(pending_jobs') \subseteq Elements(pending_jobs)
      BY <3>4, FrontOnce DEF IInv, TypesInv
    <3> QED BY <3>1, <3>3, <3>5 DEF Held, Unstarted, BusyJobs, Busy
  <2> QED BY <2>1, <2>3, SameCounts DEF ToPut
<1> QED BY <1>1, <1>2, <1>3 DEF PoolThread

LEMMA CountsUser == ASSUME IInv, TasksInv, CountsInv, User \/ Cancel PROVE CountsInv'
<1>1. CASE CountJob
  <2>1. /\ tracker' = tracker + 1 /\ ToPut = 0 /\ ToPut' = 1 /\ user = "count"
        /\ UNCHANGED <<asked, events, pending_jobs, busy_workers, terminal_failure, shutting_down>>
    BY <1>1 DEF CountJob, Counted, UserUnchanged, lists, ToPut
  <2>2. Held' = Held
    BY <2>1 DEF Held, Unstarted, BusyJobs, Busy
  <2> QED BY <2>1, <2>2, NeverNegative, HeldFinite DEF CountsInv, Running, IInv, UserInv
<1>2. CASE PutJob
  <2>1. /\ ToPut = 1 /\ ToPut' = 0 /\ asked' = asked + 1 /\ user = "put_job"
        /\ events' = Append(events, JobEvent(asked + 1)) /\ events \in Seq(Event)
        /\ UNCHANGED <<tracker, pending_jobs, busy_workers, terminal_failure, shutting_down>>
    BY <1>2 DEF PutJob, UserUnchanged, lists, ToPut, IInv, TypesInv
  <2>2. JobEvent(asked + 1) \in Event /\ JobEvent(asked + 1).kind = "job" /\ JobEvent(asked + 1).job = asked + 1
    BY <2>1, NextJob, EventFacts DEF IInv
  <2>3. Held' = Held \cup {asked + 1}
    <3> DEFINE e == JobEvent(asked + 1)
    <3>1. events' = Append(events, e) /\ e \in Event /\ e.kind = "job" /\ e.job = asked + 1
      BY <2>1, <2>2
    <3> HIDE DEF e
    <3>2. JobsOf(events', "job") = JobsOf(events, "job") \cup {asked + 1}
      BY <2>1, <3>1, AppendEvents
    <3>3. Elements(pending_jobs)' = Elements(pending_jobs) /\ BusyJobs' = BusyJobs
      BY <2>1 DEF BusyJobs, Busy
    <3> QED BY <3>2, <3>3 DEF Held, Unstarted
  <2>4. Cardinality(Held') <= Cardinality(Held) + 1 /\ Cardinality(Held') \in Nat
    <3> DEFINE S == Held \cup {asked + 1}
    <3>1. IsFiniteSet(Held) /\ Cardinality(Held) \in Nat
      BY HeldFinite
    <3>2. /\ IsFiniteSet(S)
          /\ Cardinality(S) = IF asked + 1 \in Held THEN Cardinality(Held) ELSE Cardinality(Held) + 1
      BY <3>1, FS_AddElement
    <3> QED BY <2>3, <3>1, <3>2
  <2> QED BY <2>1, <2>4, NeverNegative, HeldFinite DEF CountsInv, Running, IInv, UserInv
<1>3. ASSUME user # "put_job", user' # "put_job", UNCHANGED <<tracker, asked, shutting_down>>,
             UserUnchanged,
             \/ events' = events
             \/ \E e \in Event : e.kind # "job" /\ events' = Append(events, e)
      PROVE  CountsInv'
  <2>1. JobsOf(events', "job") = JobsOf(events, "job")
    <3>1. ASSUME NEW e \in Event, e.kind # "job", events' = Append(events, e)
          PROVE  JobsOf(events', "job") = JobsOf(events, "job")
      BY <3>1, AppendEvents DEF IInv, TypesInv
    <3> QED BY <1>3, <3>1
  <2>2. Held' = Held
    BY <1>3, <2>1 DEF UserUnchanged, lists, Held, Unstarted, BusyJobs, Busy
  <2> QED BY <1>3, <2>2, SameCounts DEF ToPut
<1>4. ASSUME user # "put_job", user' # "put_job", UNCHANGED <<tracker, asked>>, Shutdown PROVE CountsInv'
  BY <1>4, SameCounts DEF ToPut, Shutdown
<1>5. CASE PutData
  <2>1. DataEvent(round) \in Event /\ DataEvent(round).kind # "job"
    BY EventFacts DEF IInv, UserInv
  <2> QED BY <1>3, <1>5, <2>1 DEF PutData
<1>6. CASE Calls("data", "put_data") \/ Calls("job", "count") \/ NoResult
  BY <1>3, <1>6 DEF Calls, NoResult
<1>7. CASE WaitForTasks
  BY <1>3, <1>7 DEF WaitForTasks, Calls
<1>8. CASE CallFails \/ Cancel
  <2>1. PICK how \in {"cancelled", "done"} : Leave(how) /\ user # "put_job"
    BY <1>8 DEF CallFails, FailingCalls, Cancel
  <2> QED BY <1>4, <2>1 DEF Leave
<1>9. CASE TakeResult
  <2>1. CASE UNCHANGED <<user, events, shutting_down, lists>>
    <3>1. UserUnchanged
      BY <1>9, <2>1 DEF TakeResult, UserUnchanged
    <3> QED BY <1>3, <1>9, <2>1, <3>1 DEF TakeResult
  <2>2. CASE user' = "cancelled" /\ Shutdown
    BY <1>4, <1>9, <2>2 DEF TakeResult
  <2> QED BY <1>9, <2>1, <2>2 DEF TakeResult
<1>10. CASE LastLook
  <2>1. CASE Leave("done")
    BY <1>4, <1>10, <2>1 DEF LastLook, Leave
  <2>2. CASE /\ user' = IF results = <<>> THEN "data" ELSE "results"
             /\ UserUnchanged /\ UNCHANGED <<events, tracker, shutting_down, asked>>
    BY <1>3, <1>10, <2>2 DEF LastLook
  <2> QED BY <1>10, <2>1, <2>2 DEF LastLook
<1> QED BY <1>1, <1>2, <1>5, <1>6, <1>7, <1>8, <1>9, <1>10 DEF User

\* Every variable has its type, for any number of workers, rounds and jobs; a
\* worker is in one place, reports once, and the tracker never falls below zero.
THEOREM TypeCorrect == Spec => []TypeOK
<1>1. Init => CountsInv
  <2> SUFFICES ASSUME Init PROVE CountsInv
    OBVIOUS
  <2>1. tracker = 0 /\ asked = 0 /\ ToPut = 0 /\ Running
    BY DEF Init, ToPut, Running
  <2> QED BY <2>1 DEF CountsInv, Running
<1>2. IInv /\ TasksInv /\ CountsInv /\ [Next]_vars => CountsInv'
  <2> SUFFICES ASSUME IInv, TasksInv, CountsInv, [Next]_vars PROVE CountsInv'
    OBVIOUS
  <2>1. ASSUME NEW w \in Workers, JobEnds(w) \/ WorkerDies(w) PROVE CountsInv'
    <3>1. UNCHANGED <<tracker, asked, user, pending_jobs, busy_workers, shutting_down>>
      BY <2>1 DEF JobEnds, WorkerDies, client, lists
    <3>2. JobsOf(events', "job") = JobsOf(events, "job")
      <4>1. CASE WorkerDies(w)
        BY <4>1 DEF WorkerDies
      <4>2. CASE JobEnds(w)
        <5> DEFINE e == ResultEvent(w, busy_workers[w], w \notin alive)
        <5>1. events' = Append(events, e) /\ events \in Seq(Event) /\ busy_workers[w] \in Jobs
          BY <4>2 DEF JobEnds, IInv, TypesInv
        <5>2. e \in Event /\ e.kind = "result"
          BY <5>1, ResultFacts
        <5> HIDE DEF e
        <5> QED BY <5>1, <5>2, AppendEvents
      <4> QED BY <2>1, <4>1, <4>2
    <3>3. Held' = Held
      BY <3>1, <3>2 DEF Held, Unstarted, BusyJobs, Busy
    <3> QED BY <3>1, <3>3, SameCounts DEF ToPut
  <2>2. CASE UNCHANGED vars
    <3>1. Held' = Held
      BY <2>2 DEF vars, Held, Unstarted, BusyJobs, Busy
    <3> QED BY <2>2, <3>1, SameCounts DEF vars, ToPut
  <2> QED BY <2>1, <2>2, CountsThread, CountsUser DEF Next
<1>3. IInv /\ WorkersInv /\ ResultsInv /\ TasksInv /\ CountsInv => TypeOK
  <2> SUFFICES ASSUME IInv, WorkersInv, ResultsInv, TasksInv, CountsInv PROVE TypeOK
    OBVIOUS
  <2>1. tracker \in 0..(Rounds * RoundSize)
    <3> DEFINE n == round * RoundSize
               m == Rounds * RoundSize
    <3>1. n \in Nat /\ n <= m /\ m \in Nat
      BY RoundFits, NoneIsNoJob DEF IInv, UserInv
    <3>2. asked \in Nat /\ asked <= n /\ (user = "put_job" => asked < n)
      BY DEF IInv, UserInv
    <3>3. tracker \in Nat /\ tracker <= asked + ToPut
      BY NeverNegative DEF CountsInv
    <3> HIDE DEF n
    <3>4. tracker <= m
      <4> HIDE DEF m
      <4> QED BY <3>1, <3>2, <3>3 DEF ToPut
    <3> QED BY <3>1, <3>3, <3>4
  <2>2. IsInjective(available_workers) /\ Range(available_workers) \cap Busy = {}
    BY DEF WorkersInv, Once, Free, Elements, Range, IsInjective
  <2>3. ASSUME NEW i \in DOMAIN events, events[i].kind = "result", ~shutting_down
        PROVE  events[i].worker \in Busy
    <3>1. events[i] \in Event
      BY DEF IInv, TypesInv
    <3>2. events[i].worker \in Workers /\ events[i].job \in Jobs
      BY <2>3, <3>1, EventFacts
    <3> QED BY <2>3, <3>2, NoneIsNoJob DEF ResultsInv, Busy
  <2>4. pc \in {"start", "wait", "announce", "drain", "terminal", "ended"} /\ started \in 0..max_workers
    BY DEF IInv, TypesInv, WorkersInv
  <2>5. \A w \in Workers : busy_workers[w] \in Jobs \cup {None}
    BY DEF IInv, TypesInv
  <2> QED BY <2>1, <2>2, <2>3, <2>4, <2>5 DEF TypeOK
<1> QED BY <1>1, <1>2, <1>3, WorkersInvariance, TasksInvariance, PTL DEF Spec
=============================================================================
