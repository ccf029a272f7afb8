----------------------------- MODULE WorkerPool -----------------------------
(***************************************************************************)
(* The pool of worker processes of the graphical interface                 *)
(* (utils/ipc/pool.py): the thread of the pool, which starts processes and *)
(* hands jobs to them, the threads that wait for their results, and the    *)
(* user of the pool, who queues jobs and polls for their results the way   *)
(* gui2/add.py does.  A process may die at any time, which ends the pool.  *)
(*                                                                         *)
(* Threads share queues and lists without a lock.  A step of the model is  *)
(* what a thread does between two accesses another thread may come         *)
(* between; handing a job to a process is one step.                        *)
(*                                                                         *)
(* In a round the user sets the common data, queues jobs and waits for     *)
(* them.  gui2/add.py has one round; the comment of set_common_data allows *)
(* another "after all jobs are done".                                      *)
(***************************************************************************)
EXTENDS Integers, Sequences, SequencesExt, FiniteSets

CONSTANTS max_workers,
          Rounds,      \* bound: rounds
          RoundSize,   \* the jobs of a round
          None

ASSUME WorkersAssumption == max_workers \in Nat \ {0}
ASSUME RoundsAssumption == Rounds \in Nat \ {0} /\ RoundSize \in Nat \ {0} /\ None \notin Int

Workers == 1..max_workers
Jobs == 1..(Rounds * RoundSize)
Round(j) == 1 + (j - 1) \div RoundSize

VARIABLES
  pc,             \* where the thread of the pool is
  event,          \* the result of a worker it handles, or None
  events, results, tracker,   \* its queues; of tracker, the unfinished tasks
  available_workers, pending_jobs,
  busy_workers,   \* busy_workers[w]: the job w works at, or None
  started,        \* the number of processes started
  alive,          \* the processes that did not die
  common_data,    \* the round whose data it was told of
  has_data,       \* has_data[w]: the round whose data w has
  terminal_failure, shutting_down,
  user, round, asked,   \* where the user is, in which round, with how many jobs queued
  answer,         \* history: what job j was answered
  ran_with        \* history: the data job j was run with

lists == <<available_workers, pending_jobs, busy_workers, started>>
processes == <<alive, has_data>>
client == <<user, round, asked>>
vars == <<pc, event, events, results, tracker, available_workers, pending_jobs, busy_workers,
          started, alive, common_data, has_data, terminal_failure, shutting_down, user, round, asked,
          answer, ran_with>>

JobEvent(j) == [kind |-> "job", job |-> j]
DataEvent(r) == [kind |-> "data", round |-> r]
ResultEvent(w, j, crashed) == [kind |-> "result", worker |-> w, job |-> j, crashed |-> crashed]
Stop == [kind |-> "stop"]

Busy == {w \in Workers : busy_workers[w] # None}

Init == /\ pc = "start" /\ event = None
        /\ events = <<>> /\ results = <<>> /\ tracker = 0
        /\ available_workers = <<>> /\ pending_jobs = <<>>
        /\ busy_workers = [w \in Workers |-> None] /\ started = 0
        /\ alive = Workers /\ common_data = 0 /\ has_data = [w \in Workers |-> 0]
        /\ terminal_failure = FALSE /\ shutting_down = FALSE
        /\ user = "data" /\ round = 1 /\ asked = 0
        /\ answer = [j \in Jobs |-> "unasked"] /\ ran_with = [j \in Jobs |-> None]
-----------------------------------------------------------------------------
(* The thread of the pool. *)

Fails == pc' = "terminal" /\ terminal_failure' = TRUE

\* run_job: worker w gets job j, unless it is dead, and then nobody has the job.
RunJob(w, j, then) ==
  IF w \in alive
  THEN /\ busy_workers' = [busy_workers EXCEPT ![w] = j]
       /\ pc' = then
       /\ UNCHANGED terminal_failure
  ELSE Fails /\ UNCHANGED busy_workers

\* start_worker
StartFirst ==
  /\ pc = "start"
  /\ \/ /\ started' = 1
        /\ available_workers' = IF shutting_down THEN <<>> ELSE <<1>>
        /\ pc' = "wait"
        /\ UNCHANGED terminal_failure
     \/ Fails /\ UNCHANGED <<started, available_workers>>
  /\ UNCHANGED <<event, events, results, tracker, pending_jobs, busy_workers, processes,
                 common_data, shutting_down, client, answer, ran_with>>

\* The pool was told to end.
End ==
  /\ pc = "wait"
  /\ events # <<>>
  /\ shutting_down \/ Head(events) = Stop
  /\ pc' = "ended"
  /\ events' = Tail(events)
  /\ UNCHANGED <<event, results, tracker, lists, processes, common_data, terminal_failure,
                 shutting_down, client, answer, ran_with>>

Gets(kind) == /\ pc = "wait"
              /\ ~shutting_down
              /\ events # <<>> /\ Head(events).kind = kind
              /\ events' = Tail(events)

\* Mutant of DataOfNewWorker: a new process does not get the data.
DataOfNewWorker_None == 0

DataOfNewWorker == common_data

HandleJob ==
  /\ Gets("job")
  /\ LET j == Head(events).job
     IN  \/ /\ available_workers # <<>>
            /\ available_workers' = Front(available_workers)
            /\ RunJob(Last(available_workers), j, "wait")
            /\ UNCHANGED <<pending_jobs, started, has_data>>
         \/ /\ available_workers = <<>>
            /\ Cardinality(Busy) >= max_workers
            /\ pending_jobs' = Append(pending_jobs, j)
            /\ UNCHANGED <<pc, terminal_failure, available_workers, busy_workers, started, has_data>>
         \/ /\ available_workers = <<>>
            /\ Cardinality(Busy) < max_workers
            /\ \/ /\ started' = started + 1
                  /\ has_data' = [has_data EXCEPT ![started'] = DataOfNewWorker]
                  /\ RunJob(started', j, "wait")
               \/ Fails /\ UNCHANGED <<started, busy_workers, has_data>>
            /\ UNCHANGED <<available_workers, pending_jobs>>
  /\ UNCHANGED <<event, results, tracker, alive, common_data, shutting_down, client, answer, ran_with>>

\* Mutant of Freed: the worker stays among the busy ones.
Freed_StillBusy(w) == busy_workers

Freed(w) == [busy_workers EXCEPT ![w] = None]

\* The worker is free and the job done with ...
HandleResult ==
  /\ Gets("result")
  /\ event' = Head(events)
  /\ busy_workers' = Freed(event'.worker)
  /\ available_workers' = Append(available_workers, event'.worker)
  /\ tracker' = tracker - 1
  /\ pc' = "announce"
  /\ UNCHANGED <<results, pending_jobs, started, processes, common_data, terminal_failure,
                 shutting_down, client, answer, ran_with>>

\* Mutant of AfterResult: no look at the jobs that wait.
AfterResult_Wait == "wait"

AfterResult == "drain"

\* ... before its result is in the queue.
Announce ==
  /\ pc = "announce"
  /\ event' = None
  /\ \/ /\ event.crashed /\ Fails
        /\ UNCHANGED <<results, answer>>
     \/ /\ ~event.crashed
        /\ results' = Append(results, [job |-> event.job, lost |-> FALSE])
        /\ answer' = [answer EXCEPT ![event.job] = "result"]
        /\ pc' = AfterResult
        /\ UNCHANGED terminal_failure
  /\ UNCHANGED <<events, tracker, lists, processes, common_data, shutting_down, client, ran_with>>

\* The data go to the workers that are free.
HandleData ==
  /\ Gets("data")
  /\ common_data' = Head(events).round
  /\ \/ /\ Range(available_workers) \subseteq alive
        /\ has_data' = [w \in Workers |-> IF w \in Range(available_workers) THEN common_data' ELSE has_data[w]]
        /\ pc' = "drain"
        /\ UNCHANGED terminal_failure
     \/ /\ ~(Range(available_workers) \subseteq alive)
        /\ Fails /\ UNCHANGED has_data
  /\ UNCHANGED <<event, results, tracker, lists, alive, shutting_down, client, answer, ran_with>>

\* Mutant of Taken: the job is looked at and stays.
Taken_Stays(jobs) == jobs

Taken(jobs) == Front(jobs)

\* The job that waits for the shortest time goes first.
Drain ==
  /\ pc = "drain"
  /\ \/ /\ pending_jobs # <<>> /\ available_workers # <<>>
        /\ pending_jobs' = Taken(pending_jobs)
        /\ available_workers' = Front(available_workers)
        /\ RunJob(Last(available_workers), Last(pending_jobs), "drain")
     \/ /\ pending_jobs = <<>> \/ available_workers = <<>>
        /\ pc' = "wait"
        /\ UNCHANGED <<pending_jobs, available_workers, busy_workers, terminal_failure>>
  /\ UNCHANGED <<event, events, results, tracker, started, processes, common_data, shutting_down,
                 client, answer, ran_with>>

Shutdown == /\ shutting_down' = TRUE
            /\ available_workers' = <<>>
            /\ busy_workers' = [w \in Workers |-> None]

\* The jobs terminal_error answers: those with workers and those that wait.
GivenUp == SetToSeq({busy_workers[w] : w \in Busy}) \o Reverse(pending_jobs)

TerminalError ==
  /\ pc = "terminal"
  /\ pc' = "ended"
  /\ IF shutting_down
     THEN UNCHANGED <<events, results, tracker, pending_jobs, available_workers, busy_workers, shutting_down, answer>>
     ELSE /\ results' = results \o [i \in DOMAIN GivenUp |-> [job |-> GivenUp[i], lost |-> TRUE]]
          /\ answer' = [j \in Jobs |-> IF j \in Range(GivenUp) THEN "lost" ELSE answer[j]]
          /\ tracker' = tracker - Len(GivenUp)
          /\ pending_jobs' = <<>>
          /\ events' = Append(events, Stop)
          /\ Shutdown
  /\ UNCHANGED <<event, started, processes, common_data, terminal_failure, client, ran_with>>

PoolThread == \/ StartFirst \/ End \/ HandleJob \/ HandleResult \/ Announce \/ HandleData
              \/ Drain \/ TerminalError
-----------------------------------------------------------------------------
(* The processes. *)

JobEnds(w) ==
  /\ busy_workers[w] # None
  /\ ~\E i \in DOMAIN events : events[i].kind = "result" /\ events[i].worker = w
  /\ LET j == busy_workers[w]
     IN  /\ events' = Append(events, ResultEvent(w, j, w \notin alive))
         /\ ran_with' = [ran_with EXCEPT ![j] = has_data[w]]
  /\ UNCHANGED <<pc, event, results, tracker, lists, processes, common_data, terminal_failure,
                 shutting_down, client, answer>>

WorkerDies(w) ==
  /\ w \in alive /\ w <= started
  /\ ~shutting_down
  /\ alive' = alive \ {w}
  /\ UNCHANGED <<pc, event, events, results, tracker, lists, common_data, has_data, terminal_failure,
                 shutting_down, client, answer, ran_with>>
-----------------------------------------------------------------------------
(* The user of the pool. *)

UserUnchanged == UNCHANGED <<pc, event, lists, processes, common_data, terminal_failure, ran_with>>

\* A call raises Failure: the user shuts the pool down.  So does a user who is
\* done or has been told to cancel.
Leave(how) ==
  /\ user' = how
  /\ events' = Append(events, Stop)
  /\ Shutdown
  /\ UNCHANGED <<pc, event, results, tracker, pending_jobs, started, processes, common_data,
                 terminal_failure, round, asked, answer, ran_with>>

\* Every call of the pool first looks at terminal_failure.
Calls(at, then) ==
  /\ user = at
  /\ ~terminal_failure
  /\ user' = then
  /\ UserUnchanged
  /\ UNCHANGED <<events, results, tracker, shutting_down, round, asked, answer>>

\* Mutant of FailingCalls: wait_for_tasks only waits.
FailingCalls_NotWaiting == {"data", "job"}

FailingCalls == {"data", "job", "tasks"}

CallFails ==
  /\ user \in FailingCalls
  /\ terminal_failure
  /\ Leave("cancelled")

Cancel ==
  /\ user \in {"data", "job", "results"}
  /\ Leave("cancelled")

PutData ==
  /\ user = "put_data"
  /\ events' = Append(events, DataEvent(round))
  /\ user' = "job"
  /\ UserUnchanged
  /\ UNCHANGED <<results, tracker, shutting_down, round, asked, answer>>

\* Mutant of Counted: a job is counted when the queue is empty only.
Counted_First == tracker + (IF events = <<>> THEN 1 ELSE 0)

Counted == tracker + 1

\* The job is counted ...
CountJob ==
  /\ user = "count"
  /\ tracker' = Counted
  /\ user' = "put_job"
  /\ UserUnchanged
  /\ UNCHANGED <<events, results, shutting_down, round, asked, answer>>

\* ... before the thread of the pool can see it.
PutJob ==
  /\ user = "put_job"
  /\ asked' = asked + 1
  /\ events' = Append(events, JobEvent(asked'))
  /\ answer' = [answer EXCEPT ![asked'] = "none"]
  /\ user' = IF asked' = round * RoundSize THEN "results" ELSE "job"
  /\ UserUnchanged
  /\ UNCHANGED <<results, tracker, shutting_down, round>>

\* A result that says that the pool failed ends it all.
TakeResult ==
  /\ user = "results"
  /\ results # <<>>
  /\ \/ ~Head(results).lost /\ results' = Tail(results) /\ UNCHANGED <<user, events, shutting_down, lists>>
     \/ /\ Head(results).lost /\ results' = Tail(results)
        /\ user' = "cancelled"
        /\ events' = Append(events, Stop) /\ Shutdown /\ UNCHANGED <<pending_jobs, started>>
  /\ UNCHANGED <<pc, event, tracker, processes, common_data, terminal_failure, round, asked, answer, ran_with>>

NoResult ==
  /\ user = "results"
  /\ results = <<>>
  /\ user' = "tasks"
  /\ UserUnchanged
  /\ UNCHANGED <<events, results, tracker, shutting_down, round, asked, answer>>

\* wait_for_tasks
WaitForTasks == Calls("tasks", IF tracker = 0 THEN "last" ELSE "results")

\* All tasks are done, and the queue of the results is empty, or not.
LastLook ==
  /\ user = "last"
  /\ \/ /\ results = <<>> /\ round = Rounds
        /\ Leave("done")
     \/ /\ results # <<>> \/ round < Rounds
        /\ user' = IF results = <<>> THEN "data" ELSE "results"
        /\ round' = IF results = <<>> THEN round + 1 ELSE round
        /\ UserUnchanged
        /\ UNCHANGED <<events, results, tracker, shutting_down, asked, answer>>

User == \/ Calls("data", "put_data") \/ Calls("job", "count") \/ WaitForTasks
        \/ CallFails \/ PutData \/ CountJob \/ PutJob \/ TakeResult \/ NoResult \/ LastLook

Next == \/ PoolThread \/ User \/ Cancel
        \/ \E w \in Workers : JobEnds(w) \/ WorkerDies(w)

Spec == Init /\ [][Next]_vars

Fairness == /\ WF_vars(PoolThread) /\ WF_vars(User)
            /\ \A w \in Workers : WF_vars(JobEnds(w))

FairSpec == Spec /\ Fairness
-----------------------------------------------------------------------------
(* Properties. *)

\* Every variable has its type; a worker is free or busy, in one place, and
\* reports once.
TypeOK ==
  /\ pc \in {"start", "wait", "announce", "drain", "terminal", "ended"}
  /\ tracker \in 0..(Rounds * RoundSize)
  /\ started \in 0..max_workers
  /\ \A w \in Workers : busy_workers[w] \in Jobs \cup {None}
  /\ IsInjective(available_workers)
  /\ Range(available_workers) \cap Busy = {}
  /\ \A i \in DOMAIN events : (events[i].kind = "result" /\ ~shutting_down) => events[i].worker \in Busy

\* The pool does what JobService says: whatever is queued, pending, taken back
\* from workers that die or given up, no job gets two answers, none gets an
\* answer nobody asked for, and none a result after the pool has failed.
Service == INSTANCE JobService WITH broken <- terminal_failure
KeepsPromise == Service!Spec

\* While jobs wait for a worker the pool has all the processes it may have and
\* each has a job; whenever the thread of the pool waits for an event.
NoIdleWorker ==
  (pc = "wait" /\ pending_jobs # <<>> /\ ~shutting_down) =>
    available_workers = <<>> /\ Cardinality(Busy) = max_workers

\* What wait_for_tasks waits for is the jobs without an answer: none that sits
\* in a queue, waits for a worker or is being run is forgotten, none is counted
\* twice.  The job whose result is about to be put is counted as done already.
TrackerCounts ==
  (~shutting_down /\ ~terminal_failure) =>
    tracker = Cardinality({j \in 1..asked : answer[j] = "none"})
              + (IF user = "put_job" THEN 1 ELSE 0) - (IF pc = "announce" THEN 1 ELSE 0)

\* A job is run with the common data that were set before it was queued, also by
\* a process that is started later or was busy, and was free when data changed.
RunWithData == \A j \in Jobs : ran_with[j] # None => ran_with[j] = Round(j)

\* As long as no job runs for ever the user of the pool gets to an end, also
\* when processes die or cannot be started.
UserEnds == <>(user \in {"done", "cancelled"})

\* gui2/add.py, after wait_for_tasks and a look at the results: "All tasks
\* completed", "No results left".  A user who is done has the result of every job.
NothingLost == user = "done" => \A j \in Jobs : answer[j] = "result"
=============================================================================
