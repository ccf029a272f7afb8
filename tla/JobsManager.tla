----------------------------- MODULE JobsManager -----------------------------
(***************************************************************************)
(* The jobs of the content server (srv/jobs.py).  A request thread hands a *)
(* job to the JobsManager, its event loop thread starts up to max_jobs of  *)
(* them, each with a thread that runs a worker process, and moves them to  *)
(* finished_jobs when they report.  Jobs that take longer than the limit   *)
(* are told to abort.  RenderQueue adds a client with a callback.          *)
(*                                                                         *)
(* Time is counted in units in which the steps of the threads take none.   *)
(***************************************************************************)
EXTENDS Integers, Sequences, FiniteSets, FiniteSetsExt

CONSTANTS NumJobs,      \* bound: the number of jobs that are started
          max_jobs,     \* how many run at a time
          max_job_time, \* how long each may run
          KeepTime,     \* how long the result of a job is kept (an hour)
          MaxTime,      \* bound: the end of time
          None

ASSUME ManagerAssumption ==
  /\ NumJobs \in Nat \ {0} /\ max_jobs \in Nat \ {0}
  /\ max_job_time \in Nat /\ KeepTime \in Nat /\ MaxTime \in Nat
  /\ None \notin Int

Jobs == 1..NumJobs
Times == 0..MaxTime

VARIABLES
  now,
  job_id,           \* the next job
  events,           \* the queue of StartEvents, DoneEvents and the final False
  waiting_job_ids, waiting_jobs,
  jobs,             \* the ids of the dictionary of running jobs
  finished_jobs,    \* the ids of the dictionary of finished jobs
  thread,           \* thread[j]: what the thread of job j has done
  failed,           \* failed[j]: the job has a traceback
  abort_event,      \* abort_event[j]: who set it first, or "no"
  start_time, end_time,
  max_block,        \* how long the event loop may block, or None
  until,            \* when its queue.get() times out, or None
  loop,             \* what the event loop does, and for which job
  shutting_down

timing == <<now, start_time, end_time>>
results == <<thread, failed, abort_event>>
mvars == <<now, job_id, events, waiting_job_ids, waiting_jobs, jobs, finished_jobs, thread,
           failed, abort_event, start_time, end_time, max_block, until, loop, shutting_down>>

Event == [type : {"start", "done"}, job : Jobs] \cup [type : {"quit"}, job : {None}]
ThreadState == {"none", "running", "died", "done", "announced"}

ManagerInit ==
  /\ now = 0 /\ job_id = 1 /\ events = <<>>
  /\ waiting_job_ids = {} /\ waiting_jobs = <<>> /\ jobs = {} /\ finished_jobs = {}
  /\ thread = [j \in Jobs |-> "none"]
  /\ failed = [j \in Jobs |-> FALSE] /\ abort_event = [j \in Jobs |-> "no"]
  /\ start_time = [j \in Jobs |-> 0] /\ end_time = [j \in Jobs |-> 0]
  /\ max_block = None /\ until = None
  /\ loop = [pc |-> "none", job |-> None]
  /\ shutting_down = FALSE
-----------------------------------------------------------------------------
(* Calls from other threads.  The loop holds the lock of the manager from   *)
(* the moment a job is finished until its callback returns; all other       *)
(* sections with the lock are single steps.                                 *)

\* Mutant of LockFree: the callback runs after the lock is given back.
LockFree_NoCallback == TRUE

LockFree == loop.pc # "callback"

\* start_job when it is not refused; the id is job_id.
AddJob == /\ job_id \in Jobs
          /\ loop' = IF loop.pc = "none" THEN [loop EXCEPT !.pc = "get"] ELSE loop
          /\ job_id' = job_id + 1
          /\ events' = Append(events, [type |-> "start", job |-> job_id])
          /\ waiting_job_ids' = waiting_job_ids \cup {job_id}
          /\ UNCHANGED <<waiting_jobs, jobs, finished_jobs, results, timing, max_block, until,
                         shutting_down>>

\* start_job: no job is taken after shutdown.
StartJob == /\ LockFree
            /\ IF shutting_down THEN UNCHANGED mvars ELSE AddJob

\* abort_event.set() for the jobs of S.
SetAbort(S, who) ==
  abort_event' = [j \in Jobs |-> IF j \in S /\ abort_event[j] = "no" THEN who ELSE abort_event[j]]

\* abort_job takes no lock, and has no effect on a job that waits.
AbortJob(j) == /\ j \in jobs
               /\ abort_event[j] = "no"
               /\ SetAbort({j}, "user")
               /\ UNCHANGED <<job_id, events, waiting_job_ids, waiting_jobs, jobs, finished_jobs,
                              thread, failed, timing, max_block, until, loop, shutting_down>>

Shutdown == /\ LockFree
            /\ ~shutting_down
            /\ shutting_down' = TRUE
            /\ SetAbort(jobs, "shutdown")
            /\ events' = Append(events, [type |-> "quit", job |-> None])
            /\ UNCHANGED <<job_id, waiting_job_ids, waiting_jobs, jobs, finished_jobs, thread,
                           failed, timing, max_block, until, loop>>
-----------------------------------------------------------------------------
(* The thread of a job. *)

\* fork_job returns: with a result, with none because it was aborted, or with a
\* WorkerError.
JobEnds(j) == /\ thread[j] = "running"
              /\ thread' = [thread EXCEPT ![j] = "done"]
              /\ \E fails \in BOOLEAN : failed' = [failed EXCEPT ![j] = fails]
              /\ end_time' = [end_time EXCEPT ![j] = now]
              /\ UNCHANGED <<now, start_time, job_id, events, waiting_job_ids, waiting_jobs, jobs,
                             finished_jobs, abort_event, max_block, until, loop, shutting_down>>

\* Any other exception (the worker process cannot be created) ends the thread.
JobDies(j) == /\ thread[j] = "running"
              /\ thread' = [thread EXCEPT ![j] = "died"]
              /\ UNCHANGED <<timing, job_id, events, waiting_job_ids, waiting_jobs, jobs,
                             finished_jobs, failed, abort_event, max_block, until, loop,
                             shutting_down>>

\* Mutant of Reports: a job that failed puts no event.
Reports_IfOk(j) == thread[j] = "done" /\ ~failed[j]

Reports(j) == thread[j] = "done"

JobAnnounces(j) == /\ Reports(j)
                   /\ thread' = [thread EXCEPT ![j] = "announced"]
                   /\ events' = Append(events, [type |-> "done", job |-> j])
                   /\ UNCHANGED <<timing, job_id, waiting_job_ids, waiting_jobs, jobs,
                                  finished_jobs, failed, abort_event, max_block, until, loop,
                                  shutting_down>>

Ended(j) == thread[j] \in {"done", "announced"}

\* Job.was_aborted, for the jobs of the server: their functions return None.
WasAborted(j) == abort_event[j] # "no"

\* Job.failed
Failed(j) == failed[j] \/ WasAborted(j)
-----------------------------------------------------------------------------
(* The event loop. *)

\* The jobs that have a deadline.
Watched(js, aborts) == {j \in js : ~Ended(j) /\ aborts[j] = "no"}

\* update_max_block
NewMaxBlock(js, aborts, starts) ==
  LET deadlines == {starts[j] + max_job_time : j \in Watched(js, aborts)}
  IN  IF deadlines = {} THEN None
      ELSE IF Min(deadlines) <= now THEN 0 ELSE Min(deadlines) - now

\* queue.get() with the timeout it has now.
Block == until' = IF max_block' = None THEN None ELSE now + max_block'

\* Mutant of UpdateMaxBlock: the jobs that were just started are not seen.
UpdateMaxBlock_Before == max_block' = NewMaxBlock(jobs, abort_event, start_time) /\ Block

UpdateMaxBlock == /\ max_block' = NewMaxBlock(jobs', abort_event', start_time')
                  /\ Block

Goto(pc, j) == loop' = [pc |-> pc, job |-> j]

\* The next event, and a look at shutting_down before it is handled.
GetEvent ==
  /\ loop.pc = "get"
  /\ events # <<>>
  /\ events' = Tail(events)
  /\ IF shutting_down THEN Goto("exit", None) ELSE Goto(Head(events).type, Head(events).job)
  /\ UNCHANGED <<timing, job_id, waiting_job_ids, waiting_jobs, jobs, finished_jobs, results,
                 max_block, until, shutting_down>>

\* abort_hanging_jobs, when the get times out.
AbortHangingJobs ==
  /\ loop.pc = "get"
  /\ events = <<>>
  /\ until # None /\ now >= until
  /\ LET hanging == {j \in Watched(jobs, abort_event) : now - start_time[j] >= max_job_time}
     IN  IF shutting_down THEN Goto("exit", None) /\ UNCHANGED <<abort_event, max_block, until>>
         ELSE /\ SetAbort(hanging, "limit")
              /\ IF hanging # {}
                 THEN max_block' = NewMaxBlock(jobs, abort_event', start_time)
                 ELSE UNCHANGED max_block
              /\ Block
              /\ UNCHANGED loop
  /\ UNCHANGED <<timing, job_id, events, waiting_job_ids, waiting_jobs, jobs, finished_jobs,
                 thread, failed, shutting_down>>

\* Mutants of Started: one job too many, and none when a job has finished.
Started_More(queue, js) == SubSeq(queue, 1, Min({Len(queue), max_jobs + 1 - Cardinality(js)}))
Started_OnStart(queue, js) == IF loop.pc = "finish" THEN <<>> ELSE
                             SubSeq(queue, 1, Min({Len(queue), max_jobs - Cardinality(js)}))

\* The waiting jobs there is room for.
Started(queue, js) == SubSeq(queue, 1, Min({Len(queue), max_jobs - Cardinality(js)}))

\* Mutant of NoLongerWaiting: what has been taken from the queue of events waits no more.
NoLongerWaiting_Taken(ids) == waiting_job_ids \ (ids \cup {loop.job})

NoLongerWaiting(ids) == waiting_job_ids \ ids

\* start_waiting_jobs, for the jobs and the queue there are now.
StartWaitingJobs(queue, js) ==
  LET started == Started(queue, js)
      ids == {started[i] : i \in DOMAIN started}
  IN  /\ waiting_jobs' = SubSeq(queue, Len(started) + 1, Len(queue))
      /\ jobs' = js \cup ids
      /\ waiting_job_ids' = NoLongerWaiting(ids)
      /\ thread' = [j \in Jobs |-> IF j \in ids THEN "running" ELSE thread[j]]
      /\ start_time' = [j \in Jobs |-> IF j \in ids THEN now ELSE start_time[j]]
      /\ UNCHANGED abort_event
      /\ UpdateMaxBlock

HandleStart ==
  /\ loop.pc = "start"
  /\ StartWaitingJobs(Append(waiting_jobs, loop.job), jobs)
  /\ Goto("get", None)
  /\ UNCHANGED <<now, end_time, job_id, events, finished_jobs, failed, shutting_down>>

\* job_finished takes the lock ...
HandleDone ==
  /\ loop.pc = "done"
  /\ jobs' = jobs \ {loop.job}
  /\ finished_jobs' = finished_jobs \cup {loop.job}
  /\ Goto("callback", loop.job)
  /\ UNCHANGED <<timing, job_id, events, waiting_job_ids, waiting_jobs, results, max_block, until,
                 shutting_down>>

\* ... and gives it back when the callback has returned ...
Callback ==
  /\ loop.pc = "callback"
  /\ Goto("finish", loop.job)
  /\ UNCHANGED <<timing, job_id, events, waiting_job_ids, waiting_jobs, jobs, finished_jobs,
                 results, max_block, until, shutting_down>>

Prunable(j) == now - end_time[j] > KeepTime

\* ... and goes on: prune_finished_jobs, start_waiting_jobs.
FinishJob ==
  /\ loop.pc = "finish"
  /\ finished_jobs' = {j \in finished_jobs : ~Prunable(j)}
  /\ StartWaitingJobs(waiting_jobs, jobs)
  /\ Goto("get", None)
  /\ UNCHANGED <<now, end_time, job_id, events, failed, shutting_down>>

\* The loop but for the callback.
EventLoop == GetEvent \/ AbortHangingJobs \/ HandleStart \/ HandleDone \/ FinishJob

JobThreads == \E j \in Jobs : JobEnds(j) \/ JobDies(j) \/ JobAnnounces(j)

\* The loop waits for something to happen.
LoopIsQuiet == \/ loop.pc \in {"none", "exit"}
               \/ loop.pc = "get" /\ events = <<>> /\ (until # None => now < until)

\* Time passes when the loop has nothing to do and no thread is about to report.
Tick == /\ now < MaxTime
        /\ LoopIsQuiet
        /\ \A j \in Jobs : thread[j] # "done" /\ ~(thread[j] = "running" /\ abort_event[j] # "no")
        /\ now' = now + 1
        /\ UNCHANGED <<job_id, events, waiting_job_ids, waiting_jobs, jobs, finished_jobs, results,
                       start_time, end_time, max_block, until, loop, shutting_down>>

ManagerStep == EventLoop \/ JobThreads \/ Shutdown \/ Tick \/ \E j \in Jobs : AbortJob(j)

\* A job's process ends, at the latest when fork_job kills it; the loop goes on.
ManagerFairness == /\ WF_mvars(EventLoop)
                   /\ \A j \in Jobs : WF_mvars(JobEnds(j)) /\ WF_mvars(JobAnnounces(j))
-----------------------------------------------------------------------------
(* Properties. *)

ManagerTypeOK ==
  /\ now \in Times /\ job_id \in 1..(NumJobs + 1)
  /\ events \in Seq(Event)
  /\ waiting_job_ids \subseteq Jobs /\ waiting_jobs \in Seq(Jobs)
  /\ jobs \subseteq Jobs /\ finished_jobs \subseteq Jobs
  /\ Cardinality(jobs) <= max_jobs
  /\ thread \in [Jobs -> ThreadState]
  /\ failed \in [Jobs -> BOOLEAN]
  /\ abort_event \in [Jobs -> {"no", "user", "limit", "shutdown"}]
  /\ start_time \in [Jobs -> Times] /\ end_time \in [Jobs -> Times]
  /\ max_block \in Nat \cup {None} /\ until \in Nat \cup {None}
  /\ loop \in [pc : {"none", "get", "start", "done", "callback", "finish", "exit"},
               job : Jobs \cup {None}]
  /\ shutting_down \in BOOLEAN

\* What job_status tells a client of a job is never that there is no such job,
\* until its result has been kept long enough.
JobsAreKnown ==
  \A j \in 1..(job_id - 1) :
    j \in waiting_job_ids \cup jobs \cup finished_jobs \/ (Ended(j) /\ Prunable(j))

\* opts.py: "Maximum amount of time worker processes are allowed to run": as
\* long as the server runs, no job goes on after its time without having been
\* told to abort.
TimeLimit ==
  ~shutting_down => \A j \in Watched(jobs, abort_event) : now - start_time[j] <= max_job_time

\* The same unless the thread of a job died (then a job that is aborted never
\* ends, and the time the loop may block is not what the other jobs need).
TimeLimitKept == (\A j \in Jobs : thread[j] # "died") => TimeLimit

\* A slot is not left unused while jobs wait: the loop starts what it can
\* before it waits for the next event.
NoIdleSlot == (loop.pc = "get" /\ waiting_jobs # <<>>) => Cardinality(jobs) = max_jobs
=============================================================================
