-------------------------- MODULE RenderQueue_proofs --------------------------
(***************************************************************************)
(* The safety properties of the jobs of the content server and of the      *)
(* books that are prepared for the viewer, for any number of jobs, slots,  *)
(* books and requests.  JobsManager_proofs has the invariant of the        *)
(* manager's own tables; here the tables of srv/books.py are added, which  *)
(* request threads and callbacks change under cache_lock.                  *)
(***************************************************************************)
EXTENDS RenderQueue, JobsManager_proofs

-----------------------------------------------------------------------------
(* The invariant. *)

\* The callback for job j has yet to take its effect.
Pending(j) == loop.pc = "callback" /\ loop.job = j

\* The jobs that have their slot or place in a queue, or their callback, to come.
Active == waiting_job_ids \cup jobs \cup {j \in Jobs : Pending(j)}

\* A request that starts a job holds cache_lock, and its book has none.
HoldInv == \A r \in Requests :
             request[r].pc \in {"copy", "start"} =>
               /\ cache_lock = r
               /\ request[r].book \in Books /\ queued_jobs[request[r].book] = None

\* queued_jobs names the job of every book that is being prepared.
RegisteredInv == \A j \in Active : book_of[j] \in Books => queued_jobs[book_of[j]] = j

\* It names no other jobs: each entry will be taken out by a callback to come.
EntryInv == \A b \in Books : queued_jobs[b] # None =>
              queued_jobs[b] \in Active /\ book_of[queued_jobs[b]] = b

\* A job gives its slot back before it counts as finished.
DoneInv == finished_jobs \cap jobs = {}

UnusedInv == \A j \in Jobs \ Ids : book_of[j] = Other

BooksInv == HoldInv /\ RegisteredInv /\ EntryInv /\ DoneInv /\ UnusedInv

IInv == TypeOK /\ MInv /\ BooksInv

\* The types of the variables the manager does not know.
BooksTypeOK ==
  /\ book_of \in [Jobs -> Books \cup {Other}]
  /\ queued_jobs \in [Books -> Jobs \cup {None}]
  /\ failed_jobs \subseteq Books /\ cached \subseteq Books
  /\ cache_lock \in Requests \cup {None}
  /\ request \in [Requests -> [pc : {"idle", "copy", "start", "status"}, book : Books \cup {None},
                               job : Jobs \cup {None}]]

\* TypeOK in two parts, one for each module of variables.
LEMMA TypeOKSplit == TypeOK <=> ManagerTypeOK /\ BooksTypeOK
BY DEF TypeOK, BooksTypeOK
-----------------------------------------------------------------------------
(* Steps of the manager. *)

\* No step of the manager makes a job active, or a job that was active anything
\* else: that is left to the callback.
LEMMA ManagerFrame ==
  ASSUME MInv, DoneInv, ManagerStep
  PROVE  /\ MInv' /\ DoneInv'
         /\ Active' = Active
         /\ job_id' = job_id
<1> USE DEF MInv, DoneInv
<1> DEFINE Waiting == waiting_job_ids \cap finished_jobs = {}
<1>0. Waiting
  BY DEF TablesInv
<1> HIDE DEF Waiting
<1>1. CASE GetEvent
  <2>1. /\ loop.pc = "get" /\ loop'.pc # "callback"
        /\ UNCHANGED <<job_id, waiting_job_ids, jobs, finished_jobs>>
    <3>1. events \in Seq(Event) /\ events # <<>>
      BY <1>1 DEF GetEvent, ManagerTypeOK
    <3>2. Head(events).type \in {"start", "done", "quit"}
      BY <3>1, Taken DEF Event
    <3> QED BY <1>1, <3>2 DEF GetEvent, Goto
  <2> QED BY <1>1, <2>1, StepGetEvent DEF Active, Pending
<1>2. CASE AbortHangingJobs
  <2>1. /\ loop.pc = "get" /\ loop'.pc # "callback"
        /\ UNCHANGED <<job_id, waiting_job_ids, jobs, finished_jobs>>
    BY <1>2 DEF AbortHangingJobs, Goto
  <2> QED BY <1>2, <2>1, StepAbortHangingJobs DEF Active, Pending
<1>3. CASE HandleStart
  <2>1. /\ loop.pc = "start" /\ loop'.pc = "get" /\ UNCHANGED <<job_id, finished_jobs>>
        /\ loop.job \in Jobs
    BY <1>3 DEF HandleStart, Goto, LoopInv, ManagerTypeOK
  <2>2. PICK ids : /\ jobs' = jobs \cup ids /\ waiting_job_ids' = waiting_job_ids \ ids
                   /\ ids \subseteq Range(waiting_jobs) \cup {loop.job}
    <3> DEFINE queue == Append(waiting_jobs, loop.job)
    <3>1. /\ StartWaitingJobs(queue, jobs)
          /\ waiting_jobs \in Seq(Jobs) /\ IsInjective(waiting_jobs)
          /\ loop.job \in waiting_job_ids \ Range(waiting_jobs)
      BY <1>3, <2>1 DEF HandleStart, ManagerTypeOK, QueuesInv, LoopInv
    <3>2. /\ queue \in Seq(Jobs) /\ IsInjective(queue)
          /\ Range(queue) = Range(waiting_jobs) \cup {loop.job}
      BY <2>1, <3>1, Appended
    <3>3. Range(queue) \cap jobs = {}
      BY <3>1, <3>2 DEF QueuesInv, TablesInv
    <3> HIDE DEF queue
    <3> QED BY <3>1, <3>2, <3>3, Starting
  <2>3. ids \subseteq waiting_job_ids
    BY <1>3, <2>1, <2>2 DEF QueuesInv, LoopInv
  <2> QED BY <1>0, <1>3, <2>1, <2>2, <2>3, StepHandleStart DEF Active, Pending, Waiting
<1>4. CASE HandleDone
  <2>1. /\ loop.pc = "done" /\ loop'.pc = "callback" /\ loop'.job = loop.job
        /\ jobs' = jobs \ {loop.job} /\ finished_jobs' = finished_jobs \cup {loop.job}
        /\ UNCHANGED <<job_id, waiting_job_ids>>
    BY <1>4 DEF HandleDone, Goto
  <2>2. loop.job \in jobs /\ jobs \subseteq Jobs
    BY <2>1 DEF LoopInv, ManagerTypeOK
  <2>3. MInv' /\ DoneInv'
    BY <1>4, <2>1, StepHandleDone
  <2>4. {j \in Jobs : Pending(j)} = {} /\ {j \in Jobs : Pending(j)'} = {loop.job}
    BY <2>1, <2>2 DEF Pending
  <2> QED BY <2>1, <2>2, <2>3, <2>4 DEF Active
<1>5. CASE FinishJob
  <2>1. /\ loop.pc = "finish" /\ loop'.pc = "get" /\ job_id' = job_id
        /\ finished_jobs' \subseteq finished_jobs
    BY <1>5 DEF FinishJob, Goto
  <2>2. PICK ids : /\ jobs' = jobs \cup ids /\ waiting_job_ids' = waiting_job_ids \ ids
                   /\ ids \subseteq Range(waiting_jobs)
    <3>1. /\ StartWaitingJobs(waiting_jobs, jobs)
          /\ waiting_jobs \in Seq(Jobs) /\ IsInjective(waiting_jobs)
          /\ Range(waiting_jobs) \cap jobs = {}
      BY <1>5 DEF FinishJob, ManagerTypeOK, QueuesInv, TablesInv
    <3> QED BY <3>1, Starting
  <2>3. ids \subseteq waiting_job_ids
    BY <2>2 DEF QueuesInv
  <2> QED BY <1>0, <1>5, <2>1, <2>2, <2>3, StepFinishJob DEF Active, Pending, Waiting
<1> DEFINE Same == UNCHANGED <<job_id, waiting_job_ids, jobs, finished_jobs, loop>>
<1>6. ASSUME Same
      PROVE  Active' = Active /\ job_id' = job_id /\ DoneInv'
  BY <1>6 DEF Active, Pending
<1> HIDE DEF Same
<1>7. ASSUME NEW j \in Jobs, JobEnds(j) \/ JobDies(j) \/ JobAnnounces(j) \/ AbortJob(j)
      PROVE  MInv' /\ Same
  <2>1. AbortJob(j) => now' = now
    BY DEF AbortJob, timing
  <2> QED BY <1>7, <2>1, StepJobEnds, StepJobDies, StepJobAnnounces, StepAbortJob
          DEF JobEnds, JobDies, JobAnnounces, AbortJob, Same
<1>8. ASSUME Shutdown \/ Tick PROVE MInv' /\ Same
  <2>1. Shutdown => now' = now
    BY DEF Shutdown, timing
  <2> QED BY <1>8, <2>1, StepShutdown, StepTick DEF Shutdown, Tick, Same
<1> QED BY <1>1, <1>2, <1>3, <1>4, <1>5, <1>6, <1>7, <1>8 DEF ManagerStep, EventLoop, JobThreads

\* The manager's thread, the threads of its jobs and its clock.
LEMMA StepManager ==
  ASSUME IInv, ManagerStep, UNCHANGED rvars
  PROVE  IInv'
<1>1. MInv /\ BooksTypeOK /\ BooksInv
  BY TypeOKSplit DEF IInv
<1>2. MInv' /\ DoneInv' /\ Active' = Active /\ job_id' = job_id
  BY <1>1, ManagerFrame DEF BooksInv
<1>3. UNCHANGED <<book_of, queued_jobs, failed_jobs, cached, cache_lock, request>>
  BY DEF rvars
<1>4. BooksTypeOK'
  BY <1>1, <1>3 DEF BooksTypeOK
<1>5. HoldInv' /\ RegisteredInv' /\ EntryInv' /\ UnusedInv'
  BY <1>1, <1>2, <1>3 DEF BooksInv, HoldInv, RegisteredInv, EntryInv, UnusedInv, Ids
<1>6. TypeOK'
  BY <1>2, <1>4, TypeOKSplit DEF MInv, TypeOK, BooksTypeOK
<1> QED BY <1>2, <1>5, <1>6 DEF IInv, BooksInv
-----------------------------------------------------------------------------
(* Steps of the threads of requests, and the callback. *)

\* A new job is not known to anybody.
LEMMA NewJob ==
  ASSUME MInv, StartJob, ~shutting_down
  PROVE  /\ MInv' /\ LockFree
         /\ job_id \in Jobs \ Ids /\ Ids' = Ids \cup {job_id}
         /\ Active' = Active \cup {job_id}
         /\ UNCHANGED <<jobs, finished_jobs>>
<1>1. /\ LockFree /\ job_id \in Jobs /\ job_id' = job_id + 1
      /\ loop' = IF loop.pc = "none" THEN [loop EXCEPT !.pc = "get"] ELSE loop
      /\ waiting_job_ids' = waiting_job_ids \cup {job_id}
      /\ UNCHANGED <<jobs, finished_jobs, shutting_down>>
  BY DEF StartJob, AddJob
<1>2. loop.pc # "callback" /\ loop'.pc # "callback"
  <2>1. loop \in [pc : {"none", "get", "start", "done", "callback", "finish", "exit"},
                 job : Jobs \cup {None}]
    BY DEF MInv, ManagerTypeOK
  <2> QED BY <1>1, <2>1 DEF LockFree
<1>3. job_id \notin Ids /\ Ids' = Ids \cup {job_id}
  <2>1. job_id \in Nat /\ job_id >= 1
    BY <1>1 DEF Jobs
  <2>2. 1..((job_id + 1) - 1) = 1..(job_id - 1) \cup {job_id}
    BY <2>1
  <2> QED BY <1>1, <2>1, <2>2 DEF Ids
<1>4. Active' = Active \cup {job_id}
  BY <1>1, <1>2 DEF Active, Pending
<1> QED BY <1>1, <1>3, <1>4, StepStartJob

\* A job of another kind is about no book.
LEMMA StepStartOther ==
  ASSUME IInv, StartOther
  PROVE  IInv'
<1>1. MInv /\ BooksTypeOK /\ BooksInv /\ StartJob
      /\ UNCHANGED <<book_of, queued_jobs, failed_jobs, cached, cache_lock, request>>
  BY TypeOKSplit DEF IInv, StartOther, rvars
<1>2. BooksTypeOK'
  BY <1>1 DEF BooksTypeOK
<1>3. CASE shutting_down
  <2>1. UNCHANGED mvars
    BY <1>1, <1>3 DEF StartJob
  <2>2. MInv' /\ Active' = Active /\ Ids' = Ids
    BY <1>1, <2>1, StepStutter DEF mvars, Active, Pending, Ids
  <2>3. BooksInv'
    BY <1>1, <2>1, <2>2 DEF mvars, BooksInv, HoldInv, RegisteredInv, EntryInv, DoneInv, UnusedInv
  <2> QED BY <1>2, <2>2, <2>3 DEF IInv, MInv, TypeOK, BooksTypeOK
<1>4. CASE ~shutting_down
  <2>1. /\ MInv' /\ job_id \in Jobs \ Ids /\ Ids' = Ids \cup {job_id}
        /\ Active' = Active \cup {job_id} /\ UNCHANGED <<jobs, finished_jobs>>
    BY <1>1, <1>4, NewJob
  <2>2. book_of[job_id] \notin Books
    BY <1>1, <2>1, RenderAssumption DEF BooksInv, UnusedInv
  <2>3. BooksInv'
    BY <1>1, <2>1, <2>2 DEF BooksInv, HoldInv, RegisteredInv, EntryInv, DoneInv, UnusedInv
  <2> QED BY <1>2, <2>1, <2>3 DEF IInv, MInv, TypeOK, BooksTypeOK
<1> QED BY <1>3, <1>4

\* queue_job registers its job before it gives cache_lock back.
LEMMA StepQueueJob ==
  ASSUME IInv, NEW r \in Requests, QueueJob(r)
  PROVE  IInv'
<1> DEFINE b == request[r].book
<1>1. MInv /\ BooksTypeOK /\ BooksInv /\ StartJob
  BY TypeOKSplit DEF IInv, QueueJob
<1>2. /\ request[r].pc = "start" /\ b \in Books /\ queued_jobs[b] = None /\ cache_lock = r
      /\ \A q \in Requests : q # r => request[q].pc \notin {"copy", "start"}
  BY <1>1 DEF QueueJob, BooksInv, HoldInv
<1>3. None \notin Jobs /\ Other \notin Books
  BY ManagerAssumption, RenderAssumption DEF Jobs
<1> HIDE DEF b
<1>4. CASE shutting_down
  <2>1. /\ UNCHANGED mvars /\ UNCHANGED <<book_of, failed_jobs, cached>> /\ cache_lock' = None
        /\ queued_jobs' = [queued_jobs EXCEPT ![b] = None]
        /\ request' = [request EXCEPT ![r] = [pc |-> "status", book |-> b, job |-> None]]
    BY <1>1, <1>4 DEF QueueJob, StartJob, RequestDoes, b
  <2>2. MInv' /\ Active' = Active /\ Ids' = Ids
    BY <1>1, <2>1, StepStutter DEF mvars, Active, Pending, Ids
  <2>3. queued_jobs' = queued_jobs
    BY <1>1, <1>2, <2>1 DEF BooksTypeOK
  <2>4. BooksTypeOK'
    BY <1>1, <1>2, <2>1 DEF BooksTypeOK
  <2>5. HoldInv'
    BY <1>1, <1>2, <2>1 DEF BooksTypeOK, HoldInv
  <2>6. RegisteredInv' /\ EntryInv' /\ DoneInv' /\ UnusedInv'
    BY <1>1, <2>1, <2>2, <2>3 DEF mvars, BooksInv, RegisteredInv, EntryInv, DoneInv, UnusedInv
  <2> QED BY <2>2, <2>4, <2>5, <2>6 DEF IInv, BooksInv, MInv, TypeOK, BooksTypeOK
<1>5. CASE ~shutting_down
  <2>1. /\ UNCHANGED <<failed_jobs, cached>> /\ cache_lock' = None
        /\ queued_jobs' = [queued_jobs EXCEPT ![b] = job_id]
        /\ book_of' = [book_of EXCEPT ![job_id] = b]
        /\ request' = [request EXCEPT ![r] = [pc |-> "status", book |-> b, job |-> job_id]]
    BY <1>1, <1>5 DEF QueueJob, RequestDoes, b
  <2>2. /\ MInv' /\ job_id \in Jobs \ Ids /\ Ids' = Ids \cup {job_id}
        /\ Active' = Active \cup {job_id} /\ UNCHANGED <<jobs, finished_jobs>>
    BY <1>1, <1>5, NewJob
  <2>3. Active \subseteq Jobs
    BY <1>1 DEF Active, MInv, ManagerTypeOK
  <2>4. /\ \A j \in Jobs : j # job_id => book_of'[j] = book_of[j]
        /\ book_of'[job_id] = b /\ queued_jobs'[b] = job_id
        /\ \A c \in Books : c # b => queued_jobs'[c] = queued_jobs[c]
    BY <1>1, <1>2, <2>1, <2>2 DEF BooksTypeOK
  <2>5. BooksTypeOK'
    BY <1>1, <1>2, <2>1, <2>2 DEF BooksTypeOK
  <2>6. HoldInv'
    BY <1>1, <1>2, <2>1 DEF BooksTypeOK, HoldInv
  <2>7. RegisteredInv'
    <3>1. ASSUME NEW j \in Active, j # job_id, book_of[j] \in Books
          PROVE  queued_jobs'[book_of'[j]] = j
      <4>1. queued_jobs[book_of[j]] = j /\ j # None
        BY <3>1, <1>1, <1>3, <2>3 DEF BooksInv, RegisteredInv
      <4>2. book_of[j] # b
        BY <4>1, <1>2
      <4> QED BY <3>1, <4>1, <4>2, <2>3, <2>4
    <3> QED BY <3>1, <2>2, <2>3, <2>4 DEF RegisteredInv
  <2>8. EntryInv'
    <3>1. ASSUME NEW c \in Books, c # b, queued_jobs[c] # None
          PROVE  queued_jobs'[c] \in Active' /\ book_of'[queued_jobs'[c]] = c
      <4>1. queued_jobs[c] \in Active /\ book_of[queued_jobs[c]] = c
        BY <3>1, <1>1 DEF BooksInv, EntryInv
      <4>2. book_of[job_id] = Other
        BY <1>1, <2>2 DEF BooksInv, UnusedInv
      <4> QED BY <3>1, <4>1, <4>2, <1>3, <2>2, <2>3, <2>4
    <3> QED BY <3>1, <2>2, <2>4 DEF EntryInv
  <2>9. DoneInv' /\ UnusedInv'
    BY <1>1, <2>2, <2>4 DEF BooksInv, DoneInv, UnusedInv
  <2> QED BY <2>2, <2>5, <2>6, <2>7, <2>8, <2>9 DEF IInv, BooksInv, MInv, TypeOK, BooksTypeOK
<1> QED BY <1>4, <1>5

\* The callback unregisters its own job, no other one.
LEMMA StepJobDone ==
  ASSUME IInv, JobDone
  PROVE  IInv'
<1> DEFINE j == loop.job
           b == book_of[j]
<1>1. MInv /\ BooksTypeOK /\ BooksInv /\ Callback
  BY TypeOKSplit DEF IInv, JobDone
<1>2. /\ loop.pc = "callback" /\ loop'.pc = "finish"
      /\ UNCHANGED <<job_id, waiting_job_ids, jobs, finished_jobs>>
  BY <1>1 DEF Callback, Goto
<1>3. /\ j \in Jobs \ jobs /\ j \notin waiting_job_ids
      /\ jobs \subseteq Jobs /\ waiting_job_ids \subseteq Jobs /\ finished_jobs \subseteq Jobs
  BY <1>1, <1>2 DEF MInv, LoopInv, TablesInv, ManagerTypeOK
<1>4. MInv' /\ Ids' = Ids /\ Pending(j) /\ j \in Active
  BY <1>1, <1>2, <1>3, StepCallback DEF Ids, Pending, Active
<1>5. Active' = waiting_job_ids \cup jobs /\ Active' \subseteq Active /\ j \notin Active'
  BY <1>2, <1>3 DEF Active, Pending
<1> DEFINE Left == \A i \in Active : i # j => i \in Active'
<1>10. Left
  BY <1>2, <1>3 DEF Active, Pending
<1>6. None \notin Jobs /\ Other \notin Books
  BY ManagerAssumption, RenderAssumption DEF Jobs
<1>7. UNCHANGED <<book_of, cache_lock, request>>
  BY DEF JobDone
<1> HIDE DEF j, b
<1>8. CASE b = Other
  <2>1. UNCHANGED <<queued_jobs, failed_jobs, cached>>
    BY <1>8 DEF JobDone, j, b
  <2>2. BooksTypeOK'
    BY <1>1, <1>7, <2>1 DEF BooksTypeOK
  <2>3. EntryInv'
    <3>1. ASSUME NEW c \in Books, queued_jobs[c] # None PROVE queued_jobs[c] \in Active'
      <4>1. queued_jobs[c] \in Active /\ book_of[queued_jobs[c]] = c
        BY <3>1, <1>1 DEF BooksInv, EntryInv
      <4>2. queued_jobs[c] # j
        BY <4>1, <1>6, <1>8 DEF b
      <4> QED BY <4>1, <4>2, <1>10
    <3> QED BY <3>1, <1>1, <1>7, <2>1 DEF BooksInv, EntryInv
  <2>4. HoldInv' /\ RegisteredInv' /\ DoneInv' /\ UnusedInv'
    BY <1>1, <1>2, <1>4, <1>5, <1>7, <2>1 DEF BooksInv, HoldInv, RegisteredInv, DoneInv, UnusedInv
  <2> QED BY <1>4, <2>2, <2>3, <2>4 DEF IInv, BooksInv, MInv, TypeOK, BooksTypeOK
<1>9. CASE b # Other
  <2>1. b \in Books
    BY <1>1, <1>3, <1>9 DEF BooksTypeOK, b
  <2>2. /\ cache_lock = None /\ queued_jobs' = [queued_jobs EXCEPT ![b] = None]
        /\ failed_jobs' \in {failed_jobs, failed_jobs \cup {b}}
        /\ cached' \in {cached, cached \cup {b}, cached \ {b}}
    BY <1>9 DEF JobDone, j, b
  <2>3. BooksTypeOK'
    BY <1>1, <1>7, <2>1, <2>2 DEF BooksTypeOK
  <2>4. /\ queued_jobs'[b] = None
        /\ \A c \in Books : c # b => queued_jobs'[c] = queued_jobs[c]
    BY <1>1, <2>1, <2>2 DEF BooksTypeOK
  <2>5. queued_jobs[b] = j
    BY <1>1, <1>4, <2>1 DEF BooksInv, RegisteredInv, b
  <2>6. RegisteredInv'
    <3>1. ASSUME NEW i \in Active', book_of[i] \in Books PROVE queued_jobs'[book_of[i]] = i
      <4>1. i # j /\ queued_jobs[book_of[i]] = i
        BY <3>1, <1>1, <1>5 DEF BooksInv, RegisteredInv
      <4>2. book_of[i] # b
        BY <4>1, <2>5
      <4> QED BY <3>1, <4>1, <4>2, <2>4
    <3> QED BY <3>1, <1>7 DEF RegisteredInv
  <2>7. EntryInv'
    <3>1. ASSUME NEW c \in Books, c # b, queued_jobs[c] # None
          PROVE  queued_jobs[c] \in Active' /\ book_of[queued_jobs[c]] = c
      <4>1. queued_jobs[c] \in Active /\ book_of[queued_jobs[c]] = c
        BY <3>1, <1>1 DEF BooksInv, EntryInv
      <4>2. queued_jobs[c] # j
        BY <4>1, <3>1 DEF b
      <4> QED BY <4>1, <4>2, <1>10
    <3> QED BY <3>1, <1>7, <2>4 DEF EntryInv
  <2>8. HoldInv'
    <3>1. \A r \in Requests : request[r].pc \in {"copy", "start"} =>
            cache_lock = r /\ queued_jobs[request[r].book] = None /\ request[r].book \in Books
      BY <1>1 DEF BooksInv, HoldInv
    <3> QED BY <3>1, <1>7, <2>4 DEF HoldInv
  <2>9. DoneInv' /\ UnusedInv'
    BY <1>1, <1>2, <1>4, <1>7 DEF BooksInv, DoneInv, UnusedInv
  <2> QED BY <1>4, <2>3, <2>6, <2>7, <2>8, <2>9 DEF IInv, BooksInv, MInv, TypeOK, BooksTypeOK
<1> QED BY <1>8, <1>9

\* What leaves the manager and the registered jobs alone has only to keep
\* cache_lock in the hands of the request that starts a job.
LEMMA RequestStep ==
  ASSUME IInv, BooksTypeOK', HoldInv', UNCHANGED <<mvars, book_of, queued_jobs>>
  PROVE  IInv'
<1>1. MInv /\ BooksInv
  BY DEF IInv
<1>2. MInv'
  BY <1>1, StepStutter
<1>3. Active' = Active /\ Ids' = Ids
  BY DEF mvars, Active, Ids, Pending
<1>4. RegisteredInv' /\ EntryInv' /\ DoneInv' /\ UnusedInv'
  BY <1>1, <1>3 DEF mvars, BooksInv, RegisteredInv, EntryInv, DoneInv, UnusedInv
<1> QED BY <1>2, <1>4 DEF IInv, BooksInv, MInv, TypeOK, BooksTypeOK

\* A request takes cache_lock to start a job only if nobody has it and the book
\* has no job.
LEMMA StepBookManifest ==
  ASSUME IInv, NEW r \in Requests, NEW b \in Books, NEW force \in BOOLEAN,
         BookManifest(r, b, force)
  PROVE  IInv'
<1>1. BooksTypeOK /\ HoldInv
  BY TypeOKSplit DEF IInv, BooksInv
<1>2. UNCHANGED <<mvars, book_of, queued_jobs>> /\ cache_lock = None
  BY DEF BookManifest
<1>3. cached' \subseteq Books /\ failed_jobs' \subseteq Books
  <2>1. cached' \in {cached, cached \ {b}} /\ failed_jobs' \in {failed_jobs, failed_jobs \ {b}}
    BY DEF BookManifest
  <2> QED BY <1>1, <2>1 DEF BooksTypeOK
<1>4. \A q \in Requests : request[q].pc \notin {"copy", "start"}
  BY <1>1, <1>2, RenderAssumption DEF HoldInv
<1>5. \/ UNCHANGED <<cache_lock, request>>
      \/ /\ request' = [request EXCEPT ![r] = [pc |-> "status", book |-> b, job |-> queued_jobs[b]]]
         /\ UNCHANGED cache_lock
      \/ /\ request' = [request EXCEPT ![r] = [pc |-> "copy", book |-> b, job |-> None]]
         /\ cache_lock' = r /\ queued_jobs[b] = None
  BY DEF BookManifest, RequestDoes, Hold
<1>6. BooksTypeOK'
  BY <1>1, <1>2, <1>3, <1>5 DEF BooksTypeOK
<1>7. HoldInv'
  BY <1>1, <1>2, <1>4, <1>5 DEF HoldInv, BooksTypeOK
<1> QED BY <1>2, <1>6, <1>7, RequestStep

\* While the format is copied, cache_lock stays with the request; it is given
\* back if that fails.
LEMMA StepCopyFormat ==
  ASSUME IInv, NEW r \in Requests, CopyFormat(r)
  PROVE  IInv'
<1>1. BooksTypeOK /\ HoldInv
  BY TypeOKSplit DEF IInv, BooksInv
<1>2. /\ UNCHANGED <<mvars, book_of, queued_jobs, failed_jobs, cached>>
      /\ request[r].pc = "copy"
      /\ \/ /\ request' = [request EXCEPT ![r] = [pc |-> "start", book |-> request[r].book, job |-> None]]
            /\ UNCHANGED cache_lock
         \/ /\ request' = [request EXCEPT ![r] = [pc |-> "idle", book |-> None, job |-> None]]
            /\ cache_lock' = None
  BY DEF CopyFormat, RequestDoes
<1>3. \A q \in Requests : q # r => request[q].pc \notin {"copy", "start"}
  BY <1>1, <1>2 DEF HoldInv
<1>4. BooksTypeOK'
  BY <1>1, <1>2 DEF BooksTypeOK
<1>5. HoldInv'
  BY <1>1, <1>2, <1>3 DEF HoldInv, BooksTypeOK
<1> QED BY <1>2, <1>4, <1>5, RequestStep

\* The answer changes nothing but what the thread of the request does.
LEMMA StepAnswerStatus ==
  ASSUME IInv, NEW r \in Requests, AnswerStatus(r)
  PROVE  IInv'
<1>1. BooksTypeOK /\ HoldInv
  BY TypeOKSplit DEF IInv, BooksInv
<1>2. /\ UNCHANGED <<mvars, book_of, queued_jobs, failed_jobs, cached, cache_lock>>
      /\ request' = [request EXCEPT ![r] = [pc |-> "idle", book |-> None, job |-> None]]
  BY DEF AnswerStatus, RequestDoes
<1>3. BooksTypeOK'
  BY <1>1, <1>2 DEF BooksTypeOK
<1>4. HoldInv'
  BY <1>1, <1>2 DEF HoldInv, BooksTypeOK
<1> QED BY <1>2, <1>3, <1>4, RequestStep
-----------------------------------------------------------------------------
(* The theorems. *)

\* The server starts without jobs.
LEMMA Initially == Init => IInv
<1> SUFFICES ASSUME Init PROVE IInv
  OBVIOUS
<1> USE DEF Init, ManagerInit
<1>1. /\ max_jobs \in Nat \ {0} /\ NumJobs \in Nat /\ MaxTime \in Nat /\ None \notin Int
      /\ Ids = {} /\ Range(events) = {} /\ Range(waiting_jobs) = {}
  BY ManagerAssumption DEF Ids, Range
<1>2. ManagerTypeOK
  <2>1. now \in Times /\ job_id \in 1..(NumJobs + 1)
    BY <1>1 DEF Times
  <2>2. 0 \in Times /\ Cardinality({}) <= max_jobs
    BY <1>1, FS_EmptySet DEF Times
  <2>3. events \in Seq(Event) /\ waiting_jobs \in Seq(Jobs)
    OBVIOUS
  <2> HIDE DEF Init
  <2> QED BY <2>1, <2>2, <2>3 DEF Init, ManagerTypeOK, ThreadState
<1>3. IsInjective(<<>>)
  BY DEF IsInjective
<1>4. TablesInv /\ QueuesInv /\ LoopInv
  BY <1>1, <1>3 DEF TablesInv, QueuesInv, LoopInv
<1>5. JobsAreKnown /\ NoIdleSlot
  BY <1>1 DEF JobsAreKnown, NoIdleSlot, Ids
<1>6. TimeInv
  BY DEF TimeInv, Watched
<1>7. BooksTypeOK
  BY DEF BooksTypeOK, IdleRequest
<1>8. BooksInv
  BY <1>1, RenderAssumption
     DEF BooksInv, HoldInv, RegisteredInv, EntryInv, DoneInv, UnusedInv, Active, Pending, IdleRequest
<1> QED BY <1>2, <1>4, <1>5, <1>6, <1>7, <1>8, TypeOKSplit DEF IInv, MInv

\* Every step of the server keeps the invariant.
LEMMA Invariance == IInv /\ [Next]_vars => IInv'
<1> SUFFICES ASSUME IInv, [Next]_vars PROVE IInv'
  OBVIOUS
<1>1. CASE ManagerStep /\ UNCHANGED rvars
  BY <1>1, StepManager
<1>2. CASE JobDone
  BY <1>2, StepJobDone
<1>3. CASE StartOther
  BY <1>3, StepStartOther
<1>4. ASSUME NEW r \in Requests, RequestThread(r) PROVE IInv'
  BY <1>4, StepCopyFormat, StepQueueJob, StepAnswerStatus DEF RequestThread
<1>5. ASSUME NEW r \in Requests, NEW b \in Books, NEW force \in BOOLEAN, BookManifest(r, b, force)
      PROVE  IInv'
  BY <1>5, StepBookManifest
<1>6. CASE UNCHANGED vars
  <2>1. UNCHANGED <<mvars, book_of, queued_jobs>> /\ UNCHANGED <<failed_jobs, cached, cache_lock, request>>
    BY <1>6 DEF vars, mvars
  <2>2. BooksTypeOK' /\ HoldInv'
    BY <2>1, TypeOKSplit DEF IInv, BooksInv, BooksTypeOK, HoldInv
  <2> QED BY <2>1, <2>2, RequestStep
<1> QED BY <1>1, <1>2, <1>3, <1>4, <1>5, <1>6 DEF Next

\* The invariant holds in every state of every run.
THEOREM Invariant == Spec => []IInv
BY Initially, Invariance, PTL DEF Spec

\* Every variable of the manager and of srv/books.py has its type; no more than
\* max_jobs jobs have a slot.
THEOREM TypeCorrect == Spec => []TypeOK
<1>1. IInv => TypeOK
  BY DEF IInv
<1> QED BY <1>1, Invariant, PTL

\* job_status never loses a job: each one that start_job took waits, runs, or is
\* finished, until its result has been kept long enough to be pruned.
THEOREM KnownJobs == Spec => []JobsAreKnown
<1>1. IInv => JobsAreKnown
  BY DEF IInv, MInv
<1> QED BY <1>1, Invariant, PTL

\* When the event loop waits for its next event and jobs wait for a slot, all
\* max_jobs slots are taken.
THEOREM SlotsUsed == Spec => []NoIdleSlot
<1>1. IInv => NoIdleSlot
  BY DEF IInv, MInv
<1> QED BY <1>1, Invariant, PTL

\* As long as no job's thread dies, the event loop wakes up for every deadline:
\* no job goes on after max_job_time without having been told to abort.
THEOREM TimeKept == Spec => []TimeLimitKept
<1>1. IInv => TimeLimitKept
  <2> SUFFICES ASSUME IInv, NoneDied, ~shutting_down, NEW j \in Watched(jobs, abort_event)
               PROVE  now - start_time[j] <= max_job_time
    BY DEF TimeLimitKept, TimeLimit, NoneDied
  <2>1. now <= Deadline(j)
    BY DEF IInv, MInv, TimeInv
  <2>2. now \in Nat /\ start_time[j] \in Nat /\ max_job_time \in Nat
    BY ManagerAssumption DEF IInv, MInv, ManagerTypeOK, Watched, Times
  <2> QED BY <2>1, <2>2 DEF Deadline
<1> QED BY <1>1, Invariant, PTL

\* However many requests ask for a book, and whenever its job is announced, one
\* job at a time prepares it.
THEOREM SinglePreparation == Spec => []OneJobPerBook
<1>1. IInv => OneJobPerBook
  <2> SUFFICES ASSUME IInv, NEW i \in Active, NEW j \in Active,
                      book_of[i] = book_of[j], book_of[i] \in Books
               PROVE  i = j
    BY DEF OneJobPerBook, Active
  <2>1. queued_jobs[book_of[i]] = i /\ queued_jobs[book_of[j]] = j
    BY DEF IInv, BooksInv, RegisteredInv
  <2> QED BY <2>1
<1> QED BY <1>1, Invariant, PTL

\* Who looks at the finished jobs with the manager's lock finds that the callback
\* has unregistered each of them; and no entry of queued_jobs is left behind: its
\* job waits or has a slot, so that its callback is still to come.
THEOREM FinishedReady == Spec => []FinishedIsReady
<1>1. IInv => FinishedIsReady
  <2> SUFFICES ASSUME IInv, LockFree, NEW b \in Books, queued_jobs[b] # None
               PROVE  /\ queued_jobs[b] \in (waiting_job_ids \cup jobs) \ finished_jobs
                      /\ book_of[queued_jobs[b]] = b
    BY DEF FinishedIsReady
  <2>1. queued_jobs[b] \in Active /\ book_of[queued_jobs[b]] = b
    BY DEF IInv, BooksInv, EntryInv
  <2>2. queued_jobs[b] \in waiting_job_ids \cup jobs
    BY <2>1 DEF LockFree, Active, Pending
  <2>3. queued_jobs[b] \notin finished_jobs
    BY <2>2 DEF IInv, MInv, TablesInv, BooksInv, DoneInv
  <2> QED BY <2>1, <2>2, <2>3
<1> QED BY <1>1, Invariant, PTL
=============================================================================
