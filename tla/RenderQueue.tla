----------------------------- MODULE RenderQueue -----------------------------
(***************************************************************************)
(* The books the content server prepares for its viewer (srv/books.py).    *)
(* A request for a book's manifest is answered from the cache, with the    *)
(* error of a job that failed, or with the state of the job that prepares  *)
(* the book, which is started if there is none.  The thread of the request *)
(* holds cache_lock until the job is registered in queued_jobs; the        *)
(* callback of the job takes cache_lock too, in the JobsManager's loop.    *)
(*                                                                         *)
(* A book stands for the hash of a format (library, book, size, time).     *)
(***************************************************************************)
EXTENDS JobsManager

CONSTANTS Books,     \* the books that are requested
          Requests,  \* the threads that handle requests
          Other      \* what jobs of other kinds are about (conversions)

ASSUME RenderAssumption == None \notin Books \cup Requests /\ Other \notin Books \cup {None}

VARIABLES
  book_of,      \* book_of[j]: the book that job j is about, or Other
  queued_jobs,  \* queued_jobs[b]: the job that prepares b, or None
  failed_jobs,  \* the books with an error to report
  cached,       \* the books with a manifest in the cache
  cache_lock,   \* the request that holds the lock, or None
  request       \* request[r]: what the thread does, with its book and job

rvars == <<book_of, queued_jobs, failed_jobs, cached, cache_lock, request>>
vars == <<now, job_id, events, waiting_job_ids, waiting_jobs, jobs, finished_jobs, thread,
          failed, abort_event, start_time, end_time, max_block, until, loop, shutting_down,
          book_of, queued_jobs, failed_jobs, cached, cache_lock, request>>

IdleRequest == [pc |-> "idle", book |-> None, job |-> None]

Init == /\ ManagerInit
        /\ book_of = [j \in Jobs |-> Other]
        /\ queued_jobs = [b \in Books |-> None]
        /\ failed_jobs = {}
        /\ cached = {}
        /\ cache_lock = None
        /\ request = [r \in Requests |-> IdleRequest]

\* Bound: an id is kept for every request that is about to start a job.
IdsLeft == Cardinality({r \in Requests : request[r].pc \in {"copy", "start"}}) + job_id <= NumJobs

RequestDoes(r, pc, b, j) == request' = [request EXCEPT ![r] = [pc |-> pc, book |-> b, job |-> j]]

\* Mutant of Hold: only the look at queued_jobs is protected.
Hold_Not(r) == UNCHANGED cache_lock

\* The lock is kept until the job is registered.
Hold(r) == cache_lock' = r

\* book_manifest with the cache lock: an answer, or a job to be started.
BookManifest(r, b, force_reload) ==
  /\ request[r].pc = "idle"
  /\ cache_lock = None
  /\ cached' = IF force_reload THEN cached \ {b} ELSE cached
  /\ IF b \in cached' THEN UNCHANGED <<failed_jobs, cache_lock, request>>
     ELSE IF b \in failed_jobs
          THEN failed_jobs' = failed_jobs \ {b} /\ UNCHANGED <<cache_lock, request>>
     ELSE /\ UNCHANGED failed_jobs
          /\ IF queued_jobs[b] # None
             THEN RequestDoes(r, "status", b, queued_jobs[b]) /\ UNCHANGED cache_lock
             ELSE IdsLeft /\ RequestDoes(r, "copy", b, None) /\ Hold(r)
  /\ UNCHANGED <<mvars, book_of, queued_jobs>>

\* queue_job copies the format, which may fail ...
CopyFormat(r) ==
  /\ request[r].pc = "copy"
  /\ \/ RequestDoes(r, "start", request[r].book, None) /\ UNCHANGED cache_lock
     \/ RequestDoes(r, "idle", None, None) /\ cache_lock' = None
  /\ UNCHANGED <<mvars, book_of, queued_jobs, failed_jobs, cached>>

\* ... calls start_job, for which the thread may have to wait with the cache lock
\* in its hands, and registers the job.
QueueJob(r) ==
  /\ request[r].pc = "start"
  /\ StartJob
  /\ LET b == request[r].book
         j == IF shutting_down THEN None ELSE job_id
     IN  /\ queued_jobs' = [queued_jobs EXCEPT ![b] = j]
         /\ book_of' = IF shutting_down THEN book_of ELSE [book_of EXCEPT ![j] = b]
         /\ RequestDoes(r, "status", b, j)
  /\ cache_lock' = None
  /\ UNCHANGED <<failed_jobs, cached>>

\* The answer says what job_status says.
AnswerStatus(r) ==
  /\ request[r].pc = "status"
  /\ LockFree
  /\ RequestDoes(r, "idle", None, None)
  /\ UNCHANGED <<mvars, book_of, queued_jobs, failed_jobs, cached, cache_lock>>

\* A job of another kind.
StartOther == /\ IdsLeft
              /\ StartJob
              /\ UNCHANGED rvars

\* job_done, the callback.  The result may fail to get into the cache.
JobDone ==
  /\ Callback
  /\ LET j == loop.job
         b == book_of[j]
     IN  IF b = Other THEN UNCHANGED <<queued_jobs, failed_jobs, cached>>
         ELSE /\ cache_lock = None
              /\ queued_jobs' = [queued_jobs EXCEPT ![b] = None]
              /\ \/ ~Failed(j) /\ cached' = cached \cup {b} /\ UNCHANGED failed_jobs
                 \/ /\ failed_jobs' = failed_jobs \cup {b}
                    /\ cached' = IF Failed(j) THEN cached ELSE cached \ {b}
  /\ UNCHANGED <<book_of, cache_lock, request>>

RequestThread(r) == CopyFormat(r) \/ QueueJob(r) \/ AnswerStatus(r)

Next == \/ ManagerStep /\ UNCHANGED rvars
        \/ JobDone
        \/ StartOther
        \/ \E r \in Requests : \/ RequestThread(r)
                               \/ \E b \in Books, force \in BOOLEAN : BookManifest(r, b, force)

Spec == Init /\ [][Next]_vars

\* The threads of the server go on; users need not ask for anything.  A thread
\* that waits for a lock gets it if it becomes free again and again.
Fairness == /\ WF_vars(EventLoop /\ UNCHANGED rvars)
            /\ SF_vars(JobDone)
            /\ \A j \in Jobs : /\ WF_vars(JobEnds(j) /\ UNCHANGED rvars)
                               /\ WF_vars(JobAnnounces(j) /\ UNCHANGED rvars)
            /\ \A r \in Requests : WF_vars(RequestThread(r))

FairSpec == Spec /\ Fairness
-----------------------------------------------------------------------------
(* Properties. *)

TypeOK == /\ ManagerTypeOK
          /\ book_of \in [Jobs -> Books \cup {Other}]
          /\ queued_jobs \in [Books -> Jobs \cup {None}]
          /\ failed_jobs \subseteq Books /\ cached \subseteq Books
          /\ cache_lock \in Requests \cup {None}
          /\ request \in [Requests -> [pc : {"idle", "copy", "start", "status"}, book : Books \cup {None},
                                       job : Jobs \cup {None}]]

\* However many clients ask for a book, one job at a time prepares it.
OneJobPerBook ==
  \A i, j \in 1..(job_id - 1) :
    (/\ book_of[i] = book_of[j] /\ book_of[i] \in Books
     /\ {i, j} \subseteq waiting_job_ids \cup jobs) => i = j

\* The client asks again as soon as it is told that the job has finished: by
\* then its entry is gone, and there is a manifest or an error.  (This is what
\* the callback's running with the lock of the manager is for.)  And an entry
\* that is there, which keeps a book from being prepared anew, is that of a job
\* of this book that waits for its slot or has it.
FinishedIsReady ==
  LockFree => \A b \in Books : queued_jobs[b] # None =>
                /\ queued_jobs[b] \in (waiting_job_ids \cup jobs) \ finished_jobs
                /\ book_of[queued_jobs[b]] = b

\* A book that is being prepared is ready, or known to have failed, at some
\* time: 'Book is being prepared for reading on the server...' does not stay
\* forever.  It does when the server shuts down or the thread of a job died.
RenderingEnds ==
  \A b \in Books : (queued_jobs[b] # None) ~>
                   (queued_jobs[b] = None \/ shutting_down \/ \E j \in Jobs : thread[j] = "died")
=============================================================================
