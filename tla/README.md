# TLA+ models of calibre's library and content server

This directory holds TLA+ specifications of the concurrent parts of the program in
`src/src/calibre` (calibre 8.5.0 in its Talebook edition), the TLC configurations that check them
on small instances, and TLAPS proofs of the properties that should hold for every instance. Paths
below are relative to `src/src/calibre/`.

What the program computes on one thread (conversions, metadata of file formats, rendering) is
well covered by its tests. What is hard to test is the core they all share: a library that is one
SQLite database with an in-memory cache and a folder of files for each book, used at the same time
by the GUI, by the content server's request threads, by a thread that writes OPF backups, by a pool
that indexes the text of books and by separate processes. The models are about that core, about
the event loop and the job machinery of the server, and about the pool of worker processes.

## 1. The system

| Part | State | Operations | Interacts with |
|---|---|---|---|
| Library lock, `db/locking.py` | counters and owners of shared and exclusive locks, two queues, recycled Conditions | acquire, release, with upgrades refused and nesting allowed | every call of `Cache` takes it |
| Cache, `db/cache.py`, `db/tables.py`, `db/write.py` | all fields of all books in memory, and in `metadata.db` | set_field, add, remove, rename ... | lock, backend, events |
| Metadata backup, `db/backup.py` + `Cache` | `dirtied_cache` with sequence numbers, tables `metadata_dirtied` and `annotations_dirtied`, the OPF of each book | mark_as_dirty, the thread's get / read / convert / write / clear, dump_metadata | cache (under the lock), viewer process (writes annotations) |
| Full text index, `db/fts/`, `Cache` FTS API | `dirtied_formats`, `books_text`, dispatcher queue, jobs and results queues, workers | triggers of metadata.db, dispatch, extract, commit, reindex, enable | cache, worker processes |
| Events, `db/listeners.py` | a queue and weak references to listeners | notify, close | cache, GUI, server |
| Files of books, `db/backend.py` | folders, formats, covers, trash | update_path, remove, trash, restore | cache |
| Notes, `db/notes/` | notes and reference-counted resources | set_note, resources, retire, unretire | cache |
| Server jobs, `srv/jobs.py` | waiting, running and finished jobs, an event queue, a deadline | start, abort, status, shutdown, the event loop | request threads, worker processes |
| Render queue, `srv/books.py`; conversions, `srv/convert.py` | tables of queued and failed jobs, a cache of rendered books | HTTP endpoints, callbacks of jobs | server jobs, library |
| Library broker, `srv/library_broker.py` | loaded libraries and when they were used | get, switch, prune, unload | server, GUI |
| Server loop, `srv/loop.py`, `srv/http_*.py`, `srv/pool.py` | connections and their state, a thread pool with two queues, a control pipe | tick: timeouts, accept, read, queue, answer, close; stop and shutdown | clients, request threads, server jobs |
| Worker pool, `utils/ipc/pool.py` | processes, their jobs and common data, event and result queues, unfinished tasks | queue a job, set_common_data, wait_for_tasks, shutdown, the thread of the pool | `gui2/add.py`, `gui2/save.py` |
| Other worker processes, `utils/ipc/` | processes, pipes | launch, run, kill | server jobs, GUI |
| Conversion, formats, GUI, devices, news, plugins | | | use the library |

`PROJECT.json` lists every component with its state of modelling, and under `hazards` each place
where something can go wrong that a test would hardly reach.

What makes each modelled part hard, and what makes it correct:

* **Lock.** A release hands the lock to threads that are still asleep, Conditions are recycled,
  shared locks nest, a writer may take its lock again and also take shared locks. Correct when
  callers exclude each other, when the counters are what the owners hold, when nobody sleeps
  outside a queue, and when no thread waits for ever ("as best as I can tell", says the docstring).
* **Backup.** The thread holds the lock for single calls only; between them books change, are
  removed, or the program dies. A sequence number tells whether the OPF that was written is still
  the latest one. Correct when a book that nothing marks as dirty has its latest metadata in its
  OPF, and when every change gets there in the end.
* **Index.** Three kinds of threads and four queues hand a format on; the file may change at any
  time. Correct when a format that does not wait to be indexed is found by the text it has now, and
  when every dirty format is taken care of.
* **Files of books.** The name of a book's folder and of its files follows the title. A rename copies
  the files, removes the old folder and updates the tables, each of which may fail. Correct when a
  format the database lists is found with what the user put there, when nothing is ever without a
  file, and when the trash keeps what was removed for the time it says.
* **Worker pool.** Processes die, data they share change between jobs, and the user and the pool look
  at each other's state without a lock. Correct when a job gets one answer, when no job is forgotten
  and no process left idle, and when whoever waits for the pool comes to an end.
* **Server loop.** One thread serves all connections, and requests are computed by others. A result
  finds its way back by a file descriptor, through a queue and a byte in a pipe, while connections
  time out and descriptors are used again. Correct when answers go to those who asked, when nobody
  who waits is forgotten, and when the server can be stopped.
* **Server jobs and render queue.** The event loop, the threads of jobs and the threads of requests
  share tables under two locks and a time limit. Correct when clients never lose sight of a job,
  when a book is prepared once however many ask for it, when "finished" means that the result can
  be had, and when the threads do not wait for each other.

## 2. The modules

| Module | Models | Lines of code it stands for |
|---|---|---|
| `RWLock` | the read/write lock callers are promised (docstring and code of `create_locks`) | `db/locking.py` |
| `SHLock` | the lock as it is: one action per method, two when it has to wait | `db/locking.py` |
| `SHLock_proofs` | invariants of `SHLock` and the refinement `SHLock => RWLock` | |
| `MetadataBackup` | the backup thread, the dirty tables, other threads, crashes | `db/backup.py`, parts of `db/cache.py`, `db/backend.py` |
| `MetadataBackup_proofs` | invariants of `MetadataBackup` | |
| `FTSIndex` | index, dispatcher, workers, supervisor, switching off and on, restarts | `db/fts/*`, FTS API of `db/cache.py`, the triggers |
| `FTSIndex_proofs` | invariants of `FTSIndex` | |
| `JobsManager` | the jobs manager: an open module (its callback and its callers are left to a client) | `srv/jobs.py` |
| `JobsManager_proofs` | an invariant of the manager's tables, queues and timing, one lemma per action | |
| `RenderQueue` | the render queue composed with `JobsManager` (by EXTENDS) | `srv/books.py` |
| `RenderQueue_proofs` | the invariant of the composition and its theorems | |
| `BookFiles` | the files of one book: folders, names, rows, trash, with calls that end early | parts of `db/backend.py`, `db/cache.py`, `db/tables.py`, `utils/copy_files.py` |
| `BookFiles_proofs` | what is in the trash stays there until it is old enough; formats are found, and no step loses one | |
| `JobService` | what a pool promises to its user: one answer per job, none after it failed | `utils/ipc/pool.py` |
| `WorkerPool` | the thread of the pool, the processes, the threads that wait for them, a user | `utils/ipc/pool.py`, `Adder.monitor_pool` of `gui2/add.py` |
| `WorkerPool_proofs` | where jobs and workers are, what is counted, who has which data, and the refinement `WorkerPool => JobService` | |
| `ServerLoop` | the event loop, its connections, the threads that compute answers | `srv/loop.py`, `srv/http_request.py`, `srv/http_response.py`, `srv/pool.py` |
| `ServerLoop_proofs` | the invariant of the loop, its queues and its threads | |
| `MCFTSIndex`, `MCRenderQueue`, `MCBookFiles` | constants and symmetry for TLC | |

How state and actions correspond to the code is in `map` of `PROJECT.json`: variables keep the
names of the attributes (`dirtied_cache`, `shared_queue`, `in_progress`, `waiting_job_ids`,
`max_block`), actions those of methods or of the step of a thread. Operators named `X_Y` marked
"Mutant of X" are deliberately wrong versions of `X`; they are used by no specification and are
there to show that the properties notice the difference.

**Granularity.** In `SHLock` a method runs under an internal mutex that only `Condition.wait` gives
up, so an action is the part of a method between those points. In `MetadataBackup` and `FTSIndex`
a call of the library is atomic because it runs under the library's lock, which is what `SHLock`
is proved to provide; threads interleave between calls. File operations outside of the lock
(writing an OPF, copying a format, extracting text) are steps of their own. In `JobsManager` the
sections with the lock are single steps except for `job_finished`, which holds the lock while it
calls a callback; that is the state `loop.pc = "callback"`. In `BookFiles` calls exclude each other
(the library's lock) and each file operation and each change of a table is a step, after which the
call may end for good: an exception, or the end of the program. In `WorkerPool`, where threads share lists
and queues without a lock, a step is what a thread does between two accesses to them. In
`ServerLoop` the loop handles one event per step, so that worker threads, clients and the thread
that stops the server come between any two events of a tick.

**Data.** The metadata of a book is a version number; a format's file is a value (its size and
hash) with a text; a book in `RenderQueue` is the hash `book_hash` computes. SQLite commits are
atomic. A file in `BookFiles` is a format, one of two names and the number of what was added. The copier
makes hard links, and any two files of one format with the same content may be links of each other:
what is written in place into one of them may show in the others. A request in `ServerLoop` is a serial number, and an answer is the number of the request it was
computed for. Time exists in `JobsManager` (units of the limits), in `BookFiles` (days in the trash) and, as
"idle for too long", in `ServerLoop`.

## 3. What is checked

### The lock

`shlock` (3 threads, nesting 2, with fairness) checks the types, mutual exclusion between the
with-blocks of the callers, the assertions written in the source, that the counters agree with the
owners, that recycled Conditions are never shared and never more than there are threads, that a
sleeping thread is in its queue and not everybody who uses the lock sleeps (`NoLostWaiter`: somebody
is inside a with-block or was notified), that `SHLock` implements `RWLock`, and that no waiting
thread waits for ever. Three threads are a holder, one that waits and one that comes late, or two that wait for
different modes; nesting 2 is the least that tells a counter from a flag. For any number of
threads the safety properties and the refinement are proved. Fairness: a notified thread runs on
(`Wake`), and a thread leaves the with-block it is in; nobody has to acquire anything.

### The backup

`backup` (2 books, 2 changes each, a crash or restart, every call may fail) checks
`TableMatchesCache`, `CleanIsBackedUp` and that once changes stop every OPF catches up
(`EventuallyBackedUp`). Two books are needed because `mark_as_dirty` numbers
a set, two changes because the second must arrive while the first is being written. Fairness: the thread goes on; `random.choice`
does not pass over a dirty book for ever; the program is started again after it ended.
The changes that the code leaves behind knowingly are in the history variable `dropped` and
excepted: a change whose process died between its commit and `dirty_books`, metadata that could
not be read or converted (the code says that the book is "almost certainly" gone), and annotations
edited in place, which nothing records (`update_annotations`, `delete_annotations`).
`check_dirtied_annotations` may raise after it has committed new rows of `metadata_dirtied`; the cache
does not learn of them then (they are in `unlearned`), and they are backed up after the next start or
once another book has new annotations. `EventuallyBackedUp` excepts them, `TableMatchesCache` and
`CleanIsBackedUp` say that they are still in the table.
`backup_dump` allows `dump_metadata()` beside the thread, which happens when `calibredb add` runs
through the content server of the GUI, and finds that the thread's older OPF can be the last one
written while the book is marked clean.

### The index

`fts_safety` has one format and three files, two of which have the same text, two changes, a
restart, one off-and-on of indexing (with two pools and two dispatchers at a time), and failing
extractions and commits. It checks `IndexIsRight`: what the index says of a format that is not waiting
is right (`IndexCurrent`) and it says nothing of formats that are gone (`NoGhosts`). Formats do not
interact in this property, one is enough; three files are the least for "other bytes, same
text" next to "other text". The two files with the same text are interchangeable (`Symmetry`).

It also checks `NothingForgotten`: a format marked as in progress is in the hands of a thread, and the
threads do not all wait for each other while a format is dirty. `fts_live` checks that again where formats
meet, and that every dirty format is taken care of (`EventuallyTakenCareOf`): with three formats, one of a
kind no text can be taken from, and one change (also of a format being indexed), restart or
off-and-on at any time (`OneDisturbance`; none of them has to happen, so the cut takes nothing from what the
threads do afterwards). Three formats are one in progress, one the dispatcher has in hand, and one that waits.

Both properties except what the code forgets, in two history variables that say no more than that:

* `missed` is true from the moment a request for the next format was lost until the next one is made. A
  worker hands in its result (`db/fts/pool.py:75`) before it counts as idle (`:82`). The supervisor commits
  it and asks for the next format in between; if the dispatcher finds an unchanged one, it queues nothing, sees no
  idle worker, and waits for a request that nobody will make (`WaitsForNothing`). The formats left wait for
  the next change or start. A commit that raises asks for nothing either (`db/fts/pool.py:231`).
* `lost` has the formats whose result was dropped, because a commit raised or indexing was off, until something
  resets their mark. When indexing is switched off while a format is extracted, and on again, the mark
  stays, since it is reset only when the index is attached (`db/fts/connect.py:44`), and the format is passed
  over until the next start.

Without either exception the properties fail in `fts_live`, on these very steps: that is what the mutants
`WaitsForNothing_Never` and `Dropped_Never` show.

* `fts_stale` (`EditsDuringJob`): a format replaced while its text is extracted. The commit does not
  compare the file with the one it took the text from, and the insert trigger removes the dirty row
  of the new file, which is then never indexed. `fts_safety` leaves such changes out, `fts_live` does not.

Three more are known. `RemovalsUnseen`, which no run allows: a format removed while no
connection has the index attached leaves its text behind. A file without any text leaves the text of
its predecessor in the index (content `c4` of `MCFTSIndex`, in no run). A format that is removed and added again
between `dispatch_fts_jobs`'s look at its path and `remove_dirty_fts` loses its mark, as one replaced
during its extraction does.

Fairness: every thread of pool and dispatcher goes on, which includes that a worker becomes idle; an
extraction ends because `max_duration` ends it. Users do nothing they have to.

### Server jobs

`render_books` has two request threads, one book, two jobs of which one may be of another kind, one
slot, a time limit of one unit and an hour of one unit. It checks that no job is lost between the
tables (`JobsAreKnown`), the time limit (`TimeLimitKept`), that slots do not stay empty (`NoIdleSlot`), that a book is
prepared by one job at a time, that "finished" means ready, that an entry of `queued_jobs` is that of
a job that still waits or runs (`FinishedIsReady`), and that rendering ends. Fairness: the
event loop and the threads of jobs go on (`fork_job` ends every worker process), request threads
go on, and a thread that waits for a lock gets it when it is free again and again (strong fairness
of `JobDone`). Time passes only when no thread has something to do at once: the threads react in
milliseconds, limits are minutes.

* `render_deadlock`: with two books, a request that queues one while the other is finishing
  deadlocks with the event loop, because the two locks are taken in both orders. (The callback runs
  with the manager's lock for a reason: without it `FinishedIsReady` fails, which is its mutant.)
* `TimeLimitKept` excepts runs in which the thread of a job has died, and `max_job_time = 0` is a
  limit of zero: see section 5.

### Files of books

`book_files` has one book with two formats, two names (the title changes between them), two files a
user may add, two days with an age of expiry of one, and two calls that end early at any of their
steps. `FormatsFound`: between two calls a format the database lists is found, under whatever name
a rename or an early end left it, with what was added last; and while no call ended early, the folder of
the title is the only one and has these files and no others (`InPlace`). `ContentKept` is about steps:
none, not in the middle of a call and not one that ends it early, takes the only copy of a format away.
`KeptInTrash`: what was removed stays until it is old
enough, through visits of the trash that expire others, renames, restoring, and whatever is added to the
library meanwhile. Formats a call that
ended early left in disorder are in `torn` and excepted from the first two; the history variables `wanted` and
`binned` say what the user expects. One book is enough because books have folders of their own; two
formats are needed because `rename_all` and the copy treat files of one folder together, two names
because a rename needs a source and a target, two early ends because the second one meets what the
first one left behind: two folders, two files of one format, a book in the trash with such files
(`CopyFromTrash` adds their formats to `torn` again when it is restored). Formats are interchangeable,
and so are names (`Symmetry` of `MCBookFiles`).

Copies are hard links where the file system has them (`utils/copy_files.py:49`), so a file in the trash
may be the file of the library until that is unlinked. The model does not follow which files are links:
two of one format with one content may be. What is written into a file that is there
(`WriteFormat`, `open(dest, 'wb')` at `db/backend.py:1925`; a copy onto a file that could not be
linked) is also written into any subset of those (`Linked`), and a replacement of a file by a link to it may do
nothing and leave both names (`db/backend.py:1909`, `utils/copy_files.py:203`). While no call ends early, each
format is unlinked before anything is written, and `InPlace` and `KeptInTrash` say that the user
does not notice. After an early end he does: `KeptInTrash` does not count on a format whose removal
ended between the link and the unlink, since adding the format again changes the file in the trash
(section 5), nor on a file of which an earlier early end may have left another link in the library.

### Worker pool

`worker_pool` has two processes, two rounds of four jobs, processes that die or do not start at any
time, and a user who may cancel. It checks that the pool implements `JobService` (`KeepsPromise`, with
`broken <- terminal_failure`), that `wait_for_tasks` counts exactly the jobs without an answer
(`TrackerCounts`), that no process is idle while jobs wait (`NoIdleWorker`), that a job runs with the common data
of its round (`RunWithData`), and that the user comes to an end (`UserEnds`). Two processes are one
that is busy and one that is free or still to be started; four jobs a round are more than the pool
takes at once; two rounds are what it takes for common data to change while processes exist.
Fairness: the thread of the pool and its user go on, and a job ends (the processes are not stopped
for taking long); that a process dies is never assumed.

* `pool_lost_result`: one job. `task_done()` is called before the last result is in its queue, so that
  the user can look, be told that all is done, look again, and leave without it.

### Server loop

`server_loop` has two descriptors, two connections, three requests, one worker, queues of length
one, one connection that is idle for too long, clients that leave at any time, handlers that raise, and `stop()` at
any time. `AnswerBelongs`: what a connection is answered is the result of its own request.
`AnsweredBeforeClosed`: no connection is closed while it waits for its result. `NoLostWakeUp`: a
connection that waits has its job somewhere, a result nobody has fetched is announced or about to be,
and a server told to stop does not sleep in `select`. `RequestAnswered`: no
connection waits for ever, although the result queue is announced by single bytes and events may
be dropped with the tick they belong to. `StopsInTheEnd`: the server ends, also with full queues and
workers that cannot be told to end. Both except one state: `shutdown` begins by taking the lock of the
jobs manager (`srv/loop.py:765`), before any socket is closed and whatever `shutdown_timeout` says, and
that lock may be held for ever, as `render_deadlock` shows. The lock belongs to `JobsManager`; in
`ServerLoop` the step either gets it or the loop is `"blocked"`, with its connections open and
unanswered. Two descriptors and two connections let a descriptor be used
again while another connection is open; queues of one are full with one job running, one queued and
another request; three requests let one connection go on after a stale result. Fairness: the loop
and the workers go on, handlers return, and `stop()` once begun is completed; clients and time are
free.

### Bounds

Every bound is a CONSTANT with "bound" in its comment (`MaxHold`, `MaxVersion`, `MaxRestarts`,
`MaxChanges`, `MaxToggles`, `NumJobs`, `MaxTime`, `MaxContents`, `MaxInterrupts`, `Rounds`, `RoundSize`,
`MaxConnections`, `MaxRequests`, `MaxTimeouts`), but for the constraint `OneDisturbance` of `fts_live`.
`CHECK_DEADLOCK FALSE` stands only in configurations whose bounds end the run (users have used up their changes, ids or time, or the
program has ended).

## 4. What is proved

The proofs are for every value of the constants under the named assumptions: finitely many threads
(`ThreadsAssumption`), a nesting bound (`MaxHoldAssumption`), finitely many workers and at least one
of them (`WorkersAssumption`), finitely many books, Booleans for the
modes, and natural numbers for limits and bounds (`ManagerAssumption`, `SizesAssumption`, `BoundsAssumption`).

**`SHLock_proofs`.** `Invariance` proves `IInv == TypeOK /\ HoldInv /\ ModeInv /\ CountsAgree /\
QueueInv /\ WaiterInv` inductive, with one lemma per action (`Step...`). Mutual exclusion is not
inductive: a release hands the lock over before the receiver has woken, so `HoldInv` relates what
the lock thinks a thread holds with what the thread thinks, through its `pc`; `ModeInv` says in
which mode the lock is and that queues are empty when it is free; `QueueInv` ties the queues, which
hold no thread twice, to the threads asleep; `WaiterInv` does the same for Conditions. `CountsAgree`
needs the cardinality of a set of pairs (`SharedHolds`), for which `SharedAdd`, `SharedRemove` and
`SharedIssue` are lemmas of their own. From `IInv` follow the theorems `Exclusion`,
`AssertionsHold`, `CounterCorrect`, `WaitersQueued` and `ConditionsSafe`, and with `StepSimulation`
(every step is a step of `RWLock` or leaves its variables alone) `Refinement`. That somebody holds the
lock while others sleep (`SomeoneHolds`) is the one place where counters are turned back into
threads: queues are empty when the lock is free, so a counter is not zero, so a thread holds it; and
that thread does not sleep, because the code refuses what it would wait for with a lock in its hands.

**`MetadataBackup_proofs`.** `IInv == Base /\ (~ConcurrentDumps => Solo /\ CleanIsBackedUp)`. `Base`
is the types, `TableMatchesCache` and `Fresh`: sequence numbers in use are below the next one, and
none in hand is ahead of it. `Solo` says what the thread knows while it has a book in hand: if the
book's number is still the one it read (`Untouched`), the metadata it holds is the latest, and when
it has written it the OPF is up to date. That is what makes `clear_dirtied` right, and why the
comparison of sequence numbers suffices. `BackedUp` states `CleanIsBackedUp` where no
`dump_metadata` runs beside the thread; `backup_dump` shows that the condition is needed.

**`FTSIndex_proofs`.** `IInv == TypeOK /\ IndexInv /\ HandsInv /\ ProgressInv`. `IndexCurrent` says nothing
while indexing is off, but switching it on must make it true, so `CurrentInv` says it for as long as
the triggers watch, and `RowsInv` says that a row has the text of the file it was made from. A commit
is right if the file it is for is still there: `HandsInv` follows a file from the dispatcher through
the queue of jobs and a worker to the queue of results, in the pools of every start of the indexing.
That is where `Current` and `OnlyExisting` need `~EditsDuringJob`; `fts_stale` shows that they do. `Current` also
needs that every file has some text, and `OnlyExisting` that no removal goes unseen, for the reasons given
in section 3; `RightIndex` is both. `ProgressInv`: what is in progress and not `lost` is in a queue or with a
worker of some pool (`InPool`), also while pools of two generations are at work.
`NothingIsForgotten` needs none of these provisos. It adds `WorkInv`: while a format is dirty some thread
is at work (`AtWork`), unless a request is `missed`. The dispatcher goes to sleep in two places. When all dirty
formats are in progress, `ProgressInv` finds one of them in a queue or with a worker. When as many jobs
wait as workers are idle (`BusyPool`), a job waits or no worker is idle; and as there is at least one
worker, one of them works or all have handed in their results, which is what `WaitsForNothing` looks at.

**`JobsManager_proofs`.** The manager is an open module, so the module proves no specification but
that each action keeps `MInv == ManagerTypeOK /\ TablesInv /\ QueuesInv /\ LoopInv /\ JobsAreKnown
/\ NoIdleSlot /\ TimeInv`. `JobsAreKnown` alone is not inductive: `job_finished` moves any job it is
given, so one must know that the queue of events names only jobs in the table they are about to
leave, and each one once (`QueuesInv`), also while the loop has the event in hand (`LoopInv`).
`TimeInv` is the argument for the time limit: when the loop waits, either something is about to wake
it (`Urgent`) or it wakes at the first deadline of the jobs that run (`WakesInTime`); time passes
only in the second case, and not beyond that deadline.

**`RenderQueue_proofs`.** `IInv == TypeOK /\ MInv /\ BooksInv`. A job is active from `start_job` until
its callback has run (`Active`). `RegisteredInv`: `queued_jobs` names the active job of every book,
which is `OneJobPerBook`; it survives a new job because the request has held `cache_lock` since it
saw that there was none (`HoldInv`), and a callback because only the job's own entry is removed.
`EntryInv`: what `queued_jobs` names for a book is an active job of that book, and `DoneInv` keeps
running and finished jobs apart; while the manager's lock is free no callback
is to come, which is `FinishedIsReady`. `ManagerFrame` says what the render queue needs of a step of the manager. The theorems are
`TypeCorrect`, `KnownJobs`, `SlotsUsed`, `TimeKept`, `SinglePreparation` and `FinishedReady`.

**`ServerLoop_proofs`.** A result knows only the descriptor it is for, so `AnswerBelongs` depends on
who has that descriptor when the result comes. `IInv == TypesInv /\ OnceInv /\ LoopInv /\
AnswerBelongs`. `OnceInv`: a job is in the request queue, in the hands of one worker, or in the
result queue, once (`Outstanding` is the union of the three). `OwnInv`: unless a connection has
timed out waiting, the jobs of a descriptor are those of the connection that has it, which waits.
`WaitInv`: a connection that waits has a job. They hold until the connections are closed, also while
`shutdown` waits for the manager's lock. `WakeInv` follows a result from the queue through the
byte in the pipe to the loop that empties the queue. An event must not end that wait, so `PolledInv` says that
what `select` returned still holds when its turn comes, although results are dispatched and
connections accepted in between. One lemma (`EventKeeps`) covers the events of `select` and the
results; the handlers of the three states are brought to its form (`Handled`) one by one. The theorems
`TypeCorrect`, `WakesUp`, `AnswersBelong` and `ClosedAfterAnswer` hold for any number of descriptors, workers and
requests and any capacity of the queues, if `None` is no connection and no job (`NoneAssumption`).

**`WorkerPool_proofs`.** That a job is answered once is a matter of where it is. `PlacesInv`: until the
pool shuts down, an unanswered job is in one of the queues of what is to be handed out, or with one
worker, or in a result, and only a result and its worker, which is freed when the result is handled,
may name the same job; the result in hand (`HandInv`) is in none of these places. `RunKeeps` and `Handed`
say this once for both steps that hand out jobs. So the jobs `terminal_error` answers have no answer
(`GivenUpWait`), nor does the one whose result comes (`StepServes`). `UserInv` says that jobs are asked for in
their order and stay within the rounds. `Refinement` proves `KeepsPromise` for any number of workers,
rounds and jobs, if `None` is no integer (`RoundsAssumption`).

Four more invariants stand on this one. `WorkersInv`: until the pool fails, the processes it started are
exactly the free and the busy ones, and jobs wait only when all have been started; the failed hand-over in
`RunJob`, which loses a worker, is also the end of the pool. With `ResultsInv` (a result names the job its
worker is still booked for) this gives `WorkersUsed`. `TasksInv` counts: a task begins one step
before its job is queued (`CountJob`) and ends one step before its answer (`HandleResult`), and
`TasksCounted` says exactly that. `DataInv` is the argument for `DataPassedOn`: data
can only be on their way (`DataAhead`) while no worker is busy and no job of the round is done, because
the user waited until no task was left, and what is free gets them when they arrive; the event of the
data is before those of the jobs. It needs `TasksInv` for the end of a round. `CountsInv` carries
the count from the failure to `terminal_error`, which takes back one task for each job it gives up:
as `GivenUpCounted` shows, no more than were counted, which makes `TypeCorrect` hold.

**`BookFiles_proofs`.** `IInv == TypesInv /\ CallInv /\ GoneInv /\ BookKept /\ \A f : FormatKept(f)`. The code
knows the age of an entry only as the time of its folder, so `BookKept` and `FormatKept` say that
this time is not before what was put there; `CountedOn` then says that no visit of the trash takes
what is counted on. `GoneInv`: a book in the trash is in no table, so that `move_book_to_trash`, which begins
by removing an entry of the book that is there, meets none that is counted on. The folder of removed formats goes when
`move_format_from_trash` took the last file, which is why `FormatKept` says that there is one. `CallInv` is what
each step of a call relies on from the steps before.

That nothing written into the library shows in the trash needs `AloneInv`, and the two are inductive together
(`Invariance`): what is counted on has no link in the library (`BookAlone`, `FormatAlone`), but for the one file that
is about to be unlinked and is then the only one (`OnlyLink`), and no file has contents that are
still to come (`Bounded`), so that what is added is not taken for a link of what is there:
a write then replaces nothing that is counted on. `TrashKeeps` holds for any number of calls that end
early, if `None` is no entry of the trash (`EntriesAssumption`) and no set of files (`FolderAssumption`).

Where the files of a format are depends on where the call is, so `FormatsFound` needs an invariant about
every step. `StageInv` says for each `op.pc` what the call found or made for its next step; it gives
`TypeCorrect`. `OrderInv` says for each format that is not in `torn` which folder has its one file and under which
name (`Holds`): that of the row while nothing touches it, also the title in the folder the files move to,
only the title while the format is replaced, and what the trash says before a restored book has rows. The lemmas
of `OfOverwrite` and its like follow one format through a change of a folder, `PickedOne` says that
`format_abspath` has one file to choose, and there is a lemma `Order...` for every action. A call that ends
early at a step where a format is in neither order puts it in `torn`, at the other steps nothing changes for the
row: that is why it is enough to except the formats of that call. `TidyInv` is for
histories without early ends: there is one folder, or two while the files move, every file has the name
of the title, in the trash too, and `torn` stays empty; and only a format that is being removed is both in the library and
in the trash (`Apart`), so that no file is passed over as a link to one that is there. `FormatsAreFound`
follows from both. For `ContentIsKept` the state after a step is right by `OrderInv` if the format is in order then; if the step
put it in disorder, `StepKeeps` looks at what it left: a rename within a folder has the file under one of
two names (`RenameKeeps`), and what `UnlinkFiles` removes was copied before (`UnlinkKeeps`).

Only model-checked: the liveness properties `NoStarvation`, `EventuallyBackedUp`, `EventuallyTakenCareOf`,
`RenderingEnds`, `UserEnds`, `RequestAnswered` and `StopsInTheEnd` (fairness and ENABLED are out of the
prover's reach). What a lost wake-up would break in them is proved as safety: `NoLostWaiter`,
`NothingForgotten`, `NoIdleSlot`, `NoIdleWorker` and `NoLostWakeUp` say that whoever sleeps has somebody
awake who will wake it. Every other property of the runs is stated by a theorem.

## 5. Disagreements

Where the code does not do what it, its comments or its options say. Four have a run with a
counterexample (`findings` in `PROJECT.json`): `backup_dump`, `fts_stale`, `render_deadlock` and
`pool_lost_result`, described above. The others were met while modelling; the properties are stated
so as to except exactly them.

* Indexing stops with formats waiting when the dispatcher finds an unchanged format before the worker
  that has just handed in its result counts as idle (`missed` in section 3), although
  its loop is called `loop_while_more_available` (`db/cache.py:567`).
* A result that arrives while indexing is off is dropped, and switching indexing on again passes its
  format over (`lost` in section 3).
* `max_job_time = 0` is documented as "no limit" (`srv/opts.py:83`). `update_max_block` makes it the
  shortest one: the first time the event loop waits, every running job is told to abort.
* When the thread of a job has died (an error while its process is created, `srv/jobs.py:45`) and a
  user aborts that job, the loop wakes for a deadline that is gone, `abort_hanging_jobs` finds nothing,
  `max_block` is not computed anew (`srv/jobs.py:218`), and the loop blocks as long once more, past
  the deadlines of other jobs.
* A removal that ends between the link into the trash and the unlink leaves one file under two names.
  Adding the format again truncates it in place (`db/backend.py:1925`), so the one in the trash is lost
  before the days are over; removing it again passes the file over because both names are one file
  (`utils/copy_files.py:203`), so it stays in the folder when the row of the format is deleted.
* A format that is removed, added and removed again is overwritten in the trash, which leaves the
  time of its folder alone (`db/backend.py:2235`): it expires with what was removed first, although
  deleted items are to be deleted "after the specified number of days" (`gui2/trash.py:191`).
* A connection that times out while its job is running is answered and closed, the job goes on, and
  its result is delivered to the connection that has the descriptor then (`srv/loop.py:359` and `703`):
  if that one waits for an answer it gets the answer of the other request, and its own result is
  delivered to whatever it asks next. `AnswerBelongs` excepts such descriptors (`late`), and shows
  that no other connection is concerned.
* A result that arrives when its connection has just been idle for too long is never sent:
  `response_started` is set, `last_activity` is that of the request, and the next tick closes the connection.
* With SSL, `tick` closes connections found dead by the name `s` instead of `x` (`srv/loop.py:619`):
  another connection is dropped from the map, and the dead one is found again by the next tick.

## 6. What is not modelled

* Conversion, formats, GUI widgets, devices, news and builds: sequential, or input and output.
* In `SHLock`: a `KeyboardInterrupt` in `wait`, the printing debug wrapper, and `SafeReadLock`.
* In `MetadataBackup`: the content of OPFs, covers, and two dumps of one book at the same time.
* In `FTSIndex`: the order of the waiting rows (any waiting row is taken), the search itself,
  measuring of the rate, a change of the number of workers, a crash within `add_format`. `reindex_fts`
  is one action although it gives up the lock while it waits for the threads.
* In `JobsManager`: `wait_for_running_job` and `wait_for_shutdown`, which change no state, and the
  300 seconds after which `fork_job` ends a job whatever the limit. In `RenderQueue`: the files of the
  staging directory, `clean_final`, and the library's read lock that `book_manifest` holds.
* In `BookFiles`: other books and their names, extra files and data folders, the contents of covers
  and OPFs, sizes, Windows (whose file copier works differently), and `restore.py`.
* In `WorkerPool`: the temporary file for large common data, and the order in which `shutdown` kills.
* In `ServerLoop`: SSL, web sockets, pipelined requests, `Expect: 100-continue`; answers are
  written in one event. Of `shutdown`, what plugins do in their `stop()`, and the jobs and threads
  that `plugin_pool.stop` and `wait_for_shutdown` join: they share the time limit of the worker
  threads, and change nothing the loop reads. An `OSError` of `select` stands for a descriptor that is
  closed and still in `connection_map`; `close` is the one place that closes them and removes them
  first. An exception of a connection that reads is answered, but the rest of the tick is not kept
  from that connection. WAKEUP bytes come only from `stop()`, as in the content server (the file
  watcher of `srv/auto_reload.py` has a loop of its own).
* The libraries of the content server, its conversions, its authentication, the tables of the cache
  and the resources of notes have state a model could be about; they are the next candidates.

## 7. Plan

Done, in the order of importance: the lock and its proofs; the backup and its proofs; the index and its
proofs; the jobs manager with the render queue and their proofs; the files of books and the proofs that
they are found, that no step loses them and that the trash keeps them; the pool of worker processes, the proof of its refinement and of its invariants; the
server loop and its proofs. Next:

1. `Conversions`: `srv/convert.py` as a second client of `JobsManager` (a job that ends before it is
   registered, expiry while it runs, an abort of a job that waits).
2. `LibraryBroker`: loading, switching, pruning and closing of libraries together with the events
   of `db/listeners.py`; an abstract specification (a request sees an open library) to refine.
3. `FieldWrite`: tables in memory and in SQL after every kind of write, and after one that fails;
   one-many and many-many maps as pure functions with a reference definition.
4. Reference counts of the resources of notes.

Runs to come have bounds of two to three actors and one crash each, as here.
