------------------------------ MODULE FTSIndex ------------------------------
(***************************************************************************)
(* The full text search index of a library and the threads that build it   *)
(* (db/fts, the FTS API of db/cache.py).  Triggers of metadata.db mark     *)
(* every added or changed format as dirty.  The dispatcher thread          *)
(* (dispatch_fts_jobs) takes a dirty format, copies it and queues a job,   *)
(* the workers extract the text, the supervisor thread commits the text    *)
(* and wakes the dispatcher.  Meanwhile formats are added, replaced and    *)
(* removed, indexing is switched off and on, and the program restarts.     *)
(*                                                                         *)
(* A key is a format of a book.  A content stands for the bytes of a       *)
(* format file, that is for its size and its hash.                         *)
(***************************************************************************)
EXTENDS Integers, Sequences, FiniteSets

CONSTANTS Keys,           \* the formats a book may have
          Unextractable,  \* those of a kind no text can be taken from
          Contents,       \* what a format file may contain
          Texts, TextOf,  \* the texts, and the text of each content
          EmptyText,      \* the text of a content without text
          ErrText,        \* marks a row that holds an error message
          None,           \* no file, no row, no job
          Workers,        \* the worker threads of a pool
          MaxChanges,     \* bound: changes by users
          MaxRestarts,    \* bound: restarts of the program
          MaxToggles,     \* bound: times indexing is switched on again
          Faults,         \* TRUE: extractions and commits may fail
          EditsDuringJob,   \* TRUE: a format may change while it is being indexed
          RemovalsUnseen    \* TRUE: a format may be removed while nothing watches

ASSUME WorkersAssumption == IsFiniteSet(Workers) /\ Workers # {}  \* max(1, num)
ASSUME KeysAssumption == IsFiniteSet(Keys) /\ Unextractable \subseteq Keys /\ None \notin Keys
ASSUME TextsAssumption == /\ TextOf \in [Contents -> Texts \cup {EmptyText}]
                          /\ EmptyText \notin Texts /\ ErrText \notin Texts \cup {EmptyText}
                          /\ None \notin Contents
                          /\ None \notin [content : Contents, text : Texts \cup {ErrText}]
ASSUME BoundsAssumption == MaxChanges \in Nat /\ MaxRestarts \in Nat /\ MaxToggles \in Nat
ASSUME ModesAssumption == /\ Faults \in BOOLEAN /\ EditsDuringJob \in BOOLEAN
                          /\ RemovalsUnseen \in BOOLEAN

VARIABLES
  content,      \* content[k]: the file of format k, or None; with its row in main.data
  dirtied,      \* the rows of dirtied_formats
  in_progress,  \* those that are marked as in progress
  books_text,   \* books_text[k]: the row [content, text] of the index, or None
  unindexed,    \* history: formats the user removed from the index
  lost,         \* history: formats in progress whose result was dropped
  missed,       \* history: a request for the next format was lost
  enabled,      \* the preference fts_enabled, and whether backend.fts exists
  attached,     \* the connection has the index and its triggers (fts_dbpath)
  gen,          \* the pool and queue in use; a new one whenever indexing is enabled
  wake,         \* wake[g]: the number of requests in the fts_job_queue of g
  dispatcher,   \* dispatcher[g]: where the FTSQueue thread is, and its format
  jobs,         \* jobs[g]: the jobs_queue of the pool
  working,      \* working[g][w]: the job of a worker
  results,      \* results[g]: the Results in the supervise_queue
  supervisor,   \* supervisor[g]: where the FTSSupervisor thread is
  changes, restarts  \* counters for the bounds

Gens == 1..(MaxToggles + 1)

library == <<content, changes>>
index == <<dirtied, in_progress, books_text, unindexed, lost>>
pool == <<jobs, working, results, supervisor>>
program == <<enabled, attached, gen, restarts>>
vars == <<content, dirtied, in_progress, books_text, unindexed, lost, missed, enabled,
          attached, gen, wake, dispatcher, jobs, working, results, supervisor, changes, restarts>>

Job == [key : Keys, content : Contents]
Result == [key : Keys, content : Contents, ok : BOOLEAN]
Row == [content : Contents, text : Texts \cup {ErrText}]
Idle == [state |-> "idle"]
WorkerState == {Idle} \cup [state : {"working", "done"}, job : Job]
AtRest(pc) == [pc |-> pc, key |-> None, content |-> None]
DispatcherState == {AtRest(pc) : pc \in {"none", "wait", "next"}}
                   \cup [pc : {"drop", "read"}, key : Keys, content : {None}]
                   \cup [pc : {"queue"}, key : Keys, content : Contents]

NoJobs == [g \in Gens |-> <<>>]
NoWork == [g \in Gens |-> [w \in Workers |-> Idle]]

\* A format some thread has in hand.
InHand(g, k) == \/ dispatcher[g].key = k
                \/ \E i \in DOMAIN jobs[g] : jobs[g][i].key = k
                \/ \E w \in Workers : working[g][w].state = "working" /\ working[g][w].job.key = k
                \/ \E i \in DOMAIN results[g] : results[g][i].key = k

Existing == {k \in Keys : content[k] # None}

Init == /\ content \in [Keys -> Contents \cup {None}]
        /\ enabled = TRUE /\ attached = TRUE
        /\ dirtied = Existing  \* a new index: dirty_existing
        /\ in_progress = {}
        /\ books_text = [k \in Keys |-> None]
        /\ unindexed = {} /\ lost = {} /\ missed = FALSE
        /\ gen = 1
        /\ wake = [g \in Gens |-> IF g = 1 THEN 1 ELSE 0]
        /\ dispatcher = [g \in Gens |-> AtRest(IF g = 1 THEN "wait" ELSE "none")]
        /\ jobs = NoJobs /\ working = NoWork /\ results = NoJobs
        /\ supervisor = [g \in Gens |-> "get"]
        /\ changes = 0 /\ restarts = 0
-----------------------------------------------------------------------------
(* The index: what one call does to its tables. *)

\* remove_dirty
RemoveDirty(k) == /\ dirtied' = dirtied \ {k} /\ in_progress' = in_progress \ {k}
                  /\ lost' = lost \ {k}

\* INSERT OR IGNORE: a row that is there keeps its in_progress.
Dirtied(S) == dirtied \cup S

\* Mutant of DeletedRows: the trigger of deleted formats forgets the text.
DeletedRows_Kept(k) == books_text

\* The trigger fts_db_format_deleted_trg.
DeletedRows(k) == [books_text EXCEPT ![k] = None]

\* Mutant of Unchanged: a row of any content will do.
Unchanged_AnyRow(k, c) == books_text[k] # None

\* queue_job: the index has this very file already.
Unchanged(k, c) == books_text[k] # None /\ books_text[k].content = c

\* The same text is in the index already, or there is none to add.
NothingToAdd(r) == /\ r.ok
                   /\ \/ TextOf[r.content] = EmptyText
                      \/ books_text[r.key] # None /\ books_text[r.key].text = TextOf[r.content]

\* FTS.commit_result and add_text; the insert trigger removes the dirty row.
CommitResult(r) ==
  /\ RemoveDirty(r.key)
  /\ IF NothingToAdd(r) THEN UNCHANGED <<books_text, unindexed>>
     ELSE /\ books_text' = [books_text EXCEPT ![r.key] =
               [content |-> r.content, text |-> IF r.ok THEN TextOf[r.content] ELSE ErrText]]
          /\ unindexed' = unindexed \ {r.key}

\* Mutant of MarkInProgress: the row is inserted if it is gone.
MarkInProgress_Insert(k) == in_progress \cup {k}

\* UPDATE dirtied_formats SET in_progress=TRUE, for the row if it is still there.
MarkInProgress(k) == in_progress \cup ({k} \cap dirtied)

\* Mutant of ResetInProgress: what was in progress stays so.
ResetInProgress_Kept == in_progress

\* FTS.initialize, once per connection: nothing is in progress yet.
ResetInProgress == {}

\* Mutant of Wake: the dispatcher is left to find out.
Wake_Never == UNCHANGED <<wake, missed>>

\* queue_next_fts_job
Wake == IF enabled THEN wake' = [wake EXCEPT ![gen] = @ + 1] /\ missed' = FALSE
        ELSE UNCHANGED <<wake, missed>>
-----------------------------------------------------------------------------
(* Calls of users. *)

Budget == changes < MaxChanges /\ changes' = changes + 1

MayChange(k) == EditsDuringJob \/ \A g \in Gens : ~InHand(g, k)

\* add_format: a new format, or a new file for one that exists.
AddFormat(k, c) ==
  /\ Budget
  /\ MayChange(k)
  /\ content' = [content EXCEPT ![k] = c]
  /\ dirtied' = IF attached THEN Dirtied({k}) ELSE dirtied
  /\ Wake
  /\ UNCHANGED <<in_progress, books_text, unindexed, lost, program, dispatcher, pool>>

\* remove_formats, or remove_books for the formats of the book.
RemoveFormat(k) ==
  /\ Budget
  /\ content[k] # None
  /\ MayChange(k)
  /\ attached \/ RemovalsUnseen
  /\ content' = [content EXCEPT ![k] = None]
  /\ IF attached THEN RemoveDirty(k) /\ books_text' = DeletedRows(k)
     ELSE UNCHANGED <<dirtied, in_progress, books_text, lost>>
  /\ UNCHANGED <<unindexed, missed, program, wake, dispatcher, pool>>

\* reindex_fts_book
ReindexBook(k) ==
  /\ Budget
  /\ enabled
  /\ content[k] # None
  /\ dirtied' = Dirtied({k})
  /\ Wake
  /\ UNCHANGED <<content, in_progress, books_text, unindexed, lost, program, dispatcher, pool>>

\* fts_unindex
Unindex(k) ==
  /\ Budget
  /\ enabled
  /\ content[k] # None
  /\ books_text' = [books_text EXCEPT ![k] = None]
  /\ unindexed' = unindexed \cup {k}
  /\ UNCHANGED <<content, dirtied, in_progress, lost, missed, program, wake, dispatcher, pool>>

\* enable_fts(FALSE): the threads of the pool are not told; the dispatcher will
\* find the end of its queue.
Disable ==
  /\ enabled
  /\ gen <= MaxToggles
  /\ enabled' = FALSE
  /\ UNCHANGED <<library, index, missed, attached, gen, restarts, wake, dispatcher, pool>>

\* A new pool and a new dispatcher start.
StartPool(g) == /\ gen' = g
                /\ wake' = [wake EXCEPT ![g] = 1]
                /\ dispatcher' = [dispatcher EXCEPT ![g] = AtRest("wait")]

\* Mutant of DirtyExisting: only a new index is filled.
DirtyExisting_NewIndex == dirtied

\* INSERT OR IGNORE INTO dirtied_formats SELECT book, format FROM main.data.
DirtyExisting == Dirtied(Existing)

\* enable_fts(TRUE) makes every format dirty.  Rows in progress are reset only
\* when the index is attached.
Enable ==
  /\ ~enabled
  /\ gen <= MaxToggles
  /\ enabled' = TRUE /\ attached' = TRUE
  /\ dirtied' = DirtyExisting
  /\ IF attached THEN UNCHANGED <<in_progress, lost>> ELSE in_progress' = ResetInProgress /\ lost' = {}
  /\ missed' = FALSE
  /\ StartPool(gen + 1)
  /\ UNCHANGED <<library, books_text, unindexed, restarts, pool>>

\* reindex_fts waits for the threads to end and starts with a new index; it asks
\* the new dispatcher twice.
ReindexAll ==
  /\ Budget
  /\ enabled
  /\ dirtied' = Existing /\ in_progress' = {} /\ lost' = {}
  /\ books_text' = [k \in Keys |-> None]
  /\ unindexed' = {} /\ missed' = FALSE
  /\ wake' = [wake EXCEPT ![gen] = 2]
  /\ dispatcher' = [dispatcher EXCEPT ![gen] = AtRest("wait")]
  /\ jobs' = [jobs EXCEPT ![gen] = <<>>]
  /\ working' = [working EXCEPT ![gen] = [w \in Workers |-> Idle]]
  /\ results' = [results EXCEPT ![gen] = <<>>]
  /\ supervisor' = [supervisor EXCEPT ![gen] = "get"]
  /\ UNCHANGED <<content, enabled, attached, gen, restarts>>

\* The program ends or is killed, and starts again.
Restart ==
  /\ restarts < MaxRestarts
  /\ restarts' = restarts + 1
  /\ attached' = enabled
  /\ in_progress' = IF enabled THEN ResetInProgress ELSE in_progress
  /\ lost' = IF enabled THEN {} ELSE lost
  /\ missed' = FALSE
  /\ dirtied' = IF enabled /\ dirtied = {} /\ \A k \in Keys : books_text[k] = None
                THEN Existing ELSE dirtied
  /\ gen' = 1
  /\ wake' = [g \in Gens |-> IF g = 1 /\ enabled THEN 1 ELSE 0]
  /\ dispatcher' = [g \in Gens |-> AtRest(IF g = 1 /\ enabled THEN "wait" ELSE "none")]
  /\ jobs' = NoJobs /\ working' = NoWork /\ results' = NoJobs
  /\ supervisor' = [g \in Gens |-> "get"]
  /\ UNCHANGED <<library, books_text, unindexed, enabled>>

Users == \/ \E k \in Keys : \/ \E c \in Contents : AddFormat(k, c)
                            \/ RemoveFormat(k) \/ ReindexBook(k) \/ Unindex(k)
         \/ Disable \/ Enable \/ ReindexAll \/ Restart
-----------------------------------------------------------------------------
(* The dispatcher thread of queue g.  After indexing was switched off and on   *)
(* an old one goes on, with whatever pool is in use then, until it finds the   *)
(* end of its queue.                                                           *)

Goto(g, pc) == dispatcher' = [dispatcher EXCEPT ![g] = AtRest(pc)]

\* queue.get(): a request, or the None that ends the thread.
DispatcherWakes(g) ==
  /\ dispatcher[g].pc = "wait"
  /\ \/ wake[g] > 0 /\ wake' = [wake EXCEPT ![g] = @ - 1] /\ Goto(g, "next")
     \/ wake[g] = 0 /\ (g # gen \/ ~enabled) /\ Goto(g, "none") /\ UNCHANGED wake
  /\ UNCHANGED <<library, index, missed, program, pool>>

\* get_next_fts_job, and a look at the path and the kind of the format.
NextJob(g) ==
  /\ dispatcher[g].pc = "next"
  /\ IF ~enabled \/ dirtied \subseteq in_progress THEN Goto(g, "wait")
     ELSE \E k \in dirtied \ in_progress :
            dispatcher' = [dispatcher EXCEPT ![g] =
              [pc |-> IF content[k] = None \/ k \in Unextractable THEN "drop" ELSE "read",
               key |-> k, content |-> None]]
  /\ UNCHANGED <<library, index, missed, program, wake, pool>>

\* remove_dirty_fts, in a lock section of its own.
DropJob(g) ==
  /\ dispatcher[g].pc = "drop"
  /\ IF enabled THEN RemoveDirty(dispatcher[g].key) ELSE UNCHANGED <<dirtied, in_progress, lost>>
  /\ Goto(g, "next")
  /\ UNCHANGED <<library, books_text, unindexed, missed, program, wake, pool>>

\* The file is copied and hashed; if it is gone the loop goes on.
ReadFormat(g) ==
  /\ dispatcher[g].pc = "read"
  /\ LET c == content[dispatcher[g].key]
     IN  dispatcher' = [dispatcher EXCEPT ![g] = IF c = None THEN AtRest("next")
                                                 ELSE [@ EXCEPT !.pc = "queue", !.content = c]]
  /\ UNCHANGED <<library, index, missed, program, wake, pool>>

IdleWorkers(g) == {w \in Workers : working[g][w] = Idle}

\* fts_has_idle_workers is asked after the job was queued, and a worker needs no
\* lock to take it: the idle ones may have taken what is queued.
MoreAvailable == IdleWorkers(gen) # {}
NoneIdle == Cardinality(IdleWorkers(gen)) <= Len(jobs'[gen])

\* Mutant of WaitsForNothing: the dispatcher never waits in vain.
WaitsForNothing_Never == FALSE

\* Nothing was queued, every worker the dispatcher took for a busy one has handed
\* in its result, and the supervisor has asked for the next format already.
WaitsForNothing == /\ jobs'[gen] = <<>> /\ \A w \in Workers : working[gen][w].state = "done"
                   /\ results[gen] = <<>> /\ supervisor[gen] = "get" /\ wake[gen] = 0

\* queue_fts_job.  The loop goes on while the pool has an idle worker, or after
\* an exception, which calls of a pool that is gone raise.
QueueJob(g) ==
  /\ dispatcher[g].pc = "queue"
  /\ LET k == dispatcher[g].key
         c == dispatcher[g].content
     IN  IF ~enabled THEN UNCHANGED <<dirtied, in_progress, lost, jobs>>
         ELSE IF Unchanged(k, c) THEN RemoveDirty(k) /\ UNCHANGED jobs
         ELSE /\ jobs' = [jobs EXCEPT ![gen] = Append(@, [key |-> k, content |-> c])]
              /\ in_progress' = MarkInProgress(k)
              /\ UNCHANGED <<dirtied, lost>>
  /\ \/ (~enabled \/ MoreAvailable) /\ Goto(g, "next") /\ UNCHANGED missed
     \/ enabled /\ NoneIdle /\ Goto(g, "wait") /\ missed' = (missed \/ WaitsForNothing)
  /\ UNCHANGED <<library, books_text, unindexed, program, wake, working, results, supervisor>>

Dispatcher(g) == DispatcherWakes(g) \/ NextJob(g) \/ DropJob(g) \/ ReadFormat(g) \/ QueueJob(g)
-----------------------------------------------------------------------------
(* The threads of pool g. *)

TakeJob(g, w) ==
  /\ working[g][w] = Idle
  /\ jobs[g] # <<>>
  /\ working' = [working EXCEPT ![g][w] = [state |-> "working", job |-> Head(jobs[g])]]
  /\ jobs' = [jobs EXCEPT ![g] = Tail(@)]
  /\ UNCHANGED <<library, index, missed, program, wake, dispatcher, results, supervisor>>

\* The text, or an error: the extraction failed or took longer than max_duration.
\* The result is in the queue before the worker counts as idle (BecomeIdle).
FinishJob(g, w) ==
  /\ working[g][w].state = "working"
  /\ \E ok \in {TRUE, ~Faults} :
       results' = [results EXCEPT ![g] =
         Append(@, [key |-> working[g][w].job.key, content |-> working[g][w].job.content,
                    ok |-> ok])]
  /\ working' = [working EXCEPT ![g][w].state = "done"]
  /\ UNCHANGED <<library, index, missed, program, wake, dispatcher, jobs, supervisor>>

BecomeIdle(g, w) ==
  /\ working[g][w].state = "done"
  /\ working' = [working EXCEPT ![g][w] = Idle]
  /\ UNCHANGED <<library, index, missed, program, wake, dispatcher, jobs, results, supervisor>>

\* Mutant of Dropped: whatever is in progress is with a thread.
Dropped_Never(r) == {}

\* The mark of a result that was dropped stays.
Dropped(r) == {r.key} \cap in_progress

\* commit_fts_result.  It raises while indexing is off or the table cannot be
\* written: the result is lost, and nobody asks for the next format.
Commit(g) ==
  /\ supervisor[g] = "get"
  /\ results[g] # <<>>
  /\ results' = [results EXCEPT ![g] = Tail(@)]
  /\ \/ /\ enabled /\ CommitResult(Head(results[g]))
        /\ supervisor' = [supervisor EXCEPT ![g] = "check"]
        /\ UNCHANGED missed
     \/ /\ ~enabled \/ Faults
        /\ lost' = lost \cup Dropped(Head(results[g]))
        /\ missed' = TRUE
        /\ UNCHANGED <<dirtied, in_progress, books_text, unindexed, supervisor>>
  /\ UNCHANGED <<library, program, wake, dispatcher, jobs, working>>

\* do_check_for_work
CheckForWork(g) ==
  /\ supervisor[g] = "check"
  /\ supervisor' = [supervisor EXCEPT ![g] = "get"]
  /\ Wake
  /\ UNCHANGED <<library, index, program, dispatcher, jobs, working, results>>

Pool(g) == \/ \E w \in Workers : TakeJob(g, w) \/ FinishJob(g, w) \/ BecomeIdle(g, w)
           \/ Commit(g) \/ CheckForWork(g)

Next == Users \/ \E g \in Gens : Dispatcher(g) \/ Pool(g)

Spec == Init /\ [][Next]_vars

\* Every thread keeps running.
Fairness == \A g \in Gens : /\ WF_vars(Dispatcher(g))
                            /\ \A w \in Workers : /\ WF_vars(FinishJob(g, w))
                                                  /\ WF_vars(BecomeIdle(g, w))
                            /\ WF_vars(\E w \in Workers : TakeJob(g, w))
                            /\ WF_vars(Commit(g)) /\ WF_vars(CheckForWork(g))

FairSpec == Spec /\ Fairness
-----------------------------------------------------------------------------
(* Properties. *)

TypeOK == /\ content \in [Keys -> Contents \cup {None}]
          /\ dirtied \in SUBSET Keys /\ in_progress \in SUBSET dirtied
          /\ books_text \in [Keys -> Row \cup {None}]
          /\ unindexed \in SUBSET Keys /\ lost \in SUBSET in_progress /\ missed \in BOOLEAN
          /\ enabled \in BOOLEAN /\ attached \in BOOLEAN
          /\ gen \in Gens
          /\ wake \in [Gens -> Nat]
          /\ dispatcher \in [Gens -> DispatcherState]
          /\ jobs \in [Gens -> Seq(Job)]
          /\ working \in [Gens -> [Workers -> WorkerState]]
          /\ results \in [Gens -> Seq(Result)]
          /\ supervisor \in [Gens -> {"get", "check"}]
          /\ changes \in 0..MaxChanges /\ restarts \in 0..MaxRestarts

\* What the index should say of format k: the text of its file, or that taking
\* the text from this very file failed.
UpToDate(k) ==
  IF books_text[k] = None THEN k \in unindexed \/ TextOf[content[k]] = EmptyText
  ELSE \/ books_text[k].text = TextOf[content[k]]
       \/ books_text[k] = [content |-> content[k], text |-> ErrText]

\* "check updating rescans": while indexing is on, a format that is not waiting
\* to be indexed is found by the text its file has now.
IndexCurrent ==
  enabled => \A k \in Existing \ (dirtied \cup Unextractable) : UpToDate(k)

\* A search finds only books and formats that exist.
NoGhosts == \A k \in Keys : books_text[k] # None => content[k] # None

\* What a search finds is right: no format that is gone, and a format that does
\* not wait by the text its file has now.
IndexIsRight == IndexCurrent /\ NoGhosts

\* A thread of g has something to do that may lead to the next format: the
\* dispatcher a request or a format, the pool a job or a result.
AtWork(g) == \/ wake[g] > 0 /\ dispatcher[g].pc # "none"
             \/ dispatcher[g].pc \notin {"none", "wait"}
             \/ jobs[g] # <<>> \/ results[g] # <<>>
             \/ \E w \in Workers : working[g][w].state = "working"
             \/ supervisor[g] = "check"

\* While indexing is on, no dirty format is left for the next start of the
\* program: one that is in progress is in a thread's hands, and while any is
\* dirty the threads do not all wait for each other (the dispatcher for a request
\* of the supervisor, the supervisor for a result, the workers for a job).  Except
\* for what the code is known to forget: the formats whose result was dropped,
\* and, until the next request, those that wait when a request was lost.
NothingForgotten ==
  enabled => /\ \A k \in in_progress \ lost : \E g \in Gens : InHand(g, k)
             /\ dirtied \ lost # {} /\ ~missed => \E g \in Gens : AtWork(g)

\* Once users let it work, every dirty format is taken care of ("All book files
\* indexed", gui2/fts/scan.py), with the same exceptions.
EventuallyTakenCareOf == <>[](~enabled \/ dirtied \subseteq lost \/ missed)
=============================================================================
