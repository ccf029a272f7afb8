--------------------------- MODULE MetadataBackup ---------------------------
(***************************************************************************)
(* How the library keeps the metadata.opf of every book up to date: the    *)
(* thread of db/backup.py, the dirtied_cache of db/cache.py with its       *)
(* sequence numbers, and the tables metadata_dirtied and                   *)
(* annotations_dirtied behind it, with other threads changing books in     *)
(* between, crashes and restarts.  Every call of the library runs under    *)
(* its lock (module SHLock), so a call is one action and the thread        *)
(* interleaves with the others between its calls.                          *)
(***************************************************************************)
EXTENDS Integers, FiniteSets, FiniteSetsExt

CONSTANTS Books,            \* the ids a book may have
          NoBook,           \* no book in hand
          MaxVersion,       \* bound: changes of all books together
          MaxRestarts,      \* bound: times the program ends
          Faults,           \* TRUE: calls of the backup thread may fail
          ConcurrentDumps   \* TRUE: dump_metadata() may run beside the backup thread

ASSUME BooksAssumption == IsFiniteSet(Books) /\ NoBook \notin Books
ASSUME BoundsAssumption == MaxVersion \in Nat /\ MaxRestarts \in Nat
ASSUME ModesAssumption == Faults \in BOOLEAN /\ ConcurrentDumps \in BOOLEAN

NoSeq == -1      \* None: not in dirtied_cache, or no sequence was obtained
NoMi == -1       \* None: no metadata was obtained
Damaged == -1    \* metadata.opf is missing or was not completely written

VARIABLES
  live,              \* the books in the database
  meta,              \* meta[b]: version of b's metadata and annotations in metadata.db
  opf,               \* opf[b]: version in the metadata.opf of b, or Damaged
  table,             \* the rows of metadata_dirtied
  annots,            \* the rows of annotations_dirtied
  up,                \* the program is running
  restarts,          \* how often it ended
  dirtied_cache,     \* dirtied_cache[b]: sequence number, or NoSeq
  dirtied_sequence,  \* the next sequence number
  pc,                \* where the backup thread is in do_one()
  book, mi, sequence,  \* its local variables
  check_count,       \* its counter check_dirtied_annotations
  dropped,           \* history: books the code knowingly leaves without a backup
                     \* of their latest change
  unlearned          \* history: rows of metadata_dirtied that a call put there and then
                     \* failed, before the cache learned of them

disk == <<live, meta, opf, table, annots>>
cache == <<dirtied_cache, dirtied_sequence, unlearned>>
locals == <<book, mi, sequence>>
thread == <<pc, book, mi, sequence, check_count>>
vars == <<live, meta, opf, table, annots, up, restarts, dirtied_cache, dirtied_sequence,
          pc, book, mi, sequence, check_count, dropped, unlearned>>

PCs == {"wait", "pick", "read", "convert", "write", "rewrite", "clear", "dead"}

Dirtied == {b \in Books : dirtied_cache[b] # NoSeq}

Init == /\ live \in SUBSET Books
        /\ meta = [b \in Books |-> 0]
        /\ opf = [b \in Books |-> 0]
        /\ table = {} /\ annots = {}
        /\ up = TRUE /\ restarts = 0
        /\ dirtied_cache = [b \in Books |-> NoSeq]
        /\ dirtied_sequence = 0
        /\ pc = "wait" /\ book = NoBook /\ mi = NoMi /\ sequence = NoSeq
        /\ check_count = 0
        /\ dropped = {} /\ unlearned = {}
-----------------------------------------------------------------------------
(* The dirtied_cache. *)

\* {book_id: from + i for i, book_id in enumerate(S)}, in the order of the set.
Numberings(S, from) ==
  {f \in [S -> from..(from + Cardinality(S) - 1)] : \A b, c \in S : f[b] = f[c] => b = c}

\* Mutant of Renumbered: a book that is dirty already keeps its number.
Renumbered_KeepOld(S) == S \ Dirtied

\* mark_as_dirty gives a fresh number to every book, dirty already or not.
Renumbered(S) == S

\* Mutant of DirtyRows: only the cache learns of the book.
DirtyRows_CacheOnly(S) == table

\* The rows after dirty_books(S): INSERT OR IGNORE.
DirtyRows(S) == table \cup S

\* mark_as_dirty: first the books that are dirty already, then the others,
\* which also get a row in metadata_dirtied.
MarkAsDirty(S) ==
  LET already == Renumbered(S) \cap Dirtied
      new == S \ Dirtied
      next == dirtied_sequence + Cardinality(already)
  IN  /\ \E f \in Numberings(already, dirtied_sequence), g \in Numberings(new, next) :
           dirtied_cache' = [b \in Books |-> IF b \in already THEN f[b]
                                             ELSE IF b \in new THEN g[b]
                                             ELSE dirtied_cache[b]]
      /\ dirtied_sequence' = next + Cardinality(new)
      /\ table' = DirtyRows(new)
      /\ unlearned' = unlearned \ S

\* Mutant of MayClear: the sequence number is not compared.
MayClear_Always(b, s) == TRUE

\* The book was not marked dirty again since sequence number s was read.
MayClear(b, s) == dirtied_cache[b] = NoSeq \/ s = NoSeq \/ dirtied_cache[b] = s

\* Mutant of ForgetDirty: the row goes, the entry in the cache stays.
ForgetDirty_RowOnly(S) == table' = table \ S /\ UNCHANGED <<dirtied_cache, unlearned>>

\* mark_book_as_clean and dirtied_cache.pop.
ForgetDirty(S) == /\ table' = table \ S
                  /\ dirtied_cache' = [b \in Books |-> IF b \in S THEN NoSeq ELSE dirtied_cache[b]]
                  /\ unlearned' = unlearned \ S
-----------------------------------------------------------------------------
(* Calls of other threads, and of the viewer's own process. *)

\* Bound: the changes of all books together.
Budget(S) == MapThenSumSet(LAMBDA b : meta[b], Books) + Cardinality(S) <= MaxVersion

\* The new version of the metadata of the books S.
Change(S) == /\ Budget(S)
             /\ \A b \in S : meta[b] < MaxVersion
             /\ meta' = [b \in Books |-> IF b \in S THEN meta[b] + 1 ELSE meta[b]]

\* set_field and the other setters: the books S change and are marked dirty.
SetField(S) ==
  /\ up
  /\ Change(S)
  /\ MarkAsDirty(S)
  /\ UNCHANGED <<live, opf, annots, up, restarts, thread, dropped>>

\* The program dies inside set_field, after the new values were committed and
\* before dirty_books() commits: the change was never recorded as dirty.
CrashInSetField(S) ==
  /\ up /\ restarts < MaxRestarts
  /\ Change(S)
  /\ up' = FALSE /\ restarts' = restarts + 1
  /\ dropped' = dropped \cup (S \ table)
  /\ UNCHANGED <<live, opf, table, annots, cache, thread>>

\* Mutant of RecordAnnotations: the row in annotations_dirtied is missing.
RecordAnnotations_Missing(b) == UNCHANGED annots

RecordAnnotations(b) == annots' = annots \cup {b}

\* save_annotations_for_book, which the viewer also calls from its own process.
SaveAnnotations(b) ==
  /\ Change({b})
  /\ RecordAnnotations(b)
  /\ UNCHANGED <<live, opf, table, up, restarts, cache, thread, dropped>>

\* update_annotations and delete_annotations change annotations of the book
\* and record nothing.
EditAnnotations(b) ==
  /\ up
  /\ Change({b})
  /\ dropped' = dropped \cup {b}
  /\ UNCHANGED <<live, opf, table, annots, up, restarts, cache, thread>>

\* remove_books: the row and the cache entry stay.  The book's folder, with an
\* up to date OPF unless writing it failed, goes to the trash, or is removed.
RemoveBook(b) ==
  /\ up
  /\ live' = live \ {b}
  /\ \E v \in {meta[b], opf[b], Damaged} : opf' = [opf EXCEPT ![b] = v]
  /\ dropped' = dropped \ {b}
  /\ UNCHANGED <<meta, table, annots, up, restarts, cache, thread>>

\* create_book_entry: a new book, or one restored from the trash under its old
\* id and with its old OPF.
AddBook(b) ==
  /\ up
  /\ live' = live \cup {b}
  /\ Change({b})
  /\ MarkAsDirty({b})
  /\ UNCHANGED <<opf, annots, up, restarts, thread, dropped>>

\* dump_metadata for all the dirtied books, in one call under the write lock.
\* F: the books whose backup fails, some of them after open() emptied the file.
DumpMetadata(F) ==
  LET done == (Dirtied \cap live) \ F
  IN  /\ up
      /\ ConcurrentDumps \/ pc \in {"wait", "dead"}
      /\ \E D \in SUBSET (F \cap live) :
           opf' = [b \in Books |-> IF b \in done THEN meta[b]
                                   ELSE IF b \in D THEN Damaged ELSE opf[b]]
      /\ ForgetDirty(done)
      /\ dropped' = dropped \ done
      /\ UNCHANGED <<live, meta, annots, up, restarts, dirtied_sequence, thread>>
-----------------------------------------------------------------------------
(* The backup thread: do_one(), call by call. *)

\* The thread starts over; its local variables are dead.
Again == /\ pc' = "wait" /\ book' = NoBook /\ mi' = NoMi /\ sequence' = NoSeq
         /\ UNCHANGED check_count

\* Mutant of AnnotatedRows: the rows of annotations_dirtied are just deleted.
AnnotatedRows_Lost == table

\* INSERT OR IGNORE INTO metadata_dirtied SELECT book FROM annotations_dirtied.
AnnotatedRows == table \cup annots

\* dirty_books_with_dirtied_annotations: the rows of annotations_dirtied are
\* deleted only if one of them was new.
TakeAnnotations == /\ table' = AnnotatedRows
                   /\ annots' = IF annots \subseteq table THEN annots ELSE {}

\* check_dirtied_annotations.
CheckAnnotations ==
  /\ TakeAnnotations
  /\ LET new == table' \ Dirtied
     IN  IF annots \subseteq table THEN UNCHANGED cache
         ELSE /\ \E f \in Numberings(new, dirtied_sequence) :
                   dirtied_cache' = [b \in Books |-> IF b \in new THEN f[b] ELSE dirtied_cache[b]]
              /\ dirtied_sequence' = dirtied_sequence + Cardinality(new)
              /\ unlearned' = {}

\* check_dirtied_annotations raises: before the rows are committed, or after it.
CheckFails ==
  /\ UNCHANGED <<dirtied_cache, dirtied_sequence>>
  /\ \/ UNCHANGED <<table, annots, unlearned>>
     \/ TakeAnnotations /\ unlearned' = unlearned \cup (annots \ table)

\* Mutant of ResetCheckCount: the counter goes on.
ResetCheckCount_Missing == check_count' = check_count + 1

ResetCheckCount == check_count' = 0

\* Every third time the thread looks for changed annotations first.
BeginCycle ==
  /\ up /\ pc = "wait"
  /\ check_count < 2
  /\ check_count' = check_count + 1
  /\ pc' = "pick"
  /\ UNCHANGED <<disk, up, restarts, cache, locals, dropped>>

BeginCycleChecking ==
  /\ up /\ pc = "wait"
  /\ check_count >= 2
  /\ ResetCheckCount
  /\ pc' = "pick"
  /\ \/ CheckAnnotations
     \/ Faults /\ CheckFails
  /\ UNCHANGED <<live, meta, opf, up, restarts, locals, dropped>>

\* get_a_dirtied_book: random.choice.
Pick(b) ==
  /\ up /\ pc = "pick"
  /\ b \in Dirtied
  /\ book' = b
  /\ pc' = "read"
  /\ UNCHANGED <<disk, up, restarts, cache, mi, sequence, check_count, dropped>>

\* No dirtied book, or the call fails.
PickNothing ==
  /\ up /\ pc = "pick"
  /\ Dirtied = {} \/ Faults
  /\ Again
  /\ UNCHANGED <<disk, up, restarts, cache, dropped>>

\* get_metadata_for_dump: no metadata if the book is not dirty any more, has
\* no path, or reading it failed.
Read ==
  /\ up /\ pc = "read"
  /\ sequence' = dirtied_cache[book]
  /\ \/ /\ book \in Dirtied \cap live
        /\ mi' = meta[book]
        /\ pc' = "convert"
     \/ /\ book \notin Dirtied \cap live \/ Faults
        /\ mi' = NoMi
        /\ pc' = "clear"
  /\ UNCHANGED <<disk, up, restarts, cache, book, check_count, dropped>>

\* The call itself fails, twice: the book stays dirty.
ReadFails ==
  /\ up /\ pc = "read"
  /\ Faults
  /\ Again
  /\ UNCHANGED <<disk, up, restarts, cache, dropped>>

\* metadata_to_opf.  A book it cannot convert is cleared without a backup.
Convert ==
  /\ up /\ pc = "convert"
  /\ \/ pc' = "write" /\ mi' = mi
     \/ Faults /\ pc' = "clear" /\ mi' = NoMi
  /\ UNCHANGED <<disk, up, restarts, cache, book, sequence, check_count, dropped>>

\* write_backup goes to the folder the book has now; a removed book has none.
Write ==
  /\ up /\ pc \in {"write", "rewrite"}
  /\ opf' = IF book \in live THEN [opf EXCEPT ![book] = mi] ELSE opf
  /\ dropped' = IF mi = meta[book] THEN dropped \ {book} ELSE dropped
  /\ pc' = "clear"
  /\ UNCHANGED <<live, meta, table, annots, up, restarts, cache, locals, check_count>>

\* open() or write() fails: once more, then the thread gives up for now.
WriteFails ==
  /\ up /\ pc \in {"write", "rewrite"}
  /\ Faults
  /\ book \in live
  /\ \E v \in {opf[book], Damaged} : opf' = [opf EXCEPT ![book] = v]
  /\ \/ pc = "write" /\ pc' = "rewrite" /\ UNCHANGED <<locals, check_count>>
     \/ pc = "rewrite" /\ Again
  /\ UNCHANGED <<live, meta, table, annots, up, restarts, cache, dropped>>

\* The thread forgets a book it has no metadata of, although its OPF is old.
GivesUp == mi = NoMi /\ MayClear(book, sequence) /\ book \in live /\ opf[book] # meta[book]

\* clear_dirtied.
Clear ==
  /\ up /\ pc = "clear"
  /\ IF MayClear(book, sequence) THEN ForgetDirty({book})
     ELSE UNCHANGED <<table, dirtied_cache, unlearned>>
  /\ dropped' = IF GivesUp THEN dropped \cup {book} ELSE dropped
  /\ Again
  /\ UNCHANGED <<live, meta, opf, annots, up, restarts, dirtied_sequence>>

\* do_one does not catch an exception of clear_dirtied: the thread ends.
ClearFails ==
  /\ up /\ pc = "clear"
  /\ Faults
  /\ pc' = "dead"
  /\ UNCHANGED <<disk, up, restarts, cache, locals, check_count, dropped>>
-----------------------------------------------------------------------------
(* The end of the program, and its next start. *)

\* Mutant of ShutdownRows: the shutdown empties the table.
ShutdownRows_Cleared == {}

\* commit_dirty_cache at shutdown.
ShutdownRows == table \cup Dirtied

Quit ==
  /\ up /\ restarts < MaxRestarts
  /\ up' = FALSE /\ restarts' = restarts + 1
  /\ table' = ShutdownRows
  /\ UNCHANGED <<live, meta, opf, annots, cache, thread, dropped>>

\* The process dies, possibly while it writes an OPF file.
Crash ==
  /\ up /\ restarts < MaxRestarts
  /\ up' = FALSE /\ restarts' = restarts + 1
  /\ \/ UNCHANGED opf
     \/ pc \in {"write", "rewrite"} /\ book \in live /\ opf' = [opf EXCEPT ![book] = Damaged]
  /\ UNCHANGED <<live, meta, table, annots, cache, thread, dropped>>

\* Cache.__init__ runs initialize_dynamic; a new backup thread starts.
Restart ==
  /\ ~up
  /\ up' = TRUE
  /\ TakeAnnotations
  /\ dirtied_sequence' = Cardinality(table')
  /\ \E f \in Numberings(table', 0) :
       dirtied_cache' = [b \in Books |-> IF b \in table' THEN f[b] ELSE NoSeq]
  /\ pc' = "wait" /\ book' = NoBook /\ mi' = NoMi /\ sequence' = NoSeq
  /\ check_count' = 0
  /\ unlearned' = {}
  /\ UNCHANGED <<live, meta, opf, restarts, dropped>>
-----------------------------------------------------------------------------
Users == \/ \E S \in SUBSET live \ {{}} : SetField(S) \/ CrashInSetField(S)
         \/ \E b \in live : SaveAnnotations(b) \/ EditAnnotations(b) \/ RemoveBook(b)
         \/ \E b \in Books \ live : AddBook(b)
         \/ \E F \in SUBSET (IF Faults THEN Dirtied ELSE {}) : DumpMetadata(F)

BackupThread == \/ BeginCycle \/ BeginCycleChecking
                \/ \E b \in Books : Pick(b)
                \/ PickNothing \/ Read \/ ReadFails \/ Convert \/ Write \/ WriteFails \/ Clear \/ ClearFails

Next == Users \/ BackupThread \/ Quit \/ Crash \/ Restart

Spec == Init /\ [][Next]_vars

\* The thread keeps running, random.choice does not pass over a book for ever,
\* a call that may fail does not fail each time, and the program is started again.
Fairness == /\ WF_vars(BackupThread)
            /\ \A b \in Books : /\ SF_vars(Pick(b))
                                 /\ SF_vars(book = b /\ Read)
                                 /\ SF_vars(book = b /\ Write)
            /\ SF_vars(BeginCycleChecking /\ CheckAnnotations)
            /\ WF_vars(Restart)

FairSpec == Spec /\ Fairness
-----------------------------------------------------------------------------
(* Properties. *)

TypeOK == /\ live \in SUBSET Books
          /\ meta \in [Books -> 0..MaxVersion]
          /\ opf \in [Books -> Damaged..MaxVersion]
          /\ table \in SUBSET Books /\ annots \in SUBSET Books
          /\ up \in BOOLEAN /\ restarts \in 0..MaxRestarts
          /\ dirtied_cache \in [Books -> Nat \cup {NoSeq}]
          /\ dirtied_sequence \in Nat
          /\ pc \in PCs
          /\ book \in Books \cup {NoBook}
          /\ mi \in NoMi..MaxVersion
          /\ sequence \in Nat \cup {NoSeq}
          /\ check_count \in 0..2
          /\ dropped \in SUBSET Books /\ unlearned \in SUBSET Books

\* While the program runs, the table that a restart starts from names exactly
\* the books the cache knows to be dirty, and those it did not learn of when
\* check_dirtied_annotations failed between the table and the cache.
TableMatchesCache == up => table = Dirtied \cup unlearned /\ Dirtied \cap unlearned = {}

\* "calibre automatically backs up the metadata for every individual book in
\* the book's folder as an OPF file": a book that nothing marks for backup has
\* its latest metadata in its OPF, whatever changed while the thread was
\* writing it, unless the code gave up on the change.
CleanIsBackedUp == \A b \in live : b \notin table \cup annots \cup dropped => opf[b] = meta[b]

\* "Continuously backup changed metadata": once the users and the crashes
\* stop, every book's OPF catches up and stays up to date, unless the thread
\* has ended because clear_dirtied raised, or the cache never learns of the row.
EventuallyBackedUp ==
  \A b \in Books : <>[](\/ b \notin live \/ b \in dropped \cup unlearned
                         \/ pc = "dead" \/ opf[b] = meta[b])
=============================================================================
