------------------------------ MODULE BookFiles ------------------------------
(***************************************************************************)
(* The folder of a book, its rows in the database and the trash            *)
(* (db/backend.py, db/cache.py): adding, replacing and removing formats,   *)
(* changes of the title that move the folder, removing the book, restoring *)
(* it or a format of it from the trash, and the expiry of the trash.  A    *)
(* call holds the write lock of the library (module SHLock), so that calls *)
(* do not overlap; but each is a series of changes of files and tables,    *)
(* and may end before any of them, or in the middle of one, by an error or *)
(* by the end of the program.                                              *)
(*                                                                         *)
(* One book is enough: the name of every folder ends in the id of its      *)
(* book.  A name stands for a title with the author, that is for the name  *)
(* of the folder and of the files in it.                                   *)
(*                                                                         *)
(* Files are copied by links where the file system has them, so that       *)
(* files of one format with one content may be one file with two names:    *)
(* what is then written into one of them is in the other as well, and to   *)
(* rename one to the other does nothing.  Which files are links is not     *)
(* followed: any two that look alike may be.  A copy that is cut off is    *)
(* left out, but for that to the folder of removed formats.                *)
(***************************************************************************)
EXTENDS Integers, FiniteSets

CONSTANTS Formats, Names,
          MaxContents,    \* bound: files that users add
          MaxTime,        \* bound: the end of time, in days
          ExpireAge,      \* expire_old_trash_after, in days
          MaxInterrupts,  \* bound: calls that end early
          None

ASSUME NamesAssumption == Names # {} /\ IsFiniteSet(Formats) /\ None \notin Formats \cup Names \cup Int
ASSUME BoundsAssumption == /\ MaxContents \in Nat /\ MaxTime \in Nat /\ MaxInterrupts \in Nat
                           /\ ExpireAge \in Nat \ {0}

Damaged == 0   \* a file that was not completely written
Contents == 0..MaxContents
File == [fmt : Formats, name : Names, content : Contents]
TrashedFile == [fmt : Formats, content : Contents]

\* The book and its formats in the trash, and what the history says of them.
BookEntry == [files : SUBSET File, title : Names, opf : BOOLEAN, at : 0..MaxTime]
FormatsEntry == [files : SUBSET TrashedFile, at : 0..MaxTime]
BinnedBook == [files : SUBSET File, at : 0..MaxTime]
BinnedFormat == [files : SUBSET Contents, at : 0..MaxTime]

ASSUME FolderAssumption == \A S \in SUBSET File : S # None
ASSUME EntriesAssumption == None \notin BookEntry \cup FormatsEntry \cup BinnedBook \cup BinnedFormat

VARIABLES
  in_db,      \* the book has a row in books
  in_memory,  \* the tables in memory know it
  title, path,  \* its name, and the folder its row says it is in
  fname,      \* fname[f]: the name in the row of format f, or None
  folder,     \* folder[n]: the files in a folder of the book, or None
  trash_b,    \* the folder of the book in the trash: files, title, OPF, time; or None
  trash_f,    \* its removed formats in the trash: files and time, or None
  now,
  op,         \* the call in progress: where it is, its format and its files
  contents,   \* the number of files users added
  interrupts, \* the number of calls that ended early
  wanted,     \* history: wanted[f]: what the user has in format f, or None
  torn,       \* history: formats that a call that ended early left in disorder
  binned      \* history: binned.book: what was put in the trash with the book and
              \* when; binned.fmt[f]: likewise for a format that was not
              \* in the trash already; or None

tables == <<in_db, in_memory, title, path, fname>>
trash == <<trash_b, trash_f>>
history == <<wanted, torn, binned>>
vars == <<in_db, in_memory, title, path, fname, folder, trash_b, trash_f, now, op, contents,
          interrupts, wanted, torn, binned>>

Idle == [pc |-> "idle", fmt |-> None, files |-> {}]
Goto(pc, f, files) == op' = [pc |-> pc, fmt |-> f, files |-> files]

NoFormats == [f \in Formats |-> None]
NothingBinned == [book |-> None, fmt |-> NoFormats]


Init == /\ in_db = TRUE /\ in_memory = TRUE
        /\ title \in Names /\ path = title
        /\ fname = NoFormats
        /\ folder = [n \in Names |-> IF n = path THEN {} ELSE None]
        /\ trash_b = None /\ trash_f = None
        /\ now = 0 /\ op = Idle /\ contents = 0 /\ interrupts = 0
        /\ wanted = NoFormats /\ torn = {} /\ binned = NothingBinned
-----------------------------------------------------------------------------
(* Files. *)

FilesIn(F, n) == IF F[n] = None THEN {} ELSE F[n]
Files(n) == FilesIn(folder, n)

SameFile(x, y) == x.fmt = y.fmt /\ x.name = y.name

\* The files of S after those of T were written there.
Overwrite(S, T) == {x \in S : ~\E y \in T : SameFile(x, y)} \cup T

\* Files that are given names some of them share: the last one that is copied stays.
Resolved(S) == {R \in SUBSET S : /\ \A x, y \in R : SameFile(x, y) => x = y
                                 /\ \A x \in S : \E y \in R : SameFile(x, y)}

\* format_abspath: the file of that name, or else any of that format.
FormatFiles(n, f) ==
  LET exact == {x \in Files(n) : x.fmt = f /\ x.name = fname[f]}
  IN  IF exact # {} THEN exact ELSE {x \in Files(n) : x.fmt = f}

Rows == {f \in Formats : fname[f] # None}

One(S) == \E x \in S : S = {x}

\* The choices of one file for each row that has one.
Picks(n) == {P \in SUBSET Files(n) :
               /\ \A x \in P : x.fmt \in Rows /\ x \in FormatFiles(n, x.fmt)
               /\ \A f \in Rows : FormatFiles(n, f) # {} => One({x \in P : x.fmt = f})}

\* Formats with more than one file, which only a call that ended early leaves.
Doubled(S) == {f \in Formats : \E x, y \in S : x # y /\ x.fmt = f /\ y.fmt = f}

Named(S, n) == {[x EXCEPT !.name = n] : x \in S}

\* One of the files of S may be a link to another file of format f with content c.
Has(S, f, c) == \E x \in S : x.fmt = f /\ x.content = c

\* os.replace leaves both names of one file as they are.
MayStay(S) == \A x \in S : [x EXCEPT !.name = title] \in Files(path)
-----------------------------------------------------------------------------
(* What is written over a file is in the links to it, too. *)

\* To write the files of T over those of S: what is replaced by what.
Overwrites(S, T) == {[fmt |-> y[1].fmt, old |-> y[1].content, new |-> y[2].content] :
                       y \in {z \in S \X T : SameFile(z[1], z[2])}}

\* The files of S that may be links to what the writes W replace, and what may
\* become of one of them.
Touched(S, W) == {x \in S : \E w \in W : w.fmt = x.fmt /\ w.old = x.content}
Becomes(x, W) == {x} \cup {[x EXCEPT !.content = w.new] :
                             w \in {v \in W : v.fmt = x.fmt /\ v.old = x.content}}

\* After the writes W: the files of S, an entry of the trash, the folders, and all.
Written(S, W) == {(S \ Touched(S, W)) \cup T :
                    T \in {U \in SUBSET UNION {Becomes(x, W) : x \in Touched(S, W)} :
                             \A x \in Touched(S, W) : One(Becomes(x, W) \cap U)}}

WrittenEntry(e, W) == IF e = None THEN {None} ELSE {[e EXCEPT !.files = T] : T \in Written(e.files, W)}

WrittenFolder(n, W) == IF folder[n] = None THEN {None} ELSE Written(folder[n], W)

WrittenFolders(W) == {F \in [Names -> UNION {WrittenFolder(n, W) : n \in Names}] :
                        \A n \in Names : \E S \in WrittenFolder(n, W) : F[n] = S}

Linked(W) == {[folder |-> F, b |-> B, f |-> T] :
                F \in WrittenFolders(W), B \in WrittenEntry(trash_b, W), T \in WrittenEntry(trash_f, W)}
-----------------------------------------------------------------------------
(* How calls go on and end. *)

\* The call ends early, by an exception or with the program, after which the
\* tables are read anew; it leaves the formats T in disorder.
EndsEarly(T) == /\ interrupts < MaxInterrupts
                /\ interrupts' = interrupts + 1
                /\ op' = Idle
                /\ in_memory' \in {in_memory, in_db}
                /\ torn' = torn \cup T

GoesOn(pc) == op' = [op EXCEPT !.pc = pc] /\ UNCHANGED <<in_memory, interrupts, torn>>
Returns == op' = Idle /\ UNCHANGED <<in_memory, interrupts>>

\* The book is there.  What else is done to a book that was removed from the
\* tables, but not from memory, because an error ended its removal, is left out.
Live == op = Idle /\ in_db /\ in_memory
-----------------------------------------------------------------------------
(* set_field and update_path.  The title is in the tables and in memory first. *)

SetTitle(n) ==
  /\ Live
  /\ n # title
  /\ title' = n
  /\ Goto(IF n # path THEN "clear" ELSE IF \E f \in Rows : fname[f] # n THEN "rename" ELSE "idle", None, {})
  /\ UNCHANGED <<in_db, in_memory, path, fname, folder, trash, now, contents, interrupts, history>>

\* The folder stays, the files get the new name.
RenameFormats ==
  /\ op.pc = "rename"
  /\ \E P \in Picks(path) : \E S \in SUBSET P :
       /\ folder' = IF S = {} THEN folder
                     ELSE [folder EXCEPT ![path] = Overwrite(@ \ S, Named(S, title))]
       /\ (MayStay(P \ S) /\ GoesOn("paths")) \/ EndsEarly(Rows)
  /\ UNCHANGED <<in_db, title, path, fname, trash, now, contents, wanted, binned>>

\* A folder that has the new name already is removed ...
ClearTarget ==
  /\ op.pc = "clear"
  /\ \/ folder' = [folder EXCEPT ![title] = None] /\ GoesOn("copy")
     \/ /\ \E S \in SUBSET Files(title) : folder' = [folder EXCEPT ![title] = IF @ = None THEN None ELSE S]
        /\ EndsEarly({})
  /\ UNCHANGED <<in_db, title, path, fname, trash, now, contents, wanted, binned>>

AfterCopy == IF folder[path] = None THEN "paths" ELSE "unlink"

\* Mutant of CopyFiles: a file that cannot be copied is passed over.
CopyFiles_PassOver ==
  /\ op.pc = "copy"
  /\ \E P \in Picks(path), S \in SUBSET Files(path) :
       \E R \in Resolved((S \ P) \cup Named(S \cap P, title)) :
         folder' = [folder EXCEPT ![title] = R] /\ GoesOn(AfterCopy)
  /\ UNCHANGED <<in_db, title, path, fname, trash, now, contents, wanted, binned>>

\* ... the files are copied, those of formats under the new name; the second of
\* two that get the same name is written into the first ...
CopyFiles ==
  /\ op.pc = "copy"
  /\ \E P \in Picks(path), S \in SUBSET Files(path) :
       LET T == (S \ P) \cup Named(S \cap P, title)
       IN  \E R \in Resolved(T) : \E l \in Linked(Overwrites(T, R)), Q \in Written(R, Overwrites(T, R)) :
             /\ folder' = [l.folder EXCEPT ![title] = Q]
             /\ trash_b' = l.b /\ trash_f' = l.f
             /\ (S = Files(path) /\ GoesOn(AfterCopy)) \/ EndsEarly({})
  /\ UNCHANGED <<in_db, title, path, fname, now, contents, wanted, binned>>

\* ... and removed where they were ...
UnlinkFiles ==
  /\ op.pc = "unlink"
  /\ \/ folder' = [folder EXCEPT ![path] = None] /\ GoesOn("paths")
     \/ \E S \in SUBSET Files(path) : folder' = [folder EXCEPT ![path] = S] /\ EndsEarly(Rows)
  /\ UNCHANGED <<in_db, title, path, fname, trash, now, contents, wanted, binned>>

\* ... before the tables learn of it: update_paths_in_db.
UpdatePathsInDB ==
  /\ op.pc = "paths"
  /\ \/ /\ path' = title
        /\ fname' = [f \in Formats |-> IF f \in Rows THEN title ELSE None]
        /\ Returns /\ UNCHANGED torn
     \/ EndsEarly(Rows) /\ UNCHANGED <<path, fname>>
  /\ UNCHANGED <<in_db, title, folder, trash, now, contents, wanted, binned>>
-----------------------------------------------------------------------------
(* The trash. *)

\* Mutant of Expired: entries go a day too early.
Expired_Early(entry) == entry.at + ExpireAge <= now + 1

Expired(entry) == entry.at + ExpireAge <= now

Kept(entry) == IF entry # None /\ Expired(entry) THEN None ELSE entry

\* ensure_trash_dir: once per hour it also looks for what is old enough.
TrashDirs == {[b |-> trash_b, f |-> trash_f], [b |-> Kept(trash_b), f |-> Kept(trash_f)]}

\* expire_old_trash, and every listing of the trash.
ExpireOldTrash ==
  /\ op = Idle
  /\ trash_b' = Kept(trash_b) /\ trash_f' = Kept(trash_f)
  /\ trash' # trash
  /\ UNCHANGED <<tables, folder, now, op, contents, interrupts, history>>

\* delete_trash_entry and clear_trash_bin.
DeleteTrash(b, f) ==
  /\ op = Idle
  /\ b \/ f
  /\ b => trash_b # None
  /\ f => trash_f # None
  /\ trash_b' = IF b THEN None ELSE Kept(trash_b)
  /\ trash_f' = IF f THEN None ELSE Kept(trash_f)
  /\ binned' = [book |-> IF b THEN None ELSE binned.book,
                fmt |-> IF f THEN NoFormats ELSE binned.fmt]
  /\ UNCHANGED <<tables, folder, now, op, contents, interrupts, wanted, torn>>
-----------------------------------------------------------------------------
(* Formats. *)

\* Mutant of MoveOldFile: the file stays where it is.
MoveOldFile_Stays(f) == folder' = [folder EXCEPT ![path] = Files(path)]

\* The file of the row gets the name of the title; missing files do not matter.
MoveOldFile(f) ==
  LET old == {x \in Files(path) : x.fmt = f /\ x.name = fname[f]}
  IN  \E S \in SUBSET old :
        /\ MayStay(old \ S)
        /\ folder' = [folder EXCEPT ![path] = Overwrite(Files(path) \ S, Named(S, title))]

\* _do_add_format, for a file of the user ...
AddFormat(f) ==
  /\ Live
  /\ contents < MaxContents
  /\ MoveOldFile(f)
  /\ Goto("write", f, {})
  /\ UNCHANGED <<tables, trash, now, contents, interrupts, history>>

\* ... which is written into what is there ...
WriteFormat ==
  /\ op.pc = "write"
  /\ contents' = contents + 1
  /\ \/ \E c \in {contents', Damaged} :
          LET new == [fmt |-> op.fmt, name |-> title, content |-> c]
          IN  \E l \in Linked(Overwrites(Files(path), {new})) :
                /\ folder' = [l.folder EXCEPT ![path] = Overwrite(@, {new})]
                /\ trash_b' = l.b /\ trash_f' = l.f
                /\ \/ c # Damaged /\ GoesOn("row") /\ wanted' = [wanted EXCEPT ![op.fmt] = c]
                   \/ c = Damaged /\ EndsEarly({op.fmt}) /\ UNCHANGED wanted
     \/ EndsEarly({op.fmt}) /\ UNCHANGED <<folder, trash, wanted>>
  /\ UNCHANGED <<in_db, title, path, fname, now, binned>>

\* ... before the row of the format: update_fmt.  The folder of removed formats
\* goes with the last one that is restored.
UpdateRow ==
  /\ op.pc = "row"
  /\ \/ /\ fname' = [fname EXCEPT ![op.fmt] = title]
        /\ torn' = IF op.fmt \in Doubled(Files(path)) THEN torn ELSE torn \ {op.fmt}
        /\ trash_f' = IF trash_f # None /\ trash_f.files = {} THEN None ELSE trash_f
        /\ Returns
     \/ EndsEarly({op.fmt}) /\ UNCHANGED <<fname, trash_f>>
  /\ UNCHANGED <<in_db, title, path, folder, trash_b, now, contents, wanted, binned>>

\* move_format_from_trash: likewise, for a file of the trash ...
RestoreFormat(f) ==
  /\ Live
  /\ trash_f # None /\ \E x \in trash_f.files : x.fmt = f
  /\ MoveOldFile(f)
  /\ Goto("replace", f, {})
  /\ UNCHANGED <<tables, trash, now, contents, interrupts, history>>

\* ... which leaves the trash and replaces what is there.
ReplaceFormat ==
  /\ op.pc = "replace"
  /\ \/ \E x \in trash_f.files :
          LET new == [fmt |-> op.fmt, name |-> title, content |-> x.content]
          IN  /\ x.fmt = op.fmt
              /\ \/ /\ folder' = [folder EXCEPT ![path] = Overwrite(@, {new})]
                    /\ trash_f' = [files |-> trash_f.files \ {x}, at |-> now]
                 \/ new \in Files(path) /\ UNCHANGED <<folder, trash_f>>
              /\ wanted' = [wanted EXCEPT ![op.fmt] = x.content]
              /\ binned' = [binned EXCEPT !.fmt[op.fmt] = None]
              /\ GoesOn("row")
     \/ EndsEarly({op.fmt}) /\ UNCHANGED <<folder, trash_f, wanted, binned>>
  /\ UNCHANGED <<in_db, title, path, fname, trash_b, now, contents>>

\* remove_formats: the file, which format_abspath may have to rename ...
RemoveFormat(f) ==
  /\ Live
  /\ fname[f] # None
  /\ \E t \in TrashDirs :
       /\ trash_b' = t.b
       /\ \/ /\ FormatFiles(path, f) = {}
             /\ trash_f' = t.f
             /\ Goto("delete_row", f, {})
             /\ UNCHANGED folder
          \/ \E x \in FormatFiles(path, f) :
               /\ trash_f' = IF t.f = None THEN [files |-> {}, at |-> now] ELSE t.f
               /\ folder' = [folder EXCEPT ![path] = Overwrite(@ \ {x}, Named({x}, fname[f]))]
               /\ Goto("to_trash", f, {x.content})
  /\ wanted' = [wanted EXCEPT ![f] = None]
  /\ binned' = [binned EXCEPT !.fmt[f] = None]
  /\ UNCHANGED <<tables, now, contents, interrupts, torn>>

\* A new file in a folder changes its time, one that is overwritten does not.
TrashTime(f) == IF \E x \in trash_f.files : x.fmt = f THEN trash_f.at ELSE now

\* No other file of the library, nor of the book in the trash, may be a link to
\* the file of the row, with content c.
OnlyLink(f, c) ==
  /\ \A n \in Names : \A x \in Files(n) : x.fmt = f /\ x.content = c => n = path /\ x.name = fname[f]
  /\ trash_b # None => ~Has(trash_b.files, f, c)

\* ... is copied to the trash, into the file that is there, if any.  A link to
\* that one is passed over: it stays in the folder ...
FormatToTrash ==
  /\ op.pc = "to_trash"
  /\ LET there == {x \in trash_f.files : x.fmt = op.fmt}
     IN  \/ \E c \in op.files \cup {Damaged} :
            \E l \in Linked({[fmt |-> op.fmt, old |-> x.content, new |-> c] : x \in there}) :
              /\ folder' = l.folder /\ trash_b' = l.b
              /\ trash_f' = [files |-> (trash_f.files \ there) \cup {[fmt |-> op.fmt, content |-> c]},
                             at |-> TrashTime(op.fmt)]
              /\ \/ /\ c \in op.files
                    /\ GoesOn("unlink_format")
                    /\ binned' = [binned EXCEPT !.fmt[op.fmt] =
                                    IF there = {} /\ c # Damaged /\ OnlyLink(op.fmt, c)
                                    THEN [files |-> {c}, at |-> now] ELSE None]
                 \/ EndsEarly({op.fmt}) /\ UNCHANGED binned
         \/ /\ \E c \in op.files : [fmt |-> op.fmt, content |-> c] \in there
            /\ op' = [op EXCEPT !.pc = "delete_row"]
            /\ torn' = torn \cup {op.fmt}
            /\ UNCHANGED <<folder, trash, binned, in_memory, interrupts>>
         \/ EndsEarly({op.fmt}) /\ UNCHANGED <<folder, trash, binned>>
  /\ UNCHANGED <<in_db, title, path, fname, now, contents, wanted>>

\* ... and removed from the folder ...
UnlinkFormat ==
  /\ op.pc = "unlink_format"
  /\ \/ /\ folder' = [folder EXCEPT ![path] = {x \in @ : x.fmt # op.fmt \/ x.name # fname[op.fmt]}]
        /\ GoesOn("delete_row") /\ UNCHANGED binned
     \/ /\ EndsEarly({op.fmt}) /\ UNCHANGED folder
        /\ binned' = [binned EXCEPT !.fmt[op.fmt] = None]
  /\ UNCHANGED <<in_db, title, path, fname, trash, now, contents, wanted>>

\* ... before its row is deleted.
DeleteRow ==
  /\ op.pc = "delete_row"
  /\ \/ /\ fname' = [fname EXCEPT ![op.fmt] = None]
        /\ Returns /\ UNCHANGED torn
     \/ EndsEarly({op.fmt}) /\ UNCHANGED fname
  /\ UNCHANGED <<in_db, title, path, folder, trash, now, contents, wanted, binned>>
-----------------------------------------------------------------------------
(* The book. *)

\* remove_books: write_backup makes the folder if there is none.  The row goes
\* first, with those of the formats; the tables in memory last.
RemoveBook(permanent) ==
  /\ op = Idle /\ in_memory
  /\ \E t \in TrashDirs : trash_b' = t.b /\ trash_f' = t.f
  /\ in_db' = FALSE
  /\ folder' = IF permanent \/ folder[path] # None THEN folder ELSE [folder EXCEPT ![path] = {}]
  /\ IF folder'[path] = None THEN op' = Idle /\ in_memory' = FALSE
     ELSE UNCHANGED in_memory /\
          Goto(IF permanent THEN "rmtree" ELSE "empty_trash", None,
               IF permanent THEN {} ELSE {x \in Files(path) : fname[x.fmt] # None})
  /\ wanted' = NoFormats
  /\ UNCHANGED <<title, path, fname, now, contents, interrupts, torn, binned>>

\* The book is forgotten.
Forgotten == op' = Idle /\ in_memory' = FALSE /\ UNCHANGED <<interrupts, torn>>

RemoveTree ==
  /\ op.pc = "rmtree"
  /\ \/ folder' = [folder EXCEPT ![path] = None] /\ Forgotten
     \/ \E S \in SUBSET Files(path) : folder' = [folder EXCEPT ![path] = S] /\ EndsEarly(Formats)
  /\ UNCHANGED <<in_db, title, path, fname, trash, now, contents, wanted, binned>>

\* Mutant of EmptyTrash: the entry stays.
EmptyTrash_Stays ==
  /\ op.pc = "empty_trash"
  /\ GoesOn("copy_to_trash")
  /\ UNCHANGED <<in_db, title, path, fname, folder, trash, now, contents, wanted, binned>>

\* move_book_to_trash: an entry of the book that is there is removed ...
EmptyTrash ==
  /\ op.pc = "empty_trash"
  /\ \/ trash_b' = None /\ GoesOn("copy_to_trash")
     \/ /\ \E S \in SUBSET (IF trash_b = None THEN {} ELSE trash_b.files) :
             trash_b' \in IF trash_b = None THEN {None}
                         ELSE {[trash_b EXCEPT !.files = S, !.opf = opf] : opf \in {FALSE, trash_b.opf}}
        /\ EndsEarly(Formats)
  /\ UNCHANGED <<in_db, title, path, fname, folder, trash_f, now, contents, wanted, binned>>

\* ... the files are copied ...
CopyToTrash ==
  /\ op.pc = "copy_to_trash"
  /\ \E S \in SUBSET Files(path), opf \in BOOLEAN :
       /\ trash_b' = [files |-> S, title |-> title, opf |-> opf, at |-> now]
       /\ (S = Files(path) /\ opf /\ GoesOn("unlink_book")) \/ EndsEarly(Formats)
  /\ UNCHANGED <<in_db, title, path, fname, folder, trash_f, now, contents, wanted, binned>>

\* ... and removed from the library.
UnlinkBook ==
  /\ op.pc = "unlink_book"
  /\ \/ /\ folder' = [folder EXCEPT ![path] = None]
        /\ binned' = [binned EXCEPT !.book =
             [files |-> {x \in op.files : ~\E n \in Names \ {path} : Has(Files(n), x.fmt, x.content)},
              at |-> now]]
        /\ Forgotten
     \/ /\ \E S \in SUBSET Files(path) : folder' = [folder EXCEPT ![path] = S]
        /\ EndsEarly(Formats)
        /\ UNCHANGED binned
  /\ UNCHANGED <<in_db, title, path, fname, trash, now, contents, wanted>>

\* move_book_from_trash: the OPF says the title; the row is created, with a path
\* and without formats ...
RestoreBook ==
  /\ op = Idle /\ ~in_memory
  /\ trash_b # None /\ trash_b.opf
  /\ in_db' = TRUE /\ in_memory' = TRUE
  /\ title' = trash_b.title /\ path' = title'
  /\ fname' = NoFormats
  /\ Goto("from_trash", None, trash_b.files)
  /\ UNCHANGED <<folder, trash, now, contents, interrupts, history>>

\* ... the files are copied, into those that are in the folder ...
CopyFromTrash ==
  /\ op.pc = "from_trash"
  /\ \E S \in SUBSET trash_b.files :
       LET W == Overwrites(Files(path), S)
       IN  \E l \in Linked(W), R \in Written(S, W) :
             /\ folder' = [l.folder EXCEPT ![path] = Overwrite(FilesIn(l.folder, path), R)]
             /\ trash_b' = l.b /\ trash_f' = l.f
       /\ \/ /\ S = trash_b.files
             /\ op' = [op EXCEPT !.pc = "unlink_trash"]
             /\ torn' = torn \cup {x.fmt : x \in Overwrite(Files(path), S) \ S} \cup Doubled(S)
             /\ UNCHANGED <<in_memory, interrupts, binned>>
          \/ EndsEarly(Formats) /\ binned' = [binned EXCEPT !.book = None]
  /\ UNCHANGED <<in_db, title, path, fname, now, contents, wanted>>

\* ... removed from the trash ...
UnlinkTrash ==
  /\ op.pc = "unlink_trash"
  /\ \/ trash_b' = None /\ GoesOn("rows")
     \/ /\ \E S \in SUBSET trash_b.files, opf \in BOOLEAN :
             trash_b' = [trash_b EXCEPT !.files = S, !.opf = opf]
        /\ EndsEarly(Formats)
  /\ binned' = [binned EXCEPT !.book = None]
  /\ UNCHANGED <<in_db, title, path, fname, folder, trash_f, now, contents, wanted>>

\* ... and get their rows.
UpdateRows ==
  /\ op.pc = "rows"
  /\ \/ \E P \in SUBSET op.files :
          /\ \A x \in op.files : One({y \in P : y.fmt = x.fmt})
          /\ fname' = [f \in Formats |-> IF \E x \in P : x.fmt = f
                                         THEN (CHOOSE x \in P : x.fmt = f).name ELSE None]
          /\ wanted' = [f \in Formats |-> IF \E x \in P : x.fmt = f
                                          THEN (CHOOSE x \in P : x.fmt = f).content ELSE None]
          /\ Returns /\ UNCHANGED torn
     \/ EndsEarly(Formats) /\ UNCHANGED <<fname, wanted>>
  /\ UNCHANGED <<in_db, title, path, folder, trash, now, contents, binned>>

\* The program ends and starts again between two calls.
Restart == /\ op = Idle
           /\ in_memory # in_db
           /\ in_memory' = in_db
           /\ UNCHANGED <<in_db, title, path, fname, folder, trash, now, op, contents, interrupts, history>>

Tick == /\ op = Idle
        /\ now < MaxTime
        /\ now' = now + 1
        /\ UNCHANGED <<tables, folder, trash, op, contents, interrupts, history>>
-----------------------------------------------------------------------------
Calls == \/ \E n \in Names : SetTitle(n)
         \/ \E f \in Formats : AddFormat(f) \/ RemoveFormat(f) \/ RestoreFormat(f)
         \/ \E permanent \in BOOLEAN : RemoveBook(permanent)
         \/ RestoreBook \/ ExpireOldTrash
         \/ \E b, f \in BOOLEAN : DeleteTrash(b, f)

Steps == \/ RenameFormats \/ ClearTarget \/ CopyFiles \/ UnlinkFiles \/ UpdatePathsInDB
         \/ WriteFormat \/ ReplaceFormat \/ UpdateRow \/ FormatToTrash \/ UnlinkFormat \/ DeleteRow
         \/ RemoveTree \/ EmptyTrash \/ CopyToTrash \/ UnlinkBook
         \/ CopyFromTrash \/ UnlinkTrash \/ UpdateRows

Next == Calls \/ Steps \/ Restart \/ Tick

Spec == Init /\ [][Next]_vars
-----------------------------------------------------------------------------
(* Properties. *)

\* Every variable has its type; the folders that the next step of the call in
\* progress reads are there, and the one it fills is empty.
TypeOK ==
  /\ in_db \in BOOLEAN /\ in_memory \in BOOLEAN
  /\ title \in Names /\ path \in Names
  /\ fname \in [Formats -> Names \cup {None}]
  /\ \A n \in Names : folder[n] # None => folder[n] \subseteq File
  /\ trash_b # None => trash_b.files \subseteq File /\ trash_b.title \in Names
  /\ trash_f # None => trash_f.files \subseteq TrashedFile
  /\ op.pc \in {"unlink", "rmtree", "unlink_book", "write", "replace", "to_trash", "unlink_format"} =>
       folder[path] # None
  /\ op.pc = "copy" => folder[title] = None
  /\ op.pc = "copy_to_trash" => trash_b = None
  /\ op.pc \in {"from_trash", "unlink_trash", "unlink_book"} => trash_b # None
  /\ torn \subseteq Formats

\* The folder of the title is the only one, with what the user added under that name.
InPlace ==
  /\ path = title
  /\ \A n \in Names \ {title} : folder[n] = None
  /\ Files(title) = {[fmt |-> f, name |-> title, content |-> wanted[f]] : f \in {g \in Formats : wanted[g] # None}}
  /\ \A f \in Formats : fname[f] = IF wanted[f] = None THEN None ELSE title

\* Between two calls, a format that the database lists is found, with what the
\* user added last, however often the book was renamed, removed and restored;
\* unless a call that changed it ended early, or passed its file over as a link
\* to the one in the trash, which needs an earlier call that did.  While no call
\* ended early, all files are where the title says, and there are no others.
FormatsFound ==
  Live => /\ \A f \in Formats \ torn :
               wanted[f] # None => /\ fname[f] # None
                                   /\ FormatFiles(path, f) # {}
                                   /\ \A x \in FormatFiles(path, f) : x.content = wanted[f]
          /\ interrupts = 0 => InPlace

\* What the user has in format f is in a file.
Somewhere(f) == \E n \in Names : \E x \in Files(n) : x.fmt = f /\ x.content = wanted[f]

\* No step takes the only copy of a format away, not in the middle of a call and not
\* when it ends early: what the user has is in a file of some folder after it.
\* Excepted are a file whose replacement was not completely written, and formats that
\* an earlier call left in disorder.
ContentKept ==
  [][\A f \in Formats \ (torn \cap torn') :
       wanted'[f] # None =>
         \/ Somewhere(f)'
         \/ op.pc = "write" /\ op.fmt = f /\ interrupts' # interrupts]_vars

\* gui2/trash.py: "Deleted items are permanently deleted automatically after the
\* specified number of days": not before, and what is written into the library
\* meanwhile is not in them.  A removed book stays in the trash with all its
\* formats until it is old enough, and so does a removed format - unless the
\* trash had this format of the book already: it is overwritten, and the folder
\* keeps the time of the first one.  Not counted on are formats whose removal
\* ended early, and files that may have another link in the library, where an
\* earlier call that ended early left a copy: what is added there is written
\* into the trash as well.
KeptInTrash ==
  /\ (binned.book # None /\ now < binned.book.at + ExpireAge) =>
       trash_b # None /\ binned.book.files \subseteq trash_b.files
  /\ \A f \in Formats : (binned.fmt[f] # None /\ now < binned.fmt[f].at + ExpireAge) =>
       trash_f # None /\ \A c \in binned.fmt[f].files :
                            [fmt |-> f, content |-> c] \in trash_f.files
=============================================================================
