--------------------------- MODULE BookFiles_proofs ---------------------------
(***************************************************************************)
(* What was put in the trash stays there until it is old enough; formats   *)
(* are found where their rows say, with what the user put there, and no    *)
(* step loses it: for any formats, names and files, whichever of them are  *)
(* links to one another, and any number of calls that end early.           *)
(***************************************************************************)
EXTENDS BookFiles, TLAPS
-----------------------------------------------------------------------------
(* The invariant. *)

TypesInv ==
  /\ in_db \in BOOLEAN /\ in_memory \in BOOLEAN
  /\ title \in Names /\ path \in Names
  /\ fname \in [Formats -> Names \cup {None}]
  /\ folder \in [Names -> (SUBSET File) \cup {None}]
  /\ trash_b \in BookEntry \cup {None}
  /\ trash_f \in FormatsEntry \cup {None}
  /\ now \in 0..MaxTime
  /\ contents \in Contents
  /\ op = [pc |-> op.pc, fmt |-> op.fmt, files |-> op.files]
  /\ binned = [book |-> binned.book, fmt |-> binned.fmt]
  /\ binned.book \in BinnedBook \cup {None}
  /\ binned.fmt \in [Formats -> BinnedFormat \cup {None}]

\* What the next step of a call relies on.
CallInv ==
  /\ op.pc \in {"write", "replace", "row", "to_trash", "unlink_format", "delete_row"} => op.fmt \in Formats
  /\ op.pc \in {"write", "replace", "to_trash", "unlink_format"} => folder[path] \in SUBSET File
  /\ op.pc = "write" => contents < MaxContents
  /\ op.pc \in {"replace", "to_trash"} => trash_f # None
  /\ op.pc = "to_trash" => /\ op.files \subseteq Contents /\ binned.fmt[op.fmt] = None
                          /\ \A c \in op.files : Has(Files(path), op.fmt, c)
  /\ op.pc \in {"empty_trash", "copy_to_trash"} => op.files \subseteq Files(path)
  /\ op.pc \in {"empty_trash", "copy_to_trash", "unlink_book"} => ~in_db
  /\ op.pc = "unlink_book" => trash_b # None /\ op.files \subseteq trash_b.files /\ trash_b.at = now
  /\ op.pc \in {"from_trash", "unlink_trash"} => trash_b # None
  /\ op.pc \in {"from_trash", "unlink_trash", "rows"} => op.files \subseteq File

\* A book in the trash is not in the library, unless it is being restored.
GoneInv == binned.book # None =>
             \/ op = Idle /\ ~in_db /\ ~in_memory
             \/ op.pc \in {"from_trash", "unlink_trash"}

\* The first part of KeptInTrash: the entry is not older than what was put in it.
BookKept == (binned.book # None /\ now < binned.book.at + ExpireAge) =>
              /\ trash_b # None
              /\ binned.book.at <= trash_b.at
              /\ binned.book.files \subseteq trash_b.files

\* The second part: likewise, and there is a file.
FormatKept(f) == (binned.fmt[f] # None /\ now < binned.fmt[f].at + ExpireAge) =>
                   /\ trash_f # None
                   /\ binned.fmt[f].at <= trash_f.at /\ binned.fmt[f].at <= now
                   /\ binned.fmt[f].files # {}
                   /\ \A c \in binned.fmt[f].files : [fmt |-> f, content |-> c] \in trash_f.files

IInv == /\ TypesInv
        /\ CallInv
        /\ GoneInv
        /\ BookKept
        /\ \A f \in Formats : FormatKept(f)

\* A file of the library, or of the book in the trash, has this content; a removed
\* format has it.
InLibrary(f, c) == \/ \E n \in Names : Has(Files(n), f, c)
                   \/ trash_b # None /\ Has(trash_b.files, f, c)
InTrash(f, c) == trash_f # None /\ Has(trash_f.files, f, c)

\* What is counted on in the trash has no link in the library: a book that is not
\* being restored, a removed format whose only link is not about to be removed.
\* Files have no contents that are still to come.
BookAlone == binned.book # None =>
               \/ op.pc = "unlink_trash"
               \/ \A x \in binned.book.files, n \in Names : ~Has(Files(n), x.fmt, x.content)

FormatAlone(f) ==
  binned.fmt[f] # None =>
    \A c \in binned.fmt[f].files :
      /\ 0 < c /\ c <= contents
      /\ ~InLibrary(f, c) \/ (op.pc = "unlink_format" /\ op.fmt = f /\ OnlyLink(f, c))

Bounded == \A f \in Formats, c \in Contents : InLibrary(f, c) \/ InTrash(f, c) => c <= contents

AloneInv == /\ Bounded
            /\ BookAlone
            /\ \A f \in Formats : FormatAlone(f)

\* Only a format that is being removed is in both the library and the trash: so it is
\* while no call ended early.
Apart == \A f \in Formats, c \in Contents :
           InLibrary(f, c) /\ InTrash(f, c) => op.pc = "unlink_format" /\ op.fmt = f
-----------------------------------------------------------------------------
(* Files. *)

LEMMA OverwriteType ==
  ASSUME NEW S \in SUBSET File, NEW T \in SUBSET File
  PROVE  Overwrite(S, T) \in SUBSET File
BY DEF Overwrite

LEMMA NamedType ==
  ASSUME NEW S \in SUBSET File, NEW n \in Names
  PROVE  Named(S, n) \in SUBSET File
<1> SUFFICES ASSUME NEW x \in S PROVE [x EXCEPT !.name = n] \in File
  BY DEF Named
<1>1. x \in File
  OBVIOUS
<1> QED BY <1>1 DEF File

LEMMA ResolvedType ==
  ASSUME NEW S \in SUBSET File, NEW R \in Resolved(S)
  PROVE  R \in SUBSET File
BY DEF Resolved

LEMMA FilesType ==
  ASSUME TypesInv, NEW n \in Names
  PROVE  Files(n) \in SUBSET File
<1>1. folder[n] \in (SUBSET File) \cup {None}
  BY DEF TypesInv
<1> QED BY <1>1 DEF Files, FilesIn

LEMMA FormatFilesType ==
  ASSUME TypesInv, NEW n \in Names, NEW f
  PROVE  /\ FormatFiles(n, f) \subseteq Files(n)
         /\ FormatFiles(n, f) \in SUBSET File
         /\ \A x \in FormatFiles(n, f) : x.fmt = f
<1>1. Files(n) \in SUBSET File
  BY FilesType
<1> QED BY <1>1 DEF FormatFiles

\* An entry of the trash that is not old enough stays.
LEMMA KeptStays ==
  ASSUME now \in 0..MaxTime, NEW e, NEW t \in Int, e # None => e.at \in Int
  PROVE  /\ Kept(e) \in {e, None}
         /\ (e # None /\ t <= e.at /\ now < t + ExpireAge) => Kept(e) = e
<1>1. Kept(e) \in {e, None}
  BY DEF Kept
<1>2. ASSUME e # None, t <= e.at, now < t + ExpireAge PROVE Kept(e) = e
  <2>1. ~(e.at + ExpireAge <= now)
    BY <1>2, BoundsAssumption
  <2> QED BY <2>1 DEF Kept, Expired
<1> QED BY <1>1, <1>2
-----------------------------------------------------------------------------
(* What is written is in the links, too. *)

Write == [fmt : Formats, old : Contents, new : Contents]

\* The writes W put something else in place of the content c of format f.
Effective(W, f, c) == \E w \in W : w.fmt = f /\ w.old = c /\ w.new # c

\* A file x is y after the writes W.
TurnedInto(x, y, W) ==
  /\ y.fmt = x.fmt
  /\ y = x \/ \E w \in W : w.fmt = x.fmt /\ w.old = x.content /\ w.new = y.content

\* The files of S, or of an entry of the trash, are those of T after the writes W.
FilesAfter(T, S, W) == /\ \A y \in T : \E x \in S : y.name = x.name /\ TurnedInto(x, y, W)
                       /\ \A x \in S : ~Effective(W, x.fmt, x.content) => x \in T
TrashAfter(T, S, W) == /\ \A y \in T : \E x \in S : TurnedInto(x, y, W)
                       /\ \A x \in S : ~Effective(W, x.fmt, x.content) => x \in T

LEMMA OverwritesType ==
  ASSUME NEW S \in SUBSET File, NEW T \in SUBSET File
  PROVE  /\ Overwrites(S, T) \in SUBSET Write
         /\ \A w \in Overwrites(S, T) :
              \E x \in S, y \in T : /\ SameFile(x, y) /\ w.fmt = x.fmt
                                    /\ w.old = x.content /\ w.new = y.content
<1> SUFFICES ASSUME NEW w \in Overwrites(S, T)
             PROVE  /\ w \in Write
                    /\ \E x \in S, y \in T : /\ SameFile(x, y) /\ w.fmt = x.fmt
                                             /\ w.old = x.content /\ w.new = y.content
  OBVIOUS
<1>1. PICK z \in S \X T : /\ SameFile(z[1], z[2])
                          /\ w = [fmt |-> z[1].fmt, old |-> z[1].content, new |-> z[2].content]
  BY DEF Overwrites
<1>2. z[1] \in S /\ z[2] \in T
  OBVIOUS
<1> DEFINE x == z[1]  y == z[2]
<1>3. x \in File /\ y \in File /\ SameFile(x, y) /\ w = [fmt |-> x.fmt, old |-> x.content, new |-> y.content]
  BY <1>1, <1>2
<1> HIDE DEF x, y
<1>4. w \in Write
  BY <1>3 DEF Write, File
<1> QED BY <1>2, <1>3, <1>4 DEF x, y

LEMMA BecomesFile ==
  ASSUME NEW W \in SUBSET Write, NEW x \in File, NEW y \in Becomes(x, W)
  PROVE  y \in File /\ y.name = x.name /\ TurnedInto(x, y, W)
<1>1. CASE y = x
  BY <1>1 DEF TurnedInto
<1>2. CASE \E w \in W : w.fmt = x.fmt /\ w.old = x.content /\ y = [x EXCEPT !.content = w.new]
  <2>1. PICK w \in W : w.fmt = x.fmt /\ w.old = x.content /\ y = [x EXCEPT !.content = w.new]
    BY <1>2
  <2>2. w.new \in Contents
    BY DEF Write
  <2>3. y \in File /\ y.name = x.name /\ y.fmt = x.fmt /\ y.content = w.new
    BY <2>1, <2>2 DEF File
  <2> QED BY <2>1, <2>3 DEF TurnedInto
<1> QED BY <1>1, <1>2 DEF Becomes

LEMMA BecomesTrashed ==
  ASSUME NEW W \in SUBSET Write, NEW x \in TrashedFile, NEW y \in Becomes(x, W)
  PROVE  y \in TrashedFile /\ TurnedInto(x, y, W)
<1>1. CASE y = x
  BY <1>1 DEF TurnedInto
<1>2. CASE \E w \in W : w.fmt = x.fmt /\ w.old = x.content /\ y = [x EXCEPT !.content = w.new]
  <2>1. PICK w \in W : w.fmt = x.fmt /\ w.old = x.content /\ y = [x EXCEPT !.content = w.new]
    BY <1>2
  <2>2. w.new \in Contents
    BY DEF Write
  <2>3. y \in TrashedFile /\ y.fmt = x.fmt /\ y.content = w.new
    BY <2>1, <2>2 DEF TrashedFile
  <2> QED BY <2>1, <2>3 DEF TurnedInto
<1> QED BY <1>1, <1>2 DEF Becomes

LEMMA BecomesNothing ==
  ASSUME NEW W, NEW x \in File \cup TrashedFile, ~Effective(W, x.fmt, x.content)
  PROVE  Becomes(x, W) = {x}
<1>1. ASSUME NEW w \in W, w.fmt = x.fmt, w.old = x.content PROVE [x EXCEPT !.content = w.new] = x
  <2>1. w.new = x.content
    BY <1>1 DEF Effective
  <2>2. [x EXCEPT !.content = x.content] = x
    BY DEF File, TrashedFile
  <2> QED BY <2>1, <2>2
<1> QED BY <1>1 DEF Becomes

\* What is not touched stays, and what is touched becomes one of the things it may become.
LEMMA WrittenSet ==
  ASSUME NEW S, NEW W, NEW T \in Written(S, W)
  PROVE  /\ \A y \in T : \E x \in S : y \in Becomes(x, W)
         /\ \A x \in S : Becomes(x, W) = {x} => x \in T
<1>1. PICK U \in SUBSET UNION {Becomes(x, W) : x \in Touched(S, W)} :
        /\ T = (S \ Touched(S, W)) \cup U
        /\ \A x \in Touched(S, W) : One(Becomes(x, W) \cap U)
  BY DEF Written
<1>2. \A x \in S : x \in Becomes(x, W)
  BY DEF Becomes
<1>3. Touched(S, W) \subseteq S
  BY DEF Touched
<1>4. \A y \in U : \E x \in S : y \in Becomes(x, W)
  BY <1>1, <1>3
<1>5. ASSUME NEW x \in Touched(S, W), Becomes(x, W) = {x} PROVE x \in U
  BY <1>1, <1>5 DEF One
<1> QED BY <1>1, <1>2, <1>4, <1>5

LEMMA WrittenFiles ==
  ASSUME NEW W \in SUBSET Write, NEW S \in SUBSET File, NEW T \in Written(S, W)
  PROVE  T \in SUBSET File /\ FilesAfter(T, S, W)
<1>1. ASSUME NEW y \in T PROVE y \in File /\ \E x \in S : y.name = x.name /\ TurnedInto(x, y, W)
  <2>1. PICK x \in S : y \in Becomes(x, W)
    BY WrittenSet
  <2> QED BY <2>1, BecomesFile
<1>2. ASSUME NEW x \in S, ~Effective(W, x.fmt, x.content) PROVE x \in T
  BY <1>2, BecomesNothing, WrittenSet
<1> QED BY <1>1, <1>2 DEF FilesAfter

LEMMA WrittenTrash ==
  ASSUME NEW W \in SUBSET Write, NEW S \in SUBSET TrashedFile, NEW T \in Written(S, W)
  PROVE  T \in SUBSET TrashedFile /\ TrashAfter(T, S, W)
<1>1. ASSUME NEW y \in T PROVE y \in TrashedFile /\ \E x \in S : TurnedInto(x, y, W)
  <2>1. PICK x \in S : y \in Becomes(x, W)
    BY WrittenSet
  <2> QED BY <2>1, BecomesTrashed
<1>2. ASSUME NEW x \in S, ~Effective(W, x.fmt, x.content) PROVE x \in T
  BY <1>2, BecomesNothing, WrittenSet
<1> QED BY <1>1, <1>2 DEF TrashAfter

LEMMA LinkedParts ==
  ASSUME NEW W, NEW l \in Linked(W)
  PROVE  l.folder \in WrittenFolders(W) /\ l.b \in WrittenEntry(trash_b, W) /\ l.f \in WrittenEntry(trash_f, W)
BY DEF Linked

LEMMA LinkedFolders ==
  ASSUME TypesInv, NEW W \in SUBSET Write, NEW l \in Linked(W)
  PROVE  /\ l.folder \in [Names -> (SUBSET File) \cup {None}]
         /\ \A n \in Names : /\ l.folder[n] = None <=> folder[n] = None
                             /\ FilesIn(l.folder, n) \in SUBSET File
                             /\ FilesAfter(FilesIn(l.folder, n), Files(n), W)
<1> DEFINE F == l.folder
<1>1. F \in WrittenFolders(W)
  BY LinkedParts
<1> HIDE DEF F
<1>2. ASSUME NEW n \in Names PROVE F[n] \in WrittenFolder(n, W)
  BY <1>1 DEF WrittenFolders
<1>3. ASSUME NEW n \in Names
      PROVE  /\ F[n] \in (SUBSET File) \cup {None}
             /\ F[n] = None <=> folder[n] = None
             /\ FilesIn(F, n) \in SUBSET File
             /\ FilesAfter(FilesIn(F, n), Files(n), W)
  <2>1. CASE folder[n] = None
    <3>1. F[n] = None
      BY <1>2, <2>1 DEF WrittenFolder
    <3> QED BY <2>1, <3>1 DEF FilesIn, Files, FilesAfter
  <2>2. CASE folder[n] # None
    <3>1. F[n] \in Written(folder[n], W)
      BY <1>2, <2>2 DEF WrittenFolder
    <3>2. folder[n] \in SUBSET File
      BY <2>2 DEF TypesInv
    <3>3. F[n] \in SUBSET File /\ FilesAfter(F[n], folder[n], W)
      BY <3>1, <3>2, WrittenFiles
    <3>4. F[n] # None
      BY <3>3, FolderAssumption
    <3> QED BY <2>2, <3>3, <3>4 DEF FilesIn, Files
  <2> QED BY <2>1, <2>2
<1>4. F \in [Names -> (SUBSET File) \cup {None}]
  <2>1. F \in [Names -> UNION {WrittenFolder(n, W) : n \in Names}]
    BY <1>1 DEF WrittenFolders
  <2> QED BY <1>3, <2>1
<1> QED BY <1>3, <1>4 DEF F

LEMMA LinkedBook ==
  ASSUME TypesInv, NEW W \in SUBSET Write, NEW l \in Linked(W)
  PROVE  /\ l.b \in BookEntry \cup {None}
         /\ l.b = None <=> trash_b = None
         /\ trash_b # None => /\ l.b.title = trash_b.title /\ l.b.opf = trash_b.opf /\ l.b.at = trash_b.at
                              /\ FilesAfter(l.b.files, trash_b.files, W)
<1> DEFINE b == l.b
<1>1. b \in WrittenEntry(trash_b, W)
  BY LinkedParts
<1> HIDE DEF b
<1>2. CASE trash_b = None
  BY <1>1, <1>2 DEF WrittenEntry, b
<1>3. CASE trash_b # None
  <2>1. trash_b \in BookEntry
    BY <1>3 DEF TypesInv
  <2>2. PICK T \in Written(trash_b.files, W) : b = [trash_b EXCEPT !.files = T]
    BY <1>1, <1>3 DEF WrittenEntry
  <2>3. trash_b.files \in SUBSET File
    BY <2>1 DEF BookEntry
  <2>4. T \in SUBSET File /\ FilesAfter(T, trash_b.files, W)
    BY <2>3, WrittenFiles
  <2>5. /\ b \in BookEntry /\ b.files = T
        /\ b.title = trash_b.title /\ b.opf = trash_b.opf /\ b.at = trash_b.at
    BY <2>1, <2>2, <2>4 DEF BookEntry
  <2>6. b # None
    BY <2>5, EntriesAssumption
  <2> QED BY <1>3, <2>4, <2>5, <2>6 DEF b
<1> QED BY <1>2, <1>3

LEMMA LinkedFormats ==
  ASSUME TypesInv, NEW W \in SUBSET Write, NEW l \in Linked(W)
  PROVE  /\ l.f \in FormatsEntry \cup {None}
         /\ l.f = None <=> trash_f = None
         /\ trash_f # None => l.f.at = trash_f.at /\ TrashAfter(l.f.files, trash_f.files, W)
<1> DEFINE b == l.f
<1>1. b \in WrittenEntry(trash_f, W)
  BY LinkedParts
<1> HIDE DEF b
<1>2. CASE trash_f = None
  BY <1>1, <1>2 DEF WrittenEntry, b
<1>3. CASE trash_f # None
  <2>1. trash_f \in FormatsEntry
    BY <1>3 DEF TypesInv
  <2>2. PICK T \in Written(trash_f.files, W) : b = [trash_f EXCEPT !.files = T]
    BY <1>1, <1>3 DEF WrittenEntry
  <2>3. trash_f.files \in SUBSET TrashedFile
    BY <2>1 DEF FormatsEntry
  <2>4. T \in SUBSET TrashedFile /\ TrashAfter(T, trash_f.files, W)
    BY <2>3, WrittenTrash
  <2>5. b \in FormatsEntry /\ b.files = T /\ b.at = trash_f.at
    BY <2>1, <2>2, <2>4 DEF FormatsEntry
  <2>6. b # None
    BY <2>5, EntriesAssumption
  <2> QED BY <1>3, <2>4, <2>5, <2>6 DEF b
<1> QED BY <1>2, <1>3

\* Every file after the writes W was there, or is what one of them wrote.
LEMMA LinkedFiles ==
  ASSUME TypesInv, NEW W \in SUBSET Write, NEW l \in Linked(W)
  PROVE  /\ \A n \in Names : \A y \in FilesIn(l.folder, n) :
              InLibrary(y.fmt, y.content) \/ \E w \in W : w.fmt = y.fmt /\ w.new = y.content
         /\ l.b # None => \A y \in l.b.files :
              InLibrary(y.fmt, y.content) \/ \E w \in W : w.fmt = y.fmt /\ w.new = y.content
         /\ l.f # None => \A y \in l.f.files :
              InTrash(y.fmt, y.content) \/ \E w \in W : w.fmt = y.fmt /\ w.new = y.content
<1>1. ASSUME NEW x, NEW y, TurnedInto(x, y, W)
      PROVE  /\ y.fmt = x.fmt
             /\ y.content = x.content \/ \E w \in W : w.fmt = y.fmt /\ w.new = y.content
  BY <1>1 DEF TurnedInto
<1>2. ASSUME NEW n \in Names, NEW y \in FilesIn(l.folder, n)
      PROVE  InLibrary(y.fmt, y.content) \/ \E w \in W : w.fmt = y.fmt /\ w.new = y.content
  <2>1. PICK x \in Files(n) : TurnedInto(x, y, W)
    BY LinkedFolders DEF FilesAfter
  <2>2. InLibrary(x.fmt, x.content)
    BY DEF InLibrary, Has
  <2> QED BY <1>1, <2>1, <2>2
<1>3. ASSUME l.b # None, NEW y \in l.b.files
      PROVE  InLibrary(y.fmt, y.content) \/ \E w \in W : w.fmt = y.fmt /\ w.new = y.content
  <2>1. trash_b # None
    BY <1>3, LinkedBook
  <2>2. PICK x \in trash_b.files : TurnedInto(x, y, W)
    BY <1>3, <2>1, LinkedBook DEF FilesAfter
  <2>3. InLibrary(x.fmt, x.content)
    BY <2>1 DEF InLibrary, Has
  <2> QED BY <1>1, <2>2, <2>3
<1>4. ASSUME l.f # None, NEW y \in l.f.files
      PROVE  InTrash(y.fmt, y.content) \/ \E w \in W : w.fmt = y.fmt /\ w.new = y.content
  <2>1. trash_f # None
    BY <1>4, LinkedFormats
  <2>2. PICK x \in trash_f.files : TurnedInto(x, y, W)
    BY <1>4, <2>1, LinkedFormats DEF TrashAfter
  <2>3. InTrash(x.fmt, x.content)
    BY <2>1 DEF InTrash, Has
  <2> QED BY <1>1, <2>2, <2>3
<1> QED BY <1>2, <1>3, <1>4
-----------------------------------------------------------------------------
(* Calls. *)

LEMMA AtIdle == op' = Idle => /\ op'.pc = "idle"
                              /\ op' = [pc |-> op'.pc, fmt |-> op'.fmt, files |-> op'.files]
BY DEF Idle

LEMMA WentTo ==
  ASSUME NEW p, NEW f, NEW S, Goto(p, f, S)
  PROVE  /\ op'.pc = p /\ op'.fmt = f /\ op'.files = S
         /\ op' = [pc |-> op'.pc, fmt |-> op'.fmt, files |-> op'.files]
BY DEF Goto

LEMMA WentOn ==
  ASSUME TypesInv, NEW p, op' = [op EXCEPT !.pc = p]
  PROVE  /\ op'.pc = p /\ op'.fmt = op.fmt /\ op'.files = op.files
         /\ op' = [pc |-> op'.pc, fmt |-> op'.fmt, files |-> op'.files]
<1>1. op = [pc |-> op.pc, fmt |-> op.fmt, files |-> op.files]
  BY DEF TypesInv
<1>2. op' = [pc |-> p, fmt |-> op.fmt, files |-> op.files]
  BY <1>1
<1> QED BY <1>2

LEMMA Ended ==
  ASSUME TypesInv, NEW T, EndsEarly(T)
  PROVE  op' = Idle /\ in_memory' \in BOOLEAN
BY DEF EndsEarly, TypesInv

\* Nothing is expected of a call that is over.
LEMMA IdleCall == op' = Idle => CallInv'
<1> SUFFICES ASSUME op' = Idle PROVE CallInv'
  OBVIOUS
<1>1. op'.pc = "idle"
  BY AtIdle
<1> QED BY <1>1 DEF CallInv

\* While a call works on a book that is in the library, or removes it, there is
\* no book in the trash that anyone counts on.
LEMMA NoBookBinned ==
  ASSUME IInv, \/ op = Idle /\ in_memory
               \/ op.pc \notin {"idle", "from_trash", "unlink_trash"}
  PROVE  binned.book = None
<1>1. op = Idle => op.pc = "idle"
  BY DEF Idle
<1> QED BY <1>1 DEF IInv, GoneInv

\* A step that leaves the trash alone, while no book in it is counted on.
LEMMA TrashUntouched ==
  ASSUME IInv, binned.book = None, TypesInv', CallInv', UNCHANGED <<trash, now, binned>>
  PROVE  IInv'
<1>1. UNCHANGED <<trash_b, trash_f, now, binned>>
  BY DEF trash
<1>2. GoneInv' /\ BookKept'
  BY <1>1 DEF GoneInv, BookKept
<1>3. (\A f \in Formats : FormatKept(f))'
  BY <1>1 DEF IInv, FormatKept
<1> QED BY <1>2, <1>3 DEF IInv

\* The same, for a step of a call, or its start, that may change the folders and the tables.
LEMMA FilesStep ==
  ASSUME IInv, binned.book = None,
         UNCHANGED <<trash, now, binned>>, contents' \in Contents,
         in_db' \in BOOLEAN, in_memory' \in BOOLEAN, title' \in Names, path' \in Names,
         fname' \in [Formats -> Names \cup {None}],
         folder' \in [Names -> (SUBSET File) \cup {None}],
         op' = [pc |-> op'.pc, fmt |-> op'.fmt, files |-> op'.files],
         CallInv'
  PROVE  IInv'
<1>1. UNCHANGED <<trash_b, trash_f>>
  BY DEF trash
<1>2. TypesInv'
  BY <1>1 DEF IInv, TypesInv
<1> QED BY <1>2, TrashUntouched

LEMMA FolderChanged ==
  ASSUME TypesInv, NEW n \in Names, NEW S \in (SUBSET File) \cup {None},
         folder' = [folder EXCEPT ![n] = S]
  PROVE  /\ folder' \in [Names -> (SUBSET File) \cup {None}]
         /\ folder'[n] = S
BY DEF TypesInv

\* Writes into the library do not change what is counted on: it has no link there.
LEMMA TrashWritten ==
  ASSUME IInv, AloneInv, op.pc # "unlink_format",
         NEW W \in SUBSET Write, \A w \in W : InLibrary(w.fmt, w.old),
         NEW l \in Linked(W), trash_f' = l.f, now' = now,
         NEW f \in Formats, binned'.fmt[f] \in {binned.fmt[f], None}
  PROVE  FormatKept(f)'
<1> SUFFICES ASSUME binned'.fmt[f] # None, now < binned'.fmt[f].at + ExpireAge
             PROVE  /\ trash_f' # None
                    /\ binned'.fmt[f].at <= trash_f'.at /\ binned'.fmt[f].at <= now'
                    /\ binned'.fmt[f].files # {}
                    /\ \A c \in binned'.fmt[f].files : [fmt |-> f, content |-> c] \in trash_f'.files
  BY DEF FormatKept
<1>1. TypesInv /\ binned'.fmt[f] = binned.fmt[f]
  BY DEF IInv
<1>2. /\ trash_f # None
      /\ binned.fmt[f].at <= trash_f.at /\ binned.fmt[f].at <= now
      /\ binned.fmt[f].files # {}
      /\ \A c \in binned.fmt[f].files : [fmt |-> f, content |-> c] \in trash_f.files
  BY <1>1 DEF IInv, FormatKept
<1>3. l.f # None /\ l.f.at = trash_f.at /\ TrashAfter(l.f.files, trash_f.files, W)
  BY <1>1, <1>2, LinkedFormats
<1>4. ASSUME NEW c \in binned.fmt[f].files PROVE [fmt |-> f, content |-> c] \in l.f.files
  <2> DEFINE x == [fmt |-> f, content |-> c]
  <2>1. ~InLibrary(f, c)
    BY <1>1 DEF AloneInv, FormatAlone
  <2>2. x \in trash_f.files /\ x.fmt = f /\ x.content = c
    BY <1>2
  <2> HIDE DEF x
  <2>3. ~Effective(W, x.fmt, x.content)
    BY <2>1, <2>2 DEF Effective
  <2>4. x \in l.f.files
    BY <1>3, <2>2, <2>3 DEF TrashAfter
  <2> QED BY <2>4 DEF x
<1> QED BY <1>1, <1>2, <1>3, <1>4

\* A step that may change any file, but not what is counted on.
LEMMA WritesStep ==
  ASSUME IInv, binned.book = None, binned'.book = None,
         UNCHANGED <<title, path, now>>, contents' \in Contents,
         in_db' \in BOOLEAN, in_memory' \in BOOLEAN,
         fname' \in [Formats -> Names \cup {None}],
         folder' \in [Names -> (SUBSET File) \cup {None}],
         trash_b' \in BookEntry \cup {None},
         trash_f' \in FormatsEntry \cup {None},
         op' = [pc |-> op'.pc, fmt |-> op'.fmt, files |-> op'.files],
         binned' = [book |-> binned'.book, fmt |-> binned'.fmt],
         binned'.fmt \in [Formats -> BinnedFormat \cup {None}],
         CallInv',
         (\A f \in Formats : FormatKept(f))'
  PROVE  IInv'
<1>1. TypesInv'
  BY DEF IInv, TypesInv
<1>2. GoneInv' /\ BookKept'
  BY DEF GoneInv, BookKept
<1> QED BY <1>1, <1>2 DEF IInv
-----------------------------------------------------------------------------
(* Changes of the title. *)

LEMMA StepSetTitle == ASSUME IInv, NEW n \in Names, SetTitle(n) PROVE IInv'
<1>1. binned.book = None
  BY NoBookBinned DEF SetTitle, Live
<1> DEFINE p == IF n # path THEN "clear" ELSE IF \E f \in Rows : fname[f] # n THEN "rename" ELSE "idle"
<1>2. Goto(p, None, {})
  BY DEF SetTitle
<1>3. /\ op'.pc = p
      /\ op' = [pc |-> op'.pc, fmt |-> op'.fmt, files |-> op'.files]
  BY <1>2, WentTo
<1>4. CallInv'
  BY <1>3 DEF CallInv
<1>5. UNCHANGED <<in_db, in_memory, path, fname, folder, trash, now, contents, binned>> /\ title' = n
  BY DEF SetTitle, Live, history
<1> QED BY <1>1, <1>3, <1>4, <1>5, FilesStep DEF IInv, TypesInv

\* A step of a call changes one folder and goes on or ends early.
LEMMA OneFolderStep ==
  ASSUME IInv, binned.book = None, NEW n \in Names, NEW S \in (SUBSET File) \cup {None},
         folder' = [folder EXCEPT ![n] = S],
         UNCHANGED <<in_db, title, path, fname, trash, now, binned, contents>>,
         \/ \E p \in {"paths", "copy", "unlink", "delete_row"} :
              GoesOn(p) /\ (p = "delete_row" => op.fmt \in Formats)
         \/ \E T : EndsEarly(T)
  PROVE  IInv'
<1> USE DEF IInv
<1>1. folder' \in [Names -> (SUBSET File) \cup {None}]
  BY FolderChanged
<1>2. CASE \E p \in {"paths", "copy", "unlink", "delete_row"} :
             GoesOn(p) /\ (p = "delete_row" => op.fmt \in Formats)
  <2>1. PICK p \in {"paths", "copy", "unlink", "delete_row"} :
               GoesOn(p) /\ (p = "delete_row" => op.fmt \in Formats)
    BY <1>2
  <2>2. op' = [op EXCEPT !.pc = p] /\ in_memory' = in_memory
    BY <2>1 DEF GoesOn
  <2>3. /\ op'.pc = p /\ op'.fmt = op.fmt
        /\ op' = [pc |-> op'.pc, fmt |-> op'.fmt, files |-> op'.files]
    BY <2>2, WentOn
  <2>4. CallInv'
    BY <2>1, <2>3 DEF CallInv
  <2> QED BY <1>1, <2>2, <2>3, <2>4, FilesStep DEF TypesInv
<1>3. CASE \E T : EndsEarly(T)
  <2>1. op' = Idle /\ in_memory' \in BOOLEAN
    BY <1>3, Ended
  <2>2. CallInv' /\ op' = [pc |-> op'.pc, fmt |-> op'.fmt, files |-> op'.files]
    BY <2>1, IdleCall, AtIdle
  <2> QED BY <1>1, <2>1, <2>2, FilesStep DEF TypesInv
<1> QED BY <1>2, <1>3

LEMMA StepRenameFormats == ASSUME IInv, RenameFormats PROVE IInv'
<1>1. binned.book = None
  BY NoBookBinned DEF RenameFormats
<1>2. UNCHANGED <<in_db, title, path, fname, trash, now, binned, contents>>
  BY DEF RenameFormats
<1>3. PICK P \in Picks(path) : \E S \in SUBSET P :
        /\ folder' = IF S = {} THEN folder
                      ELSE [folder EXCEPT ![path] = Overwrite(@ \ S, Named(S, title))]
        /\ (MayStay(P \ S) /\ GoesOn("paths")) \/ EndsEarly(Rows)
  BY DEF RenameFormats
<1>4. PICK S \in SUBSET P :
        /\ folder' = IF S = {} THEN folder
                      ELSE [folder EXCEPT ![path] = Overwrite(@ \ S, Named(S, title))]
        /\ (MayStay(P \ S) /\ GoesOn("paths")) \/ EndsEarly(Rows)
  BY <1>3
<1>5. TypesInv /\ path \in Names /\ title \in Names
  BY DEF IInv, TypesInv
<1>6. P \subseteq Files(path) /\ Files(path) \in SUBSET File
  BY <1>5, FilesType DEF Picks
<1>7. \/ \E p \in {"paths", "copy", "unlink", "delete_row"} :
             GoesOn(p) /\ (p = "delete_row" => op.fmt \in Formats)
      \/ \E T : EndsEarly(T)
  BY <1>4
<1>8. CASE S = {}
  <2>1. folder' = [folder EXCEPT ![path] = folder[path]]
    BY <1>4, <1>5, <1>8 DEF TypesInv
  <2>2. folder[path] \in (SUBSET File) \cup {None}
    BY <1>5 DEF TypesInv
  <2> QED BY <1>1, <1>2, <1>5, <1>7, <2>1, <2>2, OneFolderStep
<1>9. CASE S # {}
  <2>1. folder[path] = Files(path)
    BY <1>6, <1>9 DEF Files, FilesIn
  <2> DEFINE R == Overwrite(Files(path) \ S, Named(S, title))
  <2>2. R \in SUBSET File
    <3>1. Named(S, title) \in SUBSET File
      BY <1>5, <1>6, NamedType
    <3>2. Files(path) \ S \in SUBSET File
      BY <1>6
    <3> QED BY <3>1, <3>2, OverwriteType
  <2>3. folder' = [folder EXCEPT ![path] = R]
    BY <1>4, <1>9, <2>1
  <2> HIDE DEF R
  <2> QED BY <1>1, <1>2, <1>5, <1>7, <2>2, <2>3, OneFolderStep
<1> QED BY <1>8, <1>9

LEMMA StepClearTarget == ASSUME IInv, ClearTarget PROVE IInv'
<1>1. binned.book = None
  BY NoBookBinned DEF ClearTarget
<1>2. UNCHANGED <<in_db, title, path, fname, trash, now, binned, contents>>
  BY DEF ClearTarget
<1>3. TypesInv /\ title \in Names /\ Files(title) \in SUBSET File
  BY FilesType DEF IInv, TypesInv
<1>4. PICK S \in (SUBSET File) \cup {None} : folder' = [folder EXCEPT ![title] = S]
  <2>1. CASE folder' = [folder EXCEPT ![title] = None]
    BY <2>1
  <2>2. CASE \E S \in SUBSET Files(title) : folder' = [folder EXCEPT ![title] = IF @ = None THEN None ELSE S]
    BY <1>3, <2>2
  <2> QED BY <2>1, <2>2 DEF ClearTarget
<1>5. GoesOn("copy") \/ EndsEarly({})
  BY DEF ClearTarget
<1> QED BY <1>1, <1>2, <1>3, <1>4, <1>5, OneFolderStep

\* What is written over when two files get one name was in the old folder.
LEMMA CopyWrites ==
  ASSUME TypesInv, NEW P \in Picks(path), NEW S \in SUBSET Files(path),
         NEW R \in Resolved((S \ P) \cup Named(S \cap P, title))
  PROVE  LET T == (S \ P) \cup Named(S \cap P, title)
         IN  /\ T \in SUBSET File /\ R \in SUBSET T /\ R \in SUBSET File
             /\ \A x \in T : Has(Files(path), x.fmt, x.content)
             /\ Overwrites(T, R) \in SUBSET Write
             /\ \A w \in Overwrites(T, R) : /\ Has(Files(path), w.fmt, w.old)
                                            /\ Has(Files(path), w.fmt, w.new)
<1> DEFINE T == (S \ P) \cup Named(S \cap P, title)
<1>1. title \in Names /\ path \in Names /\ Files(path) \in SUBSET File
  BY FilesType DEF TypesInv
<1>2. T \in SUBSET File
  BY <1>1, NamedType
<1>3. ASSUME NEW x \in T PROVE Has(Files(path), x.fmt, x.content)
  <2>1. CASE x \in S
    BY <2>1 DEF Has
  <2>2. CASE x \in Named(S \cap P, title)
    <3>1. PICK y \in S \cap P : x = [y EXCEPT !.name = title]
      BY <2>2 DEF Named
    <3>2. x.fmt = y.fmt /\ x.content = y.content
      BY <1>1, <3>1 DEF File
    <3> QED BY <3>2 DEF Has
  <2> QED BY <2>1, <2>2
<1>4. R \in SUBSET T
  BY DEF Resolved
<1> HIDE DEF T
<1>5. Overwrites(T, R) \in SUBSET Write
  BY <1>2, <1>4, OverwritesType
<1>6. ASSUME NEW w \in Overwrites(T, R)
      PROVE  Has(Files(path), w.fmt, w.old) /\ Has(Files(path), w.fmt, w.new)
  <2>1. PICK x \in T, y \in R : SameFile(x, y) /\ w.fmt = x.fmt /\ w.old = x.content /\ w.new = y.content
    BY <1>2, <1>4, OverwritesType
  <2> QED BY <1>3, <1>4, <2>1 DEF SameFile
<1> QED BY <1>2, <1>3, <1>4, <1>5, <1>6 DEF T

LEMMA StepCopyFiles == ASSUME IInv, AloneInv, CopyFiles PROVE IInv'
<1>1. binned.book = None
  BY NoBookBinned DEF CopyFiles
<1>2. UNCHANGED <<in_db, title, path, fname, now, binned, contents>> /\ op.pc = "copy"
  BY DEF CopyFiles
<1>3. TypesInv /\ title \in Names /\ path \in Names
  BY DEF IInv, TypesInv
<1> DEFINE T(S, P) == (S \ P) \cup Named(S \cap P, title)
<1>4. PICK P \in Picks(path), S \in SUBSET Files(path) :
        \E R \in Resolved(T(S, P)) : \E l \in Linked(Overwrites(T(S, P), R)), Q \in Written(R, Overwrites(T(S, P), R)) :
          /\ folder' = [l.folder EXCEPT ![title] = Q]
          /\ trash_b' = l.b /\ trash_f' = l.f
          /\ GoesOn(AfterCopy) \/ EndsEarly({})
  BY DEF CopyFiles
<1>5. PICK R \in Resolved(T(S, P)) : \E l \in Linked(Overwrites(T(S, P), R)), Q \in Written(R, Overwrites(T(S, P), R)) :
          /\ folder' = [l.folder EXCEPT ![title] = Q]
          /\ trash_b' = l.b /\ trash_f' = l.f
          /\ GoesOn(AfterCopy) \/ EndsEarly({})
  BY <1>4
<1> DEFINE W == Overwrites(T(S, P), R)
<1>6. W \in SUBSET Write /\ R \in SUBSET File /\ \A w \in W : Has(Files(path), w.fmt, w.old)
  BY <1>3, CopyWrites
<1>7. PICK l \in Linked(W), Q \in Written(R, W) :
          /\ folder' = [l.folder EXCEPT ![title] = Q]
          /\ trash_b' = l.b /\ trash_f' = l.f
          /\ GoesOn(AfterCopy) \/ EndsEarly({})
  BY <1>5
<1> HIDE DEF W
<1>8. \A w \in W : InLibrary(w.fmt, w.old)
  BY <1>3, <1>6 DEF InLibrary
<1>9. folder' \in [Names -> (SUBSET File) \cup {None}]
  <2>1. Q \in SUBSET File
    BY <1>6, WrittenFiles
  <2>2. l.folder \in [Names -> (SUBSET File) \cup {None}]
    BY <1>3, <1>6, LinkedFolders
  <2> QED BY <1>7, <2>1, <2>2
<1>10. trash_b' \in BookEntry \cup {None} /\ trash_f' \in FormatsEntry \cup {None}
  BY <1>3, <1>6, <1>7, LinkedBook, LinkedFormats
<1>11. ASSUME NEW f \in Formats PROVE FormatKept(f)'
  BY <1>2, <1>6, <1>7, <1>8, TrashWritten
<1>12. /\ in_memory' \in BOOLEAN
       /\ op' = [pc |-> op'.pc, fmt |-> op'.fmt, files |-> op'.files]
       /\ CallInv'
  <2>1. CASE GoesOn(AfterCopy)
    <3>1. op' = [op EXCEPT !.pc = AfterCopy] /\ in_memory' = in_memory
      BY <2>1 DEF GoesOn
    <3>2. /\ op'.pc \in {"paths", "unlink"}
          /\ op' = [pc |-> op'.pc, fmt |-> op'.fmt, files |-> op'.files]
      BY <1>3, <3>1, WentOn DEF AfterCopy
    <3>3. CallInv'
      BY <3>2 DEF CallInv
    <3> QED BY <1>3, <3>1, <3>2, <3>3 DEF TypesInv
  <2>2. CASE EndsEarly({})
    BY <1>3, <2>2, Ended, AtIdle, IdleCall
  <2> QED BY <1>7, <2>1, <2>2
<1>13. /\ binned' = [book |-> binned'.book, fmt |-> binned'.fmt] /\ binned'.book = None
       /\ binned'.fmt \in [Formats -> BinnedFormat \cup {None}]
       /\ in_db' \in BOOLEAN /\ fname' \in [Formats -> Names \cup {None}] /\ contents' \in Contents
  BY <1>1, <1>2, <1>3 DEF TypesInv
<1> QED BY <1>1, <1>2, <1>9, <1>10, <1>11, <1>12, <1>13, WritesStep

LEMMA StepUnlinkFiles == ASSUME IInv, UnlinkFiles PROVE IInv'
<1>1. binned.book = None
  BY NoBookBinned DEF UnlinkFiles
<1>2. UNCHANGED <<in_db, title, path, fname, trash, now, binned, contents>>
  BY DEF UnlinkFiles
<1>3. TypesInv /\ path \in Names /\ Files(path) \in SUBSET File
  BY FilesType DEF IInv, TypesInv
<1>4. PICK S \in (SUBSET File) \cup {None} : folder' = [folder EXCEPT ![path] = S]
  BY <1>3 DEF UnlinkFiles
<1>5. GoesOn("paths") \/ EndsEarly(Rows)
  BY DEF UnlinkFiles
<1> QED BY <1>1, <1>2, <1>3, <1>4, <1>5, OneFolderStep

\* A step that changes only the rows of formats and the path, and ends the call.
LEMMA RowsStep ==
  ASSUME IInv, binned.book = None, UNCHANGED <<in_db, title, folder, trash, now, binned, contents>>,
         fname' \in [Formats -> Names \cup {None}], path' \in Names,
         \/ Returns
         \/ \E T : EndsEarly(T)
  PROVE  IInv'
<1>1. op' = Idle /\ in_memory' \in BOOLEAN
  BY Ended DEF Returns, IInv, TypesInv
<1>2. CallInv' /\ op' = [pc |-> op'.pc, fmt |-> op'.fmt, files |-> op'.files]
  BY <1>1, IdleCall, AtIdle
<1> QED BY <1>1, <1>2, FilesStep DEF IInv, TypesInv

LEMMA StepUpdatePathsInDB == ASSUME IInv, UpdatePathsInDB PROVE IInv'
<1>1. binned.book = None
  BY NoBookBinned DEF UpdatePathsInDB
<1>2. UNCHANGED <<in_db, title, folder, trash, now, binned, contents>>
  BY DEF UpdatePathsInDB
<1>3. fname' \in [Formats -> Names \cup {None}] /\ path' \in Names
  BY DEF UpdatePathsInDB, IInv, TypesInv
<1>4. Returns \/ EndsEarly(Rows)
  BY DEF UpdatePathsInDB
<1> QED BY <1>1, <1>2, <1>3, <1>4, RowsStep
-----------------------------------------------------------------------------
(* The trash. *)

\* What is counted on is there, and a visit of the trash does not take it away.
LEMMA CountedOn ==
  ASSUME IInv
  PROVE  /\ Kept(trash_b) \in {trash_b, None} /\ Kept(trash_f) \in {trash_f, None}
         /\ (binned.book # None /\ now < binned.book.at + ExpireAge) =>
              trash_b # None /\ Kept(trash_b) = trash_b
         /\ \A f \in Formats : (binned.fmt[f] # None /\ now < binned.fmt[f].at + ExpireAge) =>
              trash_f # None /\ Kept(trash_f) = trash_f
<1>1. now \in 0..MaxTime
  BY DEF IInv, TypesInv
<1>2. trash_b # None => trash_b.at \in Int
  BY DEF IInv, TypesInv, BookEntry
<1>3. trash_f # None => trash_f.at \in Int
  BY DEF IInv, TypesInv, FormatsEntry
<1>4. Kept(trash_b) \in {trash_b, None} /\ Kept(trash_f) \in {trash_f, None}
  BY DEF Kept
<1>5. ASSUME binned.book # None, now < binned.book.at + ExpireAge
      PROVE  trash_b # None /\ Kept(trash_b) = trash_b
  <2>1. trash_b # None /\ binned.book.at <= trash_b.at
    BY <1>5 DEF IInv, BookKept
  <2>2. binned.book.at \in Int
    BY <1>5 DEF IInv, TypesInv, BinnedBook
  <2> QED BY <1>1, <1>2, <1>5, <2>1, <2>2, KeptStays
<1>6. ASSUME NEW f \in Formats, binned.fmt[f] # None, now < binned.fmt[f].at + ExpireAge
      PROVE  trash_f # None /\ Kept(trash_f) = trash_f
  <2>1. trash_f # None /\ binned.fmt[f].at <= trash_f.at
    BY <1>6 DEF IInv, FormatKept
  <2>2. binned.fmt[f].at \in Int
    <3>1. binned.fmt[f] \in BinnedFormat
      BY <1>6 DEF IInv, TypesInv
    <3> QED BY <3>1 DEF BinnedFormat
  <2> QED BY <1>1, <1>3, <1>6, <2>1, <2>2, KeptStays
<1> QED BY <1>4, <1>5, <1>6

\* An entry that is counted on does not change: it is kept.
LEMMA BookStays ==
  ASSUME IInv, trash_b' \in {trash_b, Kept(trash_b)}, now' = now, binned'.book \in {binned.book, None}
  PROVE  /\ trash_b' \in BookEntry \cup {None}
         /\ BookKept'
<1>1. trash_b' \in {trash_b, None}
  BY CountedOn
<1>2. BookKept'
  BY CountedOn DEF IInv, BookKept
<1> QED BY <1>1, <1>2 DEF IInv, TypesInv

LEMMA FormatStays ==
  ASSUME IInv, NEW f \in Formats, trash_f' \in {trash_f, Kept(trash_f)}, now' = now,
         binned'.fmt[f] \in {binned.fmt[f], None}
  PROVE  FormatKept(f)'
<1>1. FormatKept(f)
  BY DEF IInv
<1>2. CASE binned'.fmt[f] = None
  BY <1>2 DEF FormatKept
<1>3. CASE binned'.fmt[f] = binned.fmt[f]
  <2>1. ASSUME binned.fmt[f] # None, now < binned.fmt[f].at + ExpireAge PROVE trash_f' = trash_f
    BY <2>1, CountedOn
  <2> QED BY <1>1, <1>3, <2>1 DEF FormatKept
<1> QED BY <1>2, <1>3

LEMMA BinnedChanged ==
  ASSUME TypesInv, NEW f \in Formats, NEW b \in BinnedFormat \cup {None},
         binned' = [binned EXCEPT !.fmt[f] = b]
  PROVE  /\ binned' = [book |-> binned'.book, fmt |-> binned'.fmt]
         /\ binned'.book = binned.book
         /\ binned'.fmt \in [Formats -> BinnedFormat \cup {None}]
         /\ binned'.fmt[f] = b
         /\ \A g \in Formats \ {f} : binned'.fmt[g] = binned.fmt[g]
<1>1. binned = [book |-> binned.book, fmt |-> binned.fmt]
  BY DEF TypesInv
<1>2. binned' = [book |-> binned.book, fmt |-> [binned.fmt EXCEPT ![f] = b]]
  BY <1>1
<1>3. binned'.book = binned.book /\ binned'.fmt = [binned.fmt EXCEPT ![f] = b]
  BY <1>2
<1>4. binned.fmt \in [Formats -> BinnedFormat \cup {None}]
  BY DEF TypesInv
<1> QED BY <1>2, <1>3, <1>4

LEMMA StepExpireOldTrash == ASSUME IInv, ExpireOldTrash PROVE IInv'
<1>1. /\ trash_b' = Kept(trash_b) /\ trash_f' = Kept(trash_f)
      /\ UNCHANGED <<in_db, in_memory, title, path, fname, folder, now, op, contents, binned>>
      /\ op = Idle
  BY DEF ExpireOldTrash, tables, history
<1>2. trash_b' \in BookEntry \cup {None} /\ BookKept'
  BY <1>1, BookStays
<1>3. (\A f \in Formats : FormatKept(f))'
  BY <1>1, FormatStays
<1>4. trash_f' \in {trash_f, None}
  BY <1>1, CountedOn
<1>5. TypesInv'
  BY <1>1, <1>2, <1>4 DEF IInv, TypesInv
<1>6. CallInv'
  BY <1>1, IdleCall
<1>7. GoneInv'
  BY <1>1 DEF IInv, GoneInv
<1> QED BY <1>2, <1>3, <1>5, <1>6, <1>7 DEF IInv

LEMMA StepDeleteTrash == ASSUME IInv, NEW b \in BOOLEAN, NEW f \in BOOLEAN, DeleteTrash(b, f) PROVE IInv'
<1>1. /\ trash_b' = (IF b THEN None ELSE Kept(trash_b))
      /\ trash_f' = (IF f THEN None ELSE Kept(trash_f))
      /\ binned' = [book |-> IF b THEN None ELSE binned.book, fmt |-> IF f THEN NoFormats ELSE binned.fmt]
      /\ UNCHANGED <<in_db, in_memory, title, path, fname, folder, now, op, contents>>
      /\ op = Idle
  BY DEF DeleteTrash, tables
<1>2. /\ binned'.book = (IF b THEN None ELSE binned.book)
      /\ binned'.fmt = (IF f THEN NoFormats ELSE binned.fmt)
      /\ binned' = [book |-> binned'.book, fmt |-> binned'.fmt]
  BY <1>1
<1>3. trash_b' \in BookEntry \cup {None} /\ BookKept'
  <2>1. CASE b
    BY <1>1, <1>2, <2>1 DEF BookKept
  <2>2. CASE ~b
    BY <1>1, <1>2, <2>2, BookStays
  <2> QED BY <2>1, <2>2
<1>4. ASSUME NEW g \in Formats PROVE FormatKept(g)'
  <2>1. CASE f
    BY <1>1, <1>2, <2>1 DEF FormatKept, NoFormats
  <2>2. CASE ~f
    BY <1>1, <1>2, <2>2, FormatStays
  <2> QED BY <2>1, <2>2
<1>5. trash_f' \in {trash_f, None}
  BY <1>1, CountedOn
<1>6. TypesInv'
  <2>1. binned'.fmt \in [Formats -> BinnedFormat \cup {None}]
    BY <1>2 DEF IInv, TypesInv, NoFormats
  <2>2. binned'.book \in BinnedBook \cup {None}
    BY <1>2 DEF IInv, TypesInv
  <2> QED BY <1>1, <1>2, <1>3, <1>5, <2>1, <2>2 DEF IInv, TypesInv
<1>7. CallInv'
  BY <1>1, IdleCall
<1>8. GoneInv'
  BY <1>1, <1>2 DEF IInv, GoneInv
<1> QED BY <1>3, <1>4, <1>6, <1>7, <1>8 DEF IInv
-----------------------------------------------------------------------------
(* Formats. *)

LEMMA NewFile ==
  ASSUME NEW f \in Formats, NEW c \in Contents, NEW n \in Names
  PROVE  {[fmt |-> f, name |-> n, content |-> c]} \in SUBSET File
BY DEF File

LEMMA OldFileMoved ==
  ASSUME IInv, NEW f, MoveOldFile(f)
  PROVE  /\ folder' \in [Names -> (SUBSET File) \cup {None}]
         /\ folder'[path] \in SUBSET File
         /\ \A n \in Names : n # path => folder'[n] = folder[n]
         /\ \E S \in SUBSET Files(path) :
              /\ \A x \in S : x.fmt = f /\ x.name = fname[f]
              /\ MayStay({x \in Files(path) : x.fmt = f /\ x.name = fname[f]} \ S)
              /\ folder'[path] = Overwrite(Files(path) \ S, Named(S, title))
<1>1. TypesInv /\ title \in Names /\ path \in Names /\ Files(path) \in SUBSET File
  BY FilesType DEF IInv, TypesInv
<1> DEFINE old == {x \in Files(path) : x.fmt = f /\ x.name = fname[f]}
<1>2. PICK S \in SUBSET old :
        /\ MayStay(old \ S)
        /\ folder' = [folder EXCEPT ![path] = Overwrite(Files(path) \ S, Named(S, title))]
  BY DEF MoveOldFile
<1> DEFINE R == Overwrite(Files(path) \ S, Named(S, title))
<1>3. R \in SUBSET File
  <2>1. S \in SUBSET File /\ Files(path) \ S \in SUBSET File
    BY <1>1
  <2>2. Named(S, title) \in SUBSET File
    BY <1>1, <2>1, NamedType
  <2> QED BY <2>1, <2>2, OverwriteType
<1>4. folder' = [folder EXCEPT ![path] = R]
  BY <1>2
<1> HIDE DEF R
<1>5. /\ folder' \in [Names -> (SUBSET File) \cup {None}]
      /\ folder'[path] = R
      /\ \A n \in Names : n # path => folder'[n] = folder[n]
  BY <1>1, <1>3, <1>4 DEF TypesInv
<1> QED BY <1>2, <1>3, <1>5 DEF R

LEMMA StepAddFormat == ASSUME IInv, NEW f \in Formats, AddFormat(f) PROVE IInv'
<1>1. binned.book = None
  BY NoBookBinned DEF AddFormat, Live
<1>2. /\ UNCHANGED <<in_db, in_memory, title, path, fname, trash, now, contents, binned>>
      /\ contents < MaxContents
  BY DEF AddFormat, tables, history
<1>3. folder' \in [Names -> (SUBSET File) \cup {None}] /\ folder'[path] \in SUBSET File
  BY OldFileMoved DEF AddFormat
<1>4. /\ op'.pc = "write" /\ op'.fmt = f
      /\ op' = [pc |-> op'.pc, fmt |-> op'.fmt, files |-> op'.files]
  BY WentTo DEF AddFormat
<1>5. CallInv'
  BY <1>2, <1>3, <1>4 DEF CallInv
<1> QED BY <1>1, <1>2, <1>3, <1>4, <1>5, FilesStep DEF IInv, TypesInv

LEMMA StepWriteFormat == ASSUME IInv, AloneInv, WriteFormat PROVE IInv'
<1>1. binned.book = None
  BY NoBookBinned DEF WriteFormat
<1>2. /\ UNCHANGED <<in_db, title, path, fname, now, binned>>
      /\ op.pc = "write" /\ contents' = contents + 1
  BY DEF WriteFormat
<1>3. /\ TypesInv /\ title \in Names /\ path \in Names /\ Files(path) \in SUBSET File
      /\ op.fmt \in Formats /\ contents < MaxContents
  BY <1>2, FilesType DEF IInv, TypesInv, CallInv
<1>4. contents' \in Contents /\ Damaged \in Contents
  BY <1>2, <1>3, BoundsAssumption DEF TypesInv, Contents, Damaged
<1>5. /\ binned' = [book |-> binned'.book, fmt |-> binned'.fmt] /\ binned'.book = None
      /\ binned'.fmt \in [Formats -> BinnedFormat \cup {None}]
      /\ in_db' \in BOOLEAN /\ fname' \in [Formats -> Names \cup {None}]
  BY <1>1, <1>2, <1>3 DEF TypesInv
<1>6. CASE EndsEarly({op.fmt}) /\ UNCHANGED <<folder, trash>>
  <2>1. op' = Idle /\ in_memory' \in BOOLEAN
    BY <1>3, <1>6, Ended
  <2>2. CallInv' /\ op' = [pc |-> op'.pc, fmt |-> op'.fmt, files |-> op'.files]
    BY <2>1, AtIdle, IdleCall
  <2> QED BY <1>1, <1>2, <1>3, <1>4, <1>5, <1>6, <2>1, <2>2, FilesStep DEF TypesInv
<1> DEFINE new(c) == [fmt |-> op.fmt, name |-> title, content |-> c]
           W(c) == Overwrites(Files(path), {new(c)})
<1>7. ASSUME NEW c \in Contents, NEW l \in Linked(W(c)),
             folder' = [l.folder EXCEPT ![path] = Overwrite(@, {new(c)})],
             trash_b' = l.b, trash_f' = l.f,
             GoesOn("row") \/ EndsEarly({op.fmt})
      PROVE  IInv'
  <2>1. {new(c)} \in SUBSET File
    BY <1>3, NewFile
  <2>2. W(c) \in SUBSET Write /\ \A w \in W(c) : \E x \in Files(path) : w.fmt = x.fmt /\ w.old = x.content
    BY <1>3, <2>1, OverwritesType
  <2> HIDE DEF W
  <2>3. \A w \in W(c) : InLibrary(w.fmt, w.old)
    BY <1>3, <2>2 DEF InLibrary, Has
  <2>4. folder[path] # None
    BY <1>2, FolderAssumption DEF IInv, CallInv
  <2>5. l.folder \in [Names -> (SUBSET File) \cup {None}] /\ l.folder[path] \in SUBSET File
    BY <1>3, <2>2, <2>4, LinkedFolders
  <2>6. Overwrite(l.folder[path], {new(c)}) \in SUBSET File
    BY <2>1, <2>5, OverwriteType
  <2> HIDE DEF new
  <2>7. folder' \in [Names -> (SUBSET File) \cup {None}]
    BY <1>3, <1>7, <2>5, <2>6
  <2>8. trash_b' \in BookEntry \cup {None} /\ trash_f' \in FormatsEntry \cup {None}
    BY <1>3, <1>7, <2>2, LinkedBook, LinkedFormats
  <2>9. ASSUME NEW f \in Formats PROVE FormatKept(f)'
    BY <1>2, <1>7, <2>2, <2>3, TrashWritten
  <2>10. /\ in_memory' \in BOOLEAN
         /\ op' = [pc |-> op'.pc, fmt |-> op'.fmt, files |-> op'.files]
         /\ CallInv'
    <3>1. CASE GoesOn("row")
      <4>1. op' = [op EXCEPT !.pc = "row"] /\ in_memory' = in_memory
        BY <3>1 DEF GoesOn
      <4>2. /\ op'.pc = "row" /\ op'.fmt = op.fmt
            /\ op' = [pc |-> op'.pc, fmt |-> op'.fmt, files |-> op'.files]
        BY <1>3, <4>1, WentOn
      <4>3. CallInv'
        BY <1>3, <4>2 DEF CallInv
      <4> QED BY <1>3, <4>1, <4>2, <4>3 DEF TypesInv
    <3>2. CASE EndsEarly({op.fmt})
      BY <1>3, <3>2, Ended, AtIdle, IdleCall
    <3> QED BY <1>7, <3>1, <3>2
  <2> QED BY <1>1, <1>2, <1>4, <1>5, <2>7, <2>8, <2>9, <2>10, WritesStep
<1> HIDE DEF W
<1>8. CASE \E c \in {contents', Damaged} : \E l \in Linked(W(c)) :
             /\ folder' = [l.folder EXCEPT ![path] = Overwrite(@, {new(c)})]
             /\ trash_b' = l.b /\ trash_f' = l.f
             /\ GoesOn("row") \/ EndsEarly({op.fmt})
  BY <1>4, <1>7, <1>8
<1> QED BY <1>6, <1>8 DEF WriteFormat, W

\* A step that may change what removed formats the trash has.
LEMMA FormatsStep ==
  ASSUME IInv, binned.book = None, binned'.book = None,
         trash_b' \in {trash_b, Kept(trash_b)},
         UNCHANGED <<title, path, now, contents>>,
         in_db' \in BOOLEAN, in_memory' \in BOOLEAN,
         fname' \in [Formats -> Names \cup {None}],
         folder' \in [Names -> (SUBSET File) \cup {None}],
         trash_f' \in FormatsEntry \cup {None},
         op' = [pc |-> op'.pc, fmt |-> op'.fmt, files |-> op'.files],
         binned' = [book |-> binned'.book, fmt |-> binned'.fmt],
         binned'.fmt \in [Formats -> BinnedFormat \cup {None}],
         CallInv',
         (\A f \in Formats : FormatKept(f))'
  PROVE  IInv'
<1>1. trash_b' \in BookEntry \cup {None}
  BY BookStays
<1>2. contents' \in Contents
  BY DEF IInv, TypesInv
<1> QED BY <1>1, <1>2, WritesStep

LEMMA StepUpdateRow == ASSUME IInv, UpdateRow PROVE IInv'
<1>1. binned.book = None
  BY NoBookBinned DEF UpdateRow
<1>2. /\ UNCHANGED <<in_db, title, path, folder, trash_b, now, contents, binned>>
      /\ op.pc = "row"
  BY DEF UpdateRow
<1>3. TypesInv /\ op.fmt \in Formats
  BY <1>2 DEF IInv, CallInv
<1>4. op' = Idle /\ in_memory' \in BOOLEAN
  BY <1>3, Ended DEF UpdateRow, Returns, TypesInv
<1>5. fname' \in [Formats -> Names \cup {None}]
  BY <1>3 DEF UpdateRow, TypesInv
<1>6. \/ trash_f' = trash_f
      \/ trash_f # None /\ trash_f.files = {} /\ trash_f' = None
  BY DEF UpdateRow
<1>7. ASSUME NEW f \in Formats PROVE FormatKept(f)'
  <2>1. CASE trash_f' = trash_f
    BY <1>2, <2>1, FormatStays
  <2>2. CASE trash_f # None /\ trash_f.files = {} /\ trash_f' = None
    <3>1. FormatKept(f)
      BY DEF IInv
    <3>2. ~(binned.fmt[f] # None /\ now < binned.fmt[f].at + ExpireAge)
      BY <2>2, <3>1 DEF FormatKept
    <3> QED BY <1>2, <3>2 DEF FormatKept
  <2> QED BY <1>6, <2>1, <2>2
<1>8. CallInv' /\ op' = [pc |-> op'.pc, fmt |-> op'.fmt, files |-> op'.files]
  BY <1>4, AtIdle, IdleCall
<1> QED BY <1>1, <1>2, <1>3, <1>4, <1>5, <1>6, <1>7, <1>8, FormatsStep DEF TypesInv

LEMMA StepRestoreFormat == ASSUME IInv, NEW f \in Formats, RestoreFormat(f) PROVE IInv'
<1>1. binned.book = None
  BY NoBookBinned DEF RestoreFormat, Live
<1>2. /\ UNCHANGED <<in_db, in_memory, title, path, fname, trash, trash_f, now, contents, binned>>
      /\ trash_f # None
  BY DEF RestoreFormat, tables, history, trash
<1>3. folder' \in [Names -> (SUBSET File) \cup {None}] /\ folder'[path] \in SUBSET File
  BY OldFileMoved DEF RestoreFormat
<1>4. /\ op'.pc = "replace" /\ op'.fmt = f
      /\ op' = [pc |-> op'.pc, fmt |-> op'.fmt, files |-> op'.files]
  BY WentTo DEF RestoreFormat
<1>5. CallInv'
  BY <1>2, <1>3, <1>4 DEF CallInv
<1> QED BY <1>1, <1>2, <1>3, <1>4, <1>5, FilesStep DEF IInv, TypesInv

LEMMA StepReplaceFormat == ASSUME IInv, ReplaceFormat PROVE IInv'
<1>1. binned.book = None
  BY NoBookBinned DEF ReplaceFormat
<1>2. /\ UNCHANGED <<in_db, title, path, fname, trash_b, now, contents>> /\ op.pc = "replace"
  BY DEF ReplaceFormat
<1>3. /\ TypesInv /\ title \in Names /\ path \in Names
      /\ op.fmt \in Formats /\ folder[path] \in SUBSET File /\ trash_f # None
  BY <1>2 DEF IInv, TypesInv, CallInv
<1>4. trash_f \in FormatsEntry
  BY <1>3 DEF TypesInv
<1>5. CASE EndsEarly({op.fmt}) /\ UNCHANGED <<folder, trash_f, binned>>
  <2>1. op' = Idle /\ in_memory' \in BOOLEAN
    BY <1>3, <1>5, Ended
  <2>2. CallInv' /\ op' = [pc |-> op'.pc, fmt |-> op'.fmt, files |-> op'.files]
    BY <2>1, AtIdle, IdleCall
  <2> QED BY <1>1, <1>2, <1>3, <1>5, <2>1, <2>2, FilesStep DEF TypesInv, trash
<1> DEFINE new(x) == [fmt |-> op.fmt, name |-> title, content |-> x.content]
<1>6. ASSUME NEW x \in trash_f.files, x.fmt = op.fmt,
             \/ /\ folder' = [folder EXCEPT ![path] = Overwrite(@, {new(x)})]
                /\ trash_f' = [files |-> trash_f.files \ {x}, at |-> now]
             \/ UNCHANGED <<folder, trash_f>>,
             binned' = [binned EXCEPT !.fmt[op.fmt] = None],
             GoesOn("row")
      PROVE  IInv'
  <2>1. x.content \in Contents
    BY <1>4 DEF FormatsEntry, TrashedFile
  <2>2. Overwrite(folder[path], {new(x)}) \in SUBSET File
    BY <1>3, <2>1, NewFile, OverwriteType
  <2>3. folder' \in [Names -> (SUBSET File) \cup {None}]
    <3>1. CASE folder' = folder
      BY <1>3, <3>1 DEF TypesInv
    <3>2. CASE folder' = [folder EXCEPT ![path] = Overwrite(@, {new(x)})]
      BY <1>3, <2>2, <3>2 DEF TypesInv
    <3> QED BY <1>6, <3>1, <3>2
  <2>4. op' = [op EXCEPT !.pc = "row"] /\ in_memory' = in_memory
    BY <1>6 DEF GoesOn
  <2>5. /\ op'.pc = "row" /\ op'.fmt = op.fmt
        /\ op' = [pc |-> op'.pc, fmt |-> op'.fmt, files |-> op'.files]
    BY <1>3, <2>4, WentOn
  <2>6. CallInv'
    BY <1>3, <2>5 DEF CallInv
  <2>7. /\ binned' = [book |-> binned'.book, fmt |-> binned'.fmt]
        /\ binned'.book = binned.book
        /\ binned'.fmt \in [Formats -> BinnedFormat \cup {None}]
        /\ binned'.fmt[op.fmt] = None
        /\ \A g \in Formats \ {op.fmt} : binned'.fmt[g] = binned.fmt[g]
    BY <1>3, <1>6, BinnedChanged
  <2>8. /\ trash_f' \in FormatsEntry
        /\ trash_f' = trash_f \/ (trash_f'.at = now /\ trash_f'.files = trash_f.files \ {x})
    BY <1>3, <1>4, <1>6 DEF FormatsEntry, TypesInv
  <2>9. ASSUME NEW g \in Formats PROVE FormatKept(g)'
    <3>1. CASE g = op.fmt
      BY <2>7, <3>1 DEF FormatKept
    <3>2. CASE g # op.fmt
      <4>1. FormatKept(g) /\ binned'.fmt[g] = binned.fmt[g] /\ now' = now
        BY <1>2, <2>7, <3>2 DEF IInv
      <4> SUFFICES ASSUME binned.fmt[g] # None, now < binned.fmt[g].at + ExpireAge
                   PROVE  /\ trash_f' # None
                          /\ binned.fmt[g].at <= trash_f'.at
                          /\ binned.fmt[g].files # {}
                          /\ \A c \in binned.fmt[g].files : [fmt |-> g, content |-> c] \in trash_f'.files
        BY <4>1 DEF FormatKept
      <4>2. trash_f' # None
        BY <2>8, EntriesAssumption
      <4>3. binned.fmt[g].at <= trash_f'.at
        BY <2>8, <4>1 DEF FormatKept
      <4>4. \A c \in binned.fmt[g].files : [fmt |-> g, content |-> c] \in trash_f'.files
        BY <1>6, <2>8, <3>2, <4>1 DEF FormatKept
      <4> QED BY <4>1, <4>2, <4>3, <4>4 DEF FormatKept
    <3> QED BY <3>1, <3>2
  <2> QED BY <1>1, <1>2, <1>3, <2>3, <2>4, <2>5, <2>6, <2>7, <2>8, <2>9, FormatsStep DEF TypesInv
<1> QED BY <1>5, <1>6 DEF ReplaceFormat

\* The entry a removed format goes to.
LEMMA EntryType ==
  ASSUME NEW S \in SUBSET TrashedFile, NEW t \in 0..MaxTime
  PROVE  /\ [files |-> S, at |-> t] \in FormatsEntry
         /\ [files |-> S, at |-> t] # None
BY EntriesAssumption DEF FormatsEntry

LEMMA StepRemoveFormat == ASSUME IInv, NEW f \in Formats, RemoveFormat(f) PROVE IInv'
<1>1. binned.book = None
  BY NoBookBinned DEF RemoveFormat, Live
<1>2. /\ UNCHANGED <<in_db, in_memory, title, path, fname, now, contents>>
      /\ fname[f] # None
      /\ binned' = [binned EXCEPT !.fmt[f] = None]
  BY DEF RemoveFormat, tables
<1>3. TypesInv /\ title \in Names /\ path \in Names /\ Files(path) \in SUBSET File
  BY FilesType DEF IInv, TypesInv
<1>4. PICK t \in TrashDirs :
        /\ trash_b' = t.b
        /\ \/ /\ trash_f' = t.f
              /\ Goto("delete_row", f, {})
              /\ UNCHANGED folder
           \/ \E x \in FormatFiles(path, f) :
                /\ trash_f' = IF t.f = None THEN [files |-> {}, at |-> now] ELSE t.f
                /\ folder' = [folder EXCEPT ![path] = Overwrite(@ \ {x}, Named({x}, fname[f]))]
                /\ Goto("to_trash", f, {x.content})
  BY DEF RemoveFormat
<1>5. trash_b' \in {trash_b, Kept(trash_b)} /\ t.f \in {trash_f, Kept(trash_f)}
  BY <1>4 DEF TrashDirs
<1>6. t.f \in FormatsEntry \cup {None}
  BY <1>3, <1>5, CountedOn DEF TypesInv
<1>7. /\ binned' = [book |-> binned'.book, fmt |-> binned'.fmt]
      /\ binned'.book = binned.book
      /\ binned'.fmt \in [Formats -> BinnedFormat \cup {None}]
      /\ binned'.fmt[f] = None
      /\ \A g \in Formats \ {f} : binned'.fmt[g] = binned.fmt[g]
  BY <1>2, <1>3, BinnedChanged
<1>8. trash_f' = t.f \/ (t.f = None /\ trash_f' # None /\ trash_f' \in FormatsEntry)
  <2>1. [files |-> {}, at |-> now] \in FormatsEntry /\ [files |-> {}, at |-> now] # None
    BY <1>3, EntryType DEF TypesInv
  <2> QED BY <1>4, <2>1
<1>9. ASSUME NEW g \in Formats PROVE FormatKept(g)'
  <2>1. CASE trash_f' = t.f
    <3>1. binned'.fmt[g] \in {binned.fmt[g], None}
      BY <1>7
    <3> QED BY <1>2, <1>5, <2>1, <3>1, FormatStays
  <2>2. CASE t.f = None
    <3>1. ~(binned.fmt[g] # None /\ now < binned.fmt[g].at + ExpireAge)
      BY <1>5, <2>2, CountedOn
    <3>2. binned'.fmt[g] \in {binned.fmt[g], None}
      BY <1>7
    <3> QED BY <1>2, <3>1, <3>2 DEF FormatKept
  <2> QED BY <1>8, <2>1, <2>2
<1>10. /\ folder' \in [Names -> (SUBSET File) \cup {None}]
       /\ op' = [pc |-> op'.pc, fmt |-> op'.fmt, files |-> op'.files]
       /\ CallInv'
  <2>1. CASE Goto("delete_row", f, {}) /\ UNCHANGED folder
    <3>1. /\ op'.pc = "delete_row" /\ op'.fmt = f
          /\ op' = [pc |-> op'.pc, fmt |-> op'.fmt, files |-> op'.files]
      BY <2>1, WentTo
    <3>2. CallInv'
      BY <3>1 DEF CallInv
    <3> QED BY <1>3, <2>1, <3>1, <3>2 DEF TypesInv
  <2>2. CASE \E x \in FormatFiles(path, f) :
               /\ trash_f' = IF t.f = None THEN [files |-> {}, at |-> now] ELSE t.f
               /\ folder' = [folder EXCEPT ![path] = Overwrite(@ \ {x}, Named({x}, fname[f]))]
               /\ Goto("to_trash", f, {x.content})
    <3>1. PICK x \in FormatFiles(path, f) :
               /\ trash_f' = IF t.f = None THEN [files |-> {}, at |-> now] ELSE t.f
               /\ folder' = [folder EXCEPT ![path] = Overwrite(@ \ {x}, Named({x}, fname[f]))]
               /\ Goto("to_trash", f, {x.content})
      BY <2>2
    <3>2. x \in Files(path) /\ x \in File /\ x.content \in Contents
      <4>1. x \in Files(path) /\ x \in File
        BY <1>3, FormatFilesType
      <4> QED BY <4>1 DEF File
    <3>3. folder[path] = Files(path)
      BY <3>2 DEF Files, FilesIn
    <3>4. fname[f] \in Names
      BY <1>2, <1>3 DEF TypesInv
    <3>5. Overwrite(folder[path] \ {x}, Named({x}, fname[f])) \in SUBSET File
      <4>1. Named({x}, fname[f]) \in SUBSET File
        BY <3>2, <3>4, NamedType
      <4>2. folder[path] \ {x} \in SUBSET File
        BY <1>3, <3>3
      <4> QED BY <4>1, <4>2, OverwriteType
    <3>6. /\ folder' \in [Names -> (SUBSET File) \cup {None}]
          /\ folder'[path] \in SUBSET File
      BY <1>3, <3>1, <3>5, FolderChanged
    <3>7. /\ op'.pc = "to_trash" /\ op'.fmt = f /\ op'.files = {x.content}
          /\ op' = [pc |-> op'.pc, fmt |-> op'.fmt, files |-> op'.files]
      BY <3>1, WentTo
    <3>8. trash_f' # None
      <4>1. [files |-> {}, at |-> now] # None
        BY <1>3, EntryType DEF TypesInv
      <4> QED BY <3>1, <4>1
    <3>9. Has(Files(path), f, x.content)'
      <4> DEFINE y == [x EXCEPT !.name = fname[f]]
      <4>1. y.fmt = f /\ y.content = x.content
        BY <3>2, FormatFilesType, <1>3 DEF File
      <4>2. y \in folder'[path]
        BY <1>3, <3>1 DEF TypesInv, Overwrite, Named
      <4>3. Files(path)' = folder'[path]
        BY <1>2, <3>6, FolderAssumption DEF Files, FilesIn
      <4> HIDE DEF y
      <4> QED BY <4>1, <4>2, <4>3 DEF Has
    <3>10. CallInv'
      BY <1>2, <1>7, <3>2, <3>6, <3>7, <3>8, <3>9 DEF CallInv
    <3> QED BY <3>6, <3>7, <3>10
  <2> QED BY <1>4, <2>1, <2>2
<1>11. trash_f' \in FormatsEntry \cup {None}
  BY <1>6, <1>8
<1> QED BY <1>1, <1>2, <1>3, <1>5, <1>7, <1>9, <1>10, <1>11, FormatsStep DEF TypesInv

\* The writes into a file of the trash that is there, and its links.
LEMMA TrashWrites ==
  ASSUME IInv, op.pc = "to_trash", NEW c \in op.files \cup {Damaged}
  PROVE  {[fmt |-> op.fmt, old |-> x.content, new |-> c] : x \in {y \in trash_f.files : y.fmt = op.fmt}}
            \in SUBSET Write
<1>1. op.fmt \in Formats /\ c \in Contents /\ trash_f \in FormatsEntry
  BY BoundsAssumption DEF IInv, CallInv, TypesInv, Contents, Damaged
<1>2. \A x \in trash_f.files : x.content \in Contents
  BY <1>1 DEF FormatsEntry, TrashedFile
<1> QED BY <1>1, <1>2 DEF Write

LEMMA StepFormatToTrash == ASSUME IInv, FormatToTrash PROVE IInv'
<1>1. binned.book = None
  BY NoBookBinned DEF FormatToTrash
<1>2. /\ UNCHANGED <<in_db, title, path, fname, now, contents>>
      /\ op.pc = "to_trash"
  BY DEF FormatToTrash
<1>3. /\ TypesInv /\ path \in Names /\ op.fmt \in Formats /\ op.files \subseteq Contents
      /\ trash_f # None /\ folder[path] \in SUBSET File /\ binned.fmt[op.fmt] = None
  BY <1>2 DEF IInv, CallInv, TypesInv
<1>4. trash_f \in FormatsEntry /\ trash_f.files \in SUBSET TrashedFile /\ now \in 0..MaxTime
  BY <1>3 DEF TypesInv, FormatsEntry
<1> DEFINE there == {x \in trash_f.files : x.fmt = op.fmt}
           new(c) == [fmt |-> op.fmt, content |-> c]
           W(c) == {[fmt |-> op.fmt, old |-> x.content, new |-> c] : x \in there}
<1>5. ASSUME UNCHANGED <<folder, trash, binned>>,
             EndsEarly({op.fmt}) \/ (op' = [op EXCEPT !.pc = "delete_row"] /\ UNCHANGED in_memory)
      PROVE  IInv'
  <2>1. /\ in_memory' \in BOOLEAN
        /\ op' = [pc |-> op'.pc, fmt |-> op'.fmt, files |-> op'.files]
        /\ CallInv'
    <3>1. CASE EndsEarly({op.fmt})
      BY <1>3, <3>1, Ended, AtIdle, IdleCall
    <3>2. CASE op' = [op EXCEPT !.pc = "delete_row"] /\ UNCHANGED in_memory
      <4>1. /\ op'.pc = "delete_row" /\ op'.fmt = op.fmt
            /\ op' = [pc |-> op'.pc, fmt |-> op'.fmt, files |-> op'.files]
        BY <1>3, <3>2, WentOn
      <4> QED BY <1>3, <3>2, <4>1 DEF CallInv, TypesInv
    <3> QED BY <1>5, <3>1, <3>2
  <2> QED BY <1>1, <1>2, <1>3, <1>5, <2>1, FilesStep DEF TypesInv
<1>6. ASSUME NEW c \in op.files \cup {Damaged}, NEW l \in Linked(W(c)),
             folder' = l.folder, trash_b' = l.b,
             trash_f' = [files |-> (trash_f.files \ there) \cup {new(c)}, at |-> TrashTime(op.fmt)],
             \/ /\ c \in op.files
                /\ GoesOn("unlink_format")
                /\ binned' = [binned EXCEPT !.fmt[op.fmt] =
                                IF there = {} /\ c # Damaged /\ OnlyLink(op.fmt, c)
                                THEN [files |-> {c}, at |-> now] ELSE None]
             \/ EndsEarly({op.fmt}) /\ UNCHANGED binned
      PROVE  IInv'
  <2>1. W(c) \in SUBSET Write
    BY <1>2, TrashWrites
  <2> HIDE DEF W
  <2>2. /\ folder' \in [Names -> (SUBSET File) \cup {None}] /\ folder'[path] \in SUBSET File
        /\ trash_b' \in BookEntry \cup {None}
    <3>1. folder[path] # None
      BY <1>3, FolderAssumption
    <3> QED BY <1>3, <1>6, <2>1, <3>1, LinkedFolders, LinkedBook
  <2>3. c \in Contents
    BY <1>3, BoundsAssumption DEF Contents, Damaged
  <2>4. TrashTime(op.fmt) \in 0..MaxTime
    BY <1>4 DEF TrashTime, FormatsEntry
  <2>5. new(c) \in TrashedFile
    BY <1>3, <2>3 DEF TrashedFile
  <2>6. trash_f' \in FormatsEntry /\ trash_f' # None
    BY <1>4, <1>6, <2>4, <2>5, EntryType
  <2> DEFINE b == IF there = {} /\ c # Damaged /\ OnlyLink(op.fmt, c) THEN [files |-> {c}, at |-> now] ELSE None
  <2>7. b \in BinnedFormat \cup {None}
    BY <1>4, <2>3 DEF BinnedFormat
  <2>8. b # None => there = {} /\ b = [files |-> {c}, at |-> now]
    OBVIOUS
  <2>9. binned' = [binned EXCEPT !.fmt[op.fmt] = b] \/ binned' = binned
    BY <1>6
  <2> HIDE DEF b
  <2>10. /\ binned' = [book |-> binned'.book, fmt |-> binned'.fmt]
         /\ binned'.book = binned.book
         /\ binned'.fmt \in [Formats -> BinnedFormat \cup {None}]
         /\ binned'.fmt[op.fmt] \in {b, None}
         /\ \A g \in Formats \ {op.fmt} : binned'.fmt[g] = binned.fmt[g]
    <3>1. CASE binned' = binned
      BY <1>3, <3>1 DEF TypesInv
    <3>2. CASE binned' = [binned EXCEPT !.fmt[op.fmt] = b]
      BY <1>3, <2>7, <3>2, BinnedChanged
    <3> QED BY <2>9, <3>1, <3>2
  <2>11. ASSUME NEW g \in Formats PROVE FormatKept(g)'
    <3>1. CASE g = op.fmt
      <4>1. CASE binned'.fmt[g] = None
        BY <4>1 DEF FormatKept
      <4>2. CASE binned'.fmt[g] # None
        <5>1. there = {} /\ binned'.fmt[g] = [files |-> {c}, at |-> now]
          BY <2>8, <2>10, <3>1, <4>2
        <5>2. TrashTime(op.fmt) = now
          BY <5>1 DEF TrashTime
        <5>3. trash_f'.at = now /\ new(c) \in trash_f'.files
          BY <1>6, <5>2
        <5> QED BY <1>2, <1>4, <2>6, <3>1, <5>1, <5>3 DEF FormatKept
      <4> QED BY <4>1, <4>2
    <3>2. CASE g # op.fmt
      <4>1. FormatKept(g) /\ binned'.fmt[g] = binned.fmt[g] /\ now' = now
        BY <1>2, <2>10, <3>2 DEF IInv
      <4> SUFFICES ASSUME binned.fmt[g] # None, now < binned.fmt[g].at + ExpireAge
                   PROVE  /\ binned.fmt[g].at <= trash_f'.at
                          /\ \A d \in binned.fmt[g].files : [fmt |-> g, content |-> d] \in trash_f'.files
        BY <2>6, <4>1 DEF FormatKept
      <4>2. binned.fmt[g].at <= trash_f'.at
        <5>1. trash_f'.at \in {trash_f.at, now}
          BY <1>6 DEF TrashTime
        <5> QED BY <4>1, <5>1 DEF FormatKept
      <4>3. \A d \in binned.fmt[g].files : [fmt |-> g, content |-> d] \in trash_f'.files
        BY <1>6, <3>2, <4>1 DEF FormatKept
      <4> QED BY <4>2, <4>3
    <3> QED BY <3>1, <3>2
  <2>12. /\ in_memory' \in BOOLEAN
         /\ op' = [pc |-> op'.pc, fmt |-> op'.fmt, files |-> op'.files]
         /\ CallInv'
    <3>1. CASE GoesOn("unlink_format")
      <4>1. op' = [op EXCEPT !.pc = "unlink_format"] /\ in_memory' = in_memory
        BY <3>1 DEF GoesOn
      <4>2. /\ op'.pc = "unlink_format" /\ op'.fmt = op.fmt
            /\ op' = [pc |-> op'.pc, fmt |-> op'.fmt, files |-> op'.files]
        BY <1>3, <4>1, WentOn
      <4> QED BY <1>2, <1>3, <2>2, <4>1, <4>2 DEF CallInv, TypesInv
    <3>2. CASE EndsEarly({op.fmt})
      BY <1>3, <3>2, Ended, AtIdle, IdleCall
    <3> QED BY <1>6, <3>1, <3>2
  <2>13. in_db' \in BOOLEAN /\ fname' \in [Formats -> Names \cup {None}] /\ contents' \in Contents
    BY <1>2, <1>3 DEF TypesInv
  <2> QED BY <1>1, <1>2, <2>2, <2>6, <2>10, <2>11, <2>12, <2>13, WritesStep
<1> HIDE DEF W
<1>7. CASE \E c \in op.files \cup {Damaged} : \E l \in Linked(W(c)) :
             /\ folder' = l.folder /\ trash_b' = l.b
             /\ trash_f' = [files |-> (trash_f.files \ there) \cup {new(c)}, at |-> TrashTime(op.fmt)]
             /\ \/ /\ c \in op.files
                   /\ GoesOn("unlink_format")
                   /\ binned' = [binned EXCEPT !.fmt[op.fmt] =
                                   IF there = {} /\ c # Damaged /\ OnlyLink(op.fmt, c)
                                   THEN [files |-> {c}, at |-> now] ELSE None]
                \/ EndsEarly({op.fmt}) /\ UNCHANGED binned
  BY <1>6, <1>7
<1>8. CASE /\ UNCHANGED <<folder, trash, binned>>
           /\ EndsEarly({op.fmt}) \/ (op' = [op EXCEPT !.pc = "delete_row"] /\ UNCHANGED in_memory)
  BY <1>5, <1>8
<1> QED BY <1>7, <1>8 DEF FormatToTrash, W

LEMMA StepUnlinkFormat == ASSUME IInv, UnlinkFormat PROVE IInv'
<1>1. binned.book = None
  BY NoBookBinned DEF UnlinkFormat
<1>2. /\ UNCHANGED <<in_db, title, path, fname, trash, trash_b, trash_f, now, contents>>
      /\ op.pc = "unlink_format"
  BY DEF UnlinkFormat, trash
<1>3. TypesInv /\ path \in Names /\ folder[path] \in SUBSET File /\ op.fmt \in Formats
  BY <1>2 DEF IInv, TypesInv, CallInv
<1>4. CASE /\ folder' = [folder EXCEPT ![path] = {x \in @ : x.fmt # op.fmt \/ x.name # fname[op.fmt]}]
           /\ GoesOn("delete_row") /\ UNCHANGED binned
  <2>1. PICK S \in SUBSET File : folder' = [folder EXCEPT ![path] = S]
    BY <1>3, <1>4
  <2> QED BY <1>1, <1>2, <1>3, <1>4, <2>1, OneFolderStep
<1>5. CASE /\ EndsEarly({op.fmt}) /\ UNCHANGED folder
           /\ binned' = [binned EXCEPT !.fmt[op.fmt] = None]
  <2>1. /\ binned' = [book |-> binned'.book, fmt |-> binned'.fmt]
        /\ binned'.book = binned.book
        /\ binned'.fmt \in [Formats -> BinnedFormat \cup {None}]
        /\ binned'.fmt[op.fmt] = None
        /\ \A g \in Formats \ {op.fmt} : binned'.fmt[g] = binned.fmt[g]
    BY <1>3, <1>5, BinnedChanged
  <2>2. ASSUME NEW g \in Formats PROVE FormatKept(g)'
    BY <1>2, <2>1, FormatStays
  <2>3. op' = Idle /\ in_memory' \in BOOLEAN
    BY <1>3, <1>5, Ended
  <2>4. CallInv' /\ op' = [pc |-> op'.pc, fmt |-> op'.fmt, files |-> op'.files]
    BY <2>3, IdleCall, AtIdle
  <2> QED BY <1>1, <1>2, <1>3, <1>5, <2>1, <2>2, <2>3, <2>4, FormatsStep DEF TypesInv
<1> QED BY <1>4, <1>5 DEF UnlinkFormat

LEMMA StepDeleteRow == ASSUME IInv, DeleteRow PROVE IInv'
<1>1. binned.book = None
  BY NoBookBinned DEF DeleteRow
<1>2. UNCHANGED <<in_db, title, path, folder, trash, now, binned, contents>>
  BY DEF DeleteRow
<1>3. fname' \in [Formats -> Names \cup {None}] /\ path' \in Names
  BY <1>2 DEF DeleteRow, IInv, TypesInv
<1>4. Returns \/ EndsEarly({op.fmt})
  BY DEF DeleteRow
<1> QED BY <1>1, <1>2, <1>3, <1>4, RowsStep
-----------------------------------------------------------------------------
(* The book. *)

\* A step that leaves the removed formats and what is said of them alone.
LEMMA BookStep ==
  ASSUME IInv,
         trash_f' \in {trash_f, Kept(trash_f)}, binned'.fmt = binned.fmt,
         UNCHANGED <<now, contents>>,
         in_db' \in BOOLEAN, in_memory' \in BOOLEAN, title' \in Names, path' \in Names,
         fname' \in [Formats -> Names \cup {None}],
         folder' \in [Names -> (SUBSET File) \cup {None}],
         trash_b' \in BookEntry \cup {None},
         op' = [pc |-> op'.pc, fmt |-> op'.fmt, files |-> op'.files],
         binned' = [book |-> binned'.book, fmt |-> binned'.fmt],
         binned'.book \in BinnedBook \cup {None},
         CallInv', GoneInv', BookKept'
  PROVE  IInv'
<1>1. trash_f' \in FormatsEntry \cup {None}
  BY CountedOn DEF IInv, TypesInv
<1>2. TypesInv'
  BY <1>1 DEF IInv, TypesInv
<1>3. (\A f \in Formats : FormatKept(f))'
  BY FormatStays
<1> QED BY <1>2, <1>3 DEF IInv

\* The same, while no book in the trash is counted on, neither before nor after.
LEMMA QuietStep ==
  ASSUME IInv, binned.book = None, UNCHANGED binned,
         trash_f' \in {trash_f, Kept(trash_f)},
         UNCHANGED <<title, path, fname, now, contents>>,
         in_db' \in BOOLEAN, in_memory' \in BOOLEAN,
         folder' \in [Names -> (SUBSET File) \cup {None}],
         trash_b' \in BookEntry \cup {None},
         op' = [pc |-> op'.pc, fmt |-> op'.fmt, files |-> op'.files],
         CallInv'
  PROVE  IInv'
<1>1. GoneInv' /\ BookKept'
  BY DEF GoneInv, BookKept
<1> QED BY <1>1, BookStep DEF IInv, TypesInv

LEMMA StepRemoveBook == ASSUME IInv, NEW permanent \in BOOLEAN, RemoveBook(permanent) PROVE IInv'
<1>1. binned.book = None
  BY NoBookBinned DEF RemoveBook
<1>2. /\ UNCHANGED <<title, path, fname, now, contents, binned>>
      /\ in_db' = FALSE
  BY DEF RemoveBook
<1>3. TypesInv /\ path \in Names /\ Files(path) \in SUBSET File
  BY FilesType DEF IInv, TypesInv
<1>4. trash_b' \in {trash_b, Kept(trash_b)} /\ trash_f' \in {trash_f, Kept(trash_f)}
  BY DEF RemoveBook, TrashDirs
<1>5. trash_b' \in BookEntry \cup {None}
  BY <1>3, <1>4, CountedOn DEF TypesInv
<1>6. /\ folder' \in [Names -> (SUBSET File) \cup {None}]
      /\ Files(path) = {} \/ folder' = folder
  <2>1. CASE folder' = folder
    BY <1>3, <2>1 DEF TypesInv
  <2>2. CASE folder[path] = None /\ folder' = [folder EXCEPT ![path] = {}]
    <3>1. Files(path) = {}
      BY <2>2 DEF Files, FilesIn
    <3>2. folder' \in [Names -> (SUBSET File) \cup {None}]
      BY <1>3, <2>2 DEF TypesInv
    <3> QED BY <3>1, <3>2
  <2> QED BY <2>1, <2>2 DEF RemoveBook
<1>7. /\ in_memory' \in BOOLEAN
      /\ op' = [pc |-> op'.pc, fmt |-> op'.fmt, files |-> op'.files]
      /\ CallInv'
  <2>1. CASE op' = Idle /\ in_memory' = FALSE
    BY <2>1, AtIdle, IdleCall
  <2>2. CASE UNCHANGED in_memory /\
             Goto(IF permanent THEN "rmtree" ELSE "empty_trash", None,
                  IF permanent THEN {} ELSE {x \in Files(path) : fname[x.fmt] # None})
    <3> DEFINE fs == IF permanent THEN {} ELSE {x \in Files(path) : fname[x.fmt] # None}
    <3>1. /\ op'.pc \in {"rmtree", "empty_trash"} /\ op'.files = fs
          /\ op' = [pc |-> op'.pc, fmt |-> op'.fmt, files |-> op'.files]
      BY <2>2, WentTo
    <3>2. op'.files \subseteq Files(path)'
      <4>1. CASE Files(path) = {}
        BY <3>1, <4>1
      <4>2. CASE folder' = folder
        BY <1>2, <3>1, <4>2 DEF Files, FilesIn
      <4> QED BY <1>6, <4>1, <4>2
    <3>3. CallInv'
      BY <1>2, <3>1, <3>2 DEF CallInv
    <3> QED BY <1>3, <2>2, <3>1, <3>3 DEF TypesInv
  <2> QED BY <2>1, <2>2 DEF RemoveBook
<1> QED BY <1>1, <1>2, <1>4, <1>5, <1>6, <1>7, QuietStep

LEMMA StepRemoveTree == ASSUME IInv, RemoveTree PROVE IInv'
<1>1. binned.book = None
  BY NoBookBinned DEF RemoveTree
<1>2. UNCHANGED <<in_db, title, path, fname, trash_b, trash_f, now, contents, binned>>
  BY DEF RemoveTree, trash
<1>3. TypesInv /\ path \in Names /\ Files(path) \in SUBSET File
  BY FilesType DEF IInv, TypesInv
<1>4. PICK S \in (SUBSET File) \cup {None} : folder' = [folder EXCEPT ![path] = S]
  BY <1>3 DEF RemoveTree
<1>5. folder' \in [Names -> (SUBSET File) \cup {None}]
  BY <1>3, <1>4, FolderChanged
<1>6. op' = Idle /\ in_memory' \in BOOLEAN
  BY <1>3, Ended DEF RemoveTree, Forgotten
<1>7. CallInv' /\ op' = [pc |-> op'.pc, fmt |-> op'.fmt, files |-> op'.files]
  BY <1>6, IdleCall, AtIdle
<1> QED BY <1>1, <1>2, <1>3, <1>5, <1>6, <1>7, QuietStep DEF TypesInv

LEMMA StepEmptyTrash == ASSUME IInv, EmptyTrash PROVE IInv'
<1>1. binned.book = None
  BY NoBookBinned DEF EmptyTrash
<1>2. /\ UNCHANGED <<in_db, title, path, fname, folder, trash_f, now, contents, binned>>
      /\ op.pc = "empty_trash"
  BY DEF EmptyTrash
<1>3. TypesInv /\ ~in_db /\ op.files \subseteq Files(path)
  BY <1>2 DEF IInv, CallInv
<1>4. CASE trash_b' = None /\ GoesOn("copy_to_trash")
  <2>1. op' = [op EXCEPT !.pc = "copy_to_trash"] /\ in_memory' = in_memory
    BY <1>4 DEF GoesOn
  <2>2. /\ op'.pc = "copy_to_trash" /\ op'.files = op.files
        /\ op' = [pc |-> op'.pc, fmt |-> op'.fmt, files |-> op'.files]
    BY <1>3, <2>1, WentOn
  <2>3. Files(path)' = Files(path)
    BY <1>2 DEF Files, FilesIn
  <2>4. CallInv'
    BY <1>2, <1>3, <2>2, <2>3 DEF CallInv
  <2> QED BY <1>1, <1>2, <1>3, <1>4, <2>1, <2>2, <2>4, QuietStep DEF TypesInv
<1>5. CASE /\ \E S \in SUBSET (IF trash_b = None THEN {} ELSE trash_b.files) :
                trash_b' \in IF trash_b = None THEN {None}
                            ELSE {[trash_b EXCEPT !.files = S, !.opf = opf] : opf \in {FALSE, trash_b.opf}}
           /\ EndsEarly(Formats)
  <2>1. op' = Idle /\ in_memory' \in BOOLEAN
    BY <1>3, <1>5, Ended
  <2>2. CallInv' /\ op' = [pc |-> op'.pc, fmt |-> op'.fmt, files |-> op'.files]
    BY <2>1, IdleCall, AtIdle
  <2>3. trash_b' \in BookEntry \cup {None}
    <3>1. CASE trash_b = None
      BY <1>5, <3>1
    <3>2. CASE trash_b # None
      <4>1. trash_b \in BookEntry
        BY <1>3, <3>2 DEF TypesInv
      <4> QED BY <1>5, <3>2, <4>1 DEF BookEntry
    <3> QED BY <3>1, <3>2
  <2> QED BY <1>1, <1>2, <1>3, <2>1, <2>2, <2>3, QuietStep DEF TypesInv
<1> QED BY <1>4, <1>5 DEF EmptyTrash

LEMMA StepCopyToTrash == ASSUME IInv, CopyToTrash PROVE IInv'
<1>1. binned.book = None
  BY NoBookBinned DEF CopyToTrash
<1>2. /\ UNCHANGED <<in_db, title, path, fname, folder, trash_f, now, contents, binned>>
      /\ op.pc = "copy_to_trash"
  BY DEF CopyToTrash
<1>3. TypesInv /\ ~in_db /\ op.files \subseteq Files(path) /\ Files(path) \in SUBSET File
  BY <1>2, FilesType DEF IInv, CallInv, TypesInv
<1>4. PICK S \in SUBSET Files(path), opf \in BOOLEAN :
        /\ trash_b' = [files |-> S, title |-> title, opf |-> opf, at |-> now]
        /\ (S = Files(path) /\ opf /\ GoesOn("unlink_book")) \/ EndsEarly(Formats)
  BY DEF CopyToTrash
<1>5. trash_b' \in BookEntry /\ trash_b' # None
  <2>1. trash_b' \in BookEntry
    BY <1>3, <1>4 DEF BookEntry, TypesInv
  <2> QED BY <2>1, EntriesAssumption
<1>6. CASE S = Files(path) /\ GoesOn("unlink_book")
  <2>1. op' = [op EXCEPT !.pc = "unlink_book"] /\ in_memory' = in_memory
    BY <1>6 DEF GoesOn
  <2>2. /\ op'.pc = "unlink_book" /\ op'.files = op.files
        /\ op' = [pc |-> op'.pc, fmt |-> op'.fmt, files |-> op'.files]
    BY <1>3, <2>1, WentOn
  <2>3. trash_b'.files = Files(path) /\ trash_b'.at = now
    BY <1>4, <1>6
  <2>4. CallInv'
    BY <1>2, <1>3, <1>5, <2>2, <2>3 DEF CallInv
  <2> QED BY <1>1, <1>2, <1>3, <1>5, <2>1, <2>2, <2>4, QuietStep DEF TypesInv
<1>7. CASE EndsEarly(Formats)
  <2>1. op' = Idle /\ in_memory' \in BOOLEAN
    BY <1>3, <1>7, Ended
  <2>2. CallInv' /\ op' = [pc |-> op'.pc, fmt |-> op'.fmt, files |-> op'.files]
    BY <2>1, IdleCall, AtIdle
  <2> QED BY <1>1, <1>2, <1>3, <1>5, <2>1, <2>2, QuietStep DEF TypesInv
<1> QED BY <1>4, <1>6, <1>7

LEMMA StepUnlinkBook == ASSUME IInv, UnlinkBook PROVE IInv'
<1>1. binned.book = None
  BY NoBookBinned DEF UnlinkBook
<1>2. /\ UNCHANGED <<in_db, title, path, fname, trash_b, trash_f, now, contents>>
      /\ op.pc = "unlink_book"
  BY DEF UnlinkBook, trash
<1>3. /\ TypesInv /\ path \in Names /\ Files(path) \in SUBSET File
      /\ ~in_db /\ trash_b # None /\ op.files \subseteq trash_b.files /\ trash_b.at = now
  BY <1>2, FilesType DEF IInv, CallInv, TypesInv
<1>4. PICK S \in (SUBSET File) \cup {None} : folder' = [folder EXCEPT ![path] = S]
  BY <1>3 DEF UnlinkBook
<1>5. folder' \in [Names -> (SUBSET File) \cup {None}]
  BY <1>3, <1>4, FolderChanged
<1>6. op' = Idle /\ in_memory' \in BOOLEAN
  BY <1>3, Ended DEF UnlinkBook, Forgotten
<1>7. CallInv' /\ op' = [pc |-> op'.pc, fmt |-> op'.fmt, files |-> op'.files]
  BY <1>6, IdleCall, AtIdle
<1> DEFINE fs == {x \in op.files : ~\E n \in Names \ {path} : Has(Files(n), x.fmt, x.content)}
<1>0. fs \subseteq op.files
  OBVIOUS
<1> HIDE DEF fs
<1>8. CASE binned' = [binned EXCEPT !.book = [files |-> fs, at |-> now]] /\ Forgotten
  <2> DEFINE b == [files |-> fs, at |-> now]
  <2>1. binned = [book |-> binned.book, fmt |-> binned.fmt]
    BY <1>3 DEF TypesInv
  <2>2. binned' = [book |-> b, fmt |-> binned.fmt]
    BY <1>8, <2>1
  <2>3. trash_b \in BookEntry
    BY <1>3 DEF TypesInv
  <2>4. b \in BinnedBook
    BY <1>0, <1>3, <2>3 DEF BinnedBook, BookEntry, TypesInv
  <2>5. GoneInv'
    BY <1>2, <1>3, <1>8 DEF GoneInv, Forgotten
  <2>6. BookKept'
    <3>1. binned'.book.at = now /\ binned'.book.files = fs
      BY <2>2
    <3> QED BY <1>0, <1>2, <1>3, <2>3, <3>1 DEF BookKept, BookEntry
  <2>7. binned'.book = b /\ binned'.fmt = binned.fmt /\ binned' = [book |-> binned'.book, fmt |-> binned'.fmt]
    BY <2>2
  <2> HIDE DEF b
  <2> QED BY <1>2, <1>3, <1>5, <1>6, <1>7, <2>4, <2>5, <2>6, <2>7, BookStep DEF TypesInv
<1>9. CASE UNCHANGED binned
  BY <1>1, <1>2, <1>3, <1>5, <1>6, <1>7, <1>9, QuietStep DEF TypesInv
<1> QED BY <1>8, <1>9 DEF UnlinkBook, fs

LEMMA StepRestoreBook == ASSUME IInv, RestoreBook PROVE IInv'
<1>1. /\ UNCHANGED <<folder, trash_b, trash_f, now, contents, binned>>
      /\ trash_b # None
      /\ in_db' = TRUE /\ in_memory' = TRUE
      /\ title' = trash_b.title /\ path' = title' /\ fname' = NoFormats
  BY DEF RestoreBook, trash, history
<1>2. TypesInv /\ trash_b \in BookEntry
  BY <1>1 DEF IInv, TypesInv
<1>3. /\ op'.pc = "from_trash" /\ op'.files = trash_b.files
      /\ op' = [pc |-> op'.pc, fmt |-> op'.fmt, files |-> op'.files]
  BY WentTo DEF RestoreBook
<1>4. CallInv'
  BY <1>1, <1>2, <1>3 DEF CallInv, BookEntry
<1>5. GoneInv'
  BY <1>3 DEF GoneInv
<1>6. BookKept'
  BY <1>1, BookStays
<1>7. title' \in Names /\ path' \in Names /\ fname' \in [Formats -> Names \cup {None}]
  BY <1>1, <1>2 DEF BookEntry, NoFormats
<1> QED BY <1>1, <1>2, <1>3, <1>4, <1>5, <1>6, <1>7, BookStep DEF TypesInv

\* Nobody counts on the book in the trash any more.
LEMMA NotBinned ==
  ASSUME TypesInv, binned' = [binned EXCEPT !.book = None]
  PROVE  /\ binned' = [book |-> binned'.book, fmt |-> binned'.fmt]
         /\ binned'.book = None /\ binned'.fmt = binned.fmt
         /\ GoneInv' /\ BookKept'
<1>1. binned = [book |-> binned.book, fmt |-> binned.fmt]
  BY DEF TypesInv
<1>2. binned' = [book |-> None, fmt |-> binned.fmt]
  BY <1>1
<1>3. binned'.book = None /\ binned'.fmt = binned.fmt
  BY <1>2
<1> QED BY <1>2, <1>3 DEF GoneInv, BookKept

\* The writes of the files of the trash over those in the folder.
LEMMA RestoreWrites ==
  ASSUME IInv, op.pc = "from_trash", NEW S \in SUBSET trash_b.files
  PROVE  /\ S \in SUBSET File
         /\ Overwrites(Files(path), S) \in SUBSET Write
         /\ \A w \in Overwrites(Files(path), S) : Has(Files(path), w.fmt, w.old) /\ Has(trash_b.files, w.fmt, w.new)
<1>1. TypesInv /\ path \in Names /\ Files(path) \in SUBSET File /\ trash_b \in BookEntry
  BY FilesType DEF IInv, TypesInv, CallInv
<1>2. S \in SUBSET File
  BY <1>1 DEF BookEntry
<1>3. Overwrites(Files(path), S) \in SUBSET Write
  BY <1>1, <1>2, OverwritesType
<1>4. ASSUME NEW w \in Overwrites(Files(path), S)
      PROVE  Has(Files(path), w.fmt, w.old) /\ Has(trash_b.files, w.fmt, w.new)
  <2>1. PICK x \in Files(path), y \in S : SameFile(x, y) /\ w.fmt = x.fmt /\ w.old = x.content /\ w.new = y.content
    BY <1>1, <1>2, OverwritesType
  <2> QED BY <2>1 DEF Has, SameFile
<1> QED BY <1>2, <1>3, <1>4

LEMMA StepCopyFromTrash == ASSUME IInv, AloneInv, CopyFromTrash PROVE IInv'
<1>1. /\ UNCHANGED <<in_db, title, path, fname, now, contents>>
      /\ op.pc = "from_trash"
  BY DEF CopyFromTrash
<1>2. /\ TypesInv /\ path \in Names /\ Files(path) \in SUBSET File
      /\ trash_b # None /\ op.files \subseteq File
  BY <1>1, FilesType DEF IInv, CallInv, TypesInv
<1>3. PICK S \in SUBSET trash_b.files :
        /\ \E l \in Linked(Overwrites(Files(path), S)), R \in Written(S, Overwrites(Files(path), S)) :
             /\ folder' = [l.folder EXCEPT ![path] = Overwrite(FilesIn(l.folder, path), R)]
             /\ trash_b' = l.b /\ trash_f' = l.f
        /\ \/ /\ op' = [op EXCEPT !.pc = "unlink_trash"]
              /\ UNCHANGED <<in_memory, interrupts, binned>>
           \/ EndsEarly(Formats) /\ binned' = [binned EXCEPT !.book = None]
  BY DEF CopyFromTrash
<1> DEFINE W == Overwrites(Files(path), S)
<1>4. /\ S \in SUBSET File /\ W \in SUBSET Write
      /\ \A w \in W : Has(Files(path), w.fmt, w.old)
  BY <1>1, RestoreWrites
<1>5. PICK l \in Linked(W), R \in Written(S, W) :
             /\ folder' = [l.folder EXCEPT ![path] = Overwrite(FilesIn(l.folder, path), R)]
             /\ trash_b' = l.b /\ trash_f' = l.f
  BY <1>3
<1> HIDE DEF W
<1>6. \A w \in W : InLibrary(w.fmt, w.old)
  BY <1>2, <1>4 DEF InLibrary
<1>7. folder' \in [Names -> (SUBSET File) \cup {None}]
  <2>1. R \in SUBSET File
    BY <1>4, WrittenFiles
  <2>2. /\ l.folder \in [Names -> (SUBSET File) \cup {None}]
        /\ FilesIn(l.folder, path) \in SUBSET File
    BY <1>2, <1>4, LinkedFolders
  <2>3. Overwrite(FilesIn(l.folder, path), R) \in SUBSET File
    BY <2>1, <2>2, OverwriteType
  <2> QED BY <1>5, <2>2, <2>3
<1>8. trash_b' \in BookEntry \cup {None} /\ trash_f' \in FormatsEntry \cup {None}
  BY <1>2, <1>4, <1>5, LinkedBook, LinkedFormats
<1>9. /\ binned' = [book |-> binned'.book, fmt |-> binned'.fmt]
      /\ binned'.book \in {binned.book, None} /\ binned'.fmt = binned.fmt
  BY <1>2, <1>3, NotBinned DEF TypesInv
<1>10. ASSUME NEW f \in Formats PROVE FormatKept(f)'
  BY <1>1, <1>4, <1>5, <1>6, <1>9, TrashWritten
<1>11. BookKept'
  <2> SUFFICES ASSUME binned.book # None, now < binned.book.at + ExpireAge, binned'.book = binned.book
               PROVE  /\ trash_b' # None
                      /\ binned.book.at <= trash_b'.at
                      /\ binned.book.files \subseteq trash_b'.files
    BY <1>1, <1>9 DEF BookKept
  <2>1. binned.book.at <= trash_b.at /\ binned.book.files \subseteq trash_b.files
    BY DEF IInv, BookKept
  <2>2. l.b # None /\ l.b.at = trash_b.at /\ FilesAfter(l.b.files, trash_b.files, W)
    BY <1>2, <1>4, LinkedBook
  <2>3. ASSUME NEW x \in binned.book.files PROVE x \in l.b.files
    <3>1. ~Has(Files(path), x.fmt, x.content)
      BY <1>1, <1>2 DEF AloneInv, BookAlone
    <3>2. ~Effective(W, x.fmt, x.content)
      BY <1>4, <3>1 DEF Effective
    <3> QED BY <2>1, <2>2, <3>2 DEF FilesAfter
  <2> QED BY <1>5, <2>1, <2>2, <2>3
<1>12. /\ in_memory' \in BOOLEAN
       /\ op' = [pc |-> op'.pc, fmt |-> op'.fmt, files |-> op'.files]
       /\ CallInv' /\ GoneInv'
  <2>1. CASE op' = [op EXCEPT !.pc = "unlink_trash"] /\ UNCHANGED <<in_memory, binned>>
    <3>1. /\ op'.pc = "unlink_trash" /\ op'.files = op.files
          /\ op' = [pc |-> op'.pc, fmt |-> op'.fmt, files |-> op'.files]
      BY <1>2, <2>1, WentOn
    <3>2. trash_b' # None
      BY <1>2, <1>4, <1>5, LinkedBook
    <3> QED BY <1>2, <2>1, <3>1, <3>2 DEF CallInv, GoneInv, TypesInv
  <2>2. CASE EndsEarly(Formats) /\ binned' = [binned EXCEPT !.book = None]
    BY <1>2, <2>2, Ended, AtIdle, IdleCall, NotBinned
  <2> QED BY <1>3, <2>1, <2>2
<1>13. TypesInv'
  BY <1>1, <1>2, <1>7, <1>8, <1>9, <1>12 DEF TypesInv
<1> QED BY <1>10, <1>11, <1>12, <1>13 DEF IInv

LEMMA StepUnlinkTrash == ASSUME IInv, UnlinkTrash PROVE IInv'
<1>1. /\ UNCHANGED <<in_db, title, path, fname, folder, trash_f, now, contents>>
      /\ binned' = [binned EXCEPT !.book = None]
      /\ op.pc = "unlink_trash"
  BY DEF UnlinkTrash
<1>2. TypesInv /\ trash_b # None /\ op.files \subseteq File
  BY <1>1 DEF IInv, CallInv
<1>3. /\ binned' = [book |-> binned'.book, fmt |-> binned'.fmt]
      /\ binned'.book = None /\ binned'.fmt = binned.fmt
      /\ GoneInv' /\ BookKept'
  BY <1>1, <1>2, NotBinned
<1>4. CASE trash_b' = None /\ GoesOn("rows")
  <2>1. op' = [op EXCEPT !.pc = "rows"] /\ in_memory' = in_memory
    BY <1>4 DEF GoesOn
  <2>2. /\ op'.pc = "rows" /\ op'.files = op.files
        /\ op' = [pc |-> op'.pc, fmt |-> op'.fmt, files |-> op'.files]
    BY <1>2, <2>1, WentOn
  <2>3. CallInv'
    BY <1>2, <2>2 DEF CallInv
  <2> QED BY <1>1, <1>2, <1>3, <1>4, <2>1, <2>2, <2>3, BookStep DEF TypesInv
<1>5. CASE /\ \E S \in SUBSET trash_b.files, opf \in BOOLEAN :
                trash_b' = [trash_b EXCEPT !.files = S, !.opf = opf]
           /\ EndsEarly(Formats)
  <2>1. op' = Idle /\ in_memory' \in BOOLEAN
    BY <1>2, <1>5, Ended
  <2>2. CallInv' /\ op' = [pc |-> op'.pc, fmt |-> op'.fmt, files |-> op'.files]
    BY <2>1, IdleCall, AtIdle
  <2>3. trash_b' \in BookEntry
    BY <1>2, <1>5 DEF TypesInv, BookEntry
  <2> QED BY <1>1, <1>2, <1>3, <2>1, <2>2, <2>3, BookStep DEF TypesInv
<1> QED BY <1>4, <1>5 DEF UnlinkTrash

LEMMA StepUpdateRows == ASSUME IInv, UpdateRows PROVE IInv'
<1>1. binned.book = None
  BY NoBookBinned DEF UpdateRows
<1>2. /\ UNCHANGED <<in_db, title, path, folder, trash, now, contents, binned>>
      /\ op.pc = "rows"
  BY DEF UpdateRows
<1>3. TypesInv /\ op.files \subseteq File
  BY <1>2 DEF IInv, CallInv
<1>4. fname' \in [Formats -> Names \cup {None}]
  <2>1. CASE \E P \in SUBSET op.files :
               fname' = [f \in Formats |-> IF \E x \in P : x.fmt = f
                                           THEN (CHOOSE x \in P : x.fmt = f).name ELSE None]
    <3>1. PICK P \in SUBSET op.files :
               fname' = [f \in Formats |-> IF \E x \in P : x.fmt = f
                                           THEN (CHOOSE x \in P : x.fmt = f).name ELSE None]
      BY <2>1
    <3>2. ASSUME NEW f \in Formats, \E x \in P : x.fmt = f
          PROVE  (CHOOSE x \in P : x.fmt = f).name \in Names
      <4>1. (CHOOSE x \in P : x.fmt = f) \in File
        BY <1>3, <3>2
      <4> QED BY <4>1 DEF File
    <3> QED BY <3>1, <3>2
  <2>2. CASE fname' = fname
    BY <1>3, <2>2 DEF TypesInv
  <2> QED BY <2>1, <2>2 DEF UpdateRows
<1>5. Returns \/ EndsEarly(Formats)
  BY DEF UpdateRows
<1>6. path' \in Names
  BY <1>2, <1>3 DEF TypesInv
<1> QED BY <1>1, <1>2, <1>4, <1>5, <1>6, RowsStep

LEMMA StepRestart == ASSUME IInv, Restart PROVE IInv'
<1>1. /\ UNCHANGED <<in_db, title, path, fname, folder, trash_b, trash_f, now, op, contents, binned>>
      /\ op = Idle /\ in_memory # in_db /\ in_memory' = in_db
  BY DEF Restart, trash, history
<1>2. binned.book = None
  BY <1>1, AtIdle DEF IInv, GoneInv, Idle, TypesInv
<1>3. CallInv'
  BY <1>1, IdleCall
<1> QED BY <1>1, <1>2, <1>3, QuietStep DEF IInv, TypesInv

LEMMA StepTick == ASSUME IInv, Tick PROVE IInv'
<1>1. /\ UNCHANGED <<in_db, in_memory, title, path, fname, folder, trash_b, trash_f, op, contents, binned>>
      /\ op = Idle /\ now < MaxTime /\ now' = now + 1
  BY DEF Tick, tables, trash, history
<1>2. TypesInv'
  BY <1>1, BoundsAssumption DEF IInv, TypesInv
<1>3. CallInv'
  BY <1>1, IdleCall
<1>4. GoneInv'
  BY <1>1 DEF IInv, GoneInv
<1>5. now \in Int
  BY DEF IInv, TypesInv
<1>6. BookKept'
  <2>1. binned.book # None => binned.book.at \in Int
    BY DEF IInv, TypesInv, BinnedBook
  <2> QED BY <1>1, <1>5, <2>1, BoundsAssumption DEF IInv, BookKept
<1>7. ASSUME NEW f \in Formats PROVE FormatKept(f)'
  <2>1. binned.fmt[f] # None => binned.fmt[f].at \in Int
    <3>1. binned.fmt[f] # None => binned.fmt[f] \in BinnedFormat
      BY DEF IInv, TypesInv
    <3> QED BY <3>1 DEF BinnedFormat
  <2>2. FormatKept(f)
    BY DEF IInv
  <2> QED BY <1>1, <1>5, <2>1, <2>2, BoundsAssumption DEF FormatKept
<1> QED BY <1>2, <1>3, <1>4, <1>6, <1>7 DEF IInv
-----------------------------------------------------------------------------
(* What is counted on in the trash has no link in the library. *)

\* A step that leaves a file in the library and in the trash only if it was in both.
Stays == /\ op.pc # "unlink_format"
         /\ \A f \in Formats, c \in Contents : /\ InLibrary(f, c)' => InLibrary(f, c)
                                               /\ InTrash(f, c)' => InTrash(f, c)

\* Contents come into the library from users, and from the trash with formats that are
\* no longer counted on there; into the trash they come from the library.
LEMMA AloneStep ==
  ASSUME IInv, AloneInv, contents' \in Contents, contents <= contents',
         \A f \in Formats, c \in Contents : InLibrary(f, c)' =>
           \/ InLibrary(f, c) \/ c = 0 \/ (c = contents' /\ contents < contents')
           \/ binned'.fmt[f] = None /\ InTrash(f, c),
         \A f \in Formats, c \in Contents : InTrash(f, c)' =>
           InTrash(f, c) \/ InLibrary(f, c) \/ c = 0 \/ c = contents',
         \A f \in Formats : \/ FormatAlone(f)'
                            \/ /\ binned'.fmt[f] \in {None, binned.fmt[f]}
                               /\ ~(op.pc = "unlink_format" /\ op.fmt = f),
         BookAlone'
  PROVE  AloneInv'
<1>1. contents \in Int /\ contents' \in Int /\ 0 <= contents' /\ \A c \in Contents : c \in Int
  BY DEF IInv, TypesInv, Contents
<1>2. ASSUME NEW f \in Formats, NEW c \in Contents, InLibrary(f, c)' \/ InTrash(f, c)'
      PROVE  c <= contents'
  <2>1. InLibrary(f, c) \/ InTrash(f, c) \/ c = 0 \/ c = contents'
    BY <1>2
  <2>2. InLibrary(f, c) \/ InTrash(f, c) => c <= contents
    BY DEF AloneInv, Bounded
  <2>3. c \in Int
    BY <1>1
  <2>4. CASE c <= contents
    BY <1>1, <2>3, <2>4
  <2>5. CASE c = 0 \/ c = contents'
    BY <1>1, <2>5
  <2> QED BY <2>1, <2>2, <2>4, <2>5
<1>3. Bounded'
  BY <1>2 DEF Bounded
<1>4. ASSUME NEW f \in Formats PROVE FormatAlone(f)'
  <2>1. CASE FormatAlone(f)'
    BY <2>1
  <2>2. CASE binned'.fmt[f] = None
    BY <2>2 DEF FormatAlone
  <2>3. CASE /\ binned'.fmt[f] = binned.fmt[f] /\ binned.fmt[f] # None
             /\ ~(op.pc = "unlink_format" /\ op.fmt = f)
    <3>1. binned.fmt[f].files \subseteq Contents
      <4>1. binned.fmt[f] \in BinnedFormat
        BY <2>3 DEF IInv, TypesInv
      <4> QED BY <4>1 DEF BinnedFormat
    <3>2. ASSUME NEW c \in binned.fmt[f].files
          PROVE  0 < c /\ c <= contents' /\ ~InLibrary(f, c)'
      <4>1. 0 < c /\ c <= contents /\ ~InLibrary(f, c) /\ c \in Contents
        BY <2>3, <3>1 DEF AloneInv, FormatAlone
      <4>2. c # 0 /\ ~(c = contents' /\ contents < contents') /\ c <= contents'
        BY <1>1, <4>1
      <4> QED BY <2>3, <4>1, <4>2
    <3> QED BY <2>3, <3>2 DEF FormatAlone
  <2> QED BY <2>1, <2>2, <2>3
<1> QED BY <1>3, <1>4 DEF AloneInv

\* While no call restores it, a book that is counted on has no folder that a step changes.
LEMMA NobookAlone ==
  ASSUME binned'.book = None PROVE BookAlone'
BY DEF BookAlone

\* A step after which the library has no other contents than before, nor has the trash.
LEMMA AloneFiles ==
  ASSUME IInv, AloneInv, contents' = contents, op.pc # "unlink_format",
         \A n \in Names : \A y \in Files(n)' : InLibrary(y.fmt, y.content),
         trash_b' # None => \A y \in trash_b'.files : InLibrary(y.fmt, y.content),
         trash_f' # None => \A y \in trash_f'.files : InTrash(y.fmt, y.content),
         \A f \in Formats : binned'.fmt[f] \in {None, binned.fmt[f]},
         BookAlone'
  PROVE  AloneInv' /\ Stays
<1>1. \A f \in Formats, c \in Contents : InLibrary(f, c)' => InLibrary(f, c)
  BY DEF InLibrary, Has
<1>2. \A f \in Formats, c \in Contents : InTrash(f, c)' => InTrash(f, c)
  BY DEF InTrash, Has
<1>3. contents' \in Contents /\ contents <= contents'
  BY DEF IInv, TypesInv, Contents
<1>4. Stays
  BY <1>1, <1>2 DEF Stays
<1> QED BY <1>1, <1>2, <1>3, <1>4, AloneStep

\* What there is now.
LEMMA There ==
  /\ \A n \in Names : \A y \in Files(n) : InLibrary(y.fmt, y.content)
  /\ trash_b # None => \A y \in trash_b.files : InLibrary(y.fmt, y.content)
  /\ trash_f # None => \A y \in trash_f.files : InTrash(y.fmt, y.content)
BY DEF InLibrary, InTrash, Has

\* Files that are renamed keep their contents.
LEMMA RenamedThere ==
  ASSUME TypesInv, NEW n \in Names, NEW S \in SUBSET Files(n), NEW m \in Names,
         NEW y \in Overwrite(Files(n) \ S, Named(S, m))
  PROVE  InLibrary(y.fmt, y.content)
<1>1. CASE y \in Files(n)
  BY <1>1, There
<1>2. CASE y \in Named(S, m)
  <2>1. PICK x \in S : y = [x EXCEPT !.name = m]
    BY <1>2 DEF Named
  <2>2. x \in File
    BY FilesType
  <2>3. y.fmt = x.fmt /\ y.content = x.content
    BY <2>1, <2>2 DEF File
  <2> QED BY <2>3, There
<1> QED BY <1>1, <1>2 DEF Overwrite

\* A step that changes only one folder, where the contents are known.
LEMMA AloneFolder ==
  ASSUME IInv, AloneInv, contents' = contents, op.pc # "unlink_format",
         NEW n \in Names, \A m \in Names : m # n => folder'[m] = folder[m],
         \A y \in Files(n)' : InLibrary(y.fmt, y.content),
         trash_b' \in {trash_b, None}, trash_f' \in {trash_f, None},
         \A f \in Formats : binned'.fmt[f] \in {None, binned.fmt[f]},
         BookAlone'
  PROVE  AloneInv' /\ Stays
<1>1. \A m \in Names : \A y \in Files(m)' : InLibrary(y.fmt, y.content)
  <2> SUFFICES ASSUME NEW m \in Names, m # n, NEW y \in Files(m)' PROVE InLibrary(y.fmt, y.content)
    OBVIOUS
  <2>1. y \in Files(m)
    BY DEF Files, FilesIn
  <2> QED BY <2>1, There
<1> QED BY <1>1, There, AloneFiles

\* The same, where files of the folder are removed, or nothing happens.
LEMMA AloneLess ==
  ASSUME IInv, AloneInv, contents' = contents, op.pc # "unlink_format",
         NEW n \in Names, folder' = folder \/ \E S \in (SUBSET Files(n)) \cup {None} : folder' = [folder EXCEPT ![n] = S],
         trash_b' \in {trash_b, None}, trash_f' \in {trash_f, None},
         \A f \in Formats : binned'.fmt[f] \in {None, binned.fmt[f]},
         BookAlone'
  PROVE  AloneInv' /\ Stays
<1>1. \A m \in Names : m # n => folder'[m] = folder[m]
  BY DEF IInv, TypesInv
<1>2. ASSUME NEW y \in Files(n)' PROVE y \in Files(n)
  <2>1. CASE folder' = folder
    BY <1>2, <2>1 DEF Files, FilesIn
  <2>2. CASE \E S \in (SUBSET Files(n)) \cup {None} : folder' = [folder EXCEPT ![n] = S]
    <3>1. PICK S \in (SUBSET Files(n)) \cup {None} : folder' = [folder EXCEPT ![n] = S]
      BY <2>2
    <3>2. folder'[n] = S
      BY <3>1 DEF IInv, TypesInv
    <3> QED BY <1>2, <3>2 DEF Files, FilesIn
  <2> QED BY <2>1, <2>2
<1>3. \A y \in Files(n)' : InLibrary(y.fmt, y.content)
  BY <1>2, There
<1> QED BY <1>1, <1>3, AloneFolder

LEMMA RenamedFiles ==
  ASSUME IInv, NEW S \in SUBSET Files(path), path' = path,
         folder' = IF S = {} THEN folder ELSE [folder EXCEPT ![path] = Overwrite(@ \ S, Named(S, title))]
  PROVE  Files(path)' = Overwrite(Files(path) \ S, Named(S, title))
<1>1. TypesInv /\ path \in Names /\ title \in Names /\ Files(path) \in SUBSET File
  BY FilesType DEF IInv, TypesInv
<1>2. CASE S = {}
  <2>1. Files(path)' = Files(path)
    BY <1>2 DEF Files, FilesIn
  <2> QED BY <1>2, <2>1 DEF Named, Overwrite
<1>3. CASE S # {}
  <2>1. folder[path] = Files(path)
    BY <1>3 DEF Files, FilesIn
  <2> DEFINE R == Overwrite(Files(path) \ S, Named(S, title))
  <2>2. R \in SUBSET File
    BY <1>1, NamedType, OverwriteType
  <2>3. folder' = [folder EXCEPT ![path] = R]
    BY <1>3, <2>1
  <2> HIDE DEF R
  <2>4. folder'[path] = R
    BY <1>1, <2>2, <2>3, FolderChanged
  <2>5. Files(path)' = R
    BY <2>2, <2>4, FolderAssumption DEF Files, FilesIn
  <2> QED BY <2>5 DEF R
<1> QED BY <1>2, <1>3

LEMMA AloneMove ==
  ASSUME IInv, AloneInv, RenameFormats \/ ClearTarget \/ UnlinkFiles \/ UpdatePathsInDB
  PROVE  AloneInv' /\ Stays
<1>1. binned.book = None
  BY NoBookBinned DEF RenameFormats, ClearTarget, UnlinkFiles, UpdatePathsInDB
<1>2. /\ UNCHANGED <<title, binned, contents, trash_b, trash_f>> /\ op.pc # "unlink_format"
      /\ TypesInv /\ title \in Names /\ path \in Names
  BY DEF RenameFormats, ClearTarget, UnlinkFiles, UpdatePathsInDB, trash, IInv, TypesInv
<1>3. BookAlone'
  BY <1>1, <1>2, NobookAlone
<1>4. CASE RenameFormats
  <2>1. path' = path
    BY <1>4 DEF RenameFormats
  <2>2. PICK S \in SUBSET Files(path) :
          folder' = IF S = {} THEN folder ELSE [folder EXCEPT ![path] = Overwrite(@ \ S, Named(S, title))]
    BY <1>4 DEF RenameFormats, Picks
  <2>3. \A m \in Names : m # path => folder'[m] = folder[m]
    BY <1>2, <2>2 DEF TypesInv
  <2>4. Files(path)' = Overwrite(Files(path) \ S, Named(S, title))
    BY <2>1, <2>2, RenamedFiles
  <2>5. \A y \in Files(path)' : InLibrary(y.fmt, y.content)
    BY <1>2, <2>4, RenamedThere
  <2>6. ASSUME NEW n, n = path PROVE \A y \in Files(n)' : InLibrary(y.fmt, y.content)
    BY <2>1, <2>5, <2>6 DEF Files
  <2> QED BY <1>2, <1>3, <2>3, <2>6, AloneFolder
<1>5. CASE ClearTarget
  <2>1. \E S \in (SUBSET Files(title)) \cup {None} : folder' = [folder EXCEPT ![title] = S]
    BY <1>5 DEF ClearTarget
  <2> QED BY <1>2, <1>3, <2>1, AloneLess
<1>6. CASE UnlinkFiles
  <2>1. \E S \in (SUBSET Files(path)) \cup {None} : folder' = [folder EXCEPT ![path] = S]
    BY <1>6 DEF UnlinkFiles
  <2> QED BY <1>2, <1>3, <2>1, AloneLess
<1>7. CASE UpdatePathsInDB
  <2>1. folder' = folder
    BY <1>7 DEF UpdatePathsInDB
  <2> QED BY <1>2, <1>3, <2>1, AloneLess
<1> QED BY <1>4, <1>5, <1>6, <1>7

\* Steps between the calls, and those that start one and do not touch formats.
LEMMA AloneQuiet ==
  ASSUME IInv, AloneInv,
         \/ \E n \in Names : SetTitle(n)
         \/ RestoreBook \/ ExpireOldTrash \/ Restart \/ Tick
         \/ \E b, f \in BOOLEAN : DeleteTrash(b, f)
  PROVE  AloneInv' /\ Stays
<1>1. /\ contents' = contents /\ folder' = folder /\ op = Idle
      /\ binned'.book \in {None, binned.book}
      /\ \A f \in Formats : binned'.fmt[f] \in {None, binned.fmt[f]}
      /\ trash_b' \in {trash_b, None} /\ trash_f' \in {trash_f, None}
  BY DEF SetTitle, RestoreBook, ExpireOldTrash, Restart, Tick, DeleteTrash, Live, history, trash, Kept, NoFormats
<1>2. op.pc = "idle"
  BY <1>1 DEF Idle
<1>3. BookAlone'
  BY <1>1, <1>2 DEF AloneInv, BookAlone, Has, Files, FilesIn
<1>4. path \in Names
  BY DEF IInv, TypesInv
<1> QED BY <1>1, <1>2, <1>3, <1>4, AloneLess

LEMMA AloneFormatCalls ==
  ASSUME IInv, AloneInv, NEW f \in Formats, AddFormat(f) \/ RemoveFormat(f) \/ RestoreFormat(f)
  PROVE  AloneInv' /\ Stays
<1>1. binned.book = None
  BY NoBookBinned DEF AddFormat, RemoveFormat, RestoreFormat, Live
<1>2. /\ TypesInv /\ title \in Names /\ path \in Names /\ Files(path) \in SUBSET File
      /\ UNCHANGED <<title, path, fname, contents>> /\ op = Idle /\ op.pc = "idle"
  BY FilesType DEF AddFormat, RemoveFormat, RestoreFormat, tables, history, Live, Idle, IInv, TypesInv
<1>3. binned' = binned \/ binned' = [binned EXCEPT !.fmt[f] = None]
  BY DEF AddFormat, RemoveFormat, RestoreFormat, history
<1>4. binned'.book = None /\ \A g \in Formats : binned'.fmt[g] \in {None, binned.fmt[g]}
  BY <1>1, <1>2, <1>3, BinnedChanged
<1>5. BookAlone'
  BY <1>4, NobookAlone
<1>6. CASE MoveOldFile(f) /\ UNCHANGED <<trash_b, trash_f>>
  <2>1. PICK S \in SUBSET Files(path) : folder'[path] = Overwrite(Files(path) \ S, Named(S, title))
    BY <1>6, OldFileMoved
  <2>2. (\A n \in Names : n # path => folder'[n] = folder[n]) /\ folder'[path] \in SUBSET File
    BY <1>6, OldFileMoved
  <2>3. ASSUME NEW n, n = path PROVE \A y \in Files(n)' : InLibrary(y.fmt, y.content)
    BY <1>2, <2>1, <2>2, <2>3, RenamedThere, FolderAssumption DEF Files, FilesIn
  <2> QED BY <1>2, <1>4, <1>5, <1>6, <2>2, <2>3, AloneFolder
<1>7. CASE RemoveFormat(f)
  <2>1. PICK t \in TrashDirs :
          /\ trash_b' = t.b
          /\ \/ trash_f' = t.f /\ folder' = folder
             \/ \E x \in FormatFiles(path, f) :
                  /\ trash_f' = IF t.f = None THEN [files |-> {}, at |-> now] ELSE t.f
                  /\ folder' = [folder EXCEPT ![path] = Overwrite(@ \ {x}, Named({x}, fname[f]))]
    BY <1>7 DEF RemoveFormat
  <2>2. t.b \in {trash_b, None} /\ t.f \in {trash_f, None}
    BY DEF TrashDirs, Kept
  <2>3. trash_b' # None => \A y \in trash_b'.files : InLibrary(y.fmt, y.content)
    BY <2>1, <2>2, There
  <2>4. ASSUME trash_f' # None, NEW y \in trash_f'.files PROVE InTrash(y.fmt, y.content)
    <3>1. trash_f' \in {trash_f, None, [files |-> {}, at |-> now]}
      BY <2>1, <2>2
    <3>2. trash_f' = trash_f
      BY <2>4, <3>1
    <3> QED BY <2>4, <3>2, There
  <2>5. ASSUME NEW n \in Names, NEW y \in Files(n)' PROVE InLibrary(y.fmt, y.content)
    <3>1. CASE y \in Files(n)
      BY <3>1, There
    <3>2. CASE y \notin Files(n)
      <4>1. folder' # folder
        BY <2>5, <3>2 DEF Files, FilesIn
      <4>2. PICK x \in FormatFiles(path, f) :
               folder' = [folder EXCEPT ![path] = Overwrite(@ \ {x}, Named({x}, fname[f]))]
        BY <2>1, <4>1
      <4>3. x \in Files(path) /\ fname[f] \in Names
        BY <1>2, <1>7, FormatFilesType DEF RemoveFormat, TypesInv
      <4>4. folder[path] = Files(path)
        BY <4>3 DEF Files, FilesIn
      <4> DEFINE T == Overwrite(Files(path) \ {x}, Named({x}, fname[f]))
      <4>5. folder' = [folder EXCEPT ![path] = T]
        BY <4>2, <4>4
      <4> HIDE DEF T
      <4>6. n = path /\ y \in T
        BY <1>2, <2>5, <3>2, <4>5 DEF TypesInv, Files, FilesIn
      <4> QED BY <1>2, <4>3, <4>6, RenamedThere DEF T
    <3> QED BY <3>1, <3>2
  <2> QED BY <1>2, <1>4, <1>5, <2>3, <2>4, <2>5, AloneFiles
<1> QED BY <1>6, <1>7 DEF AddFormat, RestoreFormat, trash

\* Writes over files that are not in the trash leave it as it is; likewise the library.
LEMMA UntouchedTrash ==
  ASSUME TypesInv, NEW W \in SUBSET Write, NEW l \in Linked(W), \A w \in W : ~InTrash(w.fmt, w.old)
  PROVE  l.f # None => trash_f # None /\ l.f.files \subseteq trash_f.files
<1> SUFFICES ASSUME l.f # None, NEW y \in l.f.files PROVE trash_f # None /\ y \in trash_f.files
  BY LinkedFormats
<1>1. trash_f # None
  BY LinkedFormats
<1>2. PICK x \in trash_f.files : TurnedInto(x, y, W)
  BY <1>1, LinkedFormats DEF TrashAfter
<1>3. InTrash(x.fmt, x.content)
  BY <1>1, There
<1> QED BY <1>1, <1>2, <1>3 DEF TurnedInto

LEMMA UntouchedLibrary ==
  ASSUME TypesInv, NEW W \in SUBSET Write, NEW l \in Linked(W), \A w \in W : ~InLibrary(w.fmt, w.old)
  PROVE  /\ \A n \in Names : FilesIn(l.folder, n) \subseteq Files(n)
         /\ l.b # None => trash_b # None /\ l.b.files \subseteq trash_b.files
<1>1. ASSUME NEW n \in Names, NEW y \in FilesIn(l.folder, n) PROVE y \in Files(n)
  <2>1. PICK x \in Files(n) : TurnedInto(x, y, W)
    BY LinkedFolders DEF FilesAfter
  <2>2. InLibrary(x.fmt, x.content)
    BY There
  <2> QED BY <2>1, <2>2 DEF TurnedInto
<1>2. ASSUME l.b # None, NEW y \in l.b.files PROVE trash_b # None /\ y \in trash_b.files
  <2>1. trash_b # None
    BY <1>2, LinkedBook
  <2>2. PICK x \in trash_b.files : TurnedInto(x, y, W)
    BY <1>2, <2>1, LinkedBook DEF FilesAfter
  <2>3. InLibrary(x.fmt, x.content)
    BY <2>1, There
  <2> QED BY <2>1, <2>2, <2>3 DEF TurnedInto
<1>3. l.b # None => trash_b # None
  BY LinkedBook
<1> QED BY <1>1, <1>2, <1>3

\* Files that are written over others, of the library, from it.
LEMMA AloneCopyFiles == ASSUME IInv, AloneInv, CopyFiles PROVE AloneInv' /\ (Apart => Stays)
<1>1. binned.book = None
  BY NoBookBinned DEF CopyFiles
<1>2. /\ UNCHANGED <<title, binned, contents>> /\ op.pc = "copy"
      /\ TypesInv /\ title \in Names /\ path \in Names
  BY DEF CopyFiles, IInv, TypesInv
<1> DEFINE T(S, P) == (S \ P) \cup Named(S \cap P, title)
<1>3. PICK P \in Picks(path), S \in SUBSET Files(path) :
        \E R \in Resolved(T(S, P)) : \E l \in Linked(Overwrites(T(S, P), R)), Q \in Written(R, Overwrites(T(S, P), R)) :
          /\ folder' = [l.folder EXCEPT ![title] = Q]
          /\ trash_b' = l.b /\ trash_f' = l.f
  BY DEF CopyFiles
<1>4. PICK R \in Resolved(T(S, P)) : \E l \in Linked(Overwrites(T(S, P), R)), Q \in Written(R, Overwrites(T(S, P), R)) :
          /\ folder' = [l.folder EXCEPT ![title] = Q]
          /\ trash_b' = l.b /\ trash_f' = l.f
  BY <1>3
<1> DEFINE W == Overwrites(T(S, P), R)
<1>5. /\ W \in SUBSET Write /\ R \in SUBSET File
      /\ \A w \in W : Has(Files(path), w.fmt, w.old) /\ Has(Files(path), w.fmt, w.new)
      /\ \A x \in R : Has(Files(path), x.fmt, x.content)
  BY <1>2, CopyWrites
<1>6. PICK l \in Linked(W), Q \in Written(R, W) :
          /\ folder' = [l.folder EXCEPT ![title] = Q]
          /\ trash_b' = l.b /\ trash_f' = l.f
  BY <1>4
<1> HIDE DEF W
<1>7. /\ \A w \in W : InLibrary(w.fmt, w.new)
      /\ \A x \in R : InLibrary(x.fmt, x.content)
  BY <1>2, <1>5 DEF InLibrary
<1>8. ASSUME NEW n \in Names, NEW y \in Files(n)' PROVE InLibrary(y.fmt, y.content)
  <2>1. CASE n = title
    <3>1. folder'[n] = Q
      BY <1>2, <1>5, <1>6, <2>1, LinkedFolders
    <3>2. y \in Q
      BY <1>8, <3>1 DEF Files, FilesIn
    <3>3. PICK x \in R : TurnedInto(x, y, W)
      BY <1>5, <3>2, WrittenFiles DEF FilesAfter
    <3> QED BY <1>7, <3>3 DEF TurnedInto
  <2>2. CASE n # title
    <3>1. folder'[n] = l.folder[n]
      BY <1>2, <1>5, <1>6, <2>2, LinkedFolders
    <3>2. y \in FilesIn(l.folder, n)
      BY <1>8, <3>1 DEF Files, FilesIn
    <3> QED BY <1>2, <1>5, <1>7, <3>2, LinkedFiles
  <2> QED BY <2>1, <2>2
<1>9. trash_b' # None => \A y \in trash_b'.files : InLibrary(y.fmt, y.content)
  BY <1>2, <1>5, <1>6, <1>7, LinkedFiles
<1>10. trash_f' # None => \A y \in trash_f'.files : InTrash(y.fmt, y.content) \/ InLibrary(y.fmt, y.content)
  BY <1>2, <1>5, <1>6, <1>7, LinkedFiles
<1>11. BookAlone' /\ \A f \in Formats : binned'.fmt[f] \in {None, binned.fmt[f]}
  BY <1>1, <1>2, NobookAlone
<1>12. \A f \in Formats, c \in Contents : InLibrary(f, c)' => InLibrary(f, c)
  BY <1>8, <1>9 DEF InLibrary, Has
<1>13. \A f \in Formats, c \in Contents : InTrash(f, c)' => InTrash(f, c) \/ InLibrary(f, c)
  BY <1>10 DEF InTrash, Has
<1>14. contents' \in Contents /\ contents <= contents'
  BY <1>2 DEF TypesInv, Contents
<1>15. ASSUME Apart PROVE Stays
  <2>1. \A w \in W : ~InTrash(w.fmt, w.old)
    BY <1>2, <1>2, <1>5, <1>15 DEF Apart, InLibrary, Write
  <2>2. trash_f' # None => trash_f # None /\ trash_f'.files \subseteq trash_f.files
    BY <1>2, <1>5, <1>6, <2>1, UntouchedTrash
  <2>3. \A f \in Formats, c \in Contents : InTrash(f, c)' => InTrash(f, c)
    BY <2>2 DEF InTrash, Has
  <2> QED BY <1>2, <1>12, <2>3 DEF Stays
<1>16. AloneInv'
  BY <1>2, <1>11, <1>12, <1>13, <1>14, AloneStep
<1> QED BY <1>15, <1>16

\* What is new after a file of the user was written.
LEMMA FormatWritten ==
  ASSUME IInv, op.pc = "write", UNCHANGED <<title, path>>, NEW c \in Contents,
         NEW l \in Linked(Overwrites(Files(path), {[fmt |-> op.fmt, name |-> title, content |-> c]})),
         folder' = [l.folder EXCEPT ![path] = Overwrite(@, {[fmt |-> op.fmt, name |-> title, content |-> c]})],
         trash_b' = l.b, trash_f' = l.f
  PROVE  /\ \A f \in Formats, d \in Contents : InLibrary(f, d)' => InLibrary(f, d) \/ d = c
         /\ \A f \in Formats, d \in Contents : InTrash(f, d)' => InTrash(f, d) \/ d = c
         /\ Apart => \A f \in Formats, d \in Contents : InTrash(f, d)' => InTrash(f, d)
<1>1. /\ TypesInv /\ title \in Names /\ path \in Names /\ Files(path) \in SUBSET File
      /\ op.fmt \in Formats /\ folder[path] # None
  BY FilesType, FolderAssumption DEF IInv, TypesInv, CallInv
<1> DEFINE new == [fmt |-> op.fmt, name |-> title, content |-> c]
           W == Overwrites(Files(path), {new})
<1>2. {new} \in SUBSET File
  BY <1>1, NewFile
<1>3. /\ W \in SUBSET Write /\ \A w \in W : w.new = c
      /\ \A w \in W : Has(Files(path), w.fmt, w.old)
  BY <1>1, <1>2, OverwritesType DEF Has
<1>4. l \in Linked(W) /\ folder' = [l.folder EXCEPT ![path] = Overwrite(@, {new})]
  OBVIOUS
<1>5. new.content = c
  OBVIOUS
<1> HIDE DEF W, new
<1>6. ASSUME NEW n \in Names, NEW y \in Files(n)' PROVE InLibrary(y.fmt, y.content) \/ y.content = c
  <2>1. y \in FilesIn(l.folder, n) \/ y = new
    <3>1. CASE n = path
      <4>1. folder'[n] = Overwrite(l.folder[n], {new}) /\ l.folder[n] # None
        BY <1>1, <1>3, <1>4, <3>1, LinkedFolders
      <4> QED BY <1>6, <4>1 DEF Files, FilesIn, Overwrite
    <3>2. CASE n # path
      <4>1. folder'[n] = l.folder[n]
        BY <1>1, <1>3, <1>4, <3>2, LinkedFolders
      <4> QED BY <1>6, <4>1 DEF Files, FilesIn
    <3> QED BY <3>1, <3>2
  <2>2. CASE y \in FilesIn(l.folder, n)
    BY <1>1, <1>3, <1>4, <2>2, LinkedFiles
  <2> QED BY <1>5, <2>1, <2>2
<1>7. trash_b' # None => \A y \in trash_b'.files : InLibrary(y.fmt, y.content) \/ y.content = c
  BY <1>1, <1>3, <1>4, LinkedFiles
<1>8. trash_f' # None => \A y \in trash_f'.files : InTrash(y.fmt, y.content) \/ y.content = c
  BY <1>1, <1>3, <1>4, LinkedFiles
<1>9. \A f \in Formats, d \in Contents : InLibrary(f, d)' => InLibrary(f, d) \/ d = c
  BY <1>6, <1>7 DEF InLibrary, Has
<1>10. \A f \in Formats, d \in Contents : InTrash(f, d)' => InTrash(f, d) \/ d = c
  BY <1>8 DEF InTrash, Has
<1>11. ASSUME Apart PROVE \A f \in Formats, d \in Contents : InTrash(f, d)' => InTrash(f, d)
  <2>1. \A w \in W : ~InTrash(w.fmt, w.old)
    BY <1>1, <1>3, <1>11 DEF Apart, InLibrary, Write
  <2>2. trash_f' # None => trash_f # None /\ trash_f'.files \subseteq trash_f.files
    BY <1>1, <1>3, <1>4, <2>1, UntouchedTrash
  <2> QED BY <2>2 DEF InTrash, Has
<1> QED BY <1>9, <1>10, <1>11

LEMMA AloneWriteFormat == ASSUME IInv, AloneInv, WriteFormat PROVE AloneInv'
<1>1. binned.book = None
  BY NoBookBinned DEF WriteFormat
<1>2. /\ UNCHANGED <<title, path, binned>> /\ op.pc = "write" /\ contents' = contents + 1
      /\ TypesInv /\ title \in Names /\ path \in Names /\ Files(path) \in SUBSET File
  BY FilesType DEF WriteFormat, IInv, TypesInv
<1>3. op.fmt \in Formats /\ contents < MaxContents /\ folder[path] # None
  BY <1>2, FolderAssumption DEF IInv, CallInv
<1>4. contents' \in Contents /\ Damaged \in Contents /\ contents < contents' /\ contents <= contents'
  BY <1>2, <1>3, BoundsAssumption DEF TypesInv, Contents, Damaged
<1>5. BookAlone' /\ \A f \in Formats : binned'.fmt[f] \in {None, binned.fmt[f]}
  BY <1>1, <1>2, NobookAlone
<1>6. CASE UNCHANGED <<folder, trash>>
  <2>1. /\ \A f \in Formats, c \in Contents : InLibrary(f, c)' => InLibrary(f, c)
        /\ \A f \in Formats, c \in Contents : InTrash(f, c)' => InTrash(f, c)
    BY <1>6 DEF InLibrary, InTrash, Has, Files, FilesIn, trash
  <2> QED BY <1>2, <1>4, <1>5, <2>1, AloneStep
<1> DEFINE new(c) == [fmt |-> op.fmt, name |-> title, content |-> c]
           W(c) == Overwrites(Files(path), {new(c)})
<1>7. ASSUME NEW c \in {contents', Damaged}, NEW l \in Linked(W(c)),
             folder' = [l.folder EXCEPT ![path] = Overwrite(@, {new(c)})],
             trash_b' = l.b, trash_f' = l.f
      PROVE  AloneInv'
  <2>1. c \in Contents
    BY <1>4
  <2>2. /\ \A f \in Formats, d \in Contents : InLibrary(f, d)' => InLibrary(f, d) \/ d = c
        /\ \A f \in Formats, d \in Contents : InTrash(f, d)' => InTrash(f, d) \/ d = c
    BY <1>2, <1>7, <2>1, FormatWritten
  <2>3. c = 0 \/ c = contents'
    BY DEF Damaged
  <2> QED BY <1>2, <1>4, <1>5, <2>2, <2>3, AloneStep
<1> HIDE DEF W
<1>8. CASE \E c \in {contents', Damaged} : \E l \in Linked(W(c)) :
             /\ folder' = [l.folder EXCEPT ![path] = Overwrite(@, {new(c)})]
             /\ trash_b' = l.b /\ trash_f' = l.f
  BY <1>7, <1>8
<1> QED BY <1>6, <1>8 DEF WriteFormat, W

\* Likewise after a file of the trash replaced that of the format.
LEMMA FileReplaced ==
  ASSUME IInv, op.pc = "replace", NEW x, folder' = [folder EXCEPT ![path] = Overwrite(@, {x})],
         NEW n \in Names, NEW y \in Files(n)'
  PROVE  y \in Files(n) \/ y = x
<1>1. TypesInv /\ path \in Names /\ folder[path] # None
  BY FolderAssumption DEF IInv, TypesInv, CallInv
<1> DEFINE T == Overwrite(folder[path], {x})
<1>2. T \subseteq folder[path] \cup {x}
  BY DEF Overwrite
<1>3. folder' = [folder EXCEPT ![path] = T]
  OBVIOUS
<1> HIDE DEF T
<1>4. folder'[n] = IF n = path THEN T ELSE folder[n]
  BY <1>1, <1>3 DEF TypesInv
<1> QED BY <1>1, <1>2, <1>4 DEF Files, FilesIn

LEMMA AloneReplaceFormat == ASSUME IInv, AloneInv, ReplaceFormat PROVE AloneInv'
<1>1. binned.book = None
  BY NoBookBinned DEF ReplaceFormat
<1>2. /\ UNCHANGED <<title, path, trash_b, contents>> /\ op.pc = "replace"
      /\ TypesInv /\ title \in Names /\ path \in Names
  BY DEF ReplaceFormat, IInv, TypesInv
<1>3. op.fmt \in Formats /\ trash_f # None /\ folder[path] # None /\ folder[path] \in SUBSET File
  BY <1>2, FolderAssumption DEF IInv, CallInv
<1>4. contents' \in Contents /\ contents <= contents'
  BY <1>2 DEF TypesInv, Contents
<1>5. CASE UNCHANGED <<folder, trash_f, binned>>
  <2>1. BookAlone'
    BY <1>1, <1>5, NobookAlone
  <2> QED BY <1>2, <1>5, <2>1, AloneLess
<1> DEFINE new(x) == [fmt |-> op.fmt, name |-> title, content |-> x.content]
<1>6. ASSUME NEW x \in trash_f.files, x.fmt = op.fmt,
             \/ /\ folder' = [folder EXCEPT ![path] = Overwrite(@, {new(x)})]
                /\ trash_f' = [files |-> trash_f.files \ {x}, at |-> now]
             \/ UNCHANGED <<folder, trash_f>>,
             binned' = [binned EXCEPT !.fmt[op.fmt] = None]
      PROVE  AloneInv'
  <2>1. /\ binned'.book = None
        /\ binned'.fmt[op.fmt] = None
        /\ \A g \in Formats \ {op.fmt} : binned'.fmt[g] = binned.fmt[g]
    BY <1>1, <1>2, <1>3, <1>6, BinnedChanged
  <2>2. BookAlone' /\ \A f \in Formats : binned'.fmt[f] \in {None, binned.fmt[f]}
    BY <2>1, NobookAlone
  <2>3. InTrash(op.fmt, x.content)
    BY <1>3, <1>6 DEF InTrash, Has
  <2>4. ASSUME NEW n \in Names, NEW y \in Files(n)' PROVE y \in Files(n) \/ y = new(x)
    <3>1. CASE folder' = folder
      BY <2>4, <3>1 DEF Files, FilesIn
    <3>2. CASE folder' = [folder EXCEPT ![path] = Overwrite(@, {new(x)})]
      BY <1>2, <2>4, <3>2, FileReplaced
    <3> QED BY <1>6, <3>1, <3>2
  <2>5. \A f \in Formats, c \in Contents : InLibrary(f, c)' =>
          InLibrary(f, c) \/ (binned'.fmt[f] = None /\ InTrash(f, c))
    <3> SUFFICES ASSUME NEW f \in Formats, NEW c \in Contents, NEW n \in Names, NEW y \in Files(n)', y \notin Files(n),
                        y.fmt = f, y.content = c
                 PROVE  binned'.fmt[f] = None /\ InTrash(f, c)
      BY <1>2 DEF InLibrary, Has
    <3>1. y = new(x)
      BY <2>4
    <3>2. f = op.fmt /\ c = x.content
      BY <3>1
    <3> QED BY <2>1, <2>3, <3>2
  <2>6. trash_f' # None => \A y \in trash_f'.files : y \in trash_f.files
    BY <1>6
  <2>7. \A f \in Formats, c \in Contents : InTrash(f, c)' => InTrash(f, c)
    BY <1>3, <2>6 DEF InTrash, Has
  <2> QED BY <1>2, <1>4, <2>2, <2>5, <2>7, AloneStep
<1> QED BY <1>5, <1>6 DEF ReplaceFormat

\* The link that is about to go.
LEMMA OnlyLinkStays ==
  ASSUME UNCHANGED <<path, fname>>, NEW f, NEW c, OnlyLink(f, c),
         \A n \in Names : Files(n)' \subseteq Files(n),
         trash_b' # None => trash_b # None /\ trash_b'.files \subseteq trash_b.files
  PROVE  OnlyLink(f, c)'
BY DEF OnlyLink, Has

LEMMA AloneFormatToTrash == ASSUME IInv, AloneInv, FormatToTrash PROVE AloneInv'
<1>1. binned.book = None
  BY NoBookBinned DEF FormatToTrash
<1>2. /\ UNCHANGED <<path, fname, contents>> /\ op.pc = "to_trash"
      /\ TypesInv /\ path \in Names
  BY DEF FormatToTrash, IInv, TypesInv
<1>3. /\ op.fmt \in Formats /\ trash_f # None /\ op.files \subseteq Contents
      /\ \A c \in op.files : Has(Files(path), op.fmt, c)
  BY <1>2 DEF IInv, CallInv
<1>4. contents' \in Contents /\ contents <= contents'
  BY <1>2 DEF TypesInv, Contents
<1>5. CASE UNCHANGED <<folder, trash, binned>>
  <2>1. BookAlone' /\ UNCHANGED <<trash_b, trash_f>>
    BY <1>1, <1>5, NobookAlone DEF trash
  <2> QED BY <1>2, <1>5, <2>1, AloneLess
<1> DEFINE there == {x \in trash_f.files : x.fmt = op.fmt}
           new(c) == [fmt |-> op.fmt, content |-> c]
           W(c) == {[fmt |-> op.fmt, old |-> x.content, new |-> c] : x \in there}
<1>6. ASSUME NEW c \in op.files \cup {Damaged}, NEW l \in Linked(W(c)),
             folder' = l.folder, trash_b' = l.b,
             trash_f' = [files |-> (trash_f.files \ there) \cup {new(c)}, at |-> TrashTime(op.fmt)],
             \/ /\ c \in op.files
                /\ GoesOn("unlink_format")
                /\ binned' = [binned EXCEPT !.fmt[op.fmt] =
                                IF there = {} /\ c # Damaged /\ OnlyLink(op.fmt, c)
                                THEN [files |-> {c}, at |-> now] ELSE None]
             \/ UNCHANGED binned
      PROVE  AloneInv'
  <2>1. /\ W(c) \in SUBSET Write /\ \A w \in W(c) : w.fmt = op.fmt /\ w.new = c
        /\ there = {} => W(c) = {}
    BY <1>2, TrashWrites
  <2> HIDE DEF W
  <2>2. InLibrary(op.fmt, c) \/ c = 0
    BY <1>2, <1>3 DEF InLibrary, Damaged
  <2>3. ASSUME NEW n \in Names, NEW y \in Files(n)'
        PROVE  InLibrary(y.fmt, y.content) \/ y.content = 0
    <3>1. y \in FilesIn(l.folder, n)
      BY <1>6, <2>3 DEF Files, FilesIn
    <3>2. InLibrary(y.fmt, y.content) \/ (y.fmt = op.fmt /\ y.content = c)
      BY <1>2, <2>1, <3>1, LinkedFiles
    <3> QED BY <2>2, <3>2
  <2>4. trash_b' # None => \A y \in trash_b'.files : InLibrary(y.fmt, y.content) \/ y.content = 0
    <3>1. l.b # None => \A y \in l.b.files : InLibrary(y.fmt, y.content) \/ (y.fmt = op.fmt /\ y.content = c)
      BY <1>2, <2>1, LinkedFiles
    <3> QED BY <1>6, <2>2, <3>1
  <2>5. \A f \in Formats, d \in Contents : InLibrary(f, d)' => InLibrary(f, d) \/ d = 0
    BY <2>3, <2>4 DEF InLibrary, Has
  <2>6. \A f \in Formats, d \in Contents : InTrash(f, d)' => InTrash(f, d) \/ InLibrary(f, d) \/ d = 0
    <3> SUFFICES ASSUME NEW f \in Formats, NEW d \in Contents, NEW y \in trash_f'.files, y.fmt = f, y.content = d
                 PROVE  InTrash(f, d) \/ InLibrary(f, d) \/ d = 0
      BY DEF InTrash, Has
    <3>1. y \in trash_f.files \/ y = new(c)
      BY <1>6
    <3>2. CASE y \in trash_f.files
      BY <1>3, <3>2 DEF InTrash, Has
    <3>3. CASE y = new(c)
      BY <2>2, <3>3
    <3> QED BY <3>1, <3>2, <3>3
  <2> DEFINE b == IF there = {} /\ c # Damaged /\ OnlyLink(op.fmt, c) THEN [files |-> {c}, at |-> now] ELSE None
  <2>7. b # None => there = {} /\ c # Damaged /\ OnlyLink(op.fmt, c) /\ b = [files |-> {c}, at |-> now]
    OBVIOUS
  <2>8. \/ binned' = binned
        \/ c \in op.files /\ GoesOn("unlink_format") /\ binned' = [binned EXCEPT !.fmt[op.fmt] = b]
    BY <1>6
  <2>9. b \in BinnedFormat \cup {None}
    BY <1>2, <1>3, BoundsAssumption DEF BinnedFormat, TypesInv, Contents, Damaged
  <2> HIDE DEF b
  <2>10. CASE binned' = binned
    <3>1. BookAlone' /\ \A f \in Formats : binned'.fmt[f] \in {None, binned.fmt[f]}
      BY <1>1, <2>10, NobookAlone
    <3> QED BY <1>2, <1>4, <2>5, <2>6, <3>1, AloneStep
  <2>11. CASE c \in op.files /\ GoesOn("unlink_format") /\ binned' = [binned EXCEPT !.fmt[op.fmt] = b]
    <3>1. /\ binned'.book = binned.book /\ binned'.fmt[op.fmt] = b
          /\ \A g \in Formats \ {op.fmt} : binned'.fmt[g] = binned.fmt[g]
      BY <1>2, <1>3, <2>9, <2>11, BinnedChanged
    <3>2. BookAlone'
      BY <1>1, <3>1, NobookAlone
    <3>3. op'.pc = "unlink_format" /\ op'.fmt = op.fmt
      <4>1. op' = [op EXCEPT !.pc = "unlink_format"]
        BY <2>11 DEF GoesOn
      <4> QED BY <1>2, <4>1, WentOn
    <3>4. ASSUME NEW f, f = op.fmt PROVE FormatAlone(f)'
      <4>1. CASE b = None
        BY <3>1, <3>4, <4>1 DEF FormatAlone
      <4>2. CASE b # None
        <5>1. there = {} /\ c # 0 /\ OnlyLink(op.fmt, c) /\ b = [files |-> {c}, at |-> now]
          BY <2>7, <4>2 DEF Damaged
        <5>2. 0 < c /\ c <= contents
          <6>1. c \in Contents /\ InLibrary(op.fmt, c)
            BY <1>3, <2>2, <2>11, <5>1
          <6>2. c <= contents
            BY <1>3, <6>1 DEF AloneInv, Bounded
          <6> QED BY <5>1, <6>1, <6>2 DEF Contents
        <5>3. \A n \in Names : Files(n)' \subseteq Files(n)
          <6> SUFFICES ASSUME NEW n \in Names, NEW y \in Files(n)' PROVE y \in Files(n)
            OBVIOUS
          <6>1. y \in FilesIn(l.folder, n)
            BY <1>6 DEF Files, FilesIn
          <6> QED BY <1>2, <2>1, <5>1, <6>1, LinkedFolders DEF FilesAfter, TurnedInto
        <5>4. trash_b' # None => trash_b # None /\ trash_b'.files \subseteq trash_b.files
          BY <1>2, <1>6, <2>1, <5>1, LinkedBook DEF FilesAfter, TurnedInto
        <5>5. OnlyLink(op.fmt, c)'
          <6>1. ASSUME NEW g, g = op.fmt PROVE OnlyLink(g, c)'
            BY <1>2, <5>1, <5>3, <5>4, <6>1, OnlyLinkStays
          <6> QED BY <3>3, <6>1
        <5>6. binned'.fmt[f] = [files |-> {c}, at |-> now]
          BY <3>1, <3>4, <5>1
        <5>7. OnlyLink(f, c)'
          <6>1. f = op'.fmt
            BY <3>3, <3>4
          <6> QED BY <5>5, <6>1
        <5> QED BY <1>2, <3>3, <3>4, <5>2, <5>6, <5>7 DEF FormatAlone
      <4> QED BY <4>1, <4>2
    <3>5. \A f \in Formats : FormatAlone(f)' \/ binned'.fmt[f] \in {None, binned.fmt[f]}
      BY <3>1, <3>4
    <3> QED BY <1>2, <1>4, <2>5, <2>6, <3>2, <3>5, AloneStep
  <2> QED BY <2>8, <2>10, <2>11
<1> HIDE DEF W
<1>7. CASE \E c \in op.files \cup {Damaged} : \E l \in Linked(W(c)) :
             /\ folder' = l.folder /\ trash_b' = l.b
             /\ trash_f' = [files |-> (trash_f.files \ there) \cup {new(c)}, at |-> TrashTime(op.fmt)]
             /\ \/ /\ c \in op.files
                   /\ GoesOn("unlink_format")
                   /\ binned' = [binned EXCEPT !.fmt[op.fmt] =
                                   IF there = {} /\ c # Damaged /\ OnlyLink(op.fmt, c)
                                   THEN [files |-> {c}, at |-> now] ELSE None]
                \/ UNCHANGED binned
  BY <1>6, <1>7
<1> QED BY <1>5, <1>7 DEF FormatToTrash, W

LEMMA AloneUnlinkFormat == ASSUME IInv, AloneInv, UnlinkFormat PROVE AloneInv'
<1>1. binned.book = None
  BY NoBookBinned DEF UnlinkFormat
<1>2. /\ UNCHANGED <<path, fname, contents, trash_b, trash_f>> /\ op.pc = "unlink_format"
      /\ TypesInv /\ path \in Names
  BY DEF UnlinkFormat, IInv, TypesInv, trash
<1>3. op.fmt \in Formats /\ folder[path] \in SUBSET File /\ folder[path] # None
  BY <1>2, FolderAssumption DEF IInv, CallInv
<1>4. contents' \in Contents /\ contents <= contents'
  BY <1>2 DEF TypesInv, Contents
<1>5. \A f \in Formats, c \in Contents : InTrash(f, c)' => InTrash(f, c)
  BY <1>2 DEF InTrash, Has
<1>6. CASE /\ folder' = [folder EXCEPT ![path] = {x \in @ : x.fmt # op.fmt \/ x.name # fname[op.fmt]}]
           /\ UNCHANGED binned
  <2> DEFINE S == {x \in Files(path) : x.fmt # op.fmt \/ x.name # fname[op.fmt]}
  <2>1. folder' = [folder EXCEPT ![path] = S] /\ S \in SUBSET File
    BY <1>3, <1>6 DEF Files, FilesIn
  <2>2. S \subseteq Files(path) /\ \A x \in S : x.fmt # op.fmt \/ x.name # fname[op.fmt]
    OBVIOUS
  <2> HIDE DEF S
  <2>3. \A n \in Names : Files(n)' = IF n = path THEN S ELSE Files(n)
    BY <1>2, <2>1, FolderAssumption DEF TypesInv, Files, FilesIn
  <2>4. \A f \in Formats, c \in Contents : InLibrary(f, c)' => InLibrary(f, c)
    BY <1>2, <2>2, <2>3 DEF InLibrary, Has
  <2>5. BookAlone'
    BY <1>1, <1>6, NobookAlone
  <2>6. ASSUME NEW f, f = op.fmt PROVE FormatAlone(f)'
    <3> SUFFICES ASSUME binned.fmt[f] # None, NEW c \in binned.fmt[f].files
                 PROVE  0 < c /\ c <= contents' /\ ~InLibrary(f, c)'
      BY <1>6 DEF FormatAlone
    <3>1. 0 < c /\ c <= contents /\ (~InLibrary(f, c) \/ OnlyLink(f, c))
      BY <1>3, <2>6 DEF AloneInv, FormatAlone
    <3>2. c \in Contents /\ f \in Formats
      <4>1. binned.fmt[f] \in BinnedFormat
        BY <1>2, <1>3, <2>6 DEF TypesInv
      <4> QED BY <1>3, <2>6, <4>1 DEF BinnedFormat
    <3>3. OnlyLink(f, c) => ~InLibrary(f, c)'
      BY <1>2, <2>2, <2>3, <2>6 DEF OnlyLink, InLibrary, Has
    <3> QED BY <1>2, <2>4, <3>1, <3>2, <3>3
  <2>7. \A f \in Formats : FormatAlone(f)' \/ (binned'.fmt[f] \in {None, binned.fmt[f]} /\ op.fmt # f)
    BY <1>6, <2>6
  <2> QED BY <1>4, <1>5, <2>4, <2>5, <2>7, AloneStep
<1>7. CASE UNCHANGED folder /\ binned' = [binned EXCEPT !.fmt[op.fmt] = None]
  <2>1. /\ binned'.book = binned.book /\ binned'.fmt[op.fmt] = None
        /\ \A g \in Formats \ {op.fmt} : binned'.fmt[g] = binned.fmt[g]
    BY <1>2, <1>3, <1>7, BinnedChanged
  <2>2. BookAlone'
    BY <1>1, <2>1, NobookAlone
  <2>3. \A f \in Formats, c \in Contents : InLibrary(f, c)' => InLibrary(f, c)
    BY <1>2, <1>7 DEF InLibrary, Has, Files, FilesIn
  <2>4. ASSUME NEW f, f = op.fmt PROVE FormatAlone(f)'
    BY <2>1, <2>4 DEF FormatAlone
  <2>5. \A f \in Formats : FormatAlone(f)' \/ (binned'.fmt[f] \in {None, binned.fmt[f]} /\ op.fmt # f)
    BY <2>1, <2>4
  <2> QED BY <1>4, <1>5, <2>2, <2>3, <2>5, AloneStep
<1> QED BY <1>6, <1>7 DEF UnlinkFormat

LEMMA AloneRows ==
  ASSUME IInv, AloneInv, UpdateRow \/ DeleteRow \/ UpdateRows PROVE AloneInv' /\ Stays
<1>1. binned.book = None
  BY NoBookBinned DEF UpdateRow, DeleteRow, UpdateRows
<1>2. /\ UNCHANGED <<folder, contents, binned, trash_b>> /\ trash_f' \in {trash_f, None}
      /\ op.pc # "unlink_format" /\ path \in Names
  BY DEF UpdateRow, DeleteRow, UpdateRows, trash, IInv, TypesInv
<1>3. BookAlone'
  BY <1>1, <1>2, NobookAlone
<1> QED BY <1>2, <1>3, AloneLess

LEMMA AloneRemove ==
  ASSUME IInv, AloneInv,
         (\E permanent \in BOOLEAN : RemoveBook(permanent)) \/ RemoveTree \/ EmptyTrash \/ CopyToTrash
  PROVE  AloneInv' /\ Stays
<1>1. binned.book = None /\ binned' = binned
  BY NoBookBinned DEF RemoveBook, RemoveTree, EmptyTrash, CopyToTrash
<1>2. /\ UNCHANGED <<contents, binned>> /\ op.pc # "unlink_format" /\ path \in Names
  <2>1. op = Idle \/ op.pc \in {"rmtree", "empty_trash", "copy_to_trash"}
    BY DEF RemoveBook, RemoveTree, EmptyTrash, CopyToTrash
  <2>2. op.pc # "unlink_format"
    BY <2>1 DEF Idle
  <2> QED BY <2>2 DEF RemoveBook, RemoveTree, EmptyTrash, CopyToTrash, IInv, TypesInv
<1>3. BookAlone'
  BY <1>1, NobookAlone
<1>4. folder' = folder \/ \E S \in (SUBSET Files(path)) \cup {None} : folder' = [folder EXCEPT ![path] = S]
  BY DEF RemoveBook, RemoveTree, EmptyTrash, CopyToTrash
<1>5. CASE (\E permanent \in BOOLEAN : RemoveBook(permanent)) \/ RemoveTree
  <2>1. trash_b' \in {trash_b, None} /\ trash_f' \in {trash_f, None}
    <3>1. CASE \E permanent \in BOOLEAN : RemoveBook(permanent)
      <4>1. \E t \in TrashDirs : trash_b' = t.b /\ trash_f' = t.f
        BY <3>1 DEF RemoveBook
      <4> QED BY <4>1 DEF TrashDirs, Kept
    <3>2. CASE RemoveTree
      BY <3>2 DEF RemoveTree, trash
    <3> QED BY <1>5, <3>1, <3>2
  <2> QED BY <1>2, <1>3, <1>4, <2>1, AloneLess
<1>6. CASE EmptyTrash \/ CopyToTrash
  <2>1. UNCHANGED <<folder, trash_f>>
    BY <1>6 DEF EmptyTrash, CopyToTrash
  <2>2. \A n \in Names : \A y \in Files(n)' : InLibrary(y.fmt, y.content)
    BY <2>1, There DEF Files, FilesIn
  <2>3. ASSUME trash_b' # None, NEW y \in trash_b'.files PROVE InLibrary(y.fmt, y.content)
    <3>1. CASE EmptyTrash
      <4>1. trash_b # None
        BY <2>3, <3>1 DEF EmptyTrash
      <4>2. trash_b \in BookEntry
        BY <4>1 DEF IInv, TypesInv
      <4>3. PICK S \in SUBSET trash_b.files, opf \in {FALSE, trash_b.opf} :
              trash_b' = [trash_b EXCEPT !.files = S, !.opf = opf]
        BY <2>3, <3>1, <4>1 DEF EmptyTrash
      <4>4. trash_b'.files = S
        BY <4>2, <4>3 DEF BookEntry
      <4> QED BY <2>3, <4>1, <4>4, There
    <3>2. CASE CopyToTrash
      <4>1. y \in Files(path)
        BY <2>3, <3>2 DEF CopyToTrash
      <4> QED BY <1>2, <4>1, There
    <3> QED BY <1>6, <3>1, <3>2
  <2> QED BY <1>2, <1>3, <2>1, <2>2, <2>3, There, AloneFiles
<1> QED BY <1>5, <1>6 DEF RemoveBook, RemoveTree, EmptyTrash, CopyToTrash

LEMMA AloneUnlinkBook == ASSUME IInv, AloneInv, UnlinkBook PROVE AloneInv' /\ Stays
<1>1. binned.book = None
  BY NoBookBinned DEF UnlinkBook
<1>2. /\ UNCHANGED <<path, contents, trash_b, trash_f>> /\ op.pc # "unlink_format"
      /\ TypesInv /\ path \in Names
  BY DEF UnlinkBook, trash, IInv, TypesInv
<1>3. folder' = folder \/ \E S \in (SUBSET Files(path)) \cup {None} : folder' = [folder EXCEPT ![path] = S]
  BY DEF UnlinkBook
<1>4. BookAlone' /\ \A f \in Formats : binned'.fmt[f] \in {None, binned.fmt[f]}
  <2>1. CASE binned' = binned
    BY <1>1, <2>1, NobookAlone
  <2> DEFINE fs == {x \in op.files : ~\E n \in Names \ {path} : Has(Files(n), x.fmt, x.content)}
             b == [files |-> fs, at |-> now]
  <2>2. CASE folder' = [folder EXCEPT ![path] = None] /\ binned' = [binned EXCEPT !.book = b]
    <3>1. \A x \in fs, n \in Names : n # path => ~Has(Files(n), x.fmt, x.content)
      OBVIOUS
    <3>2. b.files = fs
      OBVIOUS
    <3> HIDE DEF fs, b
    <3>3. binned'.book = b /\ binned'.fmt = binned.fmt
      <4>1. binned = [book |-> binned.book, fmt |-> binned.fmt]
        BY <1>2 DEF TypesInv
      <4>2. binned' = [book |-> b, fmt |-> binned.fmt]
        BY <2>2, <4>1
      <4> QED BY <4>2
    <3>4. \A n \in Names : folder'[n] = IF n = path THEN None ELSE folder[n]
      BY <1>2, <2>2 DEF TypesInv
    <3>5. ASSUME NEW x \in fs, NEW n \in Names PROVE ~Has(Files(n), x.fmt, x.content)'
      <4>1. CASE n = path
        <5>1. Files(n)' = {}
          BY <3>4, <4>1 DEF Files, FilesIn
        <5> QED BY <5>1 DEF Has
      <4>2. CASE n # path
        <5>1. Files(n)' = Files(n)
          BY <3>4, <4>2 DEF Files, FilesIn
        <5> QED BY <3>1, <4>2, <5>1 DEF Has
      <4> QED BY <4>1, <4>2
    <3> QED BY <3>2, <3>3, <3>5 DEF BookAlone
  <2> QED BY <2>1, <2>2 DEF UnlinkBook
<1> QED BY <1>2, <1>3, <1>4, AloneLess

LEMMA AloneCopyFromTrash == ASSUME IInv, AloneInv, CopyFromTrash PROVE AloneInv' /\ (Apart => Stays)
<1>1. UNCHANGED <<path, contents>> /\ op.pc = "from_trash"
  BY DEF CopyFromTrash
<1>2. TypesInv /\ path \in Names /\ trash_b # None
  BY <1>1 DEF IInv, CallInv, TypesInv
<1>3. PICK S \in SUBSET trash_b.files :
        /\ \E l \in Linked(Overwrites(Files(path), S)), R \in Written(S, Overwrites(Files(path), S)) :
             /\ folder' = [l.folder EXCEPT ![path] = Overwrite(FilesIn(l.folder, path), R)]
             /\ trash_b' = l.b /\ trash_f' = l.f
        /\ \/ op' = [op EXCEPT !.pc = "unlink_trash"] /\ UNCHANGED binned
           \/ binned' = [binned EXCEPT !.book = None]
  BY DEF CopyFromTrash
<1> DEFINE W == Overwrites(Files(path), S)
<1>4. /\ S \in SUBSET File /\ W \in SUBSET Write
      /\ \A w \in W : Has(Files(path), w.fmt, w.old) /\ Has(trash_b.files, w.fmt, w.new)
  BY <1>1, RestoreWrites
<1>5. PICK l \in Linked(W), R \in Written(S, W) :
             /\ folder' = [l.folder EXCEPT ![path] = Overwrite(FilesIn(l.folder, path), R)]
             /\ trash_b' = l.b /\ trash_f' = l.f
  BY <1>3
<1> HIDE DEF W
<1>6. \A w \in W : InLibrary(w.fmt, w.new)
  BY <1>2, <1>4 DEF InLibrary
<1>7. ASSUME NEW y \in R PROVE InLibrary(y.fmt, y.content)
  <2>1. PICK x \in S : TurnedInto(x, y, W)
    BY <1>4, WrittenFiles DEF FilesAfter
  <2>2. InLibrary(x.fmt, x.content)
    BY <1>2, There
  <2> QED BY <1>6, <2>1, <2>2 DEF TurnedInto
<1>8. ASSUME NEW n \in Names, NEW y \in Files(n)' PROVE InLibrary(y.fmt, y.content)
  <2>1. y \in FilesIn(l.folder, n) \/ y \in R
    <3>1. CASE n = path
      <4>1. folder'[n] = Overwrite(FilesIn(l.folder, path), R)
        BY <1>2, <1>4, <1>5, <3>1, LinkedFolders
      <4> QED BY <1>8, <3>1, <4>1 DEF Files, FilesIn, Overwrite
    <3>2. CASE n # path
      <4>1. folder'[n] = l.folder[n]
        BY <1>2, <1>4, <1>5, <3>2, LinkedFolders
      <4> QED BY <1>8, <4>1 DEF Files, FilesIn
    <3> QED BY <3>1, <3>2
  <2>2. CASE y \in FilesIn(l.folder, n)
    BY <1>2, <1>4, <1>6, <2>2, LinkedFiles
  <2> QED BY <1>7, <2>1, <2>2
<1>9. trash_b' # None => \A y \in trash_b'.files : InLibrary(y.fmt, y.content)
  BY <1>2, <1>4, <1>5, <1>6, LinkedFiles
<1>10. trash_f' # None => \A y \in trash_f'.files : InTrash(y.fmt, y.content) \/ InLibrary(y.fmt, y.content)
  BY <1>2, <1>4, <1>5, <1>6, LinkedFiles
<1>11. BookAlone' /\ binned'.fmt = binned.fmt
  <2>1. CASE op' = [op EXCEPT !.pc = "unlink_trash"] /\ UNCHANGED binned
    BY <1>2, <2>1, WentOn DEF BookAlone
  <2>2. CASE binned' = [binned EXCEPT !.book = None]
    BY <1>2, <2>2, NotBinned, NobookAlone
  <2> QED BY <1>3, <2>1, <2>2
<1>12. \A f \in Formats, c \in Contents : InLibrary(f, c)' => InLibrary(f, c)
  BY <1>8, <1>9 DEF InLibrary, Has
<1>13. \A f \in Formats, c \in Contents : InTrash(f, c)' => InTrash(f, c) \/ InLibrary(f, c)
  BY <1>10 DEF InTrash, Has
<1>14. contents' \in Contents /\ contents <= contents'
  BY <1>1, <1>2 DEF TypesInv, Contents
<1>15. ASSUME Apart PROVE Stays
  <2>1. \A w \in W : ~InTrash(w.fmt, w.old)
    BY <1>1, <1>2, <1>4, <1>15 DEF Apart, InLibrary, Write
  <2>2. trash_f' # None => trash_f # None /\ trash_f'.files \subseteq trash_f.files
    BY <1>2, <1>4, <1>5, <2>1, UntouchedTrash
  <2>3. \A f \in Formats, c \in Contents : InTrash(f, c)' => InTrash(f, c)
    BY <2>2 DEF InTrash, Has
  <2> QED BY <1>1, <1>12, <2>3 DEF Stays
<1>16. AloneInv'
  BY <1>1, <1>11, <1>12, <1>13, <1>14, AloneStep
<1> QED BY <1>15, <1>16

LEMMA AloneUnlinkTrash == ASSUME IInv, AloneInv, UnlinkTrash PROVE AloneInv' /\ Stays
<1>1. /\ UNCHANGED <<path, folder, trash_f, contents>> /\ op.pc = "unlink_trash"
      /\ binned' = [binned EXCEPT !.book = None]
  BY DEF UnlinkTrash
<1>2. TypesInv /\ path \in Names /\ trash_b # None /\ trash_b \in BookEntry
  BY <1>1 DEF IInv, CallInv, TypesInv
<1>3. BookAlone' /\ binned'.fmt = binned.fmt
  BY <1>1, <1>2, NotBinned, NobookAlone
<1>4. \A n \in Names : \A y \in Files(n)' : InLibrary(y.fmt, y.content)
  BY <1>1, There DEF Files, FilesIn
<1>5. ASSUME trash_b' # None, NEW y \in trash_b'.files PROVE InLibrary(y.fmt, y.content)
  <2>1. PICK S \in SUBSET trash_b.files, opf \in BOOLEAN : trash_b' = [trash_b EXCEPT !.files = S, !.opf = opf]
    BY <1>5 DEF UnlinkTrash
  <2>2. trash_b'.files = S
    BY <1>2, <2>1 DEF BookEntry
  <2> QED BY <1>2, <1>5, <2>2, There
<1> QED BY <1>1, <1>3, <1>4, <1>5, There, AloneFiles
-----------------------------------------------------------------------------
(* The trash keeps what it has. *)

LEMMA Initial == Init => IInv /\ AloneInv
<1> SUFFICES ASSUME Init PROVE IInv /\ AloneInv
  OBVIOUS
<1> USE DEF Init, NothingBinned, NoFormats, Idle
<1>1. TypesInv
  BY BoundsAssumption DEF TypesInv, Contents
<1>2. CallInv /\ GoneInv /\ BookKept
  BY DEF CallInv, GoneInv, BookKept
<1>3. \A f \in Formats : FormatKept(f)
  BY DEF FormatKept
<1>4. \A f, c : ~InLibrary(f, c) /\ ~InTrash(f, c)
  BY DEF InLibrary, InTrash, Has, Files, FilesIn
<1>5. Bounded
  BY <1>4 DEF Bounded
<1>6. BookAlone /\ \A f \in Formats : FormatAlone(f)
  BY DEF BookAlone, FormatAlone
<1> QED BY <1>1, <1>2, <1>3, <1>5, <1>6 DEF IInv, AloneInv

LEMMA StepCalls == ASSUME IInv, Calls PROVE IInv'
BY StepSetTitle, StepAddFormat, StepRemoveFormat, StepRestoreFormat, StepRemoveBook,
   StepRestoreBook, StepExpireOldTrash, StepDeleteTrash DEF Calls

LEMMA StepSteps == ASSUME IInv, AloneInv, Steps PROVE IInv'
BY StepRenameFormats, StepClearTarget, StepCopyFiles, StepUnlinkFiles, StepUpdatePathsInDB,
   StepWriteFormat, StepReplaceFormat, StepUpdateRow, StepFormatToTrash, StepUnlinkFormat, StepDeleteRow,
   StepRemoveTree, StepEmptyTrash, StepCopyToTrash, StepUnlinkBook,
   StepCopyFromTrash, StepUnlinkTrash, StepUpdateRows DEF Steps

LEMMA AloneNext == ASSUME IInv, AloneInv, Next PROVE AloneInv'
<1>1. CASE Calls \/ Restart \/ Tick
  BY <1>1, AloneQuiet, AloneFormatCalls, AloneRemove DEF Calls
<1>2. CASE Steps
  BY <1>2, AloneMove, AloneCopyFiles, AloneWriteFormat, AloneReplaceFormat, AloneFormatToTrash,
     AloneUnlinkFormat, AloneRows, AloneRemove, AloneUnlinkBook, AloneCopyFromTrash, AloneUnlinkTrash DEF Steps
<1> QED BY <1>1, <1>2 DEF Next

LEMMA Stutter == ASSUME IInv, AloneInv, UNCHANGED vars PROVE IInv' /\ AloneInv'
<1>1. UNCHANGED <<in_db, in_memory, title, path, fname, folder, trash_b, trash_f, now, op, contents, binned>>
  BY DEF vars
<1>2. TypesInv'
  BY <1>1 DEF IInv, TypesInv
<1>3. CallInv' /\ GoneInv' /\ BookKept'
  BY <1>1 DEF IInv, CallInv, GoneInv, BookKept, Has, Files, FilesIn
<1>4. (\A f \in Formats : FormatKept(f))'
  BY <1>1 DEF IInv, FormatKept
<1>5. Bounded' /\ BookAlone'
  BY <1>1 DEF AloneInv, Bounded, BookAlone, InLibrary, InTrash, Has, Files, FilesIn
<1>6. (\A f \in Formats : FormatAlone(f))'
  BY <1>1 DEF AloneInv, FormatAlone, InLibrary, OnlyLink, Has, Files, FilesIn
<1> QED BY <1>2, <1>3, <1>4, <1>5, <1>6 DEF IInv, AloneInv

LEMMA Invariance == Spec => [](IInv /\ AloneInv)
<1>1. Init => IInv /\ AloneInv
  BY Initial
<1>2. IInv /\ AloneInv /\ [Next]_vars => IInv' /\ AloneInv'
  BY StepCalls, StepSteps, StepRestart, StepTick, AloneNext, Stutter DEF Next
<1> QED BY <1>1, <1>2, PTL DEF Spec

\* gui2/trash.py: what was removed stays in the trash until it is old enough,
\* with all its files and what was in them, for any number of names, formats and
\* files, whatever is written into their links, and however many calls end early
\* in any of their steps; unless the user deletes it, takes it back, or removes
\* the same format again.  Not counted on are a format whose removal ended early,
\* and a file that may have another link in the library.
THEOREM TrashKeeps == Spec => []KeptInTrash
<1>1. IInv => KeptInTrash
  BY DEF IInv, BookKept, FormatKept, KeptInTrash
<1> QED BY <1>1, Invariance, PTL
-----------------------------------------------------------------------------
(* Where the files of a format are during a call. *)

\* The files of a format among those of S, and the one that its row calls for.
Of(S, f) == {x \in S : x.fmt = f}
TheFile(f, n) == [fmt |-> f, name |-> n, content |-> wanted[f]]

\* Of format f, S has what the user wants, under the name n, and nothing else.
Holds(S, f, n) == IF fname[f] = None THEN wanted[f] = None /\ Of(S, f) = {}
                  ELSE wanted[f] # None /\ Of(S, f) = {TheFile(f, n)}

MovePCs == {"rename", "clear", "copy", "unlink", "paths"}
FormatPCs == {"write", "replace", "row", "to_trash", "unlink_format", "delete_row"}
RestorePCs == {"from_trash", "unlink_trash", "rows"}
RemovePCs == {"rmtree", "empty_trash", "copy_to_trash", "unlink_book"}

\* Where a call is, and what it found or made for its next step.
StageInv ==
  /\ wanted \in [Formats -> Contents \cup {None}]
  /\ torn \subseteq Formats
  /\ op.pc \in {"idle"} \cup MovePCs \cup FormatPCs \cup RestorePCs \cup RemovePCs
  /\ op.pc = "idle" => op = Idle
  /\ op.pc \in MovePCs \cup FormatPCs \cup RestorePCs => in_db
  /\ op.pc \in RemovePCs => ~in_db
  /\ in_db => in_memory
  /\ ~in_db \/ op.pc \in RestorePCs => wanted = NoFormats
  /\ op.pc \in {"clear", "copy", "unlink"} => path # title
  /\ op.pc = "rename" => path = title
  /\ op.pc = "copy" => folder[title] = None
  /\ op.pc = "paths" => path = title \/ folder[path] = None
  /\ op.pc \in {"unlink"} \cup RemovePCs => folder[path] # None
  /\ op.pc = "copy_to_trash" => trash_b = None
  /\ op.pc = "from_trash" => op.files = trash_b.files
  /\ op.pc = "row" => wanted[op.fmt] # None /\ TheFile(op.fmt, title) \in Files(path)

\* Where the files of format f are: under the name of its row while nothing
\* touches them; under the title in the folder they move to, and while the
\* format is replaced; where the trash says, before a restored book has rows.
InOrder(f) ==
  /\ (in_db /\ op.pc \in {"idle", "rename", "clear", "copy", "unlink"}) => Holds(Files(path), f, fname[f])
  /\ (op.pc \in FormatPCs /\ op.fmt # f) => Holds(Files(path), f, fname[f])
  /\ op.pc \in {"unlink", "paths"} => Holds(Files(title), f, title)
  /\ (op.pc \in {"write", "replace"} /\ op.fmt = f) => Holds(Files(path), f, title)
  /\ (op.pc = "row" /\ op.fmt = f) => Of(Files(path), f) = {TheFile(f, title)}
  /\ (op.pc \in {"to_trash", "unlink_format"} /\ op.fmt = f) =>
       wanted[f] = None /\ \A x \in Of(Files(path), f) : x.name = fname[f]
  /\ (op.pc = "delete_row" /\ op.fmt = f) => wanted[f] = None /\ Of(Files(path), f) = {}
  /\ op.pc \in {"unlink_trash", "rows"} =>
       /\ Of(Files(path), f) = Of(op.files, f)
       /\ \A x, y \in Of(op.files, f) : x = y

OrderInv == \A f \in Formats \ torn : InOrder(f)

\* What TLC checks follows.
LEMMA TypesHold == IInv /\ StageInv => TypeOK
<1> SUFFICES ASSUME IInv, StageInv PROVE TypeOK
  OBVIOUS
<1> USE DEF IInv, TypesInv, CallInv, StageInv, RemovePCs
<1>1. /\ in_db \in BOOLEAN /\ in_memory \in BOOLEAN
      /\ title \in Names /\ path \in Names
      /\ fname \in [Formats -> Names \cup {None}]
      /\ torn \subseteq Formats
  OBVIOUS
<1>2. \A n \in Names : folder[n] # None => folder[n] \subseteq File
  OBVIOUS
<1>3. /\ trash_b # None => trash_b.files \subseteq File /\ trash_b.title \in Names
      /\ trash_f # None => trash_f.files \subseteq TrashedFile
  BY DEF BookEntry, FormatsEntry
<1>4. op.pc \in {"unlink", "rmtree", "unlink_book", "write", "replace", "to_trash", "unlink_format"} =>
        folder[path] # None
  BY FolderAssumption
<1>5. /\ op.pc = "copy" => folder[title] = None
      /\ op.pc = "copy_to_trash" => trash_b = None
      /\ op.pc \in {"from_trash", "unlink_trash", "unlink_book"} => trash_b # None
  OBVIOUS
<1> QED BY <1>1, <1>2, <1>3, <1>4, <1>5 DEF TypeOK

LEMMA FilesFound ==
  ASSUME OrderInv, Live, NEW f \in Formats \ torn, wanted[f] # None
  PROVE  /\ fname[f] # None
         /\ FormatFiles(path, f) # {}
         /\ \A x \in FormatFiles(path, f) : x.content = wanted[f]
<1>1. Holds(Files(path), f, fname[f])
  BY DEF OrderInv, InOrder, Live, Idle
<1>2. fname[f] # None /\ Of(Files(path), f) = {TheFile(f, fname[f])}
  BY <1>1 DEF Holds
<1>3. {x \in Files(path) : x.fmt = f /\ x.name = fname[f]} = {TheFile(f, fname[f])}
  BY <1>2 DEF Of, TheFile
<1>4. FormatFiles(path, f) = {TheFile(f, fname[f])}
  BY <1>3 DEF FormatFiles
<1> QED BY <1>2, <1>4 DEF TheFile

\* What the user has in the formats that are in order is in files.
InFiles == \A f \in Formats \ torn : wanted[f] # None => Somewhere(f)

LEMMA ContentsThere == IInv /\ StageInv /\ OrderInv => InFiles
<1> SUFFICES ASSUME IInv, StageInv, OrderInv, NEW f \in Formats \ torn, wanted[f] # None
             PROVE  \E n \in Names : \E x \in Files(n) : x.fmt = f /\ x.content = wanted[f]
  BY DEF InFiles, Somewhere
<1>1. InOrder(f) /\ path \in Names /\ title \in Names
  BY DEF OrderInv, IInv, TypesInv
<1>2. in_db /\ op.pc \notin RestorePCs
  BY DEF StageInv, NoFormats
<1>3. ASSUME NEW n \in Names, NEW m, TheFile(f, m) \in Files(n)
      PROVE  \E x \in Files(n) : x.fmt = f /\ x.content = wanted[f]
  BY <1>3 DEF TheFile
<1>4. ASSUME NEW n \in Names, NEW m, Of(Files(n), f) = {TheFile(f, m)}
      PROVE  TheFile(f, m) \in Files(n)
  BY <1>4 DEF Of
<1>5. ASSUME NEW n \in Names, NEW m, Holds(Files(n), f, m)
      PROVE  TheFile(f, m) \in Files(n)
  BY <1>4, <1>5 DEF Holds
<1>6. CASE op.pc \in {"idle", "rename", "clear", "copy", "unlink"} \/ (op.pc \in FormatPCs /\ op.fmt # f)
  BY <1>1, <1>2, <1>3, <1>5, <1>6 DEF InOrder
<1>7. CASE op.pc = "paths"
  BY <1>1, <1>3, <1>5, <1>7 DEF InOrder
<1>8. CASE op.pc \in FormatPCs /\ op.fmt = f
  BY <1>1, <1>3, <1>4, <1>5, <1>8 DEF InOrder, FormatPCs
<1>9. op.pc \in {"idle"} \cup MovePCs \cup FormatPCs
  BY <1>2 DEF StageInv
<1> QED BY <1>6, <1>7, <1>8, <1>9 DEF MovePCs
-----------------------------------------------------------------------------
(* Changes of sets of files. *)

LEMMA OfOverwrite ==
  ASSUME NEW S \in SUBSET File, NEW T \in SUBSET File, NEW f
  PROVE  Of(Overwrite(S, T), f) = Overwrite(Of(S, f), Of(T, f))
BY DEF Of, Overwrite, SameFile

\* What is written replaces what has its name: nothing, if there is no file of the format.
LEMMA OfWritten ==
  ASSUME NEW S, NEW T, NEW f, Of(S, f) = {}
  PROVE  Of(Overwrite(S, T), f) = Of(T, f)
BY DEF Of, Overwrite, SameFile

\* Files of other formats do not matter.
LEMMA OfOthers ==
  ASSUME NEW S, NEW T, NEW f, Of(T, f) = {}
  PROVE  Of(Overwrite(S, T), f) = Of(S, f)
BY DEF Of, Overwrite, SameFile

\* The file of a format that has no file of another name.
LEMMA OfReplaced ==
  ASSUME NEW S, NEW x, NEW f, x.fmt = f, \A y \in Of(S, f) : y.name = x.name
  PROVE  Of(Overwrite(S, {x}), f) = {x}
BY DEF Of, Overwrite, SameFile

LEMMA OfNamed ==
  ASSUME NEW S \in SUBSET File, NEW n, NEW f
  PROVE  Of(Named(S, n), f) = Named(Of(S, f), n)
<1>1. \A x \in File : [x EXCEPT !.name = n].fmt = x.fmt
  BY DEF File
<1> QED BY <1>1 DEF Of, Named

LEMMA OverwriteNone == ASSUME NEW S PROVE Overwrite(S, {}) = S
BY DEF Overwrite

LEMMA NamedOne == ASSUME NEW f, NEW m, NEW n PROVE Named({TheFile(f, m)}, n) = {TheFile(f, n)}
<1>1. [TheFile(f, m) EXCEPT !.name = n] = TheFile(f, n)
  BY DEF TheFile
<1> QED BY <1>1 DEF Named

LEMMA NamedNone == ASSUME NEW n PROVE Named({}, n) = {}
BY DEF Named

LEMMA OneOf ==
  ASSUME NEW S, NEW T, NEW f
  PROVE  /\ Of(S \ T, f) = Of(S, f) \ Of(T, f)
         /\ Of(S \cup T, f) = Of(S, f) \cup Of(T, f)
         /\ Of(S \cap T, f) = Of(S, f) \cap Of(T, f)
         /\ T \subseteq S => Of(T, f) \subseteq Of(S, f)
         /\ Of({}, f) = {}
         /\ \A x : Of({x}, f) = IF x.fmt = f THEN {x} ELSE {}
BY DEF Of

\* A folder that is changed, and those that are not.
LEMMA FilesChanged ==
  ASSUME TypesInv, NEW n \in Names, NEW S \in (SUBSET File) \cup {None},
         folder' = [folder EXCEPT ![n] = S]
  PROVE  /\ Files(n)' = IF S = None THEN {} ELSE S
         /\ \A m \in Names : m # n => Files(m)' = Files(m)
BY DEF TypesInv, Files, FilesIn

\* A format that is in order has one file to pick.
LEMMA PickedOne ==
  ASSUME NEW n, NEW P \in Picks(n), NEW f \in Formats, Holds(Files(n), f, fname[f])
  PROVE  Of(P, f) = Of(Files(n), f)
<1>1. P \subseteq Files(n)
  BY DEF Picks
<1>2. CASE fname[f] = None
  BY <1>1, <1>2 DEF Holds, Of
<1>3. CASE fname[f] # None
  <2> DEFINE y == TheFile(f, fname[f])
  <2>1. Of(Files(n), f) = {y} /\ y.fmt = f /\ y.name = fname[f]
    BY <1>3 DEF Holds, TheFile
  <2>2. y \in FormatFiles(n, f)
    BY <2>1 DEF Of, FormatFiles
  <2>3. One({x \in P : x.fmt = f})
    BY <1>3, <2>2 DEF Picks, Rows
  <2>4. \E z \in P : z.fmt = f
    BY <2>3 DEF One
  <2> QED BY <1>1, <2>1, <2>4 DEF Of
<1> QED BY <1>2, <1>3

\* A file that is renamed, or has the name already.
LEMMA OneRenamed ==
  ASSUME NEW F \in SUBSET File, NEW S \in SUBSET F, NEW n, NEW f, NEW x,
         Of(F, f) = {x}, x \in S \/ x.name = n
  PROVE  Of(Overwrite(F \ S, Named(S, n)), f) = {[x EXCEPT !.name = n]}
<1>1. x \in File /\ x.fmt = f /\ x \in F
  BY DEF Of
<1>2. Of(Named(S, n), f) = Named(Of(S, f), n)
  BY OfNamed
<1>3. CASE x \in S
  <2>1. Of(F \ S, f) = {} /\ Of(S, f) = {x}
    BY <1>1, <1>3 DEF Of
  <2>2. Named({x}, n) = {[x EXCEPT !.name = n]}
    BY DEF Named
  <2> QED BY <1>2, <2>1, <2>2, OfWritten
<1>4. CASE x \notin S
  <2>1. Of(F \ S, f) = {x} /\ Of(S, f) = {}
    BY <1>1, <1>4 DEF Of
  <2>2. Of(Named(S, n), f) = {}
    BY <1>2, <2>1, NamedNone
  <2>3. [x EXCEPT !.name = n] = x
    BY <1>1, <1>4 DEF File
  <2> QED BY <2>1, <2>2, <2>3, OfOthers
<1> QED BY <1>3, <1>4

\* The same, for the file that a row calls for, if the others may stay.
LEMMA RowRenamed ==
  ASSUME IInv, NEW f \in Formats, NEW P \in SUBSET Files(path), NEW S \in SUBSET P, MayStay(P \ S),
         Holds(Files(path), f, fname[f]), Of(P, f) = Of(Files(path), f)
  PROVE  fname[f] # None => Of(Overwrite(Files(path) \ S, Named(S, title)), f) = {TheFile(f, title)}
<1> SUFFICES ASSUME fname[f] # None
             PROVE  Of(Overwrite(Files(path) \ S, Named(S, title)), f) = {TheFile(f, title)}
  OBVIOUS
<1> DEFINE x == TheFile(f, fname[f])
<1>1. Of(Files(path), f) = {x} /\ Files(path) \in SUBSET File
  BY FilesType DEF Holds, IInv, TypesInv
<1>2. [x EXCEPT !.name = title] = TheFile(f, title) /\ x.fmt = f
  BY DEF TheFile
<1>3. x \in P
  BY <1>1 DEF Of
<1>4. x \in S \/ x.name = title
  <2>1. ASSUME x \notin S PROVE x.name = title
    <3>1. TheFile(f, title) \in Files(path)
      BY <1>2, <1>3, <2>1 DEF MayStay
    <3>2. TheFile(f, title).fmt = f /\ TheFile(f, title).name = title
      BY DEF TheFile
    <3>3. TheFile(f, title) = x
      BY <1>1, <3>1, <3>2 DEF Of
    <3> QED BY <3>2, <3>3
  <2> QED BY <2>1
<1> HIDE DEF x
<1>5. Of(Overwrite(Files(path) \ S, Named(S, title)), f) = {[x EXCEPT !.name = title]}
  BY <1>1, <1>4, OneRenamed
<1> QED BY <1>2, <1>5

\* Writes that put nothing else in place of a format.
LEMMA AfterSame ==
  ASSUME NEW S \in SUBSET File, NEW T \in SUBSET File, NEW W, NEW f, FilesAfter(T, S, W),
         \A x \in Of(S, f) : ~Effective(W, f, x.content)
  PROVE  Of(T, f) = Of(S, f)
<1>1. ASSUME NEW y \in T, y.fmt = f PROVE y \in S
  <2>1. PICK x \in S : y.name = x.name /\ TurnedInto(x, y, W)
    BY <1>1 DEF FilesAfter
  <2>2. y.fmt = x.fmt /\ y.content = x.content
    BY <1>1, <2>1 DEF TurnedInto, Effective, Of
  <2>3. y = x
    BY <2>1, <2>2 DEF File
  <2> QED BY <2>3
<1>2. ASSUME NEW x \in S, x.fmt = f PROVE x \in T
  BY <1>2 DEF FilesAfter, Of
<1> QED BY <1>1, <1>2 DEF Of

----------------------------------------------------------------------------
(* Steps. *)

\* A call that is over.
LEMMA OverStage ==
  ASSUME op' = Idle, wanted' \in [Formats -> Contents \cup {None}], torn' \subseteq Formats,
         in_db' => in_memory', ~in_db' => wanted' = NoFormats
  PROVE  StageInv'
BY DEF StageInv, Idle, MovePCs, FormatPCs, RestorePCs, RemovePCs

LEMMA OverOrder ==
  ASSUME op' = Idle, NEW f, in_db' => Holds(Files(path), f, fname[f])'
  PROVE  InOrder(f)'
BY DEF InOrder, Idle, FormatPCs

LEMMA EarlyStage ==
  ASSUME IInv, StageInv, NEW T \in SUBSET Formats, EndsEarly(T), in_db' = in_db, wanted' = wanted
  PROVE  /\ op' = Idle /\ torn' = torn \cup T
         /\ StageInv'
<1>1. op' = Idle /\ torn' = torn \cup T /\ in_memory' \in {in_memory, in_db}
  BY DEF EndsEarly
<1>2. in_db' => in_memory'
  BY <1>1 DEF StageInv
<1> QED BY <1>1, <1>2, OverStage DEF StageInv

\* A call that goes on leaves the tables in memory and the history alone.
LEMMA OnStage ==
  ASSUME IInv, NEW p, GoesOn(p)
  PROVE  /\ op'.pc = p /\ op'.fmt = op.fmt /\ op'.files = op.files
         /\ in_memory' = in_memory /\ torn' = torn
<1>1. op' = [op EXCEPT !.pc = p] /\ in_memory' = in_memory /\ torn' = torn
  BY DEF GoesOn
<1> QED BY <1>1, WentOn DEF IInv

\* Files, FilesIn, rows and wishes that stay.
LEMMA HoldsStays ==
  ASSUME NEW f, NEW S, NEW n, wanted' = wanted, fname' = fname, Holds(S, f, n)
  PROVE  /\ fname'[f] = None => wanted'[f] = None /\ Of(S, f) = {}
         /\ fname'[f] # None => wanted'[f] # None /\ Of(S, f) = {[fmt |-> f, name |-> n, content |-> wanted'[f]]}
BY DEF Holds, TheFile

LEMMA OrderSetTitle == ASSUME IInv, StageInv, OrderInv, NEW n \in Names, SetTitle(n) PROVE StageInv' /\ OrderInv'
<1> DEFINE p == IF n # path THEN "clear" ELSE IF \E f \in Rows : fname[f] # n THEN "rename" ELSE "idle"
<1>1. Goto(p, None, {})
  BY DEF SetTitle
<1>2. op' = [pc |-> p, fmt |-> None, files |-> {}]
  BY <1>1 DEF Goto
<1>3. /\ UNCHANGED <<in_db, in_memory, path, fname, folder, wanted, torn>> /\ title' = n
      /\ op = Idle /\ in_db /\ in_memory
  BY DEF SetTitle, Live, history
<1>4. StageInv'
  BY <1>2, <1>3 DEF StageInv, Idle, MovePCs, FormatPCs, RestorePCs, RemovePCs
<1>5. ASSUME NEW f \in Formats \ torn PROVE InOrder(f)'
  <2>1. Holds(Files(path), f, fname[f])
    BY <1>3 DEF OrderInv, InOrder, Idle
  <2>2. Holds(Files(path), f, fname[f])'
    BY <1>3, <2>1 DEF Holds, TheFile, Files, FilesIn
  <2> QED BY <1>2, <2>2 DEF InOrder, FormatPCs
<1> QED BY <1>3, <1>4, <1>5 DEF OrderInv

LEMMA OrderRenameFormats == ASSUME IInv, StageInv, OrderInv, RenameFormats PROVE StageInv' /\ OrderInv'
<1>1. /\ UNCHANGED <<in_db, title, path, fname, wanted>> /\ op.pc = "rename"
  BY DEF RenameFormats
<1>2. PICK P \in Picks(path) : \E S \in SUBSET P :
        /\ folder' = IF S = {} THEN folder
                      ELSE [folder EXCEPT ![path] = Overwrite(@ \ S, Named(S, title))]
        /\ (MayStay(P \ S) /\ GoesOn("paths")) \/ EndsEarly(Rows)
  BY DEF RenameFormats
<1>3. PICK S \in SUBSET P :
        /\ folder' = IF S = {} THEN folder
                      ELSE [folder EXCEPT ![path] = Overwrite(@ \ S, Named(S, title))]
        /\ (MayStay(P \ S) /\ GoesOn("paths")) \/ EndsEarly(Rows)
  BY <1>2
<1>4. TypesInv /\ path \in Names /\ title \in Names /\ in_db
  BY <1>1 DEF IInv, TypesInv, StageInv, MovePCs
<1>5. P \subseteq Files(path) /\ Files(path) \in SUBSET File
  BY <1>4, FilesType DEF Picks
<1>6. Files(path)' = Overwrite(Files(path) \ S, Named(S, title))
  BY <1>1, <1>3, <1>5, RenamedFiles
<1>7. ASSUME NEW f \in Formats \ Rows, f \notin torn
      PROVE  wanted[f] = None /\ Of(Files(path), f)' = {}
  <2>1. wanted[f] = None /\ Of(Files(path), f) = {} /\ fname[f] = None
    BY <1>1, <1>4, <1>7 DEF OrderInv, InOrder, Holds, Rows
  <2>2. Of(S, f) = {}
    BY <1>5, <2>1 DEF Of
  <2>3. Of(Overwrite(Files(path) \ S, Named(S, title)), f) = {}
    <3>1. Of(Named(S, title), f) = {}
      BY <1>5, <2>2, OfNamed, NamedNone
    <3>2. Of(Files(path) \ S, f) = {}
      BY <2>1 DEF Of
    <3> QED BY <3>1, <3>2, OfWritten
  <2> QED BY <1>6, <2>1, <2>3
<1>8. CASE MayStay(P \ S) /\ GoesOn("paths")
  <2>1. /\ op'.pc = "paths" /\ op'.fmt = op.fmt /\ op'.files = op.files
        /\ in_memory' = in_memory /\ torn' = torn
    BY <1>8, OnStage
  <2>2. path = title
    BY <1>1 DEF StageInv
  <2>3. StageInv'
    BY <1>1, <2>1, <2>2 DEF StageInv, MovePCs, FormatPCs, RestorePCs, RemovePCs
  <2>4. ASSUME NEW f \in Formats \ torn PROVE InOrder(f)'
    <3>1. Holds(Files(path), f, fname[f])
      BY <1>1, <1>4 DEF OrderInv, InOrder
    <3>2. Of(P, f) = Of(Files(path), f)
      BY <3>1, PickedOne
    <3>4. Holds(Files(title), f, title)'
      <4>1. CASE fname[f] = None
        BY <1>1, <1>7, <2>2, <2>4, <4>1 DEF Holds, Rows
      <4>2. CASE fname[f] # None
        <5>1. wanted[f] # None
          BY <3>1, <4>2 DEF Holds
        <5>2. Of(Files(path), f)' = {TheFile(f, title)}
          BY <1>3, <1>5, <1>6, <1>8, <3>1, <3>2, <4>2, RowRenamed
        <5> QED BY <1>1, <2>2, <4>2, <5>1, <5>2 DEF Holds, TheFile
      <4> QED BY <4>1, <4>2
    <3> QED BY <2>1, <3>4 DEF InOrder, FormatPCs
  <2> QED BY <2>1, <2>3, <2>4 DEF OrderInv
<1>9. CASE EndsEarly(Rows)
  <2>1. op' = Idle /\ torn' = torn \cup Rows /\ StageInv'
    BY <1>1, <1>9, EarlyStage DEF Rows
  <2>2. ASSUME NEW f \in Formats \ torn' PROVE InOrder(f)'
    <3>1. f \notin torn /\ f \in Formats \ Rows
      BY <2>1, <2>2
    <3>2. wanted[f] = None /\ Of(Files(path), f)' = {}
      BY <1>7, <3>1
    <3>3. Holds(Files(path), f, fname[f])'
      BY <1>1, <3>1, <3>2 DEF Holds, Rows
    <3> QED BY <2>1, <3>3, OverOrder
  <2> QED BY <2>1, <2>2 DEF OrderInv
<1> QED BY <1>3, <1>8, <1>9

LEMMA OtherStays ==
  ASSUME NEW f, Holds(Files(path), f, fname[f]), Of(Files(path), f)' = Of(Files(path), f),
         wanted'[f] = wanted[f], fname'[f] = fname[f]
  PROVE  Holds(Files(path), f, fname[f])'
BY DEF Holds, TheFile

\* The folder of the title is another one than that of the row: what is done to
\* it leaves the files of the row alone.
LEMMA OtherFolder ==
  ASSUME IInv, path # title, NEW S \in (SUBSET File) \cup {None}, folder' = [folder EXCEPT ![title] = S],
         UNCHANGED <<title, path, fname, wanted>>, NEW f, Holds(Files(path), f, fname[f])
  PROVE  Holds(Files(path), f, fname[f])'
<1>1. path \in Names /\ title \in Names /\ TypesInv
  BY DEF IInv, TypesInv
<1>2. folder'[path] = folder[path]
  BY <1>1 DEF TypesInv
<1>3. Files(path)' = Files(path)
  BY <1>2 DEF Files, FilesIn
<1> QED BY <1>3 DEF Holds, TheFile

LEMMA OrderClearTarget == ASSUME IInv, StageInv, OrderInv, ClearTarget PROVE StageInv' /\ OrderInv'
<1>1. /\ UNCHANGED <<in_db, title, path, fname, wanted>> /\ op.pc = "clear"
  BY DEF ClearTarget
<1>2. /\ TypesInv /\ path \in Names /\ title \in Names /\ in_db /\ path # title
      /\ Files(title) \in SUBSET File
  BY <1>1, FilesType DEF IInv, TypesInv, StageInv, MovePCs
<1>3. ASSUME NEW f \in Formats \ torn, NEW S \in (SUBSET File) \cup {None},
             folder' = [folder EXCEPT ![title] = S]
      PROVE  Holds(Files(path), f, fname[f])'
  <2>1. Holds(Files(path), f, fname[f])
    BY <1>1, <1>2 DEF OrderInv, InOrder
  <2> QED BY <1>1, <1>2, <1>3, <2>1, OtherFolder
<1>4. CASE folder' = [folder EXCEPT ![title] = None] /\ GoesOn("copy")
  <2>1. /\ op'.pc = "copy" /\ op'.fmt = op.fmt /\ op'.files = op.files
        /\ in_memory' = in_memory /\ torn' = torn
    BY <1>4, OnStage
  <2>2. folder'[title] = None
    BY <1>2, <1>4, FolderChanged
  <2>3. StageInv'
    BY <1>1, <1>2, <2>1, <2>2 DEF StageInv, MovePCs, FormatPCs, RestorePCs, RemovePCs
  <2>4. ASSUME NEW f \in Formats \ torn PROVE InOrder(f)'
    BY <1>3, <1>4, <2>1 DEF InOrder, FormatPCs
  <2> QED BY <2>1, <2>3, <2>4 DEF OrderInv
<1>5. CASE /\ \E S \in SUBSET Files(title) : folder' = [folder EXCEPT ![title] = IF @ = None THEN None ELSE S]
           /\ EndsEarly({})
  <2>1. op' = Idle /\ torn' = torn /\ StageInv'
    <3>1. {} \in SUBSET Formats /\ torn \cup {} = torn
      OBVIOUS
    <3> QED BY <1>1, <1>5, <3>1, EarlyStage
  <2>2. PICK S \in (SUBSET File) \cup {None} : folder' = [folder EXCEPT ![title] = S]
    BY <1>2, <1>5
  <2>3. ASSUME NEW f \in Formats \ torn PROVE InOrder(f)'
    BY <1>3, <2>1, <2>2, OverOrder
  <2> QED BY <2>1, <2>3 DEF OrderInv
<1> QED BY <1>4, <1>5 DEF ClearTarget

LEMMA OrderCopyFiles == ASSUME IInv, StageInv, OrderInv, CopyFiles PROVE StageInv' /\ OrderInv'
<1>1. /\ UNCHANGED <<in_db, title, path, fname, wanted>> /\ op.pc = "copy"
  BY DEF CopyFiles
<1>2. /\ TypesInv /\ path \in Names /\ title \in Names /\ in_db /\ path # title
      /\ Files(path) \in SUBSET File
  BY <1>1, FilesType DEF IInv, TypesInv, StageInv, MovePCs
<1> DEFINE T(S, P) == (S \ P) \cup Named(S \cap P, title)
<1>3. PICK P \in Picks(path), S \in SUBSET Files(path) :
        \E R \in Resolved(T(S, P)) : \E l \in Linked(Overwrites(T(S, P), R)), Q \in Written(R, Overwrites(T(S, P), R)) :
          /\ folder' = [l.folder EXCEPT ![title] = Q]
          /\ (S = Files(path) /\ GoesOn(AfterCopy)) \/ EndsEarly({})
  BY DEF CopyFiles
<1>4. PICK R \in Resolved(T(S, P)) : \E l \in Linked(Overwrites(T(S, P), R)), Q \in Written(R, Overwrites(T(S, P), R)) :
          /\ folder' = [l.folder EXCEPT ![title] = Q]
          /\ (S = Files(path) /\ GoesOn(AfterCopy)) \/ EndsEarly({})
  BY <1>3
<1> DEFINE W == Overwrites(T(S, P), R)
<1>5. /\ R \in SUBSET File /\ W \in SUBSET Write
      /\ \A w \in W : Has(Files(path), w.fmt, w.old) /\ Has(Files(path), w.fmt, w.new)
  BY <1>2, CopyWrites
<1>11. PICK l \in Linked(W), Q \in Written(R, W) :
          /\ folder' = [l.folder EXCEPT ![title] = Q]
          /\ (S = Files(path) /\ GoesOn(AfterCopy)) \/ EndsEarly({})
  BY <1>4
<1> HIDE DEF W
<1>12. /\ Q \in SUBSET File /\ FilesAfter(Q, R, W)
       /\ l.folder \in [Names -> (SUBSET File) \cup {None}]
       /\ l.folder[path] = None <=> folder[path] = None
       /\ FilesIn(l.folder, path) \in SUBSET File /\ FilesAfter(FilesIn(l.folder, path), Files(path), W)
  BY <1>2, <1>5, WrittenFiles, LinkedFolders
<1>6. /\ Files(path)' = FilesIn(l.folder, path) /\ Files(title)' = Q
      /\ folder'[path] = None <=> folder[path] = None
  <2>1. folder'[title] = Q /\ folder'[path] = l.folder[path]
    BY <1>2, <1>11, <1>12
  <2> QED BY <1>1, <1>12, <2>1, FolderAssumption DEF Files, FilesIn
\* A format that is in order has one file, so that nothing else is written over it.
<1>13. ASSUME NEW f \in Formats \ torn
       PROVE  Of(Files(path), f)' = Of(Files(path), f) /\ Of(Q, f) = Of(R, f)
  <2>1. Holds(Files(path), f, fname[f])
    BY <1>1, <1>2, <1>13 DEF OrderInv, InOrder
  <2>2. \A w \in W : w.fmt = f => w.old = w.new
    <3>1. \A x, y \in Of(Files(path), f) : x = y
      BY <2>1 DEF Holds
    <3> QED BY <1>5, <3>1 DEF Has, Of
  <2>3. Of(FilesIn(l.folder, path), f) = Of(Files(path), f)
    BY <1>2, <1>12, <2>2, AfterSame DEF Effective
  <2>4. Of(Q, f) = Of(R, f)
    BY <1>5, <1>12, <2>2, AfterSame DEF Effective
  <2> QED BY <1>6, <2>3, <2>4
<1>7. ASSUME NEW f \in Formats \ torn PROVE Holds(Files(path), f, fname[f])'
  <2>1. Holds(Files(path), f, fname[f])
    BY <1>1, <1>2, <1>7 DEF OrderInv, InOrder
  <2>2. Of(Files(path), f)' = Of(Files(path), f)
    BY <1>7, <1>13
  <2> QED BY <1>1, <2>1, <2>2, OtherStays
<1>8. ASSUME NEW f \in Formats \ torn, S = Files(path) PROVE Holds(Files(title), f, title)'
  <2>1. Holds(Files(path), f, fname[f])
    BY <1>1, <1>2, <1>8 DEF OrderInv, InOrder
  <2>2. Of(P, f) = Of(S, f)
    BY <1>3, <1>8, <2>1, PickedOne
  <2> DEFINE U == T(S, P)
  <2>6. R \in Resolved(U)
    OBVIOUS
  <2>3. Of(U, f) = Named(Of(S, f), title)
    <3>1. Of(S \ P, f) = {} /\ Of(S \cap P, f) = Of(S, f)
      BY <2>2 DEF Of
    <3>2. Of(Named(S \cap P, title), f) = Named(Of(S, f), title)
      BY <1>2, <3>1, OfNamed
    <3>3. Of(U, f) = Of(S \ P, f) \cup Of(Named(S \cap P, title), f)
      BY DEF Of
    <3> QED BY <3>1, <3>2, <3>3
  <2> HIDE DEF U
  <2>4. CASE fname[f] = None
    <3>1. wanted[f] = None /\ Of(U, f) = {}
      BY <1>8, <2>1, <2>3, <2>4, NamedNone DEF Holds
    <3>2. R \subseteq U
      BY <2>6 DEF Resolved
    <3>3. Of(R, f) = {}
      BY <3>1, <3>2 DEF Of
    <3> QED BY <1>1, <1>6, <1>8, <1>13, <2>4, <3>1, <3>3 DEF Holds
  <2>5. CASE fname[f] # None
    <3>1. wanted[f] # None /\ Of(U, f) = {TheFile(f, title)}
      <4>1. wanted[f] # None /\ Of(S, f) = {TheFile(f, fname[f])}
        BY <1>8, <2>1, <2>5 DEF Holds
      <4> QED BY <2>3, <4>1, NamedOne
    <3>2. R \subseteq U /\ \A x \in U : \E y \in R : SameFile(x, y)
      BY <2>6 DEF Resolved
    <3>3. TheFile(f, title) \in U /\ TheFile(f, title).fmt = f
      BY <3>1 DEF Of
    <3>4. PICK y \in R : SameFile(TheFile(f, title), y)
      BY <3>2, <3>3
    <3>5. y \in Of(U, f)
      BY <3>2, <3>3, <3>4 DEF Of, SameFile
    <3>6. Of(R, f) = {TheFile(f, title)}
      BY <3>1, <3>2, <3>3, <3>5 DEF Of
    <3> QED BY <1>1, <1>6, <1>8, <1>13, <2>5, <3>1, <3>6 DEF Holds, TheFile
  <2> QED BY <2>4, <2>5
<1>9. CASE S = Files(path) /\ GoesOn(AfterCopy)
  <2>1. /\ op'.pc = AfterCopy /\ op'.fmt = op.fmt /\ op'.files = op.files
        /\ in_memory' = in_memory /\ torn' = torn
    BY <1>9, OnStage
  <2>2. AfterCopy = IF folder[path] = None THEN "paths" ELSE "unlink"
    BY DEF AfterCopy
  <2>3. StageInv'
    BY <1>1, <1>2, <1>6, <2>1, <2>2 DEF StageInv, MovePCs, FormatPCs, RestorePCs, RemovePCs
  <2>4. ASSUME NEW f \in Formats \ torn PROVE InOrder(f)'
    BY <1>7, <1>8, <1>9, <2>1, <2>2 DEF InOrder, FormatPCs
  <2> QED BY <2>1, <2>3, <2>4 DEF OrderInv
<1>10. CASE EndsEarly({})
  <2>1. op' = Idle /\ torn' = torn /\ StageInv'
    <3>1. {} \in SUBSET Formats /\ torn \cup {} = torn
      OBVIOUS
    <3> QED BY <1>1, <1>10, <3>1, EarlyStage
  <2>2. ASSUME NEW f \in Formats \ torn PROVE InOrder(f)'
    BY <1>7, <2>1, <2>2, OverOrder
  <2> QED BY <2>1, <2>2 DEF OrderInv
<1> QED BY <1>11, <1>9, <1>10

LEMMA OrderUnlinkFiles == ASSUME IInv, StageInv, OrderInv, UnlinkFiles PROVE StageInv' /\ OrderInv'
<1>1. /\ UNCHANGED <<in_db, title, path, fname, wanted>> /\ op.pc = "unlink"
  BY DEF UnlinkFiles
<1>2. /\ TypesInv /\ path \in Names /\ title \in Names /\ in_db /\ path # title
      /\ Files(path) \in SUBSET File
  BY <1>1, FilesType DEF IInv, TypesInv, StageInv, MovePCs
<1>3. CASE folder' = [folder EXCEPT ![path] = None] /\ GoesOn("paths")
  <2>1. /\ op'.pc = "paths" /\ op'.fmt = op.fmt /\ op'.files = op.files
        /\ in_memory' = in_memory /\ torn' = torn
    BY <1>3, OnStage
  <2>2. folder'[path] = None /\ folder'[title] = folder[title]
    BY <1>2, <1>3 DEF TypesInv
  <2>3. StageInv'
    BY <1>1, <1>2, <2>1, <2>2 DEF StageInv, MovePCs, FormatPCs, RestorePCs, RemovePCs
  <2>4. ASSUME NEW f \in Formats \ torn PROVE InOrder(f)'
    <3>1. Holds(Files(title), f, title)
      BY <1>1 DEF OrderInv, InOrder
    <3>2. Files(title)' = Files(title)
      BY <1>1, <2>2 DEF Files, FilesIn
    <3>3. Holds(Files(title), f, title)'
      BY <1>1, <3>1, <3>2 DEF Holds, TheFile
    <3> QED BY <2>1, <3>3 DEF InOrder, FormatPCs
  <2> QED BY <2>1, <2>3, <2>4 DEF OrderInv
<1>4. CASE \E S \in SUBSET Files(path) : folder' = [folder EXCEPT ![path] = S] /\ EndsEarly(Rows)
  <2>1. PICK S \in SUBSET Files(path) : folder' = [folder EXCEPT ![path] = S]
    BY <1>4
  <2>2. op' = Idle /\ torn' = torn \cup Rows /\ StageInv'
    BY <1>1, <1>4, EarlyStage DEF Rows
  <2>3. Files(path)' = S
    <3>1. folder'[path] = S /\ S \in SUBSET File
      BY <1>2, <2>1, FolderChanged
    <3> QED BY <1>1, <3>1, FolderAssumption DEF Files, FilesIn
  <2>4. ASSUME NEW f \in Formats \ torn' PROVE InOrder(f)'
    <3>1. f \in Formats \ torn /\ fname[f] = None
      BY <2>2 DEF Rows
    <3>2. wanted[f] = None /\ Of(Files(path), f) = {}
      BY <1>1, <1>2, <3>1 DEF OrderInv, InOrder, Holds
    <3>3. Holds(Files(path), f, fname[f])'
      BY <1>1, <2>3, <3>1, <3>2 DEF Holds, Of
    <3> QED BY <2>2, <3>3, OverOrder
  <2> QED BY <2>2, <2>4 DEF OrderInv
<1> QED BY <1>3, <1>4 DEF UnlinkFiles

LEMMA OrderUpdatePathsInDB == ASSUME IInv, StageInv, OrderInv, UpdatePathsInDB PROVE StageInv' /\ OrderInv'
<1>1. /\ UNCHANGED <<in_db, title, folder, wanted>> /\ op.pc = "paths"
  BY DEF UpdatePathsInDB
<1>2. /\ in_db /\ in_memory /\ (path = title \/ folder[path] = None)
  BY <1>1 DEF StageInv, MovePCs
<1>3. CASE /\ path' = title
           /\ fname' = [f \in Formats |-> IF f \in Rows THEN title ELSE None]
           /\ Returns /\ UNCHANGED torn
  <2>1. op' = Idle /\ in_memory' = in_memory /\ torn' = torn
    BY <1>3 DEF Returns
  <2>2. StageInv'
    BY <1>1, <1>2, <2>1, OverStage DEF StageInv
  <2>3. ASSUME NEW f \in Formats \ torn PROVE InOrder(f)'
    <3>1. Holds(Files(title), f, title)
      BY <1>1 DEF OrderInv, InOrder
    <3>2. Files(path)' = Files(title)
      BY <1>1, <1>3 DEF Files, FilesIn
    <3>3. /\ fname'[f] = IF f \in Rows THEN title ELSE None
          /\ title # None
      BY <1>3, NamesAssumption DEF IInv, TypesInv
    <3>4. Holds(Files(path), f, fname[f])'
      BY <1>1, <3>1, <3>2, <3>3 DEF Holds, TheFile, Rows
    <3> QED BY <2>1, <3>4, OverOrder
  <2> QED BY <2>1, <2>2, <2>3 DEF OrderInv
<1>4. CASE EndsEarly(Rows) /\ UNCHANGED <<path, fname>>
  <2>1. op' = Idle /\ torn' = torn \cup Rows /\ StageInv'
    BY <1>1, <1>4, EarlyStage DEF Rows
  <2>2. ASSUME NEW f \in Formats \ torn' PROVE InOrder(f)'
    <3>1. f \in Formats \ torn /\ fname[f] = None
      BY <2>1 DEF Rows
    <3>2. wanted[f] = None /\ Of(Files(title), f) = {}
      BY <1>1, <3>1 DEF OrderInv, InOrder, Holds
    <3>3. Of(Files(path), f)' = {}
      BY <1>1, <1>2, <1>4, <3>2 DEF Of, Files, FilesIn
    <3>4. Holds(Files(path), f, fname[f])'
      BY <1>1, <1>4, <3>1, <3>2, <3>3 DEF Holds
    <3> QED BY <2>1, <3>4, OverOrder
  <2> QED BY <2>1, <2>2 DEF OrderInv
<1> QED BY <1>3, <1>4 DEF UpdatePathsInDB

\* The folder of the row is changed.
LEMMA PathFiles ==
  ASSUME IInv, NEW S \in SUBSET File, folder' = [folder EXCEPT ![path] = S], path' = path
  PROVE  Files(path)' = S /\ folder'[path] # None
<1>1. folder'[path] = S
  BY FolderChanged DEF IInv, TypesInv
<1> QED BY <1>1, FolderAssumption DEF Files, FilesIn

\* While a call works on one format, the others are where they were.
LEMMA OtherFormats ==
  ASSUME NEW f, Holds(Files(path), f, fname[f])', op' = Idle \/ (op'.pc \in FormatPCs /\ op'.fmt # f)
  PROVE  InOrder(f)'
BY DEF InOrder, FormatPCs, Idle

\* The file of the row, which is all there is if the format is in order.
OldFile(f) == {x \in Files(path) : x.fmt = f /\ x.name = fname[f]}

LEMMA OldFileGoes ==
  ASSUME NEW f, f \notin torn => Holds(Files(path), f, fname[f])
  PROVE  /\ \A g : g # f => Of(OldFile(f), g) = {} /\ Of(Files(path) \ OldFile(f), g) = Of(Files(path), g)
         /\ f \notin torn => Of(Files(path) \ OldFile(f), f) = {} /\ Of(OldFile(f), f) = Of(Files(path), f)
<1>1. \A g : g # f => Of(OldFile(f), g) = {} /\ Of(Files(path) \ OldFile(f), g) = Of(Files(path), g)
  BY DEF Of, OldFile
<1>2. ASSUME f \notin torn PROVE \A x \in Files(path) : x.fmt = f => x.name = fname[f]
  BY <1>2 DEF Holds, TheFile, Of
<1>3. f \notin torn => Of(Files(path) \ OldFile(f), f) = {} /\ Of(OldFile(f), f) = Of(Files(path), f)
  BY <1>2 DEF Of, OldFile
<1> QED BY <1>1, <1>3

\* The start of a call that replaces the file of a format.
LEMMA OrderOldFileMoved ==
  ASSUME IInv, StageInv, OrderInv, NEW f \in Formats, Live, MoveOldFile(f),
         NEW p \in {"write", "replace"}, Goto(p, f, {}),
         UNCHANGED <<in_db, in_memory, title, path, fname, wanted, torn>>
  PROVE  StageInv' /\ OrderInv'
<1>1. op = Idle /\ in_db /\ in_memory /\ op'.pc = p /\ op'.fmt = f
  BY DEF Live, Goto
<1>2. /\ TypesInv /\ path \in Names /\ title \in Names /\ Files(path) \in SUBSET File
  BY FilesType DEF IInv, TypesInv
<1>3. ASSUME NEW g \in Formats \ torn PROVE Holds(Files(path), g, fname[g])
  BY <1>1, <1>3 DEF OrderInv, InOrder, Idle
<1> DEFINE old == OldFile(f)
<1>4. /\ \A g : g # f => Of(old, g) = {}
      /\ f \notin torn => Of(old, f) = Of(Files(path), f)
  BY <1>3, OldFileGoes
<1>5. /\ folder'[path] \in SUBSET File
      /\ \E S \in SUBSET Files(path) :
           /\ \A x \in S : x.fmt = f /\ x.name = fname[f]
           /\ MayStay({x \in Files(path) : x.fmt = f /\ x.name = fname[f]} \ S)
           /\ folder'[path] = Overwrite(Files(path) \ S, Named(S, title))
  BY OldFileMoved
<1>6. PICK S \in SUBSET Files(path) :
           /\ S \subseteq old /\ MayStay(old \ S)
           /\ folder'[path] = Overwrite(Files(path) \ S, Named(S, title))
  <2>1. PICK S \in SUBSET Files(path) :
           /\ \A x \in S : x.fmt = f /\ x.name = fname[f]
           /\ MayStay({x \in Files(path) : x.fmt = f /\ x.name = fname[f]} \ S)
           /\ folder'[path] = Overwrite(Files(path) \ S, Named(S, title))
    BY <1>5
  <2>2. S \subseteq old /\ MayStay(old \ S)
    BY <2>1 DEF OldFile
  <2> QED BY <2>1, <2>2
<1>7. old \in SUBSET Files(path)
  BY DEF OldFile
<1> HIDE DEF old
<1> DEFINE R == Overwrite(Files(path) \ S, Named(S, title))
<1>8. Files(path)' = R /\ folder'[path] # None
  BY <1>5, <1>6, FolderAssumption DEF Files, FilesIn
<1>9. ASSUME NEW g, Of(S, g) = {} PROVE Of(R, g) = Of(Files(path), g)
  <2>1. Of(Named(S, title), g) = {}
    BY <1>2, <1>6, <1>9, OfNamed, NamedNone
  <2>2. Of(Files(path) \ S, g) = Of(Files(path), g)
    BY <1>9 DEF Of
  <2> QED BY <2>1, <2>2, OfOthers
<1>10. ASSUME NEW g, g # f PROVE Of(R, g) = Of(Files(path), g)
  <2>1. Of(S, g) = {}
    BY <1>4, <1>6, <1>10 DEF Of
  <2> QED BY <1>9, <2>1
<1>11. ASSUME f \notin torn, fname[f] # None PROVE Of(R, f) = {TheFile(f, title)}
  <2>1. Holds(Files(path), f, fname[f]) /\ Of(old, f) = Of(Files(path), f)
    BY <1>3, <1>4, <1>11
  <2>2. S \in SUBSET old
    BY <1>6
  <2> QED BY <1>6, <1>7, <1>11, <2>1, <2>2, RowRenamed
<1>12. ASSUME f \notin torn, fname[f] = None PROVE Of(R, f) = {} /\ wanted[f] = None
  <2>1. wanted[f] = None /\ Of(Files(path), f) = {}
    BY <1>3, <1>12 DEF Holds
  <2>2. Of(S, f) = {}
    BY <2>1 DEF Of
  <2> QED BY <1>9, <2>1, <2>2
<1> HIDE DEF R
<1>13. StageInv'
  BY <1>1, <1>8 DEF StageInv, MovePCs, FormatPCs, RestorePCs, RemovePCs
<1>14. ASSUME NEW g \in Formats \ torn, g # f PROVE InOrder(g)'
  <2>1. Holds(Files(path), g, fname[g]) /\ Of(Files(path), g)' = Of(Files(path), g)
    BY <1>3, <1>8, <1>10, <1>14 DEF Of
  <2>2. Holds(Files(path), g, fname[g])'
    BY <2>1, OtherStays
  <2> QED BY <1>1, <1>14, <2>2, OtherFormats DEF FormatPCs
<1>15. ASSUME f \notin torn PROVE InOrder(f)'
  <2>1. Holds(Files(path), f, title)'
    <3>1. CASE fname[f] = None
      BY <1>8, <1>12, <1>15, <3>1 DEF Holds, Of
    <3>2. CASE fname[f] # None
      <4>1. wanted[f] # None
        BY <1>3, <1>15, <3>2 DEF Holds
      <4> QED BY <1>8, <1>11, <1>15, <3>2, <4>1 DEF Holds, TheFile, Of
    <3> QED BY <3>1, <3>2
  <2> QED BY <1>1, <2>1 DEF InOrder, FormatPCs
<1> QED BY <1>13, <1>14, <1>15 DEF OrderInv

LEMMA OrderAddFormat ==
  ASSUME IInv, StageInv, OrderInv, NEW f \in Formats, AddFormat(f) PROVE StageInv' /\ OrderInv'
BY OrderOldFileMoved DEF AddFormat, tables, history

LEMMA OrderWriteFormat == ASSUME IInv, StageInv, OrderInv, WriteFormat PROVE StageInv' /\ OrderInv'
<1>1. /\ UNCHANGED <<in_db, title, path, fname>> /\ op.pc = "write" /\ contents' = contents + 1
  BY DEF WriteFormat
<1>2. /\ TypesInv /\ path \in Names /\ title \in Names /\ in_db
      /\ folder[path] \in SUBSET File /\ op.fmt \in Formats /\ contents < MaxContents
  BY <1>1 DEF IInv, TypesInv, CallInv, StageInv, FormatPCs
<1>3. contents' \in Contents /\ Damaged \in Contents
  BY <1>1, <1>2, BoundsAssumption DEF TypesInv, Contents, Damaged
<1>4. Files(path) = folder[path]
  BY <1>2, FolderAssumption DEF Files, FilesIn
<1>5. ASSUME NEW g \in Formats \ torn, g # op.fmt, wanted'[g] = wanted[g],
             Of(Files(path), g)' = Of(Files(path), g)
      PROVE  Holds(Files(path), g, fname[g])'
  <2>1. Holds(Files(path), g, fname[g])
    BY <1>1, <1>5 DEF OrderInv, InOrder, FormatPCs
  <2> QED BY <1>1, <1>5, <2>1, OtherStays
<1>6. CASE EndsEarly({op.fmt}) /\ UNCHANGED <<folder, wanted>>
  <2>1. op' = Idle /\ torn' = torn \cup {op.fmt} /\ StageInv'
    BY <1>1, <1>2, <1>6, EarlyStage
  <2>2. ASSUME NEW g \in Formats \ torn' PROVE InOrder(g)'
    <3>1. Of(Files(path), g)' = Of(Files(path), g)
      BY <1>1, <1>6 DEF Of, Files, FilesIn
    <3> QED BY <1>5, <1>6, <2>1, <2>2, <3>1, OtherFormats
  <2> QED BY <2>1, <2>2 DEF OrderInv
<1>7. CASE \E c \in {contents', Damaged} :
             LET new == [fmt |-> op.fmt, name |-> title, content |-> c]
             IN  /\ \E l \in Linked(Overwrites(Files(path), {new})) :
                      folder' = [l.folder EXCEPT ![path] = Overwrite(@, {new})]
                 /\ \/ GoesOn("row") /\ wanted' = [wanted EXCEPT ![op.fmt] = c]
                    \/ EndsEarly({op.fmt}) /\ UNCHANGED wanted
  <2>1. PICK c \in Contents :
          LET new == [fmt |-> op.fmt, name |-> title, content |-> c]
          IN  /\ \E l \in Linked(Overwrites(Files(path), {new})) :
                   folder' = [l.folder EXCEPT ![path] = Overwrite(@, {new})]
              /\ \/ GoesOn("row") /\ wanted' = [wanted EXCEPT ![op.fmt] = c]
                 \/ EndsEarly({op.fmt}) /\ UNCHANGED wanted
    BY <1>3, <1>7
  <2> DEFINE x == [fmt |-> op.fmt, name |-> title, content |-> c]
             W == Overwrites(Files(path), {x})
  <2>2. PICK l \in Linked(W) : folder' = [l.folder EXCEPT ![path] = Overwrite(@, {x})]
    BY <2>1
  <2>3. x \in File /\ x.fmt = op.fmt /\ x.name = title
    BY <1>2 DEF File
  <2> HIDE DEF x
  <2>4. W \in SUBSET Write /\ \A w \in W : w.fmt = op.fmt
    BY <1>2, <1>4, <2>3, OverwritesType DEF SameFile
  <2> HIDE DEF W
  <2> DEFINE F == FilesIn(l.folder, path)
             S == Overwrite(F, {x})
  <2>5. /\ l.folder \in [Names -> (SUBSET File) \cup {None}]
        /\ l.folder[path] = F /\ F \in SUBSET File /\ FilesAfter(F, Files(path), W)
    <3>1. l.folder[path] # None
      BY <1>2, <2>4, FolderAssumption, LinkedFolders
    <3> QED BY <1>2, <2>4, <3>1, LinkedFolders DEF FilesIn
  <2> HIDE DEF F
  <2>6. S \in SUBSET File /\ x \in S
    BY <2>3, <2>5, OverwriteType DEF Overwrite
  <2>7. Files(path)' = S /\ folder'[path] # None
    <3>1. folder'[path] = S
      BY <1>2, <2>2, <2>5
    <3> QED BY <1>1, <2>6, <3>1, FolderAssumption DEF Files, FilesIn
  <2>8. ASSUME NEW g, g # op.fmt PROVE Of(S, g) = Of(Files(path), g)
    <3>1. Of({x}, g) = {}
      BY <2>3, <2>8, OneOf
    <3>2. Of(F, g) = Of(Files(path), g)
      BY <1>2, <1>4, <2>4, <2>5, <2>8, AfterSame DEF Effective
    <3> QED BY <3>1, <3>2, OfOthers
  <2>9. ASSUME op.fmt \notin torn PROVE Of(S, op.fmt) = {x}
    <3>1. Holds(Files(path), op.fmt, title)
      BY <1>1, <1>2, <2>9 DEF OrderInv, InOrder
    <3>2. \A y \in Of(Files(path), op.fmt) : y.name = title
      BY <3>1 DEF Holds, TheFile
    <3>3. \A y \in Of(F, op.fmt) : y.name = x.name
      BY <2>3, <2>5, <3>2 DEF FilesAfter, TurnedInto, Of
    <3> QED BY <2>3, <3>3, OfReplaced
  <2> HIDE DEF S
  <2>10. ASSUME NEW g \in Formats \ torn, g # op.fmt, wanted'[g] = wanted[g]
         PROVE  Holds(Files(path), g, fname[g])'
    <3>1. Of(Files(path), g)' = Of(Files(path), g)
      BY <2>7, <2>8, <2>10 DEF Of
    <3> QED BY <1>5, <2>10, <3>1
  <2>11. CASE GoesOn("row") /\ wanted' = [wanted EXCEPT ![op.fmt] = c]
    <3>1. /\ op'.pc = "row" /\ op'.fmt = op.fmt /\ op'.files = op.files
          /\ in_memory' = in_memory /\ torn' = torn
      BY <2>11, OnStage
    <3>2. /\ wanted' \in [Formats -> Contents \cup {None}] /\ wanted'[op.fmt] = c /\ c # None
          /\ \A g \in Formats : g # op.fmt => wanted'[g] = wanted[g]
      BY <1>2, <2>1, <2>11, NamesAssumption DEF StageInv, Contents
    <3>3. TheFile(op.fmt, title)' = x
      BY <1>1, <3>1, <3>2 DEF TheFile, x
    <3>4. StageInv'
      BY <1>1, <1>2, <2>6, <2>7, <3>1, <3>2, <3>3 DEF StageInv, MovePCs, FormatPCs, RestorePCs, RemovePCs
    <3>5. ASSUME NEW g \in Formats \ torn, g # op.fmt PROVE InOrder(g)'
      BY <2>10, <3>1, <3>2, <3>5, OtherFormats DEF FormatPCs
    <3>6. ASSUME NEW g, g = op.fmt, op.fmt \notin torn PROVE InOrder(g)'
      <4>1. Of(Files(path), g)' = {TheFile(g, title)'}
        BY <2>7, <2>9, <3>1, <3>3, <3>6 DEF Of, TheFile
      <4> QED BY <3>1, <3>6, <4>1 DEF InOrder, FormatPCs
    <3> QED BY <3>1, <3>4, <3>5, <3>6 DEF OrderInv
  <2>12. CASE EndsEarly({op.fmt}) /\ UNCHANGED wanted
    <3>1. op' = Idle /\ torn' = torn \cup {op.fmt} /\ StageInv'
      BY <1>1, <1>2, <2>12, EarlyStage
    <3>2. ASSUME NEW g \in Formats \ torn' PROVE InOrder(g)'
      BY <2>10, <2>12, <3>1, <3>2, OtherFormats
    <3> QED BY <3>1, <3>2 DEF OrderInv
  <2> QED BY <2>1, <2>11, <2>12
<1> QED BY <1>6, <1>7 DEF WriteFormat

LEMMA OrderUpdateRow == ASSUME IInv, StageInv, OrderInv, UpdateRow PROVE StageInv' /\ OrderInv'
<1>1. /\ UNCHANGED <<in_db, title, path, folder, wanted>> /\ op.pc = "row"
  BY DEF UpdateRow
<1>2. /\ TypesInv /\ path \in Names /\ title \in Names /\ in_db /\ in_memory /\ op.fmt \in Formats
      /\ wanted[op.fmt] # None /\ TheFile(op.fmt, title) \in Files(path)
  BY <1>1 DEF IInv, TypesInv, CallInv, StageInv, FormatPCs
<1>3. Files(path)' = Files(path)
  BY <1>1 DEF Files, FilesIn
<1>4. ASSUME NEW g \in Formats \ torn, g # op.fmt, fname'[g] = fname[g]
      PROVE  Holds(Files(path), g, fname[g])'
  <2>1. Holds(Files(path), g, fname[g])
    BY <1>1, <1>4 DEF OrderInv, InOrder, FormatPCs
  <2> QED BY <1>1, <1>3, <1>4, <2>1, OtherStays
<1>5. CASE /\ fname' = [fname EXCEPT ![op.fmt] = title]
           /\ torn' = IF op.fmt \in Doubled(Files(path)) THEN torn ELSE torn \ {op.fmt}
           /\ Returns
  <2>1. op' = Idle /\ in_memory' = in_memory /\ torn' \subseteq torn /\ torn \ {op.fmt} \subseteq torn'
    BY <1>5 DEF Returns
  <2>2. StageInv'
    BY <1>1, <1>2, <2>1, OverStage DEF StageInv
  <2>3. ASSUME NEW g \in Formats \ torn', g # op.fmt PROVE InOrder(g)'
    <3>1. fname'[g] = fname[g] /\ g \notin torn
      BY <1>5, <2>1, <2>3 DEF IInv, TypesInv
    <3> QED BY <1>4, <2>1, <2>3, <3>1, OtherFormats
  <2>4. ASSUME NEW g \in Formats \ torn', g = op.fmt PROVE InOrder(g)'
    <3>1. Of(Files(path), g) = {TheFile(g, title)}
      <4>1. CASE g \notin torn
        BY <1>1, <2>4, <4>1 DEF OrderInv, InOrder, FormatPCs
      <4>2. CASE g \in torn
        <5>1. g \notin Doubled(Files(path))
          BY <1>5, <2>4, <4>2
        <5>2. TheFile(g, title) \in Of(Files(path), g)
          BY <1>2, <2>4 DEF Of, TheFile
        <5>3. \A x, y \in Of(Files(path), g) : x = y
          BY <5>1 DEF Doubled, Of
        <5> QED BY <5>2, <5>3
      <4> QED BY <4>1, <4>2
    <3>2. fname'[g] = title /\ title # None
      BY <1>2, <1>5, <2>4, NamesAssumption DEF TypesInv
    <3>3. Holds(Files(path), g, fname[g])'
      BY <1>1, <1>2, <1>3, <2>4, <3>1, <3>2 DEF Holds, TheFile, Of
    <3> QED BY <2>1, <3>3, OverOrder
  <2> QED BY <2>2, <2>3, <2>4 DEF OrderInv
<1>6. CASE EndsEarly({op.fmt}) /\ fname' = fname
  <2>1. op' = Idle /\ torn' = torn \cup {op.fmt} /\ StageInv'
    BY <1>1, <1>2, <1>6, EarlyStage
  <2>2. ASSUME NEW g \in Formats \ torn' PROVE InOrder(g)'
    BY <1>4, <1>6, <2>1, <2>2, OtherFormats
  <2> QED BY <2>1, <2>2 DEF OrderInv
<1> QED BY <1>5, <1>6 DEF UpdateRow

LEMMA OrderRestoreFormat ==
  ASSUME IInv, StageInv, OrderInv, NEW f \in Formats, RestoreFormat(f) PROVE StageInv' /\ OrderInv'
BY OrderOldFileMoved DEF RestoreFormat, tables, history

\* What is in the trash replaces the file, or is it already.
LEMMA OrderReplaceFormat == ASSUME IInv, StageInv, OrderInv, ReplaceFormat PROVE StageInv' /\ OrderInv'
<1>1. /\ UNCHANGED <<in_db, title, path, fname>> /\ op.pc = "replace"
  BY DEF ReplaceFormat
<1>2. /\ TypesInv /\ path \in Names /\ title \in Names /\ in_db
      /\ folder[path] \in SUBSET File /\ op.fmt \in Formats /\ trash_f # None
  BY <1>1 DEF IInv, TypesInv, CallInv, StageInv, FormatPCs
<1>3. Files(path) = folder[path]
  BY <1>2, FolderAssumption DEF Files, FilesIn
<1>4. ASSUME NEW g \in Formats \ torn, g # op.fmt, wanted'[g] = wanted[g],
             Of(Files(path), g)' = Of(Files(path), g)
      PROVE  Holds(Files(path), g, fname[g])'
  <2>1. Holds(Files(path), g, fname[g])
    BY <1>1, <1>4 DEF OrderInv, InOrder, FormatPCs
  <2> QED BY <1>1, <1>4, <2>1, OtherStays
<1>5. CASE EndsEarly({op.fmt}) /\ UNCHANGED <<folder, wanted>>
  <2>1. op' = Idle /\ torn' = torn \cup {op.fmt} /\ StageInv'
    BY <1>1, <1>2, <1>5, EarlyStage
  <2>2. ASSUME NEW g \in Formats \ torn' PROVE InOrder(g)'
    <3>1. Of(Files(path), g)' = Of(Files(path), g)
      BY <1>1, <1>5 DEF Of, Files, FilesIn
    <3> QED BY <1>4, <1>5, <2>1, <2>2, <3>1, OtherFormats
  <2> QED BY <2>1, <2>2 DEF OrderInv
<1>6. CASE \E x \in trash_f.files :
             LET new == [fmt |-> op.fmt, name |-> title, content |-> x.content]
             IN  /\ folder' = [folder EXCEPT ![path] = Overwrite(@, {new})] \/ (new \in Files(path) /\ UNCHANGED folder)
                 /\ wanted' = [wanted EXCEPT ![op.fmt] = x.content]
                 /\ GoesOn("row")
  <2>1. PICK c \in Contents :
          LET new == [fmt |-> op.fmt, name |-> title, content |-> c]
          IN  /\ folder' = [folder EXCEPT ![path] = Overwrite(@, {new})] \/ (new \in Files(path) /\ UNCHANGED folder)
              /\ wanted' = [wanted EXCEPT ![op.fmt] = c]
    <3>1. trash_f.files \subseteq TrashedFile
      BY <1>2 DEF TypesInv, FormatsEntry
    <3> QED BY <1>6, <3>1 DEF TrashedFile
  <2> DEFINE new == [fmt |-> op.fmt, name |-> title, content |-> c]
             S == Overwrite(Files(path), {new})
  <2>2. new \in File /\ new.fmt = op.fmt /\ new.name = title
    BY <1>2 DEF File
  <2>3. folder' = [folder EXCEPT ![path] = S] \/ (new \in Files(path) /\ UNCHANGED folder)
    BY <1>3, <2>1
  <2>4. /\ op'.pc = "row" /\ op'.fmt = op.fmt /\ op'.files = op.files
        /\ in_memory' = in_memory /\ torn' = torn
    BY <1>6, OnStage
  <2>5. /\ wanted' \in [Formats -> Contents \cup {None}] /\ wanted'[op.fmt] = c /\ c # None
        /\ \A g \in Formats : g # op.fmt => wanted'[g] = wanted[g]
    BY <1>2, <2>1, NamesAssumption DEF StageInv, Contents
  <2>6. TheFile(op.fmt, title)' = new
    BY <1>1, <2>4, <2>5 DEF TheFile
  <2> HIDE DEF new
  <2>7. /\ S \in SUBSET File /\ new \in S
        /\ \A g : g # op.fmt => Of(S, g) = Of(Files(path), g)
    <3>1. S \in SUBSET File /\ new \in S
      BY <1>2, <1>3, <2>2, OverwriteType DEF Overwrite
    <3>2. ASSUME NEW g, g # op.fmt PROVE Of(S, g) = Of(Files(path), g)
      <4>1. Of({new}, g) = {}
        BY <2>2, <3>2, OneOf
      <4> QED BY <4>1, OfOthers
    <3> QED BY <3>1, <3>2
  <2>8. op.fmt \notin torn => Holds(Files(path), op.fmt, title)
    BY <1>1, <1>2 DEF OrderInv, InOrder
  <2>9. op.fmt \notin torn => Of(S, op.fmt) = {new}
    <3>1. op.fmt \notin torn => \A y \in Of(Files(path), op.fmt) : y.name = new.name
      BY <2>2, <2>8 DEF Holds, TheFile
    <3> QED BY <2>2, <3>1, OfReplaced
  <2>10. op.fmt \notin torn /\ new \in Files(path) => Of(Files(path), op.fmt) = {new}
    <3>1. new \in Files(path) => new \in Of(Files(path), op.fmt)
      BY <2>2 DEF Of
    <3> QED BY <2>8, <3>1 DEF Holds
  <2> HIDE DEF S
  <2>11. /\ new \in Files(path)'
         /\ \A g : g # op.fmt => Of(Files(path), g)' = Of(Files(path), g)
         /\ op.fmt \notin torn => \A g : g = op.fmt => Of(Files(path), g)' = {new}
    <3>1. CASE folder' = [folder EXCEPT ![path] = S]
      <4>1. Files(path)' = S
        BY <1>1, <2>7, <3>1, PathFiles
      <4> QED BY <2>7, <2>9, <4>1 DEF Of
    <3>2. CASE new \in Files(path) /\ UNCHANGED folder
      <4>1. Files(path)' = Files(path)
        BY <1>1, <3>2 DEF Files, FilesIn
      <4> QED BY <2>10, <3>2, <4>1 DEF Of
    <3> QED BY <2>3, <3>1, <3>2
  <2>12. StageInv'
    BY <1>1, <1>2, <2>4, <2>5, <2>6, <2>11 DEF StageInv, MovePCs, FormatPCs, RestorePCs, RemovePCs
  <2>13. ASSUME NEW g \in Formats \ torn, g # op.fmt PROVE InOrder(g)'
    BY <1>4, <2>4, <2>5, <2>11, <2>13, OtherFormats DEF FormatPCs
  <2>14. ASSUME NEW g, g = op.fmt, op.fmt \notin torn PROVE InOrder(g)'
    <3>1. Of(Files(path), g)' = {TheFile(g, title)'}
      BY <2>6, <2>4, <2>11, <2>14 DEF TheFile
    <3> QED BY <2>4, <2>14, <3>1 DEF InOrder, FormatPCs
  <2> QED BY <2>4, <2>12, <2>13, <2>14 DEF OrderInv
<1> QED BY <1>5, <1>6 DEF ReplaceFormat

LEMMA OrderRemoveFormat ==
  ASSUME IInv, StageInv, OrderInv, NEW f \in Formats, RemoveFormat(f) PROVE StageInv' /\ OrderInv'
<1>1. /\ UNCHANGED <<in_db, in_memory, title, path, fname, torn>>
      /\ op = Idle /\ in_db /\ in_memory /\ fname[f] # None
      /\ wanted' = [wanted EXCEPT ![f] = None]
  BY DEF RemoveFormat, tables, Live
<1>2. /\ TypesInv /\ path \in Names /\ title \in Names /\ Files(path) \in SUBSET File
      /\ fname[f] \in Names
  BY <1>1, FilesType DEF IInv, TypesInv
<1>3. ASSUME NEW g \in Formats \ torn PROVE Holds(Files(path), g, fname[g])
  BY <1>1, <1>3 DEF OrderInv, InOrder, Idle
<1>4. /\ wanted' \in [Formats -> Contents \cup {None}] /\ wanted'[f] = None
      /\ \A g \in Formats : g # f => wanted'[g] = wanted[g]
  BY <1>1 DEF StageInv
<1>5. CASE FormatFiles(path, f) = {} /\ Goto("delete_row", f, {}) /\ UNCHANGED folder
  <2>1. op'.pc = "delete_row" /\ op'.fmt = f
    BY <1>5, WentTo
  <2>2. Files(path)' = Files(path)
    BY <1>1, <1>5 DEF Files, FilesIn
  <2>3. Of(Files(path), f) = {}
    BY <1>5 DEF FormatFiles, Of
  <2>4. StageInv'
    BY <1>1, <1>4, <2>1 DEF StageInv, MovePCs, FormatPCs, RestorePCs, RemovePCs
  <2>5. ASSUME NEW g \in Formats \ torn, g # f PROVE InOrder(g)'
    <3>1. Holds(Files(path), g, fname[g])'
      BY <1>1, <1>3, <1>4, <2>2, <2>5, OtherStays
    <3> QED BY <2>1, <2>5, <3>1, OtherFormats DEF FormatPCs
  <2>6. InOrder(f)'
    BY <1>4, <2>1, <2>2, <2>3 DEF InOrder, FormatPCs, Of
  <2> QED BY <1>1, <2>4, <2>5, <2>6 DEF OrderInv
<1>6. CASE \E x \in FormatFiles(path, f) :
             /\ folder' = [folder EXCEPT ![path] = Overwrite(@ \ {x}, Named({x}, fname[f]))]
             /\ Goto("to_trash", f, {x.content})
  <2>1. PICK x \in FormatFiles(path, f) :
             /\ folder' = [folder EXCEPT ![path] = Overwrite(@ \ {x}, Named({x}, fname[f]))]
             /\ Goto("to_trash", f, {x.content})
    BY <1>6
  <2>2. x \in Files(path) /\ x.fmt = f
    BY DEF FormatFiles
  <2>3. folder[path] = Files(path)
    BY <2>2 DEF Files, FilesIn
  <2> DEFINE S == Overwrite(Files(path) \ {x}, Named({x}, fname[f]))
  <2>4. folder' = [folder EXCEPT ![path] = S]
    BY <2>1, <2>3
  <2>5. Named({x}, fname[f]) \in SUBSET File /\ \A y \in Named({x}, fname[f]) : y.name = fname[f]
    <3>1. [x EXCEPT !.name = fname[f]].name = fname[f]
      BY <1>2, <2>2 DEF File
    <3>2. {x} \in SUBSET File
      BY <1>2, <2>2
    <3> QED BY <1>2, <3>1, <3>2, NamedType DEF Named
  <2>6. S \in SUBSET File
    BY <1>2, <2>5, OverwriteType
  <2>7. ASSUME NEW g, g # f PROVE Of(S, g) = Of(Files(path), g)
    <3>1. Of({x}, g) = {} /\ {x} \in SUBSET File
      BY <1>2, <2>2, <2>7 DEF Of
    <3>2. Of(Named({x}, fname[f]), g) = {}
      BY <3>1, OfNamed, NamedNone
    <3>3. Of(Files(path) \ {x}, g) = Of(Files(path), g)
      BY <3>1 DEF Of
    <3> QED BY <3>2, <3>3, OfOthers
  <2>8. ASSUME f \notin torn PROVE \A y \in Of(S, f) : y.name = fname[f]
    <3>1. Of(Files(path), f) = {TheFile(f, fname[f])}
      BY <1>1, <1>3, <2>8 DEF Holds
    <3>2. x \in Of(Files(path), f)
      BY <2>2 DEF Of
    <3>3. Of(Files(path) \ {x}, f) = {}
      BY <3>1, <3>2 DEF Of
    <3>4. Of(S, f) = Of(Named({x}, fname[f]), f)
      BY <3>3, OfWritten
    <3> QED BY <2>5, <3>4 DEF Of
  <2> HIDE DEF S
  <2>9. Files(path)' = S /\ folder'[path] # None
    BY <1>1, <2>4, <2>6, PathFiles
  <2>10. op'.pc = "to_trash" /\ op'.fmt = f
    BY <2>1, WentTo
  <2>11. StageInv'
    BY <1>1, <1>4, <2>10 DEF StageInv, MovePCs, FormatPCs, RestorePCs, RemovePCs
  <2>12. ASSUME NEW g \in Formats \ torn, g # f PROVE InOrder(g)'
    <3>1. Of(Files(path), g)' = Of(Files(path), g)
      BY <2>7, <2>9, <2>12 DEF Of
    <3>2. Holds(Files(path), g, fname[g])'
      BY <1>1, <1>3, <1>4, <2>12, <3>1, OtherStays
    <3> QED BY <2>10, <2>12, <3>2, OtherFormats DEF FormatPCs
  <2>13. ASSUME f \notin torn PROVE InOrder(f)'
    <3>1. \A y \in Of(Files(path), f)' : y.name = fname[f]
      BY <2>8, <2>9, <2>13 DEF Of
    <3> QED BY <1>1, <1>4, <2>10, <3>1 DEF InOrder, FormatPCs
  <2> QED BY <1>1, <2>11, <2>12, <2>13 DEF OrderInv
<1> QED BY <1>5, <1>6 DEF RemoveFormat

LEMMA OrderFormatToTrash == ASSUME IInv, StageInv, OrderInv, FormatToTrash PROVE StageInv' /\ OrderInv'
<1>1. /\ UNCHANGED <<in_db, title, path, fname, wanted>> /\ op.pc = "to_trash"
  BY DEF FormatToTrash
<1>2. /\ TypesInv /\ path \in Names /\ op.fmt \in Formats /\ in_db /\ in_memory /\ Files(path) \in SUBSET File
      /\ trash_f # None /\ op.files \subseteq Contents
  BY <1>1, FilesType DEF IInv, TypesInv, CallInv, StageInv, FormatPCs
\* Only files of this format are written; names stay.
<1>3. /\ \A g : g # op.fmt => Of(Files(path), g)' = Of(Files(path), g)
      /\ \A g, n : g = op.fmt /\ (\A x \in Of(Files(path), g) : x.name = n) => \A x \in Of(Files(path), g)' : x.name = n
  <2>1. CASE UNCHANGED folder
    <3>1. Files(path)' = Files(path)
      BY <1>1, <2>1 DEF Files, FilesIn
    <3> QED BY <3>1 DEF Of
  <2>2. CASE \E c \in op.files \cup {Damaged} :
               \E l \in Linked({[fmt |-> op.fmt, old |-> x.content, new |-> c] : x \in {y \in trash_f.files : y.fmt = op.fmt}}) :
                 folder' = l.folder
    <3>1. PICK c \in op.files \cup {Damaged} :
               \E l \in Linked({[fmt |-> op.fmt, old |-> x.content, new |-> c] : x \in {y \in trash_f.files : y.fmt = op.fmt}}) :
                 folder' = l.folder
      BY <2>2
    <3> DEFINE W == {[fmt |-> op.fmt, old |-> x.content, new |-> c] : x \in {y \in trash_f.files : y.fmt = op.fmt}}
    <3>2. PICK l \in Linked(W) : folder' = l.folder
      BY <3>1
    <3>3. W \in SUBSET Write /\ \A w \in W : w.fmt = op.fmt
      <4>1. trash_f.files \subseteq TrashedFile
        BY <1>2 DEF TypesInv, FormatsEntry
      <4>2. c \in Contents
        BY <1>2, BoundsAssumption DEF Damaged, Contents
      <4> QED BY <1>2, <4>1, <4>2 DEF Write, TrashedFile
    <3> HIDE DEF W
    <3> DEFINE F == FilesIn(l.folder, path)
    <3>4. F \in SUBSET File /\ FilesAfter(F, Files(path), W)
      BY <1>2, <3>3, LinkedFolders
    <3>5. Files(path)' = F
      BY <1>1, <3>2 DEF Files, FilesIn
    <3> HIDE DEF F
    <3>6. \A g : g # op.fmt => Of(F, g) = Of(Files(path), g)
      BY <1>2, <3>3, <3>4, AfterSame DEF Effective
    <3>7. ASSUME NEW g, NEW n, g = op.fmt, \A x \in Of(Files(path), g) : x.name = n
          PROVE  \A x \in Of(F, g) : x.name = n
      BY <3>4, <3>7 DEF FilesAfter, TurnedInto, Of
    <3> QED BY <3>5, <3>6, <3>7 DEF Of
  <2> QED BY <2>1, <2>2 DEF FormatToTrash
<1>4. ASSUME NEW g \in Formats \ torn, g # op.fmt PROVE Holds(Files(path), g, fname[g])'
  <2>1. Holds(Files(path), g, fname[g])
    BY <1>1, <1>4 DEF OrderInv, InOrder, FormatPCs
  <2> QED BY <1>1, <1>3, <1>4, <2>1, OtherStays
<1>5. CASE GoesOn("unlink_format")
  <2>1. /\ op'.pc = "unlink_format" /\ op'.fmt = op.fmt /\ op'.files = op.files
        /\ in_memory' = in_memory /\ torn' = torn
    BY <1>5, OnStage
  <2>2. StageInv'
    BY <1>1, <1>2, <2>1 DEF StageInv, MovePCs, FormatPCs, RestorePCs, RemovePCs
  <2>3. ASSUME NEW g \in Formats \ torn PROVE InOrder(g)'
    <3>1. CASE g # op.fmt
      BY <1>4, <2>1, <2>3, <3>1, OtherFormats DEF FormatPCs
    <3>2. CASE g = op.fmt
      <4>1. wanted[g] = None /\ \A x \in Of(Files(path), g) : x.name = fname[g]
        BY <1>1, <2>3, <3>2 DEF OrderInv, InOrder
      <4>2. \A x \in Of(Files(path), g)' : x.name = fname[g]
        BY <1>3, <3>2, <4>1
      <4> QED BY <1>1, <2>1, <3>2, <4>1, <4>2 DEF InOrder, FormatPCs
    <3> QED BY <3>1, <3>2
  <2> QED BY <2>1, <2>2, <2>3 DEF OrderInv
<1>6. CASE EndsEarly({op.fmt})
  <2>1. op' = Idle /\ torn' = torn \cup {op.fmt} /\ StageInv'
    BY <1>1, <1>2, <1>6, EarlyStage
  <2>2. ASSUME NEW g \in Formats \ torn' PROVE InOrder(g)'
    BY <1>4, <2>1, <2>2, OtherFormats
  <2> QED BY <2>1, <2>2 DEF OrderInv
<1>7. CASE op' = [op EXCEPT !.pc = "delete_row"] /\ torn' = torn \cup {op.fmt} /\ in_memory' = in_memory
  <2>1. op'.pc = "delete_row" /\ op'.fmt = op.fmt /\ op'.files = op.files
    BY <1>2, <1>7, WentOn
  <2>2. StageInv'
    BY <1>1, <1>2, <1>7, <2>1 DEF StageInv, MovePCs, FormatPCs, RestorePCs, RemovePCs
  <2>3. ASSUME NEW g \in Formats \ torn' PROVE InOrder(g)'
    BY <1>4, <1>7, <2>1, <2>3, OtherFormats DEF FormatPCs
  <2> QED BY <2>2, <2>3 DEF OrderInv
<1> QED BY <1>5, <1>6, <1>7 DEF FormatToTrash

LEMMA OrderUnlinkFormat == ASSUME IInv, StageInv, OrderInv, UnlinkFormat PROVE StageInv' /\ OrderInv'
<1>1. /\ UNCHANGED <<in_db, title, path, fname, wanted>> /\ op.pc = "unlink_format"
  BY DEF UnlinkFormat
<1>2. op.fmt \in Formats /\ in_db /\ in_memory /\ folder[path] \in SUBSET File
  BY <1>1 DEF IInv, CallInv, StageInv, FormatPCs
<1>3. Files(path) = folder[path]
  BY <1>2, FolderAssumption DEF Files, FilesIn
<1>4. ASSUME NEW g \in Formats \ torn, g # op.fmt, Of(Files(path), g)' = Of(Files(path), g)
      PROVE  Holds(Files(path), g, fname[g])'
  <2>1. Holds(Files(path), g, fname[g])
    BY <1>1, <1>4 DEF OrderInv, InOrder, FormatPCs
  <2> QED BY <1>1, <1>4, <2>1, OtherStays
<1>5. CASE /\ folder' = [folder EXCEPT ![path] = {x \in @ : x.fmt # op.fmt \/ x.name # fname[op.fmt]}]
           /\ GoesOn("delete_row")
  <2> DEFINE S == {x \in Files(path) : x.fmt # op.fmt \/ x.name # fname[op.fmt]}
  <2>1. folder' = [folder EXCEPT ![path] = S] /\ S \in SUBSET File
    BY <1>2, <1>3, <1>5
  <2>2. \A g \in Formats : g # op.fmt => Of(S, g) = Of(Files(path), g)
    BY DEF Of
  <2>3. op.fmt \notin torn => wanted[op.fmt] = None /\ Of(S, op.fmt) = {}
    <3>1. op.fmt \notin torn => wanted[op.fmt] = None /\ \A x \in Of(Files(path), op.fmt) : x.name = fname[op.fmt]
      BY <1>1, <1>2 DEF OrderInv, InOrder
    <3> QED BY <3>1 DEF Of
  <2> HIDE DEF S
  <2>4. Files(path)' = S
    BY <1>1, <2>1, PathFiles
  <2>5. /\ op'.pc = "delete_row" /\ op'.fmt = op.fmt /\ op'.files = op.files
        /\ in_memory' = in_memory /\ torn' = torn
    BY <1>5, OnStage
  <2>6. StageInv'
    BY <1>1, <1>2, <2>5 DEF StageInv, MovePCs, FormatPCs, RestorePCs, RemovePCs
  <2>7. ASSUME NEW g \in Formats \ torn PROVE InOrder(g)'
    <3>1. CASE g # op.fmt
      <4>1. Of(Files(path), g)' = Of(Files(path), g)
        BY <2>2, <2>4, <3>1 DEF Of
      <4> QED BY <1>4, <2>5, <2>7, <3>1, <4>1, OtherFormats DEF FormatPCs
    <3>2. CASE g = op.fmt
      <4>1. Of(Files(path), g)' = {} /\ wanted'[g] = None
        BY <1>1, <2>3, <2>4, <2>7, <3>2 DEF Of
      <4> QED BY <2>5, <3>2, <4>1 DEF InOrder, FormatPCs
    <3> QED BY <3>1, <3>2
  <2> QED BY <2>5, <2>6, <2>7 DEF OrderInv
<1>6. CASE EndsEarly({op.fmt}) /\ UNCHANGED folder
  <2>1. op' = Idle /\ torn' = torn \cup {op.fmt} /\ StageInv'
    BY <1>1, <1>2, <1>6, EarlyStage
  <2>2. ASSUME NEW g \in Formats \ torn' PROVE InOrder(g)'
    <3>1. Of(Files(path), g)' = Of(Files(path), g)
      BY <1>1, <1>6 DEF Of, Files, FilesIn
    <3> QED BY <1>4, <2>1, <2>2, <3>1, OtherFormats
  <2> QED BY <2>1, <2>2 DEF OrderInv
<1> QED BY <1>5, <1>6 DEF UnlinkFormat

LEMMA OrderDeleteRow == ASSUME IInv, StageInv, OrderInv, DeleteRow PROVE StageInv' /\ OrderInv'
<1>1. /\ UNCHANGED <<in_db, title, path, folder, wanted>> /\ op.pc = "delete_row"
  BY DEF DeleteRow
<1>2. op.fmt \in Formats /\ in_db /\ in_memory
  BY <1>1 DEF IInv, CallInv, StageInv, FormatPCs
<1>3. Files(path)' = Files(path)
  BY <1>1 DEF Files, FilesIn
<1>4. ASSUME NEW g \in Formats \ torn, g # op.fmt, fname'[g] = fname[g]
      PROVE  Holds(Files(path), g, fname[g])'
  <2>1. Holds(Files(path), g, fname[g])
    BY <1>1, <1>4 DEF OrderInv, InOrder, FormatPCs
  <2> QED BY <1>1, <1>3, <1>4, <2>1, OtherStays
<1>5. CASE fname' = [fname EXCEPT ![op.fmt] = None] /\ Returns /\ UNCHANGED torn
  <2>1. op' = Idle /\ in_memory' = in_memory /\ torn' = torn
    BY <1>5 DEF Returns
  <2>2. StageInv'
    BY <1>1, <1>2, <2>1, OverStage DEF StageInv
  <2>3. ASSUME NEW g \in Formats \ torn PROVE InOrder(g)'
    <3>1. fname'[g] = IF g = op.fmt THEN None ELSE fname[g]
      BY <1>5 DEF IInv, TypesInv
    <3>2. CASE g # op.fmt
      BY <1>4, <2>1, <2>3, <3>1, <3>2, OtherFormats
    <3>3. CASE g = op.fmt
      <4>1. wanted[g] = None /\ Of(Files(path), g) = {}
        BY <1>1, <2>3, <3>3 DEF OrderInv, InOrder
      <4>2. Holds(Files(path), g, fname[g])'
        BY <1>1, <1>3, <3>1, <3>3, <4>1 DEF Holds, Of
      <4> QED BY <2>1, <4>2, OverOrder
    <3> QED BY <3>2, <3>3
  <2> QED BY <2>1, <2>2, <2>3 DEF OrderInv
<1>6. CASE EndsEarly({op.fmt}) /\ UNCHANGED fname
  <2>1. op' = Idle /\ torn' = torn \cup {op.fmt} /\ StageInv'
    BY <1>1, <1>2, <1>6, EarlyStage
  <2>2. ASSUME NEW g \in Formats \ torn' PROVE InOrder(g)'
    BY <1>4, <1>6, <2>1, <2>2, OtherFormats
  <2> QED BY <2>1, <2>2 DEF OrderInv
<1> QED BY <1>5, <1>6 DEF DeleteRow

\* While the book is removed, and afterwards, there is nothing to find.
LEMMA GoneStep ==
  ASSUME IInv, StageInv, UNCHANGED <<in_db, title, path, wanted, torn, in_memory>>,
         op.pc \in RemovePCs, op'.pc \in RemovePCs, folder'[path] # None,
         op'.pc = "copy_to_trash" => trash_b' = None
  PROVE  StageInv' /\ OrderInv'
<1>1. ~in_db
  BY DEF StageInv
<1>2. StageInv'
  BY <1>1 DEF StageInv, MovePCs, FormatPCs, RestorePCs, RemovePCs
<1>3. OrderInv'
  BY <1>1 DEF OrderInv, InOrder, FormatPCs, RemovePCs
<1> QED BY <1>2, <1>3

LEMMA GoneOver ==
  ASSUME IInv, StageInv, in_db' = in_db, wanted' = wanted, op.pc \in RemovePCs, Forgotten \/ EndsEarly(Formats)
  PROVE  StageInv' /\ OrderInv'
<1>1. ~in_db /\ wanted = NoFormats
  BY DEF StageInv
<1>2. StageInv' /\ op' = Idle
  <2>1. CASE Forgotten
    BY <1>1, <2>1, OverStage DEF Forgotten, StageInv
  <2>2. CASE EndsEarly(Formats)
    BY <2>2, EarlyStage
  <2> QED BY <2>1, <2>2
<1>3. OrderInv'
  BY <1>1, <1>2, OverOrder DEF OrderInv
<1> QED BY <1>2, <1>3

LEMMA OrderRemoveBook ==
  ASSUME IInv, StageInv, OrderInv, NEW permanent \in BOOLEAN, RemoveBook(permanent) PROVE StageInv' /\ OrderInv'
<1>1. /\ UNCHANGED <<title, path, torn>> /\ in_db' = FALSE /\ wanted' = NoFormats
      /\ op = Idle /\ in_memory
  BY DEF RemoveBook
<1>2. NoFormats \in [Formats -> Contents \cup {None}]
  BY DEF NoFormats
<1>3. CASE folder'[path] = None
  <2>1. op' = Idle
    BY <1>3 DEF RemoveBook
  <2> QED BY <1>1, <1>2, <2>1, OverStage, OverOrder DEF StageInv, OrderInv
<1>4. CASE folder'[path] # None
  <2>1. op'.pc \in {"rmtree", "empty_trash"}
    BY <1>4, WentTo DEF RemoveBook
  <2>2. StageInv'
    BY <1>1, <1>2, <1>4, <2>1 DEF StageInv, MovePCs, FormatPCs, RestorePCs, RemovePCs
  <2>3. OrderInv'
    BY <1>1, <2>1 DEF OrderInv, InOrder, FormatPCs
  <2> QED BY <2>2, <2>3
<1> QED BY <1>3, <1>4

LEMMA OrderRemoveTree == ASSUME IInv, StageInv, OrderInv, RemoveTree PROVE StageInv' /\ OrderInv'
BY GoneOver DEF RemoveTree, RemovePCs

LEMMA OrderEmptyTrash == ASSUME IInv, StageInv, OrderInv, EmptyTrash PROVE StageInv' /\ OrderInv'
<1>1. UNCHANGED <<in_db, title, path, folder, wanted>> /\ op.pc = "empty_trash"
  BY DEF EmptyTrash
<1>2. CASE trash_b' = None /\ GoesOn("copy_to_trash")
  <2>1. op'.pc = "copy_to_trash" /\ in_memory' = in_memory /\ torn' = torn
    BY <1>2, OnStage
  <2>2. folder'[path] # None
    BY <1>1 DEF StageInv, RemovePCs
  <2> QED BY <1>1, <1>2, <2>1, <2>2, GoneStep DEF RemovePCs
<1>3. CASE EndsEarly(Formats)
  BY <1>1, <1>3, GoneOver DEF RemovePCs
<1> QED BY <1>2, <1>3 DEF EmptyTrash

LEMMA OrderCopyToTrash == ASSUME IInv, StageInv, OrderInv, CopyToTrash PROVE StageInv' /\ OrderInv'
<1>1. UNCHANGED <<in_db, title, path, folder, wanted>> /\ op.pc = "copy_to_trash"
  BY DEF CopyToTrash
<1>2. CASE GoesOn("unlink_book")
  <2>1. op'.pc = "unlink_book" /\ in_memory' = in_memory /\ torn' = torn
    BY <1>2, OnStage
  <2>2. folder'[path] # None
    BY <1>1 DEF StageInv, RemovePCs
  <2> QED BY <1>1, <2>1, <2>2, GoneStep DEF RemovePCs
<1>3. CASE EndsEarly(Formats)
  BY <1>1, <1>3, GoneOver DEF RemovePCs
<1> QED BY <1>2, <1>3 DEF CopyToTrash

LEMMA OrderUnlinkBook == ASSUME IInv, StageInv, OrderInv, UnlinkBook PROVE StageInv' /\ OrderInv'
BY GoneOver DEF UnlinkBook, RemovePCs

LEMMA OrderRestoreBook == ASSUME IInv, StageInv, OrderInv, RestoreBook PROVE StageInv' /\ OrderInv'
<1>1. /\ UNCHANGED <<trash_b, wanted, torn>> /\ in_db' /\ in_memory' /\ ~in_memory /\ trash_b # None
  BY DEF RestoreBook, trash, history
<1>2. op'.pc = "from_trash" /\ op'.files = trash_b.files
  BY WentTo DEF RestoreBook
<1>3. wanted = NoFormats
  BY <1>1 DEF StageInv
<1>4. StageInv'
  BY <1>1, <1>2, <1>3 DEF StageInv, MovePCs, FormatPCs, RestorePCs, RemovePCs
<1>5. OrderInv'
  BY <1>2 DEF OrderInv, InOrder, FormatPCs
<1> QED BY <1>4, <1>5

\* A restored book has what the trash had, but for what was left in its folder.
LEMMA OrderCopyFromTrash == ASSUME IInv, StageInv, OrderInv, CopyFromTrash PROVE StageInv' /\ OrderInv'
<1>1. /\ UNCHANGED <<in_db, title, path, fname, wanted>> /\ op.pc = "from_trash"
  BY DEF CopyFromTrash
<1>2. /\ TypesInv /\ path \in Names /\ Files(path) \in SUBSET File
      /\ trash_b # None /\ op.files \subseteq File /\ op.files = trash_b.files
      /\ in_db /\ in_memory /\ wanted = NoFormats
  BY <1>1, FilesType DEF IInv, CallInv, TypesInv, StageInv, RestorePCs
<1> DEFINE S == op.files
           W == Overwrites(Files(path), S)
<1>3. CASE /\ \E l \in Linked(W), R \in Written(S, W) :
                folder' = [l.folder EXCEPT ![path] = Overwrite(FilesIn(l.folder, path), R)]
           /\ op' = [op EXCEPT !.pc = "unlink_trash"]
           /\ torn' = torn \cup {x.fmt : x \in Overwrite(Files(path), S) \ S} \cup Doubled(S)
           /\ in_memory' = in_memory
  <2>1. op'.pc = "unlink_trash" /\ op'.files = S
    BY <1>2, <1>3, WentOn
  <2>2. PICK l \in Linked(W), R \in Written(S, W) :
          folder' = [l.folder EXCEPT ![path] = Overwrite(FilesIn(l.folder, path), R)]
    BY <1>3
  <2>3. S \in SUBSET File
    BY <1>2
  <2> HIDE DEF S
  <2>4. /\ W \in SUBSET Write
        /\ \A w \in W : \E x \in Files(path), y \in S : SameFile(x, y) /\ w.fmt = x.fmt /\ w.old = x.content /\ w.new = y.content
    BY <1>2, <2>3, OverwritesType
  <2> HIDE DEF W
  <2> DEFINE F == FilesIn(l.folder, path)
             Q == Overwrite(F, R)
  <2>5. /\ l.folder \in [Names -> (SUBSET File) \cup {None}]
        /\ F \in SUBSET File /\ FilesAfter(F, Files(path), W)
        /\ R \in SUBSET File /\ FilesAfter(R, S, W)
    BY <1>2, <2>3, <2>4, WrittenFiles, LinkedFolders
  <2> HIDE DEF F
  <2>6. Q \in SUBSET File
    BY <2>5, OverwriteType
  <2>7. Files(path)' = Q
    <3>1. folder'[path] = Q
      BY <1>2, <2>2, <2>5 DEF F
    <3> QED BY <1>1, <2>6, <3>1, FolderAssumption DEF Files, FilesIn
  <2>8. torn' \subseteq Formats
    <3>1. Overwrite(Files(path), S) \in SUBSET File
      BY <1>2, <2>3, OverwriteType
    <3>2. \A x \in Overwrite(Files(path), S) : x.fmt \in Formats
      BY <3>1 DEF File
    <3> QED BY <1>3, <3>2 DEF StageInv, Doubled
  <2>9. StageInv'
    BY <1>1, <1>2, <1>3, <2>1, <2>8 DEF StageInv, MovePCs, FormatPCs, RestorePCs, RemovePCs
  <2>10. ASSUME NEW f \in Formats \ torn' PROVE InOrder(f)'
    <3>1. \A x \in Overwrite(Files(path), S) : x.fmt = f => x \in S
      BY <1>3, <2>10
    <3>2. \A x, y \in Of(S, f) : x = y
      BY <1>3, <2>10 DEF Doubled, Of
    <3>3. \A x \in Of(Files(path), f) : \E y \in Of(S, f) : y.name = x.name
      <4> SUFFICES ASSUME NEW x \in Files(path), x.fmt = f PROVE \E y \in Of(S, f) : y.name = x.name
        BY DEF Of
      <4>1. CASE \E y \in S : SameFile(x, y)
        BY <4>1 DEF SameFile, Of
      <4>2. CASE ~\E y \in S : SameFile(x, y)
        <5>1. x \in S
          BY <3>1, <4>2 DEF Overwrite
        <5> QED BY <5>1 DEF Of
      <4> QED BY <4>1, <4>2
    \* What is written over the file of the format is the one of the trash.
    <3>4. ASSUME NEW y \in Of(S, f) PROVE ~Effective(W, f, y.content)
      <4>1. ASSUME NEW w \in W, w.fmt = f PROVE w.new = y.content
        <5>1. PICK z \in S : z.fmt = f /\ w.new = z.content
          BY <2>4, <4>1 DEF SameFile
        <5> QED BY <3>2, <5>1 DEF Of
      <4> QED BY <4>1 DEF Effective
    <3>5. Of(R, f) = Of(S, f)
      BY <2>3, <2>5, <3>4, AfterSame
    <3>6. \A x \in Of(F, f) : \E y \in Of(S, f) : y.name = x.name
      <4> SUFFICES ASSUME NEW x \in F, x.fmt = f PROVE \E y \in Of(S, f) : y.name = x.name
        BY DEF Of
      <4>1. PICK z \in Files(path) : x.name = z.name /\ z.fmt = f
        BY <2>5 DEF FilesAfter, TurnedInto
      <4> QED BY <3>3, <4>1 DEF Of
    <3>7. \A x \in F : x.fmt = f => \E y \in R : SameFile(x, y)
      BY <3>5, <3>6 DEF Of, SameFile
    <3>8. Of(Q, f) = Of(S, f)
      BY <3>5, <3>7 DEF Overwrite, Of
    <3>9. Of(Files(path), f)' = Of(S, f) /\ Of(op.files, f)' = Of(S, f)
      BY <2>1, <2>7, <3>8 DEF Of
    <3> QED BY <2>1, <3>2, <3>9 DEF InOrder, FormatPCs
  <2> QED BY <2>9, <2>10 DEF OrderInv
<1>4. CASE EndsEarly(Formats)
  <2>1. op' = Idle /\ torn' = torn \cup Formats /\ StageInv'
    BY <1>1, <1>4, EarlyStage
  <2> QED BY <2>1 DEF OrderInv
<1> QED BY <1>2, <1>3, <1>4 DEF CopyFromTrash

LEMMA OrderUnlinkTrash == ASSUME IInv, StageInv, OrderInv, UnlinkTrash PROVE StageInv' /\ OrderInv'
<1>1. UNCHANGED <<in_db, title, path, fname, folder, wanted>> /\ op.pc = "unlink_trash"
  BY DEF UnlinkTrash
<1>2. in_db /\ in_memory /\ wanted = NoFormats
  BY <1>1 DEF StageInv, RestorePCs
<1>3. CASE GoesOn("rows")
  <2>1. /\ op'.pc = "rows" /\ op'.files = op.files
        /\ in_memory' = in_memory /\ torn' = torn
    BY <1>3, OnStage
  <2>2. StageInv'
    BY <1>1, <1>2, <2>1 DEF StageInv, MovePCs, FormatPCs, RestorePCs, RemovePCs
  <2>3. ASSUME NEW f \in Formats \ torn PROVE InOrder(f)'
    <3>1. /\ Of(Files(path), f) = Of(op.files, f)
          /\ \A x, y \in Of(op.files, f) : x = y
      BY <1>1, <2>3 DEF OrderInv, InOrder
    <3>2. Of(Files(path), f)' = Of(Files(path), f) /\ Of(op.files, f)' = Of(op.files, f)
      BY <1>1, <2>1 DEF Of, Files, FilesIn
    <3> QED BY <2>1, <3>1, <3>2 DEF InOrder, FormatPCs
  <2> QED BY <2>1, <2>2, <2>3 DEF OrderInv
<1>4. CASE EndsEarly(Formats)
  <2>1. op' = Idle /\ torn' = torn \cup Formats /\ StageInv'
    BY <1>1, <1>4, EarlyStage
  <2> QED BY <2>1 DEF OrderInv
<1> QED BY <1>3, <1>4 DEF UnlinkTrash

LEMMA OrderUpdateRows == ASSUME IInv, StageInv, OrderInv, UpdateRows PROVE StageInv' /\ OrderInv'
<1>1. UNCHANGED <<in_db, title, path, folder>> /\ op.pc = "rows"
  BY DEF UpdateRows
<1>2. in_db /\ in_memory /\ op.files \subseteq File
  BY <1>1 DEF StageInv, RestorePCs, IInv, CallInv
<1>3. Files(path)' = Files(path)
  BY <1>1 DEF Files, FilesIn
<1>4. CASE /\ \E P \in SUBSET op.files :
                /\ \A x \in op.files : One({y \in P : y.fmt = x.fmt})
                /\ fname' = [f \in Formats |-> IF \E x \in P : x.fmt = f
                                               THEN (CHOOSE x \in P : x.fmt = f).name ELSE None]
                /\ wanted' = [f \in Formats |-> IF \E x \in P : x.fmt = f
                                                THEN (CHOOSE x \in P : x.fmt = f).content ELSE None]
           /\ Returns /\ UNCHANGED torn
  <2>1. PICK P \in SUBSET op.files :
                /\ \A x \in op.files : One({y \in P : y.fmt = x.fmt})
                /\ fname' = [f \in Formats |-> IF \E x \in P : x.fmt = f
                                               THEN (CHOOSE x \in P : x.fmt = f).name ELSE None]
                /\ wanted' = [f \in Formats |-> IF \E x \in P : x.fmt = f
                                                THEN (CHOOSE x \in P : x.fmt = f).content ELSE None]
    BY <1>4
  <2>2. op' = Idle /\ in_memory' = in_memory /\ torn' = torn
    BY <1>4 DEF Returns
  <2>3. ASSUME NEW f \in Formats
        PROVE  \/ /\ ~\E x \in P : x.fmt = f
                  /\ fname'[f] = None /\ wanted'[f] = None
               \/ \E z \in P : /\ z \in File /\ z.fmt = f
                               /\ fname'[f] = z.name /\ wanted'[f] = z.content
    <3>1. CASE ~\E x \in P : x.fmt = f
      BY <2>1, <3>1
    <3>2. CASE \E x \in P : x.fmt = f
      <4> DEFINE z == CHOOSE x \in P : x.fmt = f
      <4>1. z \in P /\ z.fmt = f
        BY <3>2
      <4>2. fname'[f] = z.name /\ wanted'[f] = z.content
        BY <2>1, <3>2
      <4> HIDE DEF z
      <4> QED BY <1>2, <4>1, <4>2
    <3> QED BY <3>1, <3>2
  <2>4. wanted' \in [Formats -> Contents \cup {None}]
    <3>1. \A f \in Formats : wanted'[f] \in Contents \cup {None}
      BY <2>3 DEF File
    <3>2. wanted' = [f \in Formats |-> wanted'[f]]
      BY <2>1
    <3> QED BY <3>1, <3>2
  <2>5. StageInv'
    BY <1>1, <1>2, <2>2, <2>4, OverStage DEF StageInv
  <2>6. ASSUME NEW f \in Formats \ torn PROVE InOrder(f)'
    <3>1. /\ Of(Files(path), f) = Of(op.files, f)
          /\ \A x, y \in Of(op.files, f) : x = y
      BY <1>1, <2>6 DEF OrderInv, InOrder
    <3>2. ASSUME NEW x \in op.files, x.fmt = f PROVE \E y \in P : y.fmt = f
      BY <2>1, <3>2 DEF One
    <3>3. Holds(Files(path), f, fname[f])'
      <4>1. CASE ~\E x \in P : x.fmt = f
        <5>1. fname'[f] = None /\ wanted'[f] = None
          BY <2>3, <4>1
        <5>2. Of(op.files, f) = {}
          BY <3>2, <4>1 DEF Of
        <5> QED BY <1>3, <3>1, <5>1, <5>2 DEF Holds, Of
      <4>2. CASE \E x \in P : x.fmt = f
        <5>1. PICK z \in P : /\ z \in File /\ z.fmt = f
                             /\ fname'[f] = z.name /\ wanted'[f] = z.content
          BY <2>3, <4>2
        <5>2. z = [fmt |-> f, name |-> z.name, content |-> z.content]
          BY <5>1 DEF File
        <5>3. z.name # None /\ z.content # None
          BY <5>1, NamesAssumption DEF File, Contents
        <5>4. Of(op.files, f) = {z}
          BY <3>1, <5>1 DEF Of
        <5>5. Of(Files(path), f)' = {z}
          BY <1>3, <3>1, <5>4 DEF Of
        <5> QED BY <5>1, <5>2, <5>3, <5>5 DEF Holds, TheFile
      <4> QED BY <4>1, <4>2
    <3> QED BY <2>2, <3>3, OverOrder
  <2> QED BY <2>2, <2>5, <2>6 DEF OrderInv
<1>5. CASE EndsEarly(Formats) /\ UNCHANGED wanted
  <2>1. op' = Idle /\ torn' = torn \cup Formats /\ StageInv'
    BY <1>1, <1>5, EarlyStage
  <2> QED BY <2>1 DEF OrderInv
<1> QED BY <1>4, <1>5 DEF UpdateRows

\* What happens between the calls, and what only concerns the trash.
LEMMA BetweenCalls ==
  ASSUME IInv, StageInv, OrderInv, op' = Idle, op = Idle, in_memory' \in {in_memory, in_db},
         UNCHANGED <<in_db, title, path, fname, folder, wanted, torn>>
  PROVE  StageInv' /\ OrderInv'
<1>1. StageInv'
  BY OverStage DEF StageInv
<1>2. ASSUME NEW f \in Formats \ torn PROVE InOrder(f)'
  <2>1. in_db => Holds(Files(path), f, fname[f])
    BY DEF OrderInv, InOrder, Idle
  <2>2. in_db => Holds(Files(path), f, fname[f])'
    BY <2>1 DEF Holds, TheFile, Files, FilesIn
  <2> QED BY <2>2, OverOrder
<1> QED BY <1>1, <1>2 DEF OrderInv

LEMMA OrderBetween ==
  ASSUME IInv, StageInv, OrderInv,
         \/ ExpireOldTrash \/ Restart \/ Tick
         \/ \E b, f \in BOOLEAN : DeleteTrash(b, f)
  PROVE  StageInv' /\ OrderInv'
<1>1. /\ op' = Idle /\ op = Idle /\ in_memory' \in {in_memory, in_db}
      /\ UNCHANGED <<in_db, title, path, fname, folder, wanted, torn>>
  BY DEF ExpireOldTrash, Restart, Tick, DeleteTrash, tables, history
<1> QED BY <1>1, BetweenCalls

LEMMA OrderStutter == ASSUME StageInv, OrderInv, UNCHANGED vars PROVE StageInv' /\ OrderInv'
<1>1. UNCHANGED <<in_db, in_memory, title, path, fname, folder, trash_b, op, wanted, torn>>
  BY DEF vars
<1>2. StageInv'
  BY <1>1 DEF StageInv, TheFile, Files, FilesIn
<1>3. OrderInv'
  BY <1>1 DEF OrderInv, InOrder, Holds, TheFile, Of, Files, FilesIn
<1> QED BY <1>2, <1>3
-----------------------------------------------------------------------------
(* Steps that end a call early, and leave formats in disorder. *)

LEMMA SomewhereStays ==
  ASSUME NEW f, Somewhere(f), UNCHANGED <<folder, wanted>>
  PROVE  Somewhere(f)'
BY DEF Somewhere, Files, FilesIn

\* The file of the format is not among those of the folder that changes, or is
\* among those that are there afterwards.
LEMMA FileStays ==
  ASSUME NEW n \in Names, NEW f, NEW m, Holds(Files(n), f, m), wanted[f] # None, wanted' = wanted,
         Of(Files(n), f) \subseteq Files(n)'
  PROVE  Somewhere(f)'
<1>1. Of(Files(n), f) = {TheFile(f, m)}
  BY DEF Holds
<1>2. TheFile(f, m) \in Files(n)' /\ TheFile(f, m).fmt = f /\ TheFile(f, m).content = wanted'[f]
  BY <1>1 DEF TheFile
<1> QED BY <1>2 DEF Somewhere

-----------------------------------------------------------------------------
(* The theorems. *)

LEMMA OrderInitial == Init => StageInv /\ OrderInv
<1> SUFFICES ASSUME Init PROVE StageInv /\ OrderInv
  OBVIOUS
<1>1. op = Idle /\ in_db /\ in_memory /\ wanted = NoFormats /\ fname = NoFormats /\ torn = {}
  BY DEF Init
<1>2. Files(path) = {}
  BY DEF Init, Files, FilesIn
<1>3. StageInv
  BY <1>1 DEF StageInv, Idle, NoFormats, MovePCs, FormatPCs, RestorePCs, RemovePCs
<1>4. \A f \in Formats : Holds(Files(path), f, fname[f])
  BY <1>1, <1>2 DEF Holds, Of, NoFormats
<1>5. OrderInv
  BY <1>1, <1>4 DEF OrderInv, InOrder, Idle, FormatPCs
<1> QED BY <1>3, <1>5

LEMMA OrderCalls == ASSUME IInv, StageInv, OrderInv, Calls PROVE StageInv' /\ OrderInv'
BY OrderSetTitle, OrderAddFormat, OrderRemoveFormat, OrderRestoreFormat, OrderRemoveBook,
   OrderRestoreBook, OrderBetween DEF Calls

LEMMA OrderSteps == ASSUME IInv, StageInv, OrderInv, Steps PROVE StageInv' /\ OrderInv'
BY OrderRenameFormats, OrderClearTarget, OrderCopyFiles, OrderUnlinkFiles, OrderUpdatePathsInDB,
   OrderWriteFormat, OrderReplaceFormat, OrderUpdateRow, OrderFormatToTrash, OrderUnlinkFormat,
   OrderDeleteRow,
   OrderRemoveTree, OrderEmptyTrash, OrderCopyToTrash, OrderUnlinkBook,
   OrderCopyFromTrash, OrderUnlinkTrash, OrderUpdateRows DEF Steps

LEMMA AllInOrder == Spec => [](StageInv /\ OrderInv)
<1>1. Init => StageInv /\ OrderInv
  BY OrderInitial
<1>2. IInv /\ StageInv /\ OrderInv /\ [Next]_vars => StageInv' /\ OrderInv'
  BY OrderCalls, OrderSteps, OrderBetween, OrderStutter DEF Next
<1> QED BY <1>1, <1>2, Invariance, PTL DEF Spec

\* Every variable has its type at all times, and every call finds the folders and
\* the entries of the trash that its next step reads.
THEOREM TypeCorrect == Spec => []TypeOK
BY TypesHold, Invariance, AllInOrder, PTL

-----------------------------------------------------------------------------
(* While no call ended early. *)

Counted == interrupts \in Nat

LEMMA InterruptsGoUp ==
  ASSUME [Next]_vars
  PROVE  interrupts' = interrupts \/ interrupts' = interrupts + 1
<1>1. CASE Calls \/ Restart \/ Tick
  BY <1>1 DEF Calls, SetTitle, AddFormat, RemoveFormat, RestoreFormat, RemoveBook, RestoreBook,
              ExpireOldTrash, DeleteTrash, Restart, Tick
<1>2. CASE RenameFormats \/ ClearTarget \/ CopyFiles \/ UnlinkFiles \/ UpdatePathsInDB
  BY <1>2 DEF RenameFormats, ClearTarget, CopyFiles, UnlinkFiles, UpdatePathsInDB, GoesOn, Returns, EndsEarly
<1>3. CASE WriteFormat \/ ReplaceFormat \/ UpdateRow \/ FormatToTrash \/ UnlinkFormat \/ DeleteRow
  BY <1>3 DEF WriteFormat, ReplaceFormat, UpdateRow, FormatToTrash, UnlinkFormat, DeleteRow, GoesOn, Returns, EndsEarly
<1>4. CASE RemoveTree \/ EmptyTrash \/ CopyToTrash \/ UnlinkBook
  BY <1>4 DEF RemoveTree, EmptyTrash, CopyToTrash, UnlinkBook, GoesOn, Forgotten, EndsEarly
<1>5. CASE CopyFromTrash \/ UnlinkTrash \/ UpdateRows
  BY <1>5 DEF CopyFromTrash, UnlinkTrash, UpdateRows, GoesOn, Returns, EndsEarly
<1>6. CASE UNCHANGED vars
  BY <1>6 DEF vars
<1>7. CASE Steps
  BY <1>2, <1>3, <1>4, <1>5, <1>7 DEF Steps
<1> QED BY <1>1, <1>6, <1>7 DEF Next

LEMMA InterruptsCounted == Spec => []Counted
<1>1. Init => Counted
  BY DEF Init, Counted
<1>2. Counted /\ [Next]_vars => Counted'
  <2> SUFFICES ASSUME Counted, [Next]_vars PROVE Counted'
    OBVIOUS
  <2>1. interrupts' = interrupts \/ interrupts' = interrupts + 1
    BY InterruptsGoUp, Zenon
  <2> QED BY <2>1 DEF Counted
<1> QED BY <1>1, <1>2, PTL DEF Spec

LEMMA NoEnd == ASSUME Counted, interrupts' = interrupts, NEW T PROVE ~EndsEarly(T)
BY DEF Counted, EndsEarly

LEMMA GoingOn ==
  ASSUME TypesInv, NEW p, GoesOn(p)
  PROVE  op'.pc = p /\ op'.fmt = op.fmt /\ op'.files = op.files /\ torn' = torn
BY WentOn DEF GoesOn

\* The files have one name, and each another format.
Neat(S, n) == \A x \in S : x.name = n /\ \A y \in S : x.fmt = y.fmt => x = y

\* The folder of the row is the only one, or that of the title is another one
\* while the files move there; elsewhere nothing has another name than the title.
Tidy ==
  /\ torn = {}
  /\ \A n \in Names \ {path} : folder[n] # None => n = title /\ op.pc \in {"copy", "unlink", "paths"}
  /\ op.pc \notin {"clear", "copy", "unlink", "paths"} =>
       path = title /\ \A f \in Formats : fname[f] \in {None, title}
  /\ ~in_db /\ op.pc = "idle" => folder[path] = None
  /\ op.pc \in RemovePCs => Neat(Files(path), title)
  /\ trash_b # None => Neat(trash_b.files, trash_b.title)
  /\ op.pc = "from_trash" => folder[path] = None /\ trash_b.title = title
  /\ op.pc \in {"unlink_trash", "rows"} => Neat(op.files, title)
  /\ in_db /\ op.pc \notin {"from_trash", "unlink_trash"} => trash_b = None

TidyInv == interrupts = 0 => Tidy /\ Apart

\* A step of a call that leaves the book where it is, and puts none in the trash.
LEMMA TidyStep ==
  ASSUME Tidy, torn' = torn \/ torn' = {}, path' = path, title' = title,
         op.pc \notin {"clear", "copy", "unlink", "paths"}, op'.pc \in {"idle"} \cup FormatPCs,
         \A n \in Names \ {path} : folder'[n] = None <=> folder[n] = None,
         \A f \in Formats : fname'[f] \in {fname[f], None, title},
         trash_b' \in {trash_b, None}, in_db' => trash_b' = None,
         ~in_db' /\ op'.pc = "idle" => folder'[path] = None
  PROVE  Tidy'
<1>1. torn' = {} /\ path = title /\ \A f \in Formats : fname[f] \in {None, title}
  BY DEF Tidy
<1>2. \A n \in Names \ {path'} : folder'[n] = None
  BY DEF Tidy
<1>3. \A f \in Formats : fname'[f] \in {None, title'}
  BY <1>1
<1>4. trash_b' # None => Neat(trash_b.files, trash_b.title)'
  BY DEF Tidy, Neat
<1> QED BY <1>1, <1>2, <1>3, <1>4 DEF Tidy, FormatPCs, RemovePCs

LEMMA TidySetTitle == ASSUME Tidy, NEW n \in Names, SetTitle(n) PROVE Tidy'
<1>1. /\ UNCHANGED <<in_db, path, fname, folder, torn, trash_b>> /\ title' = n
      /\ op = Idle /\ in_db /\ n # title
  BY DEF SetTitle, Live, history, trash
<1>2. n # path /\ op.pc = "idle"
  BY <1>1 DEF Tidy, Idle
<1>3. op' = [pc |-> "clear", fmt |-> None, files |-> {}]
  BY <1>2 DEF SetTitle, Goto
<1> QED BY <1>1, <1>2, <1>3 DEF Tidy, RemovePCs, Neat

\* What is written makes no folder and no entry of the trash, and removes none.
LEMMA CopiedFolders ==
  ASSUME IInv, CopyFiles
  PROVE  /\ \A n \in Names \ {title} : folder'[n] = None <=> folder[n] = None
         /\ trash_b' = None <=> trash_b = None
<1>1. TypesInv /\ title \in Names
  BY DEF IInv, TypesInv
<1> DEFINE T(S, P) == (S \ P) \cup Named(S \cap P, title)
<1>2. PICK P \in Picks(path), S \in SUBSET Files(path) :
        \E R \in Resolved(T(S, P)) : \E l \in Linked(Overwrites(T(S, P), R)), Q \in Written(R, Overwrites(T(S, P), R)) :
          folder' = [l.folder EXCEPT ![title] = Q] /\ trash_b' = l.b
  BY DEF CopyFiles
<1>3. PICK R \in Resolved(T(S, P)) : \E l \in Linked(Overwrites(T(S, P), R)), Q \in Written(R, Overwrites(T(S, P), R)) :
          folder' = [l.folder EXCEPT ![title] = Q] /\ trash_b' = l.b
  BY <1>2
<1> DEFINE W == Overwrites(T(S, P), R)
<1>4. W \in SUBSET Write
  BY <1>1, CopyWrites
<1>5. PICK l \in Linked(W), Q \in Written(R, W) : folder' = [l.folder EXCEPT ![title] = Q] /\ trash_b' = l.b
  BY <1>3
<1> HIDE DEF W
<1> QED BY <1>1, <1>4, <1>5, LinkedFolders, LinkedBook

LEMMA WriteFolders ==
  ASSUME IInv, WriteFormat
  PROVE  /\ \A n \in Names \ {path} : folder'[n] = None <=> folder[n] = None
         /\ trash_b' = None <=> trash_b = None
<1>1. TypesInv /\ path \in Names /\ title \in Names /\ Files(path) \in SUBSET File
  BY FilesType DEF IInv, TypesInv
<1>2. op.fmt \in Formats /\ contents' \in Contents /\ Damaged \in Contents
  BY BoundsAssumption DEF WriteFormat, IInv, CallInv, TypesInv, Contents, Damaged
<1> DEFINE new(c) == [fmt |-> op.fmt, name |-> title, content |-> c]
           W(c) == Overwrites(Files(path), {new(c)})
<1>3. ASSUME NEW c \in {contents', Damaged}, NEW l \in Linked(W(c)),
             folder' = [l.folder EXCEPT ![path] = Overwrite(@, {new(c)})], trash_b' = l.b
      PROVE  /\ \A n \in Names \ {path} : folder'[n] = None <=> folder[n] = None
             /\ trash_b' = None <=> trash_b = None
  <2>1. W(c) \in SUBSET Write
    BY <1>1, <1>2, NewFile, OverwritesType
  <2> HIDE DEF W
  <2> QED BY <1>1, <1>3, <2>1, LinkedFolders, LinkedBook
<1> HIDE DEF W
<1>4. CASE \E c \in {contents', Damaged} : \E l \in Linked(W(c)) :
             folder' = [l.folder EXCEPT ![path] = Overwrite(@, {new(c)})] /\ trash_b' = l.b
  BY <1>3, <1>4
<1> QED BY <1>4 DEF WriteFormat, W, trash

LEMMA TrashFolders ==
  ASSUME IInv, FormatToTrash
  PROVE  /\ \A n \in Names : folder'[n] = None <=> folder[n] = None
         /\ trash_b' = None <=> trash_b = None
<1>1. TypesInv /\ op.pc = "to_trash"
  BY DEF FormatToTrash, IInv
<1> DEFINE W(c) == {[fmt |-> op.fmt, old |-> x.content, new |-> c] : x \in {y \in trash_f.files : y.fmt = op.fmt}}
<1>2. ASSUME NEW c \in op.files \cup {Damaged}, NEW l \in Linked(W(c)), folder' = l.folder, trash_b' = l.b
      PROVE  /\ \A n \in Names : folder'[n] = None <=> folder[n] = None
             /\ trash_b' = None <=> trash_b = None
  <2>1. W(c) \in SUBSET Write
    BY <1>1, TrashWrites
  <2> HIDE DEF W
  <2> QED BY <1>1, <1>2, <2>1, LinkedFolders, LinkedBook
<1> HIDE DEF W
<1>3. CASE \E c \in op.files \cup {Damaged} : \E l \in Linked(W(c)) : folder' = l.folder /\ trash_b' = l.b
  BY <1>2, <1>3
<1> QED BY <1>3 DEF FormatToTrash, W, trash

\* A format that is not in the trash is not passed over as a link to the file there.
LEMMA NotPassedOver ==
  ASSUME IInv, Apart, op.pc = "to_trash", NEW c \in op.files
  PROVE  [fmt |-> op.fmt, content |-> c] \notin trash_f.files
<1> SUFFICES ASSUME [fmt |-> op.fmt, content |-> c] \in trash_f.files PROVE FALSE
  OBVIOUS
<1>1. /\ op.fmt \in Formats /\ trash_f # None /\ c \in Contents
      /\ Has(Files(path), op.fmt, c) /\ path \in Names
  BY DEF IInv, CallInv, TypesInv
<1>2. InLibrary(op.fmt, c) /\ InTrash(op.fmt, c)
  BY <1>1 DEF InLibrary, InTrash, Has
<1> QED BY <1>1, <1>2 DEF Apart

LEMMA TidyMove ==
  ASSUME IInv, StageInv, Tidy, Counted, interrupts' = interrupts,
         RenameFormats \/ ClearTarget \/ CopyFiles \/ UnlinkFiles \/ UpdatePathsInDB
  PROVE  Tidy'
<1>1. TypesInv /\ path \in Names /\ title \in Names /\ UNCHANGED <<in_db, title>>
  BY DEF IInv, TypesInv, RenameFormats, ClearTarget, CopyFiles, UnlinkFiles, UpdatePathsInDB
<1>2. trash_b' = None
  <2>1. op.pc \in MovePCs
    BY DEF RenameFormats, ClearTarget, CopyFiles, UnlinkFiles, UpdatePathsInDB, MovePCs
  <2>2. trash_b = None
    BY <2>1 DEF StageInv, Tidy, MovePCs
  <2>3. CASE CopyFiles
    BY <2>2, <2>3, CopiedFolders
  <2>4. CASE RenameFormats \/ ClearTarget \/ UnlinkFiles \/ UpdatePathsInDB
    BY <2>2, <2>4 DEF RenameFormats, ClearTarget, UnlinkFiles, UpdatePathsInDB, trash
  <2> QED BY <2>3, <2>4
<1>3. CASE RenameFormats
  <2>1. GoesOn("paths") /\ op.pc = "rename" /\ UNCHANGED <<path, fname>>
    BY <1>3, NoEnd DEF RenameFormats
  <2>2. \A n \in Names \ {path} : folder'[n] = folder[n]
    BY <1>1, <1>3 DEF RenameFormats, TypesInv
  <2>3. op'.pc = "paths" /\ torn' = torn
    BY <1>1, <2>1, GoingOn
  <2> QED BY <1>1, <1>2, <2>1, <2>2, <2>3 DEF Tidy, RemovePCs
<1>4. CASE ClearTarget
  <2>1. /\ GoesOn("copy") /\ op.pc = "clear" /\ UNCHANGED <<path, fname>>
        /\ folder' = [folder EXCEPT ![title] = None]
    BY <1>4, NoEnd DEF ClearTarget
  <2>2. \A n \in Names : folder'[n] = IF n = title THEN None ELSE folder[n]
    BY <1>1, <2>1 DEF TypesInv
  <2>3. op'.pc = "copy" /\ torn' = torn
    BY <1>1, <2>1, GoingOn
  <2> QED BY <1>1, <1>2, <2>1, <2>2, <2>3 DEF Tidy, RemovePCs
<1>5. CASE CopyFiles
  <2>1. /\ GoesOn(AfterCopy) /\ op.pc = "copy" /\ UNCHANGED <<path, fname>>
    BY <1>5, NoEnd DEF CopyFiles
  <2>2. \A n \in Names \ {title} : folder'[n] = None <=> folder[n] = None
    BY <1>5, CopiedFolders
  <2>3. op'.pc \in {"paths", "unlink"} /\ torn' = torn
    BY <1>1, <2>1, GoingOn DEF AfterCopy
  <2> QED BY <1>1, <1>2, <2>1, <2>2, <2>3 DEF Tidy, RemovePCs
<1>6. CASE UnlinkFiles
  <2>1. /\ GoesOn("paths") /\ op.pc = "unlink" /\ UNCHANGED <<path, fname>>
        /\ folder' = [folder EXCEPT ![path] = None]
    BY <1>6, NoEnd DEF UnlinkFiles
  <2>2. \A n \in Names \ {path} : folder'[n] = folder[n]
    BY <1>1, <2>1 DEF TypesInv
  <2>3. op'.pc = "paths" /\ torn' = torn
    BY <1>1, <2>1, GoingOn
  <2> QED BY <1>1, <1>2, <2>1, <2>2, <2>3 DEF Tidy, RemovePCs
<1>7. CASE UpdatePathsInDB
  <2>1. /\ path' = title /\ op' = Idle /\ op.pc = "paths" /\ torn' = torn /\ folder' = folder
        /\ fname' = [f \in Formats |-> IF f \in Rows THEN title ELSE None]
    BY <1>7, NoEnd DEF UpdatePathsInDB, Returns
  <2>2. in_db /\ (path = title \/ folder[path] = None)
    BY <2>1 DEF StageInv, MovePCs
  <2>3. \A n \in Names \ {title} : folder[n] = None
    BY <2>2 DEF Tidy
  <2> QED BY <1>1, <1>2, <2>1, <2>2, <2>3 DEF Tidy, RemovePCs, Idle
<1> QED BY <1>3, <1>4, <1>5, <1>6, <1>7

LEMMA TidyFormats ==
  ASSUME IInv, StageInv, Tidy, Apart, Counted, interrupts' = interrupts,
         WriteFormat \/ ReplaceFormat \/ UpdateRow \/ FormatToTrash \/ UnlinkFormat \/ DeleteRow
  PROVE  Tidy'
<1>1. TypesInv /\ path \in Names
  BY DEF IInv, TypesInv
<1>2. UNCHANGED <<in_db, title, path>> /\ op.pc \in FormatPCs
  BY DEF WriteFormat, ReplaceFormat, UpdateRow, FormatToTrash, UnlinkFormat, DeleteRow, FormatPCs
<1>3. in_db /\ trash_b = None
  BY <1>2 DEF StageInv, Tidy, FormatPCs
<1>4. trash_b' = None /\ \A n \in Names \ {path} : folder'[n] = None <=> folder[n] = None
  <2>1. CASE WriteFormat \/ FormatToTrash
    BY <1>3, <2>1, WriteFolders, TrashFolders
  <2>2. CASE ReplaceFormat \/ UpdateRow \/ UnlinkFormat \/ DeleteRow
    <3>1. trash_b' = trash_b /\ (folder' = folder \/ \E S : folder' = [folder EXCEPT ![path] = S])
      BY <2>2 DEF ReplaceFormat, UpdateRow, UnlinkFormat, DeleteRow, trash
    <3> QED BY <1>1, <1>3, <3>1 DEF TypesInv
  <2> QED BY <2>1, <2>2
<1>5. torn' = torn \/ torn' = {}
  <2>1. CASE UpdateRow
    <3>1. torn' = torn \/ torn' = torn \ {op.fmt}
      BY <2>1, NoEnd DEF UpdateRow
    <3> QED BY <3>1 DEF Tidy
  <2>2. CASE FormatToTrash
    <3>1. op.pc = "to_trash"
      BY <2>2 DEF FormatToTrash
    <3>2. ~\E c \in op.files : [fmt |-> op.fmt, content |-> c] \in {x \in trash_f.files : x.fmt = op.fmt}
      BY <3>1, NotPassedOver
    <3> QED BY <2>2, <3>2, NoEnd DEF FormatToTrash, GoesOn
  <2>3. CASE WriteFormat \/ ReplaceFormat \/ UnlinkFormat \/ DeleteRow
    BY <2>3, NoEnd DEF WriteFormat, ReplaceFormat, UnlinkFormat, DeleteRow, GoesOn
  <2> QED BY <2>1, <2>2, <2>3
<1>6. \A f \in Formats : fname'[f] \in {fname[f], None, title}
  BY <1>1, NoEnd DEF WriteFormat, ReplaceFormat, UpdateRow, FormatToTrash, UnlinkFormat, DeleteRow, TypesInv
<1>7. op'.pc \in {"idle"} \cup FormatPCs
  <2>1. op' = Idle \/ \E p \in FormatPCs : op' = [op EXCEPT !.pc = p]
    BY NoEnd DEF WriteFormat, ReplaceFormat, UpdateRow, FormatToTrash, UnlinkFormat, DeleteRow, Returns,
                 GoesOn, FormatPCs
  <2> QED BY <1>1, <2>1, WentOn DEF Idle
<1>8. op.pc \notin {"clear", "copy", "unlink", "paths"}
  BY <1>2 DEF FormatPCs
<1> QED BY <1>2, <1>3, <1>4, <1>5, <1>6, <1>7, <1>8, TidyStep

\* While a book is in the database, every format has its file, and that is all.
LEMMA FilesNeat ==
  ASSUME IInv, OrderInv, Tidy, op = Idle
  PROVE  Neat(Files(path), title)
<1>1. path = title /\ (\A f \in Formats : fname[f] \in {None, title}) /\ torn = {} /\ op.pc = "idle"
  BY DEF Tidy, Idle
<1>2. CASE ~in_db
  BY <1>1, <1>2 DEF Tidy, Files, FilesIn, Neat
<1>3. CASE in_db
  <2>1. ASSUME NEW x \in Files(path)
        PROVE  Holds(Files(path), x.fmt, fname[x.fmt]) /\ x.fmt \in Formats
    <3>1. x.fmt \in Formats
      BY FilesType DEF IInv, TypesInv, File
    <3> QED BY <1>1, <1>3, <3>1 DEF OrderInv, InOrder
  <2>2. ASSUME NEW x \in Files(path)
        PROVE  Of(Files(path), x.fmt) = {TheFile(x.fmt, title)} /\ x \in Of(Files(path), x.fmt)
    <3>1. x \in Of(Files(path), x.fmt)
      BY DEF Of
    <3>2. fname[x.fmt] # None
      BY <2>1, <3>1 DEF Holds
    <3> QED BY <1>1, <2>1, <3>1, <3>2 DEF Holds
  <2>3. ASSUME NEW x \in Files(path) PROVE x = TheFile(x.fmt, title)
    BY <2>2
  <2> QED BY <2>3 DEF Neat, TheFile
<1> QED BY <1>2, <1>3

LEMMA TidyRemove ==
  ASSUME IInv, StageInv, Tidy, Counted, interrupts' = interrupts,
         RemoveTree \/ EmptyTrash \/ CopyToTrash \/ UnlinkBook
  PROVE  Tidy'
<1>1. /\ UNCHANGED <<in_db, title, path, fname>> /\ TypesInv /\ path \in Names
      /\ op.pc \in RemovePCs /\ ~in_db /\ path = title
  <2>1. UNCHANGED <<in_db, title, path, fname>> /\ op.pc \in RemovePCs
    BY DEF RemoveTree, EmptyTrash, CopyToTrash, UnlinkBook, RemovePCs
  <2> QED BY <2>1 DEF IInv, TypesInv, StageInv, Tidy, RemovePCs
<1>2. op.pc \notin {"clear", "copy", "unlink", "paths"}
  BY <1>1 DEF RemovePCs
<1>3. CASE RemoveTree \/ UnlinkBook
  <2>1. folder' = [folder EXCEPT ![path] = None] /\ op' = Idle /\ torn' = torn /\ trash_b' = trash_b
    BY <1>3, NoEnd DEF RemoveTree, UnlinkBook, Forgotten, trash
  <2>2. \A n \in Names : folder'[n] = IF n = path THEN None ELSE folder[n]
    BY <1>1, <2>1 DEF TypesInv
  <2> QED BY <1>1, <1>2, <2>1, <2>2, TidyStep DEF Idle
<1>4. CASE EmptyTrash
  <2>1. trash_b' = None /\ GoesOn("copy_to_trash") /\ folder' = folder
    BY <1>4, NoEnd DEF EmptyTrash
  <2>2. op'.pc = "copy_to_trash" /\ torn' = torn
    BY <1>1, <2>1, GoingOn
  <2>3. Neat(Files(path), title)'
    BY <1>1, <2>1 DEF Tidy, Neat, Files, FilesIn
  <2> QED BY <1>1, <1>2, <2>1, <2>2, <2>3 DEF Tidy
<1>5. CASE CopyToTrash
  <2>1. /\ trash_b' = [files |-> Files(path), title |-> title, opf |-> TRUE, at |-> now]
        /\ GoesOn("unlink_book") /\ folder' = folder
    BY <1>5, NoEnd DEF CopyToTrash
  <2>2. op'.pc = "unlink_book" /\ torn' = torn
    BY <1>1, <2>1, GoingOn
  <2>3. Neat(Files(path), title)'
    BY <1>1, <2>1 DEF Tidy, Neat, Files, FilesIn
  <2>4. Neat(trash_b.files, trash_b.title)'
    BY <1>1, <2>1 DEF Tidy, Neat
  <2> QED BY <1>1, <1>2, <2>1, <2>2, <2>3, <2>4 DEF Tidy
<1> QED BY <1>3, <1>4, <1>5

LEMMA TidyRestore ==
  ASSUME IInv, StageInv, Tidy, Counted, interrupts' = interrupts, CopyFromTrash \/ UnlinkTrash \/ UpdateRows
  PROVE  Tidy'
<1>1. /\ UNCHANGED <<in_db, title, path>> /\ TypesInv /\ path \in Names
      /\ op.pc \in RestorePCs /\ in_db
  <2>1. UNCHANGED <<in_db, title, path>> /\ op.pc \in RestorePCs
    BY DEF CopyFromTrash, UnlinkTrash, UpdateRows, RestorePCs
  <2> QED BY <2>1 DEF IInv, TypesInv, StageInv
<1>2. op.pc \notin {"clear", "copy", "unlink", "paths"}
  BY <1>1 DEF RestorePCs
<1>3. CASE CopyFromTrash
  <2>1. /\ op' = [op EXCEPT !.pc = "unlink_trash"]
        /\ torn' = torn \cup {x.fmt : x \in Overwrite(Files(path), trash_b.files) \ trash_b.files}
                        \cup Doubled(trash_b.files)
        /\ op.pc = "from_trash" /\ fname' = fname
        /\ \E l \in Linked(Overwrites(Files(path), trash_b.files)) :
             \E S : folder' = [l.folder EXCEPT ![path] = S] /\ trash_b' = l.b
    BY <1>3, NoEnd DEF CopyFromTrash
  <2>2. /\ Files(path) = {} /\ torn = {} /\ op.files = trash_b.files /\ trash_b # None
        /\ Neat(trash_b.files, title) /\ trash_b.title = title
    BY <2>1 DEF Tidy, Files, FilesIn, StageInv, IInv, CallInv
  <2> DEFINE W == Overwrites(Files(path), trash_b.files)
  <2>3. W = {} /\ W \in SUBSET Write
    BY <2>2 DEF Overwrites
  <2>4. PICK l \in Linked(W) : \E S : folder' = [l.folder EXCEPT ![path] = S] /\ trash_b' = l.b
    BY <2>1
  <2> HIDE DEF W
  <2>5. \A n \in Names \ {path} : folder'[n] = None <=> folder[n] = None
    BY <1>1, <2>3, <2>4, LinkedFolders
  <2>6. trash_b' # None /\ trash_b'.title = title /\ trash_b'.files = trash_b.files
    <3>1. l.b # None /\ l.b.title = title /\ FilesAfter(l.b.files, trash_b.files, W)
      BY <1>1, <2>2, <2>3, LinkedBook
    <3>2. l.b.files = trash_b.files
      BY <2>3, <3>1 DEF FilesAfter, TurnedInto, Effective
    <3> QED BY <2>4, <3>1, <3>2
  <2>7. torn' = {}
    <3>1. Overwrite({}, trash_b.files) = trash_b.files
      BY DEF Overwrite
    <3>2. Doubled(trash_b.files) = {}
      BY <2>2 DEF Doubled, Neat
    <3> QED BY <2>1, <2>2, <3>1, <3>2
  <2>8. op'.pc = "unlink_trash" /\ op'.files = op.files
    BY <1>1, <2>1, WentOn
  <2>9. Neat(trash_b.files, trash_b.title)' /\ Neat(op.files, title)'
    BY <1>1, <2>2, <2>6, <2>8 DEF Neat
  <2> QED BY <1>1, <1>2, <2>1, <2>5, <2>7, <2>8, <2>9 DEF Tidy, RemovePCs
<1>4. CASE UnlinkTrash
  <2>1. trash_b' = None /\ GoesOn("rows") /\ UNCHANGED <<folder, fname>> /\ op.pc = "unlink_trash"
    BY <1>4, NoEnd DEF UnlinkTrash
  <2>2. op'.pc = "rows" /\ op'.files = op.files /\ torn' = torn
    BY <1>1, <2>1, GoingOn
  <2>3. Neat(op.files, title)'
    BY <1>1, <2>1, <2>2 DEF Tidy, Neat
  <2> QED BY <1>1, <1>2, <2>1, <2>2, <2>3 DEF Tidy, RemovePCs
<1>5. CASE UpdateRows
  <2>1. PICK P \in SUBSET op.files :
          /\ fname' = [f \in Formats |-> IF \E x \in P : x.fmt = f
                                         THEN (CHOOSE x \in P : x.fmt = f).name ELSE None]
          /\ op' = Idle /\ torn' = torn
    BY <1>5, NoEnd DEF UpdateRows, Returns
  <2>2. UNCHANGED <<folder, trash_b>> /\ op.pc = "rows" /\ trash_b = None
    BY <1>1, <1>5 DEF UpdateRows, trash, Tidy
  <2>3. ASSUME NEW f \in Formats PROVE fname'[f] \in {None, title}
    <3>1. CASE \E x \in P : x.fmt = f
      <4> DEFINE x == CHOOSE x \in P : x.fmt = f
      <4>1. x \in P
        BY <3>1
      <4>2. fname'[f] = x.name
        BY <2>1, <3>1
      <4> HIDE DEF x
      <4>3. x.name = title
        BY <2>2, <4>1 DEF Tidy, Neat
      <4> QED BY <4>2, <4>3
    <3>2. CASE ~\E x \in P : x.fmt = f
      BY <2>1, <3>2
    <3> QED BY <3>1, <3>2
  <2> QED BY <1>1, <1>2, <2>1, <2>2, <2>3, TidyStep DEF Idle
<1> QED BY <1>3, <1>4, <1>5

LEMMA TidyFormatCalls ==
  ASSUME IInv, Tidy, NEW f \in Formats, AddFormat(f) \/ RemoveFormat(f) \/ RestoreFormat(f)
  PROVE  Tidy'
<1>1. /\ UNCHANGED <<in_db, title, path, fname, torn>> /\ op = Idle /\ in_db
      /\ TypesInv /\ path \in Names
  BY DEF AddFormat, RemoveFormat, RestoreFormat, tables, history, Live, IInv, TypesInv
<1>2. \A n \in Names \ {path} : folder'[n] = folder[n]
  <2>1. folder' = folder \/ \E S : folder' = [folder EXCEPT ![path] = S]
    BY DEF AddFormat, MoveOldFile, RemoveFormat, RestoreFormat
  <2> QED BY <1>1, <2>1 DEF TypesInv
<1>3. trash_b = None /\ trash_b' = None
  <2>1. trash_b = None
    BY <1>1 DEF Tidy, Idle
  <2> QED BY <2>1 DEF AddFormat, RemoveFormat, RestoreFormat, trash, TrashDirs, Kept
<1>4. op'.pc \in FormatPCs
  BY WentTo DEF AddFormat, RemoveFormat, RestoreFormat, FormatPCs
<1> QED BY <1>1, <1>2, <1>3, <1>4, TidyStep DEF Idle

LEMMA TidyRemoveBook ==
  ASSUME IInv, StageInv, OrderInv, Tidy, NEW permanent \in BOOLEAN, RemoveBook(permanent)
  PROVE  Tidy'
<1>1. /\ UNCHANGED <<title, path, fname, torn>> /\ in_db' = FALSE /\ op = Idle
      /\ TypesInv /\ path \in Names
  BY DEF RemoveBook, IInv, TypesInv
<1>2. op.pc = "idle" /\ Neat(Files(path), title)
  BY <1>1, FilesNeat DEF Idle
<1>3. folder' = folder \/ (folder[path] = None /\ folder' = [folder EXCEPT ![path] = {}])
  BY DEF RemoveBook
<1>4. \A n \in Names \ {path} : folder'[n] = folder[n]
  BY <1>1, <1>3 DEF TypesInv
<1>5. Neat(Files(path), title)'
  <2>1. CASE folder' = folder
    BY <1>1, <1>2, <2>1 DEF Neat, Files, FilesIn
  <2>2. CASE folder[path] = None /\ folder' = [folder EXCEPT ![path] = {}]
    <3>1. folder'[path] = {}
      BY <1>1, <2>2 DEF TypesInv
    <3> QED BY <1>1, <3>1 DEF Neat, Files, FilesIn
  <2> QED BY <1>3, <2>1, <2>2
<1>6. trash_b' \in {trash_b, None}
  BY DEF RemoveBook, TrashDirs, Kept
<1>7. CASE folder'[path] = None
  <2>1. op' = Idle
    BY <1>7 DEF RemoveBook
  <2> QED BY <1>1, <1>2, <1>4, <1>6, <1>7, <2>1, TidyStep DEF Idle
<1>8. CASE folder'[path] # None
  <2>1. op'.pc \in {"rmtree", "empty_trash"}
    BY <1>8, WentTo DEF RemoveBook
  <2>2. trash_b' # None => Neat(trash_b.files, trash_b.title)'
    BY <1>6 DEF Tidy, Neat
  <2> QED BY <1>1, <1>2, <1>4, <1>5, <2>1, <2>2 DEF Tidy
<1> QED BY <1>7, <1>8

LEMMA TidyRestoreBook == ASSUME IInv, StageInv, Tidy, RestoreBook PROVE Tidy'
<1>1. /\ UNCHANGED <<folder, trash_b, torn>> /\ op = Idle /\ ~in_db /\ trash_b # None
      /\ in_db' = TRUE /\ title' = trash_b.title /\ path' = title' /\ fname' = NoFormats
  BY DEF RestoreBook, trash, history, StageInv
<1>2. op'.pc = "from_trash" /\ op.pc = "idle" /\ title' \in Names
  BY <1>1, WentTo DEF RestoreBook, Idle, IInv, TypesInv, BookEntry
<1>3. \A n \in Names : folder[n] = None
  BY <1>1, <1>2 DEF Tidy
<1>4. Neat(trash_b.files, trash_b.title)'
  BY <1>1 DEF Tidy, Neat
<1> QED BY <1>1, <1>2, <1>3, <1>4 DEF Tidy, NoFormats, RemovePCs

LEMMA TidyBetween ==
  ASSUME IInv, Tidy, \/ ExpireOldTrash \/ Restart \/ Tick
                     \/ \E b, f \in BOOLEAN : DeleteTrash(b, f)
  PROVE  Tidy'
<1>1. UNCHANGED <<in_db, title, path, fname, folder, torn, op>> /\ op = Idle
  BY DEF ExpireOldTrash, DeleteTrash, Restart, Tick, tables, history
<1>2. trash_b' \in {trash_b, None}
  BY DEF ExpireOldTrash, DeleteTrash, Restart, Tick, trash, Kept
<1>3. ~in_db' => folder'[path] = None
  BY <1>1 DEF Tidy, Idle
<1>4. in_db' => trash_b' = None
  BY <1>1, <1>2 DEF Tidy, Idle
<1> QED BY <1>1, <1>2, <1>3, <1>4, TidyStep DEF Idle

\* While no call ends early, only a format that is being removed is in both the library
\* and the trash.
LEMMA ApartStays == ASSUME Apart, Stays PROVE Apart'
BY DEF Apart, Stays

LEMMA ApartWriteFormat ==
  ASSUME IInv, AloneInv, Apart, Counted, interrupts' = interrupts, WriteFormat
  PROVE  Apart'
<1>1. UNCHANGED <<title, path>> /\ op.pc = "write" /\ contents' = contents + 1
  BY DEF WriteFormat
<1>2. contents \in Int /\ contents' \in Contents /\ \A d \in Contents : d \in Int
  BY <1>1, BoundsAssumption DEF IInv, CallInv, TypesInv, Contents
<1> DEFINE new(c) == [fmt |-> op.fmt, name |-> title, content |-> c]
<1>3. PICK c \in {contents', Damaged} : \E l \in Linked(Overwrites(Files(path), {new(c)})) :
        /\ folder' = [l.folder EXCEPT ![path] = Overwrite(@, {new(c)})]
        /\ trash_b' = l.b /\ trash_f' = l.f
        /\ c # Damaged
  BY NoEnd DEF WriteFormat
<1>4. c = contents'
  BY <1>3
<1>5. PICK l \in Linked(Overwrites(Files(path), {new(c)})) :
        /\ folder' = [l.folder EXCEPT ![path] = Overwrite(@, {new(c)})]
        /\ trash_b' = l.b /\ trash_f' = l.f
  BY <1>3
<1>6. /\ \A f \in Formats, d \in Contents : InLibrary(f, d)' => InLibrary(f, d) \/ d = c
      /\ \A f \in Formats, d \in Contents : InTrash(f, d)' => InTrash(f, d)
  BY <1>1, <1>2, <1>4, <1>5, FormatWritten
<1>7. ASSUME NEW f \in Formats, NEW d \in Contents, InLibrary(f, d)', InTrash(f, d)' PROVE FALSE
  <2>1. InTrash(f, d) /\ d <= contents
    BY <1>6, <1>7 DEF AloneInv, Bounded
  <2>2. d # c
    BY <1>1, <1>2, <1>4, <2>1
  <2> QED BY <1>1, <1>6, <1>7, <2>1, <2>2 DEF Apart
<1> QED BY <1>7 DEF Apart

LEMMA ApartReplaceFormat ==
  ASSUME IInv, Apart, Counted, interrupts' = interrupts, ReplaceFormat
  PROVE  Apart'
<1>1. op.pc = "replace" /\ UNCHANGED <<path, trash_b>>
  BY DEF ReplaceFormat
<1>2. /\ op.fmt \in Formats /\ trash_f # None /\ path \in Names
      /\ \A y \in trash_f.files : y \in TrashedFile
  BY <1>1 DEF IInv, CallInv, TypesInv, FormatsEntry
<1> DEFINE new(x) == [fmt |-> op.fmt, name |-> title, content |-> x.content]
<1>3. PICK x \in trash_f.files :
        /\ x.fmt = op.fmt
        /\ \/ /\ folder' = [folder EXCEPT ![path] = Overwrite(@, {new(x)})]
              /\ trash_f' = [files |-> trash_f.files \ {x}, at |-> now]
           \/ new(x) \in Files(path)
  BY NoEnd DEF ReplaceFormat
<1>4. InTrash(op.fmt, x.content) /\ x.content \in Contents
  BY <1>2, <1>3 DEF InTrash, Has, TrashedFile
<1>5. ~InLibrary(op.fmt, x.content)
  BY <1>1, <1>2, <1>4 DEF Apart
<1>6. new(x) \notin Files(path)
  <2>1. new(x) \in Files(path) => Has(Files(path), op.fmt, x.content)
    BY DEF Has
  <2> QED BY <1>2, <1>5, <2>1 DEF InLibrary
<1>7. /\ folder' = [folder EXCEPT ![path] = Overwrite(@, {new(x)})]
      /\ trash_f' = [files |-> trash_f.files \ {x}, at |-> now]
  BY <1>3, <1>6
<1>8. ASSUME NEW n \in Names, NEW y \in Files(n)' PROVE y \in Files(n) \/ y = new(x)
  BY <1>1, <1>7, <1>8, FileReplaced
<1>9. ASSUME NEW f \in Formats, NEW d \in Contents, InLibrary(f, d)'
      PROVE  InLibrary(f, d) \/ (f = op.fmt /\ d = x.content)
  <2> SUFFICES ASSUME NEW n \in Names, NEW y \in Files(n)', y \notin Files(n), y.fmt = f, y.content = d
               PROVE  f = op.fmt /\ d = x.content
    BY <1>1, <1>9 DEF InLibrary, Has
  <2>1. y = new(x)
    BY <1>8
  <2> QED BY <2>1
<1>10. ASSUME NEW f \in Formats, NEW d \in Contents, InTrash(f, d)'
       PROVE  InTrash(f, d) /\ ~(f = op.fmt /\ d = x.content)
  <2>1. PICK y \in trash_f.files \ {x} : y.fmt = f /\ y.content = d
    BY <1>7, <1>10 DEF InTrash, Has
  <2>2. y \in TrashedFile /\ x \in TrashedFile /\ y # x
    BY <1>2
  <2>3. y.fmt # x.fmt \/ y.content # x.content
    BY <2>2 DEF TrashedFile
  <2> QED BY <1>2, <1>3, <2>1, <2>3 DEF InTrash, Has
<1>11. ASSUME NEW f \in Formats, NEW d \in Contents, InLibrary(f, d)', InTrash(f, d)' PROVE FALSE
  BY <1>1, <1>9, <1>10, <1>11 DEF Apart
<1> QED BY <1>11 DEF Apart

LEMMA ApartFormatToTrash ==
  ASSUME IInv, Apart, Counted, interrupts' = interrupts, FormatToTrash
  PROVE  Apart'
<1>1. op.pc = "to_trash" /\ TypesInv
  BY DEF FormatToTrash, IInv
<1>2. trash_f # None /\ op.fmt \in Formats
  BY <1>1 DEF IInv, CallInv
<1> DEFINE there == {x \in trash_f.files : x.fmt = op.fmt}
           W(c) == {[fmt |-> op.fmt, old |-> x.content, new |-> c] : x \in there}
<1>3. ~\E c \in op.files : [fmt |-> op.fmt, content |-> c] \in there
  BY <1>1, NotPassedOver
<1>4. PICK c \in op.files \cup {Damaged} :
        \E l \in Linked(W(c)) :
          /\ folder' = l.folder /\ trash_b' = l.b
          /\ trash_f' = [files |-> (trash_f.files \ there) \cup {[fmt |-> op.fmt, content |-> c]},
                         at |-> TrashTime(op.fmt)]
          /\ op' = [op EXCEPT !.pc = "unlink_format"]
  BY <1>3, NoEnd DEF FormatToTrash, GoesOn
<1>5. W(c) \in SUBSET Write
  BY <1>1, TrashWrites
<1>6. \A w \in W(c) : InTrash(w.fmt, w.old)
  BY <1>2 DEF InTrash, Has
<1>7. PICK l \in Linked(W(c)) : folder' = l.folder /\ trash_b' = l.b
  BY <1>4
<1> HIDE DEF W
<1>8. \A w \in W(c) : ~InLibrary(w.fmt, w.old)
  BY <1>1, <1>5, <1>6 DEF Apart, Write
<1>9. /\ \A n \in Names : Files(n)' \subseteq Files(n)
      /\ trash_b' # None => trash_b # None /\ trash_b'.files \subseteq trash_b.files
  <2>1. \A n \in Names : Files(n)' = FilesIn(l.folder, n)
    BY <1>7 DEF Files, FilesIn
  <2> QED BY <1>1, <1>5, <1>7, <1>8, <2>1, UntouchedLibrary
<1>10. \A f \in Formats, d \in Contents : InLibrary(f, d)' => InLibrary(f, d)
  BY <1>9 DEF InLibrary, Has
<1>11. ASSUME NEW f \in Formats, NEW d \in Contents, InTrash(f, d)' PROVE InTrash(f, d) \/ f = op.fmt
  <2>1. PICK y \in trash_f'.files : y.fmt = f /\ y.content = d
    BY <1>11 DEF InTrash, Has
  <2>2. y \in trash_f.files \/ y = [fmt |-> op.fmt, content |-> c]
    BY <1>4, <2>1
  <2> QED BY <1>2, <2>1, <2>2 DEF InTrash, Has
<1>12. op'.pc = "unlink_format" /\ op'.fmt = op.fmt
  BY <1>1, <1>4, WentOn
<1>13. ASSUME NEW f \in Formats, NEW d \in Contents, InLibrary(f, d)', InTrash(f, d)'
       PROVE  op'.pc = "unlink_format" /\ op'.fmt = f
  BY <1>1, <1>10, <1>11, <1>12, <1>13 DEF Apart
<1> QED BY <1>13 DEF Apart

\* The format has no file left: its folder is the only one.
LEMMA ApartUnlinkFormat ==
  ASSUME IInv, StageInv, OrderInv, Tidy, Apart, Counted, interrupts' = interrupts, UnlinkFormat
  PROVE  Apart'
<1>1. /\ op.pc = "unlink_format" /\ UNCHANGED <<path, fname, trash_b, trash_f>>
      /\ TypesInv /\ path \in Names
  BY DEF UnlinkFormat, IInv, TypesInv, trash
<1>2. op.fmt \in Formats /\ folder[path] \in SUBSET File /\ folder[path] # None
  BY <1>1, FolderAssumption DEF IInv, CallInv
<1>3. \A x \in Of(Files(path), op.fmt) : x.name = fname[op.fmt]
  BY <1>1, <1>2 DEF OrderInv, InOrder, Tidy
<1>4. trash_b = None /\ \A n \in Names \ {path} : folder[n] = None
  BY <1>1 DEF Tidy, StageInv, FormatPCs
<1> DEFINE S == {x \in Files(path) : x.fmt # op.fmt \/ x.name # fname[op.fmt]}
<1>5. folder' = [folder EXCEPT ![path] = S] /\ S \in SUBSET File
  BY <1>2, NoEnd DEF UnlinkFormat, Files, FilesIn
<1>6. \A x \in S : x \in Files(path) /\ x.fmt # op.fmt
  BY <1>3 DEF Of
<1> HIDE DEF S
<1>7. \A n \in Names : Files(n)' = IF n = path THEN S ELSE {}
  BY <1>1, <1>4, <1>5, FolderAssumption DEF TypesInv, Files, FilesIn
<1>8. ASSUME NEW f \in Formats, NEW d \in Contents, InLibrary(f, d)', InTrash(f, d)' PROVE FALSE
  <2>1. f # op.fmt /\ InLibrary(f, d)
    BY <1>1, <1>4, <1>6, <1>7, <1>8 DEF InLibrary, Has
  <2>2. InTrash(f, d)
    BY <1>1, <1>8 DEF InTrash
  <2> QED BY <2>1, <2>2 DEF Apart
<1> QED BY <1>8 DEF Apart

LEMMA ApartNext ==
  ASSUME IInv, AloneInv, StageInv, OrderInv, Tidy, Apart, Counted, interrupts' = interrupts, Next
  PROVE  Apart'
<1>1. CASE Calls \/ Restart \/ Tick
  BY <1>1, AloneQuiet, AloneFormatCalls, AloneRemove, ApartStays DEF Calls
<1>2. CASE WriteFormat \/ ReplaceFormat \/ FormatToTrash \/ UnlinkFormat
  BY <1>2, ApartWriteFormat, ApartReplaceFormat, ApartFormatToTrash, ApartUnlinkFormat
<1>3. CASE CopyFiles \/ CopyFromTrash
  BY <1>3, AloneCopyFiles, AloneCopyFromTrash, ApartStays
<1>4. CASE \/ RenameFormats \/ ClearTarget \/ UnlinkFiles \/ UpdatePathsInDB \/ UpdateRow \/ DeleteRow
           \/ RemoveTree \/ EmptyTrash \/ CopyToTrash \/ UnlinkBook \/ UnlinkTrash \/ UpdateRows
  BY <1>4, AloneMove, AloneRows, AloneRemove, AloneUnlinkBook, AloneUnlinkTrash, ApartStays
<1> QED BY <1>1, <1>2, <1>3, <1>4 DEF Next, Steps

LEMMA TidyNext ==
  ASSUME IInv, AloneInv, StageInv, OrderInv, Counted, TidyInv, [Next]_vars
  PROVE  TidyInv'
<1> SUFFICES ASSUME interrupts' = 0 PROVE Tidy' /\ Apart'
  BY DEF TidyInv
<1>1. interrupts' = interrupts
  <2>1. interrupts' = interrupts \/ interrupts' = interrupts + 1
    BY InterruptsGoUp, Zenon
  <2> QED BY <2>1 DEF Counted
<1>2. Tidy /\ Apart
  BY <1>1 DEF TidyInv
<1>3. ASSUME Steps PROVE Tidy'
  BY <1>1, <1>2, <1>3, TidyMove, TidyFormats, TidyRemove, TidyRestore DEF Steps
<1>4. ASSUME Calls PROVE Tidy'
  BY <1>2, <1>4, TidySetTitle, TidyFormatCalls, TidyRemoveBook, TidyRestoreBook, TidyBetween DEF Calls
<1>5. ASSUME Restart \/ Tick PROVE Tidy'
  BY <1>2, <1>5, TidyBetween
<1>6. CASE Next
  BY <1>1, <1>2, <1>3, <1>4, <1>5, <1>6, ApartNext DEF Next
<1>7. CASE UNCHANGED vars
  <2>1. UNCHANGED <<in_db, title, path, fname, folder, trash_b, trash_f, op, torn>>
    BY <1>7 DEF vars
  <2>2. Tidy'
    BY <1>2, <2>1 DEF Tidy, Neat, Files, FilesIn
  <2>3. Apart'
    BY <1>2, <2>1 DEF Apart, InLibrary, InTrash, Has, Files, FilesIn
  <2> QED BY <2>2, <2>3
<1> QED BY <1>6, <1>7

LEMMA AllTidy == Spec => []TidyInv
<1>1. Init => TidyInv
  <2> SUFFICES ASSUME Init PROVE Tidy /\ Apart
    BY DEF TidyInv
  <2>1. \A n \in Names \ {path} : folder[n] = None
    BY DEF Init
  <2>2. Apart
    BY DEF Init, Apart, InTrash
  <2> QED BY <2>1, <2>2 DEF Init, Tidy, Idle, NoFormats, RemovePCs
<1>2. IInv /\ AloneInv /\ StageInv /\ OrderInv /\ Counted /\ TidyInv /\ [Next]_vars => TidyInv'
  BY TidyNext
<1> QED BY <1>1, <1>2, Invariance, AllInOrder, InterruptsCounted, PTL DEF Spec

LEMMA FilesInPlace ==
  ASSUME IInv, OrderInv, TidyInv, Live, interrupts = 0
  PROVE  InPlace
<1>1. /\ torn = {} /\ path = title /\ op.pc = "idle" /\ in_db
      /\ \A n \in Names \ {title} : folder[n] = None
      /\ \A f \in Formats : fname[f] \in {None, title}
  BY DEF TidyInv, Tidy, Live, Idle
<1>2. title \in Names /\ title # None
  BY NamesAssumption DEF IInv, TypesInv
<1>3. ASSUME NEW f \in Formats PROVE Holds(Files(title), f, fname[f])
  BY <1>1 DEF OrderInv, InOrder
<1>4. \A f \in Formats : fname[f] = IF wanted[f] = None THEN None ELSE title
  BY <1>1, <1>2, <1>3 DEF Holds
<1>5. ASSUME NEW x \in Files(title)
      PROVE  x.fmt \in Formats /\ wanted[x.fmt] # None /\ x = TheFile(x.fmt, title)
  <2>1. x.fmt \in Formats /\ x \in Of(Files(title), x.fmt)
    BY <1>2, FilesType DEF IInv, File, Of
  <2>2. fname[x.fmt] # None
    BY <1>3, <2>1 DEF Holds
  <2> QED BY <1>1, <1>3, <2>1, <2>2 DEF Holds
<1>6. ASSUME NEW f \in Formats, wanted[f] # None PROVE TheFile(f, title) \in Files(title)
  <2>1. Of(Files(title), f) = {TheFile(f, title)}
    BY <1>2, <1>3, <1>4, <1>6 DEF Holds
  <2> QED BY <2>1 DEF Of
<1>7. Files(title) = {TheFile(f, title) : f \in {g \in Formats : wanted[g] # None}}
  BY <1>5, <1>6
<1> QED BY <1>1, <1>4, <1>7 DEF InPlace, TheFile

\* Between two calls, a format that the database lists is found where format_abspath
\* looks, with what the user added or took back last: after any number of changes of
\* the title, removals and restorations, and however many calls on other formats
\* ended early.  While none did, the folder that the title names is the only one,
\* and has those files, under that name, and no others.
THEOREM FormatsAreFound == Spec => []FormatsFound
<1>1. IInv /\ StageInv /\ OrderInv /\ TidyInv => FormatsFound
  <2> SUFFICES ASSUME IInv, StageInv, OrderInv, TidyInv, Live PROVE FormatsFound
    BY DEF FormatsFound
  <2>1. interrupts = 0 => InPlace
    BY FilesInPlace
  <2> QED BY <2>1, FilesFound DEF FormatsFound
<1> QED BY <1>1, Invariance, AllInOrder, AllTidy, PTL
-----------------------------------------------------------------------------
(* No content is lost. *)

\* A file is under its old name or under the new one.
LEMMA RenameKeeps ==
  ASSUME IInv, StageInv, OrderInv, RenameFormats, NEW f \in Formats \ torn, wanted[f] # None
  PROVE  Somewhere(f)'
<1>1. UNCHANGED <<path, title, fname, wanted>> /\ op.pc = "rename"
  BY DEF RenameFormats
<1>2. in_db /\ path \in Names
  BY <1>1 DEF StageInv, MovePCs, IInv, TypesInv
<1>3. Holds(Files(path), f, fname[f])
  BY <1>1, <1>2 DEF OrderInv, InOrder
<1> DEFINE x == TheFile(f, fname[f])
<1>4. Of(Files(path), f) = {x} /\ x.fmt = f /\ x.content = wanted[f]
  BY <1>3 DEF Holds, TheFile
<1>5. PICK S \in SUBSET Files(path) :
        folder' = IF S = {} THEN folder ELSE [folder EXCEPT ![path] = Overwrite(@ \ S, Named(S, title))]
  BY DEF RenameFormats, Picks
<1>6. Files(path)' = Overwrite(Files(path) \ S, Named(S, title))
  BY <1>1, <1>5, RenamedFiles
<1>7. CASE x \in S
  <2>1. [x EXCEPT !.name = title] \in Named(S, title)
    BY <1>7 DEF Named
  <2>2. [x EXCEPT !.name = title] = TheFile(f, title)
    BY DEF TheFile
  <2>3. TheFile(f, title) \in Files(path)'
    BY <1>6, <2>1, <2>2 DEF Overwrite
  <2> QED BY <1>1, <1>2, <2>3 DEF Somewhere, TheFile
<1>8. CASE x \notin S
  <2>1. x \in Files(path) \ S
    BY <1>4, <1>8 DEF Of
  <2>2. ASSUME NEW y \in Named(S, title) PROVE ~SameFile(x, y)
    <3>1. PICK z \in S : y = [z EXCEPT !.name = title]
      BY DEF Named
    <3>2. z \in File /\ y.fmt = z.fmt
      BY <3>1, FilesType, <1>2 DEF IInv, File
    <3>3. z.fmt # f
      BY <1>4, <1>8, <3>1 DEF Of
    <3> QED BY <1>4, <3>2, <3>3 DEF SameFile
  <2> HIDE DEF x
  <2>3. x \in Files(path)'
    BY <1>6, <2>1, <2>2 DEF Overwrite
  <2> QED BY <1>1, <1>2, <1>4, <2>3 DEF Somewhere
<1> QED BY <1>7, <1>8

\* What is still in the old folder is in the new one too.
LEMMA UnlinkKeeps ==
  ASSUME IInv, StageInv, OrderInv, UnlinkFiles, NEW f \in Formats \ torn, wanted[f] # None
  PROVE  Somewhere(f)'
<1>1. UNCHANGED <<path, title, fname, wanted>> /\ op.pc = "unlink"
  BY DEF UnlinkFiles
<1>2. path # title /\ title \in Names
  BY <1>1 DEF StageInv, IInv, TypesInv
<1>3. Holds(Files(title), f, title)
  BY <1>1 DEF OrderInv, InOrder
<1>4. folder'[title] = folder[title]
  BY <1>2 DEF UnlinkFiles, IInv, TypesInv
<1>5. Files(title)' = Files(title)
  BY <1>1, <1>4 DEF Files, FilesIn
<1> QED BY <1>1, <1>2, <1>3, <1>5, FileStays DEF Of

LEMMA StepKeeps ==
  ASSUME IInv, StageInv, OrderInv, Counted, Steps,
         NEW f \in torn' \ torn, wanted'[f] # None, f \in Formats
  PROVE  Somewhere(f)' \/ (op.pc = "write" /\ op.fmt = f /\ interrupts' # interrupts)
<1>1. wanted[f] # None => Somewhere(f)
  BY ContentsThere DEF InFiles
<1>2. op.pc \in RemovePCs \cup RestorePCs => wanted[f] = None
  BY DEF StageInv, NoFormats
<1>3. op.pc \in {"to_trash", "unlink_format", "delete_row"} /\ op.fmt = f => wanted[f] = None
  BY DEF OrderInv, InOrder
<1>4. CASE RenameFormats \/ UnlinkFiles
  BY <1>4, RenameKeeps, UnlinkKeeps DEF RenameFormats, UnlinkFiles
<1>5. CASE ClearTarget \/ CopyFiles
  BY <1>5 DEF ClearTarget, CopyFiles, GoesOn, EndsEarly
<1>6. CASE UpdatePathsInDB \/ UpdateRow
  <2>1. UNCHANGED <<folder, wanted>>
    BY <1>6 DEF UpdatePathsInDB, UpdateRow
  <2> QED BY <1>1, <2>1, SomewhereStays
<1>7. CASE WriteFormat
  <2>1. op.pc = "write" /\ (torn' = torn \/ EndsEarly({op.fmt}))
    BY <1>7 DEF WriteFormat, GoesOn
  <2>2. torn' = torn \cup {op.fmt} /\ interrupts' = interrupts + 1
    BY <2>1 DEF EndsEarly
  <2> QED BY <2>1, <2>2 DEF Counted
<1>8. CASE FormatToTrash \/ UnlinkFormat \/ DeleteRow
  <2>1. /\ wanted' = wanted /\ op.pc \in {"to_trash", "unlink_format", "delete_row"}
        /\ torn' = torn \/ torn' = torn \cup {op.fmt}
    BY <1>8 DEF FormatToTrash, UnlinkFormat, DeleteRow, GoesOn, EndsEarly
  <2> QED BY <1>3, <2>1
<1>9. CASE RemoveTree \/ EmptyTrash \/ CopyToTrash \/ UnlinkBook \/ CopyFromTrash \/ UnlinkTrash
  <2>1. wanted' = wanted /\ op.pc \in RemovePCs \cup RestorePCs
    BY <1>9 DEF RemoveTree, EmptyTrash, CopyToTrash, UnlinkBook, CopyFromTrash, UnlinkTrash, RemovePCs, RestorePCs
  <2> QED BY <1>2, <2>1
<1>10. CASE UpdateRows
  <2>1. op.pc = "rows" /\ (torn' = torn \/ wanted' = wanted)
    BY <1>10 DEF UpdateRows
  <2> QED BY <1>2, <2>1 DEF RestorePCs
<1>11. CASE ReplaceFormat
  <2>1. torn' = torn \/ UNCHANGED <<folder, wanted>>
    BY <1>11 DEF ReplaceFormat, GoesOn
  <2> QED BY <1>1, <2>1, SomewhereStays
<1> QED BY <1>4, <1>5, <1>6, <1>7, <1>8, <1>9, <1>10, <1>11 DEF Steps

LEMMA CallsKeepOrder == Calls \/ Restart \/ Tick => torn' = torn
BY DEF Calls, SetTitle, AddFormat, RemoveFormat, RestoreFormat, RemoveBook, RestoreBook,
       ExpireOldTrash, DeleteTrash, Restart, Tick, history

\* No step takes the only copy of a format away, also when an error or the end of
\* the program cuts it short: a change of the title copies before it removes, and a
\* file is renamed or replaced in one folder.  Only the file that is written over
\* when the program ends is lost.
THEOREM ContentIsKept == Spec => ContentKept
<1>1. IInv /\ StageInv /\ OrderInv => InFiles
  BY ContentsThere
<1>2. /\ IInv /\ StageInv /\ OrderInv /\ Counted
      /\ InFiles'
      /\ [Next]_vars
      => [\A f \in Formats \ (torn \cap torn') :
            wanted'[f] # None =>
              \/ Somewhere(f)'
              \/ op.pc = "write" /\ op.fmt = f /\ interrupts' # interrupts]_vars
  <2> SUFFICES ASSUME IInv, StageInv, OrderInv, Counted, InFiles', Next,
                      NEW f \in Formats \ (torn \cap torn'), wanted'[f] # None
               PROVE  Somewhere(f)' \/ (op.pc = "write" /\ op.fmt = f /\ interrupts' # interrupts)
    OBVIOUS
  <2>1. CASE f \notin torn'
    BY <2>1 DEF InFiles
  <2>2. CASE f \in torn' \ torn
    <3>1. CASE Steps
      BY <2>2, <3>1, StepKeeps
    <3>2. CASE Calls \/ Restart \/ Tick
      BY <2>2, <3>2, CallsKeepOrder
    <3> QED BY <3>1, <3>2 DEF Next
  <2> QED BY <2>1, <2>2
<1> QED BY <1>1, <1>2, Invariance, AllInOrder, InterruptsCounted, PTL DEF Spec, ContentKept
=============================================================================
