---------------------- MODULE MetadataBackup_proofs ----------------------
(***************************************************************************)
(* Proofs about MetadataBackup: the dirty table mirrors the cache, and a   *)
(* book that nothing marks for backup has its latest metadata in its OPF,  *)
(* for any set of books, any number of changes and restarts, and with      *)
(* every call of the backup thread allowed to fail, as long as             *)
(* dump_metadata() does not run beside the thread.                         *)
(***************************************************************************)
EXTENDS MetadataBackup, FiniteSetTheorems, TLAPS

\* The thread has a book in hand.
InHand == pc \in {"read", "convert", "write", "rewrite", "clear"}

\* Sequence numbers are handed out once.
Fresh == /\ \A b \in Books : dirtied_cache[b] < dirtied_sequence
         /\ sequence < dirtied_sequence

\* The book in hand has not been marked dirty again, exists, and has no change
\* that the code records elsewhere or not at all.
Untouched == /\ book \in live \ (annots \cup dropped)
             /\ dirtied_cache[book] = sequence

\* Only the thread clears the mark of the book it has in hand, and if the book
\* is untouched the thread holds, and then has written, its latest metadata.
Solo == up /\ InHand =>
          /\ book \in Dirtied
          /\ pc # "read" => sequence \in Nat
          /\ pc \in {"convert", "write", "rewrite"} => mi # NoMi
          /\ pc # "read" /\ mi # NoMi /\ Untouched => mi = meta[book]
          /\ pc = "clear" /\ mi # NoMi /\ Untouched => opf[book] = meta[book]

Base == /\ TypeOK
        /\ Fresh
        /\ TableMatchesCache
        /\ up /\ InHand => book \in Books

IInv == /\ Base
        /\ ~ConcurrentDumps => Solo /\ CleanIsBackedUp
-----------------------------------------------------------------------------
(* The operators of the model. *)

\* Numbering a set of books from a sequence number on stays below the next one.
LEMMA NumberingsBounded ==
  ASSUME NEW S \in SUBSET Books, NEW from \in Nat, NEW f \in Numberings(S, from)
  PROVE  /\ Cardinality(S) \in Nat
         /\ \A b \in S : f[b] \in Nat /\ from <= f[b] /\ f[b] < from + Cardinality(S)
<1>1. IsFiniteSet(S)
  BY BooksAssumption, FS_Subset
<1>2. Cardinality(S) \in Nat
  BY <1>1, FS_CardinalityType
<1>3. f \in [S -> from..(from + Cardinality(S) - 1)]
  BY DEF Numberings
<1>4. ASSUME NEW b \in S PROVE f[b] \in Nat /\ from <= f[b] /\ f[b] < from + Cardinality(S)
  <2>1. f[b] \in from..(from + Cardinality(S) - 1)
    BY <1>3
  <2> QED BY <2>1, <1>2
<1> QED BY <1>2, <1>4

\* mark_as_dirty gives every book of S a number no thread can hold, and leaves
\* the others alone.
LEMMA MarkedDirty ==
  ASSUME TypeOK, Fresh, NEW S \in SUBSET Books, MarkAsDirty(S)
  PROVE  /\ dirtied_sequence' \in Nat
         /\ dirtied_sequence <= dirtied_sequence'
         /\ dirtied_cache' \in [Books -> Nat \cup {NoSeq}]
         /\ \A b \in S : dirtied_sequence <= dirtied_cache'[b]
         /\ \A b \in Books : dirtied_cache'[b] < dirtied_sequence'
         /\ \A b \in Books \ S : dirtied_cache'[b] = dirtied_cache[b]
         /\ Dirtied' = Dirtied \cup S
         /\ table' = table \cup (S \ Dirtied)
         /\ unlearned' = unlearned \ S
<1> DEFINE already == S \cap Dirtied
           new == S \ Dirtied
           next == dirtied_sequence + Cardinality(already)
<1>1. PICK f \in Numberings(already, dirtied_sequence), g \in Numberings(new, next) :
        dirtied_cache' = [b \in Books |-> IF b \in already THEN f[b]
                                          ELSE IF b \in new THEN g[b]
                                          ELSE dirtied_cache[b]]
  BY DEF MarkAsDirty, Renumbered
<1>2. dirtied_sequence' = next + Cardinality(new) /\ table' = table \cup new
  BY DEF MarkAsDirty, Renumbered, DirtyRows
<1>3. dirtied_sequence \in Nat /\ already \in SUBSET Books /\ new \in SUBSET Books
  BY DEF TypeOK
<1>4. /\ Cardinality(already) \in Nat
      /\ \A b \in already : f[b] \in Nat /\ dirtied_sequence <= f[b] /\ f[b] < next
  BY <1>1, <1>3, NumberingsBounded
<1>5. next \in Nat
  BY <1>3, <1>4
<1>6. /\ Cardinality(new) \in Nat
      /\ \A b \in new : g[b] \in Nat /\ next <= g[b] /\ g[b] < next + Cardinality(new)
  BY <1>1, <1>3, <1>5, NumberingsBounded
<1>7. dirtied_sequence' \in Nat /\ dirtied_sequence <= next /\ next <= dirtied_sequence'
  BY <1>2, <1>3, <1>4, <1>5, <1>6
<1>8. ASSUME NEW b \in already
      PROVE dirtied_cache'[b] \in Nat /\ dirtied_sequence <= dirtied_cache'[b]
            /\ dirtied_cache'[b] < dirtied_sequence'
  <2>1. dirtied_cache'[b] = f[b]
    BY <1>1, <1>3
  <2>2. f[b] \in Nat /\ dirtied_sequence <= f[b] /\ f[b] < next
    BY <1>4
  <2> HIDE DEF already, new, next
  <2>3. f[b] < dirtied_sequence'
    BY <2>2, <1>5, <1>7
  <2> QED BY <2>1, <2>2, <2>3
<1>9. ASSUME NEW b \in new
      PROVE dirtied_cache'[b] \in Nat /\ dirtied_sequence <= dirtied_cache'[b]
            /\ dirtied_cache'[b] < dirtied_sequence'
  <2>1. dirtied_cache'[b] = g[b]
    BY <1>1, <1>3
  <2>2. g[b] \in Nat /\ next <= g[b] /\ g[b] < next + Cardinality(new)
    BY <1>6
  <2> HIDE DEF already, new, next
  <2>3. g[b] < dirtied_sequence'
    BY <2>2, <1>2
  <2>4. dirtied_sequence <= g[b]
    BY <2>2, <1>3, <1>5, <1>7
  <2> QED BY <2>1, <2>2, <2>3, <2>4
<1>10. ASSUME NEW b \in Books \ S
       PROVE dirtied_cache'[b] = dirtied_cache[b] /\ dirtied_cache'[b] < dirtied_sequence'
             /\ dirtied_cache'[b] \in Nat \cup {NoSeq}
  <2>1. dirtied_cache'[b] = dirtied_cache[b]
    BY <1>1
  <2>2. dirtied_cache[b] \in Nat \cup {NoSeq} /\ dirtied_cache[b] < dirtied_sequence
    BY DEF TypeOK, Fresh
  <2> QED BY <2>1, <2>2, <1>3, <1>5, <1>7 DEF NoSeq
<1>11. S = already \cup new
  OBVIOUS
<1> HIDE DEF already, new, next
<1>12. \A b \in Books : dirtied_cache'[b] \in Nat \cup {NoSeq}
  BY <1>8, <1>9, <1>10, <1>11
<1>13. dirtied_cache' \in [Books -> Nat \cup {NoSeq}]
  BY <1>1, <1>12
<1>14. Dirtied' = Dirtied \cup S
  <2>1. \A b \in S : dirtied_cache'[b] # NoSeq
    BY <1>8, <1>9, <1>11 DEF NoSeq
  <2> QED BY <2>1, <1>10 DEF Dirtied
<1>15. \A b \in S : dirtied_sequence <= dirtied_cache'[b] /\ dirtied_cache'[b] < dirtied_sequence'
  BY <1>8, <1>9, <1>11
<1>16. \A b \in Books : dirtied_cache'[b] < dirtied_sequence'
  BY <1>10, <1>15
<1>17. dirtied_sequence <= dirtied_sequence'
  BY <1>3, <1>5, <1>7
<1>18. table' = table \cup (S \ Dirtied) /\ unlearned' = unlearned \ S
  BY <1>2 DEF new, MarkAsDirty
<1> QED BY <1>7, <1>10, <1>13, <1>14, <1>15, <1>16, <1>17, <1>18

\* Forgetting books keeps the numbers of the others.
LEMMA Forgotten ==
  ASSUME TypeOK, Fresh, NEW S \in SUBSET Books, ForgetDirty(S)
  PROVE  /\ dirtied_cache' \in [Books -> Nat \cup {NoSeq}]
         /\ \A b \in Books : dirtied_cache'[b] < dirtied_sequence
         /\ \A b \in Books \ S : dirtied_cache'[b] = dirtied_cache[b]
         /\ Dirtied' = Dirtied \ S
         /\ table' = table \ S /\ unlearned' = unlearned \ S
<1>1. /\ table' = table \ S /\ unlearned' = unlearned \ S
      /\ dirtied_cache' = [b \in Books |-> IF b \in S THEN NoSeq ELSE dirtied_cache[b]]
  BY DEF ForgetDirty
<1>2. dirtied_sequence \in Nat /\ dirtied_cache \in [Books -> Nat \cup {NoSeq}]
  BY DEF TypeOK
<1>3. dirtied_cache' \in [Books -> Nat \cup {NoSeq}]
  BY <1>1, <1>2
<1>4. \A b \in Books \ S : dirtied_cache'[b] = dirtied_cache[b]
  BY <1>1
<1>5. \A b \in S : dirtied_cache'[b] = NoSeq
  BY <1>1
<1>6. \A b \in Books : dirtied_cache'[b] < dirtied_sequence
  BY <1>2, <1>4, <1>5 DEF Fresh, NoSeq
<1>7. Dirtied' = Dirtied \ S
  BY <1>4, <1>5 DEF Dirtied
<1> QED BY <1>1, <1>3, <1>4, <1>6, <1>7
-----------------------------------------------------------------------------
(* Every step keeps the invariant. *)

\* A change of the books S touches their metadata only.
LEMMA Changed ==
  ASSUME TypeOK, NEW S \in SUBSET Books, Change(S)
  PROVE  /\ meta' \in [Books -> 0..MaxVersion]
         /\ \A b \in Books \ S : meta'[b] = meta[b]
  BY BoundsAssumption DEF TypeOK, Change

\* A setter marks what it changes.
LEMMA SetFieldPreserves ==
  ASSUME IInv, NEW S \in SUBSET live, SetField(S)
  PROVE  IInv'
<1>t. TypeOK /\ Fresh /\ TableMatchesCache /\ (up /\ InHand => book \in Books)
  BY DEF IInv, Base
<1>s. S \in SUBSET Books
  BY <1>t DEF TypeOK
<1>c. /\ meta' \in [Books -> 0..MaxVersion]
      /\ \A b \in Books \ S : meta'[b] = meta[b]
  BY <1>t, <1>s, Changed DEF SetField
<1>d. /\ dirtied_sequence' \in Nat
      /\ dirtied_sequence <= dirtied_sequence'
      /\ dirtied_cache' \in [Books -> Nat \cup {NoSeq}]
      /\ \A b \in S : dirtied_sequence <= dirtied_cache'[b]
      /\ \A b \in Books : dirtied_cache'[b] < dirtied_sequence'
      /\ \A b \in Books \ S : dirtied_cache'[b] = dirtied_cache[b]
      /\ Dirtied' = Dirtied \cup S
      /\ table' = table \cup (S \ Dirtied) /\ unlearned' = unlearned \ S
  BY <1>t, <1>s, MarkedDirty DEF SetField
<1>1. TypeOK'
  BY <1>t, <1>c, <1>d DEF TypeOK, SetField, thread, NoSeq
<1>2. Fresh'
  BY <1>t, <1>d DEF TypeOK, Fresh, SetField, thread, NoSeq
<1>3. TableMatchesCache'
  BY <1>t, <1>d DEF TableMatchesCache, SetField
<1>4. (up /\ InHand => book \in Books)'
  BY <1>t DEF InHand, SetField, thread
<1>5. ASSUME ~ConcurrentDumps PROVE Solo'
  <2>1. /\ Solo /\ up /\ live' \subseteq live \cup S
        /\ UNCHANGED <<pc, book, mi, sequence, opf, annots, dropped, up>>
    BY <1>t, <1>5 DEF IInv, SetField, thread
  <2>2. CASE ~InHand
    BY <2>1, <2>2 DEF Solo, InHand
  <2>3. CASE InHand /\ book \in S
    <3>1. sequence < dirtied_cache'[book]
      <4>1. sequence < dirtied_sequence /\ dirtied_sequence <= dirtied_cache'[book]
        BY <1>t, <1>d, <2>3 DEF Fresh
      <4>2. sequence \in Int /\ dirtied_sequence \in Int /\ dirtied_cache'[book] \in Int
        BY <1>s, <1>t, <1>d, <2>3 DEF TypeOK, NoSeq
      <4> QED BY <4>1, <4>2
    <3>2. sequence \in Int
      BY <1>t DEF TypeOK, NoSeq
    <3>3. ~Untouched'
      <4>1. dirtied_cache'[book] # sequence
        BY <1>s, <1>d, <2>3, <3>1, <3>2 DEF NoSeq
      <4> QED BY <4>1, <2>1 DEF Untouched
    <3> QED BY <1>d, <2>1, <2>3, <3>3 DEF Solo, InHand
  <2>4. CASE InHand /\ book \notin S
    <3>1. book \in Books /\ meta'[book] = meta[book] /\ dirtied_cache'[book] = dirtied_cache[book]
      BY <1>t, <1>c, <1>d, <2>1, <2>4
    <3> QED BY <1>d, <2>1, <2>4, <3>1 DEF Solo, InHand, Untouched
  <2> QED BY <2>2, <2>3, <2>4
<1>6. ASSUME ~ConcurrentDumps PROVE CleanIsBackedUp'
  BY <1>t, <1>c, <1>d, <1>6 DEF IInv, CleanIsBackedUp, SetField, TableMatchesCache, TypeOK
<1> QED BY <1>1, <1>2, <1>3, <1>4, <1>5, <1>6 DEF IInv, Base

\* A crash leaves the change out of the table, and the program is down.
LEMMA CrashInSetFieldPreserves ==
  ASSUME IInv, NEW S \in SUBSET live, CrashInSetField(S)
  PROVE  IInv'
<1>t. TypeOK /\ Fresh /\ TableMatchesCache /\ (up /\ InHand => book \in Books)
  BY DEF IInv, Base
<1>s. S \in SUBSET Books
  BY <1>t DEF TypeOK
<1>c. /\ meta' \in [Books -> 0..MaxVersion]
      /\ \A b \in Books \ S : meta'[b] = meta[b]
  BY <1>t, <1>s, Changed DEF CrashInSetField
<1>1. TypeOK'
  <2>1. restarts' \in 0..MaxRestarts
    BY <1>t, BoundsAssumption DEF TypeOK, CrashInSetField
  <2>2. dropped' \in SUBSET Books
    BY <1>t, <1>s DEF TypeOK, CrashInSetField
  <2> QED BY <1>t, <1>c, <2>1, <2>2 DEF TypeOK, CrashInSetField, thread, cache
<1>2. Fresh'
  BY <1>t DEF Fresh, CrashInSetField, thread, cache
<1>3. TableMatchesCache'
  BY DEF TableMatchesCache, CrashInSetField
<1>4. (up /\ InHand => book \in Books)'
  BY DEF CrashInSetField
<1>5. ASSUME ~ConcurrentDumps PROVE Solo'
  BY DEF Solo, CrashInSetField
<1>6. ASSUME ~ConcurrentDumps PROVE CleanIsBackedUp'
  BY <1>t, <1>c, <1>6 DEF IInv, CleanIsBackedUp, CrashInSetField, TypeOK
<1> QED BY <1>1, <1>2, <1>3, <1>4, <1>5, <1>6 DEF IInv, Base

\* Annotations the viewer saves get their own row.
LEMMA SaveAnnotationsPreserves ==
  ASSUME IInv, NEW b \in live, SaveAnnotations(b)
  PROVE  IInv'
<1>t. TypeOK /\ Fresh /\ TableMatchesCache /\ (up /\ InHand => book \in Books)
  BY DEF IInv, Base
<1>s. {b} \in SUBSET Books
  BY <1>t DEF TypeOK
<1>c. /\ meta' \in [Books -> 0..MaxVersion]
      /\ \A c \in Books \ {b} : meta'[c] = meta[c]
  BY <1>t, <1>s, Changed DEF SaveAnnotations
<1>1. TypeOK'
  BY <1>t, <1>c, <1>s DEF TypeOK, SaveAnnotations, RecordAnnotations, thread, cache
<1>2. Fresh'
  BY <1>t DEF Fresh, SaveAnnotations, thread, cache
<1>3. TableMatchesCache'
  BY <1>t DEF TableMatchesCache, SaveAnnotations, cache, Dirtied
<1>4. (up /\ InHand => book \in Books)'
  BY <1>t DEF InHand, SaveAnnotations, thread
<1>5. ASSUME ~ConcurrentDumps PROVE Solo'
  BY <1>t, <1>c, <1>s, <1>5 DEF IInv, Solo, InHand, Untouched, SaveAnnotations, RecordAnnotations, thread, cache, Dirtied
<1>6. ASSUME ~ConcurrentDumps PROVE CleanIsBackedUp'
  BY <1>t, <1>c, <1>s, <1>6 DEF IInv, CleanIsBackedUp, SaveAnnotations, RecordAnnotations, TypeOK
<1> QED BY <1>1, <1>2, <1>3, <1>4, <1>5, <1>6 DEF IInv, Base

\* Annotations edited in place are known not to be recorded.
LEMMA EditAnnotationsPreserves ==
  ASSUME IInv, NEW b \in live, EditAnnotations(b)
  PROVE  IInv'
<1>t. TypeOK /\ Fresh /\ TableMatchesCache /\ (up /\ InHand => book \in Books)
  BY DEF IInv, Base
<1>s. {b} \in SUBSET Books
  BY <1>t DEF TypeOK
<1>c. /\ meta' \in [Books -> 0..MaxVersion]
      /\ \A c \in Books \ {b} : meta'[c] = meta[c]
  BY <1>t, <1>s, Changed DEF EditAnnotations
<1>1. TypeOK'
  BY <1>t, <1>c, <1>s DEF TypeOK, EditAnnotations, thread, cache
<1>2. Fresh'
  BY <1>t DEF Fresh, EditAnnotations, thread, cache
<1>3. TableMatchesCache'
  BY <1>t DEF TableMatchesCache, EditAnnotations, cache, Dirtied
<1>4. (up /\ InHand => book \in Books)'
  BY <1>t DEF InHand, EditAnnotations, thread
<1>5. ASSUME ~ConcurrentDumps PROVE Solo'
  BY <1>t, <1>c, <1>s, <1>5 DEF IInv, Solo, InHand, Untouched, EditAnnotations, thread, cache, Dirtied
<1>6. ASSUME ~ConcurrentDumps PROVE CleanIsBackedUp'
  BY <1>t, <1>c, <1>s, <1>6 DEF IInv, CleanIsBackedUp, EditAnnotations, TypeOK
<1> QED BY <1>1, <1>2, <1>3, <1>4, <1>5, <1>6 DEF IInv, Base

\* A removed book needs no backup.
LEMMA RemoveBookPreserves ==
  ASSUME IInv, NEW b \in live, RemoveBook(b)
  PROVE  IInv'
<1>t. TypeOK /\ Fresh /\ TableMatchesCache /\ (up /\ InHand => book \in Books)
  BY DEF IInv, Base
<1>1. TypeOK'
  BY <1>t, BoundsAssumption DEF TypeOK, RemoveBook, thread, cache, Damaged
<1>2. Fresh'
  BY <1>t DEF Fresh, RemoveBook, thread, cache
<1>3. TableMatchesCache'
  BY <1>t DEF TableMatchesCache, RemoveBook, cache, Dirtied
<1>4. (up /\ InHand => book \in Books)'
  BY <1>t DEF InHand, RemoveBook, thread
<1>5. ASSUME ~ConcurrentDumps PROVE Solo'
  BY <1>t, <1>5 DEF IInv, Solo, InHand, Untouched, RemoveBook, thread, cache, Dirtied, TypeOK
<1>6. ASSUME ~ConcurrentDumps PROVE CleanIsBackedUp'
  BY <1>t, <1>6 DEF IInv, CleanIsBackedUp, RemoveBook, TypeOK
<1> QED BY <1>1, <1>2, <1>3, <1>4, <1>5, <1>6 DEF IInv, Base

\* A new or restored book is dirty.
LEMMA AddBookPreserves ==
  ASSUME IInv, NEW b \in Books \ live, AddBook(b)
  PROVE  IInv'
<1>t. TypeOK /\ Fresh /\ TableMatchesCache /\ (up /\ InHand => book \in Books)
  BY DEF IInv, Base
<1>s. {b} \in SUBSET Books
  BY <1>t DEF TypeOK
<1>c. /\ meta' \in [Books -> 0..MaxVersion]
      /\ \A c \in Books \ {b} : meta'[c] = meta[c]
  BY <1>t, <1>s, Changed DEF AddBook
<1>d. /\ dirtied_sequence' \in Nat
      /\ dirtied_sequence <= dirtied_sequence'
      /\ dirtied_cache' \in [Books -> Nat \cup {NoSeq}]
      /\ \A c \in {b} : dirtied_sequence <= dirtied_cache'[c]
      /\ \A c \in Books : dirtied_cache'[c] < dirtied_sequence'
      /\ \A c \in Books \ {b} : dirtied_cache'[c] = dirtied_cache[c]
      /\ Dirtied' = Dirtied \cup {b}
      /\ table' = table \cup ({b} \ Dirtied) /\ unlearned' = unlearned \ {b}
  BY <1>t, <1>s, MarkedDirty DEF AddBook
<1>1. TypeOK'
  BY <1>t, <1>c, <1>d, <1>s DEF TypeOK, AddBook, thread, NoSeq
<1>2. Fresh'
  BY <1>t, <1>d DEF TypeOK, Fresh, AddBook, thread, NoSeq
<1>3. TableMatchesCache'
  BY <1>t, <1>d DEF TableMatchesCache, AddBook
<1>4. (up /\ InHand => book \in Books)'
  BY <1>t DEF InHand, AddBook, thread
<1>5. ASSUME ~ConcurrentDumps PROVE Solo'
  <2>1. /\ Solo /\ up /\ live' \subseteq live \cup {b}
        /\ UNCHANGED <<pc, book, mi, sequence, opf, annots, dropped, up>>
    BY <1>t, <1>5 DEF IInv, AddBook, thread
  <2>2. CASE ~InHand
    BY <2>1, <2>2 DEF Solo, InHand
  <2>3. CASE InHand /\ book \in {b}
    <3>1. sequence < dirtied_cache'[book]
      <4>1. sequence < dirtied_sequence /\ dirtied_sequence <= dirtied_cache'[book]
        BY <1>t, <1>d, <2>3 DEF Fresh
      <4>2. sequence \in Int /\ dirtied_sequence \in Int /\ dirtied_cache'[book] \in Int
        BY <1>s, <1>t, <1>d, <2>3 DEF TypeOK, NoSeq
      <4> QED BY <4>1, <4>2
    <3>2. sequence \in Int
      BY <1>t DEF TypeOK, NoSeq
    <3>3. ~Untouched'
      <4>1. dirtied_cache'[book] # sequence
        BY <1>s, <1>d, <2>3, <3>1, <3>2 DEF NoSeq
      <4> QED BY <4>1, <2>1 DEF Untouched
    <3> QED BY <1>d, <2>1, <2>3, <3>3 DEF Solo, InHand
  <2>4. CASE InHand /\ book \notin {b}
    <3>1. book \in Books /\ meta'[book] = meta[book] /\ dirtied_cache'[book] = dirtied_cache[book]
      BY <1>t, <1>c, <1>d, <2>1, <2>4
    <3> QED BY <1>d, <2>1, <2>4, <3>1 DEF Solo, InHand, Untouched
  <2> QED BY <2>2, <2>3, <2>4
<1>6. ASSUME ~ConcurrentDumps PROVE CleanIsBackedUp'
  BY <1>t, <1>c, <1>d, <1>6 DEF IInv, CleanIsBackedUp, AddBook, TableMatchesCache, TypeOK
<1> QED BY <1>1, <1>2, <1>3, <1>4, <1>5, <1>6 DEF IInv, Base

\* A dump forgets the books it wrote.
LEMMA DumpMetadataPreserves ==
  ASSUME IInv, NEW F \in SUBSET Dirtied, DumpMetadata(F)
  PROVE  IInv'
<1>t. TypeOK /\ Fresh /\ TableMatchesCache /\ (up /\ InHand => book \in Books)
  BY DEF IInv, Base
<1>d. /\ dirtied_cache' \in [Books -> Nat \cup {NoSeq}]
      /\ \A b \in Books : dirtied_cache'[b] < dirtied_sequence
      /\ Dirtied' = Dirtied \ ((Dirtied \cap live) \ F)
      /\ table' = table \ ((Dirtied \cap live) \ F)
      /\ unlearned' = unlearned \ ((Dirtied \cap live) \ F)
  <2>1. ((Dirtied \cap live) \ F) \in SUBSET Books
    BY DEF Dirtied
  <2> QED BY <1>t, <2>1, Forgotten DEF DumpMetadata
<1>1. TypeOK'
  BY <1>t, <1>d, BoundsAssumption DEF TypeOK, DumpMetadata, thread, Damaged
<1>2. Fresh'
  BY <1>t, <1>d DEF Fresh, DumpMetadata, thread
<1>3. TableMatchesCache'
  BY <1>t, <1>d DEF TableMatchesCache, DumpMetadata
<1>4. (up /\ InHand => book \in Books)'
  BY <1>t DEF InHand, DumpMetadata, thread
<1>5. ASSUME ~ConcurrentDumps PROVE Solo'
  BY <1>5 DEF Solo, InHand, DumpMetadata, thread
<1>6. ASSUME ~ConcurrentDumps PROVE CleanIsBackedUp'
  BY <1>t, <1>d, <1>6 DEF IInv, CleanIsBackedUp, DumpMetadata, TypeOK, TableMatchesCache
<1> QED BY <1>1, <1>2, <1>3, <1>4, <1>5, <1>6 DEF IInv, Base

\* Nothing is in hand before the pick.
LEMMA BeginCyclePreserves ==
  ASSUME IInv, BeginCycle
  PROVE  IInv'
<1>t. TypeOK /\ Fresh /\ TableMatchesCache /\ (up /\ InHand => book \in Books)
  BY DEF IInv, Base
<1>1. TypeOK'
  BY <1>t DEF TypeOK, PCs, BeginCycle, disk, cache, locals, thread
<1>2. Fresh'
  BY <1>t DEF Fresh, BeginCycle, disk, cache, locals, thread
<1>3. TableMatchesCache'
  BY <1>t DEF TableMatchesCache, Dirtied, BeginCycle, disk, cache, locals, thread
<1>4. (up /\ InHand => book \in Books)'
  BY <1>t DEF InHand, BeginCycle, disk, cache, locals, thread
<1>5. ASSUME ~ConcurrentDumps PROVE Solo'
  BY <1>t, <1>5 DEF IInv, Solo, InHand, Untouched, Dirtied, BeginCycle, disk, cache, locals, thread
<1>6. ASSUME ~ConcurrentDumps PROVE CleanIsBackedUp'
  BY <1>t, <1>6 DEF IInv, CleanIsBackedUp, BeginCycle, disk, cache, locals, thread
<1> QED BY <1>1, <1>2, <1>3, <1>4, <1>5, <1>6 DEF IInv, Base

\* The rows of annotations_dirtied move to metadata_dirtied and to the cache.
LEMMA BeginCycleCheckingPreserves ==
  ASSUME IInv, BeginCycleChecking
  PROVE  IInv'
<1>t. TypeOK /\ Fresh /\ TableMatchesCache /\ (up /\ InHand => book \in Books)
  BY DEF IInv, Base
<1>d. /\ dirtied_sequence' \in Nat
      /\ dirtied_sequence <= dirtied_sequence'
      /\ dirtied_cache' \in [Books -> Nat \cup {NoSeq}]
      /\ \A b \in Books : dirtied_cache'[b] < dirtied_sequence'
      /\ table' \in SUBSET Books /\ annots' \in SUBSET Books
      /\ table \cup annots \subseteq table' \cup annots'
      /\ unlearned' \in SUBSET Books
      /\ table' = Dirtied' \cup unlearned' /\ Dirtied' \cap unlearned' = {}
  <2>0. /\ dirtied_sequence \in Nat /\ dirtied_cache \in [Books -> Nat \cup {NoSeq}]
        /\ table \in SUBSET Books /\ annots \in SUBSET Books /\ unlearned \in SUBSET Books
        /\ table = Dirtied \cup unlearned /\ Dirtied \cap unlearned = {}
        /\ \A b \in Books : dirtied_cache[b] < dirtied_sequence
    BY <1>t DEF TypeOK, TableMatchesCache, BeginCycleChecking, Fresh
  <2>1. CASE CheckFails
    <3>1. Dirtied' = Dirtied /\ UNCHANGED <<dirtied_cache, dirtied_sequence>>
      BY <2>1 DEF CheckFails, Dirtied
    <3>2. CASE UNCHANGED <<table, annots, unlearned>>
      BY <2>0, <3>1, <3>2
    <3>3. CASE TakeAnnotations /\ unlearned' = unlearned \cup (annots \ table)
      <4>1. table' = table \cup annots /\ annots' \in {annots, {}}
        BY <3>3 DEF TakeAnnotations, AnnotatedRows
      <4>2. table' = Dirtied \cup unlearned' /\ Dirtied \cap unlearned' = {}
        BY <2>0, <3>3, <4>1
      <4>3. table' \in SUBSET Books /\ annots' \in SUBSET Books /\ unlearned' \in SUBSET Books
        BY <2>0, <3>3, <4>1
      <4> QED BY <2>0, <3>1, <4>1, <4>2, <4>3
    <3> QED BY <2>1, <3>2, <3>3 DEF CheckFails
  <2>2. CASE CheckAnnotations /\ annots \subseteq table
    BY <2>0, <2>2 DEF cache, Dirtied, CheckAnnotations, TakeAnnotations, AnnotatedRows
  <2>3. CASE CheckAnnotations /\ ~(annots \subseteq table)
    <3> DEFINE new == table' \ Dirtied
    <3>1. table' = table \cup annots /\ annots' = {}
      BY <2>3 DEF CheckAnnotations, TakeAnnotations, AnnotatedRows
    <3>2. PICK f \in Numberings(new, dirtied_sequence) :
            /\ dirtied_cache' = [b \in Books |-> IF b \in new THEN f[b] ELSE dirtied_cache[b]]
            /\ dirtied_sequence' = dirtied_sequence + Cardinality(new)
            /\ unlearned' = {}
      BY <2>3 DEF CheckAnnotations
    <3>3. new \in SUBSET Books
      BY <2>0, <3>1
    <3>4. /\ Cardinality(new) \in Nat
          /\ \A b \in new : f[b] \in Nat /\ f[b] < dirtied_sequence + Cardinality(new)
      BY <2>0, <3>2, <3>3, NumberingsBounded
    <3>5. \A b \in new : dirtied_cache'[b] = f[b]
      BY <3>2, <3>3
    <3>6. \A b \in Books \ new : dirtied_cache'[b] = dirtied_cache[b]
      BY <3>2
    <3>7. DOMAIN dirtied_cache' = Books /\ dirtied_cache' = [b \in Books |-> dirtied_cache'[b]]
      BY <3>2
    <3>8. table' = Dirtied \cup new
      BY <2>0, <3>1
    <3> HIDE DEF new
    <3>9. dirtied_sequence' \in Nat /\ dirtied_sequence <= dirtied_sequence'
      BY <2>0, <3>2, <3>4
    <3>10. ASSUME NEW b \in Books
           PROVE dirtied_cache'[b] \in Nat \cup {NoSeq} /\ dirtied_cache'[b] < dirtied_sequence'
      <4>1. CASE b \in new
        BY <3>2, <3>4, <3>5, <4>1
      <4>2. CASE b \notin new
        <5>1. dirtied_cache'[b] = dirtied_cache[b] /\ dirtied_cache[b] \in Nat \cup {NoSeq}
          BY <2>0, <3>6, <4>2
        <5> QED BY <2>0, <3>9, <5>1 DEF NoSeq
      <4> QED BY <4>1, <4>2
    <3>11. dirtied_cache' \in [Books -> Nat \cup {NoSeq}]
      BY <3>7, <3>10
    <3>12. Dirtied' = Dirtied \cup new
      BY <3>3, <3>4, <3>5, <3>6 DEF Dirtied, NoSeq
    <3> QED BY <2>0, <3>1, <3>2, <3>8, <3>9, <3>10, <3>11, <3>12
  <2> QED BY <2>1, <2>2, <2>3 DEF BeginCycleChecking
<1>1. TypeOK'
  BY <1>t, <1>d DEF TypeOK, BeginCycleChecking, ResetCheckCount, PCs, locals
<1>2. Fresh'
  BY <1>t, <1>d DEF TypeOK, Fresh, BeginCycleChecking, locals, NoSeq
<1>3. TableMatchesCache'
  BY <1>d DEF TableMatchesCache
<1>4. (up /\ InHand => book \in Books)'
  BY DEF InHand, BeginCycleChecking
<1>5. ASSUME ~ConcurrentDumps PROVE Solo'
  BY DEF Solo, InHand, BeginCycleChecking
<1>6. ASSUME ~ConcurrentDumps PROVE CleanIsBackedUp'
  BY <1>t, <1>d, <1>6 DEF IInv, CleanIsBackedUp, BeginCycleChecking, TypeOK
<1> QED BY <1>1, <1>2, <1>3, <1>4, <1>5, <1>6 DEF IInv, Base

\* Only a dirty book is picked.
LEMMA PickPreserves ==
  ASSUME IInv, NEW b \in Books, Pick(b)
  PROVE  IInv'
<1>t. TypeOK /\ Fresh /\ TableMatchesCache /\ (up /\ InHand => book \in Books)
  BY DEF IInv, Base
<1>1. TypeOK'
  BY <1>t DEF TypeOK, PCs, Pick, disk, cache, locals, thread
<1>2. Fresh'
  BY <1>t DEF Fresh, Pick, disk, cache, locals, thread
<1>3. TableMatchesCache'
  BY <1>t DEF TableMatchesCache, Dirtied, Pick, disk, cache, locals, thread
<1>4. (up /\ InHand => book \in Books)'
  BY <1>t DEF InHand, Pick, disk, cache, locals, thread
<1>5. ASSUME ~ConcurrentDumps PROVE Solo'
  BY <1>t, <1>5 DEF IInv, Solo, InHand, Untouched, Dirtied, Pick, disk, cache, locals, thread
<1>6. ASSUME ~ConcurrentDumps PROVE CleanIsBackedUp'
  BY <1>t, <1>6 DEF IInv, CleanIsBackedUp, Pick, disk, cache, locals, thread
<1> QED BY <1>1, <1>2, <1>3, <1>4, <1>5, <1>6 DEF IInv, Base

\* Nothing is in hand.
LEMMA PickNothingPreserves ==
  ASSUME IInv, PickNothing
  PROVE  IInv'
<1>t. TypeOK /\ Fresh /\ TableMatchesCache /\ (up /\ InHand => book \in Books)
  BY DEF IInv, Base
<1>1. TypeOK'
  BY <1>t, BoundsAssumption DEF TypeOK, PCs, NoMi, NoSeq, PickNothing, Again, disk, cache, locals, thread
<1>2. Fresh'
  BY <1>t DEF TypeOK, Fresh, NoSeq, PickNothing, Again, disk, cache, locals, thread
<1>3. TableMatchesCache'
  BY <1>t DEF TableMatchesCache, Dirtied, PickNothing, Again, disk, cache, locals, thread
<1>4. (up /\ InHand => book \in Books)'
  BY <1>t DEF InHand, PickNothing, Again, disk, cache, locals, thread
<1>5. ASSUME ~ConcurrentDumps PROVE Solo'
  BY <1>t, <1>5 DEF IInv, Solo, InHand, Untouched, Dirtied, PickNothing, Again, disk, cache, locals, thread
<1>6. ASSUME ~ConcurrentDumps PROVE CleanIsBackedUp'
  BY <1>t, <1>6 DEF IInv, CleanIsBackedUp, PickNothing, Again, disk, cache, locals, thread
<1> QED BY <1>1, <1>2, <1>3, <1>4, <1>5, <1>6 DEF IInv, Base

\* What is read is the metadata that goes with the sequence number.
LEMMA ReadPreserves ==
  ASSUME IInv, Read
  PROVE  IInv'
<1>t. TypeOK /\ Fresh /\ TableMatchesCache /\ (up /\ InHand => book \in Books)
  BY DEF IInv, Base
<1>1. TypeOK'
  <2>1. book \in Books
    BY <1>t DEF InHand, Read
  <2>2. sequence' \in Nat \cup {NoSeq}
    BY <1>t, <2>1 DEF TypeOK, Read
  <2>3. mi' \in NoMi..MaxVersion
    BY <1>t, <2>1, BoundsAssumption DEF TypeOK, Read, NoMi
  <2> QED BY <1>t, <2>2, <2>3 DEF TypeOK, PCs, Read, disk, cache, locals, thread
<1>2. Fresh'
  BY <1>t DEF InHand, Fresh, Read, disk, cache, locals, thread
<1>3. TableMatchesCache'
  BY <1>t DEF TableMatchesCache, Dirtied, Read, disk, cache, locals, thread
<1>4. (up /\ InHand => book \in Books)'
  BY <1>t DEF InHand, Read, disk, cache, locals, thread
<1>5. ASSUME ~ConcurrentDumps PROVE Solo'
  <2>1. book \in Dirtied /\ dirtied_cache[book] \in Nat
    BY <1>t, <1>5 DEF IInv, Solo, InHand, Read, Dirtied, TypeOK
  <2>2. sequence' = dirtied_cache[book]
    BY DEF Read
  <2>3. pc' = "convert" => mi' = meta[book] /\ mi' # NoMi
    BY <1>t, <2>1, BoundsAssumption DEF Read, TypeOK, NoMi, Dirtied
  <2>4. pc' = "clear" => mi' = NoMi
    BY DEF Read
  <2>5. pc' \in {"convert", "clear"}
    BY DEF Read
  <2>6. UNCHANGED <<book, meta, dirtied_cache>>
    BY DEF Read, disk, cache
  <2> QED BY <2>1, <2>2, <2>3, <2>4, <2>5, <2>6 DEF Solo, Dirtied
<1>6. ASSUME ~ConcurrentDumps PROVE CleanIsBackedUp'
  BY <1>t, <1>6 DEF IInv, CleanIsBackedUp, Read, disk, cache, locals, thread
<1> QED BY <1>1, <1>2, <1>3, <1>4, <1>5, <1>6 DEF IInv, Base

\* Nothing is in hand.
LEMMA ReadFailsPreserves ==
  ASSUME IInv, ReadFails
  PROVE  IInv'
<1>t. TypeOK /\ Fresh /\ TableMatchesCache /\ (up /\ InHand => book \in Books)
  BY DEF IInv, Base
<1>1. TypeOK'
  BY <1>t, BoundsAssumption DEF TypeOK, PCs, NoMi, NoSeq, ReadFails, Again, disk, cache, locals, thread
<1>2. Fresh'
  BY <1>t DEF TypeOK, Fresh, NoSeq, ReadFails, Again, disk, cache, locals, thread
<1>3. TableMatchesCache'
  BY <1>t DEF TableMatchesCache, Dirtied, ReadFails, Again, disk, cache, locals, thread
<1>4. (up /\ InHand => book \in Books)'
  BY <1>t DEF InHand, ReadFails, Again, disk, cache, locals, thread
<1>5. ASSUME ~ConcurrentDumps PROVE Solo'
  BY <1>t, <1>5 DEF IInv, Solo, InHand, Untouched, Dirtied, ReadFails, Again, disk, cache, locals, thread
<1>6. ASSUME ~ConcurrentDumps PROVE CleanIsBackedUp'
  BY <1>t, <1>6 DEF IInv, CleanIsBackedUp, ReadFails, Again, disk, cache, locals, thread
<1> QED BY <1>1, <1>2, <1>3, <1>4, <1>5, <1>6 DEF IInv, Base

\* The conversion keeps what was read.
LEMMA ConvertPreserves ==
  ASSUME IInv, Convert
  PROVE  IInv'
<1>t. TypeOK /\ Fresh /\ TableMatchesCache /\ (up /\ InHand => book \in Books)
  BY DEF IInv, Base
<1>1. TypeOK'
  BY <1>t, BoundsAssumption DEF TypeOK, PCs, NoMi, Convert, disk, cache, locals, thread
<1>2. Fresh'
  BY <1>t DEF Fresh, Convert, disk, cache, locals, thread
<1>3. TableMatchesCache'
  BY <1>t DEF TableMatchesCache, Dirtied, Convert, disk, cache, locals, thread
<1>4. (up /\ InHand => book \in Books)'
  BY <1>t DEF InHand, Convert, disk, cache, locals, thread
<1>5. ASSUME ~ConcurrentDumps PROVE Solo'
  BY <1>t, <1>5 DEF IInv, Solo, InHand, Untouched, Dirtied, Convert, disk, cache, locals, thread
<1>6. ASSUME ~ConcurrentDumps PROVE CleanIsBackedUp'
  BY <1>t, <1>6 DEF IInv, CleanIsBackedUp, Convert, disk, cache, locals, thread
<1> QED BY <1>1, <1>2, <1>3, <1>4, <1>5, <1>6 DEF IInv, Base

\* The OPF gets what was read; the book is still dirty.
LEMMA WritePreserves ==
  ASSUME IInv, Write
  PROVE  IInv'
<1>t. TypeOK /\ Fresh /\ TableMatchesCache /\ (up /\ InHand => book \in Books)
  BY DEF IInv, Base
<1>1. TypeOK'
  <2>1. book \in Books
    BY <1>t DEF InHand, Write
  <2> QED BY <1>t, <2>1, BoundsAssumption DEF TypeOK, PCs, NoMi, Damaged, Write, locals, cache
<1>2. Fresh'
  BY <1>t DEF Fresh, Write, locals, cache
<1>3. TableMatchesCache'
  BY <1>t DEF TableMatchesCache, Dirtied, Write, locals, cache
<1>4. (up /\ InHand => book \in Books)'
  BY <1>t DEF InHand, Write, locals, cache
<1>5. ASSUME ~ConcurrentDumps PROVE Solo'
  <2>1. /\ Solo /\ InHand /\ up /\ mi # NoMi /\ pc # "read" /\ pc' = "clear"
        /\ UNCHANGED <<up, book, mi, sequence, live, meta, annots, dirtied_cache>>
    BY <1>5 DEF IInv, Solo, InHand, Write, locals, cache
  <2>2. book \in Books
    BY <1>t, <2>1
  <2>3. dropped' = IF mi = meta[book] THEN dropped \ {book} ELSE dropped
    BY DEF Write
  <2>4. ASSUME Untouched' PROVE mi' = meta'[book'] /\ opf'[book'] = meta'[book']
    <3>1. mi = meta[book]
      BY <2>1, <2>3, <2>4 DEF Untouched, Solo
    <3>2. opf' = [opf EXCEPT ![book] = mi]
      BY <2>1, <2>4 DEF Untouched, Write
    <3>3. opf'[book] = mi
      BY <1>t, <2>2, <3>2 DEF TypeOK
    <3> QED BY <2>1, <3>1, <3>3
  <2> QED BY <2>1, <2>4 DEF Solo, Dirtied
<1>6. ASSUME ~ConcurrentDumps PROVE CleanIsBackedUp'
  <2>1. book \in table /\ CleanIsBackedUp
    BY <1>t, <1>6 DEF IInv, Solo, TableMatchesCache, InHand, Write
  <2> QED BY <1>t, <2>1 DEF CleanIsBackedUp, Write, TypeOK
<1> QED BY <1>1, <1>2, <1>3, <1>4, <1>5, <1>6 DEF IInv, Base

\* A failed write may damage the OPF of a book that is still dirty.
LEMMA WriteFailsPreserves ==
  ASSUME IInv, WriteFails
  PROVE  IInv'
<1>t. TypeOK /\ Fresh /\ TableMatchesCache /\ (up /\ InHand => book \in Books)
  BY DEF IInv, Base
<1>1. TypeOK'
  <2>1. opf' \in [Books -> Damaged..MaxVersion]
    BY <1>t, BoundsAssumption DEF TypeOK, Damaged, WriteFails
  <2> QED BY <1>t, <2>1, BoundsAssumption DEF TypeOK, PCs, NoMi, NoSeq, WriteFails, Again, locals, cache
<1>2. Fresh'
  BY <1>t DEF TypeOK, Fresh, NoSeq, WriteFails, Again, locals, cache
<1>3. TableMatchesCache'
  BY <1>t DEF TableMatchesCache, Dirtied, WriteFails, Again, locals, cache
<1>4. (up /\ InHand => book \in Books)'
  BY <1>t DEF InHand, WriteFails, Again, locals, cache
<1>5. ASSUME ~ConcurrentDumps PROVE Solo'
  BY <1>t, <1>5 DEF IInv, Solo, InHand, Untouched, Dirtied, WriteFails, Again, locals, cache
<1>6. ASSUME ~ConcurrentDumps PROVE CleanIsBackedUp'
  <2>1. book \in table /\ CleanIsBackedUp
    BY <1>t, <1>6 DEF IInv, Solo, TableMatchesCache, InHand, WriteFails
  <2> QED BY <1>t, <2>1 DEF CleanIsBackedUp, WriteFails, TypeOK
<1> QED BY <1>1, <1>2, <1>3, <1>4, <1>5, <1>6 DEF IInv, Base

\* A mark is cleared only if the OPF has the latest metadata, or the code gave up.
LEMMA ClearPreserves ==
  ASSUME IInv, Clear
  PROVE  IInv'
<1>t. TypeOK /\ Fresh /\ TableMatchesCache /\ (up /\ InHand => book \in Books)
  BY DEF IInv, Base
<1>d. /\ dirtied_cache' \in [Books -> Nat \cup {NoSeq}]
      /\ \A b \in Books : dirtied_cache'[b] < dirtied_sequence
      /\ \/ UNCHANGED <<table, dirtied_cache, unlearned>>
         \/ /\ MayClear(book, sequence) /\ table' = table \ {book} /\ Dirtied' = Dirtied \ {book}
            /\ unlearned' = unlearned \ {book}
  <2>1. book \in Books
    BY <1>t DEF InHand, Clear
  <2>2. CASE MayClear(book, sequence)
    <3>1. {book} \in SUBSET Books /\ ForgetDirty({book})
      BY <2>1, <2>2 DEF Clear
    <3> QED BY <1>t, <2>2, <3>1, Forgotten
  <2>3. CASE ~MayClear(book, sequence)
    BY <1>t, <2>3 DEF Clear, TypeOK, Fresh
  <2> QED BY <2>2, <2>3
<1>1. TypeOK'
  <2>1. table' \in SUBSET Books /\ dropped' \in SUBSET Books /\ unlearned' \in SUBSET Books
    BY <1>t, <1>d DEF TypeOK, Clear, InHand
  <2> QED BY <1>t, <1>d, <2>1, BoundsAssumption DEF TypeOK, PCs, NoMi, NoSeq, Clear, Again
<1>2. Fresh'
  BY <1>t, <1>d DEF TypeOK, Fresh, NoSeq, Clear, Again
<1>3. TableMatchesCache'
  BY <1>t, <1>d DEF TableMatchesCache, Clear, Dirtied
<1>4. (up /\ InHand => book \in Books)'
  BY DEF InHand, Clear, Again
<1>5. ASSUME ~ConcurrentDumps PROVE Solo'
  BY DEF Solo, InHand, Clear, Again
<1>6. ASSUME ~ConcurrentDumps PROVE CleanIsBackedUp'
  <2>1. Solo /\ InHand /\ up /\ CleanIsBackedUp /\ UNCHANGED <<live, opf, meta, annots>>
    BY <1>6 DEF IInv, InHand, Clear
  <2>2. ASSUME NEW b \in live, b \notin table' \cup annots \cup dropped' PROVE opf[b] = meta[b]
    <3>0. dropped \subseteq dropped'
      BY DEF Clear
    <3>1. CASE b \notin table
      BY <2>1, <2>2, <3>0, <3>1 DEF CleanIsBackedUp
    <3>2. CASE b \in table
      <4>1. b = book /\ MayClear(book, sequence)
        BY <1>d, <2>2, <3>2
      <4>2. mi # NoMi \/ opf[book] = meta[book]
        BY <2>2, <4>1 DEF Clear, GivesUp
      <4>3. dirtied_cache[book] = sequence
        BY <2>1, <4>1 DEF MayClear, Solo, Dirtied, Clear, NoSeq
      <4>4. Untouched
        BY <2>2, <3>0, <4>1, <4>3 DEF Untouched
      <4> QED BY <2>1, <4>1, <4>2, <4>4 DEF Solo, Clear
    <3> QED BY <3>1, <3>2
  <2> QED BY <2>1, <2>2 DEF CleanIsBackedUp
<1> QED BY <1>1, <1>2, <1>3, <1>4, <1>5, <1>6 DEF IInv, Base

\* The thread ends; the book stays dirty.
LEMMA ClearFailsPreserves ==
  ASSUME IInv, ClearFails
  PROVE  IInv'
<1>t. TypeOK /\ Fresh /\ TableMatchesCache /\ (up /\ InHand => book \in Books)
  BY DEF IInv, Base
<1>1. TypeOK'
  BY <1>t DEF TypeOK, PCs, ClearFails, disk, cache, locals, thread
<1>2. Fresh'
  BY <1>t DEF Fresh, ClearFails, disk, cache, locals, thread
<1>3. TableMatchesCache'
  BY <1>t DEF TableMatchesCache, Dirtied, ClearFails, disk, cache, locals, thread
<1>4. (up /\ InHand => book \in Books)'
  BY <1>t DEF InHand, ClearFails, disk, cache, locals, thread
<1>5. ASSUME ~ConcurrentDumps PROVE Solo'
  BY <1>t, <1>5 DEF IInv, Solo, InHand, Untouched, Dirtied, ClearFails, disk, cache, locals, thread
<1>6. ASSUME ~ConcurrentDumps PROVE CleanIsBackedUp'
  BY <1>t, <1>6 DEF IInv, CleanIsBackedUp, ClearFails, disk, cache, locals, thread
<1> QED BY <1>1, <1>2, <1>3, <1>4, <1>5, <1>6 DEF IInv, Base

\* The shutdown only adds rows.
LEMMA QuitPreserves ==
  ASSUME IInv, Quit
  PROVE  IInv'
<1>t. TypeOK /\ Fresh /\ TableMatchesCache /\ (up /\ InHand => book \in Books)
  BY DEF IInv, Base
<1>1. TypeOK'
  <2>1. restarts' \in 0..MaxRestarts
    BY <1>t, BoundsAssumption DEF TypeOK, Quit
  <2>2. table' \in SUBSET Books
    BY <1>t DEF TypeOK, Quit, ShutdownRows, Dirtied
  <2> QED BY <1>t, <2>1, <2>2 DEF TypeOK, Quit, cache, thread
<1>2. Fresh'
  BY <1>t DEF Fresh, Quit, cache, thread
<1>3. TableMatchesCache'
  BY <1>t DEF TableMatchesCache, Dirtied, Quit, cache, thread
<1>4. (up /\ InHand => book \in Books)'
  BY <1>t DEF InHand, Quit, cache, thread
<1>5. ASSUME ~ConcurrentDumps PROVE Solo'
  BY <1>t, <1>5 DEF IInv, Solo, InHand, Untouched, Dirtied, Quit, cache, thread
<1>6. ASSUME ~ConcurrentDumps PROVE CleanIsBackedUp'
  BY <1>6 DEF IInv, CleanIsBackedUp, Quit, ShutdownRows
<1> QED BY <1>1, <1>2, <1>3, <1>4, <1>5, <1>6 DEF IInv, Base

\* A crash may damage the OPF of a book that is still dirty.
LEMMA CrashPreserves ==
  ASSUME IInv, Crash
  PROVE  IInv'
<1>t. TypeOK /\ Fresh /\ TableMatchesCache /\ (up /\ InHand => book \in Books)
  BY DEF IInv, Base
<1>1. TypeOK'
  <2>1. restarts' \in 0..MaxRestarts
    BY <1>t, BoundsAssumption DEF TypeOK, Crash
  <2>2. opf' \in [Books -> Damaged..MaxVersion]
    BY <1>t, BoundsAssumption DEF TypeOK, Crash, Damaged
  <2> QED BY <1>t, <2>1, <2>2 DEF TypeOK, Crash, cache, thread
<1>2. Fresh'
  BY <1>t DEF Fresh, Crash, cache, thread
<1>3. TableMatchesCache'
  BY <1>t DEF TableMatchesCache, Dirtied, Crash, cache, thread
<1>4. (up /\ InHand => book \in Books)'
  BY <1>t DEF InHand, Crash, cache, thread
<1>5. ASSUME ~ConcurrentDumps PROVE Solo'
  BY <1>t, <1>5 DEF IInv, Solo, InHand, Untouched, Dirtied, Crash, cache, thread
<1>6. ASSUME ~ConcurrentDumps PROVE CleanIsBackedUp'
  <2>1. CleanIsBackedUp /\ Solo
    BY <1>6 DEF IInv
  <2>2. CASE UNCHANGED opf
    BY <2>1, <2>2 DEF CleanIsBackedUp, Crash
  <2>3. CASE pc \in {"write", "rewrite"} /\ opf' = [opf EXCEPT ![book] = Damaged]
    <3>1. book \in table
      BY <1>t, <2>1, <2>3 DEF Solo, TableMatchesCache, InHand, Crash
    <3> QED BY <1>t, <2>1, <2>3, <3>1 DEF CleanIsBackedUp, Crash, TypeOK
  <2> QED BY <2>2, <2>3 DEF Crash
<1> QED BY <1>1, <1>2, <1>3, <1>4, <1>5, <1>6 DEF IInv, Base

\* The cache starts from the rows of both tables.
LEMMA RestartPreserves ==
  ASSUME IInv, Restart
  PROVE  IInv'
<1>t. TypeOK /\ Fresh /\ TableMatchesCache /\ (up /\ InHand => book \in Books)
  BY DEF IInv, Base
<1>d. /\ dirtied_sequence' \in Nat
      /\ dirtied_cache' \in [Books -> Nat \cup {NoSeq}]
      /\ \A b \in Books : dirtied_cache'[b] < dirtied_sequence'
      /\ table' \in SUBSET Books /\ annots' \in SUBSET Books
      /\ table \cup annots \subseteq table' \cup annots'
      /\ table' = Dirtied' /\ unlearned' = {}
  <2>1. /\ table' \in SUBSET Books /\ annots' \in SUBSET Books
        /\ table \cup annots \subseteq table' \cup annots'
    BY <1>t DEF TypeOK, Restart, TakeAnnotations, AnnotatedRows
  <2>2. PICK f \in Numberings(table', 0) :
          dirtied_cache' = [b \in Books |-> IF b \in table' THEN f[b] ELSE NoSeq]
    BY DEF Restart
  <2>3. dirtied_sequence' = Cardinality(table')
    BY DEF Restart
  <2>4. /\ Cardinality(table') \in Nat
        /\ \A b \in table' : f[b] \in Nat /\ f[b] < 0 + Cardinality(table')
    BY <2>1, <2>2, NumberingsBounded
  <2>5. \A b \in table' : dirtied_cache'[b] = f[b]
    BY <2>1, <2>2
  <2>6. \A b \in Books \ table' : dirtied_cache'[b] = NoSeq
    BY <2>2
  <2>7. \A b \in Books : dirtied_cache'[b] \in Nat \cup {NoSeq} /\ dirtied_cache'[b] < dirtied_sequence'
    BY <2>3, <2>4, <2>5, <2>6 DEF NoSeq
  <2>8. dirtied_cache' \in [Books -> Nat \cup {NoSeq}]
    BY <2>2, <2>7
  <2>9. table' = Dirtied'
    BY <2>1, <2>4, <2>5, <2>6 DEF Dirtied, NoSeq
  <2> QED BY <2>1, <2>3, <2>4, <2>7, <2>8, <2>9 DEF Restart
<1>1. TypeOK'
  BY <1>t, <1>d, BoundsAssumption DEF TypeOK, PCs, NoMi, NoSeq, Restart
<1>2. Fresh'
  BY <1>d DEF Fresh, NoSeq, Restart
<1>3. TableMatchesCache'
  BY <1>d DEF TableMatchesCache
<1>4. (up /\ InHand => book \in Books)'
  BY DEF InHand, Restart
<1>5. ASSUME ~ConcurrentDumps PROVE Solo'
  BY DEF Solo, InHand, Restart
<1>6. ASSUME ~ConcurrentDumps PROVE CleanIsBackedUp'
  BY <1>d, <1>6 DEF IInv, CleanIsBackedUp, Restart
<1> QED BY <1>1, <1>2, <1>3, <1>4, <1>5, <1>6 DEF IInv, Base

-----------------------------------------------------------------------------
LEMMA InitHolds == Init => IInv
<1> SUFFICES ASSUME Init PROVE IInv
  OBVIOUS
<1>1. TypeOK
  BY BoundsAssumption DEF Init, TypeOK, PCs, NoSeq, NoMi, Damaged
<1>2. Fresh /\ TableMatchesCache
  BY DEF Init, Fresh, TableMatchesCache, Dirtied, NoSeq
<1>3. ~InHand
  BY DEF Init, InHand
<1>4. CleanIsBackedUp
  BY DEF Init, CleanIsBackedUp
<1> QED BY <1>1, <1>2, <1>3, <1>4 DEF IInv, Base, Solo

LEMMA NextPreserves == IInv /\ [Next]_vars => IInv'
<1> SUFFICES ASSUME IInv, [Next]_vars PROVE IInv'
  OBVIOUS
<1>1. CASE Users
  <2>1. ASSUME NEW S \in SUBSET live, SetField(S) \/ CrashInSetField(S) PROVE IInv'
    BY <2>1, SetFieldPreserves, CrashInSetFieldPreserves
  <2>2. ASSUME NEW b \in live, SaveAnnotations(b) \/ EditAnnotations(b) \/ RemoveBook(b) PROVE IInv'
    BY <2>2, SaveAnnotationsPreserves, EditAnnotationsPreserves, RemoveBookPreserves
  <2>3. ASSUME NEW b \in Books \ live, AddBook(b) PROVE IInv'
    BY <2>3, AddBookPreserves
  <2>4. ASSUME NEW F \in SUBSET Dirtied, DumpMetadata(F) PROVE IInv'
    BY <2>4, DumpMetadataPreserves
  <2> QED BY <1>1, <2>1, <2>2, <2>3, <2>4 DEF Users
<1>2. CASE BackupThread
  BY <1>2, BeginCyclePreserves, BeginCycleCheckingPreserves, PickPreserves, PickNothingPreserves,
     ReadPreserves, ReadFailsPreserves, ConvertPreserves, WritePreserves, WriteFailsPreserves,
     ClearPreserves, ClearFailsPreserves DEF BackupThread
<1>3. CASE Quit \/ Crash \/ Restart
  BY <1>3, QuitPreserves, CrashPreserves, RestartPreserves
<1>4. CASE UNCHANGED vars
  BY <1>4 DEF vars, IInv, Base, TypeOK, Fresh, TableMatchesCache, Dirtied, InHand, Solo, Untouched,
              CleanIsBackedUp
<1> QED BY <1>1, <1>2, <1>3, <1>4 DEF Next

\* The inductive invariant holds in every reachable state.
THEOREM Invariance == Spec => []IInv
  BY InitHolds, NextPreserves, PTL DEF Spec

\* Every variable keeps its type.
THEOREM TypeCorrect == Spec => []TypeOK
<1>1. IInv => TypeOK
  BY DEF IInv, Base
<1> QED BY <1>1, Invariance, PTL

\* metadata_dirtied names exactly the books of dirtied_cache while the program
\* runs, and those a failed check of the annotations kept from it, so a restart finds every dirty book, dump_metadata() beside the thread
\* or not.
THEOREM TableMirrorsCache == Spec => []TableMatchesCache
<1>1. IInv => TableMatchesCache
  BY DEF IInv, Base
<1> QED BY <1>1, Invariance, PTL

\* A book that nothing marks for backup has its latest metadata in its OPF,
\* whatever changes, fails or crashes, unless dump_metadata() may run beside the
\* backup thread.
THEOREM BackedUp == Spec => [](~ConcurrentDumps => CleanIsBackedUp)
<1>1. IInv => (~ConcurrentDumps => CleanIsBackedUp)
  BY DEF IInv
<1> QED BY <1>1, Invariance, PTL
=============================================================================
