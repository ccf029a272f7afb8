--------------------------- MODULE FTSIndex_proofs ---------------------------
(***************************************************************************)
(* What the index says of formats that do not wait, for any formats, files *)
(* and workers, and any number of changes, restarts and times indexing is  *)
(* switched off and on.                                                    *)
(***************************************************************************)
EXTENDS FTSIndex, FiniteSetTheorems, TLAPS

-----------------------------------------------------------------------------
(* The invariant. *)

\* Every file has some text.
NoEmptyText == \A c \in Contents : TextOf[c] # EmptyText

\* A row has the text of the file it was made from, or an error.
RowsInv == \A k \in Keys : books_text[k] # None =>
             books_text[k].text \in {TextOf[books_text[k].content], ErrText}

\* IndexCurrent as it holds whenever the triggers watch, also with indexing off.
CurrentInv == attached => \A k \in Existing \ (dirtied \cup Unextractable) : UpToDate(k)

IndexInv == /\ RowsInv
            /\ enabled => attached
            /\ ~EditsDuringJob /\ NoEmptyText => CurrentInv
            /\ ~EditsDuringJob /\ ~RemovalsUnseen => NoGhosts

\* e is about the file its format has.
Sound(e) == content[e.key] = e.content

\* What threads have in hand is about the files that are there.
HandsInv ==
  ~EditsDuringJob =>
    \A g \in Gens :
      /\ dispatcher[g].pc = "drop" =>
           content[dispatcher[g].key] = None \/ dispatcher[g].key \in Unextractable
      /\ dispatcher[g].pc = "queue" => Sound(dispatcher[g])
      /\ \A i \in DOMAIN jobs[g] : Sound(jobs[g][i])
      /\ \A w \in Workers : working[g][w].state = "working" => Sound(working[g][w].job)
      /\ \A i \in DOMAIN results[g] : Sound(results[g][i])

\* The pool has format k in hand.
InPool(g, k) == \/ \E i \in DOMAIN jobs[g] : jobs[g][i].key = k
                \/ \E w \in Workers : working[g][w].state = "working" /\ working[g][w].job.key = k
                \/ \E i \in DOMAIN results[g] : results[g][i].key = k

\* What is in progress is with a pool, unless its result was dropped.
ProgressInv == attached => \A k \in in_progress \ lost : \E g \in Gens : InPool(g, k)

IInv == TypeOK /\ IndexInv /\ HandsInv /\ ProgressInv
-----------------------------------------------------------------------------
(* Types and queues. *)

LEMMA TailIndices ==
  ASSUME NEW S, NEW q \in Seq(S), q # <<>>
  PROVE  /\ Head(q) = q[1] /\ Head(q) \in S /\ 1 \in DOMAIN q /\ Tail(q) \in Seq(S)
         /\ \A i \in DOMAIN Tail(q) : i + 1 \in DOMAIN q /\ Tail(q)[i] = q[i + 1]
         /\ \A i \in DOMAIN q : i # 1 => i - 1 \in DOMAIN Tail(q) /\ Tail(q)[i - 1] = q[i]
OBVIOUS

LEMMA AppendIndices ==
  ASSUME NEW S, NEW q \in Seq(S), NEW x \in S
  PROVE  /\ Append(q, x) \in Seq(S)
         /\ DOMAIN Append(q, x) = DOMAIN q \cup {Len(q) + 1}
         /\ Append(q, x)[Len(q) + 1] = x
         /\ \A i \in DOMAIN q : Append(q, x)[i] = q[i]
OBVIOUS

LEMMA Generations == 1 \in Gens /\ Gens \subseteq Nat
BY BoundsAssumption DEF Gens

LEMMA DispatcherFacts ==
  ASSUME TypeOK, NEW g \in Gens
  PROVE  /\ dispatcher[g].pc \in {"none", "wait", "next", "drop", "read", "queue"}
         /\ dispatcher[g].pc \in {"none", "wait", "next"} => dispatcher[g].key = None
         /\ dispatcher[g].pc \in {"drop", "read"} => dispatcher[g].key \in Keys
         /\ dispatcher[g].pc = "queue" =>
              dispatcher[g].key \in Keys /\ dispatcher[g].content \in Contents
BY DEF TypeOK, DispatcherState, AtRest

LEMMA RestFacts ==
  ASSUME NEW pc \in {"none", "wait", "next"}
  PROVE  AtRest(pc) \in DispatcherState /\ AtRest(pc).pc = pc /\ AtRest(pc).key = None
BY DEF AtRest, DispatcherState

LEMMA GotoFacts ==
  ASSUME TypeOK, NEW g \in Gens, NEW pc \in {"none", "wait", "next"}, Goto(g, pc)
  PROVE  /\ dispatcher' \in [Gens -> DispatcherState]
         /\ dispatcher'[g] = AtRest(pc)
         /\ \A h \in Gens : h # g => dispatcher'[h] = dispatcher[h]
BY RestFacts DEF Goto, TypeOK

LEMMA WakeFacts ==
  ASSUME TypeOK, Wake
  PROVE  wake' \in [Gens -> Nat] /\ missed' \in BOOLEAN
<1>1. wake \in [Gens -> Nat] /\ gen \in Gens /\ missed \in BOOLEAN
  BY DEF TypeOK
<1>2. CASE enabled
  <2>1. wake' = [wake EXCEPT ![gen] = wake[gen] + 1] /\ wake[gen] + 1 \in Nat /\ missed' = FALSE
    BY <1>1, <1>2 DEF Wake
  <2> QED BY <1>1, <2>1
<1> QED BY <1>1, <1>2 DEF Wake
-----------------------------------------------------------------------------
(* Steps that leave parts alone. *)

LEMMA SameIndex ==
  ASSUME IndexInv, UNCHANGED <<content, dirtied, books_text, unindexed, enabled, attached>>
  PROVE  IndexInv'
BY DEF IndexInv, RowsInv, CurrentInv, NoGhosts, Existing, UpToDate

LEMMA SameHands ==
  ASSUME UNCHANGED <<content, dispatcher, jobs, working, results>>, HandsInv
  PROVE  HandsInv'
BY DEF HandsInv, Sound

\* Nothing is put in progress.
LEMMA SameProgress ==
  ASSUME UNCHANGED <<attached, jobs, working, results>>, ProgressInv,
         in_progress' \ lost' \subseteq in_progress \ lost
  PROVE  ProgressInv'
BY DEF ProgressInv, InPool

\* The file of a format that nobody has in hand changes.
LEMMA FileChanges ==
  ASSUME TypeOK, HandsInv, NEW k \in Keys, NEW c \in Contents \cup {None}, MayChange(k),
         content' = [content EXCEPT ![k] = c],
         UNCHANGED <<dispatcher, jobs, working, results>>
  PROVE  HandsInv'
<1> SUFFICES ASSUME ~EditsDuringJob, NEW g \in Gens
             PROVE  /\ dispatcher[g].pc = "drop" =>
                         content'[dispatcher[g].key] = None \/ dispatcher[g].key \in Unextractable
                    /\ dispatcher[g].pc = "queue" => content'[dispatcher[g].key] = dispatcher[g].content
                    /\ \A i \in DOMAIN jobs[g] : content'[jobs[g][i].key] = jobs[g][i].content
                    /\ \A w \in Workers : working[g][w].state = "working" =>
                         content'[working[g][w].job.key] = working[g][w].job.content
                    /\ \A i \in DOMAIN results[g] : content'[results[g][i].key] = results[g][i].content
  BY DEF HandsInv, Sound
<1>1. ~InHand(g, k)
  BY DEF MayChange
<1>2. \A x : x # k => content'[x] = content[x]
  BY DEF TypeOK
<1> QED BY <1>1, <1>2 DEF InHand, HandsInv, Sound
-----------------------------------------------------------------------------
(* Calls of users. *)

LEMMA StepAddFormat ==
  ASSUME IInv, NEW k \in Keys, NEW c \in Contents, AddFormat(k, c)
  PROVE  IInv'
<1> USE DEF IInv
<1>1. /\ content' = [content EXCEPT ![k] = c] /\ MayChange(k)
      /\ dirtied' = IF attached THEN dirtied \cup {k} ELSE dirtied
      /\ UNCHANGED <<in_progress, books_text, unindexed, lost, enabled, attached, gen, restarts, dispatcher,
                     jobs, working, results, supervisor>>
  BY DEF AddFormat, Dirtied, program, pool
<1>2. TypeOK'
  <2>1. wake' \in [Gens -> Nat] /\ missed' \in BOOLEAN /\ changes' \in 0..MaxChanges
    BY WakeFacts, BoundsAssumption DEF AddFormat, Budget, TypeOK
  <2> QED BY <1>1, <2>1 DEF TypeOK
<1>3. IndexInv'
  <2>1. \A x \in Keys : x # k => content'[x] = content[x]
    BY <1>1 DEF TypeOK
  <2>2. content'[k] = c /\ c # None
    BY <1>1, TextsAssumption DEF TypeOK
  <2>3. RowsInv' /\ (enabled' => attached')
    BY <1>1 DEF IndexInv, RowsInv
  <2>4. ASSUME CurrentInv PROVE CurrentInv'
    BY <1>1, <2>1, <2>4 DEF CurrentInv, Existing, UpToDate
  <2>5. ASSUME NoGhosts PROVE NoGhosts'
    BY <1>1, <2>1, <2>2, <2>5 DEF NoGhosts
  <2> QED BY <2>3, <2>4, <2>5 DEF IndexInv, NoEmptyText
<1>4. HandsInv'
  BY <1>1, FileChanges
<1> QED BY <1>1, <1>2, <1>3, <1>4, SameProgress

LEMMA StepRemoveFormat ==
  ASSUME IInv, NEW k \in Keys, RemoveFormat(k)
  PROVE  IInv'
<1> USE DEF IInv
<1>1. /\ content' = [content EXCEPT ![k] = None] /\ MayChange(k)
      /\ attached \/ RemovalsUnseen
      /\ IF attached THEN /\ dirtied' = dirtied \ {k} /\ in_progress' = in_progress \ {k}
                          /\ lost' = lost \ {k} /\ books_text' = [books_text EXCEPT ![k] = None]
         ELSE UNCHANGED <<dirtied, in_progress, lost, books_text>>
      /\ UNCHANGED <<unindexed, missed, enabled, attached, gen, restarts, wake, dispatcher,
                     jobs, working, results, supervisor>>
  BY DEF RemoveFormat, RemoveDirty, DeletedRows, program, pool
<1>2. TypeOK'
  <2>1. changes' \in 0..MaxChanges
    BY BoundsAssumption DEF RemoveFormat, Budget, TypeOK
  <2> QED BY <1>1, <2>1 DEF TypeOK
<1>3. IndexInv'
  <2>1. \A x \in Keys : x # k => content'[x] = content[x] /\ books_text'[x] = books_text[x]
    BY <1>1 DEF TypeOK
  <2>2. content'[k] = None /\ books_text'[k] \in {None, books_text[k]} /\ (attached => books_text'[k] = None)
    BY <1>1 DEF TypeOK
  <2>3. RowsInv' /\ (enabled' => attached')
    BY <1>1, <2>1, <2>2 DEF IndexInv, RowsInv
  <2>4. ASSUME CurrentInv PROVE CurrentInv'
    <3>1. k \notin Existing' /\ \A x \in Existing' : x \in Existing /\ x # k
      BY <2>1, <2>2 DEF Existing
    <3>2. \A x \in Existing' : UpToDate(x)' <=> UpToDate(x)
      BY <1>1, <2>1, <3>1 DEF UpToDate, Existing
    <3> QED BY <1>1, <2>4, <3>1, <3>2 DEF CurrentInv
  <2>5. ASSUME NoGhosts, ~RemovalsUnseen PROVE NoGhosts'
    BY <1>1, <2>1, <2>2, <2>5 DEF NoGhosts
  <2> QED BY <2>3, <2>4, <2>5 DEF IndexInv, NoEmptyText
<1>4. HandsInv'
  BY <1>1, FileChanges
<1>5. in_progress' \ lost' \subseteq in_progress \ lost
  BY <1>1
<1> QED BY <1>1, <1>2, <1>3, <1>4, <1>5, SameProgress

LEMMA StepReindexBook ==
  ASSUME IInv, NEW k \in Keys, ReindexBook(k)
  PROVE  IInv'
<1> USE DEF IInv
<1>1. /\ dirtied' = dirtied \cup {k}
      /\ UNCHANGED <<content, in_progress, books_text, unindexed, lost, enabled, attached, gen, restarts,
                     dispatcher, jobs, working, results, supervisor>>
  BY DEF ReindexBook, Dirtied, program, pool
<1>2. TypeOK'
  <2>1. wake' \in [Gens -> Nat] /\ missed' \in BOOLEAN /\ changes' \in 0..MaxChanges
    BY WakeFacts, BoundsAssumption DEF ReindexBook, Budget, TypeOK
  <2> QED BY <1>1, <2>1 DEF TypeOK
<1>3. IndexInv'
  BY <1>1 DEF IndexInv, RowsInv, CurrentInv, NoGhosts, Existing, UpToDate
<1> QED BY <1>1, <1>2, <1>3, SameHands, SameProgress

LEMMA StepUnindex ==
  ASSUME IInv, NEW k \in Keys, Unindex(k)
  PROVE  IInv'
<1> USE DEF IInv
<1>1. /\ books_text' = [books_text EXCEPT ![k] = None] /\ unindexed' = unindexed \cup {k}
      /\ UNCHANGED <<content, dirtied, in_progress, lost, missed, enabled, attached, gen, restarts, wake,
                     dispatcher, jobs, working, results, supervisor>>
  BY DEF Unindex, program, pool
<1>2. TypeOK'
  <2>1. changes' \in 0..MaxChanges
    BY BoundsAssumption DEF Unindex, Budget, TypeOK
  <2> QED BY <1>1, <2>1 DEF TypeOK
<1>3. IndexInv'
  <2>1. /\ \A x \in Keys : x # k => books_text'[x] = books_text[x]
        /\ books_text'[k] = None
    BY <1>1 DEF TypeOK
  <2>2. RowsInv' /\ (enabled' => attached')
    BY <1>1, <2>1 DEF IndexInv, RowsInv
  <2>3. ASSUME CurrentInv PROVE CurrentInv'
    BY <1>1, <2>1, <2>3 DEF CurrentInv, Existing, UpToDate
  <2>4. ASSUME NoGhosts PROVE NoGhosts'
    BY <1>1, <2>1, <2>4 DEF NoGhosts
  <2> QED BY <2>2, <2>3, <2>4 DEF IndexInv, NoEmptyText
<1> QED BY <1>1, <1>2, <1>3, SameHands, SameProgress

LEMMA StepDisable == ASSUME IInv, Disable PROVE IInv'
<1> USE DEF IInv
<1>1. /\ gen <= MaxToggles /\ enabled' = FALSE
      /\ UNCHANGED <<content, changes, dirtied, in_progress, books_text, unindexed, lost, missed,
                     attached, gen, restarts, wake, dispatcher, jobs, working, results, supervisor>>
  BY DEF Disable, library, index, pool
<1>2. TypeOK'
  BY <1>1 DEF TypeOK
<1>3. IndexInv'
  BY <1>1 DEF IndexInv, RowsInv, CurrentInv, NoGhosts, Existing, UpToDate
<1> QED BY <1>1, <1>2, <1>3, SameHands, SameProgress

LEMMA StepEnable == ASSUME IInv, Enable PROVE IInv'
<1> USE DEF IInv
<1>1. /\ gen <= MaxToggles /\ enabled' = TRUE /\ attached' = TRUE
      /\ dirtied' = dirtied \cup Existing
      /\ IF attached THEN UNCHANGED <<in_progress, lost>> ELSE in_progress' = {} /\ lost' = {}
      /\ missed' = FALSE
      /\ gen' = gen + 1
      /\ wake' = [wake EXCEPT ![gen + 1] = 1]
      /\ dispatcher' = [dispatcher EXCEPT ![gen + 1] = AtRest("wait")]
      /\ UNCHANGED <<content, changes, books_text, unindexed, restarts, jobs, working, results, supervisor>>
  BY DEF Enable, DirtyExisting, Dirtied, ResetInProgress, StartPool, library, pool
<1>2. TypeOK'
  <2>1. gen + 1 \in Gens
    BY <1>1, BoundsAssumption DEF TypeOK, Gens
  <2> QED BY <1>1, <2>1, RestFacts DEF TypeOK, Existing
<1>3. IndexInv'
  BY <1>1 DEF IndexInv, RowsInv, CurrentInv, NoGhosts, Existing, UpToDate
<1>4. ProgressInv'
  BY <1>1 DEF ProgressInv, InPool
<1>5. HandsInv'
  <2>1. \A g \in Gens : dispatcher'[g] = dispatcher[g] \/ dispatcher'[g].pc = "wait"
    BY <1>1, RestFacts DEF TypeOK
  <2> QED BY <1>1, <2>1 DEF HandsInv, Sound
<1> QED BY <1>2, <1>3, <1>4, <1>5

LEMMA StepReindexAll == ASSUME IInv, ReindexAll PROVE IInv'
<1> USE DEF IInv
<1>1. /\ enabled /\ dirtied' = Existing /\ in_progress' = {} /\ lost' = {} /\ missed' = FALSE
      /\ books_text' = [k \in Keys |-> None] /\ unindexed' = {}
      /\ wake' = [wake EXCEPT ![gen] = 2]
      /\ dispatcher' = [dispatcher EXCEPT ![gen] = AtRest("wait")]
      /\ jobs' = [jobs EXCEPT ![gen] = <<>>]
      /\ working' = [working EXCEPT ![gen] = [w \in Workers |-> Idle]]
      /\ results' = [results EXCEPT ![gen] = <<>>]
      /\ supervisor' = [supervisor EXCEPT ![gen] = "get"]
      /\ UNCHANGED <<content, enabled, attached, gen, restarts>>
  BY DEF ReindexAll
<1>2. TypeOK'
  <2>1. changes' \in 0..MaxChanges
    BY BoundsAssumption DEF ReindexAll, Budget, TypeOK
  <2>2. /\ [w \in Workers |-> Idle] \in [Workers -> WorkerState] /\ <<>> \in Seq(Job) /\ <<>> \in Seq(Result)
    BY DEF WorkerState
  <2>3. /\ jobs' \in [Gens -> Seq(Job)] /\ results' \in [Gens -> Seq(Result)]
        /\ working' \in [Gens -> [Workers -> WorkerState]]
        /\ dispatcher' \in [Gens -> DispatcherState]
    BY <1>1, <2>2, RestFacts DEF TypeOK
  <2>4. /\ wake' \in [Gens -> Nat] /\ supervisor' \in [Gens -> {"get", "check"}]
        /\ books_text' \in [Keys -> Row \cup {None}] /\ dirtied' \in SUBSET Keys
    BY <1>1 DEF TypeOK, Existing
  <2> QED BY <1>1, <2>1, <2>3, <2>4 DEF TypeOK
<1>3. IndexInv'
  BY <1>1 DEF IndexInv, RowsInv, CurrentInv, NoGhosts, Existing
<1>4. HandsInv'
  <2>1. \A g \in Gens :
          \/ dispatcher'[g] = dispatcher[g] /\ jobs'[g] = jobs[g] /\ working'[g] = working[g]
             /\ results'[g] = results[g]
          \/ /\ dispatcher'[g].pc = "wait" /\ jobs'[g] = <<>> /\ results'[g] = <<>>
             /\ \A w \in Workers : working'[g][w].state = "idle"
    BY <1>1, RestFacts DEF TypeOK, Idle
  <2> QED BY <1>1, <2>1 DEF HandsInv, Sound
<1>5. ProgressInv'
  BY <1>1 DEF ProgressInv
<1> QED BY <1>2, <1>3, <1>4, <1>5

LEMMA StepRestart == ASSUME IInv, Restart PROVE IInv'
<1> USE DEF IInv
<1>1. /\ restarts' = restarts + 1 /\ restarts < MaxRestarts
      /\ attached' = enabled
      /\ in_progress' = IF enabled THEN {} ELSE in_progress
      /\ lost' = IF enabled THEN {} ELSE lost
      /\ missed' = FALSE
      /\ dirtied' \in {dirtied, Existing} /\ (~enabled => dirtied' = dirtied)
      /\ gen' = 1
      /\ wake' = [g \in Gens |-> IF g = 1 /\ enabled THEN 1 ELSE 0]
      /\ dispatcher' = [g \in Gens |-> AtRest(IF g = 1 /\ enabled THEN "wait" ELSE "none")]
      /\ jobs' = NoJobs /\ working' = NoWork /\ results' = NoJobs
      /\ supervisor' = [g \in Gens |-> "get"]
      /\ UNCHANGED <<content, changes, books_text, unindexed, enabled>>
  BY DEF Restart, ResetInProgress, library
<1>2. TypeOK'
  <2>1. restarts' \in 0..MaxRestarts
    BY <1>1, BoundsAssumption DEF TypeOK
  <2>2. /\ jobs' \in [Gens -> Seq(Job)] /\ results' \in [Gens -> Seq(Result)]
        /\ working' \in [Gens -> [Workers -> WorkerState]]
    BY <1>1 DEF NoJobs, NoWork, WorkerState
  <2>3. dispatcher' \in [Gens -> DispatcherState]
    BY <1>1, RestFacts
  <2>4. wake' \in [Gens -> Nat] /\ supervisor' \in [Gens -> {"get", "check"}] /\ gen' \in Gens
    BY <1>1, Generations
  <2>5. /\ dirtied' \in SUBSET Keys /\ in_progress' \in SUBSET dirtied'
        /\ lost' \in SUBSET in_progress' /\ missed' \in BOOLEAN
    BY <1>1 DEF TypeOK, Existing
  <2> QED BY <1>1, <2>1, <2>2, <2>3, <2>4, <2>5 DEF TypeOK
<1>3. IndexInv'
  BY <1>1 DEF IndexInv, RowsInv, CurrentInv, NoGhosts, Existing, UpToDate
<1>4. HandsInv'
  <2>1. \A g \in Gens : /\ dispatcher'[g].pc \in {"wait", "none"} /\ jobs'[g] = <<>> /\ results'[g] = <<>>
                        /\ \A w \in Workers : working'[g][w].state = "idle"
    BY <1>1, RestFacts DEF NoJobs, NoWork, Idle
  <2> QED BY <2>1 DEF HandsInv
<1>5. ProgressInv'
  BY <1>1 DEF ProgressInv
<1> QED BY <1>2, <1>3, <1>4, <1>5
-----------------------------------------------------------------------------
(* The dispatcher. *)

LEMMA StepDispatcherWakes ==
  ASSUME IInv, NEW g \in Gens, DispatcherWakes(g)
  PROVE  IInv'
<1> USE DEF IInv
<1>1. UNCHANGED <<content, changes, dirtied, in_progress, books_text, unindexed, lost, missed, enabled, attached, gen,
                  restarts, jobs, working, results, supervisor>>
  BY DEF DispatcherWakes, library, index, program, pool
<1>2. PICK pc \in {"next", "none"} :
        /\ Goto(g, pc)
        /\ wake' = wake \/ (wake[g] > 0 /\ wake' = [wake EXCEPT ![g] = wake[g] - 1])
  BY DEF DispatcherWakes
<1>3. /\ dispatcher' \in [Gens -> DispatcherState]
      /\ \A h \in Gens : \/ dispatcher'[h] = dispatcher[h]
                         \/ dispatcher'[h].pc \in {"next", "none"} /\ dispatcher'[h].key = None
  BY <1>2, GotoFacts, RestFacts
<1>4. wake' \in [Gens -> Nat]
  <2>1. wake \in [Gens -> Nat]
    BY DEF TypeOK
  <2>2. wake[g] > 0 => wake[g] - 1 \in Nat
    BY <2>1
  <2> QED BY <1>2, <2>1, <2>2
<1>5. TypeOK'
  BY <1>1, <1>3, <1>4 DEF TypeOK
<1>6. HandsInv'
  BY <1>1, <1>3 DEF HandsInv, Sound
<1>7. ProgressInv'
  BY <1>1, SameProgress
<1> QED BY <1>1, <1>5, <1>6, <1>7, SameIndex

LEMMA StepNextJob ==
  ASSUME IInv, NEW g \in Gens, NextJob(g)
  PROVE  IInv'
<1> USE DEF IInv
<1>1. UNCHANGED <<content, changes, dirtied, in_progress, books_text, unindexed, lost, missed, enabled, attached, gen,
                  restarts, wake, jobs, working, results, supervisor>>
  BY DEF NextJob, library, index, program, pool
<1>2. ProgressInv'
  BY <1>1, SameProgress
<1>3. CASE Goto(g, "wait")
  <2>1. /\ dispatcher' \in [Gens -> DispatcherState]
        /\ \A h \in Gens : \/ dispatcher'[h] = dispatcher[h]
                           \/ dispatcher'[h].pc = "wait" /\ dispatcher'[h].key = None
    BY <1>3, GotoFacts, RestFacts
  <2>2. TypeOK' /\ HandsInv'
    BY <1>1, <2>1 DEF TypeOK, HandsInv, Sound
  <2> QED BY <1>1, <1>2, <2>2, SameIndex
<1>4. ASSUME NEW k \in dirtied \ in_progress,
             dispatcher' = [dispatcher EXCEPT ![g] =
               [pc |-> IF content[k] = None \/ k \in Unextractable THEN "drop" ELSE "read",
                key |-> k, content |-> None]]
      PROVE  IInv'
  <2> DEFINE d == [pc |-> IF content[k] = None \/ k \in Unextractable THEN "drop" ELSE "read",
                   key |-> k, content |-> None]
  <2>1. d \in DispatcherState /\ d.key = k /\ d.pc # "queue"
        /\ (d.pc = "drop" => content[k] = None \/ k \in Unextractable)
    BY DEF DispatcherState, TypeOK
  <2>2. dispatcher' = [dispatcher EXCEPT ![g] = d]
    BY <1>4
  <2> HIDE DEF d
  <2>3. /\ dispatcher' \in [Gens -> DispatcherState] /\ dispatcher'[g] = d
        /\ \A h \in Gens : h # g => dispatcher'[h] = dispatcher[h]
    BY <2>1, <2>2 DEF TypeOK
  <2>4. TypeOK'
    BY <1>1, <2>3 DEF TypeOK
  <2>5. HandsInv'
    BY <1>1, <2>1, <2>3 DEF HandsInv, Sound
  <2> QED BY <1>1, <1>2, <2>4, <2>5, SameIndex
<1> QED BY <1>3, <1>4 DEF NextJob

LEMMA StepDropJob ==
  ASSUME IInv, NEW g \in Gens, DropJob(g)
  PROVE  IInv'
<1> USE DEF IInv
<1> DEFINE k == dispatcher[g].key
<1>1. /\ dispatcher[g].pc = "drop"
      /\ Goto(g, "next")
      /\ IF enabled THEN /\ dirtied' = dirtied \ {k} /\ in_progress' = in_progress \ {k}
                         /\ lost' = lost \ {k}
         ELSE UNCHANGED <<dirtied, in_progress, lost>>
      /\ UNCHANGED <<content, changes, books_text, unindexed, missed, enabled, attached, gen, restarts, wake,
                     jobs, working, results, supervisor>>
  BY DEF DropJob, RemoveDirty, library, program, pool
<1>2. k \in Keys
  BY <1>1, DispatcherFacts
<1>3. ~EditsDuringJob => content[k] = None \/ k \in Unextractable
  BY <1>1 DEF HandsInv
<1> HIDE DEF k
<1>4. /\ dispatcher' \in [Gens -> DispatcherState]
      /\ \A h \in Gens : \/ dispatcher'[h] = dispatcher[h]
                         \/ dispatcher'[h].pc = "next" /\ dispatcher'[h].key = None
  BY <1>1, GotoFacts, RestFacts
<1>5. TypeOK'
  BY <1>1, <1>4 DEF TypeOK
<1>6. IndexInv'
  <2>1. ASSUME ~EditsDuringJob, CurrentInv PROVE CurrentInv'
    BY <1>1, <1>3, <2>1 DEF CurrentInv, Existing, UpToDate
  <2> QED BY <1>1, <2>1 DEF IndexInv, RowsInv, NoGhosts, NoEmptyText
<1>7. HandsInv'
  BY <1>1, <1>4 DEF HandsInv, Sound
<1>8. ProgressInv'
  <2>1. in_progress' \ lost' \subseteq in_progress \ lost
    BY <1>1
  <2> QED BY <1>1, <2>1, SameProgress
<1> QED BY <1>5, <1>6, <1>7, <1>8

LEMMA ReadRecord ==
  ASSUME NEW r \in [pc : {"drop", "read"}, key : Keys, content : {None}], NEW c
  PROVE  [r EXCEPT !.pc = "queue", !.content = c] = [pc |-> "queue", key |-> r.key, content |-> c]
<1> DEFINE q == [r EXCEPT !.pc = "queue", !.content = c]
<1>1. DOMAIN q = {"pc", "key", "content"} /\ q = [x \in {"pc", "key", "content"} |-> q[x]]
  OBVIOUS
<1>2. q.pc = "queue" /\ q.key = r.key /\ q.content = c
  OBVIOUS
<1> HIDE DEF q
<1>3. q = [pc |-> "queue", key |-> r.key, content |-> c]
  BY <1>1, <1>2
<1> QED BY <1>3 DEF q

LEMMA StepReadFormat ==
  ASSUME IInv, NEW g \in Gens, ReadFormat(g)
  PROVE  IInv'
<1> USE DEF IInv
<1> DEFINE k == dispatcher[g].key
           c == content[k]
           d == [pc |-> "queue", key |-> k, content |-> c]
<1>1. /\ dispatcher[g].pc = "read" /\ k \in Keys
      /\ UNCHANGED <<content, changes, dirtied, in_progress, books_text, unindexed, lost, missed, enabled, attached,
                     gen, restarts, wake, jobs, working, results, supervisor>>
  BY DispatcherFacts DEF ReadFormat, library, index, program, pool
<1>2. c \in Contents \cup {None}
  BY <1>1 DEF TypeOK
<1>3. [dispatcher[g] EXCEPT !.pc = "queue", !.content = c] = d
  <2>1. dispatcher[g] \in [pc : {"drop", "read"}, key : Keys, content : {None}]
    BY <1>1 DEF TypeOK, DispatcherState, AtRest
  <2> QED BY <2>1, ReadRecord
<1>4. dispatcher' = [dispatcher EXCEPT ![g] = IF c = None THEN AtRest("next") ELSE d]
  BY <1>3 DEF ReadFormat
<1>5. PICK e \in {AtRest("next"), d} :
        dispatcher' = [dispatcher EXCEPT ![g] = e] /\ (e = d => c # None)
  <2>1. AtRest("next") # d
    BY DEF AtRest
  <2> QED BY <1>4, <2>1
<1>6. /\ e \in DispatcherState /\ e.key \in {None, k} /\ e.pc # "drop"
      /\ e.pc = "queue" => e.key = k /\ e.content = content[k]
  <2>1. CASE e = AtRest("next")
    BY <2>1, RestFacts
  <2>2. CASE e = d
    <3>1. c \in Contents
      BY <1>2, <1>5, <2>2
    <3> QED BY <1>1, <2>2, <3>1 DEF DispatcherState
  <2> QED BY <1>5, <2>1, <2>2
<1>7. /\ dispatcher' \in [Gens -> DispatcherState] /\ dispatcher'[g] = e
      /\ \A h \in Gens : h # g => dispatcher'[h] = dispatcher[h]
  BY <1>5, <1>6 DEF TypeOK
<1>8. TypeOK'
  BY <1>1, <1>7 DEF TypeOK
<1>9. HandsInv'
  BY <1>1, <1>6, <1>7 DEF HandsInv, Sound
<1>10. ProgressInv'
  BY <1>1, SameProgress
<1> QED BY <1>1, <1>8, <1>9, <1>10, SameIndex

LEMMA StepQueueJob ==
  ASSUME IInv, NEW g \in Gens, QueueJob(g)
  PROVE  IInv'
<1> USE DEF IInv
<1> DEFINE k == dispatcher[g].key
           c == dispatcher[g].content
           j == [key |-> k, content |-> c]
<1>1. /\ dispatcher[g].pc = "queue" /\ k \in Keys /\ c \in Contents
      /\ missed' \in BOOLEAN
      /\ UNCHANGED <<content, changes, books_text, unindexed, enabled, attached, gen, restarts, wake,
                     working, results, supervisor>>
  BY DispatcherFacts DEF QueueJob, TypeOK, library, program
<1>2. /\ dispatcher' \in [Gens -> DispatcherState]
      /\ \A h \in Gens : \/ dispatcher'[h] = dispatcher[h]
                         \/ dispatcher'[h].pc \in {"next", "wait"} /\ dispatcher'[h].key = None
      /\ dispatcher'[g].key = None
  <2>1. PICK pc \in {"next", "wait"} : Goto(g, pc)
    BY DEF QueueJob
  <2> QED BY <2>1, GotoFacts, RestFacts
<1>3. ~EditsDuringJob => content[k] = c
  BY <1>1 DEF HandsInv, Sound
<1>4. gen \in Gens
  BY DEF TypeOK
<1>5. CASE UNCHANGED <<dirtied, in_progress, lost, jobs>>
  <2>1. TypeOK'
    BY <1>1, <1>2, <1>5 DEF TypeOK
  <2>2. HandsInv'
    BY <1>1, <1>2, <1>5 DEF HandsInv, Sound
  <2>3. ProgressInv'
    BY <1>1, <1>5, SameProgress
  <2> QED BY <1>1, <1>5, <2>1, <2>2, <2>3, SameIndex
<1>6. CASE Unchanged(k, c) /\ RemoveDirty(k) /\ UNCHANGED jobs
  <2>1. dirtied' = dirtied \ {k} /\ in_progress' = in_progress \ {k} /\ lost' = lost \ {k}
    BY <1>6 DEF RemoveDirty
  <2>2. TypeOK'
    BY <1>1, <1>2, <1>6, <2>1 DEF TypeOK
  <2>3. HandsInv'
    BY <1>1, <1>2, <1>6 DEF HandsInv, Sound
  <2>4. ProgressInv'
    <3>1. in_progress' \ lost' \subseteq in_progress \ lost
      BY <2>1
    <3> QED BY <1>1, <1>6, <3>1, SameProgress
  <2>5. IndexInv'
    <3>1. ASSUME ~EditsDuringJob PROVE UpToDate(k)
      <4>1. books_text[k] # None /\ books_text[k].content = content[k]
        BY <1>3, <1>6, <3>1 DEF Unchanged
      <4>2. books_text[k] \in Row /\ books_text[k].text \in {TextOf[content[k]], ErrText}
        BY <1>1, <4>1 DEF IndexInv, RowsInv, TypeOK
      <4>3. books_text[k].text = ErrText => books_text[k] = [content |-> content[k], text |-> ErrText]
        BY <4>1, <4>2 DEF Row
      <4> QED BY <4>1, <4>2, <4>3 DEF UpToDate
    <3>2. ASSUME ~EditsDuringJob, CurrentInv PROVE CurrentInv'
      BY <1>1, <2>1, <3>1, <3>2 DEF CurrentInv, Existing, UpToDate
    <3> QED BY <1>1, <3>2 DEF IndexInv, RowsInv, NoGhosts, NoEmptyText
  <2> QED BY <2>2, <2>3, <2>4, <2>5
<1>7. CASE /\ jobs' = [jobs EXCEPT ![gen] = Append(jobs[gen], j)]
           /\ in_progress' = in_progress \cup ({k} \cap dirtied)
           /\ UNCHANGED <<dirtied, lost>>
  <2>1. j \in Job /\ j.key = k /\ j.content = c /\ jobs[gen] \in Seq(Job)
    BY <1>1, <1>4 DEF Job, TypeOK
  <2> DEFINE q == jobs[gen]
             p == Append(q, j)
             n == Len(q) + 1
  <2>2. /\ p \in Seq(Job) /\ DOMAIN p = DOMAIN q \cup {n} /\ p[n] = j
        /\ \A i \in DOMAIN q : p[i] = q[i]
    BY <2>1, AppendIndices
  <2>3. /\ jobs' \in [Gens -> Seq(Job)] /\ jobs'[gen] = p
        /\ \A h \in Gens : h # gen => jobs'[h] = jobs[h]
    BY <1>4, <1>7, <2>2 DEF TypeOK
  <2> HIDE DEF p, j, n
  <2>4. TypeOK'
    BY <1>1, <1>2, <1>7, <2>3 DEF TypeOK
  <2>5. HandsInv'
    <3>1. ASSUME ~EditsDuringJob, NEW h \in Gens, NEW i \in DOMAIN jobs'[h]
          PROVE  content'[jobs'[h][i].key] = jobs'[h][i].content
      <4>1. CASE h = gen
        BY <1>1, <1>3, <1>4, <2>1, <2>2, <2>3, <3>1, <4>1 DEF HandsInv, Sound
      <4>2. CASE h # gen
        BY <1>1, <2>3, <3>1, <4>2 DEF HandsInv, Sound
      <4> QED BY <4>1, <4>2
    <3> QED BY <1>1, <1>2, <3>1 DEF HandsInv, Sound
  <2>6. ProgressInv'
    <3>1. ASSUME NEW x, x = k PROVE InPool(gen, x)'
      <4>1. n \in DOMAIN jobs'[gen] /\ jobs'[gen][n].key = x
        BY <2>1, <2>2, <2>3, <3>1
      <4> QED BY <1>1, <4>1 DEF InPool
    <3>2. ASSUME NEW x, NEW h \in Gens, InPool(h, x) PROVE InPool(h, x)'
      BY <1>1, <2>2, <2>3, <3>2 DEF InPool
    <3> QED BY <1>1, <1>4, <1>7, <3>1, <3>2 DEF ProgressInv
  <2> QED BY <1>1, <1>7, <2>4, <2>5, <2>6, SameIndex
<1> QED BY <1>5, <1>6, <1>7 DEF QueueJob, MarkInProgress
-----------------------------------------------------------------------------
(* The pool. *)

LEMMA WorkerFacts ==
  ASSUME TypeOK, NEW g \in Gens, NEW w \in Workers
  PROVE  /\ working[g][w] \in WorkerState
         /\ working[g][w].state = "working" => working[g][w].job \in Job
BY DEF TypeOK, WorkerState, Idle

\* Worker w of pool g gets a new state.
LEMMA WorkerChanges ==
  ASSUME TypeOK, NEW g \in Gens, NEW w \in Workers, NEW s \in WorkerState,
         working' = [working EXCEPT ![g][w] = s]
  PROVE  /\ working' \in [Gens -> [Workers -> WorkerState]]
         /\ working'[g][w] = s
         /\ \A v \in Workers : v # w => working'[g][v] = working[g][v]
         /\ \A h \in Gens : h # g => working'[h] = working[h]
BY DEF TypeOK

LEMMA StepTakeJob ==
  ASSUME IInv, NEW g \in Gens, NEW w \in Workers, TakeJob(g, w)
  PROVE  IInv'
<1> USE DEF IInv
<1> DEFINE q == jobs[g]
           t == Tail(q)
           s == [state |-> "working", job |-> Head(q)]
<1>1. /\ working[g][w] = Idle /\ q # <<>> /\ q \in Seq(Job)
      /\ working' = [working EXCEPT ![g][w] = s]
      /\ jobs' = [jobs EXCEPT ![g] = t]
      /\ UNCHANGED <<content, changes, dirtied, in_progress, books_text, unindexed, lost, missed, enabled, attached, gen,
                     restarts, wake, dispatcher, results, supervisor>>
  BY DEF TakeJob, TypeOK, library, index, program
<1>2. /\ t \in Seq(Job) /\ Head(q) = q[1] /\ 1 \in DOMAIN q /\ Head(q) \in Job
      /\ \A i \in DOMAIN t : i + 1 \in DOMAIN q /\ t[i] = q[i + 1]
      /\ \A i \in DOMAIN q : i # 1 => i - 1 \in DOMAIN t /\ t[i - 1] = q[i]
  BY <1>1, TailIndices
<1>3. s \in WorkerState /\ s.state = "working" /\ s.job = q[1]
  BY <1>2 DEF WorkerState
<1>4. /\ jobs' \in [Gens -> Seq(Job)] /\ jobs'[g] = t
      /\ \A h \in Gens : h # g => jobs'[h] = jobs[h]
  BY <1>1, <1>2 DEF TypeOK
<1> HIDE DEF t, s, q
<1>5. /\ working' \in [Gens -> [Workers -> WorkerState]] /\ working'[g][w] = s
      /\ \A v \in Workers : v # w => working'[g][v] = working[g][v]
      /\ \A h \in Gens : h # g => working'[h] = working[h]
  BY <1>1, <1>3, WorkerChanges
<1>6. TypeOK'
  BY <1>1, <1>4, <1>5 DEF TypeOK
<1>7. HandsInv'
  <2> SUFFICES ASSUME ~EditsDuringJob, NEW h \in Gens
               PROVE  /\ \A i \in DOMAIN jobs'[h] : content[jobs'[h][i].key] = jobs'[h][i].content
                      /\ \A v \in Workers : working'[h][v].state = "working" =>
                           content[working'[h][v].job.key] = working'[h][v].job.content
    BY <1>1 DEF HandsInv, Sound
  <2>1. CASE h = g
    <3>1. \A i \in DOMAIN q : content[q[i].key] = q[i].content
      BY DEF HandsInv, Sound, q
    <3>2. \A v \in Workers : working[g][v].state = "working" =>
            content[working[g][v].job.key] = working[g][v].job.content
      BY DEF HandsInv, Sound
    <3> QED BY <1>2, <1>3, <1>4, <1>5, <2>1, <3>1, <3>2
  <2>2. CASE h # g
    BY <1>4, <1>5, <2>2 DEF HandsInv, Sound
  <2> QED BY <2>1, <2>2
<1>8. ProgressInv'
  <2>1. ASSUME NEW x, InPool(g, x) PROVE InPool(g, x)'
    <3>1. InPool(g, x)
      BY <2>1
    <3>2. ASSUME NEW i \in DOMAIN q, q[i].key = x PROVE InPool(g, x)'
      <4>1. CASE i = 1
        BY <1>3, <1>5, <3>1, <3>2, <4>1 DEF InPool
      <4>2. CASE i # 1
        <5>1. i - 1 \in DOMAIN jobs'[g] /\ jobs'[g][i - 1].key = x
          BY <1>2, <1>4, <3>1, <3>2, <4>2
        <5> QED BY <5>1 DEF InPool
      <4> QED BY <4>1, <4>2
    <3>3. ASSUME NEW v \in Workers, working[g][v].state = "working", working[g][v].job.key = x
          PROVE  InPool(g, x)'
      <4>1. v # w
        BY <1>1, <3>1, <3>3 DEF Idle
      <4> QED BY <1>5, <3>1, <3>3, <4>1 DEF InPool
    <3>4. ASSUME NEW i \in DOMAIN results[g], results[g][i].key = x PROVE InPool(g, x)'
      BY <1>1, <3>4 DEF InPool
    <3> QED BY <3>1, <3>2, <3>3, <3>4 DEF InPool, q
  <2>2. ASSUME NEW x, NEW h \in Gens, InPool(h, x), h # g PROVE InPool(h, x)'
    BY <1>1, <1>4, <1>5, <2>2 DEF InPool
  <2> QED BY <1>1, <2>1, <2>2 DEF ProgressInv
<1> QED BY <1>1, <1>6, <1>7, <1>8, SameIndex

LEMMA StepFinishJob ==
  ASSUME IInv, NEW g \in Gens, NEW w \in Workers, FinishJob(g, w)
  PROVE  IInv'
<1> USE DEF IInv
<1> DEFINE j == working[g][w].job
           q == results[g]
           n == Len(q) + 1
<1>1. /\ working[g][w].state = "working" /\ j \in Job /\ q \in Seq(Result)
      /\ UNCHANGED <<content, changes, dirtied, in_progress, books_text, unindexed, lost, missed, enabled, attached, gen,
                     restarts, wake, dispatcher, jobs, supervisor>>
  BY WorkerFacts DEF FinishJob, TypeOK, library, index, program
<1>2. PICK ok \in BOOLEAN :
        results' = [results EXCEPT ![g] = Append(q, [key |-> j.key, content |-> j.content, ok |-> ok])]
  <2>1. TRUE \in BOOLEAN /\ (~Faults) \in BOOLEAN
    OBVIOUS
  <2> QED BY <2>1 DEF FinishJob
<1> DEFINE r == [key |-> j.key, content |-> j.content, ok |-> ok]
           p == Append(q, r)
<1>3. r \in Result /\ r.key = j.key /\ r.content = j.content
  BY <1>1 DEF Result, Job
<1>4. /\ p \in Seq(Result) /\ DOMAIN p = DOMAIN q \cup {n} /\ p[n] = r
      /\ \A i \in DOMAIN q : p[i] = q[i]
  BY <1>1, <1>3, AppendIndices
<1>5. /\ results' \in [Gens -> Seq(Result)] /\ results'[g] = p
      /\ \A h \in Gens : h # g => results'[h] = results[h]
  BY <1>2, <1>4 DEF TypeOK
<1> DEFINE s == [working[g][w] EXCEPT !.state = "done"]
<1>6. s \in WorkerState /\ s.state # "working" /\ working' = [working EXCEPT ![g][w] = s]
  <2>1. working[g][w] \in [state : {"working", "done"}, job : Job]
    BY <1>1, WorkerFacts DEF WorkerState, Idle
  <2>2. s \in WorkerState /\ s.state # "working"
    BY <2>1 DEF WorkerState
  <2> QED BY <2>2 DEF FinishJob
<1> HIDE DEF s
<1>7. /\ working' \in [Gens -> [Workers -> WorkerState]] /\ working'[g][w] = s
      /\ \A v \in Workers : v # w => working'[g][v] = working[g][v]
      /\ \A h \in Gens : h # g => working'[h] = working[h]
  BY <1>6, WorkerChanges
<1> HIDE DEF r, p, n, q
<1>8. TypeOK'
  BY <1>1, <1>5, <1>7 DEF TypeOK
<1>9. HandsInv'
  <2> SUFFICES ASSUME ~EditsDuringJob, NEW h \in Gens
               PROVE  /\ \A i \in DOMAIN results'[h] : content[results'[h][i].key] = results'[h][i].content
                      /\ \A v \in Workers : working'[h][v].state = "working" =>
                           content[working'[h][v].job.key] = working'[h][v].job.content
    BY <1>1 DEF HandsInv, Sound
  <2>1. CASE h = g
    <3>1. \A i \in DOMAIN q : content[q[i].key] = q[i].content
      BY DEF HandsInv, Sound, q
    <3>2. \A v \in Workers : working[g][v].state = "working" =>
            content[working[g][v].job.key] = working[g][v].job.content
      BY DEF HandsInv, Sound
    <3>3. content[r.key] = r.content
      BY <1>1, <1>3, <3>2
    <3> QED BY <1>4, <1>5, <1>6, <1>7, <2>1, <3>1, <3>2, <3>3
  <2>2. CASE h # g
    BY <1>5, <1>7, <2>2 DEF HandsInv, Sound
  <2> QED BY <2>1, <2>2
<1>10. ProgressInv'
  <2>1. ASSUME NEW x, InPool(g, x) PROVE InPool(g, x)'
    <3>1. InPool(g, x)
      BY <2>1
    <3>2. ASSUME NEW i \in DOMAIN jobs[g], jobs[g][i].key = x PROVE InPool(g, x)'
      BY <1>1, <3>2 DEF InPool
    <3>3. ASSUME NEW v \in Workers, working[g][v].state = "working", working[g][v].job.key = x
          PROVE  InPool(g, x)'
      <4>1. CASE v = w
        <5>1. n \in DOMAIN results'[g] /\ results'[g][n].key = x
          BY <1>3, <1>4, <1>5, <3>1, <3>3, <4>1
        <5> QED BY <5>1 DEF InPool
      <4>2. CASE v # w
        BY <1>7, <3>1, <3>3, <4>2 DEF InPool
      <4> QED BY <4>1, <4>2
    <3>4. ASSUME NEW i \in DOMAIN results[g], results[g][i].key = x PROVE InPool(g, x)'
      <4>1. i \in DOMAIN results'[g] /\ results'[g][i].key = x
        BY <1>4, <1>5, <3>1, <3>4 DEF q
      <4> QED BY <4>1 DEF InPool
    <3> QED BY <3>1, <3>2, <3>3, <3>4 DEF InPool
  <2>2. ASSUME NEW x, NEW h \in Gens, InPool(h, x), h # g PROVE InPool(h, x)'
    BY <1>1, <1>5, <1>7, <2>2 DEF InPool
  <2> QED BY <1>1, <2>1, <2>2 DEF ProgressInv
<1> QED BY <1>1, <1>8, <1>9, <1>10, SameIndex

LEMMA StepBecomeIdle ==
  ASSUME IInv, NEW g \in Gens, NEW w \in Workers, BecomeIdle(g, w)
  PROVE  IInv'
<1> USE DEF IInv
<1>1. /\ working[g][w].state = "done" /\ working' = [working EXCEPT ![g][w] = Idle]
      /\ UNCHANGED <<content, changes, dirtied, in_progress, books_text, unindexed, lost, missed, enabled, attached, gen,
                     restarts, wake, dispatcher, jobs, results, supervisor>>
  BY DEF BecomeIdle, library, index, program
<1>2. Idle \in WorkerState /\ Idle.state = "idle"
  BY DEF WorkerState, Idle
<1>3. /\ working' \in [Gens -> [Workers -> WorkerState]] /\ working'[g][w] = Idle
      /\ \A v \in Workers : v # w => working'[g][v] = working[g][v]
      /\ \A h \in Gens : h # g => working'[h] = working[h]
  BY <1>1, <1>2, WorkerChanges
<1>4. TypeOK'
  BY <1>1, <1>3 DEF TypeOK
<1>5. \A h \in Gens, v \in Workers :
        /\ working'[h][v].state = "working" => working'[h][v] = working[h][v]
        /\ working[h][v].state = "working" => working'[h][v] = working[h][v]
  BY <1>1, <1>2, <1>3
<1>6. HandsInv'
  BY <1>1, <1>5 DEF HandsInv, Sound
<1>7. ProgressInv'
  BY <1>1, <1>5 DEF ProgressInv, InPool
<1> QED BY <1>1, <1>4, <1>6, <1>7, SameIndex

\* What a commit does to the rows of the index.
LEMMA CommitRows ==
  ASSUME TypeOK, IndexInv, NEW r \in Result, ~EditsDuringJob => Sound(r), CommitResult(r),
         UNCHANGED <<content, enabled, attached>>
  PROVE  /\ books_text' \in [Keys -> Row \cup {None}] /\ unindexed' \in SUBSET Keys
         /\ IndexInv'
<1> DEFINE k == r.key
           c == r.content
           row == [content |-> c, text |-> IF r.ok THEN TextOf[c] ELSE ErrText]
<1>1. /\ k \in Keys /\ c \in Contents /\ r.ok \in BOOLEAN
      /\ dirtied' = dirtied \ {k} /\ (~EditsDuringJob => content[k] = c)
      /\ TextOf[c] \in Texts \cup {EmptyText}
  BY TextsAssumption DEF Result, CommitResult, RemoveDirty, Sound
<1>2. CASE NothingToAdd(r)
  <2>1. UNCHANGED <<books_text, unindexed>>
    BY <1>2 DEF CommitResult
  <2>2. ASSUME ~EditsDuringJob, NoEmptyText, CurrentInv PROVE CurrentInv'
    <3>1. books_text[k] # None /\ books_text[k].text = TextOf[content[k]]
      BY <1>1, <1>2, <2>2 DEF NothingToAdd, NoEmptyText
    <3>2. UpToDate(k)
      BY <3>1 DEF UpToDate
    <3> QED BY <1>1, <2>1, <2>2, <3>2 DEF CurrentInv, Existing, UpToDate
  <2>3. RowsInv' /\ (enabled' => attached') /\ (NoGhosts => NoGhosts')
    BY <2>1 DEF IndexInv, RowsInv, NoGhosts
  <2> QED BY <2>1, <2>2, <2>3 DEF IndexInv, TypeOK, NoEmptyText
<1>3. CASE ~NothingToAdd(r)
  <2>1. books_text' = [books_text EXCEPT ![k] = row] /\ unindexed' = unindexed \ {k}
    BY <1>3 DEF CommitResult
  <2>2. row \in Row /\ row.content = c /\ row.text \in {TextOf[c], ErrText}
    <3>1. r.ok => TextOf[c] \in Texts
      BY <1>1, <1>3 DEF NothingToAdd
    <3> QED BY <1>1, <3>1 DEF Row
  <2>3. row # None
    BY <2>2, TextsAssumption DEF Row
  <2>4. row.text = TextOf[c] \/ row = [content |-> c, text |-> ErrText]
    OBVIOUS
  <2> HIDE DEF row
  <2>5. /\ books_text' \in [Keys -> Row \cup {None}] /\ books_text'[k] = row
        /\ \A x \in Keys : x # k => books_text'[x] = books_text[x]
    BY <1>1, <2>1, <2>2 DEF TypeOK
  <2>6. RowsInv' /\ (enabled' => attached')
    BY <1>1, <2>2, <2>5 DEF IndexInv, RowsInv
  <2>7. ASSUME ~EditsDuringJob, CurrentInv PROVE CurrentInv'
    <3>1. UpToDate(r.key)'
      BY <1>1, <2>3, <2>4, <2>5, <2>7 DEF UpToDate
    <3>2. \A x \in Keys : x # k => (UpToDate(x)' <=> UpToDate(x))
      BY <2>1, <2>5 DEF UpToDate
    <3> QED BY <1>1, <2>7, <3>1, <3>2 DEF CurrentInv, Existing
  <2>8. ASSUME ~EditsDuringJob, NoGhosts PROVE NoGhosts'
    BY <1>1, <2>5, <2>8, TextsAssumption DEF NoGhosts
  <2> QED BY <2>1, <2>5, <2>6, <2>7, <2>8 DEF IndexInv, TypeOK, NoEmptyText
<1> QED BY <1>2, <1>3

LEMMA StepCommit ==
  ASSUME IInv, NEW g \in Gens, Commit(g)
  PROVE  IInv'
<1> USE DEF IInv
<1> DEFINE q == results[g]
           t == Tail(q)
           r == Head(q)
<1>1. /\ q # <<>> /\ q \in Seq(Result) /\ results' = [results EXCEPT ![g] = t]
      /\ supervisor' \in [Gens -> {"get", "check"}]
      /\ UNCHANGED <<content, changes, enabled, attached, gen, restarts, wake, dispatcher, jobs, working>>
      /\ missed' \in BOOLEAN
      /\ \/ CommitResult(r)
         \/ /\ lost' = lost \cup ({r.key} \cap in_progress)
            /\ UNCHANGED <<dirtied, in_progress, books_text, unindexed>>
  BY DEF Commit, Dropped, TypeOK, library, index, program
<1>2. /\ t \in Seq(Result) /\ r = q[1] /\ 1 \in DOMAIN q /\ r \in Result
      /\ \A i \in DOMAIN t : i + 1 \in DOMAIN q /\ t[i] = q[i + 1]
      /\ \A i \in DOMAIN q : i # 1 => i - 1 \in DOMAIN t /\ t[i - 1] = q[i]
  BY <1>1, TailIndices
<1>3. /\ results' \in [Gens -> Seq(Result)] /\ results'[g] = t
      /\ \A h \in Gens : h # g => results'[h] = results[h]
  BY <1>1, <1>2 DEF TypeOK
<1> HIDE DEF r, t, q
<1>4. ~EditsDuringJob => Sound(r)
  BY <1>2 DEF HandsInv, q
<1>5. IndexInv' /\ books_text' \in [Keys -> Row \cup {None}] /\ unindexed' \in SUBSET Keys
  <2>1. CASE CommitResult(r)
    BY <1>1, <1>2, <1>4, <2>1, CommitRows
  <2>2. CASE UNCHANGED <<dirtied, in_progress, books_text, unindexed>>
    BY <1>1, <2>2, SameIndex DEF TypeOK
  <2> QED BY <1>1, <2>1, <2>2
<1>6. \/ dirtied' = dirtied \ {r.key} /\ in_progress' = in_progress \ {r.key} /\ lost' = lost \ {r.key}
      \/ lost' = lost \cup ({r.key} \cap in_progress) /\ UNCHANGED <<dirtied, in_progress>>
  BY <1>1 DEF CommitResult, RemoveDirty
<1>7. TypeOK'
  BY <1>1, <1>3, <1>5, <1>6 DEF TypeOK
<1>8. HandsInv'
  <2> SUFFICES ASSUME ~EditsDuringJob, NEW h \in Gens, NEW i \in DOMAIN results'[h]
               PROVE  content[results'[h][i].key] = results'[h][i].content
    BY <1>1 DEF HandsInv, Sound
  <2>1. CASE h = g
    <3>1. \A m \in DOMAIN q : content[q[m].key] = q[m].content
      BY DEF HandsInv, Sound, q
    <3> QED BY <1>2, <1>3, <2>1, <3>1
  <2>2. CASE h # g
    BY <1>3, <2>2 DEF HandsInv, Sound
  <2> QED BY <2>1, <2>2
<1>9. ProgressInv'
  <2>1. ASSUME NEW x, x # r.key, NEW h \in Gens, InPool(h, x) PROVE InPool(h, x)'
    <3>1. ASSUME h = g, NEW i \in DOMAIN q, q[i].key = x PROVE InPool(h, x)'
      <4>1. i - 1 \in DOMAIN results'[h] /\ results'[h][i - 1].key = x
        BY <1>2, <1>3, <2>1, <3>1
      <4> QED BY <4>1 DEF InPool
    <3> QED BY <1>1, <1>3, <2>1, <3>1 DEF InPool, q
  <2>2. \A x \in in_progress' \ lost' : x # r.key /\ x \in in_progress \ lost
    BY <1>6
  <2> QED BY <1>1, <2>1, <2>2 DEF ProgressInv
<1> QED BY <1>5, <1>7, <1>8, <1>9

LEMMA StepCheckForWork ==
  ASSUME IInv, NEW g \in Gens, CheckForWork(g)
  PROVE  IInv'
<1> USE DEF IInv
<1>1. /\ supervisor' = [supervisor EXCEPT ![g] = "get"]
      /\ UNCHANGED <<content, changes, dirtied, in_progress, books_text, unindexed, lost, enabled, attached, gen,
                     restarts, dispatcher, jobs, working, results>>
  BY DEF CheckForWork, library, index, program
<1>2. wake' \in [Gens -> Nat] /\ missed' \in BOOLEAN
  BY WakeFacts DEF CheckForWork
<1>3. TypeOK'
  BY <1>1, <1>2 DEF TypeOK
<1>4. HandsInv' /\ ProgressInv'
  BY <1>1, SameHands, SameProgress
<1> QED BY <1>1, <1>3, <1>4, SameIndex
-----------------------------------------------------------------------------
(* The invariant holds, and what follows from it. *)

LEMMA Initial == ASSUME Init PROVE IInv
<1>1. TypeOK
  <2>1. /\ jobs \in [Gens -> Seq(Job)] /\ results \in [Gens -> Seq(Result)]
        /\ working \in [Gens -> [Workers -> WorkerState]]
    BY DEF Init, NoJobs, NoWork, WorkerState
  <2>2. dispatcher \in [Gens -> DispatcherState]
    BY RestFacts DEF Init
  <2>3. changes \in 0..MaxChanges /\ restarts \in 0..MaxRestarts /\ gen \in Gens
    BY BoundsAssumption, Generations DEF Init
  <2>4. /\ dirtied \in SUBSET Keys /\ in_progress \in SUBSET dirtied /\ unindexed \in SUBSET Keys
        /\ lost \in SUBSET in_progress /\ missed \in BOOLEAN
        /\ books_text \in [Keys -> Row \cup {None}] /\ wake \in [Gens -> Nat]
        /\ supervisor \in [Gens -> {"get", "check"}]
    BY DEF Init, Existing
  <2> QED BY <2>1, <2>2, <2>3, <2>4 DEF Init, TypeOK
<1>2. IndexInv
  BY DEF Init, IndexInv, RowsInv, CurrentInv, NoGhosts
<1>3. HandsInv
  <2>1. \A g \in Gens : /\ dispatcher[g].pc \in {"wait", "none"} /\ jobs[g] = <<>> /\ results[g] = <<>>
                        /\ \A w \in Workers : working[g][w].state = "idle"
    BY RestFacts DEF Init, NoJobs, NoWork, Idle
  <2> QED BY <2>1 DEF HandsInv
<1>4. ProgressInv
  BY DEF Init, ProgressInv
<1> QED BY <1>1, <1>2, <1>3, <1>4 DEF IInv

LEMMA Step == ASSUME IInv, [Next]_vars PROVE IInv'
<1>1. CASE Users
  BY <1>1, StepAddFormat, StepRemoveFormat, StepReindexBook, StepUnindex, StepDisable, StepEnable,
     StepReindexAll, StepRestart DEF Users
<1>2. ASSUME NEW g \in Gens, Dispatcher(g) PROVE IInv'
  BY <1>2, StepDispatcherWakes, StepNextJob, StepDropJob, StepReadFormat, StepQueueJob DEF Dispatcher
<1>3. ASSUME NEW g \in Gens, Pool(g) PROVE IInv'
  BY <1>3, StepTakeJob, StepFinishJob, StepBecomeIdle, StepCommit, StepCheckForWork DEF Pool
<1>4. CASE UNCHANGED vars
  <2>1. UNCHANGED <<content, dirtied, in_progress, lost, books_text, unindexed, enabled, attached, dispatcher,
                    jobs, working, results>>
    BY <1>4 DEF vars
  <2>2. TypeOK'
    BY <1>4 DEF IInv, TypeOK, vars
  <2> QED BY <2>1, <2>2, SameIndex, SameHands, SameProgress DEF IInv
<1> QED BY <1>1, <1>2, <1>3, <1>4 DEF Next

LEMMA Invariance == Spec => []IInv
<1>1. Init => IInv
  BY Initial
<1>2. IInv /\ [Next]_vars => IInv'
  BY Step
<1> QED BY <1>1, <1>2, PTL DEF Spec

\* Every variable keeps its type, and only dirty formats are in progress.
THEOREM TypeCorrect == Spec => []TypeOK
<1>1. IInv => TypeOK
  BY DEF IInv
<1> QED BY <1>1, Invariance, PTL

\* While indexing is on, a format that does not wait is found by the text its
\* file has now, whatever was changed, re-indexed, switched off and on or lost
\* by a restart or an error; provided that no format changes while a thread has
\* it in hand and that every file has some text.
THEOREM Current ==
  ASSUME ~EditsDuringJob, \A c \in Contents : TextOf[c] # EmptyText
  PROVE  Spec => []IndexCurrent
<1>1. IInv => IndexCurrent
  BY DEF IInv, IndexInv, CurrentInv, NoEmptyText, IndexCurrent
<1> QED BY <1>1, Invariance, PTL

\* The index has rows only of formats that exist, provided that none changes
\* while a thread has it in hand and none is removed unseen.
THEOREM OnlyExisting ==
  ASSUME ~EditsDuringJob, ~RemovalsUnseen
  PROVE  Spec => []NoGhosts
<1>1. IInv => NoGhosts
  BY DEF IInv, IndexInv
<1> QED BY <1>1, Invariance, PTL

\* What a search finds is right, under the two provisos together.
THEOREM RightIndex ==
  ASSUME ~EditsDuringJob, ~RemovalsUnseen, \A c \in Contents : TextOf[c] # EmptyText
  PROVE  Spec => []IndexIsRight
<1>1. IInv => IndexIsRight
  BY DEF IInv, IndexInv, CurrentInv, NoEmptyText, IndexCurrent, IndexIsRight
<1> QED BY <1>1, Invariance, PTL
-----------------------------------------------------------------------------
(* The threads do not all wait while a format is dirty. *)

\* While indexing is on the dispatcher of the pool in use lives, and a format that
\* waits keeps some thread at work, unless a request was lost.
WorkInv == enabled => /\ dispatcher[gen].pc # "none"
                      /\ dirtied \ lost # {} /\ ~missed => \E g \in Gens : AtWork(g)

\* A dispatcher that takes all workers for busy leaves a job that waits, a worker
\* that works, or only workers that have handed in their results.
LEMMA BusyPool ==
  ASSUME TypeOK, NEW q \in Seq(Job), q = <<>>, Cardinality(IdleWorkers(gen)) <= Len(q),
         NEW w \in Workers
  PROVE  working[gen][w].state \in {"working", "done"}
<1>1. gen \in Gens
  BY DEF TypeOK
<1>2. IsFiniteSet(IdleWorkers(gen))
  BY WorkersAssumption, FS_Subset DEF IdleWorkers
<1>3. IdleWorkers(gen) = {}
  BY <1>2, FS_CardinalityType, FS_EmptySet
<1>4. working[gen][w] # Idle /\ working[gen][w] \in WorkerState
  BY <1>1, <1>3, WorkerFacts DEF IdleWorkers
<1> QED BY <1>4 DEF WorkerState

LEMMA InPoolAtWork ==
  ASSUME TypeOK, NEW g \in Gens, NEW k, InPool(g, k)
  PROVE  \/ jobs[g] # <<>> \/ results[g] # <<>>
         \/ \E w \in Workers : working[g][w].state = "working"
<1>1. jobs[g] \in Seq(Job) /\ results[g] \in Seq(Result)
  BY DEF TypeOK
<1> QED BY <1>1 DEF InPool

LEMMA WorkUsers == ASSUME IInv, WorkInv, Users PROVE WorkInv'
<1>1. gen \in Gens /\ wake \in [Gens -> Nat] /\ dispatcher \in [Gens -> DispatcherState] /\ MaxToggles \in Nat
  BY BoundsAssumption DEF IInv, TypeOK
\* A request for the dispatcher in use.
<1>2. ASSUME enabled, wake' = [wake EXCEPT ![gen] = wake[gen] + 1], UNCHANGED <<dispatcher, enabled, gen>>
      PROVE  WorkInv'
  <2>1. wake'[gen] > 0 /\ dispatcher[gen].pc # "none"
    BY <1>1, <1>2 DEF WorkInv
  <2> QED BY <1>1, <1>2, <2>1 DEF WorkInv, AtWork
\* Nothing new waits.
<1>3. ASSUME dirtied' \ lost' \subseteq dirtied \ lost,
             UNCHANGED <<enabled, gen, missed, wake, dispatcher, jobs, working, results, supervisor>>
      PROVE  WorkInv'
  BY <1>3 DEF WorkInv, AtWork
<1>4. ASSUME NEW g \in Gens, gen' = g, wake'[g] > 0, dispatcher'[g].pc # "none" PROVE WorkInv'
  BY <1>4 DEF WorkInv, AtWork
<1>5. ASSUME NEW k \in Keys, NEW c \in Contents, AddFormat(k, c) PROVE WorkInv'
  <2>1. CASE enabled
    BY <1>2, <1>5, <2>1 DEF AddFormat, Wake, program
  <2>2. CASE ~enabled
    BY <1>5, <2>2 DEF AddFormat, WorkInv, program
  <2> QED BY <2>1, <2>2
<1>6. ASSUME NEW k \in Keys, RemoveFormat(k) PROVE WorkInv'
  BY <1>3, <1>6 DEF RemoveFormat, RemoveDirty, pool, program
<1>7. ASSUME NEW k \in Keys, ReindexBook(k) PROVE WorkInv'
  BY <1>2, <1>7 DEF ReindexBook, Wake, program
<1>8. ASSUME NEW k \in Keys, Unindex(k) PROVE WorkInv'
  BY <1>3, <1>8 DEF Unindex, pool, program
<1>9. CASE Disable
  BY <1>9 DEF Disable, WorkInv
<1>10. CASE Enable
  <2>1. gen + 1 \in Gens
    BY <1>1, <1>10 DEF Enable, Gens
  <2>2. gen' = gen + 1 /\ wake'[gen + 1] = 1 /\ dispatcher'[gen + 1].pc = "wait"
    BY <1>1, <1>10, <2>1, RestFacts DEF Enable, StartPool
  <2> QED BY <1>4, <2>1, <2>2
<1>11. CASE ReindexAll
  <2>1. gen' = gen /\ wake'[gen] = 2 /\ dispatcher'[gen].pc = "wait"
    BY <1>1, <1>11, RestFacts DEF ReindexAll
  <2> QED BY <1>1, <1>4, <2>1
<1>12. CASE Restart
  <2>1. CASE enabled
    <3>1. gen' = 1 /\ wake'[1] = 1 /\ dispatcher'[1].pc = "wait"
      BY <1>12, <2>1, Generations, RestFacts DEF Restart
    <3> QED BY <1>4, <3>1, Generations
  <2>2. CASE ~enabled
    BY <1>12, <2>2 DEF Restart, WorkInv
  <2> QED BY <2>1, <2>2
<1> QED BY <1>5, <1>6, <1>7, <1>8, <1>9, <1>10, <1>11, <1>12 DEF Users

LEMMA WorkDispatcher == ASSUME IInv, WorkInv, NEW g \in Gens, Dispatcher(g) PROVE WorkInv'
<1>1. /\ UNCHANGED <<enabled, attached, gen, working, results, supervisor>>
      /\ TypeOK /\ gen \in Gens /\ wake \in [Gens -> Nat] /\ dispatcher \in [Gens -> DispatcherState]
  BY DEF IInv, TypeOK, Dispatcher, DispatcherWakes, NextJob, DropJob, ReadFormat, QueueJob, pool, program
\* The dispatcher goes on.
<1>2. ASSUME NEW d, dispatcher' = [dispatcher EXCEPT ![g] = d], d.pc \notin {"none", "wait"}
      PROVE  WorkInv'
  BY <1>1, <1>2 DEF WorkInv, AtWork
<1>3. CASE DispatcherWakes(g)
  <2>1. CASE Goto(g, "next")
    BY <1>2, <2>1, RestFacts DEF Goto
  <2>2. CASE /\ dispatcher[g].pc = "wait" /\ wake[g] = 0 /\ (g # gen \/ ~enabled)
             /\ Goto(g, "none") /\ UNCHANGED wake
    <3>1. UNCHANGED <<dirtied, lost, missed, jobs>>
      BY <1>3 DEF DispatcherWakes, index, pool
    <3>2. dispatcher'[g].pc = "none" /\ \A h \in Gens : h # g => dispatcher'[h] = dispatcher[h]
      BY <1>1, <2>2, GotoFacts, RestFacts
    <3>3. \A h \in Gens : AtWork(h) => AtWork(h)'
      BY <1>1, <2>2, <3>1, <3>2 DEF AtWork
    <3> QED BY <1>1, <2>2, <3>1, <3>2, <3>3 DEF WorkInv
  <2> QED BY <1>3, <2>1, <2>2 DEF DispatcherWakes
<1>4. CASE NextJob(g)
  <2>1. CASE ~enabled
    BY <1>1, <2>1 DEF WorkInv
  <2>2. CASE enabled /\ dirtied \subseteq in_progress /\ Goto(g, "wait")
    <3>1. dispatcher'[g].pc = "wait" /\ \A h \in Gens : h # g => dispatcher'[h] = dispatcher[h]
      BY <1>1, <2>2, GotoFacts, RestFacts
    <3>2. UNCHANGED <<dirtied, lost, missed, wake, jobs>>
      BY <1>4 DEF NextJob, index, pool
    <3>3. ASSUME NEW k \in dirtied \ lost PROVE \E h \in Gens : AtWork(h)'
      <4>1. attached
        BY <2>2 DEF IInv, IndexInv
      <4>2. PICK h \in Gens : InPool(h, k)
        BY <2>2, <3>3, <4>1 DEF IInv, ProgressInv
      <4> QED BY <1>1, <3>2, <4>2, InPoolAtWork DEF AtWork
    <3> QED BY <1>1, <3>1, <3>2, <3>3 DEF WorkInv
  <2>3. ASSUME NEW k \in dirtied \ in_progress,
               dispatcher' = [dispatcher EXCEPT ![g] =
                 [pc |-> IF content[k] = None \/ k \in Unextractable THEN "drop" ELSE "read",
                  key |-> k, content |-> None]]
        PROVE  WorkInv'
    <3> DEFINE d == [pc |-> IF content[k] = None \/ k \in Unextractable THEN "drop" ELSE "read",
                     key |-> k, content |-> None]
    <3>1. d.pc \notin {"none", "wait"}
      OBVIOUS
    <3>2. dispatcher' = [dispatcher EXCEPT ![g] = d]
      BY <2>3
    <3> HIDE DEF d
    <3> QED BY <1>2, <3>1, <3>2
  <2> QED BY <1>4, <2>1, <2>2, <2>3 DEF NextJob
<1>5. CASE DropJob(g)
  BY <1>2, <1>5, RestFacts DEF DropJob, Goto
<1>6. CASE ReadFormat(g)
  <2> DEFINE c == content[dispatcher[g].key]
  <2>1. dispatcher[g] \in [pc : {"drop", "read"}, key : Keys, content : {None}]
    BY <1>1, <1>6 DEF ReadFormat, DispatcherState, AtRest
  <2>2. [dispatcher[g] EXCEPT !.pc = "queue", !.content = c].pc = "queue"
    BY <2>1, ReadRecord
  <2>3. \/ dispatcher' = [dispatcher EXCEPT ![g] = AtRest("next")]
        \/ dispatcher' = [dispatcher EXCEPT ![g] = [dispatcher[g] EXCEPT !.pc = "queue", !.content = c]]
    BY <1>6 DEF ReadFormat
  <2> HIDE DEF c
  <2> QED BY <1>2, <2>2, <2>3, RestFacts
<1>7. CASE QueueJob(g)
  <2>1. CASE Goto(g, "next")
    BY <1>2, <2>1, RestFacts DEF Goto
  <2>2. CASE enabled /\ NoneIdle /\ Goto(g, "wait") /\ missed' = (missed \/ WaitsForNothing)
    <3>1. \A h \in Gens : dispatcher'[h] = dispatcher[h] \/ dispatcher'[h].pc = "wait"
      BY <1>1, <2>2, GotoFacts, RestFacts
    <3>2. jobs'[gen] \in Seq(Job) /\ UNCHANGED wake
      BY <1>1, <1>7, StepQueueJob DEF IInv, TypeOK, QueueJob
    <3>3. Cardinality(IdleWorkers(gen)) <= Len(jobs'[gen])
      BY <2>2 DEF NoneIdle
    <3>4. dispatcher'[gen].pc # "none"
      BY <1>1, <2>2, <3>1 DEF WorkInv
    <3>5. ASSUME ~missed' PROVE AtWork(gen)'
      <4>1. CASE jobs'[gen] # <<>>
        BY <1>1, <4>1 DEF AtWork
      <4>2. CASE \E w \in Workers : working[gen][w].state = "working"
        BY <1>1, <4>2 DEF AtWork
      <4>3. CASE jobs'[gen] = <<>> /\ \A w \in Workers : working[gen][w].state # "working"
        <5>1. \A w \in Workers : working[gen][w].state = "done"
          BY <1>1, <3>2, <3>3, <4>3, BusyPool
        <5>2. results[gen] # <<>> \/ supervisor[gen] # "get" \/ wake[gen] # 0
          BY <2>2, <3>5, <4>3, <5>1 DEF WaitsForNothing
        <5>3. supervisor[gen] \in {"get", "check"} /\ wake[gen] \in Nat
          BY <1>1 DEF TypeOK
        <5> QED BY <1>1, <3>2, <3>4, <5>2, <5>3 DEF AtWork
      <4> QED BY <4>1, <4>2, <4>3
    <3> QED BY <1>1, <3>4, <3>5 DEF WorkInv
  <2> QED BY <1>7, <2>1, <2>2 DEF QueueJob
<1> QED BY <1>3, <1>4, <1>5, <1>6, <1>7 DEF Dispatcher

LEMMA WorkPool == ASSUME IInv, WorkInv, NEW g \in Gens, Pool(g) PROVE WorkInv'
<1>1. /\ UNCHANGED <<enabled, gen, dispatcher>>
      /\ TypeOK /\ gen \in Gens /\ wake \in [Gens -> Nat]
      /\ working \in [Gens -> [Workers -> WorkerState]]
      /\ results \in [Gens -> Seq(Result)] /\ supervisor \in [Gens -> {"get", "check"}]
  BY DEF IInv, TypeOK, Pool, TakeJob, FinishJob, BecomeIdle, Commit, CheckForWork, program
\* The pool goes on.
<1>2. ASSUME AtWork(g)' PROVE WorkInv'
  BY <1>1, <1>2 DEF WorkInv
<1>3. ASSUME NEW w \in Workers, TakeJob(g, w) PROVE WorkInv'
  <2> DEFINE s == [state |-> "working", job |-> Head(jobs[g])]
  <2>1. working' = [working EXCEPT ![g][w] = s]
    BY <1>3 DEF TakeJob
  <2>2. s.state = "working"
    OBVIOUS
  <2> HIDE DEF s
  <2>3. working'[g][w] = s
    BY <1>1, <2>1
  <2> QED BY <1>2, <2>2, <2>3 DEF AtWork
<1>4. ASSUME NEW w \in Workers, FinishJob(g, w) PROVE WorkInv'
  <2>1. working[g][w].job \in Job
    BY <1>1, <1>4, WorkerFacts DEF FinishJob
  <2>2. PICK ok \in BOOLEAN :
          results' = [results EXCEPT ![g] =
            Append(@, [key |-> working[g][w].job.key, content |-> working[g][w].job.content,
                       ok |-> ok])]
    BY <1>4 DEF FinishJob
  <2> DEFINE r == [key |-> working[g][w].job.key, content |-> working[g][w].job.content, ok |-> ok]
  <2>3. r \in Result
    BY <2>1 DEF Job, Result
  <2>4. results' = [results EXCEPT ![g] = Append(results[g], r)]
    BY <2>2
  <2> HIDE DEF r
  <2>5. results'[g] = Append(results[g], r) /\ results[g] \in Seq(Result)
    BY <1>1, <2>4
  <2>6. DOMAIN Append(results[g], r) # {}
    BY <2>3, <2>5, AppendIndices
  <2>7. results'[g] # <<>>
    BY <2>5, <2>6
  <2> QED BY <1>2, <2>7 DEF AtWork
<1>5. ASSUME NEW w \in Workers, BecomeIdle(g, w) PROVE WorkInv'
  <2>1. /\ working[g][w].state = "done" /\ working' = [working EXCEPT ![g][w] = Idle]
        /\ UNCHANGED <<dirtied, lost, missed, wake, jobs, results, supervisor>>
    BY <1>5 DEF BecomeIdle, index
  <2>2. \A h \in Gens, v \in Workers : working[h][v].state = "working" => working'[h][v] = working[h][v]
    BY <1>1, <2>1
  <2>3. \A h \in Gens : AtWork(h) => AtWork(h)'
    BY <1>1, <2>1, <2>2 DEF AtWork
  <2> QED BY <1>1, <2>1, <2>3 DEF WorkInv
<1>6. CASE Commit(g)
  <2>1. CASE supervisor' = [supervisor EXCEPT ![g] = "check"]
    BY <1>1, <1>2, <2>1 DEF AtWork
  <2>2. CASE missed' = TRUE
    BY <1>1, <2>2 DEF WorkInv
  <2> QED BY <1>6, <2>1, <2>2 DEF Commit, Dropped
<1>7. CASE CheckForWork(g)
  <2>1. CASE ~enabled
    BY <1>1, <2>1 DEF WorkInv
  <2>2. CASE enabled
    <3>1. wake' = [wake EXCEPT ![gen] = wake[gen] + 1]
      BY <1>7, <2>2 DEF CheckForWork, Wake
    <3>2. wake'[gen] > 0 /\ dispatcher[gen].pc # "none"
      BY <1>1, <2>2, <3>1 DEF WorkInv
    <3> QED BY <1>1, <3>2 DEF WorkInv, AtWork
  <2> QED BY <2>1, <2>2
<1> QED BY <1>3, <1>4, <1>5, <1>6, <1>7 DEF Pool

\* While indexing is on, no dirty format is left for the next start, but those
\* whose result was dropped and, until the next request, those that wait when a
\* request was lost; for any number of formats and workers, whatever users change,
\* re-index, switch off and on or restart, and whatever fails.  Every other format
\* in progress is in the hands of a thread, and while one is dirty some thread
\* has something to do that leads to the next format.
THEOREM NothingIsForgotten == Spec => []NothingForgotten
<1>1. Init => WorkInv
  <2> SUFFICES ASSUME Init PROVE WorkInv
    OBVIOUS
  <2>1. gen = 1 /\ dispatcher[1].pc = "wait" /\ wake[1] = 1
    BY Generations, RestFacts DEF Init
  <2> QED BY <2>1, Generations DEF WorkInv, AtWork
<1>2. IInv /\ WorkInv /\ [Next]_vars => WorkInv'
  <2> SUFFICES ASSUME IInv, WorkInv, [Next]_vars PROVE WorkInv'
    OBVIOUS
  <2>1. CASE UNCHANGED vars
    BY <2>1 DEF vars, WorkInv, AtWork
  <2> QED BY <2>1, WorkUsers, WorkDispatcher, WorkPool DEF Next
<1>3. IInv /\ WorkInv => NothingForgotten
  <2> SUFFICES ASSUME IInv, WorkInv, enabled PROVE NothingForgotten
    BY DEF NothingForgotten
  <2>1. ASSUME NEW k \in in_progress \ lost PROVE \E g \in Gens : InHand(g, k)
    <3>1. PICK g \in Gens : InPool(g, k)
      BY <2>1 DEF IInv, IndexInv, ProgressInv
    <3> QED BY <3>1 DEF InPool, InHand
  <2> QED BY <2>1 DEF WorkInv, NothingForgotten
<1> QED BY <1>1, <1>2, <1>3, Invariance, PTL DEF Spec
=============================================================================
