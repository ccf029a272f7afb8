------------------------- MODULE JobsManager_proofs -------------------------
(***************************************************************************)
(* What the steps of the JobsManager keep, whoever composes it: an         *)
(* invariant MInv of its tables, its queue of events and its timing, and   *)
(* one lemma for each of its actions.  RenderQueue_proofs uses them for    *)
(* the specification the manager is part of.                               *)
(***************************************************************************)
EXTENDS JobsManager, FiniteSetTheorems, WellFoundedInduction, SequenceTheorems, TLAPS

-----------------------------------------------------------------------------
(* The invariant. *)

\* The jobs that were given to the manager.
Ids == 1..(job_id - 1)

StartEvent(j) == [type |-> "start", job |-> j]
DoneEvent(j) == [type |-> "done", job |-> j]

\* The tables say what the thread of a job has done.
TablesInv ==
  /\ waiting_job_ids \subseteq Ids
  /\ \A j \in Jobs : thread[j] # "none" => j \in Ids
  /\ \A j \in waiting_job_ids : thread[j] = "none"
  /\ \A j \in jobs : thread[j] # "none"
  /\ \A j \in Jobs : thread[j] \in {"running", "died", "done"} => j \in jobs
  /\ \A j \in finished_jobs : thread[j] = "announced"

\* A job that waits is in one place of one queue, and is announced once.
QueuesInv ==
  /\ IsInjective(events) /\ IsInjective(waiting_jobs)
  /\ Range(waiting_jobs) \subseteq waiting_job_ids
  /\ \A j \in Jobs :
       /\ StartEvent(j) \in Range(events) => j \in waiting_job_ids \ Range(waiting_jobs)
       /\ DoneEvent(j) \in Range(events) => thread[j] = "announced" /\ j \in jobs
  /\ [type |-> "quit", job |-> None] \in Range(events) => shutting_down

\* What the loop has in hand.
LoopInv ==
  /\ loop.pc = "none" => waiting_jobs = <<>> /\ jobs = {}
  /\ loop.pc = "start" => /\ loop.job \in waiting_job_ids \ Range(waiting_jobs)
                         /\ StartEvent(loop.job) \notin Range(events)
  /\ loop.pc = "done" => /\ loop.job \in jobs /\ thread[loop.job] = "announced"
                        /\ DoneEvent(loop.job) \notin Range(events)
  /\ loop.pc = "callback" => loop.job \in Jobs \ jobs /\ thread[loop.job] = "announced"
  /\ loop.pc = "exit" => shutting_down

\* The loop will have something to do before time passes.
Urgent == \/ events # <<>>
          \/ \E j \in Jobs : thread[j] = "done" \/ (thread[j] = "running" /\ abort_event[j] # "no")

Deadline(j) == start_time[j] + max_job_time

\* The loop blocks until the first deadline.
WakesInTime ==
  LET watched == Watched(jobs, abort_event)
  IN  watched # {} => /\ until # None
                      /\ \E j \in watched : until = Deadline(j)
                      /\ \A j \in watched : until <= Deadline(j)

NoneDied == \A j \in Jobs : thread[j] # "died"

TimeInv == NoneDied /\ ~shutting_down =>
             /\ \A j \in Watched(jobs, abort_event) : now <= Deadline(j)
             /\ loop.pc = "get" => Urgent \/ WakesInTime

MInv == /\ ManagerTypeOK /\ TablesInv /\ QueuesInv /\ LoopInv
        /\ JobsAreKnown /\ NoIdleSlot /\ TimeInv
-----------------------------------------------------------------------------
(* Least elements. *)

\* A set of natural numbers that is not empty has a least element, and Min is it.
LEMMA MinOfNaturals ==
  ASSUME NEW S \in SUBSET Nat, S # {}
  PROVE  Min(S) \in S /\ \A x \in S : Min(S) <= x
<1> DEFINE F == {0..x : x \in S}
<1>1. F \subseteq FiniteSubsetsOf(Nat)
  <2>1. ASSUME NEW x \in S PROVE IsFiniteSet(0..x) /\ 0..x \subseteq Nat
    BY FS_Interval
  <2> QED BY <2>1 DEF FiniteSubsetsOf
<1>2. F # {}
  OBVIOUS
<1>3. PICK U \in F : \A V \in F : ~(<<V, U>> \in StrictSubsetOrdering(Nat))
  <2> HIDE DEF F
  <2> QED BY <1>1, <1>2, FS_StrictSubsetOrderingWellFounded, WFMin
<1>4. PICK m \in S : U = 0..m
  OBVIOUS
<1>5. ASSUME NEW x \in S PROVE m <= x
  <2>1. SUFFICES ASSUME x < m PROVE FALSE
    OBVIOUS
  <2>2. 0..x \subseteq 0..m /\ 0..x # 0..m
    <3>1. m \in 0..m /\ m \notin 0..x
      BY <2>1
    <3> QED BY <2>1, <3>1
  <2>3. 0..x \in SUBSET Nat /\ 0..m \in SUBSET Nat
    OBVIOUS
  <2>4. <<0..x, 0..m>> \in StrictSubsetOrdering(Nat)
    BY <2>2, <2>3 DEF StrictSubsetOrdering
  <2>5. 0..x \in F
    OBVIOUS
  <2> HIDE DEF F
  <2> QED BY <1>3, <1>4, <2>4, <2>5
<1> QED BY <1>5 DEF Min

\* The smaller one of two numbers.
LEMMA MinOfTwo ==
  ASSUME NEW a \in Int, NEW b \in Int
  PROVE  Min({a, b}) \in {a, b} /\ Min({a, b}) <= a /\ Min({a, b}) <= b
<1>1. \E m \in {a, b} : \A x \in {a, b} : m <= x
  OBVIOUS
<1> QED BY <1>1 DEF Min
-----------------------------------------------------------------------------
(* Queues. *)

\* What is in a queue after something was appended that was not in it.
LEMMA Appended ==
  ASSUME NEW S, NEW q \in Seq(S), NEW e \in S
  PROVE  /\ Append(q, e) \in Seq(S)
         /\ Range(Append(q, e)) = Range(q) \cup {e}
         /\ IsInjective(q) /\ e \notin Range(q) => IsInjective(Append(q, e))
<1>1. /\ Append(q, e) \in Seq(S)
      /\ Len(Append(q, e)) = Len(q) + 1
      /\ \A i \in 1..Len(q) : Append(q, e)[i] = q[i]
      /\ Append(q, e)[Len(q) + 1] = e
  BY AppendProperties
<1>2. Len(q) \in Nat /\ DOMAIN q = 1..Len(q) /\ DOMAIN Append(q, e) = 1..(Len(q) + 1)
  BY <1>1, LenProperties
<1>3. Range(Append(q, e)) = Range(q) \cup {e}
  <2>1. ASSUME NEW i \in 1..(Len(q) + 1) PROVE i \in 1..Len(q) \/ i = Len(q) + 1
    BY <1>2
  <2>2. \A i \in 1..Len(q) : i \in 1..(Len(q) + 1)
    BY <1>2
  <2>3. Len(q) + 1 \in 1..(Len(q) + 1)
    BY <1>2
  <2> QED BY <1>1, <1>2, <2>1, <2>2, <2>3 DEF Range
<1>4. ASSUME IsInjective(q), e \notin Range(q) PROVE IsInjective(Append(q, e))
  <2>1. \A i \in 1..Len(q) : q[i] # e
    BY <1>2, <1>4 DEF Range
  <2>2. \A i \in 1..(Len(q) + 1) : i \in 1..Len(q) \/ i = Len(q) + 1
    BY <1>2
  <2> QED BY <1>1, <1>2, <1>4, <2>1, <2>2 DEF IsInjective
<1> QED BY <1>1, <1>3, <1>4

\* What is in a queue whose first element was taken.
LEMMA Taken ==
  ASSUME NEW S, NEW q \in Seq(S), q # <<>>
  PROVE  /\ Head(q) \in S /\ Tail(q) \in Seq(S)
         /\ Range(q) = Range(Tail(q)) \cup {Head(q)}
         /\ IsInjective(q) => IsInjective(Tail(q)) /\ Head(q) \notin Range(Tail(q))
<1>1. /\ Head(q) \in S /\ Tail(q) \in Seq(S)
      /\ Len(Tail(q)) = Len(q) - 1
      /\ \A i \in 1..Len(Tail(q)) : Tail(q)[i] = q[i + 1]
  BY HeadTailProperties
<1>2. Len(q) \in Nat \ {0} /\ DOMAIN q = 1..Len(q) /\ DOMAIN Tail(q) = 1..(Len(q) - 1)
  BY <1>1, LenProperties, EmptySeq
<1>3. Head(q) = q[1]
  OBVIOUS
<1>4. /\ \A i \in 1..(Len(q) - 1) : i + 1 \in 1..Len(q) /\ i + 1 # 1
      /\ \A i \in 1..Len(q) : i # 1 => i - 1 \in 1..(Len(q) - 1) /\ (i - 1) + 1 = i
      /\ 1 \in 1..Len(q)
      /\ \A i, k \in 1..(Len(q) - 1) : i + 1 = k + 1 => i = k
  BY <1>2
<1>5. Range(q) = Range(Tail(q)) \cup {Head(q)}
  <2>1. ASSUME NEW x \in Range(q) PROVE x \in Range(Tail(q)) \cup {Head(q)}
    <3>1. PICK i \in 1..Len(q) : x = q[i]
      BY <1>2 DEF Range
    <3>2. CASE i = 1
      BY <3>1, <3>2, <1>3
    <3>3. CASE i # 1
      <4>1. i - 1 \in 1..(Len(q) - 1) /\ Tail(q)[i - 1] = q[i]
        BY <3>3, <1>1, <1>2, <1>4
      <4> QED BY <3>1, <4>1, <1>2 DEF Range
    <3> QED BY <3>2, <3>3
  <2>2. ASSUME NEW x \in Range(Tail(q)) \cup {Head(q)} PROVE x \in Range(q)
    BY <1>1, <1>2, <1>3, <1>4 DEF Range
  <2> QED BY <2>1, <2>2
<1>6. ASSUME IsInjective(q) PROVE IsInjective(Tail(q)) /\ Head(q) \notin Range(Tail(q))
  <2>1. ASSUME NEW i \in 1..(Len(q) - 1), NEW k \in 1..(Len(q) - 1), Tail(q)[i] = Tail(q)[k]
        PROVE  i = k
    BY <2>1, <1>1, <1>2, <1>4, <1>6 DEF IsInjective
  <2>2. ASSUME NEW i \in 1..(Len(q) - 1) PROVE Tail(q)[i] # Head(q)
    BY <1>1, <1>2, <1>3, <1>4, <1>6 DEF IsInjective
  <2> QED BY <1>2, <2>1, <2>2 DEF IsInjective, Range
<1> QED BY <1>1, <1>5, <1>6

\* A queue that is cut in two after n elements.
LEMMA Cut ==
  ASSUME NEW S, NEW q \in Seq(S), NEW n \in 0..Len(q)
  PROVE  LET a == SubSeq(q, 1, n)
             b == SubSeq(q, n + 1, Len(q))
         IN  /\ a \in Seq(S) /\ Len(a) = n
             /\ b \in Seq(S) /\ Len(b) = Len(q) - n
             /\ Range(q) = Range(a) \cup Range(b)
             /\ IsInjective(q) => /\ IsInjective(a) /\ IsInjective(b)
                                 /\ Range(a) \cap Range(b) = {}
<1> DEFINE a == SubSeq(q, 1, n)
           b == SubSeq(q, n + 1, Len(q))
<1>1. Len(q) \in Nat /\ DOMAIN q = 1..Len(q) /\ \A i \in 1..Len(q) : q[i] \in S
  BY LenProperties
<1>2. a \in Seq(S) /\ Len(a) = n /\ \A i \in 1..n : a[i] = q[i]
  <2>1. \A i \in 1..n : q[i] \in S
    BY <1>1
  <2>2. /\ a \in Seq(S) /\ Len(a) = IF 1 <= n THEN n - 1 + 1 ELSE 0
        /\ \A i \in 1..(n - 1 + 1) : a[i] = q[1 + i - 1]
    BY <1>1, <2>1, SubSeqProperties
  <2> HIDE DEF a
  <2> QED BY <2>2, <1>1
<1>3. b \in Seq(S) /\ Len(b) = Len(q) - n /\ \A i \in 1..(Len(q) - n) : b[i] = q[n + i]
  <2>1. \A i \in (n + 1)..Len(q) : q[i] \in S
    BY <1>1
  <2>2. /\ b \in Seq(S) /\ Len(b) = IF n + 1 <= Len(q) THEN Len(q) - (n + 1) + 1 ELSE 0
        /\ \A i \in 1..(Len(q) - (n + 1) + 1) : b[i] = q[(n + 1) + i - 1]
    BY <1>1, <2>1, SubSeqProperties
  <2> HIDE DEF b
  <2>3. /\ (IF n + 1 <= Len(q) THEN Len(q) - (n + 1) + 1 ELSE 0) = Len(q) - n
        /\ Len(q) - (n + 1) + 1 = Len(q) - n
        /\ \A i \in 1..(Len(q) - n) : (n + 1) + i - 1 = n + i
    <3>1. n \in Int /\ Len(q) \in Int /\ n <= Len(q)
      BY <1>1
    <3>2. Len(q) - (n + 1) + 1 = Len(q) - n
      BY <3>1
    <3>3. ~(n + 1 <= Len(q)) => Len(q) - n = 0
      BY <3>1
    <3>4. \A i \in 1..(Len(q) - n) : (n + 1) + i - 1 = n + i
      BY <3>1
    <3> QED BY <3>2, <3>3, <3>4
  <2>4. ASSUME NEW i \in 1..(Len(q) - n) PROVE b[i] = q[n + i]
    <3>1. b[i] = q[(n + 1) + i - 1]
      BY <2>2, <2>3
    <3> QED BY <3>1, <2>3
  <2> QED BY <2>2, <2>3, <2>4
<1>4. DOMAIN a = 1..n /\ DOMAIN b = 1..(Len(q) - n)
  BY <1>2, <1>3, LenProperties
<1> HIDE DEF a, b
<1>5. /\ \A i \in 1..n : i \in 1..Len(q)
      /\ \A i \in 1..(Len(q) - n) : n + i \in 1..Len(q) /\ n + i \notin 1..n
      /\ \A i \in 1..Len(q) : i \in 1..n \/ (i - n \in 1..(Len(q) - n) /\ n + (i - n) = i)
      /\ \A i, k \in 1..(Len(q) - n) : n + i = n + k => i = k
  BY <1>1
<1>6. Range(q) = Range(a) \cup Range(b)
  <2>1. ASSUME NEW x \in Range(q) PROVE x \in Range(a) \cup Range(b)
    <3>1. PICK i \in 1..Len(q) : x = q[i]
      BY <1>1 DEF Range
    <3>2. CASE i \in 1..n
      BY <3>1, <3>2, <1>2, <1>4 DEF Range
    <3>3. CASE i \notin 1..n
      <4>1. i - n \in 1..(Len(q) - n) /\ b[i - n] = q[i]
        BY <3>3, <1>3, <1>5
      <4> QED BY <3>1, <4>1, <1>4 DEF Range
    <3> QED BY <3>2, <3>3
  <2>2. ASSUME NEW x \in Range(a) \cup Range(b) PROVE x \in Range(q)
    <3>1. CASE x \in Range(a)
      <4>1. PICK i \in 1..n : x = a[i]
        BY <3>1, <1>4 DEF Range
      <4> QED BY <4>1, <1>1, <1>2, <1>5 DEF Range
    <3>2. CASE x \in Range(b)
      <4>1. PICK i \in 1..(Len(q) - n) : x = b[i]
        BY <3>2, <1>4 DEF Range
      <4>2. x = q[n + i] /\ n + i \in 1..Len(q)
        BY <4>1, <1>3, <1>5
      <4> QED BY <4>2, <1>1 DEF Range
    <3> QED BY <3>1, <3>2
  <2> QED BY <2>1, <2>2
<1>7. ASSUME IsInjective(q)
      PROVE  IsInjective(a) /\ IsInjective(b) /\ Range(a) \cap Range(b) = {}
  <2>1. IsInjective(a)
    BY <1>1, <1>2, <1>4, <1>5, <1>7 DEF IsInjective
  <2>2. IsInjective(b)
    <3>1. ASSUME NEW i \in 1..(Len(q) - n), NEW k \in 1..(Len(q) - n), b[i] = b[k]
          PROVE  i = k
      <4>1. q[n + i] = q[n + k] /\ n + i \in 1..Len(q) /\ n + k \in 1..Len(q)
        BY <3>1, <1>3, <1>5
      <4>2. n + i = n + k
        BY <4>1, <1>1, <1>7 DEF IsInjective
      <4> QED BY <4>2, <1>1
    <3> QED BY <3>1, <1>4 DEF IsInjective
  <2>3. ASSUME NEW i \in 1..n, NEW k \in 1..(Len(q) - n) PROVE a[i] # b[k]
    <3>1. a[i] = q[i] /\ b[k] = q[n + k] /\ i \in 1..Len(q) /\ n + k \in 1..Len(q) /\ n + k # i
      BY <1>2, <1>3, <1>5
    <3> QED BY <3>1, <1>1, <1>7 DEF IsInjective
  <2> QED BY <2>1, <2>2, <2>3, <1>4 DEF Range
<1> QED BY <1>2, <1>3, <1>6, <1>7 DEF a, b

\* A queue without repetitions has as many members as it is long.
LEMMA RangeCardinality ==
  ASSUME NEW S, NEW q \in Seq(S), IsInjective(q)
  PROVE  IsFiniteSet(Range(q)) /\ Cardinality(Range(q)) = Len(q)
<1>1. Len(q) \in Nat /\ DOMAIN q = 1..Len(q) /\ q \in [1..Len(q) -> S]
  BY LenProperties
<1>2. IsFiniteSet(1..Len(q)) /\ Cardinality(1..Len(q)) = Len(q)
  BY <1>1, FS_Interval
<1>3. q \in Bijection(1..Len(q), Range(q))
  <2>1. q \in [1..Len(q) -> Range(q)]
    BY <1>1 DEF Range
  <2>2. \A x \in Range(q) : \E i \in 1..Len(q) : q[i] = x
    BY <1>1 DEF Range
  <2> QED BY <2>1, <2>2, <1>1 DEF Bijection, Injection, Surjection, IsInjective
<1>4. ExistsBijection(1..Len(q), Range(q))
  BY <1>3 DEF ExistsBijection
<1> QED BY <1>2, <1>4, FS_Bijection
-----------------------------------------------------------------------------
(* The calls of other threads. *)

\* Ids are given out in order.
LEMMA IdsAreJobs ==
  ASSUME ManagerTypeOK
  PROVE  Ids \subseteq Jobs
<1>1. job_id \in 1..(NumJobs + 1) /\ NumJobs \in Nat
  BY ManagerAssumption DEF ManagerTypeOK
<1>2. ASSUME NEW i \in 1..(job_id - 1) PROVE i \in 1..NumJobs
  BY <1>1
<1> QED BY <1>2 DEF Ids, Jobs

\* Steps of other components.
LEMMA StepStutter ==
  ASSUME MInv, UNCHANGED mvars
  PROVE  MInv'
<1>1. ManagerTypeOK' /\ TablesInv' /\ QueuesInv' /\ LoopInv'
  BY DEF MInv, mvars, ManagerTypeOK, TablesInv, QueuesInv, LoopInv, Ids
<1>2. JobsAreKnown' /\ NoIdleSlot'
  BY DEF MInv, mvars, JobsAreKnown, NoIdleSlot, Ended, Prunable
<1>3. TimeInv'
  BY DEF MInv, mvars, TimeInv, NoneDied, Watched, Ended, Deadline, Urgent, WakesInTime
<1> QED BY <1>1, <1>2, <1>3 DEF MInv

\* abort_job makes a running job urgent and leaves those alone that have ended.
LEMMA StepAbortJob ==
  ASSUME MInv, NEW j \in Jobs, AbortJob(j), now' = now
  PROVE  MInv'
<1> USE DEF MInv
<1>1. /\ abort_event' = [i \in Jobs |-> IF i \in {j} /\ abort_event[i] = "no" THEN "user"
                                                                        ELSE abort_event[i]]
      /\ j \in jobs /\ abort_event[j] = "no"
      /\ UNCHANGED <<now, job_id, events, waiting_job_ids, waiting_jobs, jobs, finished_jobs,
                     thread, failed, start_time, end_time, max_block, until, loop, shutting_down>>
  BY DEF AbortJob, SetAbort, timing
<1>2. abort_event \in [Jobs -> {"no", "user", "limit", "shutdown"}]
      /\ jobs \subseteq Jobs /\ thread \in [Jobs -> ThreadState]
  BY DEF ManagerTypeOK
<1>3. abort_event'[j] = "user" /\ \A i \in Jobs : i # j => abort_event'[i] = abort_event[i]
  BY <1>1, <1>2
<1>4. ManagerTypeOK' /\ TablesInv' /\ QueuesInv' /\ LoopInv'
  BY <1>1, <1>2 DEF ManagerTypeOK, TablesInv, QueuesInv, LoopInv, Ids
<1>5. JobsAreKnown' /\ NoIdleSlot'
  BY <1>1 DEF JobsAreKnown, NoIdleSlot, Ended, Prunable
<1>6. TimeInv'
  <2>1. Watched(jobs, abort_event)' = Watched(jobs, abort_event) \ {j}
    BY <1>1, <1>2, <1>3 DEF Watched, Ended
  <2>2. CASE thread[j] = "running"
    <3>1. Urgent'
      BY <2>2, <1>1, <1>3 DEF Urgent
    <3> QED BY <3>1, <2>1, <1>1 DEF TimeInv, NoneDied, Deadline
  <2>3. CASE thread[j] # "running"
    <3>1. NoneDied => j \notin Watched(jobs, abort_event)
      BY <2>3, <1>1, <1>2 DEF NoneDied, Watched, Ended, ThreadState, TablesInv
    <3>2. NoneDied => Watched(jobs, abort_event)' = Watched(jobs, abort_event)
      BY <3>1, <2>1
    <3>3. Urgent => Urgent'
      BY <1>1, <1>3, <2>3 DEF Urgent
    <3> QED BY <3>2, <3>3, <1>1 DEF TimeInv, NoneDied, Deadline, WakesInTime
  <2> QED BY <2>2, <2>3
<1> QED BY <1>4, <1>5, <1>6

\* After shutdown nothing is promised about time.
LEMMA StepShutdown ==
  ASSUME MInv, Shutdown, now' = now
  PROVE  MInv'
<1> USE DEF MInv
<1> DEFINE quit == [type |-> "quit", job |-> None]
<1>1. /\ abort_event' = [i \in Jobs |-> IF i \in jobs /\ abort_event[i] = "no" THEN "shutdown"
                                                                          ELSE abort_event[i]]
      /\ ~shutting_down /\ shutting_down'
      /\ events' = Append(events, quit)
      /\ UNCHANGED <<now, job_id, waiting_job_ids, waiting_jobs, jobs, finished_jobs,
                     thread, failed, start_time, end_time, max_block, until, loop>>
  BY DEF Shutdown, SetAbort, timing, ManagerTypeOK
<1>2. abort_event \in [Jobs -> {"no", "user", "limit", "shutdown"}] /\ events \in Seq(Event)
      /\ quit \in Event
  BY DEF ManagerTypeOK, Event
<1>3. quit \notin Range(events)
  BY <1>1 DEF QueuesInv
<1>4. /\ events' \in Seq(Event) /\ IsInjective(events')
      /\ Range(events') = Range(events) \cup {quit}
  BY <1>1, <1>2, <1>3, Appended DEF QueuesInv
<1>5. \A j : StartEvent(j) # quit /\ DoneEvent(j) # quit
  BY DEF StartEvent, DoneEvent
<1>6. ManagerTypeOK'
  BY <1>1, <1>2, <1>4 DEF ManagerTypeOK
<1> HIDE DEF quit
<1>7. TablesInv' /\ JobsAreKnown' /\ NoIdleSlot'
  BY <1>1 DEF TablesInv, Ids, JobsAreKnown, NoIdleSlot, Ended, Prunable
<1>8. QueuesInv'
  BY <1>1, <1>4, <1>5 DEF QueuesInv, StartEvent, DoneEvent
<1>9. LoopInv'
  BY <1>1, <1>4, <1>5 DEF LoopInv
<1>10. TimeInv'
  BY <1>1 DEF TimeInv
<1> QED BY <1>6, <1>7, <1>8, <1>9, <1>10
\* start_job: a new id, an event for it and an entry in waiting_job_ids.
LEMMA StepStartJob ==
  ASSUME MInv, StartJob
  PROVE  MInv'
<1> USE DEF MInv
<1>0. CASE UNCHANGED mvars
  BY <1>0, StepStutter
<1>a. CASE ~UNCHANGED mvars
  <2> DEFINE start == [type |-> "start", job |-> job_id]
  <2>1. /\ job_id \in Jobs /\ ~shutting_down /\ job_id' = job_id + 1
        /\ loop' = IF loop.pc = "none" THEN [loop EXCEPT !.pc = "get"] ELSE loop
        /\ events' = Append(events, start)
        /\ waiting_job_ids' = waiting_job_ids \cup {job_id}
        /\ UNCHANGED <<now, waiting_jobs, jobs, finished_jobs, thread, failed, abort_event,
                       start_time, end_time, max_block, until, shutting_down>>
    BY <1>a DEF StartJob, AddJob, results, timing
  <2>2. /\ events \in Seq(Event) /\ start \in Event /\ job_id \in Nat
        /\ waiting_job_ids \subseteq Jobs /\ thread \in [Jobs -> ThreadState]
        /\ loop \in [pc : {"none", "get", "start", "done", "callback", "finish", "exit"},
                      job : Jobs \cup {None}]
    BY <2>1 DEF ManagerTypeOK, Event, Jobs
  <2>3. Ids' = Ids \cup {job_id} /\ job_id \notin Ids
    <3>1. job_id \in Nat /\ job_id >= 1 /\ job_id' = job_id + 1
      BY <2>1 DEF Jobs
    <3>2. 1..((job_id + 1) - 1) = 1..(job_id - 1) \cup {job_id}
      BY <3>1
    <3> QED BY <3>1, <3>2 DEF Ids
  <2>4. job_id \notin waiting_job_ids /\ thread[job_id] = "none" /\ job_id \notin jobs
    BY <2>1, <2>3 DEF TablesInv
  <2>5. start \notin Range(events)
    BY <2>1, <2>4 DEF QueuesInv, StartEvent
  <2>6. /\ events' \in Seq(Event) /\ IsInjective(events') /\ events' # <<>>
        /\ Range(events') = Range(events) \cup {start}
    BY <2>1, <2>2, <2>5, Appended, AppendProperties DEF QueuesInv
  <2>7. /\ \A j : DoneEvent(j) # start /\ (StartEvent(j) = start => j = job_id)
        /\ [type |-> "quit", job |-> None] # start
    BY DEF StartEvent, DoneEvent
  <2>8. /\ loop'.pc = (IF loop.pc = "none" THEN "get" ELSE loop.pc)
        /\ loop' \in [pc : {"none", "get", "start", "done", "callback", "finish", "exit"},
                       job : Jobs \cup {None}]
        /\ loop.pc # "none" => loop' = loop
    BY <2>1, <2>2
  <2> HIDE DEF start
  <2>9. ManagerTypeOK'
    <3>1. job_id' \in 1..(NumJobs + 1)
      BY <2>1, ManagerAssumption DEF Jobs
    <3> QED BY <3>1, <2>1, <2>2, <2>6, <2>8 DEF ManagerTypeOK
  <2>10. TablesInv'
    BY <2>1, <2>3, <2>4 DEF TablesInv
  <2>11. QueuesInv'
    BY <2>1, <2>4, <2>6, <2>7 DEF QueuesInv, StartEvent, DoneEvent
  <2>12. LoopInv'
    <3>1. loop.pc = "start" => loop.job # job_id
      BY <2>4 DEF LoopInv
    <3> QED BY <2>1, <2>6, <2>7, <2>8, <3>1 DEF LoopInv
  <2>13. JobsAreKnown'
    BY <2>1, <2>3 DEF JobsAreKnown, Ids, Ended, Prunable
  <2>14. NoIdleSlot'
    BY <2>1, <2>8 DEF NoIdleSlot, LoopInv
  <2>15. TimeInv'
    <3>1. Urgent'
      BY <2>6 DEF Urgent
    <3> QED BY <3>1, <2>1 DEF TimeInv, NoneDied, Watched, Ended, Deadline
  <2> QED BY <2>9, <2>10, <2>11, <2>12, <2>13, <2>14, <2>15
<1> QED BY <1>0, <1>a
-----------------------------------------------------------------------------
(* The threads of jobs. *)

\* A thread that has its result is about to report.
LEMMA StepJobEnds ==
  ASSUME MInv, NEW j \in Jobs, JobEnds(j)
  PROVE  MInv'
<1> USE DEF MInv
<1>1. /\ thread[j] = "running" /\ thread' = [thread EXCEPT ![j] = "done"]
      /\ failed' \in [Jobs -> BOOLEAN] /\ end_time' = [end_time EXCEPT ![j] = now]
      /\ UNCHANGED <<now, start_time, job_id, events, waiting_job_ids, waiting_jobs, jobs,
                     finished_jobs, abort_event, max_block, until, loop, shutting_down>>
  BY DEF JobEnds, ManagerTypeOK
<1>2. /\ thread \in [Jobs -> ThreadState] /\ jobs \subseteq Jobs /\ finished_jobs \subseteq Jobs
      /\ waiting_job_ids \subseteq Jobs /\ now \in Times /\ end_time \in [Jobs -> Times]
      /\ Ids \subseteq Jobs
  BY IdsAreJobs DEF ManagerTypeOK
<1>3. thread'[j] = "done" /\ \A i \in Jobs : i # j => thread'[i] = thread[i] /\ end_time'[i] = end_time[i]
  BY <1>1, <1>2
<1>4. j \in jobs /\ j \in Ids /\ j \notin waiting_job_ids /\ j \notin finished_jobs
  BY <1>1 DEF TablesInv
<1>5. ManagerTypeOK'
  BY <1>1, <1>2 DEF ManagerTypeOK, ThreadState
<1>6. TablesInv'
  BY <1>1, <1>2, <1>3, <1>4 DEF TablesInv, Ids
<1>7. QueuesInv' /\ LoopInv'
  BY <1>1, <1>3 DEF QueuesInv, LoopInv, StartEvent, DoneEvent, ManagerTypeOK
<1>8. NoIdleSlot'
  BY <1>1 DEF NoIdleSlot
<1>9. JobsAreKnown'
  <2>1. \A i \in Ids : i # j => (Ended(i) /\ Prunable(i) => (Ended(i) /\ Prunable(i))')
    BY <1>1, <1>2, <1>3 DEF Ended, Prunable
  <2> QED BY <2>1, <1>1, <1>4 DEF JobsAreKnown, Ids
<1>10. TimeInv'
  <2>1. Urgent'
    BY <1>3 DEF Urgent
  <2>2. Watched(jobs, abort_event)' \subseteq Watched(jobs, abort_event)
    BY <1>1, <1>2, <1>3 DEF Watched, Ended
  <2>3. NoneDied' => NoneDied
    BY <1>1, <1>3 DEF NoneDied
  <2> QED BY <2>1, <2>2, <2>3, <1>1 DEF TimeInv, Deadline
<1> QED BY <1>5, <1>6, <1>7, <1>8, <1>9, <1>10

\* A thread that dies leaves its job in the table; it will not report.
LEMMA StepJobDies ==
  ASSUME MInv, NEW j \in Jobs, JobDies(j)
  PROVE  MInv'
<1> USE DEF MInv
<1>1. /\ thread[j] = "running" /\ thread' = [thread EXCEPT ![j] = "died"]
      /\ UNCHANGED <<now, start_time, end_time, job_id, events, waiting_job_ids, waiting_jobs, jobs,
                     finished_jobs, failed, abort_event, max_block, until, loop, shutting_down>>
  BY DEF JobDies, timing
<1>2. /\ thread \in [Jobs -> ThreadState] /\ jobs \subseteq Jobs /\ finished_jobs \subseteq Jobs
      /\ waiting_job_ids \subseteq Jobs /\ Ids \subseteq Jobs
  BY IdsAreJobs DEF ManagerTypeOK
<1>3. thread'[j] = "died" /\ \A i \in Jobs : i # j => thread'[i] = thread[i]
  BY <1>1, <1>2
<1>4. j \in jobs /\ j \in Ids /\ j \notin waiting_job_ids /\ j \notin finished_jobs
  BY <1>1 DEF TablesInv
<1>5. ManagerTypeOK'
  BY <1>1, <1>2 DEF ManagerTypeOK, ThreadState
<1>6. TablesInv'
  BY <1>1, <1>2, <1>3, <1>4 DEF TablesInv, Ids
<1>7. QueuesInv' /\ LoopInv'
  BY <1>1, <1>3 DEF QueuesInv, LoopInv, StartEvent, DoneEvent, ManagerTypeOK
<1>8. NoIdleSlot'
  BY <1>1 DEF NoIdleSlot
<1>9. JobsAreKnown'
  <2>1. \A i \in Ids : i # j => (Ended(i) /\ Prunable(i) => (Ended(i) /\ Prunable(i))')
    BY <1>1, <1>2, <1>3 DEF Ended, Prunable
  <2> QED BY <2>1, <1>1, <1>4 DEF JobsAreKnown, Ids
<1>10. TimeInv'
  BY <1>3 DEF TimeInv, NoneDied
<1> QED BY <1>5, <1>6, <1>7, <1>8, <1>9, <1>10

\* A thread reports once, for a job that is in the table.
LEMMA StepJobAnnounces ==
  ASSUME MInv, NEW j \in Jobs, JobAnnounces(j)
  PROVE  MInv'
<1> USE DEF MInv
<1> DEFINE done == [type |-> "done", job |-> j]
<1>1. /\ thread[j] = "done" /\ thread' = [thread EXCEPT ![j] = "announced"]
      /\ events' = Append(events, done)
      /\ UNCHANGED <<now, start_time, end_time, job_id, waiting_job_ids, waiting_jobs, jobs,
                     finished_jobs, failed, abort_event, max_block, until, loop, shutting_down>>
  BY DEF JobAnnounces, Reports, timing
<1>2. /\ thread \in [Jobs -> ThreadState] /\ jobs \subseteq Jobs /\ finished_jobs \subseteq Jobs
      /\ waiting_job_ids \subseteq Jobs /\ Ids \subseteq Jobs
      /\ events \in Seq(Event) /\ done \in Event
  BY IdsAreJobs DEF ManagerTypeOK, Event
<1>3. thread'[j] = "announced" /\ \A i \in Jobs : i # j => thread'[i] = thread[i]
  BY <1>1, <1>2
<1>4. /\ j \in jobs /\ j \in Ids /\ j \notin waiting_job_ids /\ j \notin finished_jobs
      /\ done \notin Range(events)
  BY <1>1 DEF TablesInv, QueuesInv, DoneEvent
<1>5. /\ events' \in Seq(Event) /\ IsInjective(events') /\ events' # <<>>
      /\ Range(events') = Range(events) \cup {done}
  BY <1>1, <1>2, <1>4, Appended, AppendProperties DEF QueuesInv
<1>6. /\ \A i : StartEvent(i) # done /\ (DoneEvent(i) = done => i = j)
      /\ [type |-> "quit", job |-> None] # done
  BY DEF StartEvent, DoneEvent
<1> HIDE DEF done
<1>7. ManagerTypeOK'
  BY <1>1, <1>2, <1>5 DEF ManagerTypeOK, ThreadState
<1>8. TablesInv'
  BY <1>1, <1>2, <1>3, <1>4 DEF TablesInv, Ids
<1>9. QueuesInv'
  <2>1. \A i \in Jobs : thread[i] = "announced" => thread'[i] = "announced"
    BY <1>1, <1>3
  <2> QED BY <2>1, <1>1, <1>3, <1>4, <1>5, <1>6 DEF QueuesInv, StartEvent, DoneEvent
<1>10. LoopInv'
  <2>1. \A i \in Jobs : thread[i] = "announced" => thread'[i] = "announced" /\ i # j
    BY <1>1, <1>3
  <2> QED BY <2>1, <1>1, <1>2, <1>5, <1>6 DEF LoopInv
<1>11. NoIdleSlot' /\ JobsAreKnown'
  BY <1>1, <1>2, <1>3 DEF NoIdleSlot, JobsAreKnown, Ids, Ended, Prunable
<1>12. TimeInv'
  <2>1. Urgent'
    BY <1>5 DEF Urgent
  <2>2. Watched(jobs, abort_event)' = Watched(jobs, abort_event)
    BY <1>1, <1>2, <1>3 DEF Watched, Ended
  <2>3. NoneDied' => NoneDied
    BY <1>1, <1>3 DEF NoneDied
  <2> QED BY <2>1, <2>2, <2>3, <1>1 DEF TimeInv, Deadline
<1> QED BY <1>7, <1>8, <1>9, <1>10, <1>11, <1>12
-----------------------------------------------------------------------------
(* The event loop. *)

\* GetEvent takes the next event in hand, or ends the loop.
LEMMA StepGetEvent ==
  ASSUME MInv, GetEvent
  PROVE  MInv'
<1> USE DEF MInv
<1> DEFINE e == Head(events)
<1>1. /\ loop.pc = "get" /\ events # <<>> /\ events' = Tail(events)
      /\ IF shutting_down THEN loop' = [pc |-> "exit", job |-> None]
                          ELSE loop' = [pc |-> e.type, job |-> e.job]
      /\ UNCHANGED <<now, start_time, end_time, job_id, waiting_job_ids, waiting_jobs, jobs,
                     finished_jobs, thread, failed, abort_event, max_block, until, shutting_down>>
  BY DEF GetEvent, Goto, timing, results
<1>2. events \in Seq(Event)
  BY DEF ManagerTypeOK
<1>3. /\ e \in Event /\ events' \in Seq(Event) /\ IsInjective(events')
      /\ Range(events) = Range(events') \cup {e} /\ e \notin Range(events')
  BY <1>1, <1>2, Taken DEF QueuesInv
<1> HIDE DEF e
<1>4. CASE shutting_down
  <2>1. loop' = [pc |-> "exit", job |-> None]
    BY <1>1, <1>4
  <2>2. ManagerTypeOK'
    BY <1>1, <1>3, <2>1 DEF ManagerTypeOK
  <2>3. TablesInv' /\ QueuesInv' /\ LoopInv'
    BY <1>1, <1>3, <1>4, <2>1 DEF TablesInv, QueuesInv, LoopInv, Ids, StartEvent, DoneEvent
  <2>4. JobsAreKnown' /\ NoIdleSlot' /\ TimeInv'
    BY <1>1, <1>4, <2>1 DEF JobsAreKnown, NoIdleSlot, Ended, Prunable, TimeInv
  <2> QED BY <2>2, <2>3, <2>4
<1>5. CASE ~shutting_down
  <2>1. loop' = [pc |-> e.type, job |-> e.job]
    BY <1>1, <1>5
  <2>2. e # [type |-> "quit", job |-> None]
    BY <1>3, <1>5 DEF QueuesInv
  <2>3. PICK t \in {"start", "done"}, j \in Jobs : e = [type |-> t, job |-> j]
    BY <1>3, <2>2 DEF Event
  <2>4. loop' = [pc |-> t, job |-> j]
    BY <2>1, <2>3
  <2>5. /\ t = "start" => e = StartEvent(j)
        /\ t = "done" => e = DoneEvent(j)
    BY <2>3 DEF StartEvent, DoneEvent
  <2>6. ManagerTypeOK'
    BY <1>1, <1>3, <2>4 DEF ManagerTypeOK
  <2>7. TablesInv' /\ QueuesInv'
    BY <1>1, <1>3 DEF TablesInv, QueuesInv, Ids, StartEvent, DoneEvent
  <2>8. LoopInv'
    <3>1. CASE t = "start"
      BY <3>1, <1>1, <1>3, <2>4, <2>5 DEF LoopInv, QueuesInv
    <3>2. CASE t = "done"
      BY <3>2, <1>1, <1>3, <2>4, <2>5 DEF LoopInv, QueuesInv
    <3> QED BY <3>1, <3>2
  <2>9. JobsAreKnown' /\ NoIdleSlot'
    BY <1>1, <2>4 DEF JobsAreKnown, NoIdleSlot, Ended, Prunable
  <2>10. TimeInv'
    BY <1>1, <2>4 DEF TimeInv, NoneDied, Watched, Ended, Deadline
  <2> QED BY <2>6, <2>7, <2>8, <2>9, <2>10
<1> QED BY <1>4, <1>5

\* job_finished moves a job that was announced to finished_jobs.
LEMMA StepHandleDone ==
  ASSUME MInv, HandleDone
  PROVE  MInv'
<1> USE DEF MInv
<1> DEFINE j == loop.job
<1>1. /\ loop.pc = "done" /\ jobs' = jobs \ {j} /\ finished_jobs' = finished_jobs \cup {j}
      /\ loop' = [pc |-> "callback", job |-> j]
      /\ UNCHANGED <<now, start_time, end_time, job_id, events, waiting_job_ids, waiting_jobs,
                     thread, failed, abort_event, max_block, until, shutting_down>>
  BY DEF HandleDone, Goto, timing, results
<1>2. /\ j \in jobs /\ j \in Jobs /\ jobs \subseteq Jobs /\ thread[j] = "announced"
      /\ DoneEvent(j) \notin Range(events)
  BY <1>1 DEF ManagerTypeOK, LoopInv
<1>3. Cardinality(jobs') <= max_jobs
  <2>1. IsFiniteSet(Jobs)
    BY ManagerAssumption, FS_Interval DEF Jobs
  <2>2. IsFiniteSet(jobs)
    BY <2>1, <1>2, FS_Subset
  <2>3. Cardinality(jobs') = Cardinality(jobs) - 1 /\ Cardinality(jobs) \in Nat
    BY <1>1, <1>2, <2>2, FS_RemoveElement, FS_CardinalityType
  <2> QED BY <2>3, ManagerAssumption DEF ManagerTypeOK
<1> HIDE DEF j
<1>4. ManagerTypeOK'
  BY <1>1, <1>2, <1>3 DEF ManagerTypeOK
<1>5. TablesInv'
  BY <1>1, <1>2 DEF TablesInv, Ids
<1>6. QueuesInv'
  BY <1>1, <1>2 DEF QueuesInv, StartEvent, DoneEvent
<1>7. LoopInv'
  BY <1>1, <1>2 DEF LoopInv
<1>8. JobsAreKnown' /\ NoIdleSlot'
  BY <1>1 DEF JobsAreKnown, NoIdleSlot, Ended, Prunable
<1>9. TimeInv'
  BY <1>1 DEF TimeInv, NoneDied, Watched, Ended, Deadline
<1> QED BY <1>4, <1>5, <1>6, <1>7, <1>8, <1>9

\* The callback touches none of the tables of the manager.
LEMMA StepCallback ==
  ASSUME MInv, Callback
  PROVE  MInv'
<1> USE DEF MInv
<1>1. /\ loop.pc = "callback" /\ loop' = [pc |-> "finish", job |-> loop.job]
      /\ UNCHANGED <<now, start_time, end_time, job_id, events, waiting_job_ids, waiting_jobs, jobs,
                     finished_jobs, thread, failed, abort_event, max_block, until, shutting_down>>
  BY DEF Callback, Goto, timing, results
<1>2. loop' \in [pc : {"none", "get", "start", "done", "callback", "finish", "exit"},
                job : Jobs \cup {None}]
  BY <1>1 DEF ManagerTypeOK
<1>3. ManagerTypeOK'
  BY <1>1, <1>2 DEF ManagerTypeOK
<1>4. TablesInv' /\ QueuesInv' /\ LoopInv'
  BY <1>1 DEF TablesInv, QueuesInv, LoopInv, Ids, StartEvent, DoneEvent
<1>5. JobsAreKnown' /\ NoIdleSlot' /\ TimeInv'
  BY <1>1 DEF JobsAreKnown, NoIdleSlot, Ended, Prunable, TimeInv, NoneDied, Watched, Deadline
<1> QED BY <1>3, <1>4, <1>5

\* Time passes only while the loop blocks and nothing is urgent: no deadline is
\* missed, because the loop wakes at the first one.
LEMMA StepTick ==
  ASSUME MInv, Tick
  PROVE  MInv'
<1> USE DEF MInv
<1>1. /\ now < MaxTime /\ now' = now + 1 /\ LoopIsQuiet
      /\ \A j \in Jobs : thread[j] # "done" /\ ~(thread[j] = "running" /\ abort_event[j] # "no")
      /\ UNCHANGED <<start_time, end_time, job_id, events, waiting_job_ids, waiting_jobs, jobs,
                     finished_jobs, thread, failed, abort_event, max_block, until, loop,
                     shutting_down>>
  BY DEF Tick, results
<1>2. /\ now \in 0..MaxTime /\ MaxTime \in Nat /\ max_job_time \in Nat /\ KeepTime \in Nat
      /\ start_time \in [Jobs -> Times] /\ end_time \in [Jobs -> Times] /\ jobs \subseteq Jobs
      /\ until \in Nat \cup {None} /\ Ids \subseteq Jobs
  BY ManagerAssumption, IdsAreJobs DEF ManagerTypeOK, Times
<1>3. ManagerTypeOK'
  <2>1. now' \in Times
    BY <1>1, <1>2 DEF Times
  <2> QED BY <1>1, <2>1 DEF ManagerTypeOK
<1>4. TablesInv' /\ QueuesInv' /\ LoopInv' /\ NoIdleSlot'
  BY <1>1 DEF TablesInv, QueuesInv, LoopInv, Ids, StartEvent, DoneEvent, NoIdleSlot
<1>5. JobsAreKnown'
  <2>1. ASSUME NEW j \in Ids, Prunable(j) PROVE Prunable(j)'
    <3>1. end_time[j] \in Nat /\ now \in Nat /\ now - end_time[j] > KeepTime
      BY <1>2, <2>1 DEF Prunable, Times
    <3>2. (now + 1) - end_time[j] > KeepTime
      BY <3>1, <1>2
    <3> QED BY <3>2, <1>1 DEF Prunable
  <2> QED BY <2>1, <1>1 DEF JobsAreKnown, Ids, Ended
<1>6. TimeInv'
  <2>1. SUFFICES ASSUME NoneDied, ~shutting_down, NEW j \in Watched(jobs, abort_event)
                 PROVE  now + 1 <= Deadline(j) /\ WakesInTime
    BY <1>1 DEF TimeInv, NoneDied, Watched, Ended, Deadline, WakesInTime
  <2>2. loop.pc = "get" /\ events = <<>> /\ (until # None => now < until)
    <3>1. j \in jobs
      BY <2>1 DEF Watched
    <3> QED BY <3>1, <2>1, <1>1 DEF LoopIsQuiet, LoopInv
  <2>3. ~Urgent
    BY <1>1, <2>2 DEF Urgent
  <2>4. WakesInTime
    BY <2>1, <2>2, <2>3 DEF TimeInv
  <2>5. until # None /\ until <= Deadline(j) /\ now < until
    BY <2>1, <2>2, <2>4 DEF WakesInTime
  <2>6. until \in Nat /\ Deadline(j) \in Nat /\ now \in Nat
    BY <2>1, <2>5, <1>2 DEF Deadline, Times, Watched
  <2>7. now + 1 <= Deadline(j)
    BY <2>5, <2>6
  <2> QED BY <2>4, <2>7
<1> QED BY <1>3, <1>4, <1>5, <1>6
\* update_max_block: how long the loop may block, for any jobs and start times.
LEMMA MaxBlock ==
  ASSUME ManagerTypeOK, NEW js \in SUBSET Jobs, NEW aborts, NEW starts \in [Jobs -> Times]
  PROVE  LET watched == Watched(js, aborts)
             block == NewMaxBlock(js, aborts, starts)
         IN  /\ block \in Nat \cup {None}
             /\ watched # {} /\ (\A j \in watched : now <= starts[j] + max_job_time) =>
                  /\ block # None
                  /\ \E j \in watched : now + block = starts[j] + max_job_time
                  /\ \A j \in watched : now + block <= starts[j] + max_job_time
<1> DEFINE watched == Watched(js, aborts)
           D == {starts[j] + max_job_time : j \in watched}
           block == NewMaxBlock(js, aborts, starts)
<1>1. watched \subseteq Jobs /\ now \in Nat /\ max_job_time \in Nat
  BY ManagerAssumption DEF Watched, ManagerTypeOK, Times
<1>2. \A j \in Jobs : starts[j] \in Nat
  BY DEF Times
<1>3. D \subseteq Nat
  <2>1. \A j \in watched : starts[j] + max_job_time \in Nat
    BY <1>1, <1>2
  <2> QED BY <2>1
<1>4. block = IF D = {} THEN None ELSE IF Min(D) <= now THEN 0 ELSE Min(D) - now
  BY DEF NewMaxBlock
<1> HIDE DEF block
<1>5. CASE watched = {}
  <2>1. D = {}
    BY <1>5
  <2> QED BY <1>4, <1>5, <2>1 DEF block
<1>6. CASE watched # {}
  <2>1. D # {}
    BY <1>6
  <2> HIDE DEF D
  <2>2. Min(D) \in D /\ \A x \in D : Min(D) <= x
    BY <1>3, <2>1, MinOfNaturals
  <2>3. Min(D) \in Nat /\ None \notin Int
    BY <1>3, <2>2, ManagerAssumption
  <2>4. block = IF Min(D) <= now THEN 0 ELSE Min(D) - now
    BY <1>4, <2>1
  <2>5. block \in Nat /\ block # None
    BY <1>1, <2>3, <2>4
  <2>6. ASSUME \A j \in watched : now <= starts[j] + max_job_time
        PROVE  /\ \E j \in watched : now + block = starts[j] + max_job_time
               /\ \A j \in watched : now + block <= starts[j] + max_job_time
    <3>1. \A x \in D : now <= x
      BY <2>6 DEF D
    <3>2. now <= Min(D)
      BY <3>1, <2>2
    <3>3. now + block = Min(D)
      BY <3>2, <1>1, <2>3, <2>4
    <3>4. \A j \in watched : starts[j] + max_job_time \in D
      BY DEF D
    <3> QED BY <2>2, <3>3, <3>4 DEF D
  <2> QED BY <2>5, <2>6 DEF block
<1> HIDE DEF watched, D
<1> QED BY <1>5, <1>6 DEF watched, block

\* abort_hanging_jobs: at the first deadline it finds a job to abort, unless a
\* thread is about to report, and then the deadlines are looked at once more.
LEMMA StepAbortHangingJobs ==
  ASSUME MInv, AbortHangingJobs
  PROVE  MInv'
<1> USE DEF MInv
<1> DEFINE watched == Watched(jobs, abort_event)
           hanging == {j \in watched : now - start_time[j] >= max_job_time}
<1>1. /\ loop.pc = "get" /\ events = <<>> /\ until # None /\ now >= until
      /\ UNCHANGED <<now, start_time, end_time, job_id, events, waiting_job_ids, waiting_jobs, jobs,
                     finished_jobs, thread, failed, shutting_down>>
  BY DEF AbortHangingJobs, timing
<1>2. /\ jobs \subseteq Jobs /\ start_time \in [Jobs -> Times] /\ now \in Nat
      /\ max_job_time \in Nat /\ until \in Nat /\ watched \subseteq Jobs
      /\ \A j \in Jobs : start_time[j] \in Nat
      /\ abort_event \in [Jobs -> {"no", "user", "limit", "shutdown"}]
      /\ max_block \in Nat \cup {None}
  BY <1>1, ManagerAssumption DEF ManagerTypeOK, Times, Watched
<1>3. TablesInv' /\ QueuesInv' /\ JobsAreKnown'
  BY <1>1 DEF TablesInv, QueuesInv, Ids, StartEvent, DoneEvent, JobsAreKnown, Ended, Prunable
<1>4. CASE shutting_down
  <2>1. /\ loop' = [pc |-> "exit", job |-> None]
        /\ UNCHANGED <<abort_event, max_block, until>>
    BY <1>4 DEF AbortHangingJobs, Goto
  <2>2. ManagerTypeOK'
    BY <1>1, <2>1 DEF ManagerTypeOK
  <2>3. LoopInv' /\ NoIdleSlot' /\ TimeInv'
    BY <1>1, <1>4, <2>1 DEF LoopInv, NoIdleSlot, TimeInv
  <2> QED BY <1>3, <2>2, <2>3
<1>5. CASE ~shutting_down
  <2>1. /\ abort_event' = [j \in Jobs |-> IF j \in hanging /\ abort_event[j] = "no" THEN "limit"
                                                                          ELSE abort_event[j]]
        /\ IF hanging # {} THEN max_block' = NewMaxBlock(jobs, abort_event', start_time)
                          ELSE UNCHANGED max_block
        /\ until' = (IF max_block' = None THEN None ELSE now + max_block')
        /\ UNCHANGED loop
    BY <1>5 DEF AbortHangingJobs, SetAbort, Block
  <2> DEFINE block == NewMaxBlock(jobs, abort_event', start_time)
             watched1 == Watched(jobs, abort_event')
  <2>2. block \in Nat \cup {None}
    BY <1>2, MaxBlock
  <2>3. max_block' \in Nat \cup {None} /\ until' \in Nat \cup {None}
    BY <1>2, <2>1, <2>2
  <2>4. abort_event' \in [Jobs -> {"no", "user", "limit", "shutdown"}]
    BY <1>2, <2>1
  <2>5. ManagerTypeOK'
    BY <1>1, <2>1, <2>3, <2>4 DEF ManagerTypeOK
  <2>6. LoopInv' /\ NoIdleSlot'
    BY <1>1, <2>1 DEF LoopInv, NoIdleSlot
  <2>7. TimeInv'
    <3>1. SUFFICES ASSUME NoneDied
                   PROVE  /\ \A j \in watched1 : now <= Deadline(j)
                          /\ Urgent' \/ WakesInTime'
      BY <1>1 DEF TimeInv, NoneDied, Watched, Ended, Deadline
    <3>2. watched1 \subseteq watched /\ watched1 = Watched(jobs, abort_event)'
      BY <1>1, <1>2, <2>1 DEF Watched, Ended
    <3>3. \A j \in watched1 : now <= Deadline(j)
      BY <3>1, <3>2, <1>5 DEF TimeInv
    <3>4. Urgent \/ WakesInTime
      BY <3>1, <1>1, <1>5 DEF TimeInv
    <3>5. CASE hanging # {}
      <4>1. max_block' = block
        BY <3>5, <2>1
      <4>2. watched1 # {} => /\ block # None
                             /\ \E j \in watched1 : now + block = Deadline(j)
                             /\ \A j \in watched1 : now + block <= Deadline(j)
        <5> HIDE DEF watched, hanging
        <5> QED BY <1>2, <3>3, MaxBlock DEF Deadline
      <4>3. watched1 # {} => until' = now + block /\ until' # None
        <5> HIDE DEF watched1, block, watched, hanging
        <5>1. SUFFICES ASSUME watched1 # {} PROVE until' = now + block /\ until' # None
          OBVIOUS
        <5>2. block \in Nat /\ block # None
          BY <5>1, <2>2, <4>2
        <5>3. until' = now + block
          BY <5>2, <2>1, <4>1
        <5>4. now + block \in Nat
          BY <5>2, <1>2
        <5> QED BY <5>3, <5>4, ManagerAssumption
      <4> HIDE DEF watched1, block, watched, hanging
      <4>4. WakesInTime'
        BY <1>1, <3>2, <4>2, <4>3 DEF WakesInTime, Deadline
      <4> QED BY <3>3, <4>4
    <3>6. CASE hanging = {}
      <4>1. abort_event' = abort_event
        BY <3>6, <2>1, <1>2
      <4>2. Urgent => Urgent'
        BY <1>1, <4>1 DEF Urgent
      <4>3. WakesInTime => watched = {}
        <5>1. ASSUME WakesInTime, watched # {} PROVE FALSE
          <6>1. PICK j \in watched : until = Deadline(j)
            BY <5>1 DEF WakesInTime
          <6>2. j \in Jobs /\ start_time[j] \in Nat /\ start_time[j] + max_job_time <= now
            BY <6>1, <1>1, <1>2 DEF Deadline
          <6>3. now - start_time[j] >= max_job_time
            BY <6>2, <1>2
          <6> QED BY <6>1, <6>3, <3>6
        <5> QED BY <5>1
      <4>4. watched = {} => WakesInTime'
        BY <3>2 DEF WakesInTime
      <4> QED BY <3>3, <3>4, <4>2, <4>3, <4>4
    <3> QED BY <3>5, <3>6
  <2> QED BY <1>3, <2>5, <2>6, <2>7
<1> QED BY <1>4, <1>5
\* start_waiting_jobs: the first of the queue run, as many as there is room for.
LEMMA Starting ==
  ASSUME ManagerTypeOK,
         NEW queue \in Seq(Jobs), IsInjective(queue), Range(queue) \cap jobs = {},
         StartWaitingJobs(queue, jobs)
  PROVE  \E ids \in SUBSET Range(queue) :
           /\ jobs' = jobs \cup ids
           /\ waiting_jobs' \in Seq(Jobs) /\ IsInjective(waiting_jobs')
           /\ Range(waiting_jobs') = Range(queue) \ ids
           /\ waiting_job_ids' = waiting_job_ids \ ids
           /\ thread' = [j \in Jobs |-> IF j \in ids THEN "running" ELSE thread[j]]
           /\ start_time' = [j \in Jobs |-> IF j \in ids THEN now ELSE start_time[j]]
           /\ Cardinality(jobs') <= max_jobs
           /\ waiting_jobs' # <<>> => Cardinality(jobs') = max_jobs
<1> DEFINE room == max_jobs - Cardinality(jobs)
           n == Min({Len(queue), room})
           started == SubSeq(queue, 1, n)
           ids == Range(started)
           left == SubSeq(queue, n + 1, Len(queue))
<1>1. Len(queue) \in Nat
  BY LenProperties
<1>2. IsFiniteSet(jobs) /\ Cardinality(jobs) \in Nat /\ room \in Nat
  <2>1. IsFiniteSet(Jobs) /\ jobs \subseteq Jobs
    BY ManagerAssumption, FS_Interval DEF Jobs, ManagerTypeOK
  <2>2. IsFiniteSet(jobs) /\ Cardinality(jobs) \in Nat
    BY <2>1, FS_Subset, FS_CardinalityType
  <2> QED BY <2>2, ManagerAssumption DEF ManagerTypeOK
<1>3. n \in 0..Len(queue) /\ n <= room /\ (n < Len(queue) => n = room)
  <2> HIDE DEF room
  <2>1. n \in {Len(queue), room} /\ n <= Len(queue) /\ n <= room
    <3>1. Len(queue) \in Int /\ room \in Int
      BY <1>1, <1>2
    <3> QED BY <3>1, MinOfTwo, Zenon
  <2> HIDE DEF n
  <2> QED BY <2>1, <1>1, <1>2
<1> HIDE DEF n
<1>4. /\ started \in Seq(Jobs) /\ Len(started) = n /\ IsInjective(started)
      /\ left \in Seq(Jobs) /\ Len(left) = Len(queue) - n /\ IsInjective(left)
      /\ Range(queue) = Range(started) \cup Range(left)
      /\ Range(started) \cap Range(left) = {}
  BY <1>3, Cut
<1>5. /\ Started(queue, jobs) = started
      /\ {started[i] : i \in DOMAIN started} = ids
  BY DEF Started, Range, n
<1>6. /\ waiting_jobs' = left
      /\ jobs' = jobs \cup ids
      /\ waiting_job_ids' = waiting_job_ids \ ids
      /\ thread' = [j \in Jobs |-> IF j \in ids THEN "running" ELSE thread[j]]
      /\ start_time' = [j \in Jobs |-> IF j \in ids THEN now ELSE start_time[j]]
  <2> HIDE DEF started, ids
  <2>1. waiting_jobs' = SubSeq(queue, Len(started) + 1, Len(queue))
    BY <1>5 DEF StartWaitingJobs
  <2> QED BY <2>1, <1>4, <1>5 DEF StartWaitingJobs, NoLongerWaiting
<1>7. IsFiniteSet(ids) /\ Cardinality(ids) = n
  BY <1>4, RangeCardinality
<1> HIDE DEF started, left, ids
<1>8. ids \subseteq Range(queue) /\ Range(left) = Range(queue) \ ids
  BY <1>4 DEF ids
<1>9. Cardinality(jobs') = Cardinality(jobs) + n
  <2>1. jobs \cap ids = {}
    BY <1>8
  <2>2. Cardinality(jobs') = Cardinality(jobs) + Cardinality(ids) - Cardinality(jobs \cap ids)
    BY <1>2, <1>6, <1>7, FS_Union
  <2>3. Cardinality(jobs \cap ids) = 0
    BY <2>1, FS_EmptySet
  <2> QED BY <2>2, <2>3, <1>2, <1>3, <1>7
<1>10. Cardinality(jobs') <= max_jobs
  BY <1>2, <1>3, <1>9, ManagerAssumption
<1>11. left # <<>> => Cardinality(jobs') = max_jobs
  <2>1. left # <<>> => Len(left) # 0
    BY <1>4, EmptySeq
  <2>2. left # <<>> => n < Len(queue)
    BY <2>1, <1>1, <1>3, <1>4
  <2> QED BY <2>2, <1>2, <1>3, <1>9, ManagerAssumption
<1> QED BY <1>4, <1>6, <1>8, <1>10, <1>11

\* start_waiting_jobs with what update_max_block does, for the last step of
\* HandleStart and of FinishJob.
LEMMA StepStarting ==
  ASSUME MInv,
         NEW queue \in Seq(Jobs), IsInjective(queue), Range(queue) \subseteq waiting_job_ids,
         \A j \in Jobs : StartEvent(j) \in Range(events) => j \notin Range(queue),
         StartWaitingJobs(queue, jobs),
         loop' = [pc |-> "get", job |-> None],
         finished_jobs' \subseteq finished_jobs,
         \A j \in finished_jobs \ finished_jobs' : Prunable(j),
         UNCHANGED <<now, end_time, job_id, events, failed, shutting_down>>
  PROVE  MInv'
<1> USE DEF MInv
<1>1. Range(queue) \cap jobs = {}
  BY DEF TablesInv
<1>2. PICK ids \in SUBSET Range(queue) :
        /\ jobs' = jobs \cup ids
        /\ waiting_jobs' \in Seq(Jobs) /\ IsInjective(waiting_jobs')
        /\ Range(waiting_jobs') = Range(queue) \ ids
        /\ waiting_job_ids' = waiting_job_ids \ ids
        /\ thread' = [j \in Jobs |-> IF j \in ids THEN "running" ELSE thread[j]]
        /\ start_time' = [j \in Jobs |-> IF j \in ids THEN now ELSE start_time[j]]
        /\ Cardinality(jobs') <= max_jobs
        /\ waiting_jobs' # <<>> => Cardinality(jobs') = max_jobs
  BY <1>1, Starting
<1>3. /\ abort_event' = abort_event
      /\ max_block' = NewMaxBlock(jobs', abort_event', start_time')
      /\ until' = (IF max_block' = None THEN None ELSE now + max_block')
  BY DEF StartWaitingJobs, UpdateMaxBlock, Block
<1>4. /\ jobs \subseteq Jobs /\ waiting_job_ids \subseteq Jobs /\ finished_jobs \subseteq Jobs
      /\ thread \in [Jobs -> ThreadState] /\ now \in Times /\ start_time \in [Jobs -> Times]
      /\ ids \subseteq waiting_job_ids /\ ids \subseteq Jobs /\ Ids \subseteq Jobs
  BY IdsAreJobs DEF ManagerTypeOK
<1>5. \A j \in ids : thread[j] = "none" /\ thread'[j] = "running" /\ start_time'[j] = now /\ j \notin jobs
  BY <1>2, <1>4 DEF TablesInv
<1>6. \A j \in Jobs : j \notin ids => thread'[j] = thread[j] /\ start_time'[j] = start_time[j]
  BY <1>2
<1> DEFINE watched1 == Watched(jobs', abort_event')
           block == NewMaxBlock(jobs', abort_event', start_time')
<1>7. start_time' \in [Jobs -> Times] /\ jobs' \in SUBSET Jobs
  BY <1>2, <1>4
<1>8. block \in Nat \cup {None}
  BY <1>7, MaxBlock
<1>9. ManagerTypeOK'
  <2>1. until' \in Nat \cup {None} /\ max_block' \in Nat \cup {None}
    BY <1>3, <1>4, <1>8 DEF Times
  <2>2. thread' \in [Jobs -> ThreadState]
    BY <1>2, <1>4 DEF ThreadState
  <2>3. loop' \in [pc : {"none", "get", "start", "done", "callback", "finish", "exit"},
                  job : Jobs \cup {None}]
    OBVIOUS
  <2> QED BY <1>2, <1>3, <1>4, <1>7, <2>1, <2>2, <2>3 DEF ManagerTypeOK
<1>10. TablesInv'
  BY <1>2, <1>4, <1>5, <1>6 DEF TablesInv, Ids
<1>11. QueuesInv'
  <2>1. ASSUME NEW j \in Jobs, StartEvent(j) \in Range(events)
        PROVE  j \in waiting_job_ids' \ Range(waiting_jobs')
    BY <2>1, <1>2 DEF QueuesInv
  <2>2. ASSUME NEW j \in Jobs, DoneEvent(j) \in Range(events)
        PROVE  thread'[j] = "announced" /\ j \in jobs'
    BY <2>2, <1>2, <1>5, <1>6 DEF QueuesInv
  <2>3. Range(waiting_jobs') \subseteq waiting_job_ids'
    BY <1>2
  <2> QED BY <2>1, <2>2, <2>3, <1>2 DEF QueuesInv, StartEvent, DoneEvent
<1>12. LoopInv'
  BY DEF LoopInv
<1>13. JobsAreKnown'
  <2>1. ASSUME NEW j \in Ids
        PROVE  j \in waiting_job_ids' \cup jobs' \cup finished_jobs' \/ (Ended(j) /\ Prunable(j))'
    <3>1. CASE j \in waiting_job_ids \cup jobs
      BY <3>1, <1>2
    <3>2. CASE Ended(j) /\ Prunable(j)
      BY <3>2, <1>4, <1>5, <1>6 DEF Ended, Prunable
    <3>3. CASE j \in finished_jobs
      <4>1. thread[j] = "announced" /\ thread'[j] = "announced"
        BY <3>3, <1>4, <1>5, <1>6 DEF TablesInv
      <4> QED BY <3>3, <4>1 DEF Ended, Prunable
    <3> QED BY <2>1, <3>1, <3>2, <3>3 DEF JobsAreKnown, Ids
  <2> QED BY <2>1 DEF JobsAreKnown, Ids
<1>14. NoIdleSlot'
  BY <1>2 DEF NoIdleSlot
<1>15. TimeInv'
  <2>1. SUFFICES ASSUME NoneDied, ~shutting_down
                 PROVE  /\ \A j \in Watched(jobs, abort_event)' : now <= Deadline(j)'
                        /\ WakesInTime'
    <3>1. NoneDied' => NoneDied
      BY <1>4, <1>5, <1>6 DEF NoneDied
    <3> QED BY <3>1 DEF TimeInv
  <2>2. watched1 = Watched(jobs, abort_event)'
    BY <1>2, <1>4, <1>5, <1>6, <1>7 DEF Watched, Ended
  <2>3. \A j \in watched1 : now <= start_time'[j] + max_job_time
    <3>1. ASSUME NEW j \in watched1 PROVE now <= start_time'[j] + max_job_time
      <4>1. CASE j \in ids
        <5>1. start_time'[j] = now /\ now \in Nat /\ max_job_time \in Nat
          BY <4>1, <1>4, <1>5, ManagerAssumption DEF Times
        <5> QED BY <5>1
      <4>2. CASE j \notin ids
        <5>1. j \in Watched(jobs, abort_event) /\ start_time'[j] = start_time[j]
          BY <3>1, <4>2, <1>2, <1>3, <1>4, <1>6 DEF Watched
        <5> QED BY <5>1, <2>1 DEF TimeInv, Deadline
      <4> QED BY <4>1, <4>2
    <3> QED BY <3>1
  <2>4. watched1 # {} => /\ block # None
                         /\ \E j \in watched1 : now + block = start_time'[j] + max_job_time
                         /\ \A j \in watched1 : now + block <= start_time'[j] + max_job_time
    BY <1>7, <2>3, MaxBlock
  <2> HIDE DEF watched1, block
  <2>5. watched1 # {} => until' = now + block /\ until' # None
    <3>1. SUFFICES ASSUME watched1 # {} PROVE until' = now + block /\ until' # None
      OBVIOUS
    <3>2. block \in Nat /\ block # None
      BY <3>1, <1>8, <2>4
    <3>3. until' = now + block
      BY <3>2, <1>3 DEF block
    <3>4. now + block \in Nat
      BY <3>2, <1>4 DEF Times
    <3> QED BY <3>3, <3>4, ManagerAssumption
  <2>6. WakesInTime'
    BY <2>2, <2>4, <2>5 DEF WakesInTime, Deadline
  <2> QED BY <2>2, <2>3, <2>6 DEF Deadline
<1> QED BY <1>9, <1>10, <1>11, <1>12, <1>13, <1>14, <1>15

\* A StartEvent puts its job at the end of the queue.
LEMMA StepHandleStart ==
  ASSUME MInv, HandleStart
  PROVE  MInv'
<1> DEFINE queue == Append(waiting_jobs, loop.job)
<1>1. /\ loop.pc = "start" /\ StartWaitingJobs(queue, jobs)
      /\ loop' = [pc |-> "get", job |-> None]
      /\ UNCHANGED <<now, end_time, job_id, events, finished_jobs, failed, shutting_down>>
  BY DEF HandleStart, Goto
<1>2. /\ waiting_jobs \in Seq(Jobs) /\ IsInjective(waiting_jobs)
      /\ loop.job \in waiting_job_ids \ Range(waiting_jobs) /\ loop.job \in Jobs
      /\ StartEvent(loop.job) \notin Range(events)
      /\ Range(waiting_jobs) \subseteq waiting_job_ids
  BY <1>1 DEF MInv, ManagerTypeOK, QueuesInv, LoopInv
<1>3. /\ queue \in Seq(Jobs) /\ IsInjective(queue)
      /\ Range(queue) = Range(waiting_jobs) \cup {loop.job}
  BY <1>2, Appended
<1>4. \A j \in Jobs : StartEvent(j) \in Range(events) => j \notin Range(queue)
  BY <1>2, <1>3 DEF MInv, QueuesInv
<1> HIDE DEF queue
<1> QED BY <1>1, <1>2, <1>3, <1>4, StepStarting

\* After its callback a job leaves its slot to the next one.
LEMMA StepFinishJob ==
  ASSUME MInv, FinishJob
  PROVE  MInv'
<1>1. /\ loop.pc = "finish" /\ StartWaitingJobs(waiting_jobs, jobs)
      /\ loop' = [pc |-> "get", job |-> None]
      /\ finished_jobs' = {j \in finished_jobs : ~Prunable(j)}
      /\ UNCHANGED <<now, end_time, job_id, events, failed, shutting_down>>
  BY DEF FinishJob, Goto
<1>2. /\ waiting_jobs \in Seq(Jobs) /\ IsInjective(waiting_jobs)
      /\ Range(waiting_jobs) \subseteq waiting_job_ids
      /\ \A j \in Jobs : StartEvent(j) \in Range(events) => j \notin Range(waiting_jobs)
  BY DEF MInv, ManagerTypeOK, QueuesInv
<1>3. finished_jobs' \subseteq finished_jobs /\ \A j \in finished_jobs \ finished_jobs' : Prunable(j)
  BY <1>1
<1> QED BY <1>1, <1>2, <1>3, StepStarting
=============================================================================
