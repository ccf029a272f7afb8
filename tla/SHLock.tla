------------------------------- MODULE SHLock -------------------------------
(***************************************************************************)
(* The shareable lock of src/calibre/db/locking.py on which every call of  *)
(* the library database (db/cache.py) runs.  Each method of SHLock runs    *)
(* under the internal mutex SHLock._lock, which only Condition.wait gives  *)
(* up, so a method is one action, except that an acquire that has to wait  *)
(* is two: queueing (Queue...) and coming back from wait() (Wake...).      *)
(* Between them another thread's release hands the lock over.              *)
(***************************************************************************)
EXTENDS Naturals, Sequences, FiniteSets

CONSTANTS Threads,   \* the threads that use the library
          NoThread,  \* Python's None as the exclusive owner
          MaxHold    \* bound: how deep a thread nests the same lock

ASSUME ThreadsAssumption == IsFiniteSet(Threads) /\ NoThread \notin Threads
ASSUME MaxHoldAssumption == MaxHold \in Nat \ {0}

VARIABLES
  is_shared,         \* cumulative number of shared locks
  shared_owners,     \* shared_owners[t]: shared locks of t, 0 = not in the dict
  is_exclusive,      \* number of exclusive locks held
  exclusive_owner,   \* the thread holding them, or NoThread
  shared_queue,      \* threads waiting for a shared lock, in order
  exclusive_queue,   \* threads waiting for an exclusive lock, in order
  waiter,            \* waiter[t]: Condition t took to wait on, 0 = none
  free_waiters,      \* Conditions to be recycled
  made,              \* number of Conditions ever created
  pc,                \* where thread t is inside acquire()
  reads, writes      \* nesting depth of t's own with-blocks, as t sees it

lockvars == <<is_shared, shared_owners, is_exclusive, exclusive_owner>>
queuevars == <<shared_queue, exclusive_queue>>
waitervars == <<waiter, free_waiters, made>>
vars == <<is_shared, shared_owners, is_exclusive, exclusive_owner, shared_queue,
          exclusive_queue, waiter, free_waiters, made, pc, reads, writes>>

PCs == {"running", "wait_shared", "woken_shared", "wait_exclusive", "woken_exclusive"}

\* The threads of a queue.
Queued(q) == {q[i] : i \in DOMAIN q}

Init == /\ is_shared = 0
        /\ shared_owners = [t \in Threads |-> 0]
        /\ is_exclusive = 0
        /\ exclusive_owner = NoThread
        /\ shared_queue = <<>>
        /\ exclusive_queue = <<>>
        /\ waiter = [t \in Threads |-> 0]
        /\ free_waiters = {}
        /\ made = 0
        /\ pc = [t \in Threads |-> "running"]
        /\ reads = [t \in Threads |-> 0]
        /\ writes = [t \in Threads |-> 0]
-----------------------------------------------------------------------------
(* _take_waiter, _return_waiter and waiter.notify(). *)

\* Mutant of TakeWaiter: the recycled Condition stays in the free list.
TakeWaiter_Peek(t) ==
  \/ \E w \in free_waiters : /\ waiter' = [waiter EXCEPT ![t] = w]
                             /\ UNCHANGED <<free_waiters, made>>
  \/ /\ free_waiters = {}
     /\ waiter' = [waiter EXCEPT ![t] = made + 1]
     /\ made' = made + 1
     /\ UNCHANGED free_waiters

\* A recycled Condition if there is one, otherwise a new one.
TakeWaiter(t) ==
  \/ \E w \in free_waiters : /\ waiter' = [waiter EXCEPT ![t] = w]
                             /\ free_waiters' = free_waiters \ {w}
                             /\ made' = made
  \/ /\ free_waiters = {}
     /\ waiter' = [waiter EXCEPT ![t] = made + 1]
     /\ made' = made + 1
     /\ free_waiters' = free_waiters

\* Mutant of ReturnWaiter: the Condition is dropped instead of recycled.
ReturnWaiter_Drop(t) == /\ waiter' = [waiter EXCEPT ![t] = 0]
                        /\ UNCHANGED <<free_waiters, made>>

ReturnWaiter(t) == /\ free_waiters' = free_waiters \cup {waiter[t]}
                   /\ waiter' = [waiter EXCEPT ![t] = 0]
                   /\ made' = made

Waits(t) == pc[t] \in {"wait_shared", "wait_exclusive"}

\* The waiting threads that notifying the Conditions of the threads S wakes.
NotifiedBy(S) == {u \in Threads : Waits(u) /\ \E t \in S : waiter[u] = waiter[t]}

Notify(S) ==
  pc' = [u \in Threads |->
           IF u \notin NotifiedBy(S) THEN pc[u]
           ELSE IF pc[u] = "wait_shared" THEN "woken_shared" ELSE "woken_exclusive"]
-----------------------------------------------------------------------------
(* acquire(shared=True), i.e. _acquire_shared, and acquire of RWLockWrapper. *)

\* Mutants of SharedMustWait: a reader barges past the writers already waiting;
\* a reader looks at the waiting writers only.
SharedMustWait_Barge == is_exclusive > 0
SharedMustWait_QueueOnly == exclusive_queue # <<>>

\* "spoken for by an exclusive": one holds the lock or waits for it.
SharedMustWait == is_exclusive > 0 \/ exclusive_queue # <<>>

\* "acquiring a lock we already hold".
ReacquireShared(t) ==
  /\ pc[t] = "running"
  /\ is_shared > 0 /\ shared_owners[t] > 0
  /\ reads[t] < MaxHold
  /\ is_shared' = is_shared + 1
  /\ shared_owners' = [shared_owners EXCEPT ![t] = @ + 1]
  /\ reads' = [reads EXCEPT ![t] = @ + 1]
  /\ UNCHANGED <<is_exclusive, exclusive_owner, queuevars, waitervars, pc, writes>>

GrantShared(t) ==
  /\ pc[t] = "running"
  /\ ~(is_shared > 0 /\ shared_owners[t] > 0)
  /\ ~SharedMustWait
  /\ is_shared' = is_shared + 1
  /\ shared_owners' = [shared_owners EXCEPT ![t] = 1]
  /\ reads' = [reads EXCEPT ![t] = @ + 1]
  /\ UNCHANGED <<is_exclusive, exclusive_owner, queuevars, waitervars, pc, writes>>

QueueShared(t) ==
  /\ pc[t] = "running"
  /\ ~(is_shared > 0 /\ shared_owners[t] > 0)
  /\ SharedMustWait
  /\ exclusive_owner # t
  /\ TakeWaiter(t)
  /\ shared_queue' = Append(shared_queue, t)
  /\ pc' = [pc EXCEPT ![t] = "wait_shared"]
  /\ UNCHANGED <<lockvars, exclusive_queue, reads, writes>>

\* Not blocking: False.  Holding the exclusive lock: DowngradeLockError.
RefuseShared(t) ==
  /\ pc[t] = "running"
  /\ ~(is_shared > 0 /\ shared_owners[t] > 0)
  /\ SharedMustWait
  /\ UNCHANGED vars

\* wait() returns: the lock was handed over before the notify.
WakeShared(t) ==
  /\ pc[t] = "woken_shared"
  /\ ReturnWaiter(t)
  /\ pc' = [pc EXCEPT ![t] = "running"]
  /\ reads' = [reads EXCEPT ![t] = @ + 1]
  /\ UNCHANGED <<lockvars, queuevars, writes>>
-----------------------------------------------------------------------------
(* acquire(shared=False), i.e. _acquire_exclusive. *)

\* Mutant of ExclusiveMustWait: the readers are forgotten.
ExclusiveMustWait_Readers == is_exclusive > 0

\* "the lock is already spoken for".
ExclusiveMustWait == is_shared > 0 \/ is_exclusive > 0

\* Mutant of MayUpgrade: the check that forbids an upgrade is missing.
MayUpgrade_Always(t) == TRUE

\* "Do not allow upgrade of lock".
MayUpgrade(t) == ~(is_shared > 0 /\ shared_owners[t] > 0)

ReacquireExclusive(t) ==
  /\ pc[t] = "running"
  /\ exclusive_owner = t
  /\ writes[t] < MaxHold
  /\ is_exclusive' = is_exclusive + 1
  /\ writes' = [writes EXCEPT ![t] = @ + 1]
  /\ UNCHANGED <<is_shared, shared_owners, exclusive_owner, queuevars, waitervars, pc, reads>>

GrantExclusive(t) ==
  /\ pc[t] = "running"
  /\ exclusive_owner # t
  /\ MayUpgrade(t)
  /\ ~ExclusiveMustWait
  /\ exclusive_owner' = t
  /\ is_exclusive' = is_exclusive + 1
  /\ writes' = [writes EXCEPT ![t] = @ + 1]
  /\ UNCHANGED <<is_shared, shared_owners, queuevars, waitervars, pc, reads>>

QueueExclusive(t) ==
  /\ pc[t] = "running"
  /\ exclusive_owner # t
  /\ MayUpgrade(t)
  /\ ExclusiveMustWait
  /\ TakeWaiter(t)
  /\ exclusive_queue' = Append(exclusive_queue, t)
  /\ pc' = [pc EXCEPT ![t] = "wait_exclusive"]
  /\ UNCHANGED <<lockvars, shared_queue, reads, writes>>

\* Not blocking: False.  Holding a shared lock: LockingError.
RefuseExclusive(t) ==
  /\ pc[t] = "running"
  /\ exclusive_owner # t
  /\ ExclusiveMustWait
  /\ UNCHANGED vars

WakeExclusive(t) ==
  /\ pc[t] = "woken_exclusive"
  /\ ReturnWaiter(t)
  /\ pc' = [pc EXCEPT ![t] = "running"]
  /\ writes' = [writes EXCEPT ![t] = @ + 1]
  /\ UNCHANGED <<lockvars, queuevars, reads>>
-----------------------------------------------------------------------------
(* release(). *)

\* A release that leaves the releasing thread inside an outer with-block.
ReleaseNestedExclusive(t) ==
  /\ pc[t] = "running"
  /\ exclusive_owner = t
  /\ is_exclusive > 1
  /\ is_exclusive' = is_exclusive - 1
  /\ writes' = [writes EXCEPT ![t] = @ - 1]
  /\ UNCHANGED <<is_shared, shared_owners, exclusive_owner, queuevars, waitervars, pc, reads>>

\* The last exclusive lock goes; what follows depends on who waits.
LastExclusive(t) ==
  /\ pc[t] = "running"
  /\ exclusive_owner = t
  /\ is_exclusive = 1
  /\ writes' = [writes EXCEPT ![t] = @ - 1]
  /\ UNCHANGED <<waitervars, reads>>

\* Mutant of Issued: the queued readers are counted as one.
Issued_One == 1

\* is_shared goes up by one for each queued reader.
Issued == Len(shared_queue)

\* Mutant of ClearSharedQueue: the "del self._shared_queue[:]" is missing.
ClearSharedQueue_Missing == shared_queue' = shared_queue

ClearSharedQueue == shared_queue' = <<>>

\* "If there are waiting shared locks, issue them all".
HandToReaders(t) ==
  /\ LastExclusive(t)
  /\ shared_queue # <<>>
  /\ is_exclusive' = 0
  /\ exclusive_owner' = NoThread
  /\ is_shared' = is_shared + Issued
  /\ shared_owners' = [u \in Threads |-> IF u \in Queued(shared_queue) THEN 1 ELSE shared_owners[u]]
  /\ Notify(Queued(shared_queue))
  /\ ClearSharedQueue
  /\ UNCHANGED exclusive_queue

HandToNextWriter(t) ==
  /\ LastExclusive(t)
  /\ shared_queue = <<>> /\ exclusive_queue # <<>>
  /\ exclusive_owner' = Head(exclusive_queue)
  /\ is_exclusive' = 1
  /\ Notify({Head(exclusive_queue)})
  /\ exclusive_queue' = Tail(exclusive_queue)
  /\ UNCHANGED <<is_shared, shared_owners, shared_queue>>

FreeExclusive(t) ==
  /\ LastExclusive(t)
  /\ shared_queue = <<>> /\ exclusive_queue = <<>>
  /\ exclusive_owner' = NoThread
  /\ is_exclusive' = 0
  /\ UNCHANGED <<is_shared, shared_owners, queuevars, pc>>

\* Mutant of OwnsShared: the KeyError of a thread not in the dict is missing.
OwnsShared_Always(t) == TRUE

\* The thread is in the dict _shared_owners.
OwnsShared(t) == shared_owners[t] > 0

\* A shared lock goes, and with its last one the thread leaves the dict.
DropShared(t) ==
  /\ pc[t] = "running"
  /\ is_exclusive = 0 /\ is_shared > 0 /\ OwnsShared(t)
  /\ is_shared' = is_shared - 1
  /\ shared_owners' = [shared_owners EXCEPT ![t] = @ - 1]
  /\ reads' = [reads EXCEPT ![t] = @ - 1]
  /\ UNCHANGED <<waitervars, writes>>

ReleaseShared(t) ==
  /\ DropShared(t)
  /\ is_shared > 1
  /\ UNCHANGED <<is_exclusive, exclusive_owner, queuevars, pc>>

\* "If there are waiting exclusive locks, they get first dibbs".
HandToWriter(t) ==
  /\ DropShared(t)
  /\ is_shared = 1 /\ exclusive_queue # <<>>
  /\ exclusive_owner' = Head(exclusive_queue)
  /\ is_exclusive' = is_exclusive + 1
  /\ Notify({Head(exclusive_queue)})
  /\ exclusive_queue' = Tail(exclusive_queue)
  /\ UNCHANGED shared_queue

FreeShared(t) ==
  /\ DropShared(t)
  /\ is_shared = 1 /\ exclusive_queue = <<>>
  /\ UNCHANGED <<is_exclusive, exclusive_owner, queuevars, pc>>

\* release() of a lock the thread does not hold raises LockingError.
ReleaseUnheld(t) ==
  /\ pc[t] = "running"
  /\ IF is_exclusive > 0 THEN exclusive_owner # t ELSE shared_owners[t] = 0
  /\ UNCHANGED vars
-----------------------------------------------------------------------------
Acquire(t) == \/ ReacquireShared(t) \/ GrantShared(t) \/ QueueShared(t) \/ RefuseShared(t)
              \/ ReacquireExclusive(t) \/ GrantExclusive(t) \/ QueueExclusive(t) \/ RefuseExclusive(t)

Wake(t) == WakeShared(t) \/ WakeExclusive(t)

\* The releases that close a thread's outermost with-block are part of these.
Release(t) == \/ ReleaseNestedExclusive(t) \/ HandToReaders(t) \/ HandToNextWriter(t)
              \/ FreeExclusive(t) \/ ReleaseShared(t) \/ HandToWriter(t) \/ FreeShared(t)

Next == \E t \in Threads : Acquire(t) \/ Wake(t) \/ Release(t) \/ ReleaseUnheld(t)

Spec == Init /\ [][Next]_vars

\* A thread closes its outermost with-block after finitely many nested ones,
\* and a notified thread is eventually scheduled.  Nobody has to acquire.
Outermost(t) == reads[t] + writes[t] = 1

Fairness == \A t \in Threads : /\ WF_vars(Release(t))
                               /\ SF_vars(Outermost(t) /\ Release(t))
                               /\ WF_vars(Wake(t))

FairSpec == Spec /\ Fairness
-----------------------------------------------------------------------------
(* Properties. *)

TypeOK == /\ is_shared \in Nat
          /\ shared_owners \in [Threads -> Nat]
          /\ is_exclusive \in Nat
          /\ exclusive_owner \in Threads \cup {NoThread}
          /\ shared_queue \in Seq(Threads)
          /\ exclusive_queue \in Seq(Threads)
          /\ waiter \in [Threads -> Nat]
          /\ free_waiters \in SUBSET Nat
          /\ made \in Nat
          /\ pc \in [Threads -> PCs]
          /\ reads \in [Threads -> 0..MaxHold]
          /\ writes \in [Threads -> 0..MaxHold]

\* "Only one thread can hold write_lock at a time, and only if there are no
\* current read_locks", in terms of the with-blocks the threads are inside of.
MutualExclusion ==
  \A t, u \in Threads : writes[t] > 0 => reads[u] = 0 /\ (u # t => writes[u] = 0)

\* The assertions in the source: is_shared and is_exclusive are never both
\* set (acquire), and a release that frees the lock leaves no reader queued
\* (release): nobody waits for a lock that nobody holds.
SourceAssertions ==
  /\ ~(is_shared > 0 /\ is_exclusive > 0)
  /\ is_shared = 0 /\ is_exclusive = 0 => shared_queue = <<>> /\ exclusive_queue = <<>>
  /\ \A t \in Threads : pc[t] = "woken_shared" => is_exclusive = 0

\* The shared locks as pairs <<thread, nesting level>>.
SharedHolds == {h \in Threads \X (1..MaxHold) : h[2] <= shared_owners[h[1]]}

\* The counter the release compares with zero is the number of shared locks
\* the owners hold together, counting locks handed to threads not yet awake.
CountsAgree == is_shared = Cardinality(SharedHolds)

\* Recycling Conditions never leaves two threads on one Condition, nor a
\* thread on a Condition that is free to be taken again; and none is dropped:
\* there are never more of them than threads.
ConditionsRecycled ==
  /\ \A t, u \in Threads :
       waiter[t] # 0 => waiter[t] \notin free_waiters /\ (u # t => waiter[u] # waiter[t])
  /\ made <= Cardinality(Threads)

\* Threads that will give a lock up without waiting for anybody: they are
\* inside a with-block, or were handed the lock and notified.
Holds(t) == \/ pc[t] = "running" /\ reads[t] + writes[t] > 0
            \/ pc[t] \in {"woken_shared", "woken_exclusive"}

\* A thread blocked in wait() is in the queue of its mode exactly once, so
\* that a release can find it, and a queue holds no thread that has left; and
\* there is a thread whose release is still to come: the threads that use the
\* lock never all sleep.
NoLostWaiter ==
  /\ \A t \in Threads : /\ pc[t] = "wait_shared" <=> t \in Queued(shared_queue)
                        /\ pc[t] = "wait_exclusive" <=> t \in Queued(exclusive_queue)
  /\ Cardinality(Queued(shared_queue)) = Len(shared_queue)
  /\ Cardinality(Queued(exclusive_queue)) = Len(exclusive_queue)
  /\ (\E t \in Threads : Waits(t)) => \E u \in Threads : Holds(u)

\* The lock as the library's callers see it (module RWLock).
RW == INSTANCE RWLock WITH Threads <- Threads, reads <- reads, writes <- writes
ImplementsRWLock == RW!Spec

\* "neither writer nor reader starvation should be possible".
NoStarvation == \A t \in Threads : Waits(t) ~> pc[t] = "running"
=============================================================================
