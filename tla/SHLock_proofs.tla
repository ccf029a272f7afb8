--------------------------- MODULE SHLock_proofs ---------------------------
(***************************************************************************)
(* SHLock for any number of threads and any nesting depth: the inductive   *)
(* invariant IInv, the safety invariants that follow from it, and the step *)
(* simulation that shows SHLock to implement RWLock.                       *)
(***************************************************************************)
EXTENDS SHLock, FunctionTheorems, SequenceTheorems, FiniteSetTheorems, TLAPS

Injective(q) == \A i, j \in DOMAIN q : q[i] = q[j] => i = j

\* What the lock's own books say of a thread, by where the thread is: a running
\* thread sees exactly the locks it is recorded to own; a thread that was handed
\* a lock owns it before it runs; a queued thread owns nothing.
HoldsOf(t) ==
  /\ pc[t] = "running" => /\ reads[t] = shared_owners[t]
                          /\ exclusive_owner = t => writes[t] = is_exclusive
                          /\ exclusive_owner # t => writes[t] = 0
  /\ pc[t] # "running" => reads[t] = 0 /\ writes[t] = 0
  /\ pc[t] = "woken_shared" => shared_owners[t] = 1
  /\ pc[t] = "woken_exclusive" => exclusive_owner = t /\ is_exclusive = 1
  /\ pc[t] \in {"wait_shared", "wait_exclusive", "woken_exclusive"} => shared_owners[t] = 0
  /\ pc[t] \in {"wait_shared", "wait_exclusive", "woken_shared"} => exclusive_owner # t

HoldInv == \A t \in Threads : HoldsOf(t)

\* The lock is in one mode at a time.
ModeInv == /\ is_exclusive = 0 <=> exclusive_owner = NoThread
           /\ is_exclusive > 0 => is_shared = 0

\* The queues hold exactly the waiting threads, once each, and only while
\* there is somebody whose release will serve them.
QueueInv ==
  /\ \A t \in Threads : /\ pc[t] = "wait_shared" <=> t \in Queued(shared_queue)
                        /\ pc[t] = "wait_exclusive" <=> t \in Queued(exclusive_queue)
  /\ Injective(shared_queue)
  /\ Injective(exclusive_queue)
  /\ shared_queue # <<>> => is_exclusive > 0 \/ exclusive_queue # <<>>
  /\ exclusive_queue # <<>> => is_exclusive > 0 \/ is_shared > 0

\* A Condition that was made is free or serves exactly one thread.
WaiterInv ==
  /\ \A t \in Threads : waiter[t] # 0 <=> pc[t] # "running"
  /\ \A t \in Threads : waiter[t] # 0 => waiter[t] \notin free_waiters /\ waiter[t] <= made
  /\ \A t, u \in Threads : waiter[t] # 0 /\ waiter[t] = waiter[u] => t = u
  /\ free_waiters \subseteq 1..made
  /\ \A w \in 1..made : w \in free_waiters \/ \E t \in Threads : waiter[t] = w
  /\ made <= Cardinality(Threads)

IInv == TypeOK /\ HoldInv /\ ModeInv /\ CountsAgree /\ QueueInv /\ WaiterInv
-----------------------------------------------------------------------------
(* The queues. *)

LEMMA QueuedEmpty ==
  ASSUME NEW q \in Seq(Threads)
  PROVE  q = <<>> <=> Queued(q) = {}
<1>1. q \in [1..Len(q) -> Threads] /\ Len(q) \in Nat /\ DOMAIN q = 1..Len(q)
  BY LenProperties
<1>2. q # <<>> => 1 \in DOMAIN q
  BY <1>1, EmptySeq
<1>3. q # <<>> => q[1] \in Queued(q)
  BY <1>2 DEF Queued
<1>4. q = <<>> => \A t : t \notin Queued(q)
  BY <1>1, EmptySeq DEF Queued
<1>5. QED
  BY <1>3, <1>4

LEMMA QueuedAppend ==
  ASSUME NEW q \in Seq(Threads), NEW t \in Threads
  PROVE  /\ Append(q, t) \in Seq(Threads)
         /\ Append(q, t) # <<>>
         /\ Queued(Append(q, t)) = Queued(q) \cup {t}
         /\ Injective(q) /\ t \notin Queued(q) => Injective(Append(q, t))
<1>1. q \in [1..Len(q) -> Threads] /\ Len(q) \in Nat /\ DOMAIN q = 1..Len(q)
  BY LenProperties
<1> DEFINE r == Append(q, t)
<1>2. /\ r \in Seq(Threads) /\ Len(r) = Len(q) + 1 /\ DOMAIN r = 1..(Len(q) + 1)
      /\ \A i \in 1..Len(q) : r[i] = q[i]
      /\ r[Len(q) + 1] = t
  BY <1>1
<1>3. \A i \in 1..(Len(q) + 1) : i \in 1..Len(q) \/ i = Len(q) + 1
  BY <1>1
<1>4. Queued(r) = Queued(q) \cup {t}
  <2>1. \A u \in Queued(r) : u \in Queued(q) \cup {t}
    BY <1>1, <1>2, <1>3 DEF Queued
  <2>2. \A u \in Queued(q) : u \in Queued(r)
    BY <1>1, <1>2 DEF Queued
  <2>3. t \in Queued(r)
    BY <1>1, <1>2 DEF Queued
  <2>4. QED
    BY <2>1, <2>2, <2>3
<1>5. ASSUME Injective(q), t \notin Queued(q)
      PROVE  Injective(r)
  BY <1>1, <1>2, <1>3, <1>5 DEF Injective, Queued
<1>6. r # <<>>
  BY <1>1, <1>2
<1>7. QED
  BY <1>2, <1>4, <1>5, <1>6

LEMMA QueuedTail ==
  ASSUME NEW q \in Seq(Threads), q # <<>>, Injective(q)
  PROVE  /\ Head(q) \in Queued(q)
         /\ Tail(q) \in Seq(Threads)
         /\ Queued(Tail(q)) = Queued(q) \ {Head(q)}
         /\ Injective(Tail(q))
<1>1. q \in [1..Len(q) -> Threads] /\ Len(q) \in Nat \ {0} /\ DOMAIN q = 1..Len(q)
  BY LenProperties, EmptySeq
<1> DEFINE r == Tail(q)
<1>2. /\ r \in Seq(Threads) /\ Len(r) = Len(q) - 1
      /\ \A i \in 1..Len(r) : r[i] = q[i + 1]
  BY HeadTailProperties
<1>3. DOMAIN r = 1..(Len(q) - 1)
  BY <1>2, LenProperties
<1>4. Head(q) = q[1]
  BY <1>1
<1>5. Queued(r) = Queued(q) \ {Head(q)}
  <2>1. \A i \in DOMAIN r : i + 1 \in DOMAIN q /\ i + 1 # 1 /\ r[i] = q[i + 1]
    BY <1>1, <1>2, <1>3
  <2>2. \A i \in DOMAIN q : i = 1 \/ (i - 1 \in DOMAIN r /\ r[i - 1] = q[i])
    BY <1>1, <1>2, <1>3
  <2>3. 1 \in DOMAIN q
    BY <1>1
  <2>4. \A u \in Queued(r) : u \in Queued(q) /\ u # Head(q)
    BY <2>1, <2>3, <1>4 DEF Queued, Injective
  <2>5. \A u \in Queued(q) : u = Head(q) \/ u \in Queued(r)
    BY <2>2, <1>4 DEF Queued
  <2>6. QED
    BY <2>4, <2>5
<1>6. Injective(r)
  BY <1>1, <1>2, <1>3 DEF Injective
<1>7. Head(q) \in Queued(q)
  BY <1>1, <1>4 DEF Queued
<1>8. QED
  BY <1>2, <1>5, <1>6, <1>7
-----------------------------------------------------------------------------
(* The shared locks. *)

LEMMA IntervalCardinality ==
  ASSUME NEW n \in Nat
  PROVE  IsFiniteSet(1..n) /\ Cardinality(1..n) = n
<1>1. Cardinality(1..n) = IF 1 > n THEN 0 ELSE n - 1 + 1
  BY FS_Interval
<1>2. IsFiniteSet(1..n)
  BY FS_Interval
<1>3. QED
  BY <1>1, <1>2

LEMMA SharedHoldsFinite == IsFiniteSet(SharedHolds)
<1>1. IsFiniteSet(1..MaxHold)
  BY FS_Interval, MaxHoldAssumption
<1>2. IsFiniteSet(Threads \X (1..MaxHold))
  BY <1>1, FS_Product, ThreadsAssumption
<1>3. SharedHolds \subseteq Threads \X (1..MaxHold)
  BY DEF SharedHolds
<1>4. QED
  BY <1>2, <1>3, FS_Subset

\* The counter is zero exactly when nobody owns a shared lock, and the thread
\* that owns the last one owns it alone.
LEMMA SharedCount ==
  ASSUME TypeOK, CountsAgree, \A t \in Threads : shared_owners[t] <= MaxHold
  PROVE  /\ \A t \in Threads : shared_owners[t] > 0 => is_shared > 0
         /\ \A t, u \in Threads : is_shared = 1 /\ shared_owners[t] > 0 /\ shared_owners[u] > 0
                                     => t = u /\ shared_owners[t] = 1
<1> USE MaxHoldAssumption DEF TypeOK
<1>1. ASSUME NEW t \in Threads, shared_owners[t] > 0
      PROVE  <<t, 1>> \in SharedHolds /\ <<t, shared_owners[t]>> \in SharedHolds
  BY <1>1 DEF SharedHolds
<1>2. ASSUME NEW t \in Threads, shared_owners[t] > 0
      PROVE  is_shared > 0
  <2>1. SharedHolds # {}
    BY <1>1, <1>2
  <2>2. Cardinality(SharedHolds) \in Nat /\ Cardinality(SharedHolds) # 0
    BY <2>1, FS_EmptySet, FS_CardinalityType, SharedHoldsFinite
  <2>3. QED
    BY <2>2 DEF CountsAgree
<1>3. ASSUME NEW t \in Threads, NEW u \in Threads,
             is_shared = 1, shared_owners[t] > 0, shared_owners[u] > 0
      PROVE  t = u /\ shared_owners[t] = 1
  <2>1. PICK h : SharedHolds = {h}
    BY <1>3, FS_Singleton, SharedHoldsFinite DEF CountsAgree
  <2>2. <<t, 1>> = <<u, 1>> /\ <<t, 1>> = <<t, shared_owners[t]>>
    BY <1>1, <1>3, <2>1
  <2>3. QED
    BY <2>2
<1>4. QED
  BY <1>2, <1>3

\* A thread takes one shared lock more.
LEMMA SharedAdd ==
  ASSUME TypeOK, NEW t \in Threads, shared_owners[t] < MaxHold,
         shared_owners' = [shared_owners EXCEPT ![t] = @ + 1]
  PROVE  Cardinality(SharedHolds') = Cardinality(SharedHolds) + 1
<1> USE MaxHoldAssumption DEF TypeOK
<1> DEFINE h == <<t, shared_owners[t] + 1>>
<1>1. h \notin SharedHolds
  BY DEF SharedHolds
<1>2. SharedHolds' = SharedHolds \cup {h}
  BY DEF SharedHolds
<1>3. QED
  BY <1>1, <1>2, FS_AddElement, SharedHoldsFinite

\* A thread gives one of its shared locks back.
LEMMA SharedRemove ==
  ASSUME TypeOK, NEW t \in Threads, shared_owners[t] > 0, shared_owners[t] <= MaxHold,
         shared_owners' = [shared_owners EXCEPT ![t] = @ - 1]
  PROVE  Cardinality(SharedHolds') = Cardinality(SharedHolds) - 1
<1> USE MaxHoldAssumption DEF TypeOK
<1> DEFINE h == <<t, shared_owners[t]>>
<1>1. h \in SharedHolds
  BY DEF SharedHolds
<1>2. SharedHolds' = SharedHolds \ {h}
  BY DEF SharedHolds
<1> HIDE DEF h
<1>3. Cardinality(SharedHolds \ {h}) = Cardinality(SharedHolds) - 1
  BY <1>1, FS_RemoveElement, SharedHoldsFinite
<1>4. QED
  BY <1>2, <1>3

\* Every queued reader is handed its first shared lock.
LEMMA SharedIssue ==
  ASSUME TypeOK, Injective(shared_queue), \A t \in Threads : shared_owners[t] = 0,
         shared_owners' = [u \in Threads |->
                             IF u \in Queued(shared_queue) THEN 1 ELSE shared_owners[u]]
  PROVE  /\ Cardinality(SharedHolds) = 0
         /\ Cardinality(SharedHolds') = Len(shared_queue)
<1> USE MaxHoldAssumption DEF TypeOK
<1> DEFINE q == shared_queue
           f == [i \in 1..Len(q) |-> <<q[i], 1>>]
<1>1. q \in [1..Len(q) -> Threads] /\ Len(q) \in Nat /\ DOMAIN q = 1..Len(q)
  BY LenProperties
<1>2. SharedHolds = {}
  BY DEF SharedHolds
<1>3. SharedHolds' = {<<u, 1>> : u \in Queued(q)}
  <2>1. Queued(q) \subseteq Threads
    BY <1>1 DEF Queued
  <2>2. ASSUME NEW u \in Threads, NEW n \in 1..MaxHold
        PROVE  n <= shared_owners'[u] <=> u \in Queued(q) /\ n = 1
    OBVIOUS
  <2>3. QED
    BY <2>1, <2>2 DEF SharedHolds
<1>4. f \in Bijection(1..Len(q), SharedHolds')
  <2>1. f \in [1..Len(q) -> SharedHolds']
    BY <1>1, <1>3 DEF Queued
  <2>2. \A i, j \in 1..Len(q) : f[i] = f[j] => i = j
    BY <1>1 DEF Injective
  <2>3. \A h \in SharedHolds' : \E i \in 1..Len(q) : f[i] = h
    BY <1>1, <1>3 DEF Queued
  <2>4. QED
    BY <2>1, <2>2, <2>3, Fun_IsBij
<1>5. Cardinality(SharedHolds') = Len(q)
  <2>1. IsFiniteSet(1..Len(q)) /\ Cardinality(1..Len(q)) = Len(q)
    BY <1>1, IntervalCardinality
  <2>2. ExistsBijection(1..Len(q), SharedHolds')
    BY <1>4 DEF ExistsBijection
  <2>3. QED
    BY <2>1, <2>2, FS_Bijection
<1>6. QED
  BY <1>2, <1>5, FS_EmptySet
-----------------------------------------------------------------------------
(* The Conditions. *)

\* notify() reaches exactly the threads it is meant for.
LEMMA NotifyExact ==
  ASSUME WaiterInv, NEW S \in SUBSET Threads, \A t \in S : Waits(t)
  PROVE  NotifiedBy(S) = S
BY DEF WaiterInv, NotifiedBy, Waits

\* What IInv says of the state in which a thread acts, in the form the steps use.
LEMMA Facts ==
  ASSUME IInv
  PROVE  /\ \A t \in Threads : shared_owners[t] <= MaxHold
         /\ \A t \in Threads : shared_owners[t] > 0 => is_shared > 0 /\ is_exclusive = 0
         /\ \A t, u \in Threads : is_shared = 1 /\ shared_owners[t] > 0 /\ shared_owners[u] > 0
                                     => t = u /\ shared_owners[t] = 1
         /\ \A t \in Threads : exclusive_owner = t => is_exclusive > 0
         /\ Queued(shared_queue) \subseteq Threads
         /\ Queued(exclusive_queue) \subseteq Threads
         /\ exclusive_queue # <<>> =>
              /\ Head(exclusive_queue) \in Threads
              /\ pc[Head(exclusive_queue)] = "wait_exclusive"
         /\ NotifiedBy(Queued(shared_queue)) = Queued(shared_queue)
         /\ exclusive_queue # <<>> =>
              NotifiedBy({Head(exclusive_queue)}) = {Head(exclusive_queue)}
<1> USE DEF IInv
<1>1. ASSUME NEW t \in Threads
      PROVE  shared_owners[t] <= MaxHold
  <2>1. pc[t] \in PCs /\ reads[t] \in 0..MaxHold
    BY DEF TypeOK
  <2>2. shared_owners[t] \in {0, 1, reads[t]}
    BY <2>1 DEF HoldInv, HoldsOf, PCs
  <2>3. QED
    BY <2>1, <2>2, MaxHoldAssumption
<1>2. /\ \A t \in Threads : shared_owners[t] > 0 => is_shared > 0
      /\ \A t, u \in Threads : is_shared = 1 /\ shared_owners[t] > 0 /\ shared_owners[u] > 0
                                  => t = u /\ shared_owners[t] = 1
  BY <1>1, SharedCount
<1>3. \A t \in Threads : shared_owners[t] > 0 => is_exclusive = 0
  BY <1>2 DEF TypeOK, ModeInv
<1>4. \A t \in Threads : exclusive_owner = t => is_exclusive > 0
  BY ThreadsAssumption DEF TypeOK, ModeInv
<1>5. Queued(shared_queue) \subseteq Threads /\ Queued(exclusive_queue) \subseteq Threads
  BY LenProperties DEF TypeOK, Queued
<1>6. exclusive_queue # <<>> => Head(exclusive_queue) \in Queued(exclusive_queue)
  BY QueuedTail DEF TypeOK, QueueInv
<1>7. /\ \A t \in Queued(shared_queue) : pc[t] = "wait_shared"
      /\ exclusive_queue # <<>> => pc[Head(exclusive_queue)] = "wait_exclusive"
  BY <1>5, <1>6 DEF QueueInv
<1>8. NotifiedBy(Queued(shared_queue)) = Queued(shared_queue)
  BY <1>5, <1>7, NotifyExact DEF Waits
<1>9. exclusive_queue # <<>> => NotifiedBy({Head(exclusive_queue)}) = {Head(exclusive_queue)}
  BY <1>5, <1>6, <1>7, NotifyExact DEF Waits
<1>10. QED
  BY <1>1, <1>2, <1>3, <1>4, <1>5, <1>6, <1>7, <1>8, <1>9
-----------------------------------------------------------------------------
(* What a step that leaves the queues or the Conditions alone preserves. *)

LEMMA WaiterFrame ==
  ASSUME IInv, UNCHANGED waitervars,
         \A t \in Threads : pc'[t] = "running" <=> pc[t] = "running"
  PROVE  WaiterInv'
BY DEF IInv, WaiterInv, waitervars

LEMMA QueueFrame ==
  ASSUME IInv, UNCHANGED <<queuevars, pc>>,
         shared_queue # <<>> => is_exclusive' > 0 \/ exclusive_queue # <<>>,
         exclusive_queue # <<>> => is_exclusive' > 0 \/ is_shared' > 0
  PROVE  QueueInv'
BY DEF IInv, QueueInv, queuevars, Queued, Injective

LEMMA CountsFrame ==
  ASSUME CountsAgree, UNCHANGED <<is_shared, shared_owners>>
  PROVE  CountsAgree'
BY DEF CountsAgree, SharedHolds

\* The thread that is added to the waiting ones gets a Condition of its own.
LEMMA WaiterTaken ==
  ASSUME IInv, NEW t \in Threads, pc[t] = "running", TakeWaiter(t),
         NEW p \in PCs \ {"running"}, pc' = [pc EXCEPT ![t] = p]
  PROVE  WaiterInv' /\ waiter' \in [Threads -> Nat] /\ made' \in Nat
<1>0. /\ WaiterInv
      /\ waiter \in [Threads -> Nat] /\ made \in Nat /\ free_waiters \in SUBSET Nat
      /\ pc \in [Threads -> PCs]
  BY DEF IInv, TypeOK
<1>1. waiter[t] = 0
  BY <1>0 DEF WaiterInv
<1>2. CASE \E w \in free_waiters : /\ waiter' = [waiter EXCEPT ![t] = w]
                                   /\ free_waiters' = free_waiters \ {w}
                                   /\ made' = made
  BY <1>0, <1>1, <1>2 DEF WaiterInv
<1>3. CASE /\ free_waiters = {}
           /\ waiter' = [waiter EXCEPT ![t] = made + 1]
           /\ made' = made + 1
           /\ free_waiters' = free_waiters
  <2>1. made + 1 <= Cardinality(Threads)
    <3> DEFINE f == [w \in 1..made |-> CHOOSE u \in Threads : waiter[u] = w]
    <3>1. \A w \in 1..made : f[w] \in Threads \ {t} /\ waiter[f[w]] = w
      BY <1>0, <1>1, <1>3 DEF WaiterInv
    <3>2. f \in Injection(1..made, Threads \ {t})
      <4>1. f \in [1..made -> Threads \ {t}]
        BY <1>0, <3>1
      <4>2. \A v, w \in 1..made : f[v] = f[w] => v = w
        BY <1>0, <3>1
      <4>3. QED
        BY <4>1, <4>2, Fun_IsInj
    <3>3. /\ IsFiniteSet(Threads \ {t})
          /\ Cardinality(Threads \ {t}) = Cardinality(Threads) - 1
      BY FS_RemoveElement, ThreadsAssumption
    <3>4. Cardinality(1..made) <= Cardinality(Threads \ {t})
      <4> HIDE DEF f
      <4>1. QED
        BY <3>2, <3>3, FS_Injection
    <3>5. Cardinality(1..made) = made
      BY <1>0, IntervalCardinality
    <3>6. Cardinality(Threads) \in Nat
      BY FS_CardinalityType, ThreadsAssumption
    <3>7. QED
      BY <3>3, <3>4, <3>5, <3>6, <1>0
  <2>2. \A u \in Threads : /\ waiter'[u] = IF u = t THEN made + 1 ELSE waiter[u]
                           /\ u # t => waiter[u] # made + 1
    <3>1. \A u \in Threads : waiter[u] = 0 \/ waiter[u] <= made
      BY <1>0 DEF WaiterInv
    <3>2. QED
      BY <1>0, <1>3, <3>1
  <2>3. \A u \in Threads : waiter'[u] # 0 <=> pc'[u] # "running"
    BY <1>0, <2>2 DEF WaiterInv
  <2>4. \A u \in Threads : waiter'[u] # 0 => waiter'[u] \notin free_waiters' /\ waiter'[u] <= made'
    BY <1>0, <1>3, <2>2 DEF WaiterInv
  <2>5. \A u, v \in Threads : waiter'[u] # 0 /\ waiter'[u] = waiter'[v] => u = v
    BY <1>0, <2>2 DEF WaiterInv
  <2>6. \A w \in 1..made' : w \in free_waiters' \/ \E u \in Threads : waiter'[u] = w
    <3>1. ASSUME NEW w \in 1..made
          PROVE  \E u \in Threads : waiter'[u] = w
      <4>1. PICK u \in Threads : waiter[u] = w
        BY <1>0, <1>3 DEF WaiterInv
      <4>2. QED
        BY <1>0, <1>1, <2>2, <4>1
    <3>2. waiter'[t] = made + 1
      BY <1>0, <2>2
    <3>3. QED
      BY <1>0, <1>3, <3>1, <3>2
  <2>7. free_waiters' \subseteq 1..made' /\ made' <= Cardinality(Threads)
    BY <1>0, <1>3, <2>1
  <2>8. WaiterInv'
    BY <1>0, <2>3, <2>4, <2>5, <2>6, <2>7 DEF WaiterInv
  <2>9. QED
    BY <1>0, <1>3, <2>8
<1>4. QED
  BY <1>2, <1>3 DEF TakeWaiter

\* The thread that comes back from wait() gives its Condition back.
LEMMA WaiterReturned ==
  ASSUME IInv, NEW t \in Threads, pc[t] # "running", ReturnWaiter(t),
         pc' = [pc EXCEPT ![t] = "running"]
  PROVE  WaiterInv' /\ waiter' \in [Threads -> Nat]
<1> USE DEF IInv, TypeOK, ReturnWaiter
<1>1. waiter[t] \in 1..made /\ waiter[t] \notin free_waiters
  BY DEF WaiterInv
<1>2. \A u \in Threads : waiter'[u] = IF u = t THEN 0 ELSE waiter[u]
  OBVIOUS
<1>3. \A u \in Threads : waiter'[u] # 0 <=> pc'[u] # "running"
  BY <1>2 DEF WaiterInv
<1>4. \A u \in Threads : waiter'[u] # 0 => waiter'[u] \notin free_waiters' /\ waiter'[u] <= made'
  BY <1>1, <1>2 DEF WaiterInv
<1>5. \A u, v \in Threads : waiter'[u] # 0 /\ waiter'[u] = waiter'[v] => u = v
  BY <1>2 DEF WaiterInv
<1>6. free_waiters' \subseteq 1..made'
  BY <1>1 DEF WaiterInv
<1>7. \A w \in 1..made' : w \in free_waiters' \/ \E u \in Threads : waiter'[u] = w
  BY <1>2 DEF WaiterInv
<1>8. QED
  BY <1>3, <1>4, <1>5, <1>6, <1>7 DEF WaiterInv
-----------------------------------------------------------------------------
(* One lemma per action: it preserves every conjunct of IInv. *)

LEMMA StepReacquireShared ==
  ASSUME IInv, NEW t \in Threads, ReacquireShared(t)
  PROVE  IInv'
<1> USE DEF ReacquireShared, lockvars, queuevars, waitervars
<1>1. TypeOK /\ HoldInv /\ HoldsOf(t) /\ ModeInv /\ CountsAgree /\ QueueInv /\ WaiterInv
  BY DEF IInv, HoldInv
<1>2. WaiterInv'
  BY WaiterFrame
<1>3. TypeOK'
  BY <1>1, Facts, MaxHoldAssumption DEF TypeOK, PCs, HoldsOf
<1>4. ASSUME NEW u \in Threads
      PROVE  HoldsOf(u)'
  <2>1. HoldsOf(u)
    BY <1>1 DEF HoldInv
  <2>2. QED
    BY <1>1, <2>1, Facts, ThreadsAssumption DEF TypeOK, HoldsOf, ModeInv
<1>5. ModeInv'
  BY <1>1, Facts, ThreadsAssumption DEF TypeOK, ModeInv
<1>6. CountsAgree'
  BY <1>1, Facts, SharedAdd DEF TypeOK, HoldsOf, CountsAgree, QueueInv
<1>7. QueueInv'
  BY <1>1, QueueFrame DEF QueueInv, TypeOK
<1>8. QED
  BY <1>2, <1>3, <1>4, <1>5, <1>6, <1>7 DEF IInv, HoldInv

LEMMA StepGrantShared ==
  ASSUME IInv, NEW t \in Threads, GrantShared(t)
  PROVE  IInv'
<1> USE DEF GrantShared, SharedMustWait, lockvars, queuevars, waitervars
<1>1. TypeOK /\ HoldInv /\ HoldsOf(t) /\ ModeInv /\ CountsAgree /\ QueueInv /\ WaiterInv
  BY DEF IInv, HoldInv
<1>2. /\ shared_owners[t] = 0 /\ reads[t] = 0
      /\ shared_owners' = [shared_owners EXCEPT ![t] = @ + 1]
      /\ 1 \in 0..MaxHold /\ shared_owners[t] < MaxHold
  <2>1. shared_owners[t] \in Nat /\ (shared_owners[t] > 0 => is_shared > 0)
    BY <1>1, Facts DEF TypeOK
  <2>2. shared_owners[t] = 0 /\ reads[t] = 0
    BY <1>1, <2>1 DEF HoldsOf
  <2>3. shared_owners' = [shared_owners EXCEPT ![t] = @ + 1]
    BY <1>1, <2>2 DEF TypeOK
  <2>4. QED
    BY <2>2, <2>3, MaxHoldAssumption
<1>3. WaiterInv'
  BY WaiterFrame
<1>4. TypeOK'
  BY <1>1, <1>2 DEF TypeOK
<1>5. ASSUME NEW u \in Threads
      PROVE  HoldsOf(u)'
  <2>1. HoldsOf(u)
    BY <1>1 DEF HoldInv
  <2>2. QED
    BY <1>1, <2>1, Facts, ThreadsAssumption DEF TypeOK, HoldsOf, ModeInv
<1>6. ModeInv'
  BY <1>1, Facts, ThreadsAssumption DEF TypeOK, ModeInv
<1>7. CountsAgree'
  <2>1. Cardinality(SharedHolds') = Cardinality(SharedHolds) + 1
    BY <1>1, <1>2, SharedAdd
  <2>2. QED
    BY <1>1, <2>1 DEF CountsAgree
<1>8. QueueInv'
  BY <1>1, QueueFrame DEF QueueInv, TypeOK
<1>9. QED
  BY <1>3, <1>4, <1>5, <1>6, <1>7, <1>8 DEF IInv, HoldInv

LEMMA StepQueueShared ==
  ASSUME IInv, NEW t \in Threads, QueueShared(t)
  PROVE  IInv'
<1> USE DEF QueueShared, SharedMustWait, lockvars, queuevars, waitervars
<1>1. TypeOK /\ HoldInv /\ HoldsOf(t) /\ ModeInv /\ CountsAgree /\ QueueInv /\ WaiterInv
  BY DEF IInv, HoldInv
<1>2. WaiterInv' /\ waiter' \in [Threads -> Nat] /\ made' \in Nat
  BY WaiterTaken DEF PCs
<1>3. TypeOK'
  <2>1. shared_queue' \in Seq(Threads)
    BY <1>1, QueuedAppend DEF TypeOK
  <2>2. free_waiters' \in SUBSET Nat
    BY <1>1 DEF TypeOK, TakeWaiter
  <2>3. pc' \in [Threads -> PCs]
    BY <1>1 DEF TypeOK, PCs
  <2>4. QED
    BY <1>1, <1>2, <2>1, <2>2, <2>3 DEF TypeOK
<1>4. ASSUME NEW u \in Threads
      PROVE  HoldsOf(u)'
  <2>1. HoldsOf(u)
    BY <1>1 DEF HoldInv
  <2>2. QED
    BY <1>1, <2>1, Facts, ThreadsAssumption DEF TypeOK, HoldsOf, ModeInv
<1>5. ModeInv'
  BY <1>1, Facts, ThreadsAssumption DEF TypeOK, ModeInv
<1>6. CountsAgree'
  BY <1>1, CountsFrame
<1>7. QueueInv'
  <2>1. /\ Queued(shared_queue') = Queued(shared_queue) \cup {t}
        /\ Injective(shared_queue')
    BY <1>1, QueuedAppend DEF QueueInv, TypeOK
  <2>2. QED
    BY <1>1, <2>1 DEF QueueInv, TypeOK
<1>8. QED
  BY <1>2, <1>3, <1>4, <1>5, <1>6, <1>7 DEF IInv, HoldInv

LEMMA StepWakeShared ==
  ASSUME IInv, NEW t \in Threads, WakeShared(t)
  PROVE  IInv'
<1> USE DEF WakeShared, lockvars, queuevars, waitervars
<1>1. TypeOK /\ HoldInv /\ HoldsOf(t) /\ ModeInv /\ CountsAgree /\ QueueInv /\ WaiterInv
  BY DEF IInv, HoldInv
<1>2. reads[t] = 0 /\ 1 \in 0..MaxHold
  BY <1>1, MaxHoldAssumption DEF HoldsOf
<1>3. WaiterInv' /\ waiter' \in [Threads -> Nat]
  BY WaiterReturned
<1>4. TypeOK'
  <2>1. reads' \in [Threads -> 0..MaxHold]
    BY <1>1, <1>2 DEF TypeOK
  <2>2. waiter[t] \in Nat /\ free_waiters' \in SUBSET Nat /\ made' \in Nat
    BY <1>1 DEF TypeOK, ReturnWaiter
  <2>3. QED
    BY <1>1, <1>3, <2>1, <2>2 DEF TypeOK, PCs
<1>5. ASSUME NEW u \in Threads
      PROVE  HoldsOf(u)'
  <2>1. HoldsOf(u)
    BY <1>1 DEF HoldInv
  <2>2. QED
    BY <1>1, <2>1, Facts, ThreadsAssumption DEF TypeOK, HoldsOf, ModeInv
<1>6. ModeInv'
  BY <1>1, Facts, ThreadsAssumption DEF TypeOK, ModeInv
<1>7. CountsAgree'
  BY <1>1, CountsFrame
<1>8. QueueInv'
  BY <1>1 DEF QueueInv, TypeOK
<1>9. QED
  BY <1>3, <1>4, <1>5, <1>6, <1>7, <1>8 DEF IInv, HoldInv

LEMMA StepReacquireExclusive ==
  ASSUME IInv, NEW t \in Threads, ReacquireExclusive(t)
  PROVE  IInv'
<1> USE DEF ReacquireExclusive, lockvars, queuevars, waitervars
<1>1. TypeOK /\ HoldInv /\ HoldsOf(t) /\ ModeInv /\ CountsAgree /\ QueueInv /\ WaiterInv
  BY DEF IInv, HoldInv
<1>2. WaiterInv'
  BY WaiterFrame
<1>3. TypeOK'
  BY <1>1, Facts, MaxHoldAssumption DEF TypeOK, PCs, HoldsOf
<1>4. ASSUME NEW u \in Threads
      PROVE  HoldsOf(u)'
  <2>1. HoldsOf(u)
    BY <1>1 DEF HoldInv
  <2>2. QED
    BY <1>1, <2>1, Facts, ThreadsAssumption DEF TypeOK, HoldsOf, ModeInv
<1>5. ModeInv'
  BY <1>1, Facts, ThreadsAssumption DEF TypeOK, ModeInv
<1>6. CountsAgree'
  BY <1>1, CountsFrame
<1>7. QueueInv'
  BY <1>1, QueueFrame DEF QueueInv, TypeOK
<1>8. QED
  BY <1>2, <1>3, <1>4, <1>5, <1>6, <1>7 DEF IInv, HoldInv

LEMMA StepGrantExclusive ==
  ASSUME IInv, NEW t \in Threads, GrantExclusive(t)
  PROVE  IInv'
<1> USE DEF GrantExclusive, ExclusiveMustWait, MayUpgrade, lockvars, queuevars, waitervars
<1>1. TypeOK /\ HoldInv /\ HoldsOf(t) /\ ModeInv /\ CountsAgree /\ QueueInv /\ WaiterInv
  BY DEF IInv, HoldInv
<1>2. WaiterInv'
  BY WaiterFrame
<1>3. TypeOK'
  BY <1>1, Facts, MaxHoldAssumption DEF TypeOK, PCs, HoldsOf
<1>4. ASSUME NEW u \in Threads
      PROVE  HoldsOf(u)'
  <2>1. HoldsOf(u)
    BY <1>1 DEF HoldInv
  <2>2. QED
    BY <1>1, <2>1, Facts, ThreadsAssumption DEF TypeOK, HoldsOf, ModeInv
<1>5. ModeInv'
  BY <1>1, Facts, ThreadsAssumption DEF TypeOK, ModeInv
<1>6. CountsAgree'
  BY <1>1, CountsFrame
<1>7. QueueInv'
  BY <1>1, QueueFrame DEF QueueInv, TypeOK
<1>8. QED
  BY <1>2, <1>3, <1>4, <1>5, <1>6, <1>7 DEF IInv, HoldInv

LEMMA StepQueueExclusive ==
  ASSUME IInv, NEW t \in Threads, QueueExclusive(t)
  PROVE  IInv'
<1> USE DEF QueueExclusive, ExclusiveMustWait, MayUpgrade, lockvars, queuevars, waitervars
<1>1. TypeOK /\ HoldInv /\ HoldsOf(t) /\ ModeInv /\ CountsAgree /\ QueueInv /\ WaiterInv
  BY DEF IInv, HoldInv
<1>2. WaiterInv' /\ waiter' \in [Threads -> Nat] /\ made' \in Nat
  BY WaiterTaken DEF PCs
<1>3. TypeOK'
  <2>1. exclusive_queue' \in Seq(Threads)
    BY <1>1, QueuedAppend DEF TypeOK
  <2>2. free_waiters' \in SUBSET Nat
    BY <1>1 DEF TypeOK, TakeWaiter
  <2>3. pc' \in [Threads -> PCs]
    BY <1>1 DEF TypeOK, PCs
  <2>4. QED
    BY <1>1, <1>2, <2>1, <2>2, <2>3 DEF TypeOK
<1>4. ASSUME NEW u \in Threads
      PROVE  HoldsOf(u)'
  <2>1. HoldsOf(u)
    BY <1>1 DEF HoldInv
  <2>2. QED
    BY <1>1, <2>1, Facts, ThreadsAssumption DEF TypeOK, HoldsOf, ModeInv
<1>5. ModeInv'
  BY <1>1, Facts, ThreadsAssumption DEF TypeOK, ModeInv
<1>6. CountsAgree'
  BY <1>1, CountsFrame
<1>7. QueueInv'
  <2>1. /\ Queued(exclusive_queue') = Queued(exclusive_queue) \cup {t}
        /\ Injective(exclusive_queue')
    BY <1>1, QueuedAppend DEF QueueInv, TypeOK
  <2>2. is_exclusive > 0 \/ is_shared > 0
    BY <1>1 DEF TypeOK
  <2>3. \A u \in Threads : /\ pc'[u] = "wait_shared" <=> u \in Queued(shared_queue')
                           /\ pc'[u] = "wait_exclusive" <=> u \in Queued(exclusive_queue')
    BY <1>1, <2>1 DEF QueueInv, TypeOK
  <2>4. exclusive_queue' # <<>>
    BY <1>1, QueuedAppend DEF TypeOK
  <2>5. QED
    BY <1>1, <2>1, <2>2, <2>3, <2>4 DEF QueueInv
<1>8. QED
  BY <1>2, <1>3, <1>4, <1>5, <1>6, <1>7 DEF IInv, HoldInv

LEMMA StepWakeExclusive ==
  ASSUME IInv, NEW t \in Threads, WakeExclusive(t)
  PROVE  IInv'
<1> USE DEF WakeExclusive, lockvars, queuevars, waitervars
<1>1. TypeOK /\ HoldInv /\ HoldsOf(t) /\ ModeInv /\ CountsAgree /\ QueueInv /\ WaiterInv
  BY DEF IInv, HoldInv
<1>2. writes[t] = 0 /\ 1 \in 0..MaxHold
  BY <1>1, MaxHoldAssumption DEF HoldsOf
<1>3. WaiterInv' /\ waiter' \in [Threads -> Nat]
  BY WaiterReturned
<1>4. TypeOK'
  <2>1. writes' \in [Threads -> 0..MaxHold]
    BY <1>1, <1>2 DEF TypeOK
  <2>2. waiter[t] \in Nat /\ free_waiters' \in SUBSET Nat /\ made' \in Nat
    BY <1>1 DEF TypeOK, ReturnWaiter
  <2>3. QED
    BY <1>1, <1>3, <2>1, <2>2 DEF TypeOK, PCs
<1>5. ASSUME NEW u \in Threads
      PROVE  HoldsOf(u)'
  <2>1. HoldsOf(u)
    BY <1>1 DEF HoldInv
  <2>2. QED
    BY <1>1, <2>1, Facts, ThreadsAssumption DEF TypeOK, HoldsOf, ModeInv
<1>6. ModeInv'
  BY <1>1, Facts, ThreadsAssumption DEF TypeOK, ModeInv
<1>7. CountsAgree'
  BY <1>1, CountsFrame
<1>8. QueueInv'
  BY <1>1 DEF QueueInv, TypeOK
<1>9. QED
  BY <1>3, <1>4, <1>5, <1>6, <1>7, <1>8 DEF IInv, HoldInv

LEMMA StepReleaseNestedExclusive ==
  ASSUME IInv, NEW t \in Threads, ReleaseNestedExclusive(t)
  PROVE  IInv'
<1> USE DEF ReleaseNestedExclusive, lockvars, queuevars, waitervars
<1>1. TypeOK /\ HoldInv /\ HoldsOf(t) /\ ModeInv /\ CountsAgree /\ QueueInv /\ WaiterInv
  BY DEF IInv, HoldInv
<1>2. WaiterInv'
  BY WaiterFrame
<1>3. TypeOK'
  BY <1>1, Facts, MaxHoldAssumption DEF TypeOK, PCs, HoldsOf
<1>4. ASSUME NEW u \in Threads
      PROVE  HoldsOf(u)'
  <2>1. HoldsOf(u)
    BY <1>1 DEF HoldInv
  <2>2. QED
    BY <1>1, <2>1, Facts, ThreadsAssumption DEF TypeOK, HoldsOf, ModeInv
<1>5. ModeInv'
  BY <1>1, Facts, ThreadsAssumption DEF TypeOK, ModeInv
<1>6. CountsAgree'
  BY <1>1, CountsFrame
<1>7. QueueInv'
  BY <1>1, QueueFrame DEF QueueInv, TypeOK
<1>8. QED
  BY <1>2, <1>3, <1>4, <1>5, <1>6, <1>7 DEF IInv, HoldInv

LEMMA StepHandToReaders ==
  ASSUME IInv, NEW t \in Threads, HandToReaders(t)
  PROVE  IInv'
<1> USE DEF HandToReaders, LastExclusive, Notify, ClearSharedQueue, Issued, lockvars, queuevars, waitervars
<1>1. TypeOK /\ HoldInv /\ HoldsOf(t) /\ ModeInv /\ CountsAgree /\ QueueInv /\ WaiterInv
  BY DEF IInv, HoldInv
<1>2. /\ NotifiedBy(Queued(shared_queue)) = Queued(shared_queue)
      /\ Queued(shared_queue) \subseteq Threads
      /\ \A u \in Queued(shared_queue) : pc[u] = "wait_shared"
  BY <1>1, Facts DEF QueueInv
<1>3. WaiterInv'
  BY <1>1, <1>2, WaiterFrame DEF TypeOK
<1>4. TypeOK'
  <2>1. Len(shared_queue) \in Nat /\ shared_queue' \in Seq(Threads)
    BY <1>1, LenProperties, EmptySeq DEF TypeOK
  <2>2. pc' \in [Threads -> PCs]
    BY <1>1 DEF TypeOK, PCs
  <2>3. writes' \in [Threads -> 0..MaxHold]
    <3>1. writes[t] = 1 /\ 0 \in 0..MaxHold
      BY <1>1, MaxHoldAssumption DEF HoldsOf
    <3>2. QED
      BY <1>1, <3>1 DEF TypeOK
  <2>4. shared_owners' \in [Threads -> Nat] /\ is_shared' \in Nat
    BY <1>1, <2>1 DEF TypeOK
  <2>5. QED
    BY <1>1, <2>1, <2>2, <2>3, <2>4 DEF TypeOK
<1>5. ASSUME NEW u \in Threads
      PROVE  HoldsOf(u)'
  <2>1. HoldsOf(u)
    BY <1>1 DEF HoldInv
  <2>2. QED
    BY <1>1, <1>2, <2>1, Facts, ThreadsAssumption DEF TypeOK, HoldsOf, ModeInv
<1>6. ModeInv'
  BY <1>1, Facts, ThreadsAssumption DEF TypeOK, ModeInv
<1>7. CountsAgree'
  <2>1. \A u \in Threads : shared_owners[u] = 0
    BY <1>1, Facts DEF TypeOK
  <2>2. Cardinality(SharedHolds) = 0 /\ Cardinality(SharedHolds') = Len(shared_queue)
    BY <1>1, <2>1, SharedIssue DEF QueueInv
  <2>3. Len(shared_queue) \in Nat
    BY <1>1, LenProperties DEF TypeOK
  <2>4. QED
    BY <1>1, <2>2, <2>3 DEF CountsAgree
<1>8. QueueInv'
  <2>1. Queued(<<>>) = {} /\ Injective(<<>>)
    BY DEF Queued, Injective
  <2>2. Len(shared_queue) > 0
    BY <1>1, EmptySeq DEF TypeOK
  <2>3. \A u \in Threads : /\ pc'[u] = "wait_shared" <=> u \in Queued(shared_queue')
                           /\ pc'[u] = "wait_exclusive" <=> u \in Queued(exclusive_queue')
    BY <1>1, <1>2, <2>1 DEF QueueInv, TypeOK
  <2>4. is_shared' > 0
    BY <1>1, <2>2, LenProperties DEF TypeOK
  <2>5. QED
    BY <1>1, <2>1, <2>3, <2>4 DEF QueueInv
<1>9. QED
  BY <1>3, <1>4, <1>5, <1>6, <1>7, <1>8 DEF IInv, HoldInv

LEMMA StepHandToNextWriter ==
  ASSUME IInv, NEW t \in Threads, HandToNextWriter(t)
  PROVE  IInv'
<1> USE DEF HandToNextWriter, LastExclusive, Notify, lockvars, queuevars, waitervars
<1>1. TypeOK /\ HoldInv /\ HoldsOf(t) /\ ModeInv /\ CountsAgree /\ QueueInv /\ WaiterInv
  BY DEF IInv, HoldInv
<1>2. /\ NotifiedBy({Head(exclusive_queue)}) = {Head(exclusive_queue)}
      /\ {Head(exclusive_queue)} \subseteq Threads
      /\ \A u \in {Head(exclusive_queue)} : pc[u] = "wait_exclusive"
  BY <1>1, Facts DEF QueueInv
<1>3. WaiterInv'
  BY <1>1, <1>2, WaiterFrame DEF TypeOK
<1>4. TypeOK'
  <2>1. exclusive_queue' \in Seq(Threads)
    BY <1>1, QueuedTail DEF TypeOK, QueueInv
  <2>2. pc' \in [Threads -> PCs]
    BY <1>1 DEF TypeOK, PCs
  <2>3. writes' \in [Threads -> 0..MaxHold]
    <3>1. writes[t] \in 1..MaxHold
      BY <1>1 DEF TypeOK, HoldsOf
    <3>2. writes[t] - 1 \in 0..MaxHold
      BY <3>1, MaxHoldAssumption
    <3>3. writes \in [Threads -> 0..MaxHold] /\ writes' = [writes EXCEPT ![t] = @ - 1]
      BY <1>1 DEF TypeOK
    <3>4. QED
      BY <3>2, <3>3
  <2>4. QED
    BY <1>1, <1>2, <2>1, <2>2, <2>3 DEF TypeOK
<1>5. ASSUME NEW u \in Threads
      PROVE  HoldsOf(u)'
  <2>1. HoldsOf(u)
    BY <1>1 DEF HoldInv
  <2>2. QED
    <3>1. /\ Head(exclusive_queue) # t /\ writes[t] = 1
          /\ u = Head(exclusive_queue) => shared_owners[u] = 0 /\ reads[u] = 0 /\ writes[u] = 0
      BY <1>1, <1>2, <2>1 DEF HoldsOf
    <3>2. pc'[u] = IF u = Head(exclusive_queue) THEN "woken_exclusive" ELSE pc[u]
      BY <1>1, <1>2
    <3>3. QED
      <4>1. CASE u = Head(exclusive_queue)
        BY <1>1, <3>1, <3>2, <4>1 DEF TypeOK, HoldsOf
      <4>2. CASE u = t
        <5>1. writes'[t] = 0 /\ exclusive_owner' # t
          BY <1>1, <3>1 DEF TypeOK
        <5>2. pc'[t] = "running" /\ reads'[t] = shared_owners'[t]
          BY <1>1, <3>1, <3>2, <4>2 DEF HoldsOf
        <5>3. QED
          BY <4>2, <5>1, <5>2 DEF HoldsOf
      <4>3. CASE u # t /\ u # Head(exclusive_queue)
        BY <1>1, <2>1, <3>2, <4>3 DEF TypeOK, HoldsOf
      <4>4. QED
        BY <4>1, <4>2, <4>3
<1>6. ModeInv'
  BY <1>1, Facts, ThreadsAssumption DEF TypeOK, ModeInv
<1>7. CountsAgree'
  BY <1>1, CountsFrame
<1>8. QueueInv'
  BY <1>1, <1>2, Facts, QueuedAppend, QueuedTail, QueuedEmpty DEF QueueInv, TypeOK
<1>9. QED
  BY <1>3, <1>4, <1>5, <1>6, <1>7, <1>8 DEF IInv, HoldInv

LEMMA StepFreeExclusive ==
  ASSUME IInv, NEW t \in Threads, FreeExclusive(t)
  PROVE  IInv'
<1> USE DEF FreeExclusive, LastExclusive, lockvars, queuevars, waitervars
<1>1. TypeOK /\ HoldInv /\ HoldsOf(t) /\ ModeInv /\ CountsAgree /\ QueueInv /\ WaiterInv
  BY DEF IInv, HoldInv
<1>2. WaiterInv'
  BY WaiterFrame
<1>3. TypeOK'
  BY <1>1, Facts, MaxHoldAssumption DEF TypeOK, PCs, HoldsOf
<1>4. ASSUME NEW u \in Threads
      PROVE  HoldsOf(u)'
  <2>1. HoldsOf(u)
    BY <1>1 DEF HoldInv
  <2>2. QED
    BY <1>1, <2>1, Facts, ThreadsAssumption DEF TypeOK, HoldsOf, ModeInv
<1>5. ModeInv'
  BY <1>1, Facts, ThreadsAssumption DEF TypeOK, ModeInv
<1>6. CountsAgree'
  BY <1>1, CountsFrame
<1>7. QueueInv'
  BY <1>1, QueueFrame DEF QueueInv, TypeOK
<1>8. QED
  BY <1>2, <1>3, <1>4, <1>5, <1>6, <1>7 DEF IInv, HoldInv

LEMMA StepReleaseShared ==
  ASSUME IInv, NEW t \in Threads, ReleaseShared(t)
  PROVE  IInv'
<1> USE DEF ReleaseShared, DropShared, OwnsShared, lockvars, queuevars, waitervars
<1>1. TypeOK /\ HoldInv /\ HoldsOf(t) /\ ModeInv /\ CountsAgree /\ QueueInv /\ WaiterInv
  BY DEF IInv, HoldInv
<1>2. WaiterInv'
  BY WaiterFrame
<1>3. TypeOK'
  BY <1>1, Facts, MaxHoldAssumption DEF TypeOK, PCs, HoldsOf
<1>4. ASSUME NEW u \in Threads
      PROVE  HoldsOf(u)'
  <2>1. HoldsOf(u)
    BY <1>1 DEF HoldInv
  <2>2. QED
    BY <1>1, <2>1, Facts, ThreadsAssumption DEF TypeOK, HoldsOf, ModeInv
<1>5. ModeInv'
  BY <1>1, Facts, ThreadsAssumption DEF TypeOK, ModeInv
<1>6. CountsAgree'
  BY <1>1, Facts, SharedRemove DEF TypeOK, HoldsOf, CountsAgree, QueueInv
<1>7. QueueInv'
  BY <1>1, QueueFrame DEF QueueInv, TypeOK
<1>8. QED
  BY <1>2, <1>3, <1>4, <1>5, <1>6, <1>7 DEF IInv, HoldInv

LEMMA StepHandToWriter ==
  ASSUME IInv, NEW t \in Threads, HandToWriter(t)
  PROVE  IInv'
<1> USE DEF HandToWriter, DropShared, OwnsShared, Notify, lockvars, queuevars, waitervars
<1>1. TypeOK /\ HoldInv /\ HoldsOf(t) /\ ModeInv /\ CountsAgree /\ QueueInv /\ WaiterInv
  BY DEF IInv, HoldInv
<1>2. /\ NotifiedBy({Head(exclusive_queue)}) = {Head(exclusive_queue)}
      /\ {Head(exclusive_queue)} \subseteq Threads
      /\ \A u \in {Head(exclusive_queue)} : pc[u] = "wait_exclusive"
  BY <1>1, Facts DEF QueueInv
<1>3. WaiterInv'
  BY <1>1, <1>2, WaiterFrame DEF TypeOK
<1>4. TypeOK'
  <2>1. exclusive_queue' \in Seq(Threads)
    BY <1>1, QueuedTail DEF TypeOK, QueueInv
  <2>2. pc' \in [Threads -> PCs]
    BY <1>1 DEF TypeOK, PCs
  <2>3. reads' \in [Threads -> 0..MaxHold]
    <3>1. reads[t] \in 1..MaxHold
      BY <1>1 DEF TypeOK, HoldsOf
    <3>2. reads[t] - 1 \in 0..MaxHold
      BY <3>1, MaxHoldAssumption
    <3>3. reads \in [Threads -> 0..MaxHold] /\ reads' = [reads EXCEPT ![t] = @ - 1]
      BY <1>1 DEF TypeOK
    <3>4. QED
      BY <3>2, <3>3
  <2>4. shared_owners' \in [Threads -> Nat] /\ is_shared' \in Nat
    <3>1. shared_owners \in [Threads -> Nat] /\ is_shared \in Nat
      BY <1>1 DEF TypeOK
    <3>2. shared_owners[t] > 0
      OBVIOUS
    <3>3. shared_owners[t] - 1 \in Nat
      BY <3>1, <3>2
    <3>4. QED
      BY <3>1, <3>3
  <2>5. exclusive_owner' \in Threads /\ is_exclusive' \in Nat
    BY <1>1, <1>2 DEF TypeOK
  <2>6. QED
    BY <1>1, <2>1, <2>2, <2>3, <2>4, <2>5 DEF TypeOK
<1>5. ASSUME NEW u \in Threads
      PROVE  HoldsOf(u)'
  <2>1. HoldsOf(u)
    BY <1>1 DEF HoldInv
  <2>2. QED
    <3>1. /\ Head(exclusive_queue) # t
          /\ u = Head(exclusive_queue) => shared_owners[u] = 0 /\ reads[u] = 0 /\ writes[u] = 0
          /\ exclusive_owner # u
      BY <1>1, <1>2, <2>1, Facts DEF HoldsOf
    <3>2. pc'[u] = IF u = Head(exclusive_queue) THEN "woken_exclusive" ELSE pc[u]
      BY <1>1, <1>2
    <3>3. QED
      <4>1. CASE u = Head(exclusive_queue)
        BY <1>1, <3>1, <3>2, <4>1 DEF TypeOK, HoldsOf
      <4>2. CASE u = t
        BY <1>1, <3>1, <3>2, <4>2 DEF TypeOK, HoldsOf, ModeInv
      <4>3. CASE u # t /\ u # Head(exclusive_queue)
        BY <1>1, <2>1, <3>1, <3>2, <4>3 DEF TypeOK, HoldsOf
      <4>4. QED
        BY <4>1, <4>2, <4>3
<1>6. ModeInv'
  BY <1>1, Facts, ThreadsAssumption DEF TypeOK, ModeInv
<1>7. CountsAgree'
  BY <1>1, Facts, SharedRemove DEF TypeOK, HoldsOf, CountsAgree, QueueInv
<1>8. QueueInv'
  <2>1. /\ Queued(exclusive_queue') = Queued(exclusive_queue) \ {Head(exclusive_queue)}
        /\ Injective(exclusive_queue')
    BY <1>1, QueuedTail DEF QueueInv, TypeOK
  <2>2. \A u \in Threads : pc'[u] = IF u = Head(exclusive_queue) THEN "woken_exclusive" ELSE pc[u]
    BY <1>1, <1>2
  <2>3. \A u \in Threads : /\ pc'[u] = "wait_shared" <=> u \in Queued(shared_queue')
                           /\ pc'[u] = "wait_exclusive" <=> u \in Queued(exclusive_queue')
    BY <1>1, <1>2, <2>1, <2>2 DEF QueueInv
  <2>4. is_exclusive' > 0
    BY <1>1 DEF TypeOK
  <2>5. QED
    BY <1>1, <2>1, <2>3, <2>4 DEF QueueInv
<1>9. QED
  BY <1>3, <1>4, <1>5, <1>6, <1>7, <1>8 DEF IInv, HoldInv

LEMMA StepFreeShared ==
  ASSUME IInv, NEW t \in Threads, FreeShared(t)
  PROVE  IInv'
<1> USE DEF FreeShared, DropShared, OwnsShared, lockvars, queuevars, waitervars
<1>1. TypeOK /\ HoldInv /\ HoldsOf(t) /\ ModeInv /\ CountsAgree /\ QueueInv /\ WaiterInv
  BY DEF IInv, HoldInv
<1>2. WaiterInv'
  BY WaiterFrame
<1>3. TypeOK'
  BY <1>1, Facts, MaxHoldAssumption DEF TypeOK, PCs, HoldsOf
<1>4. ASSUME NEW u \in Threads
      PROVE  HoldsOf(u)'
  <2>1. HoldsOf(u)
    BY <1>1 DEF HoldInv
  <2>2. QED
    BY <1>1, <2>1, Facts, ThreadsAssumption DEF TypeOK, HoldsOf, ModeInv
<1>5. ModeInv'
  BY <1>1, Facts, ThreadsAssumption DEF TypeOK, ModeInv
<1>6. CountsAgree'
  BY <1>1, Facts, SharedRemove DEF TypeOK, HoldsOf, CountsAgree, QueueInv
<1>7. QueueInv'
  BY <1>1, QueueFrame DEF QueueInv, TypeOK
<1>8. QED
  BY <1>2, <1>3, <1>4, <1>5, <1>6, <1>7 DEF IInv, HoldInv
-----------------------------------------------------------------------------
LEMMA InitIInv == Init => IInv
<1> SUFFICES ASSUME Init PROVE IInv
  OBVIOUS
<1> USE ThreadsAssumption, MaxHoldAssumption DEF Init
<1>1. TypeOK
  BY EmptySeq DEF TypeOK, PCs
<1>2. HoldInv /\ ModeInv
  BY DEF HoldInv, HoldsOf, ModeInv
<1>3. CountsAgree
  <2>1. SharedHolds = {}
    BY DEF SharedHolds
  <2>2. QED
    BY <2>1, FS_EmptySet DEF CountsAgree
<1>4. QueueInv
  BY DEF QueueInv, Queued, Injective
<1>5. WaiterInv
  <2>1. Cardinality(Threads) \in Nat
    BY FS_CardinalityType
  <2>2. QED
    BY <2>1 DEF WaiterInv
<1>6. QED
  BY <1>1, <1>2, <1>3, <1>4, <1>5 DEF IInv

LEMMA StutterIInv ==
  ASSUME IInv, UNCHANGED vars
  PROVE  IInv'
<1>1. TypeOK' /\ HoldInv' /\ ModeInv'
  BY DEF IInv, vars, TypeOK, HoldInv, HoldsOf, ModeInv
<1>2. CountsAgree'
  BY CountsFrame DEF IInv, vars
<1>3. QueueInv'
  BY QueueFrame DEF IInv, vars, queuevars, QueueInv
<1>4. WaiterInv'
  BY WaiterFrame DEF IInv, vars, waitervars
<1>5. QED
  BY <1>1, <1>2, <1>3, <1>4 DEF IInv

LEMMA NextIInv == IInv /\ [Next]_vars => IInv'
<1> SUFFICES ASSUME IInv, [Next]_vars
             PROVE  IInv'
  OBVIOUS
<1>1. CASE UNCHANGED vars
  BY <1>1, StutterIInv
<1>2. ASSUME NEW t \in Threads, Acquire(t)
      PROVE  IInv'
  BY <1>2, StepReacquireShared, StepGrantShared, StepQueueShared, StepReacquireExclusive,
     StepGrantExclusive, StepQueueExclusive, StutterIInv
     DEF Acquire, RefuseShared, RefuseExclusive
<1>3. ASSUME NEW t \in Threads, Wake(t)
      PROVE  IInv'
  BY <1>3, StepWakeShared, StepWakeExclusive DEF Wake
<1>4. ASSUME NEW t \in Threads, Release(t)
      PROVE  IInv'
  BY <1>4, StepReleaseNestedExclusive, StepHandToReaders, StepHandToNextWriter,
     StepFreeExclusive, StepReleaseShared, StepHandToWriter, StepFreeShared DEF Release
<1>5. ASSUME NEW t \in Threads, ReleaseUnheld(t)
      PROVE  IInv'
  BY <1>5, StutterIInv DEF ReleaseUnheld
<1>6. QED
  BY <1>1, <1>2, <1>3, <1>4, <1>5 DEF Next

\* The lock's books, the queues and the Conditions agree in every reachable
\* state (every method of SHLock).
THEOREM Invariance == Spec => []IInv
<1>1. QED
  BY InitIInv, NextIInv, PTL DEF Spec

\* Every variable stays in its type, and no thread nests deeper than it may.
THEOREM TypeCorrect == Spec => []TypeOK
<1>1. IInv => TypeOK
  BY DEF IInv
<1>2. QED
  BY Invariance, <1>1, PTL

\* What a thread sees of its own locks follows from the lock's mode: while the
\* lock is not exclusive nobody writes; while it is, nobody reads and only the
\* recorded owner writes.
LEMMA View ==
  ASSUME IInv
  PROVE  /\ is_exclusive = 0 => \A u \in Threads : writes[u] = 0
         /\ is_shared = 0 => \A u \in Threads : reads[u] = 0
         /\ \A u \in Threads : exclusive_owner # u => writes[u] = 0
<1>1. TypeOK /\ HoldInv /\ ModeInv
  BY DEF IInv
<1>2. ASSUME NEW u \in Threads
      PROVE  /\ exclusive_owner # u => writes[u] = 0
             /\ reads[u] = 0 \/ reads[u] = shared_owners[u]
  BY <1>1 DEF HoldInv, HoldsOf
<1>3. ASSUME is_exclusive = 0, NEW u \in Threads
      PROVE  writes[u] = 0
  BY <1>1, <1>2, <1>3, ThreadsAssumption DEF ModeInv
<1>4. ASSUME is_shared = 0, NEW u \in Threads
      PROVE  reads[u] = 0
  <2>1. shared_owners[u] \in Nat /\ ~(shared_owners[u] > 0)
    BY <1>1, <1>4, Facts DEF TypeOK
  <2>2. QED
    BY <1>2, <2>1
<1>5. QED
  BY <1>2, <1>3, <1>4

\* Readers and a writer, or two writers, are never inside their with-blocks at
\* the same time (the docstring of create_locks).
THEOREM Exclusion == Spec => []MutualExclusion
<1>1. ASSUME IInv
      PROVE  MutualExclusion
  <2>1. TypeOK /\ ModeInv
    BY <1>1 DEF IInv
  <2>2. ASSUME NEW t \in Threads, NEW u \in Threads, writes[t] > 0
        PROVE  reads[u] = 0 /\ (u # t => writes[u] = 0)
    <3>1. is_exclusive # 0 /\ exclusive_owner = t
      BY <1>1, <2>2, View
    <3>2. is_shared = 0
      BY <2>1, <3>1 DEF TypeOK, ModeInv
    <3>3. QED
      BY <1>1, <3>1, <3>2, View
  <2>3. QED
    BY <2>2 DEF MutualExclusion
<1>2. QED
  BY Invariance, <1>1, PTL

\* The assert statements of acquire, _acquire_shared and release hold.
THEOREM AssertionsHold == Spec => []SourceAssertions
<1>1. ASSUME IInv
      PROVE  SourceAssertions
  <2>1. TypeOK /\ HoldInv /\ ModeInv /\ QueueInv
    BY <1>1 DEF IInv
  <2>2. ~(is_shared > 0 /\ is_exclusive > 0)
    BY <2>1 DEF TypeOK, ModeInv
  <2>3. is_shared = 0 /\ is_exclusive = 0 => shared_queue = <<>> /\ exclusive_queue = <<>>
    BY <2>1 DEF QueueInv
  <2>4. \A t \in Threads : pc[t] = "woken_shared" => is_exclusive = 0
    BY <1>1, <2>1, Facts DEF HoldInv, HoldsOf
  <2>5. QED
    BY <2>2, <2>3, <2>4 DEF SourceAssertions
<1>2. QED
  BY Invariance, <1>1, PTL

\* The counter is_shared is the number of shared locks the dict records.
THEOREM CounterCorrect == Spec => []CountsAgree
<1>1. IInv => CountsAgree
  BY DEF IInv
<1>2. QED
  BY Invariance, <1>1, PTL

\* No Condition is ever waited on by two threads or free while waited on, and
\* however often threads wait there are never more Conditions than threads:
\* _return_waiter gives back what _take_waiter made.
THEOREM ConditionsSafe == Spec => []ConditionsRecycled
<1>1. IInv => ConditionsRecycled
  BY DEF IInv, WaiterInv, ConditionsRecycled
<1>2. QED
  BY Invariance, <1>1, PTL

\* A queue without repetitions is as long as the set of its threads is large.
LEMMA QueuedCardinality ==
  ASSUME NEW q \in Seq(Threads), Injective(q)
  PROVE  Cardinality(Queued(q)) = Len(q)
<1>1. q \in [1..Len(q) -> Threads] /\ Len(q) \in Nat /\ DOMAIN q = 1..Len(q)
  BY LenProperties
<1>2. q \in Bijection(1..Len(q), Queued(q))
  <2>1. q \in [1..Len(q) -> Queued(q)]
    BY <1>1 DEF Queued
  <2>2. \A i, j \in 1..Len(q) : q[i] = q[j] => i = j
    BY <1>1 DEF Injective
  <2>3. \A t \in Queued(q) : \E i \in 1..Len(q) : q[i] = t
    BY <1>1 DEF Queued
  <2>4. QED
    BY <2>1, <2>2, <2>3, Fun_IsBij
<1>3. IsFiniteSet(1..Len(q)) /\ Cardinality(1..Len(q)) = Len(q)
  BY <1>1, IntervalCardinality
<1>4. QED
  BY <1>2, <1>3, FS_Bijection DEF ExistsBijection

\* Whenever a thread waits, the lock is held by a thread that runs or was
\* notified: what a waiting thread owns is nothing (HoldInv).
LEMMA SomeoneHolds ==
  ASSUME IInv, NEW t \in Threads, Waits(t)
  PROVE  \E u \in Threads : Holds(u)
<1>1. TypeOK /\ HoldInv /\ ModeInv /\ CountsAgree /\ QueueInv
  BY DEF IInv
<1>2. is_exclusive > 0 \/ is_shared > 0
  <2>1. t \in Queued(shared_queue) \/ t \in Queued(exclusive_queue)
    BY <1>1 DEF QueueInv, Waits
  <2>2. shared_queue # <<>> \/ exclusive_queue # <<>>
    BY <1>1, <2>1, QueuedEmpty DEF TypeOK
  <2>3. QED
    BY <1>1, <2>2 DEF QueueInv
<1>3. CASE is_exclusive > 0
  <2>1. exclusive_owner \in Threads
    BY <1>1, <1>3 DEF TypeOK, ModeInv
  <2>2. pc[exclusive_owner] \in {"running", "woken_exclusive"}
    BY <1>1, <2>1 DEF TypeOK, PCs, HoldInv, HoldsOf
  <2>3. pc[exclusive_owner] = "running" => writes[exclusive_owner] = is_exclusive
    BY <1>1, <2>1 DEF HoldInv, HoldsOf
  <2>4. Holds(exclusive_owner)
    BY <1>1, <1>3, <2>1, <2>2, <2>3, MaxHoldAssumption DEF TypeOK, Holds
  <2>5. QED
    BY <2>1, <2>4
<1>4. CASE is_shared > 0
  <2>1. SharedHolds # {}
    BY <1>1, <1>4, FS_EmptySet, SharedHoldsFinite DEF CountsAgree
  <2>2. PICK u \in Threads : shared_owners[u] > 0
    BY <1>1, <2>1, MaxHoldAssumption DEF TypeOK, SharedHolds
  <2>3. pc[u] \in {"running", "woken_shared"}
    <3>1. pc[u] \in PCs
      BY <1>1 DEF TypeOK
    <3>2. pc[u] \in {"wait_shared", "wait_exclusive", "woken_exclusive"} => shared_owners[u] = 0
      BY <1>1 DEF HoldInv, HoldsOf
    <3>3. QED
      BY <2>2, <3>1, <3>2 DEF PCs
  <2>4. pc[u] = "running" => reads[u] = shared_owners[u]
    BY <1>1 DEF HoldInv, HoldsOf
  <2>5. Holds(u)
    BY <1>1, <2>2, <2>3, <2>4, MaxHoldAssumption DEF TypeOK, Holds
  <2>6. QED
    BY <2>5
<1>5. QED
  BY <1>2, <1>3, <1>4

\* A thread blocked in wait() can always be found by a release, and the
\* thread that will call it is not asleep itself.
THEOREM WaitersQueued == Spec => []NoLostWaiter
<1>1. ASSUME IInv
      PROVE  NoLostWaiter
  <2>1. TypeOK /\ QueueInv
    BY <1>1 DEF IInv
  <2>2. /\ Cardinality(Queued(shared_queue)) = Len(shared_queue)
        /\ Cardinality(Queued(exclusive_queue)) = Len(exclusive_queue)
    BY <2>1, QueuedCardinality DEF TypeOK, QueueInv
  <2>3. (\E t \in Threads : Waits(t)) => \E u \in Threads : Holds(u)
    BY <1>1, SomeoneHolds
  <2>4. QED
    BY <2>1, <2>2, <2>3 DEF QueueInv, NoLostWaiter
<1>2. QED
  BY Invariance, <1>1, PTL
-----------------------------------------------------------------------------
(* Refinement. *)

LEMMA StepSimulation == IInv /\ [Next]_vars => [RW!Next]_<<reads, writes>>
<1> SUFFICES ASSUME IInv, [Next]_vars
             PROVE  RW!Next \/ UNCHANGED <<reads, writes>>
  OBVIOUS
<1> USE DEF RW!Next
<1>1. TypeOK /\ HoldInv /\ ModeInv
  BY DEF IInv
<1>2. CASE UNCHANGED vars
  BY <1>2 DEF vars
<1>3. ASSUME NEW t \in Threads, ReacquireShared(t) \/ GrantShared(t) \/ WakeShared(t)
      PROVE  RW!AcquireRead(t)
  <2>1. is_exclusive = 0
    <3>1. CASE ReacquireShared(t)
      BY <1>1, <3>1 DEF ReacquireShared, TypeOK, ModeInv
    <3>2. CASE GrantShared(t)
      BY <1>1, <3>2 DEF GrantShared, SharedMustWait, TypeOK
    <3>3. CASE WakeShared(t)
      BY <1>1, <3>3, Facts DEF WakeShared, HoldInv, HoldsOf
    <3>4. QED
      BY <1>3, <3>1, <3>2, <3>3
  <2>2. reads' = [reads EXCEPT ![t] = @ + 1] /\ UNCHANGED writes
    BY <1>3 DEF ReacquireShared, GrantShared, WakeShared
  <2>3. QED
    BY <2>1, <2>2, View DEF RW!AcquireRead
<1>4. ASSUME NEW t \in Threads, ReacquireExclusive(t) \/ GrantExclusive(t) \/ WakeExclusive(t)
      PROVE  RW!AcquireWrite(t)
  <2>1. is_shared = 0 /\ \A u \in Threads \ {t} : exclusive_owner # u
    <3>1. CASE ReacquireExclusive(t)
      BY <1>1, <3>1, Facts DEF ReacquireExclusive, ModeInv
    <3>2. CASE GrantExclusive(t)
      BY <1>1, <3>2, ThreadsAssumption DEF GrantExclusive, ExclusiveMustWait, TypeOK, ModeInv
    <3>3. CASE WakeExclusive(t)
      BY <1>1, <3>3 DEF WakeExclusive, HoldInv, HoldsOf, ModeInv
    <3>4. QED
      BY <1>4, <3>1, <3>2, <3>3
  <2>2. writes' = [writes EXCEPT ![t] = @ + 1] /\ UNCHANGED reads
    BY <1>4 DEF ReacquireExclusive, GrantExclusive, WakeExclusive
  <2>3. QED
    BY <2>1, <2>2, View DEF RW!AcquireWrite
<1>5. ASSUME NEW t \in Threads, ReleaseNestedExclusive(t) \/ LastExclusive(t)
      PROVE  RW!ReleaseWrite(t)
  <2>1. writes[t] > 0
    BY <1>1, <1>5 DEF ReleaseNestedExclusive, LastExclusive, HoldInv, HoldsOf, TypeOK
  <2>2. writes' = [writes EXCEPT ![t] = @ - 1] /\ UNCHANGED reads
    BY <1>5 DEF ReleaseNestedExclusive, LastExclusive
  <2>3. QED
    BY <2>1, <2>2 DEF RW!ReleaseWrite
<1>6. ASSUME NEW t \in Threads, DropShared(t)
      PROVE  RW!ReleaseRead(t)
  BY <1>1, <1>6 DEF DropShared, OwnsShared, HoldInv, HoldsOf, RW!ReleaseRead
<1>7. ASSUME NEW t \in Threads, Acquire(t) \/ Wake(t) \/ Release(t) \/ ReleaseUnheld(t)
      PROVE  RW!Next \/ UNCHANGED <<reads, writes>>
  <2>1. CASE Acquire(t)
    BY <2>1, <1>3, <1>4 DEF Acquire, QueueShared, RefuseShared, QueueExclusive, RefuseExclusive, vars
  <2>2. CASE Wake(t)
    BY <2>2, <1>3, <1>4 DEF Wake
  <2>3. CASE Release(t)
    BY <2>3, <1>5, <1>6 DEF Release, HandToReaders, HandToNextWriter, FreeExclusive,
       ReleaseShared, HandToWriter, FreeShared
  <2>4. CASE ReleaseUnheld(t)
    BY <2>4 DEF ReleaseUnheld, vars
  <2>5. QED
    BY <1>7, <2>1, <2>2, <2>3, <2>4
<1>8. QED
  BY <1>2, <1>7 DEF Next

\* SHLock is the read/write lock that create_locks() promises its callers.
THEOREM Refinement == Spec => ImplementsRWLock
<1>1. Init => RW!Init
  BY DEF Init, RW!Init
<1>2. QED
  BY <1>1, Invariance, StepSimulation, PTL DEF Spec, ImplementsRWLock, RW!Spec, RW!rwvars
=============================================================================
