------------------------------- MODULE RWLock -------------------------------
(***************************************************************************)
(* What the docstring of create_locks() in src/calibre/db/locking.py       *)
(* promises of the pair (read_lock, write_lock): any number of threads may *)
(* hold the read lock, any of them several times; one thread may hold the  *)
(* write lock, several times, and then nobody holds the read lock.  How    *)
(* waiting threads are queued and woken is left to the implementation,     *)
(* module SHLock.                                                          *)
(***************************************************************************)
EXTENDS Naturals

CONSTANTS Threads   \* the threads that use the library

VARIABLES reads,    \* reads[t]: read locks the code of thread t is inside of
          writes    \* writes[t]: write locks the code of thread t is inside of

rwvars == <<reads, writes>>

Init == /\ reads = [t \in Threads |-> 0]
        /\ writes = [t \in Threads |-> 0]

\* A thread may start (or nest) a read when no thread is writing.
AcquireRead(t) == /\ \A u \in Threads : writes[u] = 0
                  /\ reads' = [reads EXCEPT ![t] = @ + 1]
                  /\ UNCHANGED writes

\* A thread may start (or nest) a write when it reads nothing itself and no
\* other thread reads or writes.
AcquireWrite(t) == /\ \A u \in Threads : reads[u] = 0
                   /\ \A u \in Threads \ {t} : writes[u] = 0
                   /\ writes' = [writes EXCEPT ![t] = @ + 1]
                   /\ UNCHANGED reads

ReleaseRead(t) == /\ reads[t] > 0
                  /\ reads' = [reads EXCEPT ![t] = @ - 1]
                  /\ UNCHANGED writes

ReleaseWrite(t) == /\ writes[t] > 0
                   /\ writes' = [writes EXCEPT ![t] = @ - 1]
                   /\ UNCHANGED reads

Next == \E t \in Threads : \/ AcquireRead(t)
                           \/ AcquireWrite(t)
                           \/ ReleaseRead(t)
                           \/ ReleaseWrite(t)

Spec == Init /\ [][Next]_rwvars
=============================================================================
