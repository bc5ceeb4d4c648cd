----------------------------- MODULE Admission ------------------------------
(***************************************************************************)
(* What the requests of the portal share: the threads of the pool that     *)
(* run_in_threadpool uses, the semaphores behind admit() and the database  *)
(* locks behind _begin() and _end() of src/middleware/app/grants.py.       *)
(* Portal says who takes them, and when.                                   *)
(***************************************************************************)
EXTENDS Naturals, FiniteSets

CONSTANTS Tasks,       \* requests the portal can serve at once
          Pages,       \* requests of pages that need no session
          Reconciler,  \* the thread of reconcile_loop
          None,        \* nobody
          Dbs,         \* databases
          Limit,       \* MAX_ISSUE_OPS, MAX_REVOKE_OPS, MAX_AUTH_OPS, MAX_SESSION_CHECKS
          PoolSize     \* threads of the pool

Kinds == {"issue", "revoke", "auth", "session"}

ASSUME AdmissionAssumption ==
    /\ IsFiniteSet(Tasks) /\ IsFiniteSet(Pages)
    /\ Tasks \cap Pages = {}
    /\ Reconciler \notin Tasks
    /\ None \notin Tasks \cup {Reconciler} \cup Kinds
    /\ Limit \in [Kinds -> Nat]
    /\ PoolSize \in Nat \ {0}

VARIABLES
    free,   \* _admission: the value of each semaphore
    held,   \* the kind of the semaphore a request is inside of, or None
    lock,   \* _db_locks
    pool    \* requests that occupy a thread of the pool

shared == <<free, held, lock, pool>>

SharedInit ==
    /\ free = Limit
    /\ held = [t \in Tasks |-> None]
    /\ lock = [d \in Dbs |-> None]
    /\ pool = {}

SharedTypeOK ==
    /\ free \in [Kinds -> Nat]
    /\ held \in [Tasks -> Kinds \cup {None}]
    /\ lock \in [Dbs -> Tasks \cup {Reconciler, None}]
    /\ pool \subseteq Tasks \cup Pages /\ Cardinality(pool) <= PoolSize

\* Faulty: every request gets a thread at once.
EnterAnyway(t) == pool' = pool \cup {t}

\* run_in_threadpool: the request waits for a thread, in the order of arrival.
EnterPool(t) == Cardinality(pool) < PoolSize /\ pool' = pool \cup {t}
LeavePool(t) == pool' = pool \ {t}

\* admit: the semaphore is taken without waiting ...
Admit(t, k) ==
    /\ free[k] > 0
    /\ free' = [free EXCEPT ![k] = @ - 1]
    /\ held' = [held EXCEPT ![t] = k]

\* ... or the request is refused (Busy).
Full(k) == free[k] = 0

\* Faulty: the semaphore is released, but not when Busy passes through.
ReleaseButBusy(t, busy) ==
    /\ held' = [held EXCEPT ![t] = None]
    /\ free' = [k \in Kinds |-> IF k = held[t] /\ ~busy THEN free[k] + 1 ELSE free[k]]

\* The end of the block of admit, however it is left. A request that is not
\* inside of one releases nothing.
Release(t, busy) ==
    /\ held' = [held EXCEPT ![t] = None]
    /\ free' = [k \in Kinds |-> IF k = held[t] THEN free[k] + 1 ELSE free[k]]

\* _begin: the lock is free ...
Acquire(t, d) == lock[d] = None /\ lock' = [lock EXCEPT ![d] = t]

\* Faulty: the lock is waited for without a limit.
NeverTimesOut(t, d) == FALSE

\* ... or others have it for 60 seconds, after which _begin raises Busy.
TimesOut(t, d) == lock[d] \notin {None, t}

\* _end
Unlock(t) == lock' = [d \in Dbs |-> IF lock[d] = t THEN None ELSE lock[d]]

Unlocked(t) == \A d \in Dbs : lock[d] # t

\* The value of a semaphore and the requests inside of its block make up the
\* limit.
SlotsAreKept ==
    \A k \in Kinds : free[k] + Cardinality({t \in Tasks : held[t] = k}) = Limit[k]
=============================================================================
