----------------------------- MODULE LockedJobs -----------------------------
(***************************************************************************)
(* The jobs of all workers that poll the same auction                      *)
(* (app/workers/tasks.py, poll_auction), reduced to the lock they take:    *)
(* a slot is one of the concurrent jobs of one of the worker processes.    *)
(* The lock lives for LockTTL ticks (poll_lock_ttl_seconds); the queue     *)
(* library cancels a job after JobTimeout ticks (WorkerSettings), so a     *)
(* tick waits for the jobs whose time is up.  A killed process leaves the  *)
(* lock behind.  Timers count down or up to a limit: no clock is bounded.  *)
(***************************************************************************)
EXTENDS RedisLock

CONSTANTS Slots,       \* job slots of all workers
          LockTTL,     \* time to live of the lock, in ticks
          JobTimeout   \* longest run of a job, in ticks

ASSUME NoneAssumption == None \notin Slots

ASSUME TimesAssumption == LockTTL \in Nat \ {0} /\ JobTimeout \in Nat

VARIABLES lock,        \* the key auction:{id}:poll-lock
          age          \* [Slots -> ticks since the job took the lock, or None]

vars == <<lock, age>>

Running(s) == age[s] # None

TypeOK == /\ lock \in LockRecords(Slots, LockTTL)
          /\ age \in [Slots -> Maybe(0..JobTimeout)]

Init == /\ lock = Unlocked
        /\ age = [s \in Slots |-> None]

-----------------------------------------------------------------------------
\* Mutated form of Acquire: SET without NX.
AcquireAlways(s) ==
    /\ ~Running(s)
    /\ lock' = Acquired(s, LockTTL)
    /\ age' = [age EXCEPT ![s] = 0]

\* acquire() succeeds and the job enters its critical section.  When the key
\* is taken the job returns "locked" and changes nothing.
Acquire(s) ==
    /\ ~Running(s)
    /\ CanAcquire(lock)
    /\ lock' = Acquired(s, LockTTL)
    /\ age' = [age EXCEPT ![s] = 0]

\* The job returns, raises or is cancelled: release() in its finally clause.
Finish(s) ==
    /\ Running(s)
    /\ lock' = Released(lock, s)
    /\ age' = [age EXCEPT ![s] = None]

\* The process dies: nobody releases the lock.
Crash(s) ==
    /\ Running(s)
    /\ age' = [age EXCEPT ![s] = None]
    /\ UNCHANGED lock

\* Mutated form of Tick: the key never expires.
TickForever ==
    /\ \A s \in Slots : Running(s) => age[s] < JobTimeout
    /\ age' = [s \in Slots |-> IF Running(s) THEN age[s] + 1 ELSE None]
    /\ UNCHANGED lock

\* Mutated form of Tick: jobs are not cancelled when their time is up.
TickOverdue ==
    /\ age' = [s \in Slots |-> IF Running(s) THEN age[s] + 1 ELSE None]
    /\ lock' = Elapsed(lock)

Tick ==
    /\ \A s \in Slots : Running(s) => age[s] < JobTimeout
    /\ age' = [s \in Slots |-> IF Running(s) THEN age[s] + 1 ELSE None]
    /\ lock' = Elapsed(lock)

Next == Tick \/ \E s \in Slots : Acquire(s) \/ Finish(s) \/ Crash(s)

Spec == Init /\ [][Next]_vars

\* Time passes and the event loop returns to a job that can finish.
FairSpec == Spec /\ WF_vars(Tick) /\ \A s \in Slots : WF_vars(Finish(s))

-----------------------------------------------------------------------------
(* Properties *)

\* An auction is never polled by two jobs at once (README.md:34-36, the
\* docstring of poll_auction): at most one job is between acquire and release.
Exclusive == \A r, s \in Slots : Running(r) /\ Running(s) => r = s

\* A dead worker's lock frees itself (README.md:138): a key whose job is gone
\* does not stay with that job forever.
DeadHolderReleases ==
    \A s \in Slots :
        (lock.owner = s /\ ~Running(s)) ~> (lock.owner # s \/ Running(s))

\* The jobs of one auction as a mutex: whoever runs is the holder.
Holder == IF \E s \in Slots : Running(s)
          THEN CHOOSE s \in Slots : Running(s) ELSE None

M == INSTANCE Mutex WITH holder <- Holder

ImplementsMutex == M!Spec
=============================================================================
