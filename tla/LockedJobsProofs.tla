-------------------------- MODULE LockedJobsProofs --------------------------
(***************************************************************************)
(* Proofs about LockedJobs for any set of slots and any times.  The        *)
(* invariant that makes the lock work relates the two timers: a running    *)
(* job owns a key whose life is the lock's time to live minus the job's    *)
(* age.  It is inductive because a job never outlives the key, which is    *)
(* the assumption the theorems make: the job timeout is below the TTL.     *)
(***************************************************************************)
EXTENDS LockedJobs, TLAPS

\* Every step keeps the types.
LEMMA TypeOKStep == TypeOK /\ [Next]_vars => TypeOK'
<1> SUFFICES ASSUME TypeOK, [Next]_vars PROVE TypeOK'
    OBVIOUS
<1> USE NoneAssumption, NoneIsNoNumber, TimesAssumption
<1> USE DEF Maybe, TypeOK, LockRecords, Unlocked, Running
<1>1. ASSUME NEW s \in Slots, Acquire(s) PROVE TypeOK'
    BY <1>1 DEF Acquire, Acquired
<1>2. ASSUME NEW s \in Slots, Finish(s) PROVE TypeOK'
    BY <1>2 DEF Finish, Released
<1>3. ASSUME NEW s \in Slots, Crash(s) PROVE TypeOK'
    BY <1>3 DEF Crash
<1>4. CASE Tick
    <2>1. lock' \in LockRecords(Slots, LockTTL)
        <3>1. CASE lock.ttl <= 1
            BY <1>4, <3>1 DEF Tick, Elapsed
        <3>2. CASE ~(lock.ttl <= 1)
            <4>1. lock \in [owner : Slots, ttl : 1..LockTTL]
                BY <3>2
            <4>2. lock.ttl - 1 \in 1..LockTTL
                BY <3>2, <4>1
            <4> QED BY <1>4, <3>2, <4>1, <4>2 DEF Tick, Elapsed
        <3> QED BY <3>1, <3>2
    <2>2. ASSUME NEW s \in Slots PROVE age'[s] \in Maybe(0..JobTimeout)
        <3>1. CASE age[s] = None
            BY <1>4, <3>1 DEF Tick
        <3>2. CASE age[s] # None
            <4>1. age[s] \in 0..JobTimeout /\ age[s] < JobTimeout
                BY <1>4, <3>2 DEF Tick
            <4> QED BY <1>4, <3>2, <4>1 DEF Tick
        <3> QED BY <3>1, <3>2
    <2>3. age' = [s \in Slots |-> age'[s]]
        BY <1>4 DEF Tick
    <2> QED BY <2>1, <2>2, <2>3
<1>5. CASE UNCHANGED vars
    BY <1>5 DEF vars
<1> QED BY <1>1, <1>2, <1>3, <1>4, <1>5 DEF Next

\* Type correctness: the key and the ages stay within their ranges, whatever
\* the relation between the job timeout and the life of the lock.
THEOREM TypeCorrect == Spec => []TypeOK
<1>1. Init => TypeOK
    BY DEF Init, TypeOK, Maybe, LockRecords, Unlocked
<1> QED BY <1>1, TypeOKStep, PTL DEF Spec

-----------------------------------------------------------------------------
\* A running job owns the key, and what is left of the key's life and the
\* job's age add up to the time to live.
Timed == \A s \in Slots :
            Running(s) => lock.owner = s /\ lock.ttl = LockTTL - age[s]

\* The timers of a job and of its key run in step.
LEMMA TimedStep ==
    ASSUME JobTimeout < LockTTL, TypeOK, Timed, [Next]_vars
    PROVE  Timed'
<1> USE NoneAssumption, NoneIsNoNumber, TimesAssumption
<1> USE DEF Maybe, TypeOK, LockRecords, Unlocked, Running, Timed
<1>1. ASSUME NEW s \in Slots, Acquire(s) PROVE Timed'
    <2>1. \A r \in Slots : ~Running(r)
        BY <1>1 DEF Acquire, CanAcquire
    <2> QED BY <1>1, <2>1 DEF Acquire, Acquired
<1>2. ASSUME NEW s \in Slots, Finish(s) PROVE Timed'
    <2>1. \A r \in Slots : r # s => ~Running(r)
        BY <1>2 DEF Finish
    <2> QED BY <1>2, <2>1 DEF Finish
<1>3. ASSUME NEW s \in Slots, Crash(s) PROVE Timed'
    BY <1>3 DEF Crash
<1>4. CASE Tick
    <2> SUFFICES ASSUME NEW s \in Slots, age'[s] # None
                 PROVE  lock'.owner = s /\ lock'.ttl = LockTTL - age'[s]
        OBVIOUS
    <2>1. age[s] # None /\ age'[s] = age[s] + 1
        BY <1>4 DEF Tick
    <2>2. age[s] \in 0..JobTimeout /\ age[s] < JobTimeout
        BY <1>4, <2>1 DEF Tick
    <2>3. lock.owner = s /\ lock.ttl = LockTTL - age[s] /\ lock.ttl > 1
        BY <2>1, <2>2
    <2>4. lock' = [lock EXCEPT !.ttl = @ - 1]
        BY <1>4, <2>3 DEF Tick, Elapsed
    <2> QED BY <2>1, <2>2, <2>3, <2>4
<1>5. CASE UNCHANGED vars
    BY <1>5 DEF vars
<1> QED BY <1>1, <1>2, <1>3, <1>4, <1>5 DEF Next

\* The inductive invariant of the lock holds throughout.
LEMMA TimedInvariant ==
    ASSUME JobTimeout < LockTTL PROVE Spec => [](TypeOK /\ Timed)
<1>1. Init => TypeOK /\ Timed
    BY DEF Init, TypeOK, Maybe, LockRecords, Unlocked, Timed, Running
<1>2. TypeOK /\ Timed /\ [Next]_vars => (TypeOK /\ Timed)'
    BY TypeOKStep, TimedStep
<1> QED BY <1>1, <1>2, PTL DEF Spec

\* An auction is never polled by two jobs at once (README.md:34-36), provided
\* a job is cancelled before its lock can expire.
THEOREM ExclusivePolls ==
    ASSUME JobTimeout < LockTTL PROVE Spec => []Exclusive
<1>1. TypeOK /\ Timed => Exclusive
    BY DEF Timed, Exclusive
<1> QED BY <1>1, TimedInvariant, PTL

\* A key whose time runs out is a dead job's, under the same assumption: what the
\* models without timers assume of their locks.
THEOREM LockOutlivesJob ==
    ASSUME JobTimeout < LockTTL
    PROVE  Spec => [][lock # Unlocked /\ Tick /\ lock' = Unlocked
                        => ~Running(lock.owner)]_vars
<1> DEFINE Outlived == lock # Unlocked /\ Tick /\ lock' = Unlocked => ~Running(lock.owner)
<1>1. TypeOK /\ Timed /\ [Next]_vars => [Outlived]_vars
    <2> SUFFICES ASSUME TypeOK, Timed, lock # Unlocked, Tick, Running(lock.owner)
                 PROVE  lock' # Unlocked
        OBVIOUS
    <2>1. lock.owner \in Slots
        BY DEF TypeOK, LockRecords
    <2>2. lock.ttl = LockTTL - age[lock.owner]
        BY <2>1 DEF Timed
    <2>3. age[lock.owner] \in Nat /\ age[lock.owner] < JobTimeout
        BY <2>1, TimesAssumption DEF TypeOK, Maybe, Tick, Running
    <2>4. ~(lock.ttl <= 1)
        BY <2>2, <2>3, TimesAssumption
    <2>5. lock' = [lock EXCEPT !.ttl = @ - 1] /\ lock.owner # None
        BY <2>1, <2>4, NoneAssumption DEF Tick, Elapsed
    <2> QED BY <2>5 DEF Unlocked, TypeOK, LockRecords
<1> QED BY <1>1, TimedInvariant, PTL DEF Spec

-----------------------------------------------------------------------------
\* At most one job runs, so the running job is the one the mapping chooses.
LEMMA HolderIs ==
    ASSUME Exclusive
    PROVE  /\ \A s \in Slots : Running(s) => Holder = s
           /\ (\A s \in Slots : ~Running(s)) => Holder = None
BY DEF Exclusive, Holder

\* Under the same proviso the jobs of one auction implement a mutex: a poll
\* starts only when no other poll of the auction is running.
THEOREM JobsImplementMutex ==
    ASSUME JobTimeout < LockTTL PROVE Spec => ImplementsMutex
<1> USE NoneAssumption, NoneIsNoNumber, TimesAssumption
<1>1. Init => M!Init
    BY DEF Init, M!Init, Holder, Running
<1>2. ASSUME TypeOK, Timed, TypeOK', Timed', [Next]_vars
      PROVE  [M!Next]_Holder
    <2>1. Exclusive /\ Exclusive'
        BY <1>2 DEF Timed, Exclusive
    <2>2. /\ \A s \in Slots : Running(s) => Holder = s
          /\ (\A s \in Slots : ~Running(s)) => Holder = None
        BY <2>1, HolderIs
    <2>3. /\ \A s \in Slots : Running(s)' => Holder' = s
          /\ (\A s \in Slots : ~Running(s)') => Holder' = None
        BY <2>1 DEF Exclusive, Holder
    <2>4. ASSUME NEW s \in Slots, Acquire(s) PROVE M!Next
        <3>1. \A r \in Slots : ~Running(r)
            BY <1>2, <2>4 DEF Acquire, CanAcquire, Timed, TypeOK, Running
        <3>2. Running(s)'
            BY <2>4, <1>2 DEF Acquire, TypeOK, Running
        <3> QED BY <2>2, <2>3, <3>1, <3>2 DEF M!Next, M!Enter
    <2>5. ASSUME NEW s \in Slots, Finish(s) \/ Crash(s) PROVE M!Next
        <3>1. Running(s) /\ \A r \in Slots : ~Running(r)'
            BY <1>2, <2>1, <2>5 DEF Finish, Crash, Exclusive, TypeOK, Running
        <3> QED BY <2>2, <2>3, <3>1 DEF M!Next, M!Leave
    <2>6. CASE Tick \/ UNCHANGED vars
        <3>1. \A s \in Slots : Running(s)' <=> Running(s)
            BY <1>2, <2>6 DEF Tick, vars, TypeOK, Maybe, Running
        <3> QED BY <2>2, <2>3, <3>1
    <2> QED BY <1>2, <2>4, <2>5, <2>6 DEF Next
<1> QED BY <1>1, <1>2, TimedInvariant, PTL DEF Spec, ImplementsMutex, M!Spec
=============================================================================
