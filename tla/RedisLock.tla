------------------------------ MODULE RedisLock ------------------------------
(***************************************************************************)
(* The lock every job takes around its work (app/infrastructure/locks.py): *)
(* one Redis key holding the token of the lock object that set it, with a  *)
(* time to live.  A key whose time has run out is an absent key, so the    *)
(* record has one shape for both.  Time is counted in ticks; one object    *)
(* (one uuid token) per job, so the job's slot stands for its token.       *)
(***************************************************************************)
EXTENDS Values

Unlocked == [owner |-> None, ttl |-> 0]  \* the key is absent or has expired

LockRecords(Slots, TTL) == {Unlocked} \cup [owner : Slots, ttl : 1..TTL]

\* SET key token NX EX ttl: succeeds only on an absent key.
CanAcquire(lock) == lock.ttl = 0

Acquired(slot, ttl) == [owner |-> slot, ttl |-> ttl]

\* Mutated form of Released: DEL without the comparison of the token.
ReleasedUnchecked(lock, slot) == Unlocked

\* The release script: delete the key if it still holds this object's token.
Released(lock, slot) == IF lock.owner = slot THEN Unlocked ELSE lock

\* Redis counts the time to live down and drops the key at zero.
Elapsed(lock) ==
    IF lock.ttl <= 1 THEN Unlocked ELSE [lock EXCEPT !.ttl = @ - 1]
=============================================================================
