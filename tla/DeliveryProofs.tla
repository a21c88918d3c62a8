--------------------------- MODULE DeliveryProofs ---------------------------
(***************************************************************************)
(* Proofs about Delivery for any workers, retries and bounds, whether or   *)
(* not locks last and processes die.  What a job knows is in its program   *)
(* counter: one that has read an answer of success has seen a delivery.    *)
(***************************************************************************)
EXTENDS Delivery, TLAPS

\* Every step keeps the types.
LEMMA TypeOKStep == TypeOK /\ [Next]_vars => TypeOK'
<1> SUFFICES ASSUME TypeOK, [Next]_vars PROVE TypeOK'
    OBVIOUS
<1> USE NoneIsNoNumber, DeliveryAssumption
<1> USE DEF Maybe, TypeOK, LockRecords, Unlocked, Jobs, At, Goto
<1>1. CASE GrowsOld \/ Recover \/ LinkDeleted
    <2>1. CASE GrowsOld
        <3>1. old' \in BOOLEAN
            BY <2>1, Zenon DEF GrowsOld
        <3> QED BY <2>1, <3>1 DEF GrowsOld
    <2>2. CASE Recover
        BY <2>2 DEF Recover
    <2>3. CASE LinkDeleted
        BY <2>3 DEF LinkDeleted
    <2> QED BY <1>1, <2>1, <2>2, <2>3
<1>2. CASE LockExpires
    BY <1>2 DEF LockExpires, Elapsed
<1>3. ASSUME NEW w \in Workers, Start(w) PROVE TypeOK'
    BY <1>3 DEF Start
<1>4. ASSUME NEW w \in Workers, TakeLock(w) PROVE TypeOK'
    BY <1>4 DEF TakeLock, Acquired
<1>5. ASSUME NEW w \in Workers, Accept(w) PROVE TypeOK'
    BY <1>5 DEF Accept, Delivered
<1>6. ASSUME NEW w \in Workers, AttemptFails(w) PROVE TypeOK'
    <2>1. delivered' \in 0..MaxDelivered
        BY <1>6 DEF AttemptFails, Delivered
    <2>2. job[w].attempt \in 1..(Retries + 1)
        BY <1>6 DEF AttemptFails, Asking
    <2>3. job' \in [Workers -> Maybe(Jobs)]
        <3>1. CASE job[w].attempt > Retries
            BY <1>6, <3>1 DEF AttemptFails
        <3>2. CASE ~(job[w].attempt > Retries)
            <4>1. job[w].attempt + 1 \in 1..(Retries + 1)
                BY <2>2, <3>2
            <4>2. \A wait : SleptAfter(w, wait) \in 0..JobTimeout
                BY DEF SleptAfter
            <4> QED BY <1>6, <3>2, <4>1, <4>2 DEF AttemptFails, TryAgainLater
        <3> QED BY <3>1, <3>2
    <2> QED BY <1>6, <2>1, <2>3 DEF AttemptFails
<1>7. ASSUME NEW w \in Workers, Refuse(w) PROVE TypeOK'
    BY <1>7 DEF Refuse
<1>8. ASSUME NEW w \in Workers, MarkSent(w) \/ MarkFailed(w) PROVE TypeOK'
    BY <1>8 DEF MarkSent, MarkFailed, Recorded
<1>9. ASSUME NEW w \in Workers, Release(w) \/ RunsOut(w) \/ Cancel(w) \/ Crash(w) PROVE TypeOK'
    BY <1>9 DEF Release, RunsOut, Cancelled, Cancel, Crash, Released
<1>10. CASE UNCHANGED vars
    BY <1>10 DEF vars
<1> QED BY <1>1, <1>2, <1>3, <1>4, <1>5, <1>6, <1>7, <1>8, <1>9, <1>10
        DEF Next, Around, Send

\* Type correctness of the delivery of an alert.
THEOREM DeliveryTypeCorrect == Spec => []TypeOK
<1>1. Init => TypeOK
    <2> SUFFICES ASSUME Init PROVE TypeOK
        OBVIOUS
    <2>1. old \in BOOLEAN
        BY Zenon DEF Init
    <2>2. queue \in 0..MaxQueue /\ delivered \in 0..MaxDelivered
        BY DeliveryAssumption DEF Init
    <2>3. lock \in LockRecords(Workers, 1) /\ job \in [Workers -> Maybe(Jobs)]
        BY DEF Init, LockRecords, Unlocked, Maybe
    <2> QED BY <2>1, <2>2, <2>3 DEF Init, TypeOK
<1> QED BY <1>1, TypeOKStep, PTL DEF Spec

-----------------------------------------------------------------------------
\* A job that has read Telegram's answer of success has seen a delivery.
AcceptedMeansDelivered == \A w \in Workers : At(w, "accepted") => delivered > 0

\* Both facts survive every step: a message is never taken back, and only a
\* job with an answer of success records the alert as sent.
LEMMA DeliveredStep ==
    ASSUME TypeOK, SentMeansDelivered, AcceptedMeansDelivered, [Next]_vars
    PROVE  (SentMeansDelivered /\ AcceptedMeansDelivered)'
<1> USE NoneIsNoNumber, DeliveryAssumption
<1> USE DEF SentMeansDelivered, AcceptedMeansDelivered, TypeOK, At, Goto, Maybe
<1> DEFINE Goal == (SentMeansDelivered /\ AcceptedMeansDelivered)'
<1>1. CASE GrowsOld \/ Recover \/ LinkDeleted \/ LockExpires
    BY <1>1 DEF GrowsOld, Recover, LinkDeleted, LockExpires
<1>2. ASSUME NEW w \in Workers, Start(w) PROVE Goal
    BY <1>2 DEF Start
<1>3. ASSUME NEW w \in Workers, TakeLock(w) PROVE Goal
    BY <1>3 DEF TakeLock
<1>4. ASSUME NEW w \in Workers, Accept(w) PROVE Goal
    <2>1. delivered' > 0
        BY <1>4 DEF Accept, Delivered
    <2> QED BY <1>4, <2>1 DEF Accept
<1>5. ASSUME NEW w \in Workers, AttemptFails(w) PROVE Goal
    <2>1. delivered' >= delivered
        BY <1>5 DEF AttemptFails, Delivered
    <2>2. ASSUME NEW v \in Workers, v # w PROVE job'[v] = job[v]
        BY <1>5, <2>2 DEF AttemptFails, TryAgainLater
    <2>3. ~At(w, "accepted")'
        <3>1. CASE job[w].attempt > Retries
            BY <1>5, <3>1 DEF AttemptFails
        <3>2. CASE ~(job[w].attempt > Retries)
            BY <1>5, <3>2 DEF AttemptFails, TryAgainLater
        <3> QED BY <3>1, <3>2
    <2>4. delivered > 0 => delivered' > 0
        BY <2>1, <1>5 DEF AttemptFails, Delivered
    <2>5. status' = status
        BY <1>5 DEF AttemptFails
    <2>6. ASSUME NEW v \in Workers, At(v, "accepted")' PROVE delivered' > 0
        BY <2>2, <2>3, <2>4, <2>6
    <2> QED BY <2>4, <2>5, <2>6
<1>6. ASSUME NEW w \in Workers, Refuse(w) PROVE Goal
    BY <1>6 DEF Refuse
<1>7. ASSUME NEW w \in Workers, MarkSent(w) PROVE Goal
    BY <1>7 DEF MarkSent, Recorded
<1>8. ASSUME NEW w \in Workers, MarkFailed(w) PROVE Goal
    BY <1>8 DEF MarkFailed, Recorded
<1>9. ASSUME NEW w \in Workers, Release(w) \/ RunsOut(w) \/ Cancel(w) \/ Crash(w) PROVE Goal
    BY <1>9 DEF Release, RunsOut, Cancelled, Cancel, Crash
<1>10. CASE UNCHANGED vars
    BY <1>10 DEF vars
<1> QED BY <1>1, <1>2, <1>3, <1>4, <1>5, <1>6, <1>7, <1>8, <1>9, <1>10
        DEF Next, Around, Send

\* What is recorded as sent has reached Telegram at least once, whatever dies,
\* is cancelled, is repeated or loses its lock.
THEOREM SentIsDelivered == Spec => []SentMeansDelivered
<1>1. Init => SentMeansDelivered /\ AcceptedMeansDelivered
    BY DEF Init, SentMeansDelivered, AcceptedMeansDelivered, At
<1>2. TypeOK /\ SentMeansDelivered /\ AcceptedMeansDelivered /\ [Next]_vars
        => (SentMeansDelivered /\ AcceptedMeansDelivered)'
    BY DeliveredStep
<1> QED BY <1>1, <1>2, DeliveryTypeCorrect, PTL DEF Spec
-----------------------------------------------------------------------------
\* What a step does to the key of a job that stays inside of its lock: it
\* expires, or it is left alone.
LEMMA KeyStep ==
    ASSUME TypeOK, [Next]_vars, NEW w \in Workers, Holding(w), Holding(w)', lock.owner = w
    PROVE  lock' = lock \/ LockExpires
<1> USE DEF TypeOK, Holding, At
<1>1. w # None
    BY DeliveryAssumption
<1>2. ~CanAcquire(lock)
    BY <1>1 DEF CanAcquire, LockRecords, Unlocked
<1>3. ASSUME NEW v \in Workers, TakeLock(v) PROVE lock' = lock
    BY <1>2, <1>3 DEF TakeLock
<1>4. ASSUME NEW v \in Workers, Release(v) \/ RunsOut(v) \/ Cancel(v) PROVE lock' = lock
    <2>1. job'[v] = None
        BY <1>4 DEF Release, RunsOut, Cancelled, Cancel
    <2>2. v # w
        BY <2>1
    <2> QED BY <1>4, <2>2 DEF Release, RunsOut, Cancelled, Cancel, Released
<1> QED BY <1>3, <1>4
        DEF Next, Around, Send, vars, GrowsOld, Recover, LinkDeleted, Start, Accept,
            AttemptFails, Refuse, MarkSent, MarkFailed, Crash

\* Once a job has taken the lock no other job takes its key away, whichever of
\* them are cancelled, die or outlive their own keys.
THEOREM HolderIsKept == Spec => HolderKeepsKey
<1> DEFINE Kept ==
        \A w \in Workers :
            Holding(w) /\ Holding(w)' /\ lock.owner = w => lock' = lock \/ LockExpires
<1>1. TypeOK /\ [Next]_vars => [Kept]_vars
    BY KeyStep
<1> QED BY <1>1, DeliveryTypeCorrect, PTL DEF Spec, HolderKeepsKey
-----------------------------------------------------------------------------
\* A lock that expires is not that of a job at work: what OneSender assumes of a
\* behaviour.
LockLasts == LockExpires => ~Holding(lock.owner)

\* The key is that of the job inside of the lock.
Owned == \A w \in Workers : Holding(w) => lock.owner = w

\* A job gets the key only when it is free, and keeps it until it lets it go.
LEMMA OwnedStep == ASSUME TypeOK, Owned, [Next]_vars, LockLasts PROVE Owned'
<1> USE DEF TypeOK, Owned, Holding, At, Goto, LockRecords, Unlocked
<1>1. CASE LockExpires
    <2>1. \A w \in Workers : ~Holding(w) /\ job' = job
        BY <1>1 DEF LockExpires, LockLasts
    <2> QED BY <2>1
<1>2. CASE lock' = lock /\ \A w \in Workers : Holding(w)' => Holding(w)
    BY <1>2
<1>3. ASSUME NEW w \in Workers, Start(w) PROVE Owned'
    BY <1>3 DEF Start
<1>4. ASSUME NEW w \in Workers, TakeLock(w) PROVE Owned'
    <2>1. CASE CanAcquire(lock)
        <3>1. \A v \in Workers : ~Holding(v)
            BY <2>1, DeliveryAssumption DEF CanAcquire
        <3> QED BY <1>4, <2>1, <3>1 DEF TakeLock, Acquired
    <2>2. CASE ~CanAcquire(lock)
        BY <1>4, <2>2 DEF TakeLock
    <2> QED BY <2>1, <2>2
<1>5. ASSUME NEW w \in Workers, \/ Accept(w) \/ AttemptFails(w) \/ Refuse(w)
                                \/ MarkSent(w) \/ MarkFailed(w)
      PROVE  Owned'
    <2>1. Holding(w) /\ lock' = lock
        BY <1>5 DEF Asking, Accept, AttemptFails, Refuse, MarkSent, MarkFailed
    <2>2. \A v \in Workers : v # w => job'[v] = job[v]
        BY <1>5 DEF Accept, AttemptFails, TryAgainLater, Refuse, MarkSent, MarkFailed
    <2> QED BY <2>1, <2>2
<1>6. ASSUME NEW w \in Workers, Release(w) \/ RunsOut(w) \/ Cancel(w) \/ Crash(w) PROVE Owned'
    <2>1. job'[w] = None /\ \A v \in Workers : v # w => job'[v] = job[v]
        BY <1>6 DEF Release, RunsOut, Cancelled, Cancel, Crash
    <2>2. lock' \in {lock, Released(lock, w)}
        BY <1>6 DEF Release, RunsOut, Cancelled, Cancel, Crash
    <2> QED BY <2>1, <2>2 DEF Released
<1> QED BY <1>1, <1>2, <1>3, <1>4, <1>5, <1>6
        DEF Next, Around, Send, vars, GrowsOld, Recover, LinkDeleted

\* As long as no job outlives its lock one job at most is sending the alert or
\* recording the answer, however many jobs the scheduler has queued for it and
\* whoever is cancelled or dies.
THEOREM OneSender ==
    Spec /\ [][LockLasts]_vars
        => [](\A v, w \in Workers : Holding(v) /\ Holding(w) => v = w)
<1>1. Init => Owned
    BY DEF Init, Owned, Holding
<1>2. TypeOK /\ Owned /\ [Next]_vars /\ [LockLasts]_vars => Owned'
    <2>1. TypeOK /\ UNCHANGED vars => ~LockExpires
        BY DEF TypeOK, LockRecords, vars, LockExpires, Elapsed
    <2> QED BY <2>1, OwnedStep DEF LockLasts
<1>3. Owned => \A v, w \in Workers : Holding(v) /\ Holding(w) => v = w
    BY DEF Owned
<1> QED BY <1>1, <1>2, <1>3, DeliveryTypeCorrect, PTL DEF Spec
=============================================================================
