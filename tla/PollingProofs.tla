---------------------------- MODULE PollingProofs ----------------------------
(***************************************************************************)
(* Proofs about Polling for any schedulers, workers, delays and bounds.    *)
(* Until a live job loses the poll lock, the job at work owns it and       *)
(* nothing but this job counts errors: what it has loaded of the count is  *)
(* still what the row says when it writes.                                 *)
(***************************************************************************)
EXTENDS Polling, TLAPS

-----------------------------------------------------------------------------
(* The values that the operations compute *)

\* The delay after an error is one that the dates can have.
LEMMA BackoffTyped == \A errors : Backoff(errors) \in Dates
BY PollingAssumption DEF Backoff, Dates

\* Counting stops at the limit.
LEMMA MoreTyped == \A errors \in 0..MaxErrors : More(errors) \in 0..MaxErrors
BY PollingAssumption DEF More

\* A date that comes nearer stays a date.
LEMMA NearerTyped == \A due \in Maybe(Dates) : Nearer(due) \in Maybe(Dates)
BY PollingAssumption, NoneIsNoNumber DEF Nearer, Maybe, Dates

LEMMA NearerDated == \A due \in Dates : Nearer(due) \in Dates
BY PollingAssumption, NoneIsNoNumber DEF Nearer, Dates

\* Giving a row a date, or none, and switching it on or off keeps it a row.
LEMMA RedatedTyped ==
    ASSUME NEW r \in Rows, NEW date \in Maybe(Dates)
    PROVE  /\ [r EXCEPT !.due = date] \in Rows
           /\ [r EXCEPT !.active = TRUE, !.due = date] \in Rows
           /\ [r EXCEPT !.active = FALSE, !.due = date] \in Rows
<1>1. TRUE \in BOOLEAN /\ FALSE \in BOOLEAN
    BY Zenon
<1> QED BY <1>1 DEF Rows

\* The row after an error is a row.
LEMMA FailedTyped ==
    ASSUME NEW r \in Rows, NEW loaded \in 0..MaxErrors
    PROVE  Failed(r, loaded) \in Rows
<1> DEFINE counted == [r EXCEPT !.errors = More(loaded), !.due = Backoff(More(loaded))]
<1>1. counted \in Rows
    BY BackoffTyped, MoreTyped DEF Rows, Maybe
<1>2. Stopped(counted) \in Rows
    BY <1>1, RedatedTyped DEF Stopped, Maybe
<1> QED BY <1>1, <1>2 DEF Failed

\* The row after a poll that got a state is a row.
LEMMA SucceededTyped ==
    ASSUME NEW r \in Rows,
           NEW j \in [pc : {"page"}, clears : BOOLEAN, closed : BOOLEAN, due : Maybe(Dates)]
    PROVE  Succeeded(r, j) \in Rows
<1>1. (r.active /\ ~j.closed) \in BOOLEAN /\ (r.closed \/ j.closed) \in BOOLEAN
    BY Zenon
<1>2. (IF j.clears THEN 0 ELSE r.errors) \in 0..MaxErrors
    BY PollingAssumption DEF Rows
<1> QED BY <1>1, <1>2 DEF Succeeded, Rows

-----------------------------------------------------------------------------
(* Types *)

\* Every step keeps the types.
LEMMA TypeOKStep == TypeOK /\ [Next]_vars => TypeOK'
<1> SUFFICES ASSUME TypeOK, [Next]_vars PROVE TypeOK'
    OBVIOUS
<1> USE PollingAssumption, NoneIsNoNumber
<1>1. CASE Tick
    <2>1. row' \in Rows
        BY <1>1, NearerTyped DEF Tick, TypeOK, Rows
    <2>2. plan' \in [Schedulers -> Maybe(Plans)]
        BY <1>1, NearerDated DEF Tick, TypeOK, Plans, Maybe
    <2>3. job' \in [Workers -> Maybe(Jobs)]
        <3>1. ASSUME NEW w \in Workers, At(w, "page")
              PROVE  [job[w] EXCEPT !.due = Nearer(@)] \in Jobs
            <4>1. job[w] \in [pc : {"page"}, clears : BOOLEAN, closed : BOOLEAN,
                             due : Maybe(Dates)]
                BY <3>1 DEF At, TypeOK, Jobs, Maybe
            <4> QED BY <4>1, NearerTyped DEF Jobs
        <3> QED BY <1>1, <3>1 DEF Tick, TypeOK, Maybe
    <2> QED BY <1>1, <2>1, <2>2, <2>3 DEF Tick, TypeOK
<1>2. CASE LockExpires \/ TickLockExpires
    BY <1>2 DEF LockExpires, TickLockExpires, Elapsed, LockRecords, Unlocked, Maybe, TypeOK
<1>3. CASE AddWatch \/ RemoveWatch
    <2>1. row \in Rows /\ {0, Grace} \subseteq Maybe(Dates)
        BY DEF TypeOK, Dates, Maybe
    <2>2. Resumed(row) \in Rows /\ Unwatched(row) \in Rows
        BY <2>1, RedatedTyped DEF Resumed, Unwatched
    <2>3. row' \in {row, Resumed(row), Unwatched(row)}
        BY <1>3 DEF AddWatch, RemoveWatch
    <2>4. row' \in Rows
        BY <2>1, <2>2, <2>3
    <2> QED BY <1>3, <2>4 DEF AddWatch, RemoveWatch, TypeOK
<1>4. ASSUME NEW s \in Schedulers, SchedulerReads(s) PROVE TypeOK'
    <2>1. plan' \in [Schedulers -> Maybe(Plans)]
        BY <1>4 DEF SchedulerReads, TypeOK, Plans, Maybe, Dates
    <2>2. tickLock' \in LockRecords(Schedulers, 1)
        BY <1>4 DEF SchedulerReads, Acquired, LockRecords
    <2> QED BY <1>4, <2>1, <2>2 DEF SchedulerReads, TypeOK
<1>5. ASSUME NEW s \in Schedulers, SchedulerCommits(s) PROVE TypeOK'
    <2>1. plan[s] \in Plans
        BY <1>5 DEF SchedulerCommits, TypeOK, Maybe
    <2>2. Planned(row, plan[s]) \in Rows
        BY <2>1, RedatedTyped DEF Planned, Stopped, Plans, Maybe, TypeOK
    <2> QED BY <1>5, <2>2 DEF SchedulerCommits, Released, LockRecords, Unlocked, Maybe, TypeOK
<1>6. ASSUME NEW s \in Schedulers, SchedulerFails(s) \/ SchedulerDies(s) PROVE TypeOK'
    BY <1>6 DEF SchedulerFails, SchedulerDies, Released, LockRecords, Unlocked, Maybe, TypeOK
<1>7. ASSUME NEW w \in Workers, Start(w) PROVE TypeOK'
    <2>1. job' \in [Workers -> Maybe(Jobs)]
        BY <1>7 DEF Start, TypeOK, Jobs, Maybe, Rows
    <2> QED BY <1>7, <2>1 DEF Start, Acquired, LockRecords, TypeOK
<1>8. ASSUME NEW w \in Workers, Skip(w) PROVE TypeOK'
    BY <1>8 DEF Skip, TypeOK
<1>9. ASSUME NEW w \in Workers, NEW e \in Failures, AskFails(w, e) PROVE TypeOK'
    <2>1. job[w] \in [pc : {"loaded"}, errors : 0..MaxErrors]
        BY <1>9 DEF AskFails, At, TypeOK, Jobs, Maybe
    <2>2. Failed(row, job[w].errors) \in Rows /\ Stopped(row) \in Rows
        BY <2>1, FailedTyped, RedatedTyped DEF Stopped, Maybe, TypeOK
    <2>3. job' \in [Workers -> Maybe(Jobs)]
        BY <1>9 DEF AskFails, TypeOK, Jobs, Maybe
    <2>4. streak' \in Maybe(0..MaxErrors)
        BY <1>9, MoreTyped DEF AskFails, TypeOK, Overlapped, Maybe
    <2> QED BY <1>9, <2>2, <2>3, <2>4 DEF AskFails, TypeOK
<1>10. ASSUME NEW w \in Workers, NEW a \in Answers, AskSucceeds(w, a) PROVE TypeOK'
    <2>1. job[w] \in [pc : {"loaded"}, errors : 0..MaxErrors]
        BY <1>10 DEF AskSucceeds, At, TypeOK, Jobs, Maybe
    <2>2. (a.content = "closed") \in BOOLEAN
        BY Zenon
    <2>3. (job[w].errors # 0) \in BOOLEAN
        BY Zenon
    <2>4. \A interval \in Intervals :
              (IF a.content = "closed" THEN None ELSE interval) \in Maybe(Dates)
        BY DEF Maybe, Dates
    <2>5. \A date \in Maybe(Dates) :
              [pc |-> "page", clears |-> job[w].errors # 0, closed |-> a.content = "closed",
               due |-> date] \in Jobs
        BY <2>2, <2>3 DEF Jobs
    <2>6. job' \in [Workers -> Maybe(Jobs)]
        BY <1>10, <2>4, <2>5 DEF AskSucceeds, TypeOK, Maybe
    <2> QED BY <1>10, <2>6 DEF AskSucceeds, TypeOK
<1>11. ASSUME NEW w \in Workers, Commit(w) PROVE TypeOK'
    <2>1. job[w] \in [pc : {"page"}, clears : BOOLEAN, closed : BOOLEAN, due : Maybe(Dates)]
        BY <1>11 DEF Commit, At, TypeOK, Jobs, Maybe
    <2>2. Succeeded(row, job[w]) \in Rows
        BY <2>1, SucceededTyped DEF TypeOK
    <2>3. job' \in [Workers -> Maybe(Jobs)]
        BY <1>11 DEF Commit, TypeOK, Jobs, Maybe
    <2> QED BY <1>11, <2>2, <2>3 DEF Commit, TypeOK, Maybe
<1>12. ASSUME NEW w \in Workers, Finish(w) \/ Crash(w) PROVE TypeOK'
    BY <1>12 DEF Finish, Crash, Released, LockRecords, Unlocked, Maybe, TypeOK
<1>13. CASE UNCHANGED vars
    BY <1>13 DEF vars, TypeOK
<1> QED BY <1>1, <1>2, <1>3, <1>4, <1>5, <1>6, <1>7, <1>8, <1>9, <1>10, <1>11, <1>12, <1>13
        DEF Next, Command, Ticking, Poll, Ask

\* Type correctness of the polling of an auction; every delay, the back-off
\* included, stays within its limit.
THEOREM PollingTypeCorrect == Spec => []TypeOK
<1>1. Init => TypeOK
    <2> SUFFICES ASSUME Init PROVE TypeOK
        OBVIOUS
    <2>1. TRUE \in BOOLEAN /\ FALSE \in BOOLEAN
        BY Zenon
    <2>2. row \in Rows
        BY <2>1, PollingAssumption DEF Init, Rows, Maybe, Dates
    <2>3. /\ tickLock \in LockRecords(Schedulers, 1) /\ lock \in LockRecords(Workers, 1)
          /\ plan \in [Schedulers -> Maybe(Plans)] /\ job \in [Workers -> Maybe(Jobs)]
        BY DEF Init, LockRecords, Maybe
    <2>4. streak \in Maybe(0..MaxErrors)
        BY PollingAssumption DEF Init, Maybe
    <2> QED BY <2>2, <2>3, <2>4, PollingAssumption DEF Init, TypeOK
<1> QED BY <1>1, TypeOKStep, PTL DEF Spec

-----------------------------------------------------------------------------
(* Errors *)

\* A job at work owns the poll lock.
Owned == \A w \in Workers : job[w] # None => lock.owner = w

\* The row counts the failures in a row, and what a job has loaded of the count
\* is still true.
Counted == /\ row.errors = streak
           /\ \A w \in Workers :
                 /\ At(w, "loaded") => job[w].errors = row.errors
                 /\ At(w, "page") => (job[w].clears <=> row.errors # 0)

\* Once a live job has lost the poll lock, that is remembered.
LEMMA OverlappedStep == TypeOK /\ [Next]_vars /\ ~Overlapped' => ~Overlapped
BY DEF Next, Command, Ticking, Poll, Ask, vars, Overlapped, Tick, LockExpires,
       TickLockExpires, AddWatch, RemoveWatch, SchedulerReads, SchedulerCommits,
       SchedulerFails, SchedulerDies, Start, Skip, AskFails, AskSucceeds, Commit, Finish, Crash

\* A job that takes the lock is the only one, until a live one loses it.
LEMMA OwnedStep ==
    ASSUME TypeOK, Owned, [Next]_vars, ~Overlapped' PROVE Owned'
<1> USE PollingAssumption, NoneIsNoNumber DEF Owned
<1>1. CASE Tick
    BY <1>1 DEF Tick, At
<1>2. CASE LockExpires
    <2>1. lock \in [owner : Workers, ttl : 1..1] /\ job[lock.owner] = None
        BY <1>2 DEF LockExpires, TypeOK, LockRecords, Overlapped
    <2>2. \A w \in Workers : job[w] = None
        BY <2>1
    <2> QED BY <1>2, <2>2 DEF LockExpires
<1>3. ASSUME NEW w \in Workers, Start(w) PROVE Owned'
    <2>1. lock = Unlocked
        BY <1>3 DEF Start, CanAcquire, TypeOK, LockRecords
    <2>2. \A v \in Workers : job[v] = None
        BY <2>1 DEF Unlocked
    <2>3. lock'.owner = w
        BY <1>3 DEF Start, Acquired
    <2> QED BY <1>3, <2>2, <2>3 DEF Start, TypeOK
<1>4. ASSUME NEW w \in Workers, Ask(w) \/ Commit(w) PROVE Owned'
    BY <1>4 DEF Ask, AskFails, AskSucceeds, Commit, At, TypeOK
<1>5. ASSUME NEW w \in Workers, Finish(w) PROVE Owned'
    <2>1. \A v \in Workers : v # w => job[v] = None
        BY <1>5 DEF Finish
    <2> QED BY <1>5, <2>1 DEF Finish, TypeOK
<1>6. ASSUME NEW w \in Workers, Skip(w) \/ Crash(w) PROVE Owned'
    BY <1>6 DEF Skip, Crash, TypeOK
<1>7. CASE TickLockExpires \/ Command \/ (\E s \in Schedulers : Ticking(s))
    BY <1>7 DEF TickLockExpires, Command, AddWatch, RemoveWatch, Ticking, SchedulerReads,
                SchedulerCommits, SchedulerFails, SchedulerDies
<1>8. CASE UNCHANGED vars
    BY <1>8 DEF vars
<1> QED BY <1>1, <1>2, <1>3, <1>4, <1>5, <1>6, <1>7, <1>8 DEF Next, Poll

\* Only the job at work writes the count: commands and ticks leave it alone.
LEMMA CountedStep ==
    ASSUME TypeOK, Owned, Counted, [Next]_vars, ~Overlapped, ~Overlapped' PROVE Counted'
<1> USE PollingAssumption, NoneIsNoNumber DEF Counted
<1>1. CASE Tick
    <2>1. row'.errors = row.errors /\ streak' = streak
        BY <1>1 DEF Tick, TypeOK, Rows
    <2>2. ASSUME NEW w \in Workers, At(w, "page")
          PROVE  job'[w].pc = "page" /\ job'[w].clears = job[w].clears
        <3>1. job[w] \in [pc : {"page"}, clears : BOOLEAN, closed : BOOLEAN, due : Maybe(Dates)]
            BY <2>2 DEF At, TypeOK, Jobs, Maybe
        <3>2. job'[w] = [job[w] EXCEPT !.due = Nearer(@)]
            BY <1>1, <2>2 DEF Tick
        <3> QED BY <3>1, <3>2
    <2>3. ASSUME NEW w \in Workers, ~At(w, "page") PROVE job'[w] = job[w]
        BY <1>1, <2>3 DEF Tick
    <2> QED BY <2>1, <2>2, <2>3 DEF At
<1>2. CASE LockExpires \/ TickLockExpires
    BY <1>2 DEF LockExpires, TickLockExpires, At, Overlapped
<1>3. CASE Command
    <2>1. row'.errors = row.errors
        <3>1. row \in Rows
            BY DEF TypeOK
        <3>2. row' \in {row, Resumed(row), Unwatched(row)}
            BY <1>3 DEF Command, AddWatch, RemoveWatch
        <3> QED BY <3>1, <3>2 DEF Resumed, Unwatched, Rows
    <2>2. UNCHANGED <<job, streak>>
        BY <1>3 DEF Command, AddWatch, RemoveWatch
    <2> QED BY <2>1, <2>2 DEF At
<1>4. ASSUME NEW s \in Schedulers, Ticking(s) PROVE Counted'
    <2>1. row'.errors = row.errors
        <3>1. row \in Rows /\ plan[s] \in Maybe(Plans)
            BY DEF TypeOK
        <3>2. row' = row \/ (plan[s] # None /\ row' = Planned(row, plan[s]))
            <4>1. SchedulerCommits(s) => plan[s] # None /\ row' = Planned(row, plan[s])
                BY DEF SchedulerCommits
            <4>2. SchedulerReads(s) \/ SchedulerFails(s) \/ SchedulerDies(s) => row' = row
                BY DEF SchedulerReads, SchedulerFails, SchedulerDies
            <4> QED BY <1>4, <4>1, <4>2 DEF Ticking
        <3>3. Stopped(row).errors = row.errors
            BY <3>1 DEF Stopped, Rows
        <3>4. \A date : [row EXCEPT !.due = date].errors = row.errors
            BY <3>1 DEF Rows
        <3>5. plan[s] # None => plan[s].kind \in {"rest", "stop", "push"}
            BY <3>1 DEF Plans, Maybe
        <3>6. plan[s] # None => Planned(row, plan[s]).errors = row.errors
            BY <3>3, <3>4, <3>5 DEF Planned
        <3> QED BY <3>2, <3>6
    <2>2. UNCHANGED <<job, streak>>
        BY <1>4 DEF Ticking, SchedulerReads, SchedulerCommits, SchedulerFails, SchedulerDies
    <2> QED BY <2>1, <2>2 DEF At
<1>5. ASSUME NEW w \in Workers, Start(w) PROVE Counted'
    BY <1>5 DEF Start, At, TypeOK
<1>6. ASSUME NEW w \in Workers, NEW e \in Failures, AskFails(w, e) PROVE Counted'
    <2>1. row'.errors = streak'
        <3>1. job[w].errors = streak /\ row \in Rows
            BY <1>6 DEF AskFails, TypeOK
        <3>2. Failed(row, streak).errors = More(streak) /\ Stopped(row).errors = row.errors
            BY <3>1 DEF Failed, Stopped, Rows
        <3> QED BY <1>6, <3>1, <3>2 DEF AskFails, Overlapped
    <2>2. \A v \in Workers : v # w => job[v] = None
        BY <1>6 DEF AskFails, At, Owned
    <2>3. \A v \in Workers : ~At(v, "loaded")' /\ ~At(v, "page")'
        BY <1>6, <2>2 DEF AskFails, At, TypeOK
    <2> QED BY <2>1, <2>3
<1>7. ASSUME NEW w \in Workers, NEW a \in Answers, AskSucceeds(w, a) PROVE Counted'
    <2>1. job[w].errors = row.errors /\ row.errors \in 0..MaxErrors
        BY <1>7 DEF AskSucceeds, TypeOK, Rows
    <2>2. job'[w].pc = "page" /\ (job'[w].clears <=> row.errors # 0)
        <3>1. PICK interval \in Intervals :
                job' = [job EXCEPT ![w] =
                          [pc |-> "page", clears |-> job[w].errors # 0,
                           closed |-> a.content = "closed",
                           due |-> IF a.content = "closed" THEN None ELSE interval]]
            BY <1>7 DEF AskSucceeds
        <3>2. job'[w].pc = "page" /\ job'[w].clears = (job[w].errors # 0)
            BY <3>1, Zenon DEF TypeOK
        <3> QED BY <2>1, <3>2, Zenon
    <2>3. \A v \in Workers : v # w => job'[v] = job[v]
        BY <1>7 DEF AskSucceeds
    <2>4. UNCHANGED <<row, streak>>
        BY <1>7 DEF AskSucceeds
    <2> QED BY <2>1, <2>2, <2>3, <2>4 DEF At
<1>8. ASSUME NEW w \in Workers, Commit(w) PROVE Counted'
    <2>1. row'.errors = 0 /\ streak' = 0
        BY <1>8 DEF Commit, Succeeded, At, Overlapped
    <2>2. \A v \in Workers : v # w => job[v] = None
        BY <1>8 DEF Commit, At, Owned
    <2>3. \A v \in Workers : ~At(v, "loaded")' /\ ~At(v, "page")'
        BY <1>8, <2>2 DEF Commit, At, TypeOK
    <2> QED BY <2>1, <2>3
<1>9. ASSUME NEW w \in Workers, Skip(w) \/ Finish(w) \/ Crash(w) PROVE Counted'
    BY <1>9 DEF Skip, Finish, Crash, At, TypeOK
<1>10. CASE UNCHANGED vars
    BY <1>10 DEF vars, At
<1> QED BY <1>1, <1>2, <1>3, <1>4, <1>5, <1>6, <1>7, <1>8, <1>9, <1>10
        DEF Next, Poll, Ask

\* The errors of refusals, server errors, timeouts and unreadable pages are the
\* ones that monitoring counts, and no other error is.
LEMMA TemporaryIsPassing ==
    \A a \in Answers : Raised(a) \in Failures => (Raised(a) \in Passing <=> Temporary(a))
BY DEF Answers, Raised, Failures, Passing, Temporary

\* Temporary errors stop the monitoring after exactly MaxErrors in a row and any
\* other at once, whatever schedulers, commands and dying jobs do in between, for
\* as long as no live job has lost the poll lock.
THEOREM ErrorsStopOnTime == Spec => StopsAfterErrorsInARow
<1> DEFINE IInv == ~Overlapped => Owned /\ Counted
<1> DEFINE StopsNow ==
        ~Overlapped =>
          \A w \in Workers, a \in Answers :
            Raised(a) \in Failures /\ AskFails(w, Raised(a)) /\ row.active
              => (row'.active <=> Temporary(a) /\ streak' < MaxErrors)
<1>1. Init => IInv
    BY DEF Init, Owned, Counted, At
<1>2. TypeOK /\ IInv /\ [Next]_vars => IInv'
    BY OverlappedStep, OwnedStep, CountedStep
<1>3. TypeOK /\ IInv /\ [Next]_vars => [StopsNow]_vars
    <2> SUFFICES ASSUME TypeOK, Counted, ~Overlapped, NEW w \in Workers, NEW a \in Answers,
                        Raised(a) \in Failures, AskFails(w, Raised(a)), row.active
                 PROVE  row'.active <=> Temporary(a) /\ streak' < MaxErrors
        OBVIOUS
    <2>1. CASE ~Temporary(a)
        <3>1. row' = Stopped(row)
            BY <2>1, TemporaryIsPassing DEF AskFails
        <3> QED BY <2>1, <3>1 DEF Stopped, TypeOK, Rows
    <2>2. CASE Temporary(a)
        <3>1. row' = Failed(row, job[w].errors) /\ streak' = More(streak)
            BY <2>2, TemporaryIsPassing DEF AskFails
        <3>2. job[w].errors = streak /\ streak \in 0..MaxErrors
            BY DEF AskFails, Counted, TypeOK, Overlapped, Maybe
        <3>3. MaxErrors \in Nat /\ More(streak) \in Nat
            BY <3>2, MoreTyped, PollingAssumption
        <3> DEFINE counted == [row EXCEPT !.errors = More(streak), !.due = Backoff(More(streak))]
        <3>4. counted.active
            BY DEF TypeOK, Rows
        <3>5. CASE More(streak) >= MaxErrors
            <4>1. row' = Stopped(counted)
                BY <3>1, <3>2, <3>5 DEF Failed
            <4>2. ~row'.active
                BY <4>1 DEF Stopped, TypeOK, Rows
            <4>3. ~(More(streak) < MaxErrors)
                BY <3>3, <3>5
            <4> QED BY <3>1, <4>2, <4>3, Zenon
        <3>6. CASE ~(More(streak) >= MaxErrors)
            <4>1. row' = counted
                BY <3>1, <3>2, <3>6 DEF Failed
            <4>2. More(streak) < MaxErrors
                BY <3>3, <3>6
            <4> QED BY <2>2, <3>1, <3>4, <4>1, <4>2, Zenon
        <3> QED BY <3>5, <3>6
    <2> QED BY <2>1, <2>2
<1>4. [][StopsNow]_vars => StopsAfterErrorsInARow
    BY PTL DEF StopsAfterErrorsInARow
<1> QED BY <1>1, <1>2, <1>3, <1>4, PollingTypeCorrect, PTL DEF Spec
=============================================================================
