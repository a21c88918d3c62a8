-------------------------- MODULE MonitoringProofs --------------------------
(***************************************************************************)
(* Proofs about Monitoring for any users, workers, pages, times and        *)
(* bounds, and whether or not a job may outlive the poll lock.             *)
(***************************************************************************)
EXTENDS Monitoring, DomainProofs

-----------------------------------------------------------------------------
(* The values that the operations compute *)

\* Some bucket fits every remaining time.
LEMMA BucketExists ==
    ASSUME NEW untilEnd \in Int
    PROVE  \E b \in Bounds : /\ untilEnd > b \/ b = 0
                             /\ \A other \in Bounds : untilEnd > other => other <= b
<1>1. Bounds = {0, 15 * Minute, 30 * Minute, 60 * Minute, 360 * Minute, 1440 * Minute}
    BY MinuteAssumption DEF Bounds
<1>2. Minute \in Nat /\ Minute > 0
    BY MinuteAssumption
<1>3. CASE untilEnd > 1440 * Minute
    BY <1>1, <1>2, <1>3
<1>4. CASE untilEnd > 360 * Minute /\ ~(untilEnd > 1440 * Minute)
    BY <1>1, <1>2, <1>4
<1>5. CASE untilEnd > 60 * Minute /\ ~(untilEnd > 360 * Minute)
    BY <1>1, <1>2, <1>5
<1>6. CASE untilEnd > 30 * Minute /\ ~(untilEnd > 60 * Minute)
    BY <1>1, <1>2, <1>6
<1>7. CASE untilEnd > 15 * Minute /\ ~(untilEnd > 30 * Minute)
    BY <1>1, <1>2, <1>7
<1>8. CASE ~(untilEnd > 15 * Minute)
    BY <1>1, <1>2, <1>8
<1> QED BY <1>3, <1>4, <1>5, <1>6, <1>7, <1>8

\* Every polling interval is a number.
LEMMA IntervalTyped ==
    ASSUME NEW untilEnd \in Maybe(Int) PROVE PollingInterval(untilEnd) \in Nat
<1>1. \A b \in Bounds : Interval[b] \in Nat
    BY IntervalAssumption
<1>2. 60 * Minute \in Bounds
    BY DEF Bounds
<1>3. CASE untilEnd = None
    BY <1>1, <1>2, <1>3 DEF PollingInterval
<1>4. CASE untilEnd # None
    <2>1. untilEnd \in Int
        BY <1>4 DEF Maybe
    <2>2. PICK b \in Bounds : /\ untilEnd > b \/ b = 0
                              /\ \A other \in Bounds : untilEnd > other => other <= b
        BY <2>1, BucketExists
    <2>3. PollingInterval(untilEnd) = Interval[b]
        BY <2>1, <2>2, IntervalOf
    <2> QED BY <1>1, <2>3
<1> QED BY <1>3, <1>4

\* The delay after an error lies within the limit.
LEMMA BackoffTyped == \A errors : Backoff(errors) \in Nat
BY MonitoringAssumption DEF Backoff

\* What the row shows of a page is a state of the auction.
LEMMA ShownTyped == ASSUME NEW p \in AuctionState PROVE Shown(p) \in AuctionState
BY DEF Shown, AuctionState, Maybe

\* Writing the changed columns into another version of the row gives a state of
\* the auction, if not one that the page has ever shown.
LEMMA FlushedTyped ==
    ASSUME NEW loaded \in AuctionState, NEW new \in AuctionState, NEW current \in AuctionState
    PROVE  Flushed(loaded, new, current) \in AuctionState
<1>1. DOMAIN new = {"price", "bids", "end", "buyNow", "winner", "newBid", "closed"}
    BY DEF AuctionState
<1>2. \A field \in DOMAIN new :
        Flushed(loaded, new, current)[field] \in {new[field], current[field]}
    BY DEF Flushed
<1>3. DOMAIN Flushed(loaded, new, current) = DOMAIN new
    BY DEF Flushed
<1> QED BY <1>1, <1>2, <1>3 DEF Flushed, AuctionState, Maybe

\* Switching monitoring on or off and giving the row a date, or none, keeps it
\* a row.
LEMMA RedatedTyped ==
    ASSUME NEW r \in Rows, NEW date \in Maybe(Nat)
    PROVE  /\ [r EXCEPT !.active = TRUE, !.nextPoll = date] \in Rows
           /\ [r EXCEPT !.active = FALSE, !.nextPoll = date] \in Rows
<1>1. TRUE \in BOOLEAN /\ FALSE \in BOOLEAN
    BY Zenon
<1> QED BY <1>1 DEF Rows

\* The row after a poll is a row.
LEMMA PolledTyped ==
    ASSUME NEW r \in Rows, NEW j \in ComparedJobs
    PROVE  Polled(r, j) \in Rows
<1>1. j.loaded.shown \in AuctionState /\ r.shown \in AuctionState /\ j.state \in AuctionState
    BY MonitoringAssumption DEF Rows, ComparedJobs, LoadedRows
<1>2. Mirrored(r, j) \in AuctionState
    BY <1>1, ShownTyped, FlushedTyped DEF Mirrored
<1>3. j.observed \in Nat
    BY MonitoringAssumption DEF ComparedJobs
<1>4. UntilEnd(j.state, j.observed) \in Maybe(Int)
    BY <1>1, <1>3 DEF UntilEnd, AuctionState, Maybe
<1>5. Polled(r, j).nextPoll \in Maybe(Nat)
    <2>1. PollingInterval(UntilEnd(j.state, j.observed)) \in Nat
        BY <1>4, IntervalTyped
    <2>2. j.observed + PollingInterval(UntilEnd(j.state, j.observed)) \in Nat
        BY <1>3, <2>1
    <2> QED BY <2>2 DEF Polled, Maybe
<1>6. Polled(r, j).active \in BOOLEAN
    BY DEF Polled
<1>7. Polled(r, j).lastPolled \in 0..MaxTime
    BY DEF Polled, PollTime, ComparedJobs
<1>8. Polled(r, j).errors \in 0..ErrorCap
    BY MonitoringAssumption DEF Polled, Rows
<1> QED BY <1>2, <1>5, <1>6, <1>7, <1>8 DEF Polled, Rows

\* The alerts of a poll have numbers for keys: dedup_key_for never raises.
LEMMA AlertsTyped ==
    ASSUME NEW j \in ComparedJobs, nextSnapshot \in Nat
    PROVE  Alerts(j) \subseteq Claims
<1> SUFFICES ASSUME NEW u \in Users,
                    NEW k \in Decisions(j.previous, j.state, j.loaded.lastPolled, j.observed)
             PROVE  [user |-> u, kind |-> k, key |-> DedupKey(k, j.state, Stored(j))] \in Claims
    BY DEF Alerts
<1>1. j.previous \in AuctionState /\ j.state \in AuctionState
    BY MonitoringAssumption DEF Decisions, ComparedJobs, Maybe
<1>2. Stored(j) \in Maybe(Nat) /\ (HasChanges(j.previous, j.state) => Stored(j) # None)
    BY NoneIsNoNumber DEF Stored, Differs, Maybe
<1>3. DedupKey(k, j.state, Stored(j)) # None
    BY <1>1, <1>2, KeyDefined
<1>4. DedupKey(k, j.state, Stored(j)) \in Int
    BY <1>1, <1>2, <1>3 DEF DedupKey, Maybe, AuctionState
<1>5. k \in Kinds
    BY DEF Decisions, TimedDecisions, StateDecisions, Kinds, StateKinds
<1> QED BY <1>4, <1>5 DEF Claims

\* A job's program counter says what it knows.
LEMMA JobAt ==
    ASSUME TypeOK, NEW w \in Workers
    PROVE  /\ At(w, "loaded") => job[w] \in LoadedJobs
           /\ At(w, "fetched") => job[w] \in FetchedJobs
           /\ At(w, "compared") => job[w] \in ComparedJobs
BY DEF TypeOK, At, Maybe, Jobs, LoadedJobs, FetchedJobs, ComparedJobs

-----------------------------------------------------------------------------
(* Type correctness *)

\* What the world outside does keeps the types.
LEMMA OutsideTyped == TypeOK /\ Outside => TypeOK'
<1> SUFFICES ASSUME TypeOK, Outside PROVE TypeOK'
    OBVIOUS
<1> USE DEF TypeOK, database, processes
<1>1. CASE Tick
    BY <1>1, MonitoringAssumption DEF Tick
<1>2. CASE YahooCloses
    <2>1. ended' \in BOOLEAN
        BY <1>2, Zenon DEF YahooCloses
    <2> QED BY <1>2, <2>1 DEF YahooCloses
<1>3. CASE LockExpires
    BY <1>3 DEF LockExpires, Elapsed, LockRecords, Unlocked
<1>4. ASSUME NEW u \in Users, Settle(u) PROVE TypeOK'
    BY <1>4 DEF Settle
<1> QED BY <1>1, <1>2, <1>3, <1>4 DEF Outside

\* The users' commands keep the types.
LEMMA CommandTyped == ASSUME TypeOK, NEW u \in Users, Command(u) PROVE TypeOK'
<1> USE MonitoringAssumption DEF TypeOK, database, processes
<1>1. CASE AddWatch(u)
    <2>1. row' \in Rows
        <3>1. row' \in {row, Resumed(row)}
            BY <1>1 DEF AddWatch
        <3>2. now \in Maybe(Nat)
            BY DEF Maybe
        <3>3. Resumed(row) \in Rows
            BY <3>2, RedatedTyped DEF Resumed
        <3> QED BY <3>1, <3>3
    <2>2. links' \in [Users -> {"none", "on", "muted"}]
        BY <1>1 DEF AddWatch
    <2>3. since' \in [Users -> Maybe(0..MaxTime)]
        BY <1>1 DEF AddWatch, Maybe
    <2> QED BY <1>1, <2>1, <2>2, <2>3 DEF AddWatch
<1>2. CASE RemoveWatch(u)
    <2>1. row' \in Rows
        BY <1>2 DEF RemoveWatch, Rows, Maybe
    <2>2. links' \in [Users -> {"none", "on", "muted"}]
        BY <1>2 DEF RemoveWatch
    <2>3. since' \in [Users -> Maybe(0..MaxTime)]
        BY <1>2 DEF RemoveWatch, Maybe
    <2>4. claims' \subseteq Claims /\ pending' \subseteq claims'
        BY <1>2 DEF RemoveWatch
    <2> QED BY <1>2, <2>1, <2>2, <2>3, <2>4 DEF RemoveWatch
<1>3. CASE ToggleNotifications(u)
    <2>1. links' \in [Users -> {"none", "on", "muted"}]
        BY <1>3 DEF ToggleNotifications
    <2>2. since' \in [Users -> Maybe(0..MaxTime)]
        BY <1>3 DEF ToggleNotifications, Maybe
    <2> QED BY <1>3, <2>1, <2>2 DEF ToggleNotifications
<1> QED BY <1>1, <1>2, <1>3 DEF Command

\* The scheduler keeps the types.
LEMMA SchedulerTyped == TypeOK /\ Scheduler => TypeOK'
<1> SUFFICES ASSUME TypeOK, Scheduler PROVE TypeOK'
    OBVIOUS
<1> USE MonitoringAssumption DEF TypeOK, database, processes
<1>1. CASE SchedulerReads
    <2>1. plan' \in Maybe(Plans) /\ queue' \in 0..MaxQueue
        BY <1>1 DEF SchedulerReads, Plans, Maybe
    <2> QED BY <1>1, <2>1 DEF SchedulerReads
<1>2. CASE SchedulerCommits
    <2>1. plan \in Plans /\ plan.leavers \in SUBSET Users
        BY <1>2 DEF SchedulerCommits, Plans, Maybe
    <2>2. row' \in Rows
        <3>1. CASE plan.kind = "rest"
            BY <1>2, <3>1 DEF SchedulerCommits, Planned
        <3>2. CASE plan.kind = "stop"
            <4>1. row' = [row EXCEPT !.active = FALSE, !.nextPoll = None]
                BY <1>2, <3>2 DEF SchedulerCommits, Planned, Stopped
            <4> QED BY <4>1, RedatedTyped DEF Maybe
        <3>3. CASE plan.kind = "push"
            <4>1. plan.at + PushDelay \in Nat
                BY <2>1, <3>3 DEF Plans
            <4>2. row' = [row EXCEPT !.nextPoll = plan.at + PushDelay]
                BY <1>2, <3>3 DEF SchedulerCommits, Planned
            <4> QED BY <4>1, <4>2 DEF Rows, Maybe
        <3> QED BY <2>1, <3>1, <3>2, <3>3 DEF Plans
    <2>3. links' \in [Users -> {"none", "on", "muted"}]
        BY <1>2 DEF SchedulerCommits
    <2>4. since' \in [Users -> Maybe(0..MaxTime)]
        BY <1>2 DEF SchedulerCommits, Maybe
    <2>5. claims' \subseteq Claims /\ pending' \subseteq claims'
        BY <1>2 DEF SchedulerCommits
    <2>6. latest' \in Maybe(Snapshots) /\ plan' \in Maybe(Plans)
        BY <1>2 DEF SchedulerCommits, Maybe
    <2> QED BY <1>2, <2>2, <2>3, <2>4, <2>5, <2>6 DEF SchedulerCommits
<1>3. CASE SchedulerFails
    BY <1>3 DEF SchedulerFails, Maybe
<1>4. CASE SchedulerCleans
    <2>1. plan \in Plans
        BY <1>4 DEF SchedulerCleans, Maybe
    <2>2. {u \in Users : Finalized(u)} \in SUBSET Users
        OBVIOUS
    <2>3. plan' \in Plans
        BY <1>4, <2>1, <2>2 DEF SchedulerCleans, Plans, Maybe
    <2> QED BY <1>4, <2>3 DEF SchedulerCleans, Maybe
<1> QED BY <1>1, <1>2, <1>3, <1>4 DEF Scheduler

\* The commit of a poll keeps the types.
LEMMA CommitTyped == ASSUME TypeOK, NEW w \in Workers, Commit(w) PROVE TypeOK'
<1> DEFINE j == job[w]
<1>1. j \in ComparedJobs
    BY JobAt DEF Commit
<1>2. row \in Rows /\ nextSnapshot \in Nat
    BY MonitoringAssumption DEF TypeOK
<1>3. row' \in Rows
    BY <1>1, <1>2, PolledTyped DEF Commit
<1>4. nextSnapshot' \in 0..MaxSnapshots
    BY MonitoringAssumption DEF Commit, TypeOK
<1>5. latest' \in Maybe(Snapshots)
    BY <1>1 DEF Commit, TypeOK, ComparedJobs, Snapshots, Maybe
<1>6. claims' \subseteq Claims /\ pending' \subseteq claims'
    BY <1>1, <1>2, AlertsTyped DEF Commit, TypeOK
<1>7. endSince' \in 0..MaxTime /\ silent' \subseteq 0..MaxTime
    <2>1. j.observed \in 0..MaxTime /\ j.loaded.lastPolled \in 0..MaxTime
        BY <1>1 DEF ComparedJobs, LoadedRows
    <2>2. endSince' \in {endSince, j.observed}
        BY DEF Commit
    <2>3. silent' \subseteq silent \cup ((j.loaded.lastPolled + 1)..j.observed)
        BY DEF Commit
    <2>4. (j.loaded.lastPolled + 1)..j.observed \subseteq 0..MaxTime
        BY <2>1, MonitoringAssumption
    <2> QED BY <2>1, <2>2, <2>3, <2>4 DEF TypeOK
<1>8. job' \in [Workers -> Maybe(Jobs)]
    BY DEF Commit, Done, TypeOK, Jobs, Maybe
<1> QED BY <1>3, <1>4, <1>5, <1>6, <1>7, <1>8 DEF Commit, TypeOK

\* The poll jobs keep the types.
LEMMA PollTyped == ASSUME TypeOK, NEW w \in Workers, Poll(w) PROVE TypeOK'
<1> USE MonitoringAssumption DEF TypeOK, database, processes
<1>1. CASE Start(w)
    <2>1. lock' \in LockRecords(Workers, 1)
        BY <1>1 DEF Start, Acquired, LockRecords
    <2>2. Loaded(row) \in LoadedRows
        BY DEF Loaded, Rows, LoadedRows
    <2>3. job' \in [Workers -> Maybe(Jobs)]
        BY <1>1, <2>2 DEF Start, Jobs, LoadedJobs, Maybe
    <2> QED BY <1>1, <2>1, <2>3 DEF Start
<1>2. CASE Skip(w)
    BY <1>2 DEF Skip
<1>3. CASE Fetch(w)
    <2>1. job[w] \in LoadedJobs
        BY <1>3, JobAt DEF Fetch
    <2>2. job' \in [Workers -> Maybe(Jobs)]
        BY <1>3, <2>1 DEF Fetch, Jobs, LoadedJobs, FetchedJobs, Maybe
    <2> QED BY <1>3, <2>2 DEF Fetch
<1>4. CASE FetchStops(w)
    <2>1. row' \in Rows
        BY <1>4 DEF FetchStops, Stopped, Rows, Maybe
    <2>2. job' \in [Workers -> Maybe(Jobs)]
        BY <1>4 DEF FetchStops, Done, Jobs, Maybe
    <2> QED BY <1>4, <2>1, <2>2 DEF FetchStops
<1>5. CASE FetchFails(w)
    <2>1. job[w].loaded.errors + 1 \in 0..ErrorCap
        <3>1. job[w] \in LoadedJobs /\ job[w].loaded.errors < ErrorCap
            BY <1>5, JobAt DEF FetchFails
        <3>2. job[w].loaded.errors \in 0..ErrorCap
            BY <3>1 DEF LoadedJobs, LoadedRows
        <3> HIDE DEF TypeOK
        <3> QED BY <3>1, <3>2, MonitoringAssumption
    <2>2. now + Backoff(job[w].loaded.errors + 1) \in Nat
        BY BackoffTyped
    <2>3. row' \in Rows
        BY <1>5, <2>1, <2>2 DEF FetchFails, Failed, Stopped, Rows, Maybe
    <2>4. job' \in [Workers -> Maybe(Jobs)]
        BY <1>5 DEF FetchFails, Done, Jobs, Maybe
    <2> QED BY <1>5, <2>3, <2>4 DEF FetchFails
<1>6. CASE Compare(w)
    <2>1. job[w] \in FetchedJobs
        BY <1>6, JobAt DEF Compare
    <2>2. (IF latest = None THEN None ELSE latest.state) \in Maybe(Pages)
        BY DEF Snapshots, Maybe
    <2>3. job' \in [Workers -> Maybe(Jobs)]
        BY <1>6, <2>1, <2>2 DEF Compare, Jobs, FetchedJobs, ComparedJobs, Maybe
    <2> QED BY <1>6, <2>3 DEF Compare
<1>7. CASE Commit(w)
    BY <1>7, CommitTyped
<1>8. CASE Finish(w) \/ Abort(w) \/ Crash(w)
    <2>1. job' = [job EXCEPT ![w] = None] /\ lock' \in {lock, Unlocked}
        BY <1>8 DEF Finish, Abort, Crash, Released
    <2>2. queue' \in 0..MaxQueue
        BY <1>8 DEF Finish, Abort, Crash
    <2>3. job' \in [Workers -> Maybe(Jobs)] /\ lock' \in LockRecords(Workers, 1)
        BY <2>1 DEF LockRecords, Maybe
    <2> QED BY <1>8, <2>2, <2>3 DEF Finish, Abort, Crash
<1> QED BY <1>1, <1>2, <1>3, <1>4, <1>5, <1>6, <1>7, <1>8 DEF Poll

\* Every step keeps the types.
LEMMA TypeOKStep == TypeOK /\ [Next]_vars => TypeOK'
<1>1. TypeOK /\ UNCHANGED vars => TypeOK'
    BY DEF TypeOK, vars, database, processes
<1> QED BY <1>1, OutsideTyped, CommandTyped, SchedulerTyped, PollTyped DEF Next

\* Type correctness of the monitoring.  That every key of a claim is a number
\* says that dedup_key_for never raises (domain/notifications.py:102, 105).
THEOREM MonitoringTypeCorrect == Spec => []TypeOK
<1>1. Init => TypeOK
    <2> SUFFICES ASSUME Init PROVE TypeOK
        OBVIOUS
    <2>1. ended \in BOOLEAN
        BY Zenon DEF Init
    <2>2. row \in Rows
        <3>1. PICK p \in Pages : row \in [shown : {Shown(p)}, active : {TRUE},
                                          nextPoll : {0}, lastPolled : {0}, errors : {0}]
            BY DEF Init
        <3>2. Shown(p) \in AuctionState
            BY ShownTyped, MonitoringAssumption
        <3>3. row.active \in BOOLEAN
            BY <3>1, Zenon
        <3>4. /\ row.shown \in AuctionState /\ row.nextPoll \in Maybe(Nat)
              /\ row.lastPolled \in 0..MaxTime /\ row.errors \in 0..ErrorCap
            BY <3>1, <3>2, MonitoringAssumption DEF Maybe
        <3>5. row = [shown |-> row.shown, active |-> row.active, nextPoll |-> row.nextPoll,
                     lastPolled |-> row.lastPolled, errors |-> row.errors]
            BY <3>1
        <3> QED BY <3>3, <3>4, <3>5 DEF Rows
    <2> QED BY <2>1, <2>2, MonitoringAssumption
            DEF Init, TypeOK, LockRecords, Maybe
<1> QED BY <1>1, TypeOKStep, PTL DEF Spec

-----------------------------------------------------------------------------
(* The row *)

\* Every step that writes the row keeps it dated or switches monitoring off.
LEMMA DatedStep ==
    ASSUME TypeOK, ActiveIsDated, [Next]_vars PROVE ActiveIsDated'
<1> USE NoneIsNoNumber, MonitoringAssumption DEF ActiveIsDated
<1>1. now \in Nat /\ now # None
    BY DEF TypeOK
<1>2. CASE row' = row
    BY <1>2
<1>3. ASSUME NEW u \in Users, AddWatch(u) PROVE ActiveIsDated'
    <2>1. CASE row.active
        BY <1>3, <2>1 DEF AddWatch
    <2>2. CASE ~row.active
        <3>1. row' = [row EXCEPT !.active = TRUE, !.nextPoll = now] /\ row \in Rows
            BY <1>3, <2>2 DEF AddWatch, Resumed, TypeOK
        <3> QED BY <1>1, <3>1 DEF Rows
    <2> QED BY <2>1, <2>2
<1>4. ASSUME NEW u \in Users, RemoveWatch(u) PROVE ActiveIsDated'
    <2>1. now + Grace # None
        BY <1>1
    <2> QED BY <1>4, <2>1 DEF RemoveWatch, TypeOK, Rows
<1>5. CASE SchedulerCommits
    <2>1. plan \in Plans /\ row' = Planned(row) /\ row \in Rows
        BY <1>5 DEF SchedulerCommits, TypeOK, Maybe
    <2>2. CASE plan.kind = "push"
        <3>1. plan.at + PushDelay # None
            BY <2>1, <2>2 DEF Plans
        <3> QED BY <2>1, <2>2, <3>1 DEF Planned, Rows
    <2>3. CASE plan.kind # "push"
        BY <2>1, <2>3 DEF Planned, Plans, Stopped, Rows
    <2> QED BY <2>2, <2>3
<1>6. ASSUME NEW w \in Workers, FetchStops(w) PROVE ActiveIsDated'
    BY <1>6 DEF FetchStops, Stopped, TypeOK, Rows
<1>7. ASSUME NEW w \in Workers, FetchFails(w) PROVE ActiveIsDated'
    <2>1. now + Backoff(job[w].loaded.errors + 1) # None
        BY <1>1, BackoffTyped
    <2> QED BY <1>7, <2>1 DEF FetchFails, Failed, Stopped, TypeOK, Rows
<1>8. ASSUME NEW w \in Workers, Commit(w) PROVE ActiveIsDated'
    <2> DEFINE j == job[w]
    <2>1. j \in ComparedJobs /\ row' = Polled(row, j)
        BY <1>8, JobAt DEF Commit
    <2>2. CASE j.state.closed
        BY <2>1, <2>2 DEF Polled
    <2>3. CASE ~j.state.closed
        <3>1. PollingInterval(UntilEnd(j.state, j.observed)) \in Nat /\ j.observed \in Nat
            <4>1. j.state \in AuctionState /\ j.observed \in Nat
                BY <2>1 DEF ComparedJobs
            <4>2. UntilEnd(j.state, j.observed) \in Maybe(Int)
                BY <4>1 DEF UntilEnd, AuctionState, Maybe
            <4> QED BY <4>1, <4>2, IntervalTyped
        <3>2. row'.nextPoll = j.observed + PollingInterval(UntilEnd(j.state, j.observed))
            BY <2>1, <2>3 DEF Polled
        <3> QED BY <3>1, <3>2
    <2> QED BY <2>2, <2>3
<1> QED BY <1>2, <1>3, <1>4, <1>5, <1>6, <1>7, <1>8
        DEF Next, Outside, Command, Scheduler, Poll, vars, database, processes,
            Tick, YahooCloses, LockExpires, Settle, ToggleNotifications,
            SchedulerReads, SchedulerCleans, SchedulerFails, Start, Skip, Fetch, Compare,
            Finish, Abort, Crash

\* An auction that is monitored and open always has a date for its next poll,
\* however many jobs work on it at once.
THEOREM ActiveAuctionsDated == Spec => []ActiveIsDated
<1>1. Init => ActiveIsDated
    BY NoneIsNoNumber DEF Init, ActiveIsDated
<1>2. TypeOK /\ ActiveIsDated /\ [Next]_vars => ActiveIsDated'
    BY DatedStep
<1> QED BY <1>1, <1>2, MonitoringTypeCorrect, PTL DEF Spec

-----------------------------------------------------------------------------
(* Closing *)

\* The monitoring of a closed auction is over, and every poll that is still at
\* work loaded the row while the auction was open.
ClosedIsOver ==
    /\ row.shown.closed => ~row.active
    /\ \A w \in Workers :
          At(w, "loaded") \/ At(w, "fetched") \/ At(w, "compared")
            => ~job[w].loaded.shown.closed

\* A poll that loaded an open auction can close the row but not reopen it, for
\* the column is written only if it differs from the value loaded.
LEMMA PolledClosed ==
    ASSUME NEW r \in Rows, NEW j \in ComparedJobs, ~j.loaded.shown.closed
    PROVE  /\ r.shown.closed => Polled(r, j).shown.closed
           /\ Polled(r, j).shown.closed => r.shown.closed \/ j.state.closed
<1>1. r.shown \in AuctionState /\ j.state \in AuctionState /\ j.loaded.shown \in AuctionState
    BY MonitoringAssumption DEF Rows, ComparedJobs, LoadedRows
<1>2. Shown(j.state).closed = j.state.closed /\ "closed" \in DOMAIN Shown(j.state)
    BY <1>1 DEF Shown, AuctionState
<1>3. Flushed(j.loaded.shown, Shown(j.state), r.shown).closed
        = IF j.state.closed = j.loaded.shown.closed THEN r.shown.closed ELSE j.state.closed
    BY <1>2 DEF Flushed
<1>4. Polled(r, j).shown = Mirrored(r, j)
    BY DEF Polled
<1>5. /\ r.shown.closed \in BOOLEAN /\ j.state.closed \in BOOLEAN
      /\ j.loaded.shown.closed \in BOOLEAN
    BY <1>1 DEF AuctionState
<1>6. CASE Differs(j)
    <2>1. Polled(r, j).shown.closed
            = IF j.state.closed = j.loaded.shown.closed THEN r.shown.closed ELSE j.state.closed
        BY <1>3, <1>4, <1>6 DEF Mirrored
    <2> QED BY <1>5, <2>1
<1>7. CASE ~Differs(j)
    BY <1>4, <1>7 DEF Mirrored
<1> QED BY <1>6, <1>7

\* Every step keeps closed auctions over, and closed.
LEMMA ClosedStep ==
    ASSUME TypeOK, ClosedIsOver, [Next]_vars
    PROVE  ClosedIsOver' /\ (row.shown.closed => row'.shown.closed)
<1> DEFINE Goal == ClosedIsOver' /\ (row.shown.closed => row'.shown.closed)
<1> USE NoneIsNoNumber DEF TypeOK, ClosedIsOver, At
<1>1. CASE row' = row /\ job' = job
    BY <1>1
<1>2. ASSUME NEW u \in Users, AddWatch(u) PROVE Goal
    <2>1. row'.shown = row.shown /\ ~row.shown.closed
        BY <1>2 DEF AddWatch, Resumed, Rows
    <2> QED BY <1>2, <2>1 DEF AddWatch, processes
<1>3. ASSUME NEW u \in Users, RemoveWatch(u) PROVE Goal
    <2>1. row'.shown = row.shown /\ row'.active = row.active
        BY <1>3 DEF RemoveWatch, Rows
    <2> QED BY <1>3, <2>1 DEF RemoveWatch, processes
<1>4. CASE SchedulerCommits
    <2>1. plan \in Plans /\ row' = Planned(row)
        BY <1>4 DEF SchedulerCommits, Maybe
    <2>2. row'.shown = row.shown /\ (row'.active => row.active)
        BY <2>1 DEF Planned, Plans, Stopped, Rows
    <2> QED BY <1>4, <2>2 DEF SchedulerCommits
<1>5. ASSUME NEW w \in Workers, Start(w) PROVE Goal
    <2>1. ~row.shown.closed
        BY <1>5 DEF Start
    <2>2. ~Loaded(row).shown.closed
        BY <2>1 DEF Loaded
    <2> QED BY <1>5, <2>2 DEF Start, database
<1>6. ASSUME NEW w \in Workers, Fetch(w) PROVE Goal
    <2>1. job[w].loaded = job'[w].loaded /\ At(w, "loaded")
        BY <1>6 DEF Fetch
    <2>2. \A v \in Workers : v # w => job'[v] = job[v]
        BY <1>6 DEF Fetch
    <2> QED BY <1>6, <2>1, <2>2 DEF Fetch, database
<1>7. ASSUME NEW w \in Workers, FetchStops(w) \/ FetchFails(w) PROVE Goal
    <2>1. row'.shown = row.shown /\ (row'.active => row.active)
        BY <1>7 DEF FetchStops, FetchFails, Failed, Stopped, Rows
    <2>2. \A v \in Workers : job'[v] \in {job[v], [pc |-> "committed"]}
        BY <1>7 DEF FetchStops, FetchFails, Done
    <2> QED BY <2>1, <2>2
<1>8. ASSUME NEW w \in Workers, Compare(w) PROVE Goal
    <2>1. job[w].loaded = job'[w].loaded /\ At(w, "fetched")
        BY <1>8 DEF Compare
    <2>2. \A v \in Workers : v # w => job'[v] = job[v]
        BY <1>8 DEF Compare
    <2> QED BY <1>8, <2>1, <2>2 DEF Compare, database
<1>9. ASSUME NEW w \in Workers, Commit(w) PROVE Goal
    <2> DEFINE j == job[w]
    <2>1. j \in ComparedJobs /\ ~j.loaded.shown.closed /\ row' = Polled(row, j)
        BY <1>9, JobAt DEF Commit
    <2>2. /\ row.shown.closed => row'.shown.closed
          /\ row'.shown.closed => row.shown.closed \/ j.state.closed
        BY <2>1, PolledClosed
    <2>3. row'.active => row.active /\ ~j.state.closed
        BY <2>1 DEF Polled
    <2>4. \A v \in Workers : job'[v] \in {job[v], [pc |-> "committed"]}
        BY <1>9 DEF Commit, Done
    <2> QED BY <2>2, <2>3, <2>4
<1>10. ASSUME NEW w \in Workers, Finish(w) \/ Abort(w) \/ Crash(w) PROVE Goal
    <2>1. row' = row /\ \A v \in Workers : job'[v] \in {job[v], None}
        BY <1>10 DEF Finish, Abort, Crash, database
    <2> QED BY <2>1
<1> QED BY <1>1, <1>2, <1>3, <1>4, <1>5, <1>6, <1>7, <1>8, <1>9, <1>10
        DEF Next, Outside, Command, Scheduler, Poll, vars, database, processes,
            Tick, YahooCloses, LockExpires, Settle, ToggleNotifications,
            SchedulerReads, SchedulerCleans, SchedulerFails, Skip

\* It is so throughout.
LEMMA ClosedIsOverInvariant == Spec => []ClosedIsOver
<1>1. Init => ClosedIsOver
    <2> SUFFICES ASSUME Init PROVE ClosedIsOver
        OBVIOUS
    <2>1. PICK p \in Pages : ~p.closed /\ row.shown = Shown(p)
        BY DEF Init
    <2>2. Shown(p).closed = p.closed
        BY MonitoringAssumption DEF Shown, AuctionState
    <2> QED BY <2>1, <2>2 DEF Init, ClosedIsOver, At
<1>2. TypeOK /\ ClosedIsOver /\ [Next]_vars => ClosedIsOver'
    BY ClosedStep
<1> QED BY <1>1, <1>2, MonitoringTypeCorrect, PTL DEF Spec

\* No poll reopens a closed auction, not even one that loaded the row and
\* fetched the page before another poll closed it.
THEOREM ClosedForGood == Spec => ClosedStaysClosed
<1>1. TypeOK /\ ClosedIsOver /\ [Next]_vars => [row.shown.closed => row'.shown.closed]_vars
    BY ClosedStep
<1> QED BY <1>1, ClosedIsOverInvariant, MonitoringTypeCorrect, PTL
        DEF Spec, ClosedStaysClosed
=============================================================================
