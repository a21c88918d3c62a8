----------------------------- MODULE FeedProofs -----------------------------
(***************************************************************************)
(* Monitoring implements AlertFeed, for any users, workers, pages, times   *)
(* and bounds, in every behaviour in which no job outlives the poll lock.  *)
(* Then at most one job is at work, and what it has read - the row, the    *)
(* snapshot - is still what the database says when it commits, but for a   *)
(* snapshot that has been purged meanwhile. What AlertFeedProofs shows of  *)
(* the feed is then true of the monitoring as well.                        *)
(***************************************************************************)
EXTENDS MonitoringProofs

\* A lock that expires is a dead job's: what the proofs assume of a behaviour.
LockLasts == LockExpires => job[lock.owner] = None

LocksLast == [][LockLasts]_vars

\* It is what the constant says.
LEMMA LocksLastUnlessEarly == ASSUME ~LocksExpireEarly PROVE Spec => LocksLast
<1>1. [Next]_vars => [LockLasts]_vars
    BY DEF LockLasts, LockExpires
<1> QED BY <1>1, PTL DEF Spec, LocksLast

\* A job works under the lock, which is its own.
Owned == \A w \in Workers : job[w] # None => lock.owner = w

Working(w) == At(w, "loaded") \/ At(w, "fetched") \/ At(w, "compared")

\* What a job at work has read is what the row and the latest snapshot say.
UpToDate ==
    \A w \in Workers :
        /\ Working(w) => /\ job[w].loaded.shown = row.shown
                         /\ job[w].loaded.lastPolled = row.lastPolled
        /\ At(w, "fetched") \/ At(w, "compared")
             => row.lastPolled <= job[w].observed /\ job[w].observed <= now
        /\ At(w, "compared") /\ latest # None => latest.state = job[w].previous
        /\ At(w, "compared") /\ job[w].previous # None
             => row.shown = Shown(job[w].previous)

\* The latest snapshot is no younger than the last poll, which is over.
PollsInOrder ==
    /\ row.lastPolled <= now
    /\ latest # None => latest.observed <= row.lastPolled

\* Alerts are on for the users that the history says they are on for.
Subscribed == \A u \in Users : links[u] = "on" <=> since[u] # None

-----------------------------------------------------------------------------
(* What a step may do *)

\* Only the commit of a poll changes what is shown and when it was polled.
LEMMA RowStep ==
    ASSUME TypeOK, [Next]_vars, \A w \in Workers : ~Commit(w)
    PROVE  row'.shown = row.shown /\ row'.lastPolled = row.lastPolled
<1>1. CASE row' = row
    BY <1>1
<1>2. ASSUME NEW u \in Users, AddWatch(u) \/ RemoveWatch(u)
      PROVE  row'.shown = row.shown /\ row'.lastPolled = row.lastPolled
    BY <1>2 DEF AddWatch, RemoveWatch, Resumed, TypeOK, Rows
<1>3. CASE SchedulerCommits
    BY <1>3 DEF SchedulerCommits, Planned, Stopped, TypeOK, Maybe, Plans, Rows
<1>4. ASSUME NEW w \in Workers, FetchStops(w) \/ FetchFails(w)
      PROVE  row'.shown = row.shown /\ row'.lastPolled = row.lastPolled
    BY <1>4 DEF FetchStops, FetchFails, Failed, Stopped, TypeOK, Rows
<1> QED BY <1>1, <1>2, <1>3, <1>4
        DEF Next, Outside, Command, Scheduler, Poll, vars, database, processes,
            Tick, YahooCloses, LockExpires, Settle, ToggleNotifications,
            SchedulerReads, SchedulerCleans, SchedulerFails, Start, Skip, Fetch, Compare,
            Finish, Abort, Crash

\* Only the commit of a poll gives a new latest snapshot; a purge may take it.
LEMMA LatestStep ==
    ASSUME [Next]_vars, \A w \in Workers : ~Commit(w)
    PROVE  latest' \in {latest, None}
BY DEF Next, Outside, Command, Scheduler, Poll, vars, database, processes,
       Tick, YahooCloses, LockExpires, Settle, AddWatch, RemoveWatch,
       ToggleNotifications, SchedulerReads, SchedulerCleans, SchedulerCommits,
       SchedulerFails, Start, Skip, Fetch, FetchStops, FetchFails, Compare, Finish,
       Abort, Crash

\* Time does not run backwards.
LEMMA NowStep == ASSUME TypeOK, [Next]_vars PROVE now \in Nat /\ now' \in Nat /\ now <= now'
<1>1. now \in Nat
    BY MonitoringAssumption DEF TypeOK
<1>2. now' \in {now, now + 1}
    BY DEF Next, Outside, Command, Scheduler, Poll, vars, database, processes,
           Tick, YahooCloses, LockExpires, Settle, AddWatch, RemoveWatch,
           ToggleNotifications, SchedulerReads, SchedulerCleans, SchedulerCommits,
           SchedulerFails, Start, Skip, Fetch, FetchStops, FetchFails, Compare, Commit,
           Finish, Abort, Crash
<1> QED BY <1>1, <1>2

-----------------------------------------------------------------------------
(* One job at a time *)

\* A job gets the lock only when it is free, and a live job does not lose it.
LEMMA OwnedStep ==
    ASSUME LockLasts, TypeOK, Owned, [Next]_vars PROVE Owned'
<1> USE MonitoringAssumption DEF TypeOK, Owned, LockRecords, Unlocked
<1>1. CASE lock' = lock /\ \A w \in Workers : job'[w] # None => job[w] # None
    BY <1>1
<1>2. ASSUME NEW w \in Workers, Start(w) PROVE Owned'
    <2>1. \A v \in Workers : job[v] = None
        BY <1>2 DEF Start, CanAcquire
    <2> QED BY <1>2, <2>1 DEF Start, Acquired
<1>3. ASSUME NEW w \in Workers, Fetch(w) \/ FetchStops(w) \/ FetchFails(w)
                                 \/ Compare(w) \/ Commit(w)
      PROVE Owned'
    <2>1. job[w] # None /\ lock' = lock
        BY <1>3 DEF Fetch, FetchStops, FetchFails, Compare, Commit, At
    <2>2. \A v \in Workers : v # w => job'[v] = job[v]
        BY <1>3 DEF Fetch, FetchStops, FetchFails, Compare, Commit, Done
    <2> QED BY <2>1, <2>2
<1>4. ASSUME NEW w \in Workers, Finish(w) \/ Abort(w) \/ Crash(w) PROVE Owned'
    <2>1. job[w] # None
        BY <1>4 DEF Finish, Abort, Crash, At
    <2>2. \A v \in Workers : job'[v] = None
        BY <1>4, <2>1 DEF Finish, Abort, Crash
    <2> QED BY <2>2
<1>5. CASE LockExpires
    <2>1. \A v \in Workers : job[v] = None /\ job' = job
        BY <1>5 DEF LockExpires, LockLasts
    <2> QED BY <2>1
<1> QED BY <1>1, <1>2, <1>3, <1>4, <1>5
        DEF Next, Outside, Command, Scheduler, Poll, vars, database, processes,
            Tick, YahooCloses, Settle, AddWatch, RemoveWatch, ToggleNotifications,
            SchedulerReads, SchedulerCleans, SchedulerCommits, SchedulerFails, Skip

\* At most one job is at work.
LEMMA SoleJob ==
    ASSUME Owned, NEW v \in Workers, NEW w \in Workers, job[v] # None, job[w] # None
    PROVE  v = w
BY DEF Owned

-----------------------------------------------------------------------------
(* What a job knows *)

\* What a job has read stays true until it commits, for nobody else does.
LEMMA UpToDateStep ==
    ASSUME TypeOK, Owned, UpToDate, PollsInOrder, ShownIsLatest, [Next]_vars
    PROVE  UpToDate'
<1> DEFINE Good(w) ==
        /\ Working(w) => /\ job[w].loaded.shown = row.shown
                         /\ job[w].loaded.lastPolled = row.lastPolled
        /\ At(w, "fetched") \/ At(w, "compared")
             => row.lastPolled <= job[w].observed /\ job[w].observed <= now
        /\ At(w, "compared") /\ latest # None => latest.state = job[w].previous
        /\ At(w, "compared") /\ job[w].previous # None
             => row.shown = Shown(job[w].previous)
<1>1. now \in Nat /\ now' \in Nat /\ now <= now'
    BY NowStep
<1>2. \A v \in Workers : Good(v)
    BY DEF UpToDate
<1>3. ASSUME NEW w \in Workers, Commit(w) PROVE UpToDate'
    <2>1. job[w] # None /\ \A v \in Workers : v # w => job'[v] = job[v]
        BY <1>3 DEF Commit, Done, At
    <2>2. \A v \in Workers : v # w => job'[v] = None
        BY <2>1, SoleJob
    <2>3. job'[w] = [pc |-> "committed"]
        BY <1>3 DEF Commit, Done, TypeOK
    <2> QED BY <2>2, <2>3 DEF UpToDate, Working, At
<1>4. ASSUME \A w \in Workers : ~Commit(w), NEW w \in Workers PROVE Good(w)'
    <2>1. row'.shown = row.shown /\ row'.lastPolled = row.lastPolled
        BY <1>4, RowStep
    <2>2. latest' \in {latest, None}
        BY <1>4, LatestStep
    <2>3. CASE job'[w] = job[w]
        <3>1. At(w, "fetched") \/ At(w, "compared") => job[w].observed \in Nat
            BY JobAt, MonitoringAssumption DEF FetchedJobs, ComparedJobs
        <3> QED BY <1>1, <1>2, <2>1, <2>2, <2>3, <3>1 DEF At, Working
    <2>4. CASE job'[w] = None \/ job'[w] = [pc |-> "committed"]
        BY <2>4 DEF At, Working
    <2>5. CASE Start(w)
        <3>1. job'[w] = [pc |-> "loaded", loaded |-> Loaded(row)]
            BY <2>5 DEF Start, TypeOK
        <3> QED BY <2>1, <3>1 DEF At, Working, Loaded
    <2>6. CASE Fetch(w)
        <3>1. PICK page : job'[w] = [pc |-> "fetched", loaded |-> job[w].loaded,
                                     state |-> page, observed |-> now]
            BY <2>6 DEF Fetch, TypeOK
        <3>2. Working(w)
            BY <2>6 DEF Fetch, Working
        <3>3. row.lastPolled <= now /\ now' = now
            BY <2>6 DEF Fetch, PollsInOrder
        <3> QED BY <1>1, <1>2, <2>1, <3>1, <3>2, <3>3 DEF At, Working
    <2>7. CASE Compare(w)
        <3>1. job'[w] = [pc |-> "compared", loaded |-> job[w].loaded,
                         state |-> job[w].state, observed |-> job[w].observed,
                         previous |-> IF latest = None THEN None ELSE latest.state]
            BY <2>7 DEF Compare, TypeOK
        <3>2. Working(w) /\ At(w, "fetched") /\ now' = now /\ latest' = latest
            BY <2>7 DEF Compare, Working, database
        <3>3. latest # None => row'.shown = Shown(latest.state)
            BY <2>1 DEF ShownIsLatest
        <3>4. job'[w].previous # None => row'.shown = Shown(job'[w].previous)
            BY <3>1, <3>3
        <3> QED BY <1>2, <2>1, <3>1, <3>2, <3>4 DEF At, Working
    <2> QED BY <1>4, <2>3, <2>4, <2>5, <2>6, <2>7
            DEF Next, Outside, Command, Scheduler, Poll, vars, database, processes,
                Tick, YahooCloses, LockExpires, Settle, AddWatch, RemoveWatch,
                ToggleNotifications, SchedulerReads, SchedulerCleans, SchedulerCommits,
                SchedulerFails, Start, Skip, Fetch, FetchStops, FetchFails, Compare,
                Finish, Abort, Crash, Done, TypeOK
<1> QED BY <1>3, <1>4 DEF UpToDate

\* A poll that stores a snapshot makes it the latest one.
LEMMA StoredIsLatest ==
    ASSUME TypeOK, UpToDate, PollsInOrder, NEW w \in Workers, At(w, "compared")
    PROVE  Differs(job[w]) <=> IsLatest(job[w])
<1>1. job[w] \in ComparedJobs
    BY JobAt
<1>2. row.lastPolled <= job[w].observed
    BY DEF UpToDate
<1>3. latest # None => latest.observed <= row.lastPolled
    BY DEF PollsInOrder
<1>4. row.lastPolled \in Nat /\ job[w].observed \in Nat
    BY <1>1, MonitoringAssumption DEF TypeOK, Rows, ComparedJobs
<1>5. latest # None => latest.observed \in Nat
    BY MonitoringAssumption DEF TypeOK, Maybe, Snapshots
<1> QED BY <1>2, <1>3, <1>4, <1>5 DEF IsLatest

\* Polls commit in the order of their observations.
LEMMA PollsInOrderStep ==
    ASSUME TypeOK, UpToDate, PollsInOrder, [Next]_vars PROVE PollsInOrder'
<1>1. now \in Nat /\ now' \in Nat /\ now <= now'
    BY NowStep
<1>2. row.lastPolled \in Nat
    BY MonitoringAssumption DEF TypeOK, Rows
<1>3. CASE \A w \in Workers : ~Commit(w)
    <2>1. row'.lastPolled = row.lastPolled /\ latest' \in {latest, None}
        BY <1>3, RowStep, LatestStep
    <2> QED BY <1>1, <1>2, <2>1 DEF PollsInOrder
<1>4. ASSUME NEW w \in Workers, Commit(w) PROVE PollsInOrder'
    <2> DEFINE j == job[w]
    <2>1. j \in ComparedJobs /\ At(w, "compared")
        BY <1>4, JobAt DEF Commit
    <2>2. row.lastPolled <= j.observed /\ j.observed <= now
        BY <2>1 DEF UpToDate
    <2>3. row'.lastPolled = j.observed /\ now' = now
        BY <1>4 DEF Commit, Polled, PollTime
    <2>4. j.observed \in Nat
        BY <2>1, MonitoringAssumption DEF ComparedJobs
    <2>5. latest' = IF Differs(j) THEN [state |-> j.state, observed |-> j.observed]
                    ELSE latest
        BY <1>4, <2>1, StoredIsLatest DEF Commit
    <2>6. latest # None => latest.observed \in Nat
        BY MonitoringAssumption DEF TypeOK, Maybe, Snapshots
    <2>7. CASE Differs(j)
        BY <2>2, <2>3, <2>4, <2>5, <2>7 DEF PollsInOrder
    <2>8. CASE ~Differs(j)
        BY <1>2, <2>2, <2>3, <2>4, <2>5, <2>6, <2>8 DEF PollsInOrder
    <2> QED BY <2>7, <2>8
<1> QED BY <1>3, <1>4

\* The history of the alerts follows the links.
LEMMA SubscribedStep == ASSUME TypeOK, Subscribed, [Next]_vars PROVE Subscribed'
<1>1. now # None
    BY NoneIsNoNumber, MonitoringAssumption DEF TypeOK
<1>2. CASE links' = links /\ since' = since
    BY <1>2 DEF Subscribed
<1>3. ASSUME NEW u \in Users, AddWatch(u) PROVE Subscribed'
    BY <1>1, <1>3 DEF AddWatch, Subscribed, TypeOK
<1>4. ASSUME NEW u \in Users, RemoveWatch(u) PROVE Subscribed'
    BY <1>4 DEF RemoveWatch, Subscribed, TypeOK
<1>5. ASSUME NEW u \in Users, ToggleNotifications(u) PROVE Subscribed'
    BY <1>1, <1>5 DEF ToggleNotifications, Subscribed, TypeOK
<1>6. CASE SchedulerCommits
    <2>1. \A u \in Users : links'[u] = (IF u \in plan.leavers THEN "none" ELSE links[u])
                         /\ since'[u] = (IF u \in plan.leavers THEN None ELSE since[u])
        BY <1>6 DEF SchedulerCommits
    <2> QED BY <2>1 DEF Subscribed
<1> QED BY <1>2, <1>3, <1>4, <1>5, <1>6
        DEF Next, Outside, Command, Scheduler, Poll, vars, database, processes,
            Tick, YahooCloses, LockExpires, Settle, SchedulerReads, SchedulerCleans,
            SchedulerFails, Start, Skip, Fetch, FetchStops, FetchFails, Compare, Commit,
            Finish, Abort, Crash

-----------------------------------------------------------------------------
(* What the bot shows *)

\* Whoever has the latest values of all columns writes the page as it is.
LEMMA FlushedUpToDate ==
    ASSUME NEW old \in AuctionState, NEW new \in AuctionState
    PROVE  Flushed(old, new, old) = new
BY DEF Flushed, AuctionState

\* A poll shows what it stores.
LEMMA ShownStep ==
    ASSUME TypeOK, UpToDate, PollsInOrder, ShownIsLatest, [Next]_vars
    PROVE  ShownIsLatest'
<1>1. CASE \A w \in Workers : ~Commit(w)
    <2>1. row'.shown = row.shown /\ latest' \in {latest, None}
        BY <1>1, RowStep, LatestStep
    <2> QED BY <2>1 DEF ShownIsLatest, Shown
<1>2. ASSUME NEW w \in Workers, Commit(w) PROVE ShownIsLatest'
    <2> DEFINE j == job[w]
    <2>1. j \in ComparedJobs /\ At(w, "compared")
        BY <1>2, JobAt DEF Commit
    <2>2. row'.shown = Mirrored(row, j)
        BY <1>2 DEF Commit, Polled
    <2>3. CASE Differs(j)
        <3>1. j.loaded.shown = row.shown
            BY <2>1 DEF UpToDate, Working
        <3>2. row.shown \in AuctionState /\ Shown(j.state) \in AuctionState
            BY <2>1, ShownTyped, MonitoringAssumption DEF TypeOK, Rows, ComparedJobs
        <3>3. row'.shown = Shown(j.state)
            BY <2>2, <2>3, <3>1, <3>2, FlushedUpToDate DEF Mirrored
        <3>4. latest' = [state |-> j.state, observed |-> j.observed]
            BY <1>2, <2>1, <2>3, StoredIsLatest DEF Commit
        <3> QED BY <3>3, <3>4 DEF ShownIsLatest, Shown
    <2>4. CASE ~Differs(j)
        <3>1. row'.shown = row.shown /\ latest' = latest
            BY <1>2, <2>2, <2>4 DEF Mirrored, Commit, IsLatest
        <3> QED BY <3>1 DEF ShownIsLatest, Shown
    <2> QED BY <2>3, <2>4
<1> QED BY <1>1, <1>2

\* The inductive invariant of the polls that never overlap.
PollsApart == TypeOK /\ Owned /\ UpToDate /\ PollsInOrder /\ Subscribed /\ ShownIsLatest

\* It holds throughout, provided that no live job loses its lock.
LEMMA PollsApartInvariant == Spec /\ LocksLast => []PollsApart
<1>1. Init => Owned /\ UpToDate /\ PollsInOrder /\ Subscribed /\ ShownIsLatest
    <2> SUFFICES ASSUME Init
                 PROVE  Owned /\ UpToDate /\ PollsInOrder /\ Subscribed /\ ShownIsLatest
        OBVIOUS
    <2>1. Owned /\ UpToDate
        BY DEF Init, Owned, UpToDate, Working, At
    <2>2. PollsInOrder /\ ShownIsLatest
        BY DEF Init, PollsInOrder, ShownIsLatest
    <2>3. Subscribed
        BY NoneIsNoNumber DEF Init, Subscribed
    <2> QED BY <2>1, <2>2, <2>3
<1>2. PollsApart /\ TypeOK' /\ [Next]_vars /\ [LockLasts]_vars => PollsApart'
    <2>1. TypeOK /\ UNCHANGED vars => ~LockExpires
        BY DEF TypeOK, LockRecords, vars, processes, LockExpires, Elapsed
    <2> QED BY <2>1, OwnedStep, UpToDateStep, PollsInOrderStep, SubscribedStep, ShownStep
            DEF PollsApart, LockLasts
<1> QED BY <1>1, <1>2, MonitoringTypeCorrect, PTL DEF Spec, LocksLast, PollsApart

\* The worker whose job polls the auction, and its polls as a mutex.
Poller == IF \E w \in Workers : job[w] # None
          THEN CHOOSE w \in Workers : job[w] # None ELSE None

Turn == INSTANCE Mutex WITH Slots <- Workers, holder <- Poller

\* Who the poller is, of one state and of the state after a step.
LEMMA PollerIs ==
    ASSUME Owned
    PROVE  /\ \A w \in Workers : job[w] # None => Poller = w
           /\ (\A w \in Workers : job[w] = None) => Poller = None
BY DEF Owned, Poller

LEMMA PollerIsNext ==
    ASSUME Owned'
    PROVE  /\ \A w \in Workers : job'[w] # None => Poller' = w
           /\ (\A w \in Workers : job'[w] = None) => Poller' = None
BY DEF Owned, Poller

\* Each step of the monitoring begins a poll, ends one, or does neither.
LEMMA TurnStep ==
    ASSUME TypeOK, Owned, Owned', [Next]_vars PROVE [Turn!Next]_Poller
<1>1. ASSUME NEW w \in Workers, Start(w) PROVE [Turn!Next]_Poller
    <2>1. \A v \in Workers : job[v] = None
        BY <1>1, MonitoringAssumption
           DEF Start, CanAcquire, Owned, TypeOK, LockRecords, Unlocked
    <2>2. Poller = None
        BY <2>1, PollerIs
    <2>3. CASE job'[w] # None
        <3>1. Poller' = w
            BY <2>3, PollerIsNext
        <3> QED BY <2>2, <3>1 DEF Turn!Next, Turn!Enter
    <2>4. CASE job'[w] = None
        <3>1. \A v \in Workers : job'[v] = None
            BY <1>1, <2>1, <2>4 DEF Start
        <3> QED BY <2>2, <3>1, PollerIsNext
    <2> QED BY <2>3, <2>4
<1>2. ASSUME NEW w \in Workers, job[w] # None, \A v \in Workers : v # w => job'[v] = job[v]
      PROVE  [Turn!Next]_Poller
    <2>1. Poller = w /\ w # None
        BY <1>2, PollerIs, MonitoringAssumption
    <2>2. CASE job'[w] # None
        BY <2>1, <2>2, PollerIsNext
    <2>3. CASE job'[w] = None
        <3>1. \A v \in Workers : job'[v] = None
            BY <1>2, <2>3, SoleJob
        <3>2. Poller' = None
            BY <3>1, PollerIsNext
        <3> QED BY <2>1, <3>2 DEF Turn!Next, Turn!Leave
    <2> QED BY <2>2, <2>3
<1>3. ASSUME NEW w \in Workers,
             \/ Fetch(w) \/ FetchStops(w) \/ FetchFails(w) \/ Compare(w) \/ Commit(w)
             \/ Finish(w) \/ Abort(w) \/ Crash(w)
      PROVE  job[w] # None /\ \A v \in Workers : v # w => job'[v] = job[v]
    <2>1. job \in [Workers -> Maybe(Jobs)]
        BY DEF TypeOK
    <2>2. CASE Fetch(w) \/ FetchStops(w) \/ FetchFails(w) \/ Compare(w) \/ Commit(w)
        BY <2>1, <2>2 DEF Fetch, FetchStops, FetchFails, Compare, Commit, Done, At
    <2>3. CASE Finish(w) \/ Abort(w) \/ Crash(w)
        BY <2>1, <2>3 DEF Finish, Abort, Crash, At
    <2> QED BY <1>3, <2>2, <2>3
<1>4. job' = job => Poller' = Poller
    BY DEF Poller
<1> QED BY <1>1, <1>2, <1>3, <1>4
        DEF Next, Outside, Command, Scheduler, Poll, vars, database, processes,
            Tick, YahooCloses, LockExpires, Settle, AddWatch, RemoveWatch,
            ToggleNotifications, SchedulerReads, SchedulerCleans, SchedulerCommits,
            SchedulerFails, Skip

\* The polls of the monitoring implement the mutex that the jobs of LockedJobs
\* implement with their timers: whoever polls is alone (README.md:34-36).
THEOREM PollsTakeTurns == Spec /\ LocksLast => Turn!Spec
<1>1. Init => Turn!Init
    BY DEF Init, Turn!Init, Poller
<1>2. TypeOK /\ Owned /\ Owned' /\ [Next]_vars => [Turn!Next]_Poller
    BY TurnStep
<1> QED BY <1>1, <1>2, PollsApartInvariant, PTL DEF PollsApart, Spec, Turn!Spec

\* What the bot shows of an auction is what the next poll compares the page
\* with, whatever users, scheduler and failures do in between: every poll that
\* changes the one changes the other in the same transaction.
THEOREM ShownIsTrue == Spec /\ LocksLast => []ShownIsLatest
BY PollsApartInvariant, PTL DEF PollsApart

-----------------------------------------------------------------------------
(* Alerts that are not delivered yet *)

\* The users whose links the tick is about to take away wait for no alert of an
\* auction that is closed.
LeaversSettled ==
    plan # None /\ plan.leavers # None =>
        \A u \in plan.leavers : row.shown.closed /\ \A c \in pending : c.user # u

\* No poll is at work on a closed auction: it would have loaded it as such.
LEMMA NoPollOnClosed ==
    ASSUME PollsApart, ClosedIsOver, row.shown.closed, NEW w \in Workers
    PROVE  ~Working(w)
BY DEF PollsApart, UpToDate, ClosedIsOver, Working

\* Every step keeps them settled, for only a poll adds alerts.
LEMMA LeaversSettledStep ==
    ASSUME PollsApart, ClosedIsOver, LeaversSettled, [Next]_vars
    PROVE  LeaversSettled'
<1> USE DEF PollsApart, LeaversSettled
<1>1. row.shown.closed => row'.shown.closed
    BY ClosedStep
<1>2. CASE plan' = plan /\ pending' \subseteq pending
    BY <1>1, <1>2
<1>3. CASE SchedulerReads
    BY <1>3 DEF SchedulerReads
<1>4. CASE SchedulerCleans
    <2>1. plan \in Plans
        BY <1>4 DEF SchedulerCleans, TypeOK, Maybe
    <2>2. plan'.leavers = {u \in Users : Finalized(u)}
        BY <1>4, <2>1 DEF SchedulerCleans, Plans
    <2> QED BY <1>1, <1>4, <2>2 DEF SchedulerCleans, Finalized, database
<1>5. CASE SchedulerCommits \/ SchedulerFails
    BY <1>5 DEF SchedulerCommits, SchedulerFails
<1>6. ASSUME NEW w \in Workers, Commit(w) PROVE LeaversSettled'
    <2>1. ~row.shown.closed
        BY <1>6, NoPollOnClosed DEF Commit, Working
    <2>2. plan' = plan
        BY <1>6 DEF Commit
    <2> QED BY <2>1, <2>2
<1>7. ASSUME NEW u \in Users, RemoveWatch(u) PROVE LeaversSettled'
    BY <1>2, <1>7 DEF RemoveWatch, processes
<1>8. ASSUME NEW u \in Users, Settle(u) PROVE LeaversSettled'
    BY <1>2, <1>8 DEF Settle, processes
<1> QED BY <1>2, <1>3, <1>4, <1>5, <1>6, <1>7, <1>8
        DEF Next, Outside, Command, Scheduler, Poll, vars, database, processes, Tick,
            YahooCloses, LockExpires, AddWatch, ToggleNotifications, Start, Skip, Fetch,
            FetchStops, FetchFails, Compare, Finish, Abort, Crash

\* Provided that no job outlives the poll lock, an alert that is not delivered
\* yet goes only with the user's own command to stop watching: no poll is left
\* that could add one to a link of a closed auction, not even between the DELETE
\* that chooses the link and the commit of the tick.
THEOREM PendingGoesWithWatch == Spec /\ LocksLast => PendingOutlivesClosing
<1> DEFINE Kept == \A c \in pending : c \notin claims' => RemoveWatch(c.user)
<1>1. Init => LeaversSettled
    BY DEF Init, LeaversSettled
<1>2. PollsApart /\ ClosedIsOver /\ LeaversSettled /\ [Next]_vars
        => LeaversSettled' /\ [Kept]_vars
    <2> SUFFICES ASSUME PollsApart, LeaversSettled, [Next]_vars,
                        NEW c \in pending, c \notin claims'
                 PROVE  RemoveWatch(c.user)
        BY LeaversSettledStep
    <2>1. c \in claims
        BY DEF PollsApart, TypeOK
    <2>2. CASE claims \subseteq claims'
        BY <2>1, <2>2
    <2>3. ASSUME NEW u \in Users, RemoveWatch(u) PROVE RemoveWatch(c.user)
        <3>1. c.user = u
            BY <2>1, <2>3 DEF RemoveWatch
        <3> QED BY <2>3, <3>1
    <2>4. CASE SchedulerCommits
        <3>1. c.user \in plan.leavers
            BY <2>1, <2>4 DEF SchedulerCommits
        <3> QED BY <2>4, <3>1 DEF SchedulerCommits, LeaversSettled
    <2>5. ASSUME NEW w \in Workers, Poll(w) PROVE claims \subseteq claims'
        BY <2>5 DEF Poll, database, Start, Skip, Fetch, FetchStops, FetchFails, Compare,
                    Commit, Finish, Abort, Crash
    <2> QED BY <2>2, <2>3, <2>4, <2>5
            DEF Next, Outside, Command, Scheduler, vars, database, Tick, YahooCloses,
                LockExpires, Settle, AddWatch, ToggleNotifications, SchedulerReads,
                SchedulerCleans, SchedulerFails
<1> QED BY <1>1, <1>2, ClosedIsOverInvariant, PollsApartInvariant, PTL
        DEF Spec, PendingOutlivesClosing

-----------------------------------------------------------------------------
(* The refinement *)

\* What a job has compared its page with, if there is one that has, and the
\* latest snapshot otherwise.
LEMMA BaselineIs ==
    ASSUME Owned
    PROVE  /\ \A w \in Workers : At(w, "compared") => Baseline = job[w].previous
           /\ (\A w \in Workers : ~At(w, "compared"))
                => Baseline = IF latest = None THEN None ELSE latest.state
<1>1. \A v, w \in Workers : At(v, "compared") /\ At(w, "compared") => v = w
    BY DEF Owned, At
<1>2. ASSUME NEW w \in Workers, At(w, "compared") PROVE Baseline = job[w].previous
    <2>1. (CHOOSE v \in Workers : At(v, "compared")) = w
        BY <1>1, <1>2
    <2> QED BY <1>2, <2>1 DEF Baseline
<1>3. (\A w \in Workers : ~At(w, "compared"))
        => Baseline = IF latest = None THEN None ELSE latest.state
    BY DEF Baseline
<1> QED BY <1>2, <1>3

\* The same, of the state after a step.
LEMMA BaselineBecomes ==
    ASSUME Owned'
    PROVE  /\ \A w \in Workers : At(w, "compared")' => Baseline' = job'[w].previous
           /\ (\A w \in Workers : ~At(w, "compared")')
                => Baseline' = IF latest' = None THEN None ELSE latest'.state
<1>1. \A v, w \in Workers : At(v, "compared")' /\ At(w, "compared")' => v = w
    BY DEF Owned, At
<1>2. ASSUME NEW w \in Workers, At(w, "compared")' PROVE Baseline' = job'[w].previous
    <2>1. (CHOOSE v \in Workers : At(v, "compared")') = w
        BY <1>1, <1>2
    <2> QED BY <1>2, <2>1 DEF Baseline
<1>3. (\A w \in Workers : ~At(w, "compared")')
        => Baseline' = IF latest' = None THEN None ELSE latest'.state
    BY DEF Baseline
<1> QED BY <1>2, <1>3

\* The baseline stays while no job begins or ends to hold one and nothing is
\* purged.
LEMMA BaselineKept ==
    ASSUME Owned, Owned', latest' = latest,
           \A w \in Workers : \/ job'[w] = job[w]
                              \/ ~At(w, "compared") /\ ~At(w, "compared")'
    PROVE  Baseline' = Baseline
<1>1. CASE \E w \in Workers : At(w, "compared")
    <2>1. PICK w \in Workers : At(w, "compared")
        BY <1>1
    <2>2. job'[w] = job[w] /\ At(w, "compared")'
        BY <2>1 DEF At
    <2> QED BY <2>1, <2>2, BaselineIs, BaselineBecomes
<1>2. CASE \A w \in Workers : ~At(w, "compared")
    <2>1. \A w \in Workers : ~At(w, "compared")'
        BY <1>2 DEF At
    <2> QED BY <1>2, <2>1, BaselineIs, BaselineBecomes
<1> QED BY <1>1, <1>2

\* A baseline is lost only to a purge.
LEMMA BaselineForgotten ==
    ASSUME UpToDate, Owned, Owned', latest' \in {latest, None},
           \A w \in Workers : job'[w] \in {job[w], None}
    PROVE  Baseline' \in {Baseline, None}
<1>1. CASE \E w \in Workers : At(w, "compared")'
    <2>1. PICK w \in Workers : At(w, "compared")'
        BY <1>1
    <2>2. job'[w] = job[w] /\ At(w, "compared")
        BY <2>1 DEF At
    <2> QED BY <2>1, <2>2, BaselineIs, BaselineBecomes
<1>2. CASE \A w \in Workers : ~At(w, "compared")'
    <2>1. Baseline' = IF latest' = None THEN None ELSE latest'.state
        BY <1>2, BaselineBecomes
    <2>2. latest # None => Baseline = latest.state
        <3>1. CASE \E w \in Workers : At(w, "compared")
            BY <3>1, BaselineIs DEF UpToDate
        <3>2. CASE \A w \in Workers : ~At(w, "compared")
            BY <3>2, BaselineIs
        <3> QED BY <3>1, <3>2
    <2> QED BY <2>1, <2>2
<1> QED BY <1>1, <1>2

\* The domain rules that the feed refers to are those of the poll.
LEMMA FeedRules ==
    /\ Feed!TimedKinds = TimedKinds /\ Feed!StateKinds = StateKinds
    /\ \A p, c : Feed!HasChanges(p, c) <=> HasChanges(p, c)
    /\ \A p, c, from, to : Feed!Decisions(p, c, from, to) = Decisions(p, c, from, to)
    /\ \A k, c, snapshot : Feed!DedupKey(k, c, snapshot) = DedupKey(k, c, snapshot)
<1>1. Feed!TimedKinds = TimedKinds /\ Feed!StateKinds = StateKinds
    BY DEF Feed!TimedKinds, TimedKinds, Feed!StateKinds, StateKinds
<1>2. ASSUME NEW p, NEW c PROVE Feed!PriceChanged(p, c) <=> PriceChanged(p, c)
    BY DEF Feed!PriceChanged, PriceChanged, Feed!Distance, Distance,
           Feed!PriceThreshold, PriceThreshold
<1>3. ASSUME NEW p, NEW c PROVE Feed!HasChanges(p, c) <=> HasChanges(p, c)
    BY <1>2, Zenon DEF Feed!HasChanges, HasChanges
<1>4. ASSUME NEW p, NEW c PROVE Feed!StateDecisions(p, c) = StateDecisions(p, c)
    BY <1>2, <1>3 DEF Feed!StateDecisions, StateDecisions, Feed!Closes, Closes,
       Feed!Extended, Extended, Feed!NewBidDetected, NewBidDetected
<1>5. ASSUME NEW c, NEW from, NEW to
      PROVE  Feed!TimedDecisions(c, from, to) = TimedDecisions(c, from, to)
    BY <1>1 DEF Feed!TimedDecisions, TimedDecisions
<1>6. \A p, c, from, to : Feed!Decisions(p, c, from, to) = Decisions(p, c, from, to)
    BY <1>4, <1>5 DEF Feed!Decisions, Decisions
<1>7. \A k, c, snapshot : Feed!DedupKey(k, c, snapshot) = DedupKey(k, c, snapshot)
    BY <1>1 DEF Feed!DedupKey, DedupKey
<1> QED BY <1>1, <1>3, <1>6, <1>7

\* A poll that commits observes the page in order, claims the alerts that the
\* feed calls for, and gives the next poll its baseline.
LEMMA CommitObserves ==
    ASSUME PollsApart, PollsApart', NEW w \in Workers, Commit(w)
    PROVE  \E s \in Pages, t \in 0..MaxTime : Feed!Observe(s, t)
<1> DEFINE j == job[w]
<1> USE DEF PollsApart
<1>1. j \in ComparedJobs /\ At(w, "compared") /\ Working(w)
    BY JobAt DEF Commit, Working
<1>2. j.state \in Pages /\ j.observed \in 0..MaxTime
    BY <1>1 DEF ComparedJobs
<1>3. Baseline = j.previous
    BY <1>1, BaselineIs
<1>4. Baseline' = IF latest' = None THEN None ELSE latest'.state
    <2>1. job'[w] = [pc |-> "committed"] /\ \A v \in Workers : v # w => job'[v] = job[v]
        BY DEF Commit, Done, TypeOK
    <2>2. \A v \in Workers : ~At(v, "compared")'
        BY <1>1, <2>1, SoleJob DEF At
    <2> QED BY <2>2, BaselineBecomes
<1>5. Feed!Changed(j.state) <=> Differs(j)
    BY <1>3, FeedRules DEF Feed!Changed, Differs
<1>6. latest' = IF Differs(j) THEN [state |-> j.state, observed |-> j.observed] ELSE latest
    BY <1>1, StoredIsLatest DEF Commit
<1>7. Baseline' \in IF Feed!Changed(j.state) THEN {j.state} ELSE {Baseline, None}
    <2>1. CASE Differs(j)
        <3>1. latest' # None
            BY <1>2, <1>6, <2>1, NoneIsNoSnapshot DEF Snapshots
        <3> QED BY <1>4, <1>5, <1>6, <2>1, <3>1
    <2>2. CASE ~Differs(j)
        BY <1>1, <1>3, <1>4, <1>5, <1>6, <2>2 DEF UpToDate
    <2> QED BY <2>1, <2>2
<1>8. row.lastPolled <= j.observed /\ j.observed <= now
    BY <1>1 DEF UpToDate
<1>9. row'.lastPolled = j.observed
    BY DEF Commit, Polled, PollTime
<1>10. nextSnapshot < MaxSnapshots
       /\ nextSnapshot' = IF Feed!Changed(j.state) THEN nextSnapshot + 1 ELSE nextSnapshot
    BY <1>5 DEF Commit
<1>11. row'.shown.end = j.state.end
    <2>1. row.shown \in AuctionState /\ Shown(j.state) \in AuctionState
        BY <1>1, ShownTyped, MonitoringAssumption DEF TypeOK, Rows, ComparedJobs
    <2>2. j.loaded.shown = row.shown /\ row'.shown = Mirrored(row, j)
        BY <1>1 DEF UpToDate, Commit, Polled
    <2>3. j.state \in AuctionState
        BY <1>2, MonitoringAssumption
    <2>4. Shown(j.state).end = j.state.end
        BY <2>3 DEF Shown, AuctionState
    <2>5. CASE Differs(j)
        <3>1. row'.shown = Shown(j.state)
            BY <2>1, <2>2, <2>5, FlushedUpToDate DEF Mirrored
        <3> QED BY <2>4, <3>1
    <2>6. CASE ~Differs(j)
        <3>1. row'.shown = row.shown /\ j.previous # None /\ j.previous.end = j.state.end
            BY <2>2, <2>6 DEF Mirrored, Differs, HasChanges
        <3>2. row.shown = Shown(j.previous) /\ j.previous \in AuctionState
            BY <1>1, <3>1, MonitoringAssumption DEF UpToDate, ComparedJobs, Maybe
        <3>3. Shown(j.previous).end = j.previous.end
            BY <3>2 DEF Shown, AuctionState
        <3> QED BY <3>1, <3>2, <3>3
    <2> QED BY <2>5, <2>6
<1>12. claims' = claims \cup Feed!Alerts(j.state, j.observed)
    <2>1. {v \in Users : links[v] = "on"} = {v \in Users : Feed!Watching(v)}
        BY DEF Subscribed, Feed!Watching
    <2>2. Decisions(j.previous, j.state, j.loaded.lastPolled, j.observed)
            = Feed!Decisions(Baseline, j.state, row.lastPolled, j.observed)
        BY <1>1, <1>3, FeedRules DEF UpToDate
    <2>3. Stored(j) = Feed!Snapshot(j.state)
        BY <1>5 DEF Stored, Feed!Snapshot
    <2>4. Alerts(j) = Feed!Alerts(j.state, j.observed)
        BY <2>1, <2>2, <2>3, FeedRules DEF Alerts, Feed!Alerts
    <2> QED BY <2>4 DEF Commit
<1>13. now' = now /\ since' = since
    BY DEF Commit
<1>14. /\ endSince' = IF j.state.end # row.shown.end THEN j.observed ELSE endSince
       /\ silent' = IF Baseline = None THEN silent \cup ((row.lastPolled + 1)..j.observed)
                    ELSE silent
    BY <1>1, <1>3, <1>11 DEF Commit, UpToDate
<1>15. Feed!Observe(j.state, j.observed)
    BY <1>7, <1>8, <1>9, <1>10, <1>11, <1>12, <1>13, <1>14 DEF Feed!Observe
<1> QED BY <1>2, <1>15

\* What the users do is what the feed lets them do.
LEMMA CommandFollows ==
    ASSUME PollsApart, PollsApart', NEW u \in Users, Command(u)
    PROVE  Feed!Next
<1>1. row'.shown = row.shown /\ row'.lastPolled = row.lastPolled
    <2>1. row \in Rows
        BY DEF PollsApart, TypeOK
    <2>2. \/ row' = row
          \/ row' = [row EXCEPT !.active = TRUE, !.nextPoll = now]
          \/ row' = [row EXCEPT !.nextPoll = now + Grace]
        BY DEF Command, AddWatch, RemoveWatch, ToggleNotifications, Resumed
    <2> QED BY <2>1, <2>2 DEF Rows
<1> USE DEF PollsApart, Feed!ends
<1>2. Baseline' = Baseline
    <2>1. latest' = latest /\ job' = job
        BY DEF Command, AddWatch, RemoveWatch, ToggleNotifications, processes
    <2> QED BY <2>1, BaselineKept
<1>3. CASE AddWatch(u)
    <2>1. ~Feed!Watching(u)
        BY <1>3 DEF AddWatch, Subscribed, Feed!Watching
    <2>2. Feed!Enable(u)
        BY <1>1, <1>2, <1>3, <2>1 DEF AddWatch, Feed!Enable
    <2> QED BY <2>2 DEF Feed!Next
<1>4. CASE RemoveWatch(u)
    <2>1. since' = [v \in Users |-> IF v \in {u} THEN None ELSE since[v]]
        BY <1>4 DEF RemoveWatch, TypeOK
    <2>2. claims' = {c \in claims : c.user \notin {u}}
        BY <1>4 DEF RemoveWatch
    <2>3. Feed!Forget({u}, Baseline)
        BY <1>1, <1>2, <1>4, <2>1, <2>2 DEF RemoveWatch, Feed!Forget
    <2> QED BY <2>3 DEF Feed!Next
<1>5. CASE ToggleNotifications(u) /\ links[u] = "on"
    <2>1. Feed!Mute(u)
        BY <1>1, <1>2, <1>5 DEF ToggleNotifications, Subscribed, Feed!Mute, Feed!Watching
    <2> QED BY <2>1 DEF Feed!Next
<1>6. CASE ToggleNotifications(u) /\ links[u] # "on"
    <2>1. Feed!Enable(u)
        BY <1>1, <1>2, <1>6 DEF ToggleNotifications, Subscribed, Feed!Enable, Feed!Watching
    <2> QED BY <2>1 DEF Feed!Next
<1> QED BY <1>3, <1>4, <1>5, <1>6 DEF Command

\* The scheduler's commit forgets the users it unlinks, and the baseline if it
\* purges; so does a poll that ends before its commit after a purge.
LEMMA ForgettingFollows ==
    ASSUME PollsApart, PollsApart',
           SchedulerCommits \/ \E w \in Workers : Abort(w) \/ Crash(w)
    PROVE  Feed!Next
<1> USE DEF PollsApart
<1>1. Baseline' \in {Baseline, None}
    <2>1. latest' \in {latest, None}
        BY DEF SchedulerCommits, Abort, Crash, database
    <2>2. \A w \in Workers : job'[w] \in {job[w], None}
        BY DEF SchedulerCommits, Abort, Crash, TypeOK
    <2> QED BY <2>1, <2>2, BaselineForgotten
<1>2. row'.shown = row.shown /\ row'.lastPolled = row.lastPolled
    <2>1. CASE SchedulerCommits
        BY <2>1 DEF SchedulerCommits, Planned, Stopped, TypeOK, Maybe, Plans, Rows
    <2>2. CASE row' = row
        BY <2>2
    <2> QED BY <2>1, <2>2 DEF Abort, Crash, database
<1>3. UNCHANGED <<now, endSince, silent, nextSnapshot>>
    BY DEF SchedulerCommits, Abort, Crash, database
<1>4. CASE SchedulerCommits
    <2>1. since' = [u \in Users |-> IF u \in plan.leavers THEN None ELSE since[u]]
        BY <1>4 DEF SchedulerCommits
    <2>2. claims' = {c \in claims : c.user \notin plan.leavers}
        BY <1>4 DEF SchedulerCommits
    <2>3. Feed!Forget(plan.leavers, Baseline')
        BY <1>2, <1>3, <2>1, <2>2 DEF Feed!Forget, Feed!ends
    <2>4. plan.leavers \in SUBSET Users
        BY <1>4 DEF SchedulerCommits, TypeOK, Plans, Maybe
    <2> QED BY <1>1, <2>3, <2>4 DEF Feed!Next
<1>5. CASE \E w \in Workers : Abort(w) \/ Crash(w)
    <2>1. since' = [u \in Users |-> IF u \in {} THEN None ELSE since[u]]
        BY <1>5 DEF Abort, Crash, database, TypeOK
    <2>2. claims' = {c \in claims : c.user \notin {}}
        BY <1>5 DEF Abort, Crash, database
    <2>3. Feed!Forget({}, Baseline')
        BY <1>2, <1>3, <2>1, <2>2 DEF Feed!Forget, Feed!ends
    <2> QED BY <1>1, <2>3 DEF Feed!Next
<1> QED BY <1>4, <1>5

\* Every step of the monitoring is a step of the feed, or none.
LEMMA FeedStep ==
    ASSUME PollsApart, PollsApart', [Next]_vars PROVE [Feed!Next]_(Feed!vars)
<1> USE DEF PollsApart
<1>1. ASSUME NEW w \in Workers, Commit(w) PROVE Feed!Next
    BY <1>1, CommitObserves DEF Feed!Next
<1>2. ASSUME NEW u \in Users, Command(u) PROVE Feed!Next
    BY <1>2, CommandFollows
<1>3. CASE SchedulerCommits \/ \E w \in Workers : Abort(w) \/ Crash(w)
    BY <1>3, ForgettingFollows
<1>4. CASE Tick
    <2>1. Baseline' = Baseline /\ row' = row
        BY <1>4, BaselineKept DEF Tick, database, processes
    <2> QED BY <1>4, <2>1 DEF Tick, database, Feed!Tick, Feed!Next, Feed!ends
<1>5. ASSUME \/ YahooCloses \/ LockExpires
             \/ SchedulerReads \/ SchedulerCleans \/ SchedulerFails
             \/ UNCHANGED vars
             \/ \E u \in Users : Settle(u)
             \/ \E w \in Workers : Start(w) \/ Skip(w) \/ Fetch(w) \/ FetchStops(w)
                                    \/ FetchFails(w) \/ Compare(w) \/ Finish(w)
      PROVE UNCHANGED Feed!vars
    <2>1. row'.shown = row.shown /\ row'.lastPolled = row.lastPolled
        <3>1. ASSUME NEW w \in Workers, FetchStops(w) \/ FetchFails(w)
              PROVE  row'.shown = row.shown /\ row'.lastPolled = row.lastPolled
            BY <3>1 DEF FetchStops, FetchFails, Failed, Stopped, TypeOK, Rows
        <3>2. CASE row' = row
            BY <3>2
        <3> QED BY <1>5, <3>1, <3>2
                DEF YahooCloses, LockExpires, SchedulerReads, SchedulerCleans,
                    SchedulerFails, vars, Settle, Start, Skip, Fetch, Compare, Finish,
                    database
    <2>2. UNCHANGED <<now, endSince, silent, since, claims, nextSnapshot, latest>>
        BY <1>5 DEF YahooCloses, LockExpires, SchedulerReads, SchedulerCleans,
                    SchedulerFails, vars, Settle, Start, Skip, Fetch, FetchStops,
                    FetchFails, Compare, Finish, database
    <2>3. Baseline' = Baseline
        <3>1. ASSUME NEW w \in Workers, Compare(w) PROVE Baseline' = Baseline
            <4>1. At(w, "compared")' => Baseline' = IF latest = None THEN None ELSE latest.state
                <5>1. At(w, "compared")' => Baseline' = job'[w].previous
                    BY BaselineBecomes
                <5>2. job'[w].previous = IF latest = None THEN None ELSE latest.state
                    BY <3>1 DEF Compare, TypeOK
                <5> QED BY <5>1, <5>2
            <4>2. \A v \in Workers : v # w => ~At(v, "compared") /\ job'[v] = job[v]
                BY <3>1, SoleJob DEF Compare, At
            <4>3. ~At(w, "compared")' => Baseline' = IF latest = None THEN None ELSE latest.state
                BY <2>2, <4>2, BaselineBecomes DEF At
            <4>4. Baseline = IF latest = None THEN None ELSE latest.state
                BY <3>1, <4>2, BaselineIs DEF Compare, At
            <4> QED BY <4>1, <4>3, <4>4
        <3>2. CASE job' = job
            BY <2>2, <3>2, BaselineKept
        <3>3. ASSUME NEW w \in Workers, Start(w) \/ Fetch(w) \/ FetchStops(w)
                                         \/ FetchFails(w) \/ Finish(w)
              PROVE  Baseline' = Baseline
            <4>1. \A v \in Workers : v # w => job'[v] = job[v]
                BY <3>3 DEF Start, Fetch, FetchStops, FetchFails, Finish, Done, TypeOK
            <4>2. ~At(w, "compared")
                BY <3>3 DEF Start, Fetch, FetchStops, FetchFails, Finish, At
            <4>3. ~At(w, "compared")'
                <5>1. CASE Start(w) \/ Finish(w)
                    BY <5>1 DEF Start, Finish, At, TypeOK
                <5>2. CASE Fetch(w)
                    BY <5>2 DEF Fetch, At, TypeOK
                <5>3. CASE FetchStops(w) \/ FetchFails(w)
                    BY <5>3 DEF FetchStops, FetchFails, Done, At, TypeOK
                <5> QED BY <3>3, <5>1, <5>2, <5>3
            <4> QED BY <2>2, <4>1, <4>2, <4>3, BaselineKept
        <3> QED BY <1>5, <3>1, <3>2, <3>3
                DEF YahooCloses, LockExpires, SchedulerReads, SchedulerCleans,
                    SchedulerFails, vars, Settle, Skip, processes
    <2> QED BY <2>1, <2>2, <2>3 DEF Feed!vars, Feed!ends
<1> QED BY <1>1, <1>2, <1>3, <1>4, <1>5 DEF Next, Outside, Scheduler, Poll

\* Provided that no job outlives the poll lock, the monitoring of an auction
\* keeps the promises of the feed: whoever runs the polls and whatever fails, the
\* page is observed in order, each observation is compared with the one before,
\* and each watcher is given the alerts that it calls for, once.
THEOREM MonitoringImplementsFeed == Spec /\ LocksLast => ImplementsFeed
<1>1. Init => Feed!Init
    <2> SUFFICES ASSUME Init PROVE Feed!Init
        OBVIOUS
    <2>1. Baseline = None
        BY DEF Init, Baseline, At
    <2>2. since \in [Users -> {None, 0}]
        BY DEF Init
    <2>3. PICK p \in Pages : row.shown = Shown(p) /\ row.lastPolled = 0
        BY DEF Init
    <2>4. Shown(p).end = p.end
        BY MonitoringAssumption DEF Shown, AuctionState
    <2> QED BY <2>1, <2>2, <2>3, <2>4 DEF Init, Feed!Init
<1>2. PollsApart /\ PollsApart' /\ [Next]_vars => [Feed!Next]_(Feed!vars)
    BY FeedStep
<1> QED BY <1>1, <1>2, PollsApartInvariant, PTL DEF Spec, ImplementsFeed, Feed!Spec
-----------------------------------------------------------------------------
(* What the feed promises, the monitoring keeps *)

\* What AlertFeedProofs proves of any feed, said of this one.
Promises == INSTANCE AlertFeedProofs WITH
              States <- Pages,
              clock <- now,
              last <- Baseline,
              lastPolled <- row.lastPolled,
              shownEnd <- row.shown.end

\* It is the same feed: the rules,
LEMMA PromisedRules ==
    /\ \A p, c, from, to : Promises!Decisions(p, c, from, to) = Feed!Decisions(p, c, from, to)
    /\ \A p, c : Promises!HasChanges(p, c) <=> Feed!HasChanges(p, c)
    /\ \A k, c, n : Promises!DedupKey(k, c, n) = Feed!DedupKey(k, c, n)
BY DEF Promises!Decisions, Promises!TimedDecisions, Promises!StateDecisions,
       Promises!Closes, Promises!Extended, Promises!HasChanges, Promises!PriceChanged,
       Promises!NewBidDetected, Promises!Distance, Promises!TimedKinds,
       Promises!PriceThreshold, Promises!DedupKey,
       Feed!Decisions, Feed!TimedDecisions, Feed!StateDecisions,
       Feed!Closes, Feed!Extended, Feed!HasChanges, Feed!PriceChanged,
       Feed!NewBidDetected, Feed!Distance, Feed!TimedKinds,
       Feed!PriceThreshold, Feed!DedupKey

\* the observations,
LEMMA PromisedObservations ==
    ASSUME NEW s, NEW t PROVE Promises!Observe(s, t) <=> Feed!Observe(s, t)
<1>1. Promises!Changed(s) <=> Feed!Changed(s)
    BY PromisedRules DEF Promises!Changed, Feed!Changed
<1>2. Promises!Snapshot(s) = Feed!Snapshot(s)
    BY <1>1 DEF Promises!Snapshot, Feed!Snapshot
<1>3. Promises!Alerts(s, t) = Feed!Alerts(s, t)
    BY <1>2, PromisedRules
       DEF Promises!Alerts, Feed!Alerts, Promises!Watching, Feed!Watching
<1> QED BY <1>1, <1>3 DEF Promises!Observe, Feed!Observe

\* and with them the behaviours.
LEMMA PromisedFeed == Feed!Spec => Promises!Spec
<1>1. Feed!Init <=> Promises!Init
    BY DEF Feed!Init, Promises!Init
<1>2. Feed!Next <=> Promises!Next
    BY PromisedObservations
       DEF Promises!Next, Promises!Tick, Promises!Enable, Promises!Mute, Promises!Forget,
           Promises!Watching, Promises!ends, Feed!ends, Feed!Next, Feed!Tick,
           Feed!Enable, Feed!Mute, Feed!Forget, Feed!Watching
<1>3. [Feed!Next]_(Feed!vars) => [Promises!Next]_(Promises!vars)
    BY <1>2 DEF Feed!vars, Promises!vars, Feed!ends, Promises!ends
<1> QED BY <1>1, <1>3, PTL DEF Feed!Spec, Promises!Spec

\* The constants are what AlertFeedProofs assumes of them.
LEMMA PromisesHold ==
    Promises!Spec => []Promises!RemindersCovered /\ Promises!ChangesAnnounced
<1>1. Pages \subseteq Promises!AuctionState
    BY MonitoringAssumption DEF Promises!AuctionState, AuctionState, Promises!Maybe, Maybe
<1>2. Threshold \in [Promises!TimedKinds -> Nat]
    BY ThresholdAssumption DEF Promises!TimedKinds, TimedKinds
<1>3. Interval \in [Promises!Bounds -> Nat \ {0}]
    BY IntervalAssumption DEF Promises!Bounds, Bounds
<1>4. MaxTime \in Nat /\ MaxSnapshots \in Nat /\ Minute \in Nat \ {0} /\ None \notin Int
    BY MonitoringAssumption, MinuteAssumption, NoneIsNoNumber
<1>5. Promises!Spec => []Promises!RemindersCovered
    BY <1>1, <1>2, <1>3, <1>4, Promises!NoReminderLost, PTL
<1>6. Promises!Spec => Promises!ChangesAnnounced
    BY <1>1, <1>2, <1>3, <1>4, Promises!EveryChangeAnnounced, PTL
<1> QED BY <1>5, <1>6, PTL

\* Provided that no job outlives the poll lock, a reminder is lost only in the
\* silent window of a poll that finds no snapshot to compare with: once any other
\* poll has committed past the moment of a reminder, every user whose alerts
\* have been on since before it holds the alert, if the end time was shown before.
THEOREM RemindersAreCovered == Spec /\ LocksLast => []RemindersCovered
<1>1. Promises!RemindersCovered => RemindersCovered
    BY DEF RemindersCovered, Feed!RemindersCovered, Promises!RemindersCovered,
           Feed!TimedKinds, Promises!TimedKinds, Feed!Watching, Promises!Watching
<1>2. Spec /\ LocksLast => Promises!Spec
    BY MonitoringImplementsFeed, PromisedFeed, PTL DEF ImplementsFeed
<1> QED BY <1>1, <1>2, PromisesHold, PTL

\* Under the same proviso every poll that takes in a change of the page gives
\* each user whose alerts are on an alert that did not exist before.
THEOREM MonitoringAnnouncesChanges == Spec /\ LocksLast => Feed!ChangesAnnounced
<1> DEFINE Announced ==
        Baseline # None /\ Baseline' # None /\ Baseline' # Baseline =>
            \A u \in Users : Feed!Watching(u) =>
                \E c \in claims' \ claims : c.user = u /\ c.kind \in Feed!StateKinds
           Promised ==
        Baseline # None /\ Baseline' # None /\ Baseline' # Baseline =>
            \A u \in Users : Promises!Watching(u) =>
                \E c \in claims' \ claims : c.user = u /\ c.kind \in Promises!StateKinds
<1>1. [Promised]_(Promises!vars) => [Announced]_(Feed!vars)
    BY DEF Feed!vars, Promises!vars, Feed!ends, Promises!ends, Feed!Watching,
           Promises!Watching, Feed!StateKinds, Promises!StateKinds
<1>2. Spec /\ LocksLast => Promises!Spec
    BY MonitoringImplementsFeed, PromisedFeed, PTL DEF ImplementsFeed
<1> QED BY <1>1, <1>2, PromisesHold, PTL DEF Feed!ChangesAnnounced, Promises!ChangesAnnounced
=============================================================================
