----------------------------- MODULE Monitoring -----------------------------
(***************************************************************************)
(* The monitoring of one auction by all the processes that take part in    *)
(* it: the scheduler that queues poll jobs, the workers that run them      *)
(* under the poll lock, the users' commands that come in through the bot,  *)
(* and the page at Yahoo that changes under their eyes.                    *)
(*                                                                         *)
(* A database transaction that only touches its own rows within a few      *)
(* milliseconds (a user's command) is one action.  A poll is cut wherever  *)
(* it waits for something else: it loads the row, fetches the page, reads  *)
(* the latest snapshot and commits, in four steps.  The scheduler reads in *)
(* one step and commits in another.                                        *)
(*                                                                         *)
(* The poll lock has no timer here: LocksExpireEarly says whether a job    *)
(* may outlive its lock (module LockedJobs relates that to the times).     *)
(* The delivery of a claimed alert is one action, Settle.                  *)
(***************************************************************************)
EXTENDS AuctionDomain, RedisLock, FiniteSets

CONSTANTS Users, Workers,
          Pages,             \* what the auction's page may show
          MaxErrors,         \* yahoo_max_consecutive_errors
          BackoffBase, BackoffMax,
          PushDelay,         \* poll_lock_ttl_seconds, in units of time
          Grace,             \* unwatch_grace_period_seconds
          Retention,         \* snapshot_retention_days
          LocksExpireEarly,  \* may a live job lose its lock?
          \* bounds
          MaxTime, MaxSnapshots, MaxQueue, ErrorCap

ASSUME MonitoringAssumption ==
    /\ Pages \subseteq AuctionState
    /\ None \notin Workers
    /\ {MaxErrors, BackoffBase, BackoffMax, PushDelay, Grace, Retention,
        MaxTime, MaxSnapshots, MaxQueue, ErrorCap} \subseteq Nat
    /\ LocksExpireEarly \in BOOLEAN

VARIABLES
    now,
    ended,         \* has the auction ended at Yahoo?
    row,           \* the row of table auctions
    latest,        \* the latest row of auction_snapshots, or None
    nextSnapshot,  \* the next id of that table
    links,         \* table user_auctions: [Users -> "none", "on" or "muted"]
    claims,        \* table sent_notifications: its unique keys
    pending,       \* those with status "pending"
    queue,         \* poll jobs waiting in the queue
    lock,          \* the key auction:{id}:poll-lock
    job,           \* [Workers -> the poll job it runs, or None]
    plan,          \* what the scheduler's tick is about to commit, or None
    \* history:
    since,         \* since when a user's alerts have been on, or None
    endSince,      \* since when the row has shown its end time
    silent         \* times that polls without a snapshot to compare with passed

database == <<row, latest, nextSnapshot, links, claims, pending, since, endSince, silent>>
processes == <<queue, lock, job, plan>>
vars == <<now, ended, database, processes>>

\* The columns of table auctions that mirror the page (new_bid is not one).
Shown(state) == [state EXCEPT !.newBid = None]

Rows == [shown : AuctionState, active : BOOLEAN,
         nextPoll : Maybe(Nat), lastPolled : 0..MaxTime,
         errors : 0..ErrorCap]

Claims == [user : Users, kind : Kinds, key : Int]

Snapshots == [state : Pages, observed : 0..MaxTime]

ASSUME NoneIsNoSnapshot == None \notin Snapshots

\* The columns whose loaded values a job uses later on.
Loaded(r) == [shown |-> r.shown, lastPolled |-> r.lastPolled, errors |-> r.errors]

LoadedRows == [shown : AuctionState, lastPolled : 0..MaxTime,
               errors : 0..ErrorCap]

\* A job has loaded the row; then it has the page and the time of observation;
\* then the snapshot to compare it with; then it has committed.
LoadedJobs   == [pc : {"loaded"}, loaded : LoadedRows]
FetchedJobs  == [pc : {"fetched"}, loaded : LoadedRows, state : Pages, observed : 0..MaxTime]
ComparedJobs == [pc : {"compared"}, loaded : LoadedRows, state : Pages,
                 observed : 0..MaxTime, previous : Maybe(Pages)]

Jobs == LoadedJobs \cup FetchedJobs \cup ComparedJobs \cup [pc : {"committed"}]

\* A tick has a plan for the row; then it has chosen the users who leave.
Plans == [kind : {"rest", "stop"}, leavers : Maybe(SUBSET Users)]
           \cup [kind : {"push"}, at : 0..MaxTime, leavers : Maybe(SUBSET Users)]

TypeOK == /\ now \in 0..MaxTime /\ ended \in BOOLEAN /\ row \in Rows
          /\ latest \in Maybe(Snapshots) /\ nextSnapshot \in 0..MaxSnapshots
          /\ links \in [Users -> {"none", "on", "muted"}]
          /\ claims \subseteq Claims /\ pending \subseteq claims
          /\ queue \in 0..MaxQueue
          /\ lock \in LockRecords(Workers, 1)
          /\ job \in [Workers -> Maybe(Jobs)]
          /\ plan \in Maybe(Plans)
          /\ since \in [Users -> Maybe(0..MaxTime)] /\ endSince \in 0..MaxTime
          /\ silent \subseteq 0..MaxTime

\* Some users have just added the auction: add_watch has fetched the page and
\* created the row, which is due at once, but stored no snapshot.
Init == /\ now = 0
        /\ ended = FALSE
        /\ row \in [shown : {Shown(p) : p \in {q \in Pages : ~q.closed}}, active : {TRUE},
                    nextPoll : {0}, lastPolled : {0}, errors : {0}]
        /\ latest = None /\ nextSnapshot = 0
        /\ links \in [Users -> {"none", "on"}] /\ \E u \in Users : links[u] = "on"
        /\ claims = {} /\ pending = {}
        /\ queue = 0 /\ lock = Unlocked
        /\ job = [w \in Workers |-> None] /\ plan = None
        /\ since = [u \in Users |-> IF links[u] = "on" THEN 0 ELSE None]
        /\ endSince = 0 /\ silent = {}

-----------------------------------------------------------------------------
(* The world outside *)

Tick == /\ now < MaxTime
        /\ now' = now + 1
        /\ UNCHANGED <<ended, database, processes>>

\* The auction closes for good; until then its page may show anything open.
YahooCloses == /\ ~ended
               /\ ended' = TRUE
               /\ UNCHANGED <<now, database, processes>>

\* The sender delivers what is pending for a user, or gives up on it.
Settle(u) == /\ \E c \in pending : c.user = u
             /\ pending' = {c \in pending : c.user # u}
             /\ UNCHANGED <<now, ended, row, latest, nextSnapshot, links, claims,
                            since, endSince, silent, processes>>

-----------------------------------------------------------------------------
(* The users' commands (auction_service.py) *)

\* Mutated form of Resumed: monitoring is switched on but nothing is due.
ResumedUndated(r) == [r EXCEPT !.active = TRUE]

Resumed(r) == [r EXCEPT !.active = TRUE, !.nextPoll = now]

\* A closed auction is not added, and an auction the user already watches is
\* left as it is, monitored or not.
AddWatch(u) ==
    /\ ~row.shown.closed
    /\ links[u] = "none"
    /\ links' = [links EXCEPT ![u] = "on"]
    /\ since' = [since EXCEPT ![u] = now]
    /\ row' = IF row.active THEN row ELSE Resumed(row)
    /\ UNCHANGED <<now, ended, latest, nextSnapshot, claims, pending, endSince, silent,
                   processes>>

\* Deleting the link deletes its alerts (ON DELETE CASCADE).  When the last
\* watcher leaves, the next poll is put off by the grace period.
RemoveWatch(u) ==
    /\ links[u] # "none"
    /\ links' = [links EXCEPT ![u] = "none"]
    /\ since' = [since EXCEPT ![u] = None]
    /\ claims' = {c \in claims : c.user # u}
    /\ pending' = pending \cap claims'
    /\ row' = IF \E v \in Users : links'[v] # "none" THEN row
              ELSE [row EXCEPT !.nextPoll = now + Grace]
    /\ UNCHANGED <<now, ended, latest, nextSnapshot, endSince, silent, processes>>

ToggleNotifications(u) ==
    /\ links[u] # "none"
    /\ links' = [links EXCEPT ![u] = IF @ = "on" THEN "muted" ELSE "on"]
    /\ since' = [since EXCEPT ![u] = IF links[u] = "on" THEN None ELSE now]
    /\ UNCHANGED <<now, ended, row, latest, nextSnapshot, claims, pending, endSince,
                   silent, processes>>

-----------------------------------------------------------------------------
(* The scheduler (scheduler.py) *)

\* list_due
Due == /\ row.active /\ ~row.shown.closed
       /\ row.nextPoll # None /\ row.nextPoll <= now

\* A tick starts: it reads, counts the watchers of a due auction, and queues a
\* poll job before anything is committed.
SchedulerReads ==
    /\ plan = None
    /\ IF ~Due THEN plan' = [kind |-> "rest", leavers |-> None] /\ queue' = queue
       ELSE IF \A u \in Users : links[u] = "none"
            THEN plan' = [kind |-> "stop", leavers |-> None] /\ queue' = queue
            ELSE /\ plan' = [kind |-> "push", at |-> now, leavers |-> None]
                 /\ queue < MaxQueue /\ queue' = queue + 1
    /\ UNCHANGED <<now, ended, database, lock, job>>

\* stop_monitoring
Stopped(r) == [r EXCEPT !.active = FALSE, !.nextPoll = None]

Planned(r) == CASE plan.kind = "rest" -> r
                [] plan.kind = "stop" -> Stopped(r)
                [] plan.kind = "push" -> [r EXCEPT !.nextPoll = plan.at + PushDelay]

\* Mutated form of Finalized: the closing alert is not waited for.
FinalizedAtOnce(u) == row.shown.closed /\ links[u] # "none"

\* A link goes once its auction is closed and none of its alerts is pending.
Finalized(u) == /\ row.shown.closed /\ links[u] # "none"
                /\ \A c \in pending : c.user # u

\* delete_links_for_finalized_auctions: the DELETE chooses its rows long before
\* the tick commits.
SchedulerCleans ==
    /\ plan # None /\ plan.leavers = None
    /\ plan' = [plan EXCEPT !.leavers = {u \in Users : Finalized(u)}]
    /\ UNCHANGED <<now, ended, database, queue, lock, job>>

\* purge_old_snapshots, run about once a day: when the latest snapshot is past
\* the retention, so are all the others.
Purged(baseline) ==
    \/ baseline = latest
    \/ latest # None /\ latest.observed < now - Retention /\ baseline = None

\* The tick commits: the plan for the row, the removal of finished links, with
\* all the alerts that hang on them by then, and perhaps a purge.
SchedulerCommits ==
    /\ plan # None /\ plan.leavers # None
    /\ row' = Planned(row)
    /\ links' = [u \in Users |-> IF u \in plan.leavers THEN "none" ELSE links[u]]
    /\ since' = [u \in Users |-> IF u \in plan.leavers THEN None ELSE since[u]]
    /\ claims' = {c \in claims : c.user \notin plan.leavers}
    /\ pending' = pending \cap claims'
    /\ latest' \in {b \in {latest, None} : Purged(b)}
    /\ plan' = None
    /\ UNCHANGED <<now, ended, nextSnapshot, endSince, silent, queue, lock, job>>

\* The tick raises or its process dies: what it queued stays queued.
SchedulerFails ==
    /\ plan # None /\ plan' = None
    /\ UNCHANGED <<now, ended, database, queue, lock, job>>

-----------------------------------------------------------------------------
(* The poll jobs (tasks.py, monitoring_service.py) *)

\* The job takes the lock and loads the row.
Start(w) ==
    /\ queue > 0 /\ job[w] = None
    /\ CanAcquire(lock) /\ row.active
    /\ queue' = queue - 1
    /\ lock' = Acquired(w, 1)
    /\ job' = [job EXCEPT ![w] = [pc |-> "loaded", loaded |-> Loaded(row)]]
    /\ UNCHANGED <<now, ended, database, plan>>

\* The job returns "locked" or "inactive".
Skip(w) ==
    /\ queue > 0 /\ job[w] = None
    /\ ~CanAcquire(lock) \/ ~row.active
    /\ queue' = queue - 1
    /\ UNCHANGED <<now, ended, database, lock, job, plan>>

At(w, pc) == job[w] # None /\ job[w].pc = pc

Fetch(w) ==
    /\ At(w, "loaded")
    /\ \E page \in {p \in Pages : p.closed = ended} :
          job' = [job EXCEPT ![w] = [pc |-> "fetched", loaded |-> @.loaded,
                                     state |-> page, observed |-> now]]
    /\ UNCHANGED <<now, ended, database, queue, lock, plan>>

\* The delay doubles with every error, up to a limit.
Backoff(errors) == LET delay == BackoffBase * 2^(errors - 1)
                   IN  IF delay \in 0..BackoffMax THEN delay ELSE BackoffMax

Done(w) == job' = [job EXCEPT ![w] = [pc |-> "committed"]]

\* A captcha or a page that is gone stops the monitoring.
FetchStops(w) ==
    /\ At(w, "loaded")
    /\ row' = Stopped(row)
    /\ Done(w)
    /\ UNCHANGED <<now, ended, latest, nextSnapshot, links, claims, pending, since,
                   endSince, silent, queue, lock, plan>>

\* Any other error is counted and backed off from; too many in a row stop the
\* monitoring.  The count is the one the job loaded, plus one.
Failed(r, errors) ==
    LET counted == [r EXCEPT !.errors = errors, !.nextPoll = now + Backoff(errors)]
    IN  IF errors >= MaxErrors THEN Stopped(counted) ELSE counted

FetchFails(w) ==
    /\ At(w, "loaded") /\ job[w].loaded.errors < ErrorCap
    /\ row' = Failed(row, job[w].loaded.errors + 1)
    /\ Done(w)
    /\ UNCHANGED <<now, ended, latest, nextSnapshot, links, claims, pending, since,
                   endSince, silent, queue, lock, plan>>

\* The job reads the latest snapshot to compare the page with.
Compare(w) ==
    /\ At(w, "fetched")
    /\ job' = [job EXCEPT ![w] =
                 [pc |-> "compared", loaded |-> @.loaded, state |-> @.state,
                  observed |-> @.observed,
                  previous |-> IF latest = None THEN None ELSE latest.state]]
    /\ UNCHANGED <<now, ended, database, queue, lock, plan>>

Differs(j) == j.previous = None \/ HasChanges(j.previous, j.state)

\* The ORM writes the columns whose value is not the loaded one.
Flushed(loaded, new, current) ==
    [field \in DOMAIN new |->
        IF new[field] = loaded[field] THEN current[field] ELSE new[field]]

\* Mutated form of Mirrored: all columns are written.
MirroredWhole(r, j) == Shown(j.state)

\* Mutated form of Mirrored: the baseline is stored but not mirrored.
MirroredQuietly(r, j) ==
    IF j.previous # None /\ HasChanges(j.previous, j.state)
    THEN Flushed(j.loaded.shown, Shown(j.state), r.shown) ELSE r.shown

\* update_from_state, when there is something to store.
Mirrored(r, j) ==
    IF Differs(j) THEN Flushed(j.loaded.shown, Shown(j.state), r.shown) ELSE r.shown

\* Mutated form of PollTime: the time of the commit.
PollTimeLate(j) == now

\* What a poll leaves in last_polled_at.
PollTime(j) == j.observed

\* The row after a successful poll: the errors are cleared, the page is
\* mirrored, a closed auction is not polled again.
Polled(r, j) ==
    [shown |-> Mirrored(r, j),
     active |-> r.active /\ ~j.state.closed,
     nextPoll |-> IF j.state.closed THEN None
                  ELSE j.observed + PollingInterval(UntilEnd(j.state, j.observed)),
     lastPolled |-> PollTime(j),
     errors |-> IF j.loaded.errors = 0 THEN r.errors ELSE 0]

\* The id of the snapshot that the poll stores, if it does.
Stored(j) == IF Differs(j) THEN nextSnapshot ELSE None

\* Mutated form of Alerts: muted watchers are not left out.
AlertsToAll(j) ==
    {[user |-> u, kind |-> k, key |-> DedupKey(k, j.state, Stored(j))] :
        u \in {v \in Users : links[v] # "none"},
        k \in Decisions(j.previous, j.state, j.loaded.lastPolled, j.observed)}

\* create_jobs for everyone whose alerts are on (list_watchers).
Alerts(j) ==
    {[user |-> u, kind |-> k, key |-> DedupKey(k, j.state, Stored(j))] :
        u \in {v \in Users : links[v] = "on"},
        k \in Decisions(j.previous, j.state, j.loaded.lastPolled, j.observed)}

\* Can the renderer write an alert's text?  It writes a change of the end time
\* as "from -> to" and cannot write the time remaining to an unknown end.
Renderable(kind, p, c) == kind = "change" => ~(p.end = None /\ c.end # None)

\* All the alerts that are not claimed yet have a text.
Rendered(j) ==
    \A c \in Alerts(j) \ claims : Renderable(c.kind, j.previous, j.state)

\* get_latest orders by the time of observation, then by id.
IsLatest(j) == Differs(j) /\ (latest # None => latest.observed <= j.observed)

\* The rest of the poll: one transaction stores the snapshot, the row and the
\* alerts that are not claimed yet.
Commit(w) ==
    /\ At(w, "compared") /\ nextSnapshot < MaxSnapshots
    /\ Rendered(job[w])
    /\ LET j == job[w]
       IN  /\ row' = Polled(row, j)
           /\ nextSnapshot' = IF Differs(j) THEN nextSnapshot + 1 ELSE nextSnapshot
           /\ latest' = IF IsLatest(j) THEN [state |-> j.state, observed |-> j.observed]
                        ELSE latest
           /\ claims' = claims \cup Alerts(j)
           /\ pending' = pending \cup (Alerts(j) \ claims)
           /\ endSince' = IF row'.shown.end # row.shown.end THEN j.observed ELSE endSince
           /\ silent' = IF j.previous # None THEN silent
                        ELSE silent \cup ((j.loaded.lastPolled + 1)..j.observed)
    /\ Done(w)
    /\ UNCHANGED <<now, ended, links, since, queue, lock, plan>>

\* The job queues the deliveries, returns, and releases the lock.
Finish(w) ==
    /\ At(w, "committed")
    /\ job' = [job EXCEPT ![w] = None]
    /\ lock' = Released(lock, w)
    /\ UNCHANGED <<now, ended, database, queue, plan>>

\* The job raises (in the renderer, say) or its time is up before it commits: its
\* transaction is rolled back, the lock released, and the job is not tried again.
Abort(w) ==
    /\ job[w] # None /\ ~At(w, "committed")
    /\ job' = [job EXCEPT ![w] = None]
    /\ lock' = Released(lock, w)
    /\ UNCHANGED <<now, ended, database, queue, plan>>

\* The process dies: the lock stays, and the queue delivers the job again.
Crash(w) ==
    /\ job[w] # None /\ queue < MaxQueue
    /\ job' = [job EXCEPT ![w] = None]
    /\ queue' = queue + 1
    /\ UNCHANGED <<now, ended, database, lock, plan>>

\* The lock's time is up: for a dead job always, for a live one if it may be.
LockExpires ==
    /\ lock # Unlocked
    /\ job[lock.owner] # None => LocksExpireEarly
    /\ lock' = Elapsed(lock)
    /\ UNCHANGED <<now, ended, database, queue, job, plan>>

-----------------------------------------------------------------------------
Outside == Tick \/ YahooCloses \/ LockExpires \/ \E u \in Users : Settle(u)

Command(u) == AddWatch(u) \/ RemoveWatch(u) \/ ToggleNotifications(u)

Scheduler == SchedulerReads \/ SchedulerCleans \/ SchedulerCommits \/ SchedulerFails

Poll(w) == \/ Start(w) \/ Skip(w) \/ Fetch(w) \/ FetchStops(w) \/ FetchFails(w)
           \/ Compare(w) \/ Commit(w) \/ Finish(w) \/ Abort(w) \/ Crash(w)

Next == \/ Outside \/ Scheduler
        \/ \E u \in Users : Command(u)
        \/ \E w \in Workers : Poll(w)

Spec == Init /\ [][Next]_vars

-----------------------------------------------------------------------------
(* Properties *)

\* What the next poll to commit compares the page with: the latest snapshot,
\* but for a job that has read it already, what the job has read.
Baseline ==
    IF \E w \in Workers : At(w, "compared")
    THEN job[CHOOSE w \in Workers : At(w, "compared")].previous
    ELSE IF latest = None THEN None ELSE latest.state

\* The polls of one auction, whoever runs them and whatever fails, observe it
\* in order and claim exactly the alerts that AlertFeed calls for.
Feed == INSTANCE AlertFeed WITH
          States <- Pages,
          clock <- now,
          last <- Baseline,
          lastPolled <- row.lastPolled,
          shownEnd <- row.shown.end

ImplementsFeed == Feed!Spec

\* Once a poll has committed past the moment of a reminder, every user whose
\* alerts have been on since before that moment holds it, if the bot has shown
\* the end time since before the moment as well - whatever fails, crashes or is
\* purged.  What is conceded are the silent windows of polls that find no
\* snapshot to compare with (monitoring_service.py:81-91).
RemindersCovered == Feed!RemindersCovered

\* What the bot shows of an auction (the columns of its row) is what the
\* latest snapshot says, the one the next poll compares the page with.
ShownIsLatest == latest # None => row.shown = Shown(latest.state)

\* An auction that the scheduler may still queue is never without a date:
\* nothing but list_due would ever poll it again.
ActiveIsDated == row.active /\ ~row.shown.closed => row.nextPoll # None

\* No poll that began earlier reopens an auction that another has closed.
ClosedStaysClosed == [][row.shown.closed => row'.shown.closed]_vars

\* An alert that is not delivered yet goes only with the user's own command to
\* stop watching: none is added to a link between the DELETE that finds the link
\* finished and the commit that takes it away, so the closing alert reaches the
\* user first (user_auctions.py:66-67).
PendingOutlivesClosing ==
    [][\A c \in pending : c \notin claims' => RemoveWatch(c.user)]_vars

\* The scheduler stops the monitoring only if nobody watches
\* (auction_service.py:100-102).
StopsOnlyUnwatched ==
    [][SchedulerCommits /\ row.active /\ ~row'.active
         => \A u \in Users : links[u] = "none"]_vars

\* A change of the end time is found, stored and followed (README.md:132-134): no
\* poll that has found one is bound to fail before it commits.
EndChangeStored ==
    \A w \in Workers :
        (/\ At(w, "compared")
         /\ job[w].previous # None /\ job[w].previous.end # job[w].state.end)
        => Rendered(job[w])

\* Users are told of every new bid (handlers.py:41-42): a poll that finds more
\* bids than the row shows gives an alert to everyone whose alerts are on.
NewBidsAnnounced ==
    [][(/\ row.shown.bids # None /\ row'.shown.bids # None
        /\ row'.shown.bids > row.shown.bids)
       => \A u \in Users : links[u] = "on" =>
            \E c \in claims' \ claims : c.user = u /\ c.kind \in StateKinds]_vars
=============================================================================
