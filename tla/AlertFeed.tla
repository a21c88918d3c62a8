----------------------------- MODULE AlertFeed -----------------------------
(***************************************************************************)
(* What monitoring one auction promises its watchers: the auction is       *)
(* observed from time to time, in order, and each observation claims the   *)
(* alerts that the decisions of AuctionDomain call for, once per watcher.  *)
(* Nothing is said of jobs, queues, locks, transactions or errors; those   *)
(* are the business of module Monitoring, which implements this one.       *)
(***************************************************************************)
EXTENDS AuctionDomain

CONSTANTS Users,
          States,        \* the observations the auction's page may give
          MaxTime,       \* bound of the clock
          MaxSnapshots   \* bound on the number of changes observed

ASSUME StatesAssumption == States \subseteq AuctionState
ASSUME BoundsAssumption == MaxTime \in Nat /\ MaxSnapshots \in Nat

VARIABLES clock,
          last,          \* the last observation that differed, or None
          lastPolled,    \* time of the last observation
          shownEnd,      \* the end time that users are shown
          endSince,      \* since when they are shown it
          silent,        \* times passed by observations compared with nothing
          since,         \* [Users -> since when the user gets alerts, or None]
          claims,        \* the alerts claimed, one record for each
          nextSnapshot   \* number of the next differing observation

ends == <<shownEnd, endSince, silent>>
vars == <<clock, last, lastPolled, ends, since, claims, nextSnapshot>>

Claims == [user : Users, kind : Kinds, key : Int]

TypeOK == /\ clock \in 0..MaxTime
          /\ last \in Maybe(States)
          /\ lastPolled \in 0..MaxTime
          /\ shownEnd \in Maybe(Int) /\ endSince \in 0..MaxTime
          /\ silent \subseteq 0..MaxTime
          /\ since \in [Users -> Maybe(0..MaxTime)]
          /\ claims \subseteq Claims
          /\ nextSnapshot \in 0..MaxSnapshots

Init == /\ clock = 0 /\ last = None /\ lastPolled = 0
        /\ shownEnd \in {s.end : s \in States} /\ endSince = 0 /\ silent = {}
        /\ since \in [Users -> {None, 0}]
        /\ claims = {} /\ nextSnapshot = 0

Watching(u) == since[u] # None

-----------------------------------------------------------------------------
Changed(s) == last = None \/ HasChanges(last, s)

\* Only a differing observation is stored and has a number.
Snapshot(s) == IF Changed(s) THEN nextSnapshot ELSE None

\* The alerts of an observation s made at time t, for every watcher.
Alerts(s, t) ==
    {[user |-> u, kind |-> k, key |-> DedupKey(k, s, Snapshot(s))] :
        u \in {v \in Users : Watching(v)}, k \in Decisions(last, s, lastPolled, t)}

\* While an observation is made, the one that it is compared with may be
\* forgotten: it is then gone unless a differing one takes its place.
Observe(s, t) ==
    /\ lastPolled <= t /\ t <= clock
    /\ nextSnapshot < MaxSnapshots
    /\ last' \in IF Changed(s) THEN {s} ELSE {last, None}
    /\ nextSnapshot' = IF Changed(s) THEN nextSnapshot + 1 ELSE nextSnapshot
    /\ lastPolled' = t
    /\ shownEnd' = s.end
    /\ endSince' = IF s.end # shownEnd THEN t ELSE endSince
    /\ silent' = IF last = None THEN silent \cup ((lastPolled + 1)..t) ELSE silent
    /\ claims' = claims \cup Alerts(s, t)
    /\ UNCHANGED <<clock, since>>

\* A user starts to watch, or switches the alerts of the auction on again.
Enable(u) ==
    /\ ~Watching(u)
    /\ since' = [since EXCEPT ![u] = clock]
    /\ UNCHANGED <<clock, last, lastPolled, ends, claims, nextSnapshot>>

Mute(u) ==
    /\ Watching(u)
    /\ since' = [since EXCEPT ![u] = None]
    /\ UNCHANGED <<clock, last, lastPolled, ends, claims, nextSnapshot>>

\* Users stop watching, which forgets their alerts; old observations may be
\* forgotten as well, and the next one is then a new baseline.
Forget(leavers, baseline) ==
    /\ since' = [u \in Users |-> IF u \in leavers THEN None ELSE since[u]]
    /\ claims' = {c \in claims : c.user \notin leavers}
    /\ last' = baseline
    /\ UNCHANGED <<clock, lastPolled, ends, nextSnapshot>>

Tick ==
    /\ clock < MaxTime
    /\ clock' = clock + 1
    /\ UNCHANGED <<last, lastPolled, ends, since, claims, nextSnapshot>>

Next == \/ Tick
        \/ \E s \in States, t \in 0..MaxTime : Observe(s, t)
        \/ \E u \in Users : Enable(u) \/ Mute(u)
        \/ \E leavers \in SUBSET Users, baseline \in {last, None} :
              Forget(leavers, baseline)

Spec == Init /\ [][Next]_vars

-----------------------------------------------------------------------------
(* Properties *)

\* Once an observation has passed the moment of a reminder, every user who has
\* been watching since before that moment holds the alert, if the end time was
\* shown before the moment as well - however often the end moves and whatever is
\* purged.  One loss is conceded: what passes in silence, in the window of
\* an observation that finds nothing to compare with, the first after the
\* auction was added or one after a purge (monitoring_service.py:81-91).
RemindersCovered ==
    shownEnd # None =>
        \A u \in Users, k \in TimedKinds :
            LET moment == shownEnd - Threshold[k]
            IN  /\ Watching(u) /\ since[u] < moment
                /\ endSince < moment
                /\ moment <= lastPolled /\ moment \notin silent
                => [user |-> u, kind |-> k, key |-> shownEnd] \in claims

\* Every change of the page is announced to everyone watching: the step that
\* takes it in claims a new alert for each of them, never one that an earlier
\* alert's key swallows (unique (user_auction, kind, dedup_key)).
ChangesAnnounced ==
    [][last # None /\ last' # None /\ last' # last =>
        \A u \in Users : Watching(u) =>
            \E c \in claims' \ claims : c.user = u /\ c.kind \in StateKinds]_vars
=============================================================================
