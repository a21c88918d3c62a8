-------------------------- MODULE AlertFeedProofs --------------------------
(***************************************************************************)
(* The promises of AlertFeed, proved for any users, observations, times,   *)
(* thresholds and bounds.  RemindersCovered is inductive once we know that *)
(* observations are in order and that what they are compared with has the  *)
(* end time that is shown; ChangesAnnounced rests on the numbers of        *)
(* snapshots never having been used as a key before.                       *)
(***************************************************************************)
EXTENDS AlertFeed, DomainProofs

\* The keys of the alerts of an observation are numbers.
LEMMA AlertsTyped ==
    ASSUME TypeOK, NEW s \in States, NEW t \in 0..MaxTime
    PROVE  Alerts(s, t) \subseteq Claims
<1> SUFFICES ASSUME NEW u \in Users, NEW k \in Decisions(last, s, lastPolled, t)
             PROVE  [user |-> u, kind |-> k, key |-> DedupKey(k, s, Snapshot(s))] \in Claims
    BY DEF Alerts
<1>1. last \in AuctionState /\ s \in AuctionState
    BY StatesAssumption DEF TypeOK, Maybe, Decisions
<1>2. Snapshot(s) \in Maybe(Nat) /\ (HasChanges(last, s) => Snapshot(s) # None)
    BY NoneIsNoNumber, BoundsAssumption DEF Snapshot, Changed, TypeOK, Maybe
<1>3. DedupKey(k, s, Snapshot(s)) # None
    BY <1>1, <1>2, KeyDefined
<1>4. s.end \in Maybe(Int)
    BY <1>1 DEF AuctionState
<1>5. DedupKey(k, s, Snapshot(s)) \in Int
    BY <1>2, <1>3, <1>4 DEF DedupKey, Maybe
<1>6. k \in Kinds
    BY DEF Decisions, TimedDecisions, StateDecisions, Kinds, StateKinds
<1> QED BY <1>5, <1>6 DEF Claims

\* Every step keeps the types.
LEMMA FeedTypeStep == TypeOK /\ [Next]_vars => TypeOK'
<1> SUFFICES ASSUME TypeOK, [Next]_vars PROVE TypeOK'
    OBVIOUS
<1> USE BoundsAssumption DEF TypeOK, Maybe, ends
<1>1. CASE Tick
    BY <1>1 DEF Tick
<1>2. ASSUME NEW s \in States, NEW t \in 0..MaxTime, Observe(s, t) PROVE TypeOK'
    <2>1. claims' \subseteq Claims
        BY <1>2, AlertsTyped DEF Observe
    <2>2. last' \in States \cup {None}
        BY <1>2 DEF Observe
    <2>3. nextSnapshot' \in 0..MaxSnapshots
        BY <1>2 DEF Observe
    <2>4. endSince' \in 0..MaxTime /\ lastPolled' \in 0..MaxTime
        BY <1>2 DEF Observe
    <2>5. silent' \subseteq 0..MaxTime
        BY <1>2 DEF Observe
    <2>6. shownEnd' \in Int \cup {None}
        BY <1>2, StatesAssumption DEF Observe, AuctionState
    <2> QED BY <1>2, <2>1, <2>2, <2>3, <2>4, <2>5, <2>6 DEF Observe
<1>3. ASSUME NEW u \in Users, Enable(u) \/ Mute(u) PROVE TypeOK'
    BY <1>3 DEF Enable, Mute
<1>4. ASSUME NEW leavers \in SUBSET Users, NEW baseline \in {last, None},
             Forget(leavers, baseline)
      PROVE TypeOK'
    BY <1>4 DEF Forget
<1>5. CASE UNCHANGED vars
    BY <1>5 DEF vars
<1> QED BY <1>1, <1>2, <1>3, <1>4, <1>5 DEF Next

\* Type correctness of the abstract feed; that keys are numbers says that
\* dedup_key_for never raises (domain/notifications.py:102, 105).
THEOREM FeedTypeCorrect == Spec => []TypeOK
<1>1. Init => TypeOK
    BY StatesAssumption, BoundsAssumption DEF Init, TypeOK, Maybe, AuctionState
<1> QED BY <1>1, FeedTypeStep, PTL DEF Spec

-----------------------------------------------------------------------------
\* Observations are in order, and the last one has the end time that is shown.
InOrder == lastPolled <= clock /\ (last # None => last.end = shownEnd)

\* After an observation the last stored one has the end time of the page.
LEMMA EndObserved ==
    ASSUME NEW s, NEW t, Observe(s, t)
    PROVE  last' # None => last'.end = s.end
<1>1. CASE Changed(s)
    BY <1>1 DEF Observe
<1>2. CASE ~Changed(s)
    <2>1. last.end = s.end
        BY <1>2 DEF Changed, HasChanges
    <2> QED BY <1>2, <2>1 DEF Observe
<1> QED BY <1>1, <1>2

\* Every step keeps them in order.
LEMMA InOrderStep == TypeOK /\ InOrder /\ [Next]_vars => InOrder'
<1> SUFFICES ASSUME TypeOK, InOrder, [Next]_vars PROVE InOrder'
    OBVIOUS
<1> USE BoundsAssumption DEF TypeOK, InOrder, ends
<1>1. CASE Tick
    BY <1>1 DEF Tick
<1>2. ASSUME NEW s \in States, NEW t \in 0..MaxTime, Observe(s, t) PROVE InOrder'
    <2>1. last' # None => last'.end = s.end
        BY <1>2, EndObserved
    <2> QED BY <1>2, <2>1 DEF Observe
<1>3. ASSUME NEW u \in Users, Enable(u) \/ Mute(u) PROVE InOrder'
    BY <1>3 DEF Enable, Mute
<1>4. ASSUME NEW leavers \in SUBSET Users, NEW baseline \in {last, None},
             Forget(leavers, baseline)
      PROVE InOrder'
    BY <1>4 DEF Forget
<1>5. CASE UNCHANGED vars
    BY <1>5 DEF vars
<1> QED BY <1>1, <1>2, <1>3, <1>4, <1>5 DEF Next

\* An observation claims every reminder it passes.
LEMMA CoveredByObserve ==
    ASSUME TypeOK, InOrder, RemindersCovered,
           NEW s \in States, NEW t \in 0..MaxTime, Observe(s, t)
    PROVE  RemindersCovered'
<1> SUFFICES ASSUME shownEnd' # None,
                    NEW u \in Users, NEW k \in TimedKinds,
                    since'[u] # None, since'[u] < shownEnd' - Threshold[k],
                    endSince' < shownEnd' - Threshold[k],
                    shownEnd' - Threshold[k] <= lastPolled',
                    shownEnd' - Threshold[k] \notin silent'
             PROVE  [user |-> u, kind |-> k, key |-> shownEnd'] \in claims'
    BY DEF RemindersCovered, Watching
<1> DEFINE moment == s.end - Threshold[k]
<1>1. shownEnd' = s.end
    BY DEF Observe
<1>2. s \in AuctionState
    BY StatesAssumption
<1>3. s.end \in Int /\ moment \in Int /\ lastPolled \in Int /\ t \in Int
    BY <1>1, <1>2, ThresholdAssumption, BoundsAssumption DEF AuctionState, Maybe, TypeOK
<1>4. since'[u] = since[u] /\ since[u] # None /\ lastPolled' = t /\ moment <= t
    BY <1>1 DEF Observe
<1>5. shownEnd = s.end /\ endSince' = endSince
    <2>1. endSince' # t
        BY <1>1, <1>3, <1>4
    <2> QED BY <2>1 DEF Observe
<1>6. silent \subseteq silent'
    BY DEF Observe
<1>7. CASE moment <= lastPolled
    <2>1. [user |-> u, kind |-> k, key |-> shownEnd] \in claims
        BY <1>1, <1>4, <1>5, <1>6, <1>7 DEF RemindersCovered, Watching
    <2> QED BY <1>1, <1>5, <2>1 DEF Observe
<1>8. CASE ~(moment <= lastPolled)
    <2>1. lastPolled < moment /\ moment <= t
        BY <1>3, <1>4, <1>8
    <2>2. last # None
        <3>1. moment \in (lastPolled + 1)..t
            BY <1>3, <2>1
        <3>2. moment \notin silent'
            BY <1>1
        <3> QED BY <3>1, <3>2 DEF Observe
    <2>3. k \in TimedDecisions(s, lastPolled, t)
        BY <1>1, <2>1 DEF TimedDecisions
    <2>4. k \in Decisions(last, s, lastPolled, t)
        BY <2>2, <2>3 DEF Decisions
    <2>5. DedupKey(k, s, Snapshot(s)) = s.end
        BY DEF DedupKey
    <2>6. [user |-> u, kind |-> k, key |-> s.end] \in Alerts(s, t)
        BY <1>4, <2>4, <2>5 DEF Alerts, Watching
    <2> QED BY <1>1, <2>6 DEF Observe
<1> QED BY <1>7, <1>8

\* Every step keeps the reminders covered.
LEMMA CoveredStep ==
    TypeOK /\ InOrder /\ RemindersCovered /\ [Next]_vars => RemindersCovered'
<1> SUFFICES ASSUME TypeOK, InOrder, RemindersCovered, [Next]_vars
             PROVE  RemindersCovered'
    OBVIOUS
<1> USE DEF ends
<1>1. CASE Tick
    BY <1>1 DEF Tick, RemindersCovered, Watching
<1>2. ASSUME NEW s \in States, NEW t \in 0..MaxTime, Observe(s, t)
      PROVE  RemindersCovered'
    BY <1>2, CoveredByObserve
<1>3. ASSUME NEW v \in Users, Enable(v) PROVE RemindersCovered'
    <2> SUFFICES ASSUME shownEnd # None,
                        NEW u \in Users, NEW k \in TimedKinds,
                        since'[u] # None, since'[u] < shownEnd - Threshold[k],
                        endSince < shownEnd - Threshold[k],
                        shownEnd - Threshold[k] <= lastPolled,
                        shownEnd - Threshold[k] \notin silent
                 PROVE  [user |-> u, kind |-> k, key |-> shownEnd] \in claims
        BY <1>3 DEF Enable, RemindersCovered, Watching
    <2>1. shownEnd - Threshold[k] \in Int
        BY ThresholdAssumption DEF TypeOK, Maybe
    <2>2. u # v
        <3>1. since'[v] = clock
            BY <1>3 DEF Enable, TypeOK
        <3>2. clock \in Int /\ lastPolled \in Int /\ lastPolled <= clock
            BY DEF TypeOK, InOrder
        <3> QED BY <2>1, <3>1, <3>2
    <2>3. since'[u] = since[u]
        BY <1>3, <2>2 DEF Enable, TypeOK
    <2> QED BY <2>3 DEF RemindersCovered, Watching
<1>4. ASSUME NEW v \in Users, Mute(v) PROVE RemindersCovered'
    <2>1. \A u \in Users : since'[u] # None => since'[u] = since[u]
        BY <1>4 DEF Mute, TypeOK
    <2> QED BY <1>4, <2>1 DEF Mute, RemindersCovered, Watching
<1>5. ASSUME NEW leavers \in SUBSET Users, NEW baseline \in {last, None},
             Forget(leavers, baseline)
      PROVE RemindersCovered'
    <2>1. \A u \in Users : since'[u] # None => u \notin leavers /\ since'[u] = since[u]
        BY <1>5 DEF Forget
    <2>2. UNCHANGED <<shownEnd, endSince, silent, lastPolled>>
        BY <1>5 DEF Forget
    <2>3. \A u \in Users, k \in TimedKinds :
            u \notin leavers /\ [user |-> u, kind |-> k, key |-> shownEnd] \in claims
              => [user |-> u, kind |-> k, key |-> shownEnd] \in claims'
        BY <1>5 DEF Forget
    <2> QED BY <2>1, <2>2, <2>3 DEF RemindersCovered, Watching
<1>6. CASE UNCHANGED vars
    BY <1>6 DEF vars, RemindersCovered, Watching
<1> QED BY <1>1, <1>2, <1>3, <1>4, <1>5, <1>6 DEF Next

\* A reminder is lost only in the silent window of an observation that found
\* nothing to compare with: any other that has passed the moment of a reminder
\* has claimed it for every user watching since before that moment, if the end
\* time was shown before it.
THEOREM NoReminderLost == Spec => []RemindersCovered
<1>1. Init => TypeOK /\ InOrder /\ RemindersCovered
    <2> SUFFICES ASSUME Init PROVE TypeOK /\ InOrder /\ RemindersCovered
        OBVIOUS
    <2>1. TypeOK /\ InOrder
        BY StatesAssumption, BoundsAssumption
           DEF Init, TypeOK, Maybe, InOrder, AuctionState
    <2>2. ASSUME shownEnd # None, NEW u \in Users, NEW k \in TimedKinds,
                 since[u] # None, since[u] < shownEnd - Threshold[k]
          PROVE  ~(shownEnd - Threshold[k] <= lastPolled)
        <3>1. shownEnd - Threshold[k] \in Int
            BY <2>1, <2>2, ThresholdAssumption DEF TypeOK, Maybe
        <3>2. since[u] = 0 /\ lastPolled = 0
            BY <2>2 DEF Init
        <3> QED BY <2>2, <3>1, <3>2
    <2> QED BY <2>1, <2>2 DEF RemindersCovered, Watching
<1>2. TypeOK /\ InOrder /\ RemindersCovered /\ [Next]_vars
        => (TypeOK /\ InOrder /\ RemindersCovered)'
    BY FeedTypeStep, InOrderStep, CoveredStep
<1> QED BY <1>1, <1>2, PTL DEF Spec

-----------------------------------------------------------------------------
\* The number of the next snapshot is no key yet.
Fresh == \A c \in claims : c.kind \in StateKinds => c.key < nextSnapshot

\* Alerts other than reminders are claimed only with a stored observation and
\* carry its number.
LEMMA StateAlertKey ==
    ASSUME TypeOK, NEW s \in States, NEW t \in 0..MaxTime,
           NEW c \in Alerts(s, t), c.kind \in StateKinds
    PROVE  Changed(s) /\ c.key = nextSnapshot
<1>1. PICK u \in Users, k \in Decisions(last, s, lastPolled, t) :
         c = [user |-> u, kind |-> k, key |-> DedupKey(k, s, Snapshot(s))]
    BY DEF Alerts
<1>2. k \in StateKinds /\ k \notin TimedKinds
    BY <1>1 DEF StateKinds, TimedKinds
<1>3. last # None /\ k \in StateDecisions(last, s)
    BY <1>1, <1>2 DEF Decisions, TimedDecisions
<1>4. last \in AuctionState /\ s \in AuctionState
    BY <1>3, StatesAssumption DEF TypeOK, Maybe
<1>5. HasChanges(last, s)
    BY <1>3, <1>4, ChangeIffDecision
<1> QED BY <1>1, <1>2, <1>5 DEF DedupKey, Snapshot, Changed

\* Every step keeps the next number fresh.
LEMMA FreshStep == TypeOK /\ Fresh /\ [Next]_vars => Fresh'
<1> SUFFICES ASSUME TypeOK, Fresh, [Next]_vars, NEW c \in claims', c.kind \in StateKinds
             PROVE  c.key < nextSnapshot'
    BY DEF Fresh
<1>1. ASSUME NEW s \in States, NEW t \in 0..MaxTime, Observe(s, t)
      PROVE  c.key < nextSnapshot'
    <2>1. nextSnapshot \in Nat /\ nextSnapshot' \in {nextSnapshot, nextSnapshot + 1}
        BY <1>1, BoundsAssumption DEF Observe, TypeOK
    <2>2. CASE c \in claims
        <3>1. c.key \in Int /\ c.key < nextSnapshot
            BY <2>2 DEF Fresh, TypeOK, Claims
        <3> QED BY <2>1, <3>1
    <2>3. CASE c \in Alerts(s, t)
        <3>1. Changed(s) /\ c.key = nextSnapshot
            BY <2>3, StateAlertKey
        <3>2. nextSnapshot' = nextSnapshot + 1
            BY <1>1, <3>1 DEF Observe
        <3> QED BY <2>1, <3>1, <3>2
    <2> QED BY <1>1, <2>2, <2>3 DEF Observe
<1>2. CASE /\ claims' \subseteq claims
           /\ nextSnapshot' = nextSnapshot
    BY <1>2 DEF Fresh
<1>3. ASSUME NEW u \in Users, Enable(u) \/ Mute(u) PROVE c.key < nextSnapshot'
    BY <1>2, <1>3 DEF Enable, Mute
<1>4. ASSUME NEW leavers \in SUBSET Users, NEW baseline \in {last, None},
             Forget(leavers, baseline)
      PROVE c.key < nextSnapshot'
    BY <1>2, <1>4 DEF Forget
<1> QED BY <1>1, <1>2, <1>3, <1>4 DEF Next, Tick, vars

\* An observation that differs from the last one gives every user watching an
\* alert that did not exist before.
LEMMA AnnouncedByObserve ==
    ASSUME TypeOK, Fresh, NEW s \in States, NEW t \in 0..MaxTime, Observe(s, t),
           last # None, last' # None, last' # last, NEW u \in Users, Watching(u)
    PROVE  \E c \in claims' \ claims : c.user = u /\ c.kind \in StateKinds
<1>1. Changed(s) /\ HasChanges(last, s)
    BY DEF Observe, Changed
<1>2. last \in AuctionState /\ s \in AuctionState
    BY StatesAssumption DEF TypeOK, Maybe
<1>3. PICK k : k \in StateDecisions(last, s)
    BY <1>1, <1>2, ChangeIffDecision
<1>4. k \in StateKinds /\ k \notin TimedKinds
    BY <1>3 DEF StateDecisions, StateKinds, TimedKinds
<1> DEFINE alert == [user |-> u, kind |-> k, key |-> nextSnapshot]
<1>5. k \in Decisions(last, s, lastPolled, t)
    BY <1>3 DEF Decisions
<1>6. DedupKey(k, s, Snapshot(s)) = nextSnapshot
    BY <1>1, <1>4 DEF DedupKey, Snapshot
<1>7. alert \in Alerts(s, t)
    BY <1>5, <1>6 DEF Alerts
<1>8. alert \in claims'
    BY <1>7 DEF Observe
<1>9. alert \notin claims
    <2>1. nextSnapshot \in Nat
        BY BoundsAssumption DEF TypeOK
    <2> QED BY <1>4, <2>1 DEF Fresh
<1> QED BY <1>4, <1>8, <1>9

\* Every change of the page is announced to everyone watching, and the alert
\* is never swallowed by the key of an earlier one.
THEOREM EveryChangeAnnounced == Spec => ChangesAnnounced
<1> DEFINE Announced ==
        last # None /\ last' # None /\ last' # last =>
            \A u \in Users : Watching(u) =>
                \E c \in claims' \ claims : c.user = u /\ c.kind \in StateKinds
<1>1. Init => TypeOK /\ Fresh
    BY StatesAssumption, BoundsAssumption DEF Init, TypeOK, Maybe, Fresh, AuctionState
<1>2. TypeOK /\ Fresh /\ [Next]_vars => (TypeOK /\ Fresh)'
    BY FeedTypeStep, FreshStep
<1>3. ASSUME TypeOK, Fresh, [Next]_vars PROVE [Announced]_vars
    <2>1. ASSUME NEW s \in States, NEW t \in 0..MaxTime, Observe(s, t) PROVE Announced
        BY <1>3, <2>1, AnnouncedByObserve
    <2>2. CASE last' \in {last, None}
        BY <2>2
    <2> QED BY <1>3, <2>1, <2>2 DEF Next, Tick, Enable, Mute, Forget, vars
<1> QED BY <1>1, <1>2, <1>3, PTL DEF Spec, ChangesAnnounced
=============================================================================
