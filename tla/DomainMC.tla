------------------------------ MODULE DomainMC ------------------------------
(***************************************************************************)
(* The parts of the program that are small enough to share a run: the feed *)
(* of one auction's alerts, the rate limiter, a chat with the bot, and     *)
(* questions put to the pure functions, each with its answer to be judged  *)
(* in one state.  The first state says which part a behaviour is about.    *)
(*                                                                         *)
(* The feed runs in units of the distance between two reminders.  The      *)
(* questions are about half minutes and the defaults of app/config.py.     *)
(***************************************************************************)
EXTENDS AlertFeed, Sequences

CONSTANTS Period, Second, Burst, KeyTTL, MaxNow, MaxCalls   \* of the rate limiter

CONSTANTS Auctions, Names, Tasks, PageSize    \* of the chat

CONSTANTS Window, MaxLength    \* of the extractor

CONSTANTS Observations,     \* what the rules are asked to compare
          PollTimes,        \* times of polls relative to the end of an auction
          RemainingTimes,   \* times to the end when a poll is planned
          ListRequests      \* numbers of auctions, and the page a button asks for

\* The container gives the limiter a positive rate and a burst of one token.
ASSUME LimiterAssumption ==
    /\ Period \in Nat \ {0} /\ Second \in Nat \ {0} /\ Burst \in Nat \ {0}
    /\ KeyTTL \in Nat /\ MaxNow \in Nat /\ MaxCalls \in Nat

ASSUME ChatAssumption == PageSize \in Nat \ {0}

ASSUME QuestionsAssumption ==
    /\ Observations \subseteq AuctionState
    /\ PollTimes \subseteq Int /\ RemainingTimes \subseteq Int
    /\ ListRequests \subseteq Nat \X Int

VARIABLES part,                    \* what the behaviour is about
          question,                \* a question and what is asked, or None
          now, bucket, answers,    \* of the rate limiter
          known, rows, links, dialogue, task    \* of the chat

Limiter == INSTANCE RateLimiter

Bot == INSTANCE Chat

\* The absent value is none of the records it stands in for.
ASSUME NoneIsNoRecord ==
    None \notin Limiter!Buckets /\ None \notin Bot!Links /\ None \notin Bot!Handlers

limiterVars == <<now, bucket, answers>>

chatVars == <<known, rows, links, dialogue, task>>

allVars == <<vars, part, question, limiterVars, chatVars>>

-----------------------------------------------------------------------------
(* The feed: an auction whose end may be unknown, early, or extended, with *)
(* and without bids, and closed.                                           *)

Page(bids, end, closed) ==
    [price |-> bids, bids |-> bids, end |-> end, buyNow |-> None,
     winner |-> None, newBid |-> bids > 0, closed |-> closed]

Pages == {Page(0, None, FALSE), Page(0, 4, FALSE), Page(1, 4, FALSE),
          Page(1, 6, FALSE), Page(1, 6, TRUE)}

Reminders == [k \in TimedKinds |-> CASE k = "30m" -> 3 [] k = "15m" -> 2 [] k = "5m" -> 1]

EveryTick == [b \in Bounds |-> 1]

-----------------------------------------------------------------------------
(* Questions to the domain rules *)

DefaultThreshold ==
    [k \in TimedKinds |-> CASE k = "30m" -> 60 [] k = "15m" -> 30 [] k = "5m" -> 10]

DefaultInterval ==
    [b \in {2 * m : m \in {0, 15, 30, 60, 360, 1440}} |->
        CASE b = 0 -> 2 [] b = 30 -> 2 [] b = 60 -> 4
          [] b = 120 -> 20 [] b = 720 -> 60 [] b = 2880 -> 720]

Default == INSTANCE AuctionDomain
             WITH Minute <- 2, Threshold <- DefaultThreshold, Interval <- DefaultInterval

SomeObservations ==
    [price : {None, 1, 2}, bids : {None, 0, 1}, end : {None, 0, 3}, buyNow : {None, 1},
     winner : {None, TRUE}, newBid : {None, TRUE}, closed : BOOLEAN]

Ending == Page(0, 0, FALSE)

\* Poll times relative to the end of the auction, and the times remaining to
\* it: from past the end up to 25 hours before it.
SomePollTimes == {-64, -61, -60, -59, -40, -31, -30, -29, -12, -11, -10, -9, -1, 0, 2}

SomeRemainingTimes == -4..3000

-----------------------------------------------------------------------------
(* Questions to the extractor: objects as the page's script writes them,   *)
(* with braces, quotes and backslashes inside of their strings.            *)

Extractor == INSTANCE Extractor

InBraces(text) == <<"{">> \o text \o <<"}">>

InQuotes(text) == <<"quote">> \o text \o <<"quote">>

Pieces == {<<>>, <<"other">>, <<"{">>, <<"}">>, <<"backslash">> \o <<"quote">>,
           <<"backslash">> \o <<"backslash">>}

SomeStrings == {p \o q : p, q \in Pieces}

Plain == {InBraces(v) : v \in {<<>>, <<"other">>} \cup {InQuotes(s) : s \in SomeStrings}}

Objects == Plain \cup {InBraces(v \o InQuotes(s)) : v \in Plain, s \in SomeStrings}

\* Code in braces that is not an object.
Block == InBraces(<<"other">> \o InBraces(<<>>))

\* What may stand in front of the marker: brackets that do not match, another
\* marker, or the same one with code behind it instead of an object.
Openings == {<<>>, <<"{", "quote">>, <<"}", "PageData">>, <<"pageData">> \o Block}

Endings == {<<>>, <<"quote", "}">>, <<"{", "pageData", "}">>}

\* An object may begin directly behind its marker, and none of these is too long;
\* where the marker stands in an opening, it is the block of code that follows.
ASSUME PagesAssumption ==
    /\ Window \in Nat /\ Window > 1 /\ MaxLength \in Nat
    /\ \A o \in Objects \cup {Block} : Len(o) <= MaxLength
    /\ Block \notin Objects
    /\ \A opening \in Openings : \A at \in 1..Len(opening) :
         opening[at] = "pageData" => at = 1 /\ opening = <<"pageData">> \o Block

-----------------------------------------------------------------------------
(* Questions to the bot: up to nine auctions in the list, and the page that *)
(* a button, perhaps an old one, asks for.                                  *)

SomeListRequests == (0..9) \X (0..5)

-----------------------------------------------------------------------------
Questions(ask) ==
    CASE ask = "compare" -> Observations \X Observations
      [] ask = "remind"  -> {p \in PollTimes \X PollTimes \X PollTimes :
                               p[1] <= p[2] /\ p[2] <= p[3]}
      [] ask = "plan"    -> RemainingTimes
      [] ask = "extract" -> Openings \X Objects \X Endings
      [] ask = "list"    -> ListRequests

Asked(ask) == question # None /\ question.ask = ask

Ask(ask) == question = None /\ question' \in [ask : {ask}, what : Questions(ask)]

MCInit == /\ Init /\ Limiter!Init /\ Bot!Init /\ question = None
          /\ part \in {"feed", "limiter", "chat", "questions"}
          \* the parts at rest start in one way only
          /\ part # "feed" => shownEnd = None /\ since = [u \in Users |-> None]
          /\ part # "chat" => rows = [a \in Auctions |-> "none"]

MCNext ==
    \/ /\ part = "feed" /\ Next
       /\ UNCHANGED <<part, question, limiterVars, chatVars>>
    \/ /\ part = "limiter" /\ Limiter!Next
       /\ UNCHANGED <<vars, part, question, chatVars>>
    \/ /\ part = "chat" /\ Bot!Next
       /\ UNCHANGED <<vars, part, question, limiterVars>>
    \/ /\ part = "questions"
       /\ \E ask \in {"compare", "remind", "plan", "extract", "list"} : Ask(ask)
       /\ UNCHANGED <<vars, part, limiterVars, chatVars>>

MCSpec == MCInit /\ [][MCNext]_allVars

-----------------------------------------------------------------------------
(* Properties *)

\* A poll stores a snapshot exactly when it has something to say: two
\* observations differ if and only if some alert other than a reminder is
\* decided (monitoring_service.py:84, domain/notifications.py:71-88).
ChangeIffAlert ==
    Asked("compare") =>
        LET p == question.what[1]
            c == question.what[2]
        IN  HasChanges(p, c) <=> StateDecisions(p, c) # {}

\* However polls cut up the time, each reminder falls into exactly one of
\* their windows: nothing is announced twice, nothing is skipped.
RemindersPartition ==
    Asked("remind") =>
        LET Reminded(i, j) ==
                Default!TimedDecisions(Ending, question.what[i], question.what[j])
        IN  /\ Reminded(1, 2) \cap Reminded(2, 3) = {}
            /\ Reminded(1, 2) \cup Reminded(2, 3) = Reminded(1, 3)

\* The schedule follows the approaching end closely enough: a poll on time
\* is never more than two minutes late for a reminder that was still to come,
\* so no poll on time has two reminders to send.
RemindersOnTime ==
    Asked("plan") =>
        LET remaining == question.what
        IN  \A k \in TimedKinds :
              remaining > DefaultThreshold[k] =>
                remaining - Default!PollingInterval(remaining) >= DefaultThreshold[k] - 4

\* What the page's script has written is what is cut out and parsed, whatever
\* braces, quotes and backslashes its strings contain, and behind each of the
\* Openings and before each of the Endings (extractor.py:14-16).
ObjectCutOut ==
    Asked("extract") =>
        LET page == question.what
        IN  Extractor!Extract(page[1] \o <<"pageData">> \o page[2] \o page[3], Objects)
              = page[2]

\* Whatever page of the list is asked for, it shows an auction if there is one,
\* and its arrows lead on to every other auction of the list: who has seen a page
\* of his own and, with any page, those that its arrows lead to, has seen them all.
EveryItemReached ==
    Asked("list") =>
        LET items == question.what[1]
            Seen(page) == Bot!ItemsShown(items, page)
        IN  /\ items > 0 => Seen(question.what[2]) # {}
            /\ \A visited \in SUBSET (1..Bot!TotalPages(items)) :
                 /\ Bot!PageShown(items, question.what[2]) \in visited
                 /\ \A p \in visited : Bot!Arrows(items, p) \subseteq visited
                 => UNION {Seen(p) : p \in visited} = 1..items

\* Handlers at work at the same time do not undo each other's settings.
ChatSettingsApart == Bot!SettingsApart

\* The waits that the rate limiter answers share out one budget.
LimiterSharesBudget == Limiter!BudgetShared

\* The bucket never owes, and a handler's record is one of its kinds.
PartsTypeOK == Limiter!TypeOK /\ Bot!TypeOK
=============================================================================
