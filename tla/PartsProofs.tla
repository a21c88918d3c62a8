----------------------------- MODULE PartsProofs -----------------------------
(***************************************************************************)
(* Proofs about the small parts that DomainMC puts together: the rate      *)
(* limiter for any rate, burst and bounds, the chat for any auctions,      *)
(* names and handlers, the questions to the domain rules and the list,     *)
(* whatever is asked, and the extractor, whatever object it has to find.   *)
(***************************************************************************)
EXTENDS DomainMC, DomainProofs, WellFoundedInduction, SequenceTheorems

-----------------------------------------------------------------------------
(* The rate limiter *)

Answers == [at : Nat, wait : Nat]

\* When a caller may send its request by the script's exact answer.
Due(i) == answers[i].at + answers[i].wait

\* The bucket is as the last caller has left it: its time stamp is where that
\* caller's wait ends, and what is left is no more than a full bucket less one.
LeftByLast ==
    IF answers = <<>> THEN bucket = None
    ELSE /\ bucket # None
         /\ bucket.ts = Due(Len(answers))
         /\ bucket.expires = answers[Len(answers)].at + KeyTTL
         /\ bucket.credit <= Burst * Period - Period

\* Since any of the callers the bucket has paid a Period for each later one.
Paid ==
    \A i \in 1..Len(answers) :
        bucket.ts - bucket.credit >= Due(i) + (Len(answers) - i + 1 - Burst) * Period

\* The budget of the exact answers.
Shared ==
    \A i, j \in 1..Len(answers) : i < j => Due(j) >= Due(i) + (j - i + 1 - Burst) * Period

LimiterInvariant ==
    /\ Limiter!TypeOK
    /\ LeftByLast
    /\ Limiter!KeyOutlivesWaits => Paid /\ Shared

\* One more caller pays one more Period.
LEMMA OneMore ==
    ASSUME NEW n \in Int PROVE (n + 1) * Period = n * Period + Period
BY LimiterAssumption

\* Two bounds taken together.
LEMMA BothBounds ==
    ASSUME NEW a \in Int, NEW b \in Int, NEW c \in Int, NEW d \in Int, NEW e \in Int,
           a >= b + c, b >= d + e
    PROVE  a >= d + (e + c)
OBVIOUS

\* A caller's wait and what it leaves behind.
LEMMA CallTyped ==
    ASSUME Limiter!TypeOK, NEW credit, credit = Limiter!Credit(bucket, now)
    PROVE  /\ now \in Nat /\ credit \in Int /\ credit <= Burst * Period
           /\ Burst * Period \in Nat /\ Period <= Burst * Period
           /\ Limiter!Wait(credit) \in Nat
           /\ Limiter!Left(credit, now) \in Limiter!Buckets
<1>1. now \in Nat /\ Burst * Period \in Nat
    BY LimiterAssumption DEF Limiter!TypeOK
<1>2. Period <= Burst * Period
    <2>1. (Burst - 1) * Period >= 0
        BY LimiterAssumption
    <2>2. Burst * Period = (Burst - 1) * Period + Period
        BY OneMore, LimiterAssumption
    <2> QED BY <1>1, <2>1, <2>2, LimiterAssumption
<1>3. bucket # None => bucket \in [credit : Nat, ts : Nat, expires : Nat]
    BY DEF Limiter!TypeOK, Limiter!Maybe, Limiter!Buckets
<1>4. credit \in Int /\ credit <= Burst * Period
    BY <1>1, <1>3 DEF Limiter!Credit
<1>5. Limiter!Wait(credit) \in Nat
    BY <1>4, LimiterAssumption DEF Limiter!Wait
<1>6. Limiter!Left(credit, now) \in Limiter!Buckets
    BY <1>1, <1>4, LimiterAssumption DEF Limiter!Left, Limiter!Buckets
<1> QED BY <1>1, <1>2, <1>4, <1>5, <1>6

\* Every step keeps the limiter's types: the bucket never owes.
LEMMA LimiterTypeStep ==
    Limiter!TypeOK /\ [Limiter!Next]_limiterVars => Limiter!TypeOK'
<1> SUFFICES ASSUME Limiter!TypeOK, [Limiter!Next]_limiterVars PROVE Limiter!TypeOK'
    OBVIOUS
<1>1. CASE Limiter!Tick
    BY <1>1, LimiterAssumption DEF Limiter!Tick, Limiter!TypeOK
<1>2. CASE Limiter!Fetch
    <2> DEFINE credit == Limiter!Credit(bucket, now)
    <2>1. bucket' = Limiter!Left(credit, now) /\ now' = now
        BY <1>2 DEF Limiter!Fetch
    <2>2. answers' = Append(answers, [at |-> now, wait |-> Limiter!Wait(credit)])
        BY <1>2 DEF Limiter!Fetch
    <2>3. now \in Nat /\ Limiter!Wait(credit) \in Nat
          /\ Limiter!Left(credit, now) \in Limiter!Buckets
        BY CallTyped
    <2>4. answers' \in Seq([at : Nat, wait : Nat]) /\ Len(answers') <= MaxCalls
        BY <1>2, <2>2, <2>3, LimiterAssumption DEF Limiter!Fetch, Limiter!TypeOK
    <2> QED BY <2>1, <2>3, <2>4 DEF Limiter!TypeOK, Limiter!Maybe
<1>3. CASE UNCHANGED limiterVars
    BY <1>3 DEF limiterVars, Limiter!TypeOK
<1> QED BY <1>1, <1>2, <1>3 DEF Limiter!Next

\* What Append appends to stays as it is.
LEMMA Appended ==
    ASSUME NEW S, NEW s \in Seq(S), NEW x \in S
    PROVE  /\ Len(s) \in Nat /\ Len(Append(s, x)) = Len(s) + 1
           /\ Append(s, x)[Len(s) + 1] = x
           /\ \A i \in 1..Len(s) : Append(s, x)[i] = s[i] /\ s[i] \in S
OBVIOUS

\* What is in a sequence is of its type.
LEMMA AnswerTyped ==
    ASSUME Limiter!TypeOK, NEW i \in 1..Len(answers)
    PROVE  /\ answers[i] \in Answers
           /\ answers[i].at \in Nat /\ answers[i].wait \in Nat
<1>1. answers \in Seq(Answers)
    BY DEF Limiter!TypeOK, Answers
<1>2. answers[i] \in Answers
    BY <1>1
<1> QED BY <1>2 DEF Answers

\* What a call makes of the bucket and the answers.
LEMMA CallStep ==
    ASSUME Limiter!TypeOK, LeftByLast, Limiter!Fetch
    PROVE  LET n == Len(answers)
           IN  /\ n \in Nat /\ Len(answers') = n + 1
               /\ \A i \in 1..n : answers'[i] = answers[i] /\ answers[i] \in Answers
               /\ answers'[n + 1] \in Answers
               /\ answers'[n + 1].at = now
               /\ bucket' \in Limiter!Buckets
               /\ bucket'.ts = now + answers'[n + 1].wait
               /\ bucket'.expires = now + KeyTTL
               /\ bucket'.credit <= Burst * Period - Period
<1> DEFINE credit == Limiter!Credit(bucket, now)
           answer == [at |-> now, wait |-> Limiter!Wait(credit)]
<1>1. /\ now \in Nat /\ credit \in Int /\ credit <= Burst * Period
      /\ Burst * Period \in Nat /\ Period <= Burst * Period
      /\ Limiter!Wait(credit) \in Nat
      /\ Limiter!Left(credit, now) \in Limiter!Buckets
    BY CallTyped
<1>2. bucket' = Limiter!Left(credit, now) /\ answers' = Append(answers, answer)
    BY DEF Limiter!Fetch
<1>3. answers \in Seq(Answers) /\ answer \in Answers
    BY <1>1 DEF Limiter!TypeOK, Answers
<1>4. /\ Limiter!Left(credit, now).ts = now + Limiter!Wait(credit)
      /\ Limiter!Left(credit, now).expires = now + KeyTTL
      /\ Limiter!Left(credit, now).credit <= Burst * Period - Period
    <2>1. CASE credit >= Period
        BY <1>1, <2>1, LimiterAssumption DEF Limiter!Left, Limiter!Wait
    <2>2. CASE ~(credit >= Period)
        BY <1>1, <2>2, LimiterAssumption DEF Limiter!Left, Limiter!Wait
    <2> QED BY <2>1, <2>2
<1>5. /\ Len(answers) \in Nat /\ Len(answers') = Len(answers) + 1
      /\ answers'[Len(answers) + 1] = answer
      /\ \A i \in 1..Len(answers) : answers'[i] = answers[i] /\ answers[i] \in Answers
    BY <1>2, <1>3, Appended
<1> HIDE DEF credit
<1> QED BY <1>1, <1>2, <1>3, <1>4, <1>5

\* A call moves the time at which the bucket had been empty on by at least a
\* Period, provided that a key does not expire before its bucket is full.
LEMMA CallPays ==
    ASSUME Limiter!TypeOK, LeftByLast, answers # <<>>, Limiter!KeyOutlivesWaits, Limiter!Fetch
    PROVE  bucket'.ts - bucket'.credit >= bucket.ts - bucket.credit + Period
<1> DEFINE n == Len(answers)
           credit == Limiter!Credit(bucket, now)
<1>1. n \in Nat /\ n \in 1..n /\ answers[n] \in Answers
    <2>1. answers \in Seq(Answers)
        BY DEF Limiter!TypeOK, Answers
    <2> QED BY <2>1
<1>2. bucket # None /\ bucket \in Limiter!Buckets
    BY DEF LeftByLast, Limiter!TypeOK, Limiter!Maybe
<1>3. bucket.credit \in Nat /\ bucket.ts \in Nat /\ bucket.expires \in Nat
    BY <1>2 DEF Limiter!Buckets
<1>4. /\ now \in Nat /\ credit \in Int /\ credit <= Burst * Period
      /\ Burst * Period \in Nat /\ Period <= Burst * Period
    BY CallTyped
<1>5. bucket.ts = answers[n].at + answers[n].wait /\ bucket.expires = answers[n].at + KeyTTL
    BY DEF LeftByLast, Due
<1>6. answers[n].wait + Burst * Period <= KeyTTL
    BY <1>1 DEF Limiter!KeyOutlivesWaits
<1>7. answers[n].wait \in Nat /\ answers[n].at \in Nat
    BY <1>1 DEF Answers
<1>8. bucket.expires >= bucket.ts + Burst * Period
    BY <1>3, <1>4, <1>5, <1>6, <1>7, LimiterAssumption, SMTT(30)
<1>9. credit <= bucket.credit + now - bucket.ts
    <2>1. CASE now >= bucket.expires
        BY <1>3, <1>4, <1>8, <2>1
    <2>2. CASE ~(now >= bucket.expires)
        BY <1>2, <1>3, <1>4, <2>2 DEF Limiter!Credit
    <2> QED BY <2>1, <2>2
<1>10. bucket' = Limiter!Left(credit, now)
    BY DEF Limiter!Fetch
<1>11. bucket'.ts - bucket'.credit = now - credit + Period
    <2>1. CASE credit >= Period
        BY <1>4, <1>10, <2>1, LimiterAssumption DEF Limiter!Left
    <2>2. CASE ~(credit >= Period)
        BY <1>4, <1>10, <2>2, LimiterAssumption DEF Limiter!Left
    <2> QED BY <2>1, <2>2
<1> HIDE DEF credit
<1> QED BY <1>3, <1>4, <1>9, <1>11, LimiterAssumption

\* A call keeps the invariant.
LEMMA CallKeeps ==
    ASSUME LimiterInvariant, Limiter!Fetch PROVE LimiterInvariant'
<1> USE DEF LimiterInvariant
<1>0. Len(answers) \in Nat
    BY CallStep
<1> PICK n \in Nat : n = Len(answers)
    BY <1>0
<1>1. /\ n = Len(answers) /\ Len(answers') = n + 1
      /\ \A i \in 1..n : answers'[i] = answers[i] /\ answers[i] \in Answers
      /\ answers'[n + 1] \in Answers
      /\ answers'[n + 1].at = now
      /\ bucket' \in Limiter!Buckets
      /\ bucket'.ts = now + answers'[n + 1].wait
      /\ bucket'.expires = now + KeyTTL
      /\ bucket'.credit <= Burst * Period - Period
    BY CallStep
<1>2. Limiter!TypeOK'
    BY LimiterTypeStep DEF Limiter!Next
<1>3. LeftByLast'
    <2>1. answers' # <<>>
        BY <1>1
    <2>2. bucket' # None
        BY <1>1, NoneIsNoRecord
    <2> QED BY <1>1, <2>1, <2>2 DEF LeftByLast, Due
<1>4. \A i \in 1..(n + 1) : Due(i)' \in Nat
    BY <1>1 DEF Due, Answers
<1>5. \A i \in 1..n : Due(i)' = Due(i)
    BY <1>1 DEF Due
<1>6. bucket'.credit \in Nat /\ bucket'.ts \in Nat /\ bucket'.ts = Due(n + 1)'
    BY <1>1 DEF Due, Limiter!Buckets
<1>7. ASSUME Limiter!KeyOutlivesWaits' PROVE Paid' /\ Shared'
    <2>1. Limiter!KeyOutlivesWaits
        BY <1>1, <1>7 DEF Limiter!KeyOutlivesWaits
    <2>2. Paid /\ Shared
        BY <2>1
    <2>3. ASSUME NEW i \in 1..(n + 1)
          PROVE  bucket'.ts - bucket'.credit >= Due(i)' + (n + 1 - i + 1 - Burst) * Period
        <3>1. CASE i = n + 1
            <4>1. (n + 1 - i + 1 - Burst) * Period = Period - Burst * Period
                BY <1>1, <3>1, LimiterAssumption
            <4>2. Burst * Period \in Nat /\ Period \in Nat
                BY LimiterAssumption
            <4> QED BY <1>1, <1>6, <3>1, <4>1, <4>2
        <3>2. CASE i \in 1..n
            <4> DEFINE owed == (n - i + 1 - Burst) * Period
            <4>1. bucket.ts - bucket.credit >= Due(i) + owed
                BY <2>2, <3>2 DEF Paid
            <4>2. answers # <<>>
                BY <3>2
            <4>3. bucket'.ts - bucket'.credit >= bucket.ts - bucket.credit + Period
                BY <2>1, <4>2, CallPays
            <4>4. owed \in Int /\ (n + 1 - i + 1 - Burst) * Period = owed + Period
                <5>1. n - i + 1 - Burst \in Int
                    BY <1>1, <3>2, LimiterAssumption
                <5>2. n + 1 - i + 1 - Burst = (n - i + 1 - Burst) + 1
                    BY <1>1, <3>2, LimiterAssumption
                <5> QED BY <5>1, <5>2, OneMore, LimiterAssumption
            <4>5. bucket.ts \in Nat /\ bucket.credit \in Nat
                BY <4>2 DEF LeftByLast, Limiter!TypeOK, Limiter!Maybe, Limiter!Buckets
            <4>6. Due(i)' \in Nat /\ Due(i) = Due(i)'
                BY <1>4, <1>5, <3>2
            <4> HIDE DEF owed
            <4>7. /\ bucket'.ts - bucket'.credit \in Int /\ Period \in Int
                  /\ bucket.ts - bucket.credit \in Int
                BY <1>6, <4>5, LimiterAssumption
            <4>8. bucket'.ts - bucket'.credit >= Due(i)' + (owed + Period)
                BY <4>1, <4>3, <4>4, <4>6, <4>7, BothBounds
            <4> QED BY <4>4, <4>8
        <3> QED BY <1>1, <3>1, <3>2
    <2>4. Paid'
        BY <1>1, <2>3 DEF Paid
    <2>5. ASSUME NEW i \in 1..(n + 1), NEW j \in 1..(n + 1), i < j
          PROVE  Due(j)' >= Due(i)' + (j - i + 1 - Burst) * Period
        <3>1. CASE j = n + 1
            <4> DEFINE owed == (j - i + 1 - Burst) * Period
            <4>1. owed \in Int /\ n + 1 - i + 1 - Burst = j - i + 1 - Burst
                BY <3>1, LimiterAssumption
            <4>2. bucket'.ts - bucket'.credit >= Due(i)' + owed
                BY <2>3, <3>1
            <4>3. Due(i)' \in Nat /\ Due(j)' = bucket'.ts
                BY <1>4, <1>6, <3>1
            <4> HIDE DEF owed
            <4> QED BY <1>6, <4>1, <4>2, <4>3 DEF owed
        <3>2. CASE j \in 1..n
            <4>1. i \in 1..n
                BY <1>1, <2>5, <3>2
            <4> QED BY <1>5, <2>2, <2>5, <3>2, <4>1 DEF Shared
        <3> QED BY <1>1, <3>1, <3>2
    <2> QED BY <1>1, <2>4, <2>5 DEF Shared
<1> QED BY <1>2, <1>3, <1>7

\* Every step does.
LEMMA LimiterStep ==
    LimiterInvariant /\ [Limiter!Next]_limiterVars => LimiterInvariant'
<1> SUFFICES ASSUME LimiterInvariant, [Limiter!Next]_limiterVars PROVE LimiterInvariant'
    OBVIOUS
<1>1. CASE Limiter!Fetch
    BY <1>1, CallKeeps
<1>2. CASE bucket' = bucket /\ answers' = answers
    <2>1. Limiter!TypeOK'
        BY LimiterTypeStep DEF LimiterInvariant
    <2> QED BY <1>2, <2>1
            DEF LimiterInvariant, LeftByLast, Paid, Shared, Due, Limiter!KeyOutlivesWaits
<1> QED BY <1>1, <1>2 DEF Limiter!Next, Limiter!Tick, limiterVars

\* What Redis cuts off of a wait is less than a second.
LEMMA CutOff ==
    ASSUME NEW wait \in Nat
    PROVE  Limiter!Replied(wait) \in Int /\ Limiter!Replied(wait) <= wait
           /\ wait < Limiter!Replied(wait) + Second
<1>1. wait % Second \in 0..(Second - 1)
    BY LimiterAssumption
<1> QED BY <1>1, LimiterAssumption DEF Limiter!Replied

\* The exact answers keep to the budget, so the answers of whole seconds do
\* but for less than a second.
LEMMA BudgetFollows == LimiterInvariant => Limiter!BudgetShared
<1> SUFFICES ASSUME LimiterInvariant, Limiter!KeyOutlivesWaits,
                    NEW i \in 1..Len(answers), NEW j \in 1..Len(answers), i < j
             PROVE  answers[j].at + Limiter!Replied(answers[j].wait) + Second
                      > answers[i].at + Limiter!Replied(answers[i].wait)
                        + (j - i + 1 - Burst) * Period
    BY DEF Limiter!BudgetShared
<1> DEFINE at   == answers[j].at
           wait == answers[j].wait
           cut  == Limiter!Replied(answers[j].wait)
           at0   == answers[i].at
           wait0 == answers[i].wait
           cut0  == Limiter!Replied(answers[i].wait)
           share == (j - i + 1 - Burst) * Period
<1>1. at + wait >= at0 + wait0 + share
    BY DEF LimiterInvariant, Shared, Due
<1>2. at \in Nat /\ wait \in Nat /\ at0 \in Nat /\ wait0 \in Nat
    BY AnswerTyped DEF LimiterInvariant
<1>3. share \in Int /\ Second \in Nat
    BY LimiterAssumption
<1>4. cut0 \in Int /\ cut0 <= wait0
    BY <1>2, CutOff
<1>5. cut \in Int /\ wait < cut + Second
    BY <1>2, CutOff
<1> HIDE DEF at, wait, cut, at0, wait0, cut0, share
<1>6. at + cut + Second > at0 + cut0 + share
    BY <1>1, <1>2, <1>3, <1>4, <1>5
<1> QED BY <1>6 DEF at, cut, at0, cut0, share

\* The waits that the limiter answers share out one budget, for any rate, burst,
\* time to live and bounds: of any n requests that wait as they are told the
\* first Burst go together and each of the others takes its Period, less than a
\* second in all cut off, as long as no key expires before its bucket is full.
THEOREM LimiterKeepsBudget == Limiter!Spec => []LimiterSharesBudget
<1>1. Limiter!Init => LimiterInvariant
    <2> SUFFICES ASSUME Limiter!Init PROVE LimiterInvariant
        OBVIOUS
    <2>1. Limiter!TypeOK
        BY LimiterAssumption DEF Limiter!Init, Limiter!TypeOK, Limiter!Maybe
    <2>2. LeftByLast /\ Paid /\ Shared
        BY DEF Limiter!Init, LeftByLast, Paid, Shared
    <2> QED BY <2>1, <2>2 DEF LimiterInvariant
<1>2. LimiterInvariant /\ [Limiter!Next]_(Limiter!vars) => LimiterInvariant'
    BY LimiterStep DEF limiterVars, Limiter!vars
<1>3. LimiterInvariant => LimiterSharesBudget
    BY BudgetFollows DEF LimiterSharesBudget
<1> QED BY <1>1, <1>2, <1>3, PTL DEF Limiter!Spec

-----------------------------------------------------------------------------
(* The chat *)

Creating == [pc : {"creating"}, auction : Auctions, row : {"none", "open", "closed"},
             stranger : BOOLEAN]

Labelling == [pc : {"labelling"}, auction : Auctions, name : Names,
              read : Bot!Maybe(Bot!Links)]

Switching == [pc : {"switching"}, auction : Auctions, read : Bot!Maybe(Bot!Links)]

\* What a handler is by its program counter.
LEMMA HandlerAt ==
    ASSUME Bot!TypeOK, NEW t \in Tasks
    PROVE  /\ task[t] # None => task[t].auction \in Auctions
           /\ Bot!At(t, "creating") => task[t] \in Creating
           /\ Bot!At(t, "naming") => task[t].name \in Names
           /\ Bot!At(t, "labelling") => task[t] \in Labelling
           /\ Bot!At(t, "switching") => task[t] \in Switching
BY DEF Bot!TypeOK, Bot!Maybe, Bot!Handlers, Bot!At, Creating, Labelling, Switching

\* A handler that goes on leaves the others alone.
LEMMA GoesStep ==
    ASSUME Bot!TypeOK, NEW t \in Tasks, NEW h \in Bot!Maybe(Bot!Handlers), Bot!Goes(t, h)
    PROVE  /\ task' \in [Tasks -> Bot!Maybe(Bot!Handlers)]
           /\ task'[t] = h /\ \A r \in Tasks : r # t => task'[r] = task[r]
BY DEF Bot!TypeOK, Bot!Goes

\* A name is written beside a mute that came in between,
LEMMA NameWritten ==
    ASSUME NEW current \in Bot!Links, NEW read \in Bot!Links, NEW name \in Names
    PROVE  LET written == Bot!Written(current, read, [read EXCEPT !.label = name])
           IN  written \in Bot!Links /\ written.on = current.on
BY DEF Bot!Written, Bot!Links, Bot!Maybe

\* and a mute beside a name.
LEMMA MuteWritten ==
    ASSUME NEW current \in Bot!Links, NEW read \in Bot!Links
    PROVE  LET written == Bot!Written(current, read, [read EXCEPT !.on = ~@])
           IN  written \in Bot!Links /\ written.label = current.label
BY DEF Bot!Written, Bot!Links, Bot!Maybe

\* A handler's loaded link, unless marked as gone, has a row.
LoadedExists ==
    \A t \in Tasks :
        Bot!At(t, "labelling") \/ Bot!At(t, "switching") =>
            (task[t].read # None => links[task[t].auction] # None)
\* The inductive invariant of the chat.
ChatInvariant == Bot!TypeOK /\ LoadedExists

\* A handler that begins, or goes on with what it has read of a link that is
\* there, keeps it.
LEMMA GoesKeeps ==
    ASSUME ChatInvariant, NEW t \in Tasks, NEW h \in Bot!Maybe(Bot!Handlers),
           Bot!Goes(t, h), known' \in BOOLEAN,
           rows' \in [Auctions -> {"none", "open", "closed"}],
           links' \in [Auctions -> Bot!Maybe(Bot!Links)],
           dialogue' \in Bot!Maybe(Auctions),
           \A a \in Auctions : links[a] # None => links'[a] # None,
           h # None /\ h.pc \in {"labelling", "switching"} => links'[h.auction] # None
    PROVE  ChatInvariant'
<1>1. /\ task' \in [Tasks -> Bot!Maybe(Bot!Handlers)]
      /\ task'[t] = h /\ \A r \in Tasks : r # t => task'[r] = task[r]
    BY GoesStep DEF ChatInvariant
<1>2. Bot!TypeOK'
    BY <1>1 DEF Bot!TypeOK
<1>3. ASSUME NEW r \in Tasks, (Bot!At(r, "labelling") \/ Bot!At(r, "switching"))',
             task'[r].read # None
      PROVE  links'[task'[r].auction] # None
    <2>1. CASE r = t
        BY <1>1, <1>3, <2>1 DEF Bot!At
    <2>2. CASE r # t
        <3>1. links[task[r].auction] # None /\ task[r].auction \in Auctions
            BY <1>1, <1>3, <2>2, HandlerAt DEF ChatInvariant, LoadedExists, Bot!At
        <3> QED BY <1>1, <2>2, <3>1
    <2> QED BY <2>1, <2>2
<1> QED BY <1>2, <1>3 DEF ChatInvariant, LoadedExists

\* A link's row that goes takes what the handlers have read of it along.
LEMMA UnlinkKeeps ==
    ASSUME ChatInvariant, NEW a \in Auctions, Bot!Unlink(a),
           known' = known, rows' = rows, dialogue' = dialogue
    PROVE  ChatInvariant'
<1> USE DEF ChatInvariant
<1> DEFINE Affected(t) == (Bot!At(t, "labelling") \/ Bot!At(t, "switching"))
                            /\ task[t].auction = a
<1>1. /\ \A t \in Tasks : task'[t] = IF Affected(t) THEN [task[t] EXCEPT !.read = None]
                                     ELSE task[t]
      /\ links' = [links EXCEPT ![a] = None]
    BY DEF Bot!Unlink
<1>2. ASSUME NEW t \in Tasks, Affected(t)
      PROVE  /\ [task[t] EXCEPT !.read = None] \in Bot!Maybe(Bot!Handlers)
             /\ [task[t] EXCEPT !.read = None].read = None
    <2>1. CASE task[t] \in Labelling
        BY <2>1 DEF Labelling, Bot!Maybe, Bot!Handlers
    <2>2. CASE task[t] \in Switching
        BY <2>2 DEF Switching, Bot!Maybe, Bot!Handlers
    <2> QED BY <1>2, <2>1, <2>2, HandlerAt
<1>3. task' \in [Tasks -> Bot!Maybe(Bot!Handlers)]
    <2>1. \A t \in Tasks : task'[t] \in Bot!Maybe(Bot!Handlers)
        BY <1>1, <1>2 DEF Bot!TypeOK
    <2> QED BY <2>1 DEF Bot!Unlink
<1>4. links' \in [Auctions -> Bot!Maybe(Bot!Links)]
    BY <1>1 DEF Bot!TypeOK, Bot!Maybe
<1>5. Bot!TypeOK'
    BY <1>3, <1>4 DEF Bot!TypeOK
<1>6. ASSUME NEW t \in Tasks, (Bot!At(t, "labelling") \/ Bot!At(t, "switching"))',
             task'[t].read # None
      PROVE  links'[task'[t].auction] # None
    <2>1. ~Affected(t) /\ task'[t] = task[t]
        BY <1>1, <1>2, <1>6
    <2>2. Bot!At(t, "labelling") \/ Bot!At(t, "switching")
        BY <1>6, <2>1 DEF Bot!At
    <2>3. task[t].auction # a /\ links[task[t].auction] # None /\ task[t].auction \in Auctions
        BY <1>6, <2>1, <2>2, HandlerAt DEF LoadedExists, Bot!At
    <2> QED BY <1>1, <2>1, <2>3 DEF Bot!TypeOK
<1> QED BY <1>5, <1>6 DEF LoadedExists

\* Every step of the chat keeps the invariant.
LEMMA ChatStep == ChatInvariant /\ [Bot!Next]_chatVars => ChatInvariant'
<1> SUFFICES ASSUME ChatInvariant, [Bot!Next]_chatVars PROVE ChatInvariant'
    OBVIOUS
<1> USE DEF ChatInvariant
<1>0. None \in Bot!Maybe(Bot!Handlers) /\ None \in Bot!Maybe(Auctions)
      /\ \A h \in Bot!Handlers : h \in Bot!Maybe(Bot!Handlers)
    BY DEF Bot!Maybe
<1>1. CASE task' = task /\ links' = links /\ Bot!TypeOK'
    BY <1>1 DEF LoadedExists, Bot!At
<1>2. CASE Bot!LeaveDialogue \/ UNCHANGED chatVars
    BY <1>0, <1>1, <1>2 DEF Bot!LeaveDialogue, chatVars, Bot!TypeOK
<1>3. CASE Bot!Restart
    BY <1>0, <1>3 DEF Bot!Restart, Bot!TypeOK, LoadedExists, Bot!At
<1>4. ASSUME NEW a \in Auctions, Bot!RowChanges(a) PROVE ChatInvariant'
    BY <1>1, <1>4 DEF Bot!RowChanges, Bot!TypeOK
<1>5. ASSUME NEW a \in Auctions, Bot!Delete(a) \/ Bot!Clean(a) PROVE ChatInvariant'
    BY <1>5, UnlinkKeeps DEF Bot!Delete, Bot!Clean
<1>6. ASSUME NEW t \in Tasks, Bot!FetchFails(t) \/ Bot!Dies(t) PROVE ChatInvariant'
    BY <1>0, <1>6, GoesKeeps DEF Bot!FetchFails, Bot!Dies, Bot!Ends, Bot!TypeOK
<1>7. ASSUME NEW t \in Tasks, NEW a \in Auctions, Bot!SendLink(t, a) \/ Bot!SendMute(t, a)
      PROVE ChatInvariant'
    <2>1. ASSUME NEW pc \in {"adding", "muting"}
          PROVE  [pc |-> pc, auction |-> a] \in Bot!Handlers
        BY DEF Bot!Handlers
    <2> QED BY <1>0, <1>7, <2>1, GoesKeeps DEF Bot!SendLink, Bot!SendMute, Bot!TypeOK
<1>8. ASSUME NEW t \in Tasks, NEW name \in Names, Bot!SendName(t, name)
      PROVE ChatInvariant'
    <2>1. dialogue \in Auctions
        BY <1>8 DEF Bot!SendName, Bot!TypeOK, Bot!Maybe
    <2>2. [pc |-> "naming", auction |-> dialogue, name |-> name] \in Bot!Handlers
        BY <2>1 DEF Bot!Handlers
    <2> QED BY <1>0, <1>8, <2>2, GoesKeeps DEF Bot!SendName, Bot!TypeOK
<1>9. ASSUME NEW t \in Tasks, Bot!Look(t) PROVE ChatInvariant'
    <2> DEFINE a == task[t].auction
               next == [pc |-> "creating", auction |-> a, row |-> rows[a],
                        stranger |-> ~known]
    <2>1. a \in Auctions
        BY <1>9, HandlerAt DEF Bot!Look, Bot!At
    <2>2. (~known) \in BOOLEAN
        <3>1. known \in BOOLEAN
            BY DEF Bot!TypeOK
        <3> QED BY <3>1
    <2>3. rows[a] \in {"none", "open", "closed"}
        BY <2>1 DEF Bot!TypeOK
    <2>4. next \in Bot!Handlers
        BY <2>1, <2>2, <2>3 DEF Bot!Handlers
    <2>5. Bot!Goes(t, IF links[a] # None THEN None ELSE next)
        BY <1>9 DEF Bot!Look
    <2> QED BY <1>0, <1>9, <2>4, <2>5, GoesKeeps DEF Bot!Look, Bot!TypeOK
<1>10. ASSUME NEW t \in Tasks, Bot!Create(t) PROVE ChatInvariant'
    <2> DEFINE h == task[t]
    <2>1. h \in Creating /\ h.auction \in Auctions
        BY <1>10, HandlerAt DEF Bot!Create, Creating
    <2>2. Bot!NewLink \in Bot!Links /\ Bot!NewLink # None
        <3>1. Bot!NewLink \in Bot!Links
            BY DEF Bot!NewLink, Bot!Links, Bot!Maybe
        <3> QED BY <3>1, NoneIsNoRecord
    <2>3. [pc |-> "telling", auction |-> h.auction] \in Bot!Handlers
        BY <2>1 DEF Bot!Handlers
    <2>4. CASE Bot!Conflicts(h)
        BY <1>0, <1>10, <2>4, GoesKeeps DEF Bot!Create, Bot!Ends, Bot!TypeOK
    <2>5. CASE ~Bot!Conflicts(h)
        <3>1. PICK seen \in IF h.row = "none" THEN {"open", "closed"} ELSE {h.row} :
                /\ known' = TRUE
                /\ rows' = IF h.row = "none" THEN [rows EXCEPT ![h.auction] = seen]
                           ELSE rows
                /\ IF seen = "closed" THEN Bot!Ends(t) /\ UNCHANGED links
                   ELSE /\ links' = [links EXCEPT ![h.auction] = Bot!NewLink]
                        /\ Bot!Goes(t, [pc |-> "telling", auction |-> h.auction])
            BY <1>10, <2>5 DEF Bot!Create
        <3>2. rows' \in [Auctions -> {"none", "open", "closed"}]
            BY <3>1 DEF Bot!TypeOK
        <3>3. known' \in BOOLEAN /\ dialogue' \in Bot!Maybe(Auctions)
            BY <1>10, <3>1 DEF Bot!Create, Bot!TypeOK
        <3>4. CASE seen = "closed"
            BY <1>0, <3>1, <3>2, <3>3, <3>4, GoesKeeps DEF Bot!Ends, Bot!TypeOK
        <3>5. CASE seen # "closed"
            <4>1. /\ links' \in [Auctions -> Bot!Maybe(Bot!Links)]
                  /\ \A a \in Auctions : links[a] # None => links'[a] # None
                BY <2>1, <2>2, <3>1, <3>5 DEF Bot!TypeOK, Bot!Maybe
            <4> QED BY <1>0, <2>3, <3>1, <3>2, <3>3, <3>5, <4>1, GoesKeeps
        <3> QED BY <3>4, <3>5
    <2> QED BY <2>4, <2>5
<1>11. ASSUME NEW t \in Tasks, Bot!Tell(t) PROVE ChatInvariant'
    <2>1. task[t].auction \in Auctions
        BY <1>11, HandlerAt DEF Bot!Tell, Bot!At
    <2>2. dialogue' \in Bot!Maybe(Auctions)
        BY <1>11, <2>1 DEF Bot!Tell, Bot!Maybe
    <2> QED BY <1>0, <1>11, <2>2, GoesKeeps DEF Bot!Tell, Bot!Ends, Bot!TypeOK
<1>12. ASSUME NEW t \in Tasks, Bot!ReadToName(t) PROVE ChatInvariant'
    <2> DEFINE h == task[t]
               next == [pc |-> "labelling", auction |-> h.auction,
                        name |-> h.name, read |-> links[h.auction]]
    <2>1. h.auction \in Auctions /\ h.name \in Names
        BY <1>12, HandlerAt DEF Bot!ReadToName, Bot!At
    <2>2. links[h.auction] \in Bot!Maybe(Bot!Links)
        BY <2>1 DEF Bot!TypeOK
    <2>3. next \in Bot!Handlers
        BY <2>1, <2>2 DEF Bot!Handlers
    <2>4. CASE links[h.auction] = None
        BY <1>0, <1>12, <2>4, GoesKeeps DEF Bot!ReadToName, Bot!Ends, Bot!TypeOK
    <2>5. CASE links[h.auction] # None
        BY <1>0, <1>12, <2>3, <2>5, GoesKeeps DEF Bot!ReadToName, Bot!TypeOK
    <2> QED BY <2>4, <2>5
<1>13. ASSUME NEW t \in Tasks, Bot!ReadToSwitch(t) PROVE ChatInvariant'
    <2> DEFINE a == task[t].auction
               next == [pc |-> "switching", auction |-> a, read |-> links[a]]
    <2>1. a \in Auctions
        BY <1>13, HandlerAt DEF Bot!ReadToSwitch, Bot!At
    <2>2. links[a] \in Bot!Maybe(Bot!Links)
        BY <2>1 DEF Bot!TypeOK
    <2>3. next \in Bot!Handlers
        BY <2>1, <2>2 DEF Bot!Handlers
    <2>4. CASE links[a] = None
        BY <1>0, <1>13, <2>4, GoesKeeps DEF Bot!ReadToSwitch, Bot!TypeOK
    <2>5. CASE links[a] # None
        BY <1>0, <1>13, <2>3, <2>5, GoesKeeps DEF Bot!ReadToSwitch, Bot!TypeOK
    <2> QED BY <2>4, <2>5
<1>14. ASSUME NEW t \in Tasks, Bot!Label(t) PROVE ChatInvariant'
    <2> DEFINE h == task[t]
    <2>1. h \in Labelling /\ h.auction \in Auctions /\ h.name \in Names
        BY <1>14, HandlerAt DEF Bot!Label, Labelling
    <2>2. CASE h.read = None
        BY <1>0, <1>14, <2>2, GoesKeeps DEF Bot!Label, Bot!Ends, Bot!TypeOK
    <2>3. CASE h.read # None
        <3> DEFINE written == Bot!Written(links[h.auction], h.read,
                                          [h.read EXCEPT !.label = h.name])
        <3>1. h.read \in Bot!Links /\ links[h.auction] \in Bot!Links
            BY <1>14, <2>1, <2>3
               DEF Labelling, Bot!Maybe, Bot!TypeOK, LoadedExists, Bot!Label
        <3>2. written \in Bot!Links /\ written # None
            BY <2>1, <3>1, NameWritten, NoneIsNoRecord
        <3>3. links' = [links EXCEPT ![h.auction] = written] /\ dialogue' = None
            BY <1>14, <2>3 DEF Bot!Label
        <3> HIDE DEF written
        <3>4. /\ links' \in [Auctions -> Bot!Maybe(Bot!Links)]
              /\ \A a \in Auctions : links[a] # None => links'[a] # None
            BY <2>1, <3>2, <3>3 DEF Bot!TypeOK, Bot!Maybe
        <3> QED BY <1>0, <1>14, <3>3, <3>4, GoesKeeps DEF Bot!Label, Bot!Ends, Bot!TypeOK
    <2> QED BY <2>2, <2>3
<1>15. ASSUME NEW t \in Tasks, Bot!Switch(t) PROVE ChatInvariant'
    <2> DEFINE h == task[t]
    <2>1. h \in Switching /\ h.auction \in Auctions
        BY <1>15, HandlerAt DEF Bot!Switch, Switching
    <2>2. CASE h.read = None
        BY <1>0, <1>15, <2>2, GoesKeeps DEF Bot!Switch, Bot!Ends, Bot!TypeOK
    <2>3. CASE h.read # None
        <3> DEFINE written == Bot!Written(links[h.auction], h.read,
                                          [h.read EXCEPT !.on = ~@])
        <3>1. h.read \in Bot!Links /\ links[h.auction] \in Bot!Links
            BY <1>15, <2>1, <2>3
               DEF Switching, Bot!Maybe, Bot!TypeOK, LoadedExists, Bot!Switch
        <3>2. written \in Bot!Links /\ written # None
            BY <3>1, MuteWritten, NoneIsNoRecord
        <3>3. links' = [links EXCEPT ![h.auction] = written]
            BY <1>15, <2>3 DEF Bot!Switch
        <3> HIDE DEF written
        <3>4. /\ links' \in [Auctions -> Bot!Maybe(Bot!Links)]
              /\ \A a \in Auctions : links[a] # None => links'[a] # None
            BY <2>1, <3>2, <3>3 DEF Bot!TypeOK, Bot!Maybe
        <3> QED BY <1>0, <1>15, <3>4, GoesKeeps DEF Bot!Switch, Bot!Ends, Bot!TypeOK
    <2> QED BY <2>2, <2>3
<1> QED BY <1>2, <1>3, <1>4, <1>5, <1>6, <1>7, <1>8, <1>9, <1>10, <1>11, <1>12, <1>13,
           <1>14, <1>15
        DEF Bot!Next, Bot!Handle
\* The chat keeps the invariant, however its handlers overtake each other.
LEMMA ChatInvariantHolds == Bot!Spec => []ChatInvariant
<1>1. Bot!Init => ChatInvariant
    BY DEF Bot!Init, ChatInvariant, Bot!TypeOK, Bot!Maybe, LoadedExists, Bot!At
<1>2. ChatInvariant /\ [Bot!Next]_(Bot!vars) => ChatInvariant'
    BY ChatStep DEF chatVars, Bot!vars
<1> QED BY <1>1, <1>2, PTL DEF Bot!Spec

\* A name and a mute given at the same time do not undo each other, for any
\* auctions, names and number of handlers at work: each writes its own column,
\* though both have loaded the link before.
THEOREM SettingsKeptApart == Bot!Spec => ChatSettingsApart
<1> DEFINE Apart ==
        \A t \in Tasks, a \in Auctions :
            links[a] # None /\ links'[a] # None =>
                /\ Bot!Label(t)  => links'[a].on = links[a].on
                /\ Bot!Switch(t) => links'[a].label = links[a].label
<1>1. ASSUME ChatInvariant, NEW t \in Tasks, NEW a \in Auctions,
             links[a] # None, links'[a] # None, Bot!Label(t)
      PROVE  links'[a].on = links[a].on
    <2> DEFINE h == task[t]
    <2>1. h \in Labelling /\ h.auction \in Auctions /\ h.name \in Names
        BY <1>1, HandlerAt DEF ChatInvariant, Bot!Label, Labelling
    <2>2. CASE h.read # None /\ a = h.auction
        <3>1. h.read \in Bot!Links /\ links[a] \in Bot!Links
            BY <1>1, <2>1, <2>2 DEF ChatInvariant, Labelling, Bot!Maybe, Bot!TypeOK
        <3>2. links'[a] = Bot!Written(links[a], h.read, [h.read EXCEPT !.label = h.name])
            BY <1>1, <2>2 DEF ChatInvariant, Bot!Label, Bot!TypeOK
        <3> QED BY <2>1, <3>1, <3>2, NameWritten
    <2>3. CASE ~(h.read # None /\ a = h.auction)
        BY <1>1, <2>3 DEF ChatInvariant, Bot!Label, Bot!TypeOK
    <2> QED BY <2>2, <2>3
<1>2. ASSUME ChatInvariant, NEW t \in Tasks, NEW a \in Auctions,
             links[a] # None, links'[a] # None, Bot!Switch(t)
      PROVE  links'[a].label = links[a].label
    <2> DEFINE h == task[t]
    <2>1. h \in Switching /\ h.auction \in Auctions
        BY <1>2, HandlerAt DEF ChatInvariant, Bot!Switch, Switching
    <2>2. CASE h.read # None /\ a = h.auction
        <3>1. h.read \in Bot!Links /\ links[a] \in Bot!Links
            BY <1>2, <2>1, <2>2 DEF ChatInvariant, Switching, Bot!Maybe, Bot!TypeOK
        <3>2. links'[a] = Bot!Written(links[a], h.read, [h.read EXCEPT !.on = ~@])
            BY <1>2, <2>2 DEF ChatInvariant, Bot!Switch, Bot!TypeOK
        <3> QED BY <3>1, <3>2, MuteWritten
    <2>3. CASE ~(h.read # None /\ a = h.auction)
        BY <1>2, <2>3 DEF ChatInvariant, Bot!Switch, Bot!TypeOK
    <2> QED BY <2>2, <2>3
<1>3. ChatInvariant => [Apart]_(Bot!vars)
    BY <1>1, <1>2
<1> QED BY <1>3, ChatInvariantHolds, PTL DEF ChatSettingsApart, Bot!SettingsApart

-----------------------------------------------------------------------------
(* The parts together *)

\* The limiter and the chat of DomainMC behave as those proved about.
LEMMA PartsBehave == MCSpec => Limiter!Spec /\ Bot!Spec
<1>1. MCInit => Limiter!Init /\ Bot!Init
    BY DEF MCInit
<1>2. [MCNext]_allVars => [Limiter!Next]_(Limiter!vars) /\ [Bot!Next]_(Bot!vars)
    BY DEF MCNext, allVars, limiterVars, chatVars, Limiter!vars, Bot!vars
<1> QED BY <1>1, <1>2, PTL DEF MCSpec, Limiter!Spec, Bot!Spec

\* Type correctness of both: the bucket never owes, and a link that a handler
\* has loaded is either still there or known to be gone.
THEOREM PartsTypeCorrect == MCSpec => []PartsTypeOK
<1>1. Limiter!Init => Limiter!TypeOK
    BY LimiterAssumption DEF Limiter!Init, Limiter!TypeOK, Limiter!Maybe
<1>2. Limiter!TypeOK /\ [Limiter!Next]_(Limiter!vars) => Limiter!TypeOK'
    BY LimiterTypeStep DEF limiterVars, Limiter!vars
<1>3. Limiter!Spec => []Limiter!TypeOK
    BY <1>1, <1>2, PTL DEF Limiter!Spec
<1>4. Bot!Spec => []Bot!TypeOK
    BY ChatInvariantHolds, PTL DEF ChatInvariant
<1> QED BY <1>3, <1>4, PartsBehave, PTL DEF PartsTypeOK
-----------------------------------------------------------------------------
(* The questions to the domain rules *)

\* A question is asked about what it may be asked about.
QuestionTyped ==
    \A ask \in {"compare", "remind", "plan", "extract", "list"} :
        Asked(ask) => question.what \in Questions(ask)

\* It is asked once.
LEMMA QuestionTypedHolds == MCSpec => []QuestionTyped
<1>1. MCInit => QuestionTyped
    BY DEF MCInit, QuestionTyped, Asked
<1>2. QuestionTyped /\ [MCNext]_allVars => QuestionTyped'
    <2> SUFFICES ASSUME QuestionTyped, [MCNext]_allVars PROVE QuestionTyped'
        OBVIOUS
    <2>1. CASE question' = question
        BY <2>1 DEF QuestionTyped, Asked
    <2>2. ASSUME NEW ask \in {"compare", "remind", "plan", "extract", "list"}, Ask(ask)
          PROVE  QuestionTyped'
        <3>1. question'.ask = ask /\ question'.what \in Questions(ask)
            BY <2>2 DEF Ask
        <3> QED BY <3>1 DEF QuestionTyped, Asked
    <2> QED BY <2>1, <2>2 DEF MCNext, allVars
<1> QED BY <1>1, <1>2, PTL DEF MCSpec

\* Whatever two observations are compared, they differ if and only if an alert
\* other than a reminder is decided.
THEOREM ComparisonsAgree == MCSpec => []ChangeIffAlert
<1>1. QuestionTyped => ChangeIffAlert
    <2> SUFFICES ASSUME QuestionTyped, Asked("compare") PROVE ChangeIffAlert
        BY DEF ChangeIffAlert
    <2>1. question.what \in Observations \X Observations
        BY DEF QuestionTyped, Questions
    <2>2. question.what[1] \in AuctionState /\ question.what[2] \in AuctionState
        BY <2>1, QuestionsAssumption
    <2> QED BY <2>2, ChangeIffDecision DEF ChangeIffAlert
<1> QED BY <1>1, QuestionTypedHolds, PTL

\* What DomainProofs shows of the rules, said of the defaults of config.py.
Rules == INSTANCE DomainProofs
           WITH Minute <- 2, Threshold <- DefaultThreshold, Interval <- DefaultInterval

\* The default thresholds and intervals.
LEMMA Defaults ==
    /\ DefaultThreshold \in [TimedKinds -> Nat]
    /\ DefaultThreshold["30m"] = 60 /\ DefaultThreshold["15m"] = 30
    /\ DefaultThreshold["5m"] = 10
    /\ DefaultInterval \in [{0, 30, 60, 120, 720, 2880} -> Nat \ {0}]
    /\ DefaultInterval[0] = 2 /\ DefaultInterval[30] = 2 /\ DefaultInterval[60] = 4
    /\ DefaultInterval[120] = 20 /\ DefaultInterval[720] = 60 /\ DefaultInterval[2880] = 720
<1>1. {2 * m : m \in {0, 15, 30, 60, 360, 1440}} = {0, 30, 60, 120, 720, 2880}
    OBVIOUS
<1> QED BY <1>1 DEF DefaultThreshold, DefaultInterval, TimedKinds

\* Whenever an auction is polled, each reminder falls into exactly one of the
\* polls' windows.
THEOREM RemindersAreParted == MCSpec => []RemindersPartition
<1>1. QuestionTyped => RemindersPartition
    <2> SUFFICES ASSUME QuestionTyped, Asked("remind") PROVE RemindersPartition
        BY DEF RemindersPartition
    <2>1. PICK x \in Int, y \in Int, z \in Int :
            question.what = <<x, y, z>> /\ x <= y /\ y <= z
        BY QuestionsAssumption DEF QuestionTyped, Questions
    <2>2. \A from, to \in Int :
            Default!TimedDecisions(Ending, from, to)
              = {k \in TimedKinds : from < 0 - DefaultThreshold[k]
                                    /\ 0 - DefaultThreshold[k] <= to}
        BY NoneIsNoNumber
           DEF Default!TimedDecisions, Default!TimedKinds, TimedKinds, Ending, Page
    <2>3. \A k \in TimedKinds : DefaultThreshold[k] \in Nat
        BY Defaults
    <2>4. /\ Default!TimedDecisions(Ending, x, y) \cap Default!TimedDecisions(Ending, y, z) = {}
          /\ Default!TimedDecisions(Ending, x, y) \cup Default!TimedDecisions(Ending, y, z)
               = Default!TimedDecisions(Ending, x, z)
        BY <2>1, <2>2, <2>3
    <2> QED BY <2>1, <2>4 DEF RemindersPartition
<1> QED BY <1>1, QuestionTypedHolds, PTL

\* However long before the end a poll is planned, if it is on time it is no more
\* than two minutes late for a reminder that was still to come.
THEOREM RemindersComeOnTime == MCSpec => []RemindersOnTime
<1>1. QuestionTyped => RemindersOnTime
    <2> SUFFICES ASSUME QuestionTyped, Asked("plan"), NEW k \in TimedKinds,
                        question.what > DefaultThreshold[k]
                 PROVE  question.what - Default!PollingInterval(question.what)
                          >= DefaultThreshold[k] - 4
        BY DEF RemindersOnTime
    <2> DEFINE remaining == question.what
    <2>1. remaining \in Int
        BY QuestionsAssumption DEF QuestionTyped, Questions
    <2>2. Rules!Bounds = {0, 30, 60, 120, 720, 2880} /\ Default!Bounds = Rules!Bounds
        BY DEF Rules!Bounds, Default!Bounds
    <2>3. Default!PollingInterval(remaining) = Rules!PollingInterval(remaining)
        BY <2>2 DEF Default!PollingInterval, Rules!PollingInterval
    <2>4. Rules!TimedKinds = TimedKinds
        BY DEF Rules!TimedKinds, TimedKinds
    <2>5. remaining > DefaultThreshold[k]
        OBVIOUS
    <2> HIDE DEF remaining
    <2>6. /\ 2 \in Nat \ {0}
          /\ DefaultThreshold \in [Rules!TimedKinds -> Nat]
          /\ DefaultInterval \in [Rules!Bounds -> Nat \ {0}]
        BY <2>2, <2>4, Defaults
    <2>7. /\ DefaultThreshold["30m"] = 30 * 2 /\ DefaultThreshold["15m"] = 15 * 2
          /\ DefaultThreshold["5m"] = 5 * 2
          /\ DefaultInterval[0] = 2 /\ DefaultInterval[15 * 2] = 2
          /\ DefaultInterval[30 * 2] = 2 * 2 /\ DefaultInterval[60 * 2] = 10 * 2
          /\ DefaultInterval[360 * 2] = 30 * 2 /\ DefaultInterval[1440 * 2] = 360 * 2
        BY Defaults
    <2>8. remaining - Rules!PollingInterval(remaining) >= DefaultThreshold[k] - 2 * 2
        BY <2>1, <2>4, <2>5, <2>6, <2>7, NoneIsNoNumber, Rules!RemindersOnSchedule
    <2> QED BY <2>3, <2>8 DEF remaining
<1> QED BY <1>1, QuestionTypedHolds, PTL
-----------------------------------------------------------------------------
(* The list of auctions *)

\* What division gives.
LEMMA Quotient ==
    ASSUME NEW a \in Nat, NEW d \in Nat \ {0}
    PROVE  a \div d \in Nat /\ (a \div d) * d <= a /\ a < (a \div d) * d + d
OBVIOUS

LEMMA QuotientIs ==
    ASSUME NEW a \in Nat, NEW d \in Nat \ {0}, NEW q \in Int, q * d <= a, a < q * d + d
    PROVE  a \div d = q
OBVIOUS

LEMMA QuotientOrder ==
    ASSUME NEW q \in Int, NEW r \in Int, NEW d \in Nat \ {0}, q * d < r * d + d
    PROVE  q <= r
OBVIOUS

\* The pages are those that begin at an item: the number before the last page
\* times the page size is less than the number of items, and that of the last
\* page is not.
LEMMA PagesOfList ==
    ASSUME NEW items \in Nat \ {0}
    PROVE  /\ Bot!TotalPages(items) \in Nat \ {0}
           /\ (Bot!TotalPages(items) - 1) * PageSize < items
           /\ items <= Bot!TotalPages(items) * PageSize
<1> DEFINE pages == (items + PageSize - 1) \div PageSize
<1> USE ChatAssumption
<1>1. items + PageSize - 1 \in Nat
    OBVIOUS
<1>2. pages \in Nat /\ pages * PageSize <= items + PageSize - 1
      /\ items + PageSize - 1 < pages * PageSize + PageSize
    BY <1>1, Quotient
<1>3. pages = Bot!TotalPages(items)
    BY DEF Bot!TotalPages
<1> HIDE DEF pages
<1>4. pages # 0
    BY <1>2
<1>5. (pages - 1) * PageSize = pages * PageSize - PageSize
    BY <1>2
<1>6. pages * PageSize \in Int
    BY <1>2
<1> QED BY <1>2, <1>3, <1>4, <1>5, <1>6

\* A list that is not empty shows an auction, whatever page is asked for: by a
\* button of a message that is older than the list as well.
LEMMA NoEmptyPage ==
    ASSUME NEW items \in Nat \ {0}, NEW page \in Int
    PROVE  Bot!ItemsShown(items, page) # {}
<1> DEFINE shown == Bot!PageShown(items, page)
           first == (shown - 1) * PageSize
<1> USE ChatAssumption
<1>1. /\ Bot!TotalPages(items) \in Nat \ {0}
      /\ (Bot!TotalPages(items) - 1) * PageSize < items
    BY PagesOfList
<1>2. shown \in 1..Bot!TotalPages(items)
    BY <1>1 DEF Bot!PageShown
<1> HIDE DEF shown
<1>3. first \in Nat /\ first <= (Bot!TotalPages(items) - 1) * PageSize
    BY <1>1, <1>2
<1>4. first + 1 \in 1..items
    BY <1>1, <1>3
<1>5. first \div PageSize = shown - 1
    BY <1>2, <1>3, QuotientIs
<1> HIDE DEF first
<1>6. PICK i \in 1..items : i - 1 = first
    BY <1>3, <1>4
<1>7. (i - 1) \div PageSize = Bot!PageShown(items, page) - 1
    BY <1>5, <1>6 DEF shown
<1>8. i \in Bot!ItemsShown(items, page)
    BY <1>7, Zenon DEF Bot!ItemsShown
<1> QED BY <1>8

\* Every auction of the list is on one of its pages.
LEMMA EveryItemOnAPage ==
    ASSUME NEW items \in Nat, NEW i \in 1..items
    PROVE  \E page \in 1..Bot!TotalPages(items) : i \in Bot!ItemsShown(items, page)
<1> DEFINE page == (i - 1) \div PageSize + 1
<1> USE ChatAssumption
<1>1. items \in Nat \ {0} /\ i - 1 \in Nat
    OBVIOUS
<1>2. Bot!TotalPages(items) \in Nat \ {0} /\ items <= Bot!TotalPages(items) * PageSize
    BY <1>1, PagesOfList
<1>3. page \in Nat \ {0} /\ page - 1 = (i - 1) \div PageSize
      /\ (page - 1) * PageSize <= i - 1
    BY <1>1, Quotient
<1> HIDE DEF page
<1>4. page - 1 <= Bot!TotalPages(items) - 1
    <2>1. (Bot!TotalPages(items) - 1) * PageSize + PageSize
            = Bot!TotalPages(items) * PageSize
        BY <1>2
    <2>2. (page - 1) * PageSize < (Bot!TotalPages(items) - 1) * PageSize + PageSize
        BY <1>2, <1>3, <2>1
    <2> QED BY <1>2, <1>3, <2>2, QuotientOrder
<1>5. page \in 1..Bot!TotalPages(items)
    BY <1>2, <1>3, <1>4
<1>6. Bot!PageShown(items, page) = page
    BY <1>2, <1>5 DEF Bot!PageShown
<1> QED BY <1>3, <1>5, <1>6 DEF Bot!ItemsShown

\* The arrows of a page lead to the one before and the one behind it.
LEMMA ArrowsLeadOn ==
    ASSUME NEW items \in Nat \ {0}, NEW page \in 1..Bot!TotalPages(items)
    PROVE  /\ page > 1 => page - 1 \in Bot!Arrows(items, page)
           /\ page < Bot!TotalPages(items) => page + 1 \in Bot!Arrows(items, page)
<1>1. Bot!TotalPages(items) \in Nat \ {0}
    BY PagesOfList
<1>2. Bot!PageShown(items, page) = page
    BY <1>1 DEF Bot!PageShown
<1> QED BY <1>1, <1>2 DEF Bot!Arrows

\* Induction, from the well-foundedness of the order of the naturals.
LEMMA Induction ==
    ASSUME NEW S, 0 \in S, \A n \in Nat : n \in S => n + 1 \in S
    PROVE  Nat \subseteq S
<1> SUFFICES ASSUME Nat \ S # {} PROVE FALSE
    OBVIOUS
<1>1. PICK x \in Nat \ S : \A y \in Nat \ S : <<y, x>> \notin OpToRel(<, Nat)
    <2>1. Nat \ S \subseteq Nat
        OBVIOUS
    <2> QED BY <2>1, NatLessThanWellFounded, WFMin
<1>2. x - 1 \in Nat /\ x - 1 < x
    OBVIOUS
<1>3. x - 1 \in S
    BY <1>1, <1>2 DEF OpToRel
<1> QED BY <1>2, <1>3

\* Whoever follows the arrows, from whatever page, comes to every page: up to the
\* final by induction, and down to the first.
LEMMA EveryPageReached ==
    ASSUME NEW items \in Nat \ {0}, NEW page \in 1..Bot!TotalPages(items),
           NEW visited \in SUBSET (1..Bot!TotalPages(items)), page \in visited,
           \A p \in visited : Bot!Arrows(items, p) \subseteq visited
    PROVE  visited = 1..Bot!TotalPages(items)
<1> DEFINE final == Bot!TotalPages(items)
           Above == {n \in Nat : page + n <= final => page + n \in visited}
           Below == {n \in Nat : page - n >= 1 => page - n \in visited}
<1>1. final \in Nat \ {0} /\ page \in 1..final /\ visited \subseteq 1..final
    BY PagesOfList
<1>2. \A p \in visited : (p > 1 => p - 1 \in visited) /\ (p < final => p + 1 \in visited)
    BY ArrowsLeadOn
<1> HIDE DEF final
<1>3. Nat \subseteq Above
    <2>1. 0 \in Above
        BY <1>1
    <2>2. ASSUME NEW n \in Nat, n \in Above PROVE n + 1 \in Above
        BY <1>1, <1>2, <2>2
    <2> HIDE DEF Above
    <2> QED BY <2>1, <2>2, Induction
<1>4. Nat \subseteq Below
    <2>1. 0 \in Below
        BY <1>1
    <2>2. ASSUME NEW n \in Nat, n \in Below PROVE n + 1 \in Below
        BY <1>1, <1>2, <2>2
    <2> HIDE DEF Below
    <2> QED BY <2>1, <2>2, Induction
<1>5. ASSUME NEW p \in 1..final PROVE p \in visited
    <2>1. CASE p >= page
        <3>1. p - page \in Above
            BY <1>1, <1>3, <2>1
        <3> QED BY <1>1, <3>1
    <2>2. CASE p < page
        <3>1. page - p \in Below
            BY <1>1, <1>4, <2>2
        <3> QED BY <1>1, <3>1
    <2> QED BY <1>1, <2>1, <2>2
<1> QED BY <1>1, <1>5 DEF final

\* The list hides no auction, for any number of auctions and any page size:
\* whichever page is asked for, by an old button too, its arrows lead to all.
THEOREM ListReachesAll == MCSpec => []EveryItemReached
<1>1. QuestionTyped => EveryItemReached
    <2> SUFFICES ASSUME QuestionTyped, Asked("list") PROVE EveryItemReached
        BY DEF EveryItemReached
    <2> DEFINE items == question.what[1]
               page == question.what[2]
    <2>1. question.what \in ListRequests
        BY DEF QuestionTyped, Questions
    <2>2. items \in Nat /\ page \in Int
        BY <2>1, QuestionsAssumption
    <2>3. ASSUME NEW visited \in SUBSET (1..Bot!TotalPages(items)),
                 Bot!PageShown(items, page) \in visited,
                 \A p \in visited : Bot!Arrows(items, p) \subseteq visited
          PROVE  UNION {Bot!ItemsShown(items, p) : p \in visited} = 1..items
        <3> HIDE DEF items, page
        <3>1. \A p \in visited : Bot!ItemsShown(items, p) \subseteq 1..items
            BY DEF Bot!ItemsShown
        <3>2. CASE items = 0
            BY <3>1, <3>2
        <3>3. CASE items # 0
            <4>1. visited = 1..Bot!TotalPages(items)
                BY <2>2, <2>3, <3>3, EveryPageReached
            <4>2. \A i \in 1..items : \E p \in visited : i \in Bot!ItemsShown(items, p)
                BY <2>2, <4>1, EveryItemOnAPage
            <4> QED BY <3>1, <4>2
        <3> QED BY <3>2, <3>3
    <2>4. items > 0 => Bot!ItemsShown(items, page) # {}
        BY <2>2, NoEmptyPage
    <2> QED BY <2>3, <2>4 DEF EveryItemReached
<1> QED BY <1>1, QuestionTypedHolds, PTL

-----------------------------------------------------------------------------
(* The extractor: every text that is written as an object is cut out whole,  *)
(* however deep it nests and whatever its strings contain.                  *)

\* What one token does to it.
LEMMA ReadCodes ==
    ASSUME NEW d \in Int, NEW token
    PROVE  Extractor!Read(Extractor!Code(d), token) =
             CASE token = "{" -> Extractor!Code(d + 1) [] token = "}" -> Extractor!Code(d - 1)
               [] token = "quote" -> Extractor!Str(d) [] OTHER -> Extractor!Code(d)
<1>1. CASE token = "{"
    BY <1>1 DEF Extractor!Code, Extractor!Str, Extractor!Escape, Extractor!Read
<1>2. CASE token = "}"
    BY <1>2 DEF Extractor!Code, Extractor!Str, Extractor!Escape, Extractor!Read
<1>3. CASE token = "quote"
    BY <1>3 DEF Extractor!Code, Extractor!Str, Extractor!Escape, Extractor!Read
<1>4. CASE token \notin {"{", "}", "quote"}
    BY <1>4 DEF Extractor!Code, Extractor!Str, Extractor!Escape, Extractor!Read
<1> QED BY <1>1, <1>2, <1>3, <1>4

LEMMA ReadBraces ==
    ASSUME NEW d \in Int
    PROVE  /\ Extractor!Read(Extractor!Code(d), "{") = Extractor!Code(d + 1)
           /\ Extractor!Read(Extractor!Code(d + 1), "}") = Extractor!Code(d)
<1>1. PICK e \in Int : e = d + 1 /\ e - 1 = d
    OBVIOUS
<1>2. Extractor!Read(Extractor!Code(e), "}") = Extractor!Code(e - 1)
    BY ReadCodes
<1>3. Extractor!Read(Extractor!Code(d), "{") = Extractor!Code(d + 1)
    BY ReadCodes
<1> QED BY <1>1, <1>2, <1>3, Zenon

LEMMA ReadStrings ==
    ASSUME NEW d \in Int, NEW token
    PROVE  /\ Extractor!Read(Extractor!Str(d), token) =
                CASE token = "quote" -> Extractor!Code(d)
                  [] token = "backslash" -> Extractor!Escape(d)
                  [] OTHER -> Extractor!Str(d)
           /\ Extractor!Read(Extractor!Escape(d), token) = Extractor!Str(d)
<1>1. CASE token = "quote"
    BY <1>1 DEF Extractor!Code, Extractor!Str, Extractor!Escape, Extractor!Read
<1>2. CASE token = "backslash"
    BY <1>2 DEF Extractor!Code, Extractor!Str, Extractor!Escape, Extractor!Read
<1>3. CASE token \notin {"quote", "backslash"}
    BY <1>3 DEF Extractor!Code, Extractor!Str, Extractor!Escape, Extractor!Read
<1> QED BY <1>1, <1>2, <1>3

\* R has in it, from k on, what the scanner goes through as it reads the text.
IsRun(R, k, text) ==
    \A i \in 1..Len(text) : R[k + i] = Extractor!Read(R[k + i - 1], text[i])

\* The scan of a text is well defined: a run that begins outside.
LEMMA ScanRuns ==
    ASSUME NEW text \in Seq(Extractor!Tokens)
    PROVE  /\ Extractor!Scan(text)[0] = Extractor!Code(0)
           /\ IsRun(Extractor!Scan(text), 0, text)
<1> DEFINE Scans(R, n) == R = [i \in 0..n |-> IF i = 0 THEN Extractor!Code(0)
                                              ELSE Extractor!Read(R[i - 1], text[i])]
           Scanned == {n \in Nat : \E R : Scans(R, n)}
           S == Extractor!Scan(text)
<1>1. 0 \in Scanned
    <2> DEFINE R == [i \in 0..0 |-> Extractor!Code(0)]
    <2>1. Scans(R, 0)
        OBVIOUS
    <2> QED BY <2>1
<1>2. ASSUME NEW n \in Nat, n \in Scanned PROVE n + 1 \in Scanned
    <2>1. PICK R : Scans(R, n)
        BY <1>2
    <2>2. R[0] = Extractor!Code(0) /\ \A i \in 1..n : R[i] = Extractor!Read(R[i - 1], text[i])
        BY <2>1
    <2> DEFINE Q == [i \in 0..(n + 1) |-> IF i <= n THEN R[i]
                                          ELSE Extractor!Read(R[n], text[n + 1])]
    <2>3. ASSUME NEW i \in 0..(n + 1)
          PROVE  Q[i] = IF i = 0 THEN Extractor!Code(0) ELSE Extractor!Read(Q[i - 1], text[i])
        <3>1. CASE i = 0
            BY <2>2, <3>1
        <3>2. CASE i \in 1..n
            <4>1. Q[i] = R[i] /\ Q[i - 1] = R[i - 1]
                BY <3>2
            <4> QED BY <2>2, <3>2, <4>1
        <3>3. CASE i = n + 1
            <4>1. Q[i] = Extractor!Read(R[n], text[n + 1]) /\ Q[i - 1] = R[n]
                BY <3>3
            <4> QED BY <3>3, <4>1
        <3> QED BY <3>1, <3>2, <3>3
    <2>4. Scans(Q, n + 1)
        BY <2>3
    <2>5. \E T : Scans(T, n + 1)
        BY <2>4, Zenon
    <2> HIDE DEF Scans
    <2> QED BY <2>5
<1>3. Nat \subseteq Scanned
    <2> HIDE DEF Scanned
    <2> QED BY <1>1, <1>2, Induction
<1>4. Len(text) \in Nat
    OBVIOUS
<1>5. \E R : Scans(R, Len(text))
    BY <1>3, <1>4
<1>6. Scans(S, Len(text))
    BY <1>5, Zenon DEF Extractor!Scan
<1> HIDE DEF S
<1>7. \A i \in 0..Len(text) : S[i] = IF i = 0 THEN Extractor!Code(0)
                                     ELSE Extractor!Read(S[i - 1], text[i])
    BY <1>6
<1>8. S[0] = Extractor!Code(0)
    BY <1>4, <1>7
<1>9. ASSUME NEW i \in 1..Len(text)
      PROVE  S[0 + i] = Extractor!Read(S[0 + i - 1], text[i])
    BY <1>4, <1>7
<1> QED BY <1>8, <1>9 DEF IsRun, S

\* A text read in two parts.
LEMMA RunParts ==
    ASSUME NEW a \in Seq(Extractor!Tokens), NEW b \in Seq(Extractor!Tokens),
           NEW k \in Nat, NEW R, IsRun(R, k, a \o b)
    PROVE  /\ IsRun(R, k, a) /\ IsRun(R, k + Len(a), b)
           /\ Len(a \o b) = Len(a) + Len(b) /\ Len(a) \in Nat /\ Len(b) \in Nat
<1>1. /\ Len(a \o b) = Len(a) + Len(b) /\ Len(a) \in Nat /\ Len(b) \in Nat
      /\ \A i \in 1..Len(a) : (a \o b)[i] = a[i]
      /\ \A i \in 1..Len(b) : (a \o b)[Len(a) + i] = b[i]
    OBVIOUS
<1>2. \A i \in 1..(Len(a) + Len(b)) : R[k + i] = Extractor!Read(R[k + i - 1], (a \o b)[i])
    BY <1>1 DEF IsRun
<1>3. IsRun(R, k, a)
    BY <1>1, <1>2 DEF IsRun
<1>4. ASSUME NEW i \in 1..Len(b)
      PROVE  R[k + Len(a) + i] = Extractor!Read(R[k + Len(a) + i - 1], b[i])
    <2>1. R[k + (Len(a) + i)] = Extractor!Read(R[k + (Len(a) + i) - 1], (a \o b)[Len(a) + i])
        BY <1>1, <1>2
    <2>2. k + (Len(a) + i) = k + Len(a) + i
        BY <1>1
    <2> QED BY <1>1, <2>1, <2>2
<1> QED BY <1>1, <1>3, <1>4 DEF IsRun

\* A token read by itself.
LEMMA RunToken ==
    ASSUME NEW token, NEW k \in Nat, NEW R, IsRun(R, k, <<token>>)
    PROVE  R[k + 1] = Extractor!Read(R[k], token)
BY DEF IsRun

\* A text with one more token behind it.
LEMMA RunAppended ==
    ASSUME NEW q \in Seq(Extractor!Tokens), NEW a \in Extractor!Tokens,
           NEW k \in Nat, NEW R, IsRun(R, k, q \o <<a>>)
    PROVE  /\ Len(q) \in Nat /\ Len(q \o <<a>>) = Len(q) + 1
           /\ IsRun(R, k, q)
           /\ R[k + Len(q) + 1] = Extractor!Read(R[k + Len(q)], a)
<1>1. <<a>> \in Seq(Extractor!Tokens) /\ Len(<<a>>) = 1
    OBVIOUS
<1>2. /\ IsRun(R, k, q) /\ IsRun(R, k + Len(q), <<a>>)
      /\ Len(q \o <<a>>) = Len(q) + 1 /\ Len(q) \in Nat
    BY <1>1, RunParts
<1>3. k + Len(q) \in Nat
    BY <1>2
<1> QED BY <1>2, <1>3, RunToken

\* A run through the text e: a text q, a token a, a text r and a token b.
Through(R, k, q, a, r, b, e) ==
    /\ Len(e) = Len(q) + Len(r) + 2 /\ Len(q) \in Nat /\ Len(r) \in Nat
    /\ k + Len(q) + 1 \in Nat
    /\ IsRun(R, k, q) /\ IsRun(R, k + Len(q) + 1, r)
    /\ R[k + Len(q) + 1] = Extractor!Read(R[k + Len(q)], a)
    /\ R[k + Len(q) + 1 + Len(r) + 1] = Extractor!Read(R[k + Len(q) + 1 + Len(r)], b)

\* A text with another one in brackets behind it.
LEMMA RunEnclosed ==
    ASSUME NEW q \in Seq(Extractor!Tokens), NEW r \in Seq(Extractor!Tokens),
           NEW a \in Extractor!Tokens, NEW b \in Extractor!Tokens,
           NEW k \in Nat, NEW R, NEW e, e = q \o <<a>> \o r \o <<b>>, IsRun(R, k, e)
    PROVE  Through(R, k, q, a, r, b, e)
<1> DEFINE qa == q \o <<a>>
           qar == qa \o r
<1>1. <<a>> \in Seq(Extractor!Tokens) /\ <<b>> \in Seq(Extractor!Tokens)
      /\ Len(<<a>>) = 1 /\ Len(<<b>>) = 1
    OBVIOUS
<1>2. qa \in Seq(Extractor!Tokens) /\ qar \in Seq(Extractor!Tokens)
    BY <1>1
<1> HIDE DEF qar
<1>3. /\ IsRun(R, k, qar) /\ IsRun(R, k + Len(qar), <<b>>)
      /\ Len(qar \o <<b>>) = Len(qar) + 1 /\ Len(qar) \in Nat
    BY <1>1, <1>2, RunParts DEF qar
<1> HIDE DEF qa
<1>4. /\ IsRun(R, k, qa) /\ IsRun(R, k + Len(qa), r)
      /\ Len(qar) = Len(qa) + Len(r) /\ Len(qa) \in Nat /\ Len(r) \in Nat
    BY <1>2, <1>3, RunParts DEF qar
<1>5. /\ IsRun(R, k, q) /\ IsRun(R, k + Len(q), <<a>>)
      /\ Len(qa) = Len(q) + 1 /\ Len(q) \in Nat
    BY <1>1, <1>4, RunParts DEF qa
<1>6. k + Len(q) \in Nat /\ k + Len(qar) \in Nat
    BY <1>3, <1>5
<1>7. R[k + Len(q) + 1] = Extractor!Read(R[k + Len(q)], a)
    BY <1>5, <1>6, RunToken
<1>8. R[k + Len(qar) + 1] = Extractor!Read(R[k + Len(qar)], b)
    BY <1>3, <1>6, RunToken
<1>9. /\ k + Len(qar) = k + Len(q) + 1 + Len(r)
      /\ k + Len(qa) = k + Len(q) + 1 /\ k + Len(q) + 1 \in Nat
    BY <1>4, <1>5
<1>10. Len(qar \o <<b>>) = Len(q) + Len(r) + 2
    BY <1>3, <1>4, <1>5
<1> QED BY <1>4, <1>5, <1>7, <1>8, <1>9, <1>10 DEF qar, qa, Through

\* The depths from d on.
Deep(d) == {e \in Int : e >= d}

\* A depth that a text and the token behind it do not fall below.
LEMMA DepthBehind ==
    ASSUME NEW R, NEW k \in Nat, NEW n \in Nat, NEW d \in Int, NEW s, s.depth \in Deep(d),
           \A i \in 0..n : R[k + i].depth \in Deep(d),
           R[k + n + 1] = s
    PROVE  R[k + (n + 1)] = s /\ \A i \in 0..(n + 1) : R[k + i].depth \in Deep(d)
<1>1. R[k + (n + 1)] = s
    OBVIOUS
<1>2. ASSUME NEW i \in 0..(n + 1) PROVE R[k + i].depth \in Deep(d)
    <2>1. CASE i \in 0..n
        BY <2>1
    <2>2. CASE i = n + 1
        BY <1>1, <2>2
    <2> QED BY <2>1, <2>2
<1> QED BY <1>1, <1>2

\* One that neither a text nor the one in brackets behind it falls below.
LEMMA DepthThrough ==
    ASSUME NEW R, NEW k \in Nat, NEW n \in Nat, NEW m \in Nat, NEW d \in Int,
           NEW s, s.depth \in Deep(d),
           \A i \in 0..n : R[k + i].depth \in Deep(d),
           \A i \in 0..m : R[k + n + 1 + i].depth \in Deep(d),
           R[k + n + 1 + m + 1] = s
    PROVE  R[k + (n + m + 2)] = s /\ \A i \in 0..(n + m + 2) : R[k + i].depth \in Deep(d)
<1>1. R[k + (n + m + 2)] = s
    OBVIOUS
<1>2. ASSUME NEW i \in 0..(n + m + 2) PROVE R[k + i].depth \in Deep(d)
    <2>1. CASE i \in 0..n
        BY <2>1
    <2>2. CASE i \in (n + 1)..(n + 1 + m)
        <3>1. i - n - 1 \in 0..m /\ k + n + 1 + (i - n - 1) = k + i
            BY <2>2
        <3> QED BY <3>1
    <2>3. CASE i = n + m + 2
        BY <1>1, <2>3
    <2> QED BY <2>1, <2>2, <2>3
<1> QED BY <1>1, <1>2

\* What may stand between the quotes of a string: the least set of texts that has
\* the empty one and, with any text, what comes of it by one more character that
\* is neither a quote nor a backslash, or by a backslash and any character.
StringRules(S) ==
    /\ <<>> \in S
    /\ \A s \in S, token \in Extractor!Tokens \ {"quote", "backslash"} : s \o <<token>> \in S
    /\ \A s \in S, token \in Extractor!Tokens : s \o <<"backslash">> \o <<token>> \in S

Strings == {s \in Seq(Extractor!Tokens) :
              \A S \in SUBSET Seq(Extractor!Tokens) : StringRules(S) => s \in S}

\* What may stand between two braces: in the same way any characters but braces
\* and quotes, strings in quotes, and such texts in braces.
ContentRules(C) ==
    /\ <<>> \in C
    /\ \A c \in C, token \in Extractor!Tokens \ {"quote", "{", "}"} : c \o <<token>> \in C
    /\ \A c \in C, s \in Strings : c \o InQuotes(s) \in C
    /\ \A c, d \in C : c \o InBraces(d) \in C

Contents == {c \in Seq(Extractor!Tokens) :
               \A C \in SUBSET Seq(Extractor!Tokens) : ContentRules(C) => c \in C}

\* An object as it is written in a page, with any nesting and any strings.
Written == {InBraces(c) : c \in Contents}

\* Texts behind which the scanner is still within the string that it was in, and
\* none of whose braces it has counted as closing one.
KeepsString(s) ==
    \A R : \A k \in Nat, d \in Int :
        IsRun(R, k, s) /\ R[k] = Extractor!Str(d) =>
            /\ R[k + Len(s)] = Extractor!Str(d)
            /\ \A i \in 0..Len(s) : R[k + i].depth \in Deep(d)

\* Texts behind which the scanner is where it was before, having closed every brace
\* that it has seen opened in them and no other.
KeepsDepth(c) ==
    \A R : \A k \in Nat, d \in Int :
        IsRun(R, k, c) /\ R[k] = Extractor!Code(d) =>
            /\ R[k + Len(c)] = Extractor!Code(d)
            /\ \A i \in 0..Len(c) : R[k + i].depth \in Deep(d)

\* The depths of the scanner's states.
LEMMA Depths ==
    ASSUME NEW d \in Int
    PROVE  /\ Extractor!Code(d).depth \in Deep(d) /\ Extractor!Str(d).depth \in Deep(d)
           /\ Extractor!Escape(d).depth \in Deep(d)
BY DEF Extractor!Code, Extractor!Str, Extractor!Escape, Deep

LEMMA Deeper == ASSUME NEW d \in Int PROVE Deep(d + 1) \subseteq Deep(d)
BY DEF Deep

\* Texts of one token, and longer ones.
LEMMA OneToken ==
    ASSUME NEW a \in Extractor!Tokens PROVE <<a>> \in Seq(Extractor!Tokens)
OBVIOUS

LEMMA TextsAppended ==
    ASSUME NEW q \in Seq(Extractor!Tokens), NEW a \in Extractor!Tokens
    PROVE  q \o <<a>> \in Seq(Extractor!Tokens)
OBVIOUS

LEMMA TextsEnclosed ==
    ASSUME NEW q \in Seq(Extractor!Tokens), NEW r \in Seq(Extractor!Tokens),
           NEW a \in Extractor!Tokens, NEW b \in Extractor!Tokens
    PROVE  q \o <<a>> \o r \o <<b>> \in Seq(Extractor!Tokens)
<1>1. q \o <<a>> \in Seq(Extractor!Tokens)
    OBVIOUS
<1>2. q \o <<a>> \o r \in Seq(Extractor!Tokens)
    <2> DEFINE p == q \o <<a>>
    <2> HIDE DEF p
    <2> QED BY <1>1 DEF p
<1> QED BY <1>2, TextsAppended, Zenon

\* A text between two others.
LEMMA TextsJoined ==
    ASSUME NEW p \in Seq(Extractor!Tokens), NEW q \in Seq(Extractor!Tokens),
           NEW r \in Seq(Extractor!Tokens)
    PROVE  p \o q \o r = p \o (q \o r) /\ p \o q \o r \in Seq(Extractor!Tokens)
<1>1. p \o q \in Seq(Extractor!Tokens) /\ q \o r \in Seq(Extractor!Tokens)
    OBVIOUS
<1>2. p \o q \o r = p \o (q \o r)
    OBVIOUS
<1> QED BY <1>1, <1>2

\* A text in brackets behind another.
LEMMA BracketsJoined ==
    ASSUME NEW q \in Seq(Extractor!Tokens), NEW r \in Seq(Extractor!Tokens),
           NEW a \in Extractor!Tokens, NEW b \in Extractor!Tokens
    PROVE  /\ q \o (<<a>> \o r \o <<b>>) = q \o <<a>> \o r \o <<b>>
           /\ <<a>> \o r \o <<b>> \in Seq(Extractor!Tokens)
           /\ q \o (<<a>> \o r \o <<b>>) \in Seq(Extractor!Tokens)
<1>1. <<a>> \in Seq(Extractor!Tokens) /\ <<b>> \in Seq(Extractor!Tokens)
    OBVIOUS
<1>2. <<a>> \o r \in Seq(Extractor!Tokens)
    BY <1>1, ConcatProperties, Zenon
<1>3. /\ q \o <<a>> \o r = q \o (<<a>> \o r)
      /\ q \o (<<a>> \o r) \o <<b>> = q \o (<<a>> \o r \o <<b>>)
      /\ <<a>> \o r \o <<b>> \in Seq(Extractor!Tokens)
    BY <1>1, <1>2, TextsJoined, ConcatProperties, ZenonT(30)
<1>4. q \o (<<a>> \o r \o <<b>>) \in Seq(Extractor!Tokens)
    BY <1>3, ConcatProperties, Zenon
<1> QED BY <1>3, <1>4, Zenon

\* An ordinary character in a string.
LEMMA StringOfCharacter ==
    ASSUME NEW q \in Seq(Extractor!Tokens), KeepsString(q),
           NEW token \in Extractor!Tokens, token \notin {"quote", "backslash"}
    PROVE  KeepsString(q \o <<token>>)
<1> SUFFICES ASSUME NEW R, NEW k \in Nat, NEW d \in Int,
                    IsRun(R, k, q \o <<token>>), R[k] = Extractor!Str(d)
             PROVE  /\ R[k + Len(q \o <<token>>)] = Extractor!Str(d)
                    /\ \A i \in 0..Len(q \o <<token>>) : R[k + i].depth \in Deep(d)
    BY Zenon DEF KeepsString
<1>1. PICK n : n = Len(q)
    OBVIOUS
<1>2. /\ n \in Nat /\ Len(q \o <<token>>) = n + 1
      /\ IsRun(R, k, q) /\ R[k + n + 1] = Extractor!Read(R[k + n], token)
    BY <1>1, RunAppended, Zenon
<1>3. R[k + n] = Extractor!Str(d) /\ \A i \in 0..n : R[k + i].depth \in Deep(d)
    BY <1>1, <1>2, Zenon DEF KeepsString
<1>4. Extractor!Read(Extractor!Str(d), token) = Extractor!Str(d)
    BY ReadStrings
<1>5. R[k + n + 1] = Extractor!Str(d)
    BY <1>2, <1>3, <1>4, Zenon
<1>6. R[k + (n + 1)] = Extractor!Str(d) /\ \A i \in 0..(n + 1) : R[k + i].depth \in Deep(d)
    BY <1>2, <1>3, <1>5, Depths, DepthBehind, Zenon
<1> QED BY <1>2, <1>6, Zenon

\* A backslash in a string, and the character behind it, whatever it is.
LEMMA StringOfEscape ==
    ASSUME NEW q \in Seq(Extractor!Tokens), KeepsString(q), NEW token \in Extractor!Tokens
    PROVE  KeepsString(q \o <<"backslash">> \o <<token>>)
<1> DEFINE p == q \o <<"backslash">>
<1> SUFFICES ASSUME NEW R, NEW k \in Nat, NEW d \in Int,
                    IsRun(R, k, p \o <<token>>), R[k] = Extractor!Str(d)
             PROVE  /\ R[k + Len(p \o <<token>>)] = Extractor!Str(d)
                    /\ \A i \in 0..Len(p \o <<token>>) : R[k + i].depth \in Deep(d)
    BY Zenon DEF KeepsString
<1>1. "backslash" \in Extractor!Tokens
    BY DEF Extractor!Tokens
<1>2. p \in Seq(Extractor!Tokens)
    BY <1>1
<1>3. PICK n : n = Len(q)
    OBVIOUS
<1>4. /\ Len(p \o <<token>>) = Len(p) + 1 /\ IsRun(R, k, p)
      /\ R[k + Len(p) + 1] = Extractor!Read(R[k + Len(p)], token)
    <2> HIDE DEF p
    <2> QED BY <1>2, RunAppended, Zenon
<1>5. /\ n \in Nat /\ Len(p) = n + 1
      /\ IsRun(R, k, q) /\ R[k + n + 1] = Extractor!Read(R[k + n], "backslash")
    BY <1>1, <1>3, <1>4, RunAppended, Zenon
<1> HIDE DEF p
<1>6. R[k + n] = Extractor!Str(d) /\ \A i \in 0..n : R[k + i].depth \in Deep(d)
    BY <1>3, <1>5, Zenon DEF KeepsString
<1>7. /\ Extractor!Read(Extractor!Str(d), "backslash") = Extractor!Escape(d)
      /\ Extractor!Read(Extractor!Escape(d), token) = Extractor!Str(d)
    BY ReadStrings
<1>8. R[k + n + 1] = Extractor!Escape(d)
    BY <1>5, <1>6, <1>7, Zenon
<1>9. R[k + (n + 1)] = Extractor!Escape(d) /\ \A i \in 0..(n + 1) : R[k + i].depth \in Deep(d)
    BY <1>5, <1>6, <1>8, Depths, DepthBehind, Zenon
<1>10. R[k + (n + 1) + 1] = Extractor!Str(d)
    BY <1>4, <1>5, <1>7, <1>9, Zenon
<1>11. n + 1 \in Nat
    BY <1>5
<1>12. /\ R[k + (n + 1 + 1)] = Extractor!Str(d)
       /\ \A i \in 0..(n + 1 + 1) : R[k + i].depth \in Deep(d)
    BY <1>9, <1>10, <1>11, Depths, DepthBehind, Zenon
<1> QED BY <1>4, <1>5, <1>12, Zenon

\* The scanner does not leave a string before its closing quote.
LEMMA StringsKept ==
    ASSUME NEW s \in Strings
    PROVE  s \in Seq(Extractor!Tokens) /\ KeepsString(s)
<1> DEFINE S == {q \in Seq(Extractor!Tokens) : KeepsString(q)}
<1>1. <<>> \in S
    BY Depths DEF KeepsString
<1>2. ASSUME NEW q \in S, NEW token \in Extractor!Tokens \ {"quote", "backslash"}
      PROVE  q \o <<token>> \in S
    <2>1. q \in Seq(Extractor!Tokens) /\ KeepsString(q)
        OBVIOUS
    <2>2. KeepsString(q \o <<token>>)
        BY <2>1, StringOfCharacter
    <2>3. q \o <<token>> \in Seq(Extractor!Tokens)
        BY <2>1, TextsAppended, Zenon
    <2> QED BY <2>2, <2>3
<1>3. ASSUME NEW q \in S, NEW token \in Extractor!Tokens
      PROVE  q \o <<"backslash">> \o <<token>> \in S
    <2>1. q \in Seq(Extractor!Tokens) /\ KeepsString(q) /\ "backslash" \in Extractor!Tokens
        BY DEF Extractor!Tokens
    <2>2. KeepsString(q \o <<"backslash">> \o <<token>>)
        BY <2>1, StringOfEscape, Zenon
    <2>3. q \o <<"backslash">> \o <<token>> \in Seq(Extractor!Tokens)
        BY <2>1, TextsAppended, Zenon
    <2> QED BY <2>2, <2>3, Zenon
<1>4. StringRules(S)
    <2> HIDE DEF S
    <2> QED BY <1>1, <1>2, <1>3, Zenon DEF StringRules
<1>5. S \in SUBSET Seq(Extractor!Tokens)
    OBVIOUS
<1>6. s \in Seq(Extractor!Tokens) /\ s \in S
    <2> HIDE DEF S
    <2> QED BY <1>4, <1>5, Zenon DEF Strings
<1> QED BY <1>6, Zenon

\* An ordinary character between two braces.
LEMMA ContentOfCharacter ==
    ASSUME NEW q \in Seq(Extractor!Tokens), KeepsDepth(q),
           NEW token \in Extractor!Tokens, token \notin {"quote", "{", "}"}
    PROVE  KeepsDepth(q \o <<token>>)
<1> SUFFICES ASSUME NEW R, NEW k \in Nat, NEW d \in Int,
                    IsRun(R, k, q \o <<token>>), R[k] = Extractor!Code(d)
             PROVE  /\ R[k + Len(q \o <<token>>)] = Extractor!Code(d)
                    /\ \A i \in 0..Len(q \o <<token>>) : R[k + i].depth \in Deep(d)
    BY Zenon DEF KeepsDepth
<1>1. PICK n : n = Len(q)
    OBVIOUS
<1>2. /\ n \in Nat /\ Len(q \o <<token>>) = n + 1
      /\ IsRun(R, k, q) /\ R[k + n + 1] = Extractor!Read(R[k + n], token)
    BY <1>1, RunAppended, Zenon
<1>3. R[k + n] = Extractor!Code(d) /\ \A i \in 0..n : R[k + i].depth \in Deep(d)
    BY <1>1, <1>2, Zenon DEF KeepsDepth
<1>4. Extractor!Read(Extractor!Code(d), token) = Extractor!Code(d)
    BY ReadCodes
<1>5. R[k + n + 1] = Extractor!Code(d)
    BY <1>2, <1>3, <1>4, Zenon
<1>6. R[k + (n + 1)] = Extractor!Code(d) /\ \A i \in 0..(n + 1) : R[k + i].depth \in Deep(d)
    BY <1>2, <1>3, <1>5, Depths, DepthBehind, Zenon
<1> QED BY <1>2, <1>6, Zenon

\* A string in its quotes between two braces.
LEMMA ContentOfString ==
    ASSUME NEW q \in Seq(Extractor!Tokens), KeepsDepth(q),
           NEW s \in Seq(Extractor!Tokens), KeepsString(s)
    PROVE  /\ KeepsDepth(q \o InQuotes(s))
           /\ q \o InQuotes(s) \in Seq(Extractor!Tokens)
<1> DEFINE e == q \o <<"quote">> \o s \o <<"quote">>
<1>1. "quote" \in Extractor!Tokens
    BY DEF Extractor!Tokens
<1>2. q \o InQuotes(s) = e /\ e \in Seq(Extractor!Tokens)
    BY <1>1, BracketsJoined, TextsEnclosed, Zenon DEF InQuotes
<1> SUFFICES KeepsDepth(e)
    BY <1>2, Zenon
<1> SUFFICES ASSUME NEW R, NEW k \in Nat, NEW d \in Int,
                    IsRun(R, k, e), R[k] = Extractor!Code(d)
             PROVE  /\ R[k + Len(e)] = Extractor!Code(d)
                    /\ \A i \in 0..Len(e) : R[k + i].depth \in Deep(d)
    BY Zenon DEF KeepsDepth
<1>3. PICK n : n = Len(q)
    OBVIOUS
<1>4. PICK m : m = Len(s)
    OBVIOUS
<1>5. Through(R, k, q, "quote", s, "quote", e)
    BY <1>1, RunEnclosed, Zenon
<1> HIDE DEF e
<1>6. /\ Len(e) = n + m + 2 /\ IsRun(R, k, q) /\ IsRun(R, k + n + 1, s)
      /\ n \in Nat /\ m \in Nat /\ k + n + 1 \in Nat
      /\ R[k + n + 1] = Extractor!Read(R[k + n], "quote")
      /\ R[k + n + 1 + m + 1] = Extractor!Read(R[k + n + 1 + m], "quote")
    BY <1>3, <1>4, <1>5, Zenon DEF Through
<1>7. R[k + n] = Extractor!Code(d) /\ \A i \in 0..n : R[k + i].depth \in Deep(d)
    BY <1>3, <1>6, Zenon DEF KeepsDepth
<1>8. /\ Extractor!Read(Extractor!Code(d), "quote") = Extractor!Str(d)
      /\ Extractor!Read(Extractor!Str(d), "quote") = Extractor!Code(d)
    BY ReadCodes, ReadStrings
<1>9. R[k + n + 1] = Extractor!Str(d)
    BY <1>6, <1>7, <1>8, Zenon
<1>10. /\ R[k + n + 1 + m] = Extractor!Str(d)
      /\ \A i \in 0..m : R[k + n + 1 + i].depth \in Deep(d)
    BY <1>4, <1>6, <1>9, Zenon DEF KeepsString
<1>11. R[k + n + 1 + m + 1] = Extractor!Code(d)
    BY <1>6, <1>8, <1>10, Zenon
<1>12. /\ R[k + (n + m + 2)] = Extractor!Code(d)
       /\ \A i \in 0..(n + m + 2) : R[k + i].depth \in Deep(d)
    BY <1>6, <1>7, <1>10, <1>11, Depths, DepthThrough, Zenon
<1> QED BY <1>6, <1>12, Zenon

\* A text in braces between two braces.
LEMMA ContentOfObject ==
    ASSUME NEW q \in Seq(Extractor!Tokens), KeepsDepth(q),
           NEW r \in Seq(Extractor!Tokens), KeepsDepth(r)
    PROVE  /\ KeepsDepth(q \o InBraces(r))
           /\ q \o InBraces(r) \in Seq(Extractor!Tokens)
<1> DEFINE e == q \o <<"{">> \o r \o <<"}">>
<1>1. "{" \in Extractor!Tokens /\ "}" \in Extractor!Tokens
    BY DEF Extractor!Tokens
<1>2. q \o InBraces(r) = e /\ e \in Seq(Extractor!Tokens)
    BY <1>1, BracketsJoined, TextsEnclosed, Zenon DEF InBraces
<1> SUFFICES KeepsDepth(e)
    BY <1>2, Zenon
<1> SUFFICES ASSUME NEW R, NEW k \in Nat, NEW d \in Int,
                    IsRun(R, k, e), R[k] = Extractor!Code(d)
             PROVE  /\ R[k + Len(e)] = Extractor!Code(d)
                    /\ \A i \in 0..Len(e) : R[k + i].depth \in Deep(d)
    BY Zenon DEF KeepsDepth
<1>3. PICK n : n = Len(q)
    OBVIOUS
<1>4. PICK m : m = Len(r)
    OBVIOUS
<1>5. Through(R, k, q, "{", r, "}", e)
    BY <1>1, RunEnclosed, Zenon
<1> HIDE DEF e
<1>6. /\ Len(e) = n + m + 2 /\ IsRun(R, k, q) /\ IsRun(R, k + n + 1, r)
      /\ n \in Nat /\ m \in Nat /\ k + n + 1 \in Nat
      /\ R[k + n + 1] = Extractor!Read(R[k + n], "{")
      /\ R[k + n + 1 + m + 1] = Extractor!Read(R[k + n + 1 + m], "}")
    BY <1>3, <1>4, <1>5, Zenon DEF Through
<1>7. R[k + n] = Extractor!Code(d) /\ \A i \in 0..n : R[k + i].depth \in Deep(d)
    BY <1>3, <1>6, Zenon DEF KeepsDepth
<1>8. d + 1 \in Int
    OBVIOUS
<1>9. /\ Extractor!Read(Extractor!Code(d), "{") = Extractor!Code(d + 1)
      /\ Extractor!Read(Extractor!Code(d + 1), "}") = Extractor!Code(d)
    BY ReadBraces, Zenon
<1>10. R[k + n + 1] = Extractor!Code(d + 1)
    BY <1>6, <1>7, <1>9, Zenon
<1>11. /\ R[k + n + 1 + m] = Extractor!Code(d + 1)
       /\ \A i \in 0..m : R[k + n + 1 + i].depth \in Deep(d + 1)
    BY <1>4, <1>6, <1>8, <1>10, Zenon DEF KeepsDepth
<1>12. R[k + n + 1 + m + 1] = Extractor!Code(d)
    BY <1>6, <1>9, <1>11, Zenon
<1>13. \A i \in 0..m : R[k + n + 1 + i].depth \in Deep(d)
    BY <1>11, Deeper, Zenon
<1>14. /\ R[k + (n + m + 2)] = Extractor!Code(d)
       /\ \A i \in 0..(n + m + 2) : R[k + i].depth \in Deep(d)
    BY <1>6, <1>7, <1>12, <1>13, Depths, DepthThrough, Zenon
<1> QED BY <1>6, <1>14, Zenon

\* The scanner goes through the contents of an object and comes back to its depth.
LEMMA ContentsKept ==
    ASSUME NEW c \in Contents
    PROVE  c \in Seq(Extractor!Tokens) /\ KeepsDepth(c)
<1> DEFINE C == {q \in Seq(Extractor!Tokens) : KeepsDepth(q)}
<1>1. <<>> \in C
    BY Depths DEF KeepsDepth
<1>2. ASSUME NEW q \in C, NEW token \in Extractor!Tokens \ {"quote", "{", "}"}
      PROVE  q \o <<token>> \in C
    <2>1. q \in Seq(Extractor!Tokens) /\ KeepsDepth(q)
        OBVIOUS
    <2>2. KeepsDepth(q \o <<token>>)
        BY <2>1, ContentOfCharacter
    <2>3. q \o <<token>> \in Seq(Extractor!Tokens)
        BY <2>1, TextsAppended, Zenon
    <2> QED BY <2>2, <2>3
<1>3. ASSUME NEW q \in C, NEW s \in Strings
      PROVE  q \o InQuotes(s) \in C
    <2>1. /\ q \in Seq(Extractor!Tokens) /\ KeepsDepth(q)
          /\ s \in Seq(Extractor!Tokens) /\ KeepsString(s)
        BY StringsKept
    <2> QED BY <2>1, ContentOfString, Zenon
<1>4. ASSUME NEW q \in C, NEW r \in C
      PROVE  q \o InBraces(r) \in C
    <2>1. /\ q \in Seq(Extractor!Tokens) /\ KeepsDepth(q)
          /\ r \in Seq(Extractor!Tokens) /\ KeepsDepth(r)
        OBVIOUS
    <2> QED BY <2>1, ContentOfObject, Zenon
<1>5. ContentRules(C)
    <2> HIDE DEF C
    <2> QED BY <1>1, <1>2, <1>3, <1>4, Zenon DEF ContentRules
<1>6. C \in SUBSET Seq(Extractor!Tokens)
    OBVIOUS
<1>7. c \in Seq(Extractor!Tokens) /\ c \in C
    <2> HIDE DEF C
    <2> QED BY <1>5, <1>6, Zenon DEF Contents
<1> QED BY <1>7, Zenon

\* An object as it is written, behind nothing.
LEMMA FirstToken ==
    ASSUME NEW r \in Seq(Extractor!Tokens),
           NEW a \in Extractor!Tokens, NEW b \in Extractor!Tokens
    PROVE  (<<>> \o <<a>> \o r \o <<b>>)[1] = a
<1>1. <<>> \o <<a>> = <<a>> /\ <<a>> \in Seq(Extractor!Tokens)
    OBVIOUS
<1>2. PICK p : p = <<a>> \o r
    OBVIOUS
<1>3. p \in Seq(Extractor!Tokens) /\ Len(p) >= 1 /\ p[1] = a
    BY <1>2
<1>4. (p \o <<b>>)[1] = a
    BY <1>3
<1> QED BY <1>1, <1>2, <1>4, Zenon

LEMMA Brackets ==
    /\ <<>> \in Seq(Extractor!Tokens) /\ Len(<<>>) = 0
    /\ "{" \in Extractor!Tokens /\ "}" \in Extractor!Tokens
BY DEF Extractor!Tokens

LEMMA ObjectsWritten ==
    ASSUME NEW o \in Written
    PROVE  \E c \in Contents : o = <<>> \o <<"{">> \o c \o <<"}">>
<1>1. PICK c \in Contents : o = <<"{">> \o c \o <<"}">>
    BY Zenon DEF Written, InBraces
<1>2. <<>> \o <<"{">> = <<"{">>
    OBVIOUS
<1> QED BY <1>1, <1>2, Zenon

\* The scanner's states along an object: no brace is open behind the last token,
\* and before it one is.
LEMMA ObjectScanned ==
    ASSUME NEW o \in Written, NEW S, IsRun(S, 0, o), S[0] = Extractor!Code(0)
    PROVE  /\ o \in Seq(Extractor!Tokens) /\ Len(o) \in Nat /\ Len(o) >= 2 /\ Len(o) >= 1
           /\ o[1] = "{"
           /\ S[Len(o)].depth = 0
           /\ \A i \in 1..(Len(o) - 1) : S[i].depth # 0
<1>1. PICK c \in Contents : o = <<>> \o <<"{">> \o c \o <<"}">>
    BY ObjectsWritten
<1>2. /\ <<>> \in Seq(Extractor!Tokens) /\ Len(<<>>) = 0
      /\ "{" \in Extractor!Tokens /\ "}" \in Extractor!Tokens
    BY Brackets, Zenon
<1>3. c \in Seq(Extractor!Tokens) /\ KeepsDepth(c)
    BY ContentsKept, Zenon
<1>4. o \in Seq(Extractor!Tokens)
    BY <1>1, <1>2, <1>3, TextsEnclosed, Zenon
<1>5. Through(S, 0, <<>>, "{", c, "}", o)
    BY <1>1, <1>2, <1>3, RunEnclosed, Zenon
<1>6. PICK m : m = Len(c)
    OBVIOUS
<1>7. /\ Len(o) = 0 + m + 2 /\ m \in Nat /\ IsRun(S, 0 + 0 + 1, c)
      /\ S[0 + 0 + 1] = Extractor!Read(S[0 + 0], "{")
      /\ S[0 + 0 + 1 + m + 1] = Extractor!Read(S[0 + 0 + 1 + m], "}")
    BY <1>2, <1>5, <1>6, Zenon DEF Through
<1>8. o[1] = "{"
    BY <1>1, <1>2, <1>3, FirstToken, Zenon
<1>9. m \in Nat
    BY <1>7, Zenon
<1>10. /\ 0 + m + 2 = m + 2 /\ 0 + 0 + 1 = 1 /\ 0 + 0 = 0 /\ 1 + m + 1 = m + 2
    BY <1>9
<1>11. /\ Len(o) = m + 2 /\ IsRun(S, 1, c)
      /\ S[1] = Extractor!Read(S[0], "{")
      /\ S[m + 2] = Extractor!Read(S[1 + m], "}")
    BY <1>7, <1>10, Zenon
<1>12. 0 \in Int /\ 1 \in Int /\ 1 \in Nat /\ 0 + 1 = 1
    OBVIOUS
<1>13. /\ Extractor!Read(Extractor!Code(0), "{") = Extractor!Code(1)
       /\ Extractor!Read(Extractor!Code(1), "}") = Extractor!Code(0)
    BY <1>12, ReadBraces, Zenon
<1>14. S[1] = Extractor!Code(1)
    BY <1>11, <1>13, Zenon
<1>15. S[1 + m] = Extractor!Code(1) /\ \A i \in 0..m : S[1 + i].depth \in Deep(1)
    BY <1>3, <1>6, <1>11, <1>12, <1>14, Zenon DEF KeepsDepth
<1>16. S[m + 2] = Extractor!Code(0)
    BY <1>11, <1>13, <1>15, Zenon
<1>17. S[m + 2].depth = 0
    BY <1>16 DEF Extractor!Code
<1>18. ASSUME NEW i \in 1..(m + 1) PROVE S[i].depth # 0
    <2>1. i - 1 \in 0..m /\ 1 + (i - 1) = i
        BY <1>9
    <2> QED BY <1>15, <2>1 DEF Deep
<1>19. m \in Nat /\ Len(o) = m + 2
    BY <1>7, <1>11, Zenon
<1>20. Len(o) \in Nat /\ Len(o) >= 2 /\ Len(o) >= 1 /\ Len(o) - 1 = m + 1
    BY <1>19
<1> QED BY <1>4, <1>8, <1>17, <1>18, <1>19, <1>20, Zenon

LEMMA WrittenTokens ==
    ASSUME NEW o \in Written
    PROVE  /\ o \in Seq(Extractor!Tokens) /\ Len(o) >= 1 /\ o[1] = "{"
<1>1. PICK c \in Contents : o = <<>> \o <<"{">> \o c \o <<"}">>
    BY ObjectsWritten
<1>2. o \in Seq(Extractor!Tokens)
    BY <1>1, Brackets, ContentsKept, TextsEnclosed, Zenon
<1>3. PICK S : S = Extractor!Scan(o)
    OBVIOUS
<1>4. IsRun(S, 0, o) /\ S[0] = Extractor!Code(0)
    BY <1>2, <1>3, ScanRuns, Zenon
<1>5. Len(o) >= 1 /\ o[1] = "{"
    BY <1>4, ObjectScanned, Zenon
<1> QED BY <1>2, <1>5, Zenon

\* The end of a text.
LEMMA TextEnds ==
    ASSUME NEW p \in Seq(Extractor!Tokens), NEW q \in Seq(Extractor!Tokens)
    PROVE  /\ SubSeq(p \o q, Len(p) + 1, Len(p \o q)) = q
           /\ SubSeq(p \o q, 1, Len(p)) = p
OBVIOUS

\* The smallest element of a set of positions.
LEMMA MinFound ==
    ASSUME NEW S, NEW n \in S, \A i \in S : i \in Int /\ n <= i
    PROVE  Extractor!Min(S) = n
<1>1. Extractor!Min(S) \in S /\ \A i \in S : Extractor!Min(S) <= i
    BY DEF Extractor!Min
<1>2. Extractor!Min(S) <= n /\ n <= Extractor!Min(S)
    BY <1>1
<1>3. Extractor!Min(S) \in Int /\ n \in Int
    BY <1>1
<1> QED BY <1>2, <1>3

\* The scanner cuts out an object as it is written, wherever it stands.
LEMMA CutOut ==
    ASSUME NEW before \in Seq(Extractor!Tokens), NEW after \in Seq(Extractor!Tokens),
           NEW o \in Written, MaxLength \in Nat, Len(o) <= MaxLength
    PROVE  Extractor!BalancedObject(before \o (o \o after), Len(before) + 1) = o
<1> DEFINE rest == o \o after
           text == before \o rest
           S == Extractor!Scan(rest)
           n == Len(o)
           closing == {i \in 1..Len(rest) : S[i].depth = 0}
<1>1. o \in Seq(Extractor!Tokens)
    <2>1. PICK c \in Contents : o = <<>> \o <<"{">> \o c \o <<"}">>
        BY ObjectsWritten
    <2> QED BY <2>1, Brackets, ContentsKept, TextsEnclosed, Zenon
<1>2. rest \in Seq(Extractor!Tokens)
    BY <1>1
<1>3. S[0] = Extractor!Code(0) /\ IsRun(S, 0, rest)
    BY <1>2, ScanRuns, Zenon
<1>4. 0 \in Nat
    OBVIOUS
<1>5. IsRun(S, 0, o) /\ Len(rest) = n + Len(after) /\ n \in Nat /\ Len(after) \in Nat
    BY <1>1, <1>3, <1>4, RunParts, Zenon
<1>6. n >= 2 /\ S[n].depth = 0 /\ \A i \in 1..(n - 1) : S[i].depth # 0
    BY <1>3, <1>5, ObjectScanned, Zenon
<1>7. SubSeq(text, Len(before) + 1, Len(text)) = rest
    <2> HIDE DEF rest
    <2> QED BY <1>2, TextEnds, Zenon
<1>8. SubSeq(rest, 1, n) = o
    BY <1>1, TextEnds, Zenon
<1> HIDE DEF S, rest, n
<1>9. n \in closing /\ \A i \in closing : i \in Int /\ n <= i
    BY <1>5, <1>6
<1>10. Extractor!Min(closing) = n
    <2> HIDE DEF closing
    <2> QED BY <1>9, MinFound, Zenon
<1>11. ~(closing = {} \/ Extractor!Min(closing) - 1 > MaxLength)
    <2>1. n - 1 <= MaxLength
        BY <1>5 DEF n
    <2> QED BY <1>5, <1>9, <1>10, <2>1
<1>12. Extractor!BalancedObject(text, Len(before) + 1) =
         IF closing = {} \/ Extractor!Min(closing) - 1 > MaxLength THEN None
         ELSE SubSeq(rest, 1, Extractor!Min(closing))
    BY <1>7, Zenon DEF Extractor!BalancedObject, S
<1>13. Extractor!BalancedObject(text, Len(before) + 1) = o
    BY <1>8, <1>10, <1>11, <1>12, Zenon
<1> QED BY <1>13, Zenon DEF rest

\* The first element of a set of positions that has none up to n.
LEMMA FirstPosition ==
    ASSUME NEW n \in Nat, NEW l \in Nat, NEW S, \A i \in S : i \in 1..l,
           n + 1 \in S, \A i \in 1..n : i \notin S
    PROVE  Extractor!Min(S) = n + 1
<1>1. \A i \in S : i \in Int /\ n + 1 <= i
    OBVIOUS
<1> QED BY <1>1, MinFound

LEMMA Successors ==
    ASSUME NEW n \in Nat, NEW l \in Nat, n + 2 <= l
    PROVE  n + 1 + 1 = n + 2 /\ n + 1 \in 1..l /\ n + 2 \in (n + 1)..l
           /\ \A i \in (n + 1)..l : i # n + 1 => i \in Int /\ n + 2 <= i
OBVIOUS

LEMMA WithinWindow ==
    ASSUME NEW n \in Nat, Window \in Nat, Window > 1 PROVE n + 2 < n + 1 + Window
OBVIOUS

\* The brace directly behind a marker is the one that the object begins with.
LEMMA FirstBrace ==
    ASSUME NEW text, NEW n \in Nat, NEW l \in Nat, Len(text) = l, n + 2 <= l,
           Window \in Nat, Window > 1, text[n + 1] # "{", text[n + 2] = "{"
    PROVE  /\ Extractor!Braces(text, n + 1) # {}
           /\ Extractor!Min(Extractor!Braces(text, n + 1)) = n + 2
<1> DEFINE B == Extractor!Braces(text, n + 1)
<1>1. n + 2 \in B
    <2>1. n + 2 \in (n + 1)..l /\ n + 2 < n + 1 + Window
        BY Successors, WithinWindow, Zenon
    <2> QED BY <2>1, Zenon DEF Extractor!Braces
<1>2. ASSUME NEW i \in B PROVE i \in Int /\ n + 2 <= i
    <2>1. i \in (n + 1)..l /\ text[i] = "{"
        BY Zenon DEF Extractor!Braces
    <2>2. i # n + 1
        BY <2>1, Zenon
    <2> QED BY <2>1, <2>2, Successors, Zenon
<1> HIDE DEF B
<1>3. Extractor!Min(B) = n + 2
    BY <1>1, <1>2, MinFound, Zenon
<1> QED BY <1>1, <1>3, Zenon DEF B

\* A text that begins with n tokens of p and the token a.
Begins(text, p, n, a) ==
    /\ n = Len(p) /\ n \in Nat /\ Len(text) \in Nat
    /\ \A i \in 1..n : text[i] = p[i]
    /\ text[n + 1] = a

LEMMA BeginsAppended ==
    ASSUME NEW p \in Seq(Extractor!Tokens), NEW a \in Extractor!Tokens
    PROVE  /\ Begins(p \o <<a>>, p, Len(p), a)
           /\ p \o <<a>> \in Seq(Extractor!Tokens) /\ Len(p \o <<a>>) = Len(p) + 1
BY DEF Begins

LEMMA BeginsSame ==
    ASSUME NEW q \in Seq(Extractor!Tokens), NEW r \in Seq(Extractor!Tokens), Len(q) >= 1
    PROVE  /\ q \o r \in Seq(Extractor!Tokens) /\ Len(q \o r) \in Nat
           /\ Len(q \o r) >= 1 /\ (q \o r)[1] = q[1]
OBVIOUS

\* One that begins with the n + 1 tokens of e, behind which f begins.
Further(text, e, f, n) ==
    /\ Len(text) \in Nat /\ n + 2 <= Len(text)
    /\ \A i \in 1..(n + 1) : text[i] = e[i]
    /\ text[n + 2] = f[1]

LEMMA BeginsFurther ==
    ASSUME NEW e \in Seq(Extractor!Tokens), NEW f \in Seq(Extractor!Tokens), Len(f) >= 1,
           NEW n \in Nat, Len(e) = n + 1
    PROVE  Further(e \o f, e, f, n)
BY DEF Further

LEMMA BeginsLonger ==
    ASSUME NEW e, NEW p, NEW n \in Nat, NEW a, Begins(e, p, n, a),
           NEW text, Len(text) \in Nat, \A i \in 1..(n + 1) : text[i] = e[i]
    PROVE  Begins(text, p, n, a)
<1>1. 1..n \subseteq 1..(n + 1) /\ n + 1 \in 1..(n + 1)
    OBVIOUS
<1> QED BY <1>1, Zenon DEF Begins

\* A text p, the token a, and a text q in front of another one.
Behind(text, p, a, q, r) ==
    /\ Begins(text, p, Len(p), a) /\ Len(p) + 2 <= Len(text)
    /\ text[Len(p) + 2] = q[1] /\ Len(p \o <<a>>) = Len(p) + 1
    /\ text = (p \o <<a>>) \o (q \o r)

LEMMA TokensFollow ==
    ASSUME NEW p \in Seq(Extractor!Tokens), NEW a \in Extractor!Tokens,
           NEW q \in Seq(Extractor!Tokens), NEW r \in Seq(Extractor!Tokens),
           Len(q) >= 1, NEW text, text = p \o <<a>> \o q \o r
    PROVE  Behind(text, p, a, q, r)
<1>1. PICK e : e = p \o <<a>>
    OBVIOUS
<1>2. PICK n : n = Len(p)
    OBVIOUS
<1>3. PICK f : f = q \o r
    OBVIOUS
<1>4. e \in Seq(Extractor!Tokens) /\ Len(e) = n + 1 /\ Begins(e, p, n, a)
    BY <1>1, <1>2, BeginsAppended, Zenon
<1>5. f \in Seq(Extractor!Tokens) /\ Len(f) >= 1 /\ f[1] = q[1]
    BY <1>3, BeginsSame, Zenon
<1>6. text = e \o f
    BY <1>1, <1>3, <1>4, TextsJoined, Zenon
<1>7. n \in Nat
    BY <1>4, Zenon DEF Begins
<1>8. Further(e \o f, e, f, n)
    BY <1>4, <1>5, <1>7, BeginsFurther, Zenon
<1>9. /\ Len(text) \in Nat /\ n + 2 <= Len(text)
      /\ \A i \in 1..(n + 1) : text[i] = e[i]
      /\ text[n + 2] = f[1]
    BY <1>6, <1>8, Zenon DEF Further
<1>10. Begins(text, p, n, a)
    BY <1>4, <1>7, <1>9, BeginsLonger, Zenon
<1> QED BY <1>1, <1>2, <1>3, <1>4, <1>5, <1>6, <1>9, <1>10, Zenon DEF Behind

\* The text begins with p and the marker, and the object is what the marker leads to.
Leads(text, p, marker, object) ==
    \E n, l \in Nat : /\ n = Len(p) /\ l = Len(text) /\ n + 1 \in 1..l
                      /\ \A i \in 1..n : text[i] = p[i]
                      /\ text[n + 1] = marker
                      /\ Extractor!Braces(text, n + 1) # {}
                      /\ Extractor!Candidate(text, n + 1) = object

\* A marker leads to the object directly behind it.
LEMMA MarkerLeads ==
    ASSUME Window \in Nat, Window > 1, MaxLength \in Nat,
           NEW p \in Seq(Extractor!Tokens), NEW ending \in Seq(Extractor!Tokens),
           NEW marker \in Extractor!Tokens, marker # "{",
           NEW object \in Written, Len(object) <= MaxLength,
           NEW text, text = p \o <<marker>> \o object \o ending
    PROVE  Leads(text, p, marker, object)
<1>1. PICK before : before = p \o <<marker>>
    OBVIOUS
<1>2. object \in Seq(Extractor!Tokens) /\ Len(object) >= 1 /\ object[1] = "{"
    BY WrittenTokens, Zenon
<1>3. Behind(text, p, marker, object, ending)
    BY <1>2, TokensFollow, Zenon
<1>4. text = before \o (object \o ending)
    BY <1>1, <1>3, Zenon DEF Behind
<1>5. PICK n, l \in Nat : /\ n = Len(p) /\ l = Len(text) /\ n + 2 <= l
                          /\ \A i \in 1..n : text[i] = p[i]
                          /\ text[n + 1] = marker /\ text[n + 2] = "{"
                          /\ Len(before) = n + 1
    BY <1>1, <1>2, <1>3, Zenon DEF Begins, Behind
<1>6. before \in Seq(Extractor!Tokens)
    BY <1>1, TextsAppended, Zenon
<1>7. /\ Extractor!Braces(text, n + 1) # {}
      /\ Extractor!Min(Extractor!Braces(text, n + 1)) = n + 2
    BY <1>5, FirstBrace, Zenon
<1>8. Extractor!BalancedObject(text, n + 1 + 1) = object
    BY <1>4, <1>5, <1>6, CutOut, Zenon
<1>9. n + 1 + 1 = n + 2 /\ n + 1 \in 1..l
    BY <1>5, Successors, Zenon
<1>10. Extractor!Candidate(text, n + 1) = object
    BY <1>7, <1>8, <1>9, Zenon DEF Extractor!Candidate
<1> QED BY <1>5, <1>7, <1>9, <1>10, Zenon DEF Leads

\* No occurrence of the marker in the opening of a text leads to an object.
LeadsNowhere(text, opening, objects) ==
    \A at \in 1..Len(opening) :
        opening[at] = "pageData" => Extractor!Candidate(text, at) \notin objects

\* In any text the object behind the marker is what the extractor finds, unless an
\* earlier occurrence of the marker leads to another one (extractor.py:19-30).
THEOREM ObjectFound ==
    ASSUME Window \in Nat, Window > 1, MaxLength \in Nat,
           NEW opening \in Seq(Extractor!Tokens), NEW ending \in Seq(Extractor!Tokens),
           NEW objects, NEW object \in Written, object \in objects, Len(object) <= MaxLength,
           NEW text, text = opening \o <<"pageData">> \o object \o ending,
           LeadsNowhere(text, opening, objects)
    PROVE  Extractor!Extract(text, objects) = object
<1> DEFINE found(m) == Extractor!Found(text, Extractor!Markers[m], objects)
           ms == {m \in DOMAIN Extractor!Markers : found(m) # {}}
<1>1. "pageData" \in Extractor!Tokens /\ "pageData" # "{"
    BY DEF Extractor!Tokens
<1>2. Leads(text, opening, "pageData", object)
    BY <1>1, MarkerLeads, Zenon
<1>3. PICK n, l \in Nat : /\ n = Len(opening) /\ l = Len(text) /\ n + 1 \in 1..l
                          /\ \A i \in 1..n : text[i] = opening[i]
                          /\ text[n + 1] = "pageData"
                          /\ Extractor!Braces(text, n + 1) # {}
                          /\ Extractor!Candidate(text, n + 1) = object
    BY <1>2, Zenon DEF Leads
<1>4. Extractor!Markers[1] = "pageData" /\ DOMAIN Extractor!Markers = {1, 2}
    BY DEF Extractor!Markers
<1>5. n + 1 \in found(1)
    BY <1>3, <1>4, Zenon DEF Extractor!Found
<1>6. \A i \in found(1) : i \in 1..l
    BY <1>3, Zenon DEF Extractor!Found
<1>7. ASSUME NEW i \in 1..n PROVE i \notin found(1)
    BY <1>3, <1>4, Zenon DEF Extractor!Found, LeadsNowhere
<1>8. Extractor!Min(found(1)) = n + 1
    <2> HIDE DEF found
    <2> QED BY <1>5, <1>6, <1>7, FirstPosition, Zenon
<1>9. Extractor!Min(ms) = 1 /\ ms # {}
    <2>1. 1 \in ms /\ ms \subseteq {1, 2}
        <3> HIDE DEF found
        <3> QED BY <1>4, <1>5
    <2> HIDE DEF ms
    <2>2. \A i \in ms : i \in Int /\ 1 <= i
        BY <2>1
    <2> QED BY <2>1, <2>2, MinFound, Zenon
<1>10. Extractor!Extract(text, objects) =
         IF ms = {} THEN None
         ELSE Extractor!Candidate(text, Extractor!Min(found(Extractor!Min(ms))))
    BY Zenon DEF Extractor!Extract
<1> HIDE DEF ms
<1> QED BY <1>3, <1>8, <1>9, <1>10, Zenon

\* What may stand in a string is closed under the rules for it.
LEMMA StringsClosed ==
    /\ <<>> \in Strings
    /\ \A s \in Strings, token \in Extractor!Tokens \ {"quote", "backslash"} :
         s \o <<token>> \in Strings
    /\ \A s \in Strings, token \in Extractor!Tokens :
         s \o <<"backslash">> \o <<token>> \in Strings
<1>1. <<>> \in Seq(Extractor!Tokens)
    OBVIOUS
<1>2. <<>> \in Strings
    BY <1>1, Zenon DEF Strings, StringRules
<1>3. ASSUME NEW s \in Strings, NEW token \in Extractor!Tokens \ {"quote", "backslash"}
      PROVE  s \o <<token>> \in Strings
    <2>1. s \in Seq(Extractor!Tokens) /\ token \in Extractor!Tokens
        BY Zenon DEF Strings
    <2>2. s \o <<token>> \in Seq(Extractor!Tokens)
        BY <2>1, TextsAppended, Zenon
    <2>3. ASSUME NEW S \in SUBSET Seq(Extractor!Tokens), StringRules(S)
          PROVE  s \o <<token>> \in S
        <3>1. s \in S
            BY <2>3, Zenon DEF Strings
        <3> QED BY <2>3, <3>1, Zenon DEF StringRules
    <2> QED BY <2>2, <2>3, Zenon DEF Strings
<1>4. ASSUME NEW s \in Strings, NEW token \in Extractor!Tokens
      PROVE  s \o <<"backslash">> \o <<token>> \in Strings
    <2>1. s \in Seq(Extractor!Tokens) /\ "backslash" \in Extractor!Tokens
        BY Zenon DEF Strings, Extractor!Tokens
    <2>2. s \o <<"backslash">> \o <<token>> \in Seq(Extractor!Tokens)
        BY <2>1, TextsAppended, Zenon
    <2>3. ASSUME NEW S \in SUBSET Seq(Extractor!Tokens), StringRules(S)
          PROVE  s \o <<"backslash">> \o <<token>> \in S
        <3>1. s \in S
            BY <2>3, Zenon DEF Strings
        <3> QED BY <2>3, <3>1, Zenon DEF StringRules
    <2> QED BY <2>2, <2>3, Zenon DEF Strings
<1> QED BY <1>2, <1>3, <1>4, Zenon

LEMMA ContentsClosed ==
    /\ <<>> \in Contents
    /\ \A c \in Contents, token \in Extractor!Tokens \ {"quote", "{", "}"} :
         c \o <<token>> \in Contents
    /\ \A c \in Contents, s \in Strings : c \o InQuotes(s) \in Contents
    /\ \A c, d \in Contents : c \o InBraces(d) \in Contents
<1>1. <<>> \in Seq(Extractor!Tokens)
    OBVIOUS
<1>2. <<>> \in Contents
    BY <1>1, Zenon DEF Contents, ContentRules
<1>3. ASSUME NEW c \in Contents, NEW token \in Extractor!Tokens \ {"quote", "{", "}"}
      PROVE  c \o <<token>> \in Contents
    <2>1. c \in Seq(Extractor!Tokens) /\ token \in Extractor!Tokens
        BY Zenon DEF Contents
    <2>2. c \o <<token>> \in Seq(Extractor!Tokens)
        BY <2>1, TextsAppended, Zenon
    <2>3. ASSUME NEW C \in SUBSET Seq(Extractor!Tokens), ContentRules(C)
          PROVE  c \o <<token>> \in C
        <3>1. c \in C
            BY <2>3, Zenon DEF Contents
        <3> QED BY <2>3, <3>1, Zenon DEF ContentRules
    <2> QED BY <2>2, <2>3, Zenon DEF Contents
<1>4. ASSUME NEW c \in Contents, NEW s \in Strings
      PROVE  c \o InQuotes(s) \in Contents
    <2>1. c \in Seq(Extractor!Tokens) /\ s \in Seq(Extractor!Tokens)
          /\ "quote" \in Extractor!Tokens
        BY Zenon DEF Contents, Strings, Extractor!Tokens
    <2>2. c \o InQuotes(s) \in Seq(Extractor!Tokens)
        BY <2>1, BracketsJoined, Zenon DEF InQuotes
    <2>3. ASSUME NEW C \in SUBSET Seq(Extractor!Tokens), ContentRules(C)
          PROVE  c \o InQuotes(s) \in C
        <3>1. c \in C
            BY <2>3, Zenon DEF Contents
        <3> QED BY <2>3, <3>1, Zenon DEF ContentRules
    <2> QED BY <2>2, <2>3, Zenon DEF Contents
<1>5. ASSUME NEW c \in Contents, NEW d \in Contents
      PROVE  c \o InBraces(d) \in Contents
    <2>1. c \in Seq(Extractor!Tokens) /\ d \in Seq(Extractor!Tokens)
        BY Zenon DEF Contents
    <2>2. c \o InBraces(d) \in Seq(Extractor!Tokens)
        BY <2>1, Brackets, BracketsJoined, Zenon DEF InBraces
    <2>3. ASSUME NEW C \in SUBSET Seq(Extractor!Tokens), ContentRules(C)
          PROVE  c \o InBraces(d) \in C
        <3>1. c \in C /\ d \in C
            BY <2>3, Zenon DEF Contents
        <3> QED BY <2>3, <3>1, Zenon DEF ContentRules
    <2> QED BY <2>2, <2>3, Zenon DEF Contents
<1> QED BY <1>2, <1>3, <1>4, <1>5, Zenon

\* The strings of the pages that the run asks about are strings.
LEMMA SomeStringsAllowed == SomeStrings \subseteq Strings
<1>1. /\ {"other", "{", "}"} \subseteq Extractor!Tokens \ {"quote", "backslash"}
      /\ "backslash" \in Extractor!Tokens /\ "quote" \in Extractor!Tokens
    BY DEF Extractor!Tokens
<1>2. ASSUME NEW p \in Strings, NEW q \in Pieces PROVE p \o q \in Strings
    <2>1. p \in Seq(Extractor!Tokens)
        BY Zenon DEF Strings
    <2>2. CASE q = <<>>
        BY <2>1, <2>2, ConcatEmptySeq, Zenon
    <2>3. ASSUME NEW a \in {"other", "{", "}"}, q = <<a>> PROVE p \o q \in Strings
        BY <1>1, <2>3, StringsClosed, Zenon
    <2>4. ASSUME NEW a \in {"backslash", "quote"}, q = <<"backslash">> \o <<a>>
          PROVE  p \o q \in Strings
        <3>1. <<"backslash">> \in Seq(Extractor!Tokens) /\ <<a>> \in Seq(Extractor!Tokens)
            BY <1>1, OneToken, Zenon
        <3>2. p \o q = p \o <<"backslash">> \o <<a>>
            BY <2>1, <2>4, <3>1, TextsJoined, Zenon
        <3> QED BY <1>1, <3>2, StringsClosed, Zenon
    <2> QED BY <2>2, <2>3, <2>4, Zenon DEF Pieces
<1>3. ASSUME NEW q \in Pieces PROVE q \in Strings
    <2>1. q \in Seq(Extractor!Tokens)
        <3>1. CASE q = <<>>
            BY <3>1
        <3>2. ASSUME NEW a \in Extractor!Tokens, q = <<a>> PROVE q \in Seq(Extractor!Tokens)
            BY <3>2
        <3>3. ASSUME NEW a \in Extractor!Tokens, q = <<"backslash">> \o <<a>>
              PROVE  q \in Seq(Extractor!Tokens)
            <4>1. <<"backslash">> \in Seq(Extractor!Tokens)
                BY <1>1, OneToken, Zenon
            <4> QED BY <3>3, <4>1, TextsAppended, Zenon
        <3> QED BY <1>1, <3>1, <3>2, <3>3, Zenon DEF Pieces
    <2>2. <<>> \o q = q
        BY <2>1, ConcatEmptySeq, Zenon
    <2> QED BY <1>2, <2>2, StringsClosed, Zenon
<1>4. ASSUME NEW x \in SomeStrings PROVE x \in Strings
    <2>1. PICK p \in Pieces, q \in Pieces : x = p \o q
        BY DEF SomeStrings
    <2> QED BY <1>2, <1>3, <2>1, Zenon
<1> QED BY <1>4, Zenon

\* Texts in brackets are contents of objects, and objects.
LEMMA BracketsAllowed ==
    /\ \A s \in Strings : InQuotes(s) \in Contents
    /\ \A c \in Contents : InBraces(c) \in Contents
<1>1. ASSUME NEW s \in Strings PROVE InQuotes(s) \in Contents
    <2>1. s \in Seq(Extractor!Tokens) /\ "quote" \in Extractor!Tokens
        BY Zenon DEF Strings, Extractor!Tokens
    <2>2. InQuotes(s) \in Seq(Extractor!Tokens)
        BY <2>1, BracketsJoined, Zenon DEF InQuotes
    <2>3. <<>> \o InQuotes(s) = InQuotes(s)
        BY <2>2, ConcatEmptySeq, Zenon
    <2> QED BY <2>3, ContentsClosed, Zenon
<1>2. ASSUME NEW c \in Contents PROVE InBraces(c) \in Contents
    <2>1. c \in Seq(Extractor!Tokens)
        BY Zenon DEF Contents
    <2>2. InBraces(c) \in Seq(Extractor!Tokens)
        BY <2>1, Brackets, BracketsJoined, Zenon DEF InBraces
    <2>3. <<>> \o InBraces(c) = InBraces(c)
        BY <2>2, ConcatEmptySeq, Zenon
    <2> QED BY <2>3, ContentsClosed, Zenon
<1> QED BY <1>1, <1>2, Zenon

\* The objects of those pages are objects, and so is the block of code.
LEMMA ObjectsAllowed == Objects \subseteq Written /\ Block \in Written
<1>1. "other" \in Extractor!Tokens \ {"quote", "{", "}"}
    BY DEF Extractor!Tokens
<1>2. <<>> \o <<"other">> = <<"other">>
    OBVIOUS
<1>3. <<>> \in Contents /\ <<"other">> \in Contents
    BY <1>1, <1>2, ContentsClosed, Zenon
<1>4. ASSUME NEW o \in Plain PROVE o \in Contents /\ o \in Written
    <2>1. PICK v \in {<<>>, <<"other">>} \cup {InQuotes(s) : s \in SomeStrings} :
            o = InBraces(v)
        BY Zenon DEF Plain
    <2>2. v \in Contents
        <3>1. CASE v \in {InQuotes(s) : s \in SomeStrings}
            BY <3>1, SomeStringsAllowed, BracketsAllowed, Zenon
        <3> QED BY <1>3, <3>1, Zenon
    <2> QED BY <2>1, <2>2, BracketsAllowed, Zenon DEF Written
<1>5. ASSUME NEW o \in Objects, o \notin Plain PROVE o \in Written
    <2>1. PICK v \in Plain, s \in SomeStrings : o = InBraces(v \o InQuotes(s))
        BY <1>5 DEF Objects
    <2>2. v \o InQuotes(s) \in Contents
        BY <1>4, ContentsClosed, SomeStringsAllowed, Zenon
    <2> QED BY <2>1, <2>2, Zenon DEF Written
<1>6. Block \in Written
    BY <1>3, BracketsAllowed, ContentsClosed, Zenon DEF Block, Written
<1> QED BY <1>4, <1>5, <1>6, Zenon

\* What the run's pages are made of are texts.
LEMMA OpeningsTyped ==
    /\ Openings \subseteq Seq(Extractor!Tokens) /\ Endings \subseteq Seq(Extractor!Tokens)
    /\ "pageData" \in Extractor!Tokens
<1>1. /\ "{" \in Extractor!Tokens /\ "}" \in Extractor!Tokens
      /\ "quote" \in Extractor!Tokens /\ "pageData" \in Extractor!Tokens
      /\ "PageData" \in Extractor!Tokens
    BY DEF Extractor!Tokens
<1>2. ASSUME NEW a \in Extractor!Tokens, NEW b \in Extractor!Tokens
      PROVE  <<a, b>> \in Seq(Extractor!Tokens)
    OBVIOUS
<1>3. ASSUME NEW a \in Extractor!Tokens, NEW b \in Extractor!Tokens, NEW c \in Extractor!Tokens
      PROVE  <<a, b, c>> \in Seq(Extractor!Tokens)
    OBVIOUS
<1>4. <<>> \in Seq(Extractor!Tokens)
    OBVIOUS
<1>5. <<"pageData">> \o Block \in Seq(Extractor!Tokens)
    BY <1>1, ObjectsAllowed, WrittenTokens, OneToken, ConcatProperties, Zenon
<1> QED BY <1>1, <1>2, <1>3, <1>4, <1>5, Zenon DEF Openings, Endings

\* No opening of those pages leads to an object.
LEMMA OpeningsMislead ==
    ASSUME NEW opening \in Openings, NEW after \in Seq(Extractor!Tokens),
           NEW text, text = opening \o after,
           NEW at \in 1..Len(opening), opening[at] = "pageData"
    PROVE  Extractor!Candidate(text, at) \notin Objects
<1>1. "pageData" \in Extractor!Tokens /\ "pageData" # "{"
    BY DEF Extractor!Tokens
<1>2. Block \in Seq(Extractor!Tokens) /\ Block \in Written
    BY ObjectsAllowed, WrittenTokens, Zenon
<1>3. at = 1 /\ opening = <<"pageData">> \o Block
    BY PagesAssumption, Zenon
<1>4. /\ <<>> \in Seq(Extractor!Tokens) /\ <<>> \o <<"pageData">> = <<"pageData">>
      /\ Len(<<>>) = 0 /\ 0 + 1 = 1
    OBVIOUS
<1>5. text = <<>> \o <<"pageData">> \o Block \o after
    BY <1>3, <1>4, Zenon
<1>6. /\ Window \in Nat /\ Window > 1 /\ MaxLength \in Nat /\ Len(Block) <= MaxLength
      /\ Block \notin Objects
    BY PagesAssumption, Zenon
<1>7. Leads(text, <<>>, "pageData", Block)
    BY <1>1, <1>2, <1>4, <1>5, <1>6, MarkerLeads, Zenon
<1>8. Extractor!Candidate(text, 1) = Block
    BY <1>4, <1>7, Zenon DEF Leads
<1> QED BY <1>3, <1>6, <1>8, Zenon

\* What the page's script has written is what is cut out of the pages that the run
\* asks about (extractor.py:14-16).
THEOREM ObjectsAreCutOut == MCSpec => []ObjectCutOut
<1>1. ASSUME QuestionTyped, Asked("extract") PROVE ObjectCutOut
    <2>1. PICK opening \in Openings, object \in Objects, ending \in Endings :
            question.what = <<opening, object, ending>>
        <3>1. question.what \in Openings \X Objects \X Endings
            BY <1>1 DEF QuestionTyped, Questions
        <3> QED BY <3>1
    <2>2. PICK text : text = opening \o <<"pageData">> \o object \o ending
        OBVIOUS
    <2>3. /\ opening \in Seq(Extractor!Tokens) /\ ending \in Seq(Extractor!Tokens)
          /\ "pageData" \in Extractor!Tokens
        BY OpeningsTyped, Zenon
    <2>4. object \in Written /\ object \in Seq(Extractor!Tokens)
        BY ObjectsAllowed, WrittenTokens, Zenon
    <2>5. PICK after : after = <<"pageData">> \o (object \o ending)
        OBVIOUS
    <2>6. after \in Seq(Extractor!Tokens) /\ text = opening \o after
        <3>1. /\ object \o ending \in Seq(Extractor!Tokens)
              /\ <<"pageData">> \in Seq(Extractor!Tokens)
            BY <2>3, <2>4, OneToken, ConcatProperties, Zenon
        <3>2. after \in Seq(Extractor!Tokens)
            BY <2>5, <3>1, ConcatProperties, Zenon
        <3>3. opening \o <<"pageData">> \in Seq(Extractor!Tokens)
            BY <2>3, TextsAppended, Zenon
        <3>4. text = (opening \o <<"pageData">>) \o (object \o ending)
            BY <2>3, <2>4, <2>2, <3>3, TextsJoined, Zenon
        <3>5. (opening \o <<"pageData">>) \o (object \o ending) = opening \o after
            BY <2>3, <2>5, <3>1, TextsJoined, Zenon
        <3> QED BY <3>2, <3>4, <3>5, Zenon
    <2>7. LeadsNowhere(text, opening, Objects)
        BY <2>6, OpeningsMislead, Zenon DEF LeadsNowhere
    <2>8. Window \in Nat /\ Window > 1 /\ MaxLength \in Nat /\ Len(object) <= MaxLength
        BY PagesAssumption, Zenon
    <2>9. Extractor!Extract(text, Objects) = object
        BY <2>3, <2>4, <2>7, <2>8, <2>2, ObjectFound, Zenon
    <2> QED BY <2>1, <2>9, <2>2 DEF ObjectCutOut
<1>2. QuestionTyped => ObjectCutOut
    BY <1>1 DEF ObjectCutOut
<1> QED BY <1>2, QuestionTypedHolds, PTL
=============================================================================
