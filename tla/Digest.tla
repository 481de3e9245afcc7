------------------------------- MODULE Digest -------------------------------
(***************************************************************************)
(* What cycleForUser sends one user, cycle after cycle and hour after      *)
(* hour: which markets qualify, in which order, how many of a series and   *)
(* of a digest, and what quiet hours hold back.  AlertPipeline has the     *)
(* steps of making one digest, and its faults; here a cycle is one step,   *)
(* and the choice that AlertPipeline abstracts is made by the code's rules.*)
(*                                                                         *)
(* Scores are small numbers that change as the counters are fed.  The      *)
(* filters on volume, open interest, status, closing time, position,       *)
(* category and subcategory are one set of markets, `matching`.            *)
(***************************************************************************)
EXTENDS Integers, Sequences, FiniteSets, Functions, SequencesExt

CONSTANTS
    Markets,
    SeriesOf,           \* SeriesOf[m]: the series of market m
    MaxAlerts,          \* MAX_ALERTS_PER_MESSAGE
    MaxPerSeries,       \* MAX_PER_SERIES_DIGEST, any integer
    MinScore,           \* MIN_SUGGESTION_SCORE; 0 for none
    RealertDrop,        \* REALERT_DROP_CENTS
    ServicePrice,       \* MAX_PRICE_CENTS
    Hours,              \* of a day
    MaxScore,           \* bound: scores are 0 .. MaxScore
    MaxVolume,          \* bound: volumes are 0 .. MaxVolume
    MaxMoves            \* bound: changes of markets, scores and settings, and failed cycles

ASSUME DigestAssumption ==
    /\ IsFiniteSet(Markets) /\ DOMAIN SeriesOf = Markets
    /\ {MaxAlerts, RealertDrop, ServicePrice, Hours, MaxVolume} \subseteq Nat \ {0}
    /\ {MinScore, MaxScore, MaxMoves} \subseteq Nat /\ MaxPerSeries \in Int

Asks == 0 .. ServicePrice + 1
NotWatched == [watched |-> FALSE, max |-> 0]
Unmarked == [marked |-> FALSE, ask |-> 0, volume |-> 0, near |-> FALSE, pass |-> "no"]

VARIABLES
    \* the markets
    ask,        \* YES ask; 0 when there is none
    volume, near,   \* near[m]: m closes within 6 hours
    score,      \* what the scorer makes of m
    matching,   \* the markets that pass the user's other filters
    \* the user
    watchlist, priceLimit, quiet,
    marks,      \* alerted_markets
    \* the scanner
    hour,       \* the user's local hour
    scanned,    \* whether a cycle has succeeded in this hour
    digest,     \* the markets of the message sent in this hour, in order
    moves       \* bound

market == <<ask, volume, near, score, matching>>
user == <<watchlist, priceLimit, quiet, marks>>
vars == <<market, user, hour, scanned, digest, moves>>

Init ==
    /\ ask = [m \in Markets |-> ServicePrice] /\ volume = [m \in Markets |-> 1]
    /\ near = [m \in Markets |-> FALSE] /\ matching = Markets
    /\ score \in [Markets -> 0 .. MaxScore]
    /\ watchlist = [m \in Markets |-> NotWatched] /\ priceLimit = ServicePrice
    /\ quiet = [enabled |-> FALSE, start |-> Hours - 1, end |-> 1 % Hours]
    /\ marks = [m \in Markets |-> Unmarked]
    /\ hour = 0 /\ scanned = FALSE /\ digest = <<>> /\ moves = 0
-----------------------------------------------------------------------------
(* disqualify: which markets are candidates. *)

Watching(m) == watchlist[m].watched

WatchAffordable(m) ==
    /\ watchlist[m].max > 0 => ask[m] <= watchlist[m].max
    /\ ask[m] > 0 /\ ask[m] <= ServicePrice

\* A market alerted before is worth another alert, when its PASS is over, or
\* at a lower price, close to its end, or at twice the volume.
WorthAnother(m) ==
    LET prev == marks[m]
    IN IF prev.pass # "no" THEN prev.pass = "over"
       ELSE \/ ask[m] <= prev.ask - RealertDrop
            \/ near[m] /\ ~prev.near
            \/ prev.volume > 0 /\ volume[m] >= 2 * prev.volume

Qualifies(m) ==
    IF Watching(m) THEN WatchAffordable(m)
    ELSE /\ m \in matching /\ ask[m] > 0 /\ ask[m] <= priceLimit
         /\ marks[m].marked => WorthAnother(m)

Candidates == {m \in Markets : Qualifies(m)}
-----------------------------------------------------------------------------
(* The digest of a cycle. *)

\* The order of sort.Slice, which leaves equal candidates in any order.
Before(a, b) ==
    IF Watching(a) # Watching(b) THEN Watching(a)
    ELSE IF score[a] # score[b] THEN score[a] > score[b]
    ELSE IF ask[a] # ask[b] THEN ask[a] < ask[b]
    ELSE volume[a] > volume[b]

\* A ranking gives each candidate a place of its own.
Rankings ==
    {place \in [Candidates -> 1 .. Cardinality(Candidates)] :
        \A a, b \in DOMAIN place : /\ place[a] = place[b] => a = b
                                   /\ place[a] < place[b] => ~Before(b, a)}

\* The n markets of S that have the first places.
First(n, S, place) == {m \in S : Cardinality({o \in S : place[o] < place[m]}) < n}

GoodEnough(m) == Watching(m) \/ MinScore = 0 \/ score[m] >= MinScore

PerSeries == IF MaxPerSeries <= 0 THEN 2 ELSE MaxPerSeries

\* The unwatched markets among S of the series of m.
Companions(S, m) == {o \in S : ~Watching(o) /\ SeriesOf[o] = SeriesOf[m]}

\* applySeriesDiversity: of the unwatched candidates of a series the first stay.
Diverse(S, place) == {m \in S : Watching(m) \/ m \in First(PerSeries, Companions(S, m), place)}

\* Mutant: one market too many.
CutLate(S, place) == First(MaxAlerts + 1, S, place)

Cut(S, place) == First(MaxAlerts, S, place)

InQuietHours ==
    /\ quiet.enabled /\ quiet.start # quiet.end
    /\ IF quiet.start < quiet.end THEN hour >= quiet.start /\ hour < quiet.end
       ELSE hour >= quiet.start \/ hour < quiet.end

\* Quiet hours hold back what is not watched.
Loud(S) == {m \in S : Watching(m) \/ ~InQuietHours}

\* The markets of S in the order of their places.
Ordered(S, place) ==
    {d \in SetToSeqs(S) : \A i, j \in DOMAIN d : i < j => place[d[i]] < place[d[j]]}

Good(place) == {m \in DOMAIN place : GoodEnough(m)}

\* Mutant: the digest is cut before the series are looked at.
DigestsCutFirst ==
    UNION {Ordered(Loud(Diverse(Cut(Good(place), place), place)), place) : place \in Rankings}

\* The minimum score, the series, the cut, and then the quiet hours.
Digests ==
    UNION {Ordered(Loud(Cut(Diverse(Good(place), place), place)), place) : place \in Rankings}

\* Mutant: a repeated alert keeps the mark of the first, and a PASS that is over.
MarkOnce(m) == IF marks[m].marked THEN marks[m] ELSE
    [marked |-> TRUE, ask |-> ask[m], volume |-> volume[m], near |-> near[m], pass |-> "no"]

\* The mark of an alert replaces the one before, with its PASS.
Mark(m) == [marked |-> TRUE, ask |-> ask[m], volume |-> volume[m], near |-> near[m], pass |-> "no"]

\* A cycle: the digest is sent, and what was sent is marked.
Scan ==
    /\ ~scanned /\ scanned' = TRUE
    /\ digest' \in Digests
    /\ marks' = [m \in Markets |-> IF m \in Range(digest') THEN Mark(m) ELSE marks[m]]
    /\ UNCHANGED <<market, watchlist, priceLimit, quiet, hour, moves>>

Move == moves < MaxMoves /\ moves' = moves + 1

\* A cycle fails, or its message is refused and rolled back.
ScanFails ==
    /\ ~scanned /\ Move
    /\ UNCHANGED <<market, user, hour, scanned, digest>>

\* POLL_INTERVAL is less than an hour: each hour has its cycles.
NextHour ==
    /\ scanned /\ scanned' = FALSE /\ digest' = <<>>
    /\ hour' = (hour + 1) % Hours
    /\ UNCHANGED <<market, user, moves>>
-----------------------------------------------------------------------------
(* Between cycles. *)

Trade(m) ==
    /\ Move
    /\ \/ /\ \E p \in Asks \ {ask[m]} : ask' = [ask EXCEPT ![m] = p]
          /\ UNCHANGED volume
       \/ /\ volume[m] < MaxVolume /\ volume' = [volume EXCEPT ![m] = @ + 1]
          /\ UNCHANGED ask
    /\ UNCHANGED <<near, score, matching, user, hour, scanned, digest>>

\* Six hours before it closes.
Approach(m) ==
    /\ Move /\ ~near[m]
    /\ near' = [near EXCEPT ![m] = TRUE]
    /\ UNCHANGED <<ask, volume, score, matching, user, hour, scanned, digest>>

\* Each cycle computes a candidate's score anew; it comes out differently.
Rescore(m) ==
    /\ Move
    /\ \E s \in (0 .. MaxScore) \ {score[m]} : score' = [score EXCEPT ![m] = s]
    /\ UNCHANGED <<ask, volume, near, matching, user, hour, scanned, digest>>

\* A market meets, or no longer meets, the user's filters: it closes, is
\* bought, or a filter is set.
Rematch(m) ==
    /\ Move
    /\ matching' = IF m \in matching THEN matching \ {m} ELSE matching \cup {m}
    /\ UNCHANGED <<ask, volume, near, score, user, hour, scanned, digest>>

\* WATCH with or without a price, and UNWATCH.
Watch(m) ==
    /\ Move
    /\ \/ \E p \in 0 .. ServicePrice :
             watchlist' = [watchlist EXCEPT ![m] = [watched |-> TRUE, max |-> p]]
       \/ Watching(m) /\ watchlist' = [watchlist EXCEPT ![m] = NotWatched]
    /\ UNCHANGED <<market, priceLimit, quiet, marks, hour, scanned, digest>>

\* FILTER PRICE, or its reset.
SetPrice ==
    /\ Move
    /\ \E p \in Asks \ {priceLimit} : priceLimit' = p
    /\ UNCHANGED <<market, watchlist, quiet, marks, hour, scanned, digest>>

\* QUIET start-end, DISABLE and ENABLE.
SetQuiet ==
    /\ Move
    /\ \/ \E s, e \in 0 .. Hours - 1 : quiet' = [enabled |-> TRUE, start |-> s, end |-> e]
       \/ quiet' = [quiet EXCEPT !.enabled = ~@]
    /\ UNCHANGED <<market, watchlist, priceLimit, marks, hour, scanned, digest>>

\* PASS of a market's last suggestion; it has an end if PASS_SUPPRESS_DAYS is positive.
Pass(m) ==
    /\ Move /\ marks[m].marked /\ marks[m].pass = "no"
    /\ marks' = [marks EXCEPT ![m].pass = "yes"]
    /\ UNCHANGED <<market, watchlist, priceLimit, quiet, hour, scanned, digest>>

PassEnds(m) ==
    /\ marks[m].pass = "yes"
    /\ marks' = [marks EXCEPT ![m].pass = "over"]
    /\ UNCHANGED <<market, watchlist, priceLimit, quiet, hour, scanned, digest, moves>>

Next ==
    \/ Scan \/ ScanFails \/ NextHour \/ SetPrice \/ SetQuiet
    \/ \E m \in Markets : \/ Trade(m) \/ Approach(m) \/ Rescore(m) \/ Rematch(m)
                          \/ Watch(m) \/ Pass(m) \/ PassEnds(m)

Spec == Init /\ [][Next]_vars

\* The ticker fires and time passes.
FairSpec == Spec /\ WF_vars(Scan) /\ WF_vars(NextHour)
-----------------------------------------------------------------------------
(* Type invariant; no message is longer than its limit or has a market twice. *)
TypeOK ==
    /\ ask \in [Markets -> Asks] /\ volume \in [Markets -> 0 .. MaxVolume]
    /\ near \in [Markets -> BOOLEAN] /\ score \in [Markets -> 0 .. MaxScore]
    /\ matching \subseteq Markets
    /\ watchlist \in [Markets -> [watched : BOOLEAN, max : 0 .. ServicePrice]]
    /\ priceLimit \in Asks
    /\ quiet \in [enabled : BOOLEAN, start : 0 .. Hours - 1, end : 0 .. Hours - 1]
    /\ marks \in [Markets -> [marked : BOOLEAN, ask : Asks, volume : 0 .. MaxVolume,
                              near : BOOLEAN, pass : {"no", "yes", "over"}]]
    /\ hour \in 0 .. Hours - 1 /\ scanned \in BOOLEAN /\ moves \in 0 .. MaxMoves
    /\ digest \in Seq(Markets) /\ Len(digest) <= MaxAlerts
    /\ Cardinality(Range(digest)) = Len(digest)

\* The hour is one of those from the start to the end, past midnight if need be.
Quiet == quiet.enabled /\ (hour - quiet.start) % Hours < (quiet.end - quiet.start) % Hours

\* Why a candidate is not in the message d: held back by quiet hours, a low
\* score, a message full of candidates no worse, or enough of those of its series.
LeftOut(m, d) ==
    LET NoWorse == {o \in Range(d) : ~Before(m, o)}
    IN \/ Cardinality(NoWorse) = MaxAlerts
       \/ /\ ~Watching(m)
          /\ \/ Quiet
             \/ score[m] < MinScore
             \/ Cardinality({o \in NoWorse : ~Watching(o) /\ SeriesOf[o] = SeriesOf[m]}) >= PerSeries

(* A cycle sends the best: every market it sends is a candidate the user's   *)
(* settings allow, and whatever it leaves out has a reason to be left out,   *)
(* whichever the order of its filters (cycleForUser's sort, minimum score,   *)
(* series limit, cut, and quiet hours).                                      *)
BestAreSent ==
    [][Scan =>
        /\ \A m \in Range(digest') : m \in Candidates /\ (Quiet => Watching(m))
        /\ \A m \in Candidates \ Range(digest') : LeftOut(m, digest')]_vars

\* Market m could be sent, and is not watched.
Waiting(m) == ~Watching(m) /\ Qualifies(m) /\ GoodEnough(m)

(* As long as fewer markets are watched than a message can hold, no market   *)
(* waits for ever: others of its series, better scores, repeated alerts and  *)
(* quiet hours only delay it (WorthAnother, MarkAlerted, InQuietHours).      *)
EveryoneGetsATurn ==
    \A m \in Markets :
        <>[](Cardinality({o \in Markets : Watching(o)}) < MaxAlerts) => []<>~Waiting(m)
=============================================================================
