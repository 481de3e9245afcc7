------------------------------- MODULE ScanLoop -------------------------------
(***************************************************************************)
(* Scanner.Run of one process: cycles over all recipients with the caches  *)
(* of events and of series tags, the listing of KalshiClient below them,   *)
(* and what /healthz says afterwards.                                      *)
(*                                                                         *)
(* The items of the client are events, each of a series of its own.  What  *)
(* a cycle does for a user is in AlertPipeline and Onboarding: here it     *)
(* succeeds or fails.  processInbound and detectPositions, whose errors    *)
(* cycle only logs, change nothing that is kept here.                      *)
(***************************************************************************)
EXTENDS KalshiClient

CONSTANTS
    N,              \* number of ALERT recipients, scanned in the order 1 .. N
    WithTags,       \* the recipients that chose subcategories
    EventsTTL,      \* EVENTS_CACHE_TTL
    TagsTTL         \* 1 hour

Recipients == 1 .. N

ASSUME LoopAssumption ==
    /\ N \in Nat \ {0} /\ WithTags \subseteq 1 .. N
    /\ EventsTTL \in Nat \ {0} /\ TagsTTL \in Nat \ {0}

VARIABLES
    leader,     \* isLeader, set by the elector
    pc,         \* where Run is
    who,        \* the next recipient of the cycle
    events,     \* the events of the cycle
    eventsCache, eventsAge,
    seriesTags, tagsAge,        \* the series whose tags are known
    stats,      \* scanstats.Tracker
    \* what an observer knows of the last cycle
    reached,    \* the recipients it scanned
    given,      \* given[r]: the events it could match for r
    outcome     \* how it ended

caches == <<eventsCache, eventsAge, seriesTags, tagsAge>>
cycle == <<pc, who, events>>
observed == <<reached, outcome, given>>
loop == <<leader, cycle, caches, stats, observed>>
vars == <<clientVars, loop>>

Unhealthy == [healthy |-> FALSE, error |-> FALSE, timedOut |-> FALSE]

Init ==
    /\ InitClient
    /\ leader = FALSE /\ pc = "idle" /\ who = 1 /\ events = {}
    /\ eventsCache = {} /\ eventsAge = EventsTTL /\ seriesTags = {} /\ tagsAge = TagsTTL
    /\ stats = Unhealthy
    /\ reached = {} /\ outcome = "none" /\ given = [r \in Recipients |-> {}]
-----------------------------------------------------------------------------
\* The elector wins or loses the lease.
ElectorReports ==
    /\ leader' = ~leader
    /\ IF leader THEN Fault ELSE UNCHANGED faults
    /\ UNCHANGED <<exchange, client, expired, cycle, caches, stats, observed>>

\* The ticker fires on a leader: a cycle begins under a context of its own.
StartCycle ==
    /\ pc = "idle" /\ leader
    /\ pc' = "fetch" /\ who' = 1 /\ expired' = FALSE
    /\ reached' = {} /\ given' = [r \in Recipients |-> {}]
    /\ UNCHANGED <<exchange, client, faults, leader, events, caches, stats, outcome>>

\* fetchEvents: cached events are used while they are young and not empty.
UseCachedEvents ==
    /\ pc = "fetch"
    /\ eventsAge < EventsTTL /\ eventsCache # {}
    /\ events' = eventsCache /\ pc' = "tags"
    /\ UNCHANGED <<clientVars, leader, who, caches, stats, observed>>

ListEvents ==
    /\ pc = "fetch"
    /\ eventsAge = EventsTTL \/ eventsCache = {}
    /\ Call
    /\ pc' = "listing"
    /\ UNCHANGED <<leader, who, events, caches, stats, observed>>

\* ListOpenEvents goes on: a request, a backoff, a pause between pages.
ListingStep == pc = "listing" /\ ClientStep /\ UNCHANGED loop

ListingReturns ==
    /\ pc = "listing" /\ step \notin Fetching
    /\ \/ /\ step = "listed"
          /\ events' = Result /\ eventsCache' = Result /\ eventsAge' = 0
          /\ pc' = "tags"
       \/ /\ step = "failed"
          /\ pc' = "error"
          /\ UNCHANGED <<events, eventsCache, eventsAge>>
    /\ UNCHANGED <<clientVars, leader, who, seriesTags, tagsAge, stats, observed>>

\* Mutant: the tags are fetched once and kept.
RefreshTagsOnce ==
    /\ pc = "tags" /\ pc' = "users"
    /\ \/ UNCHANGED <<seriesTags, tagsAge, faults>> /\ (WithTags = {} \/ expired \/ seriesTags # {})
       \/ UNCHANGED <<seriesTags, tagsAge>> /\ Fault
       \/ /\ WithTags # {} /\ ~expired /\ seriesTags = {}
          /\ seriesTags' = events /\ tagsAge' = 0
          /\ UNCHANGED faults
    /\ UNCHANGED <<exchange, client, expired, leader, who, events, eventsCache, eventsAge, stats, observed>>

TagsFresh == tagsAge < TagsTTL /\ seriesTags # {}

\* refreshSeriesTags: for the series of these events only, once an hour, if any
\* recipient needs tags.  When ListSeries or the Views that ask for it fail,
\* the old tags stay.
RefreshTags ==
    /\ pc = "tags" /\ pc' = "users"
    /\ \/ UNCHANGED <<seriesTags, tagsAge, faults>> /\ (WithTags = {} \/ expired \/ TagsFresh)
       \/ UNCHANGED <<seriesTags, tagsAge>> /\ Fault
       \/ /\ WithTags # {} /\ ~expired /\ ~TagsFresh
          /\ seriesTags' = events /\ tagsAge' = 0
          /\ UNCHANGED faults
    /\ UNCHANGED <<exchange, client, expired, leader, who, events, eventsCache, eventsAge, stats, observed>>

\* The cycle's step for the next recipient, whose subcategories need the tags of
\* a series.
ScanUser ==
    /\ pc = "users" /\ who \in Recipients /\ ~expired
    /\ given' = [given EXCEPT ![who] = IF who \in WithTags THEN events \cap seriesTags ELSE events]
    /\ reached' = reached \cup {who}
    /\ who' = who + 1
    /\ UNCHANGED <<clientVars, leader, pc, events, caches, stats, outcome>>

\* Mutant: the loop goes on after a recipient that failed.
ScanUserSkipping ==
    /\ pc = "users" /\ who \in Recipients
    /\ (expired /\ UNCHANGED faults) \/ Fault
    /\ who' = who + 1
    /\ UNCHANGED <<exchange, client, expired, leader, pc, events, caches, stats, observed>>

\* A statement or a send for this recipient fails, and the cycle ends.
ScanUserFails ==
    /\ pc = "users" /\ who \in Recipients
    /\ (expired /\ UNCHANGED faults) \/ Fault
    /\ pc' = "error"
    /\ UNCHANGED <<exchange, client, expired, leader, who, events, caches, stats, observed>>

\* The cycle has reached everyone: RecordCycle.
RecordCycle ==
    /\ pc = "users" /\ who \notin Recipients
    /\ stats' = [healthy |-> TRUE, error |-> FALSE, timedOut |-> FALSE]
    /\ pc' = "return"
    /\ UNCHANGED <<clientVars, leader, who, events, caches, observed>>

\* Run looks at the deadline first, then at the error.  Only a cycle that timed
\* out is recorded when it fails.
EndCycle ==
    /\ pc \in {"return", "error"}
    /\ pc' = "idle"
    /\ \/ expired /\ outcome' = "timed out"
          /\ stats' = [healthy |-> FALSE, error |-> TRUE, timedOut |-> TRUE]
       \/ ~expired /\ pc = "error" /\ outcome' = "failed"
          /\ stats' = [stats EXCEPT !.healthy = FALSE]
       \/ ~expired /\ pc = "return" /\ outcome' = "ok"
          /\ stats' = [stats EXCEPT !.healthy = TRUE]
    /\ UNCHANGED <<clientVars, leader, who, events, caches, reached, given>>
-----------------------------------------------------------------------------
\* SCAN_CYCLE_TIMEOUT passes.
CycleExpires ==
    /\ pc # "idle" /\ ~expired /\ Fault
    /\ expired' = TRUE
    /\ UNCHANGED <<exchange, client, loop>>

Older(age, bound) == IF age < bound THEN age + 1 ELSE bound

Tick ==
    /\ eventsAge' = Older(eventsAge, EventsTTL)
    /\ tagsAge' = Older(tagsAge, TagsTTL)
    /\ UNCHANGED <<clientVars, leader, cycle, eventsCache, seriesTags, stats, observed>>

\* The process dies and restarts.
Crash ==
    /\ Fault
    /\ step' = "idle" /\ cursor' = 0 /\ got' = {} /\ attempt' = 1 /\ expired' = FALSE
    /\ through' = {} /\ seen' = {}
    /\ leader' = FALSE /\ pc' = "idle" /\ who' = 1 /\ events' = {}
    /\ eventsCache' = {} /\ eventsAge' = EventsTTL /\ seriesTags' = {} /\ tagsAge' = TagsTTL
    /\ stats' = Unhealthy
    /\ reached' = {} /\ given' = [r \in Recipients |-> {}] /\ outcome' = "none"
    /\ UNCHANGED open

\* A market of the exchange opens or closes.
ExchangeStep == \E i \in Items : Trade(i) /\ UNCHANGED loop

ScanStep ==
    \/ StartCycle \/ UseCachedEvents \/ ListEvents \/ ListingStep \/ ListingReturns
    \/ RefreshTags \/ ScanUser \/ ScanUserFails \/ RecordCycle \/ EndCycle

Next == ScanStep \/ ElectorReports \/ CycleExpires \/ Tick \/ Crash \/ ExchangeStep

Spec == Init /\ [][Next]_vars

\* Time passes, and the scanner's goroutine runs: every step of a cycle is
\* bounded by its context.
FairSpec == Spec /\ WF_vars(ScanStep) /\ WF_vars(Tick)
-----------------------------------------------------------------------------
(* Type invariant: a listing runs only within fetchEvents.                  *)
TypeOK ==
    /\ open \subseteq Items /\ through \subseteq Items /\ seen \subseteq Items /\ got \subseteq Items
    /\ step \in Fetching \cup {"idle", "listed", "failed"}
    /\ step \in Fetching => pc = "listing"
    /\ cursor \in Items \cup {0} /\ attempt \in 1 .. MaxAttempts
    /\ expired \in BOOLEAN /\ leader \in BOOLEAN /\ faults \in 0 .. MaxFaults
    /\ pc \in {"idle", "fetch", "listing", "tags", "users", "return", "error"}
    /\ who \in 1 .. N + 1
    /\ events \subseteq Items /\ eventsCache \subseteq Items /\ seriesTags \subseteq Items
    /\ eventsAge \in 0 .. EventsTTL /\ tagsAge \in 0 .. TagsTTL
    /\ stats \in [healthy : BOOLEAN, error : BOOLEAN, timedOut : BOOLEAN]
    /\ reached \subseteq Recipients /\ given \in [Recipients -> SUBSET Items]
    /\ outcome \in {"none", "ok", "failed", "timed out"}

(* With the scanner enabled, between two cycles /healthz is 200 exactly when *)
(* the last cycle succeeded, within its deadline and for every recipient; 503 *)
(* otherwise, also before the first cycle of a process (handleHealth, Run,   *)
(* RecordCycle).                                                             *)
HealthTells ==
    pc = "idle" =>
        /\ stats.healthy <=> outcome = "ok"
        /\ outcome = "ok" => reached = Recipients
        /\ outcome = "timed out" => stats.timedOut /\ stats.error

(* An event that stays open is in the end matched for every recipient in     *)
(* some cycle, and again and again, through both caches and after any        *)
(* failures, while the process leads: a cached list or missing tags delay    *)
(* an event, and a recipient that fails delays those after it.               *)
EventsReachEveryone ==
    \A i \in Items, r \in Recipients :
        (<>[]leader /\ <>[](i \in open)) => []<>(i \in given[r])
=============================================================================
