--------------------------- MODULE ScanLoopProofs ---------------------------
(***************************************************************************)
(* Proofs about ScanLoop and the KalshiClient within it, for any items,    *)
(* page size, number of attempts, of faults and of recipients.             *)
(*                                                                         *)
(* A listing keeps its promise because of PageInv: of the items open since *)
(* the call, those up to the cursor are fetched.  Health tells the truth   *)
(* because of CycleInv: a cycle has reached the recipients before `who`.   *)
(***************************************************************************)
EXTENDS ScanLoop, TLAPS

ClientType ==
    /\ open \subseteq Items /\ through \subseteq open
    /\ step \in Fetching \cup {"idle", "listed", "failed"}
    /\ cursor \in Nat

\* What the pages up to the cursor have brought.
PageInv ==
    step \in Fetching =>
        /\ open \subseteq seen /\ got \subseteq seen
        /\ \A i \in through : i <= cursor => i \in got

ListInv == ClientType /\ PageInv

(* The page after the cursor misses nothing that is open: what it does not   *)
(* bring lies behind its end.                                                *)
LEMMA PageBrings ==
    ASSUME ListInv, step = "request", NEW b \in Items \cup {cursor}, PageEnds(cursor, b)
    PROVE  /\ b \in Nat
           /\ got \cup Between(cursor, b) \subseteq seen
           /\ \A i \in through : i <= b => i \in got \cup Between(cursor, b)
           /\ Between(cursor, b) = {} => through \subseteq got
           /\ (\A i \in open : ~(i > b)) => through \subseteq got \cup Between(cursor, b)
<1> USE DEF ListInv, ClientType, PageInv, Fetching
<1>1. b \in Nat
  BY ClientAssumption
<1>2. open \subseteq Nat
  BY ClientAssumption
<1>3. Between(cursor, b) \subseteq open
  BY DEF Between
<1>4. \A i \in through : i <= b => i \in got \cup Between(cursor, b)
  BY <1>1, <1>2 DEF Between
<1>5. Between(cursor, b) = {} => through \subseteq got
  BY DEF PageEnds
<1>6. (\A i \in open : ~(i > b)) => through \subseteq got \cup Between(cursor, b)
  <2>1. \A i \in open : ~(i > b) => i <= b
    BY <1>1, <1>2
  <2> QED BY <1>4, <2>1
<1> QED BY <1>1, <1>3, <1>4, <1>5, <1>6

(* The cursor after a page is the page's end, unless the listing ends.      *)
LEMMA CursorIsEnd ==
    ASSUME NEW b, NEW next \in NextCursors(b)
    PROVE  /\ next = 0 \/ next = b
           /\ next = 0 /\ b # 0 => \A i \in open : ~(i > b)
BY DEF NextCursors

(* A page either ends the listing, with all it owes, or moves the cursor.   *)
LEMMA PageStep ==
    ASSUME ListInv, Page
    PROVE  /\ ListInv'
           /\ step' = "listed" => through \subseteq got' /\ got' \subseteq seen
           /\ step' \in {"listed", "pause"}
<1> USE DEF ListInv, ClientType, PageInv, Fetching
<1>1. PICK b \in Items \cup {cursor} :
        /\ PageEnds(cursor, b)
        /\ got' = got \cup Between(cursor, b)
        /\ \E next \in NextCursors(b) :
              IF next = 0 \/ Between(cursor, b) = {}
              THEN step' = "listed" /\ UNCHANGED <<cursor, attempt>>
              ELSE step' = "pause" /\ cursor' = next /\ attempt' = 1
  BY DEF Page
<1>2. PICK next \in NextCursors(b) :
        IF next = 0 \/ Between(cursor, b) = {}
        THEN step' = "listed" /\ UNCHANGED <<cursor, attempt>>
        ELSE step' = "pause" /\ cursor' = next /\ attempt' = 1
  BY <1>1
<1>3. UNCHANGED <<open, through, seen>> /\ step = "request"
  BY DEF Page, exchange
<1>4. /\ b \in Nat
      /\ got' \subseteq seen
      /\ \A i \in through : i <= b => i \in got'
      /\ Between(cursor, b) = {} => through \subseteq got'
      /\ (\A i \in open : ~(i > b)) => through \subseteq got'
  BY <1>1, <1>3, PageBrings
<1>5. CASE next = 0 \/ Between(cursor, b) = {}
  <2>1. step' = "listed" /\ cursor' = cursor
    BY <1>2, <1>5
  <2>2. b = 0 => Between(cursor, b) = {}
    <3>1. \A i \in open : i \in Nat /\ i # 0
      BY ClientAssumption
    <3>2. \A i \in open : ~(i <= 0)
      BY <3>1
    <3> QED BY <3>2 DEF Between
  <2>3. through \subseteq got'
    BY <1>4, <1>5, <2>2, CursorIsEnd
  <2> QED BY <1>3, <1>4, <2>1, <2>3
<1>6. CASE ~(next = 0 \/ Between(cursor, b) = {})
  <2>1. step' = "pause" /\ cursor' = b
    BY <1>2, <1>6, CursorIsEnd
  <2> QED BY <1>3, <1>4, <2>1
<1> QED BY <1>5, <1>6

(* Before the first call nothing is owed. *)
LEMMA ListInit == InitClient => ListInv
BY DEF InitClient, ListInv, ClientType, PageInv, Fetching

(* Whatever opens, closes, fails or is tried again keeps the invariant.     *)
LEMMA ListNext == ListInv /\ [ClientNext]_clientVars => ListInv'
<1> SUFFICES ASSUME ListInv, [ClientNext]_clientVars PROVE ListInv'
  OBVIOUS
<1> USE DEF ListInv, ClientType, PageInv, Fetching
<1>1. CASE Call
  BY <1>1, ClientAssumption DEF Call
<1>2. CASE Page
  BY <1>2, PageStep
<1>3. CASE Transient \/ Permanent \/ Retry \/ Resume \/ CutOff
  BY <1>3 DEF Transient, Permanent, Retry, Resume, CutOff, exchange
<1>4. CASE Expire
  BY <1>4 DEF Expire, exchange, client
<1>5. ASSUME NEW i \in Items, Trade(i) PROVE ListInv'
  BY <1>5 DEF Trade, client
<1>6. CASE UNCHANGED clientVars
  BY <1>6 DEF clientVars, exchange, client
<1> QED BY <1>1, <1>2, <1>3, <1>4, <1>5, <1>6 DEF ClientNext, ClientStep

(* Every step of the client is a step of Listing, or invisible there.       *)
LEMMA ListRefines ==
    ListInv /\ [ClientNext]_clientVars => [Promise!Next]_(Promise!lvars)
<1> SUFFICES ASSUME ListInv, [ClientNext]_clientVars
             PROVE  [Promise!Next]_(Promise!lvars)
  OBVIOUS
<1> USE DEF ListInv, ClientType, CallState, Result, Fetching
<1>1. CASE Call
  <2>1. Promise!Call
    BY <1>1 DEF Call, Promise!Call
  <2> QED BY <2>1 DEF Promise!Next
<1>2. CASE Page
  <2>1. UNCHANGED <<open, through, seen>> /\ step = "request"
    BY <1>2 DEF Page, exchange
  <2>2. CASE step' = "listed"
    <3>1. Promise!Return
      BY <1>2, <2>1, <2>2, PageStep DEF Promise!Return
    <3> QED BY <3>1 DEF Promise!Next
  <2>3. CASE step' = "pause"
    BY <2>1, <2>3 DEF Promise!lvars
  <2> QED BY <1>2, <2>2, <2>3, PageStep
<1>3. CASE Transient \/ Permanent \/ CutOff
  <2>1. /\ UNCHANGED <<open, through, seen>> /\ step \in Fetching
        /\ step' \in {"backoff", "failed"}
    BY <1>3 DEF Transient, Permanent, CutOff, exchange
  <2>2. CASE step' = "failed"
    <3>1. Promise!Fail
      BY <2>1, <2>2 DEF Promise!Fail
    <3> QED BY <3>1 DEF Promise!Next
  <2>3. CASE step' = "backoff"
    BY <2>1, <2>3 DEF Promise!lvars
  <2> QED BY <2>1, <2>2, <2>3
<1>4. CASE Retry \/ Resume
  BY <1>4 DEF Retry, Resume, exchange, Promise!lvars
<1>5. CASE Expire
  BY <1>5 DEF Expire, exchange, client, Promise!lvars
<1>6. ASSUME NEW i \in Items, Trade(i) PROVE [Promise!Next]_(Promise!lvars)
  <2>1. open' \subseteq Items /\ UNCHANGED <<step, got>>
    BY <1>6 DEF Trade, client
  <2>2. Promise!Change
    BY <1>6, <2>1 DEF Trade, Promise!Change
  <2> QED BY <2>2 DEF Promise!Next
<1>7. CASE UNCHANGED clientVars
  BY <1>7 DEF clientVars, exchange, client, Promise!lvars
<1> QED BY <1>1, <1>2, <1>3, <1>4, <1>5, <1>6, <1>7 DEF ClientNext, ClientStep
-----------------------------------------------------------------------------
(* The client within the scan loop. *)

(* A step of the loop is a step of the client, or leaves it alone, or the   *)
(* process dies.                                                            *)
LEMMA LoopUsesClient ==
    ASSUME [Next]_vars, ~Crash
    PROVE  [ClientNext]_clientVars
             \/ UNCHANGED <<exchange, client>>
<1> USE DEF clientVars
<1>1. CASE ListEvents
  BY <1>1 DEF ListEvents, ClientNext
<1>2. CASE ListingStep
  BY <1>2 DEF ListingStep, ClientNext
<1>3. CASE ExchangeStep
  BY <1>3 DEF ExchangeStep, ClientNext
<1>4. CASE StartCycle \/ UseCachedEvents \/ ListingReturns \/ RefreshTags \/ ScanUser
              \/ ScanUserFails \/ RecordCycle \/ EndCycle
  BY <1>4 DEF StartCycle, UseCachedEvents, ListingReturns, RefreshTags, ScanUser,
              ScanUserFails, RecordCycle, EndCycle
<1>5. CASE ElectorReports \/ CycleExpires \/ Tick
  BY <1>5 DEF ElectorReports, CycleExpires, Tick
<1>6. CASE UNCHANGED vars
  BY <1>6 DEF vars
<1> QED BY <1>1, <1>2, <1>3, <1>4, <1>5, <1>6 DEF Next, ScanStep

(* Neither a cycle nor a restart breaks the invariant of the client. *)
LEMMA LoopListNext == ListInv /\ [Next]_vars => ListInv'
<1> SUFFICES ASSUME ListInv, [Next]_vars PROVE ListInv'
  OBVIOUS
<1>1. CASE Crash
  BY <1>1 DEF Crash, ListInv, ClientType, PageInv, Fetching
<1>2. CASE UNCHANGED <<exchange, client>>
  BY <1>2 DEF exchange, client, ListInv, ClientType, PageInv, Fetching
<1> QED BY <1>1, <1>2, LoopUsesClient, ListNext

(* A restart shows to Listing as a caller that vanishes. *)
LEMMA LoopListRefines ==
    ListInv /\ [Next]_vars => [Promise!Next]_(Promise!lvars)
<1> SUFFICES ASSUME ListInv, [Next]_vars PROVE [Promise!Next]_(Promise!lvars)
  OBVIOUS
<1>1. CASE Crash
  <2>1. Promise!Vanish
    BY <1>1 DEF Crash, Promise!Vanish, CallState, Result, Fetching
  <2> QED BY <2>1 DEF Promise!Next
<1>2. CASE UNCHANGED <<exchange, client>>
  BY <1>2 DEF exchange, client, Promise!lvars, CallState, Result
<1> QED BY <1>1, <1>2, LoopUsesClient, ListRefines

(* Within the scan loop, through cycles, cached lists, expired contexts and  *)
(* restarts, every listing is complete or an error.                          *)
THEOREM ListingCorrect == Spec => ImplementsListing
<1>1. Init => ListInv
  BY ListInit DEF Init
<1>2. Init => Promise!Init
  BY DEF Init, InitClient, Promise!Init, CallState, Result, Fetching
<1> QED
  BY <1>1, <1>2, LoopListNext, LoopListRefines, PTL DEF Spec, ImplementsListing, Promise!Spec
-----------------------------------------------------------------------------
(* Health. *)

Recorded == [healthy |-> TRUE, error |-> FALSE, timedOut |-> FALSE]

\* How far a cycle is, and what RecordCycle left.
CycleInv ==
    /\ stats \in [healthy : BOOLEAN, error : BOOLEAN, timedOut : BOOLEAN]
    /\ pc \in {"fetch", "listing", "tags"} => reached = {} /\ who = 1
    /\ pc = "users" => who \in 1 .. N + 1 /\ reached = 1 .. who - 1
    /\ pc = "return" => reached = Recipients

HealthInv == CycleInv /\ HealthTells

(* EndCycle sets the health to the outcome of the cycle.                     *)
LEMMA EndTells ==
    ASSUME HealthInv, EndCycle
    PROVE  HealthInv'
<1> USE DEF HealthInv, CycleInv, HealthTells
<1>1. pc' = "idle" /\ UNCHANGED <<reached, who>> /\ pc \in {"return", "error"}
  BY DEF EndCycle
<1>2. CASE expired
  <2>1. stats' = [healthy |-> FALSE, error |-> TRUE, timedOut |-> TRUE] /\ outcome' = "timed out"
    BY <1>2 DEF EndCycle
  <2> QED BY <1>1, <2>1
<1>3. CASE ~expired /\ pc = "error"
  <2>1. stats' = [stats EXCEPT !.healthy = FALSE] /\ outcome' = "failed"
    BY <1>3 DEF EndCycle
  <2>2. /\ stats' \in [healthy : BOOLEAN, error : BOOLEAN, timedOut : BOOLEAN]
        /\ stats'.healthy = FALSE
    BY <2>1
  <2> QED BY <1>1, <2>1, <2>2
<1>4. CASE ~expired /\ pc = "return"
  <2>1. stats' = [stats EXCEPT !.healthy = TRUE] /\ outcome' = "ok"
    BY <1>4 DEF EndCycle
  <2>2. /\ stats' \in [healthy : BOOLEAN, error : BOOLEAN, timedOut : BOOLEAN]
        /\ stats'.healthy = TRUE
    BY <2>1
  <2> QED BY <1>1, <1>4, <2>1, <2>2
<1> QED BY <1>1, <1>2, <1>3, <1>4

(* A process that has not scanned is not healthy. *)
LEMMA HealthInit == Init => HealthInv
BY DEF Init, Unhealthy, HealthInv, CycleInv, HealthTells

(* At the first recipient none is reached. *)
LEMMA NoneYet == 1 .. 1 - 1 = {} /\ 1 \in 1 .. N + 1
<1>1. 1 - 1 = 0
  OBVIOUS
<1>2. 1 .. 0 = {}
  OBVIOUS
<1> QED BY <1>1, <1>2, LoopAssumption

(* A recipient that is scanned is added to those reached, and a cycle that   *)
(* passes over none ends with all of them.                                   *)
LEMMA HealthNext == HealthInv /\ [Next]_vars => HealthInv'
<1> SUFFICES ASSUME HealthInv, [Next]_vars PROVE HealthInv'
  OBVIOUS
<1> USE DEF HealthInv, CycleInv, HealthTells
<1>1. CASE StartCycle \/ UseCachedEvents \/ ListEvents \/ ListingReturns
  BY <1>1 DEF StartCycle, UseCachedEvents, ListEvents, ListingReturns, observed
<1>2. CASE RefreshTags
  <2>1. pc = "tags" /\ pc' = "users" /\ UNCHANGED <<who, stats, reached, outcome>>
    BY <1>2 DEF RefreshTags, observed
  <2> QED BY <2>1, NoneYet
<1>3. CASE ScanUser
  <2>1. /\ pc = "users" /\ pc' = "users" /\ who \in 1 .. N
        /\ who' = who + 1 /\ reached' = reached \cup {who}
        /\ UNCHANGED <<stats, outcome>>
    BY <1>3 DEF ScanUser, Recipients
  <2>2. who' \in 1 .. N + 1 /\ (1 .. who - 1) \cup {who} = 1 .. who' - 1
    BY <2>1, LoopAssumption
  <2> QED BY <2>1, <2>2
<1>4. CASE ScanUserFails
  BY <1>4 DEF ScanUserFails, observed
<1>5. CASE RecordCycle
  <2>1. /\ pc = "users" /\ pc' = "return" /\ who \notin 1 .. N
        /\ stats' = Recorded /\ UNCHANGED <<who, reached, outcome>>
    BY <1>5 DEF RecordCycle, observed, Recipients, Recorded
  <2>2. reached = Recipients
    BY <2>1, LoopAssumption DEF Recipients
  <2>3. stats' \in [healthy : BOOLEAN, error : BOOLEAN, timedOut : BOOLEAN]
    BY <2>1 DEF Recorded
  <2> QED BY <2>1, <2>2, <2>3 DEF Recipients
<1>6. CASE EndCycle
  BY <1>6, EndTells
<1>7. CASE ElectorReports \/ ListingStep \/ CycleExpires \/ Tick \/ ExchangeStep
  BY <1>7 DEF ElectorReports, ListingStep, CycleExpires, Tick, ExchangeStep, loop, cycle,
              observed
<1>8. CASE Crash
  BY <1>8 DEF Crash, Unhealthy
<1>9. CASE UNCHANGED vars
  BY <1>9 DEF vars, loop, cycle, observed
<1> QED BY <1>1, <1>2, <1>3, <1>4, <1>5, <1>6, <1>7, <1>8, <1>9 DEF Next, ScanStep

(* Between cycles /healthz is 200 exactly after a cycle that succeeded for   *)
(* every recipient, however many there are.                                  *)
THEOREM HealthTellsCorrect == Spec => []HealthTells
<1>1. HealthInv => HealthTells
  BY DEF HealthInv
<1> QED BY <1>1, HealthInit, HealthNext, PTL DEF Spec
-----------------------------------------------------------------------------
(* Types. *)

ClientTypeOK ==
    /\ open \subseteq Items /\ through \subseteq Items /\ seen \subseteq Items /\ got \subseteq Items
    /\ step \in Fetching \cup {"idle", "listed", "failed"}
    /\ step \in Fetching => pc = "listing"
    /\ cursor \in Items \cup {0} /\ attempt \in 1 .. MaxAttempts
    /\ step = "backoff" => attempt < MaxAttempts
    /\ expired \in BOOLEAN /\ faults \in 0 .. MaxFaults

LoopTypeOK ==
    /\ leader \in BOOLEAN
    /\ pc \in {"idle", "fetch", "listing", "tags", "users", "return", "error"}
    /\ who \in 1 .. N + 1
    /\ events \subseteq Items /\ eventsCache \subseteq Items /\ seriesTags \subseteq Items
    /\ eventsAge \in 0 .. EventsTTL /\ tagsAge \in 0 .. TagsTTL
    /\ stats \in [healthy : BOOLEAN, error : BOOLEAN, timedOut : BOOLEAN]
    /\ reached \subseteq Recipients /\ given \in [Recipients -> SUBSET Items]
    /\ outcome \in {"none", "ok", "failed", "timed out"}

(* The bound on faults is kept. *)
LEMMA FaultCounts ==
    ASSUME faults \in 0 .. MaxFaults, Fault
    PROVE  faults' \in 0 .. MaxFaults
BY ClientAssumption DEF Fault

(* Zeros and ones are in the ranges of the counters. *)
LEMMA Bounds ==
    /\ 0 \in 0 .. MaxFaults /\ 1 \in 1 .. MaxAttempts
    /\ 1 \in 1 .. N + 1
    /\ 0 \in 0 .. EventsTTL /\ EventsTTL \in 0 .. EventsTTL
    /\ 0 \in 0 .. TagsTTL /\ TagsTTL \in 0 .. TagsTTL
BY ClientAssumption, LoopAssumption

(* An age stops at its bound. *)
LEMMA OlderBounded ==
    ASSUME NEW bound \in Nat, NEW age \in 0 .. bound
    PROVE  Older(age, bound) \in 0 .. bound
BY DEF Older

(* Behind a recipient is another, or the end. *)
LEMMA NextWho ==
    ASSUME NEW r \in 1 .. N
    PROVE  r + 1 \in 1 .. N + 1
BY LoopAssumption

(* A cycle begins with nothing given to anyone. *)
LEMMA NoneGiven == [r \in Recipients |-> {}] \in [Recipients -> SUBSET Items]
OBVIOUS

(* A step of the loop keeps the types of the client, and a listing within   *)
(* fetchEvents.                                                              *)
LEMMA ClientTypeNext ==
    ASSUME ClientTypeOK, [Next]_vars
    PROVE  ClientTypeOK'
<1> USE DEF ClientTypeOK, Fetching
<1>1. CASE StartCycle \/ UseCachedEvents \/ ListingReturns \/ RecordCycle \/ EndCycle
  BY <1>1 DEF StartCycle, UseCachedEvents, ListingReturns, RecordCycle, EndCycle,
              clientVars, exchange, client
<1>2. CASE ListEvents
  BY <1>2, Bounds DEF ListEvents, Call
<1>3. CASE ListingStep
  <2>1. pc = "listing" /\ pc' = "listing"
    BY <1>3 DEF ListingStep, loop, cycle
  <2>2. CASE Page
    <3>1. PICK b \in Items \cup {cursor} :
            /\ got' = got \cup Between(cursor, b)
            /\ \E next \in NextCursors(b) :
                  IF next = 0 \/ Between(cursor, b) = {}
                  THEN step' = "listed" /\ UNCHANGED <<cursor, attempt>>
                  ELSE step' = "pause" /\ cursor' = next /\ attempt' = 1
      BY <2>2 DEF Page
    <3>2. cursor' \in Items \cup {0} /\ attempt' \in 1 .. MaxAttempts
      BY <3>1, Bounds DEF NextCursors
    <3>3. got' \subseteq Items
      BY <3>1 DEF Between
    <3>4. step' \in {"listed", "pause"}
      BY <3>1
    <3>5. UNCHANGED <<open, through, seen, expired, faults>>
      BY <2>2 DEF Page, exchange
    <3> QED BY <2>1, <3>2, <3>3, <3>4, <3>5
  <2>3. CASE Transient \/ Permanent
    <3>1. faults' \in 0 .. MaxFaults
      BY <2>3, FaultCounts DEF Transient, Permanent
    <3>2. step' \in {"backoff", "failed"} /\ (step' = "backoff" => attempt < MaxAttempts)
      BY <2>3 DEF Transient, Permanent
    <3>3. UNCHANGED <<open, through, seen, cursor, got, attempt, expired>>
      BY <2>3 DEF Transient, Permanent, exchange
    <3> QED BY <2>1, <3>1, <3>2, <3>3
  <2>4. CASE Retry
    <3>1. attempt' \in 1 .. MaxAttempts
      BY <2>4, ClientAssumption DEF Retry
    <3> QED BY <2>1, <2>4, <3>1 DEF Retry, exchange
  <2>5. CASE Resume \/ CutOff
    BY <2>1, <2>5 DEF Resume, CutOff, exchange
  <2> QED BY <1>3, <2>2, <2>3, <2>4, <2>5 DEF ListingStep, ClientStep
<1>4. CASE RefreshTags
  <2>1. faults' \in 0 .. MaxFaults
    BY <1>4, FaultCounts DEF RefreshTags
  <2> QED BY <1>4, <2>1 DEF RefreshTags, exchange, client
<1>5. CASE ScanUser
  BY <1>5 DEF ScanUser, clientVars, exchange, client
<1>6. CASE ScanUserFails
  <2>1. faults' \in 0 .. MaxFaults
    BY <1>6, FaultCounts DEF ScanUserFails
  <2> QED BY <1>6, <2>1 DEF ScanUserFails, exchange, client
<1>7. CASE ElectorReports
  <2>1. faults' \in 0 .. MaxFaults
    BY <1>7, FaultCounts DEF ElectorReports
  <2> QED BY <1>7, <2>1 DEF ElectorReports, exchange, client, cycle
<1>8. CASE CycleExpires
  <2>1. faults' \in 0 .. MaxFaults
    BY <1>8, FaultCounts DEF CycleExpires
  <2> QED BY <1>8, <2>1 DEF CycleExpires, exchange, client, loop, cycle
<1>9. CASE Tick
  BY <1>9 DEF Tick, clientVars, exchange, client, cycle
<1>10. CASE Crash
  <2>1. faults' \in 0 .. MaxFaults
    BY <1>10, FaultCounts DEF Crash
  <2> QED BY <1>10, <2>1, Bounds DEF Crash
<1>11. CASE ExchangeStep
  <2>1. PICK i \in Items : Trade(i) /\ UNCHANGED loop
    BY <1>11 DEF ExchangeStep
  <2> QED BY <2>1 DEF Trade, client, loop, cycle
<1>12. CASE UNCHANGED vars
  BY <1>12 DEF vars, clientVars, exchange, client, loop, cycle
<1> QED
  BY <1>1, <1>2, <1>3, <1>4, <1>5, <1>6, <1>7, <1>8, <1>9, <1>10, <1>11, <1>12 DEF Next, ScanStep

(* A step of the loop keeps the types of the loop. *)
LEMMA LoopTypeNext ==
    ASSUME ClientTypeOK, LoopTypeOK, [Next]_vars
    PROVE  LoopTypeOK'
<1> USE DEF LoopTypeOK
<1>1. CASE StartCycle
  <2>1. given' \in [Recipients -> SUBSET Items]
    BY <1>1, NoneGiven DEF StartCycle
  <2>2. who' \in 1 .. N + 1
    BY <1>1, Bounds DEF StartCycle
  <2>3. /\ reached' = {} /\ pc' = "fetch"
        /\ UNCHANGED <<leader, events, stats, outcome>>
        /\ UNCHANGED <<eventsCache, eventsAge, seriesTags, tagsAge>>
    BY <1>1 DEF StartCycle, caches
  <2> QED BY <2>1, <2>2, <2>3
<1>2. CASE UseCachedEvents \/ ListEvents
  BY <1>2 DEF UseCachedEvents, ListEvents, caches, observed
<1>3. CASE RecordCycle
  <2>1. stats' \in [healthy : BOOLEAN, error : BOOLEAN, timedOut : BOOLEAN]
    BY <1>3 DEF RecordCycle
  <2> QED BY <1>3, <2>1 DEF RecordCycle, caches, observed
<1>4. CASE ListingReturns
  <2>1. Result \subseteq Items
    BY DEF Result, ClientTypeOK
  <2> QED BY <1>4, <2>1, Bounds DEF ListingReturns, observed
<1>5. CASE RefreshTags
  BY <1>5, Bounds DEF RefreshTags, observed
<1>6. CASE ScanUser
  <2>1. who \in Recipients /\ who' = who + 1 /\ reached' = reached \cup {who}
    BY <1>6 DEF ScanUser
  <2>2. who' \in 1 .. N + 1
    BY <2>1, NextWho DEF Recipients
  <2>3. given' \in [Recipients -> SUBSET Items]
    BY <1>6, <2>1 DEF ScanUser
  <2> QED BY <1>6, <2>1, <2>2, <2>3 DEF ScanUser, caches
<1>7. CASE ScanUserFails
  BY <1>7 DEF ScanUserFails, caches, observed
<1>8. CASE EndCycle
  <2>1. stats' \in [healthy : BOOLEAN, error : BOOLEAN, timedOut : BOOLEAN]
    <3>1. stats' \in {[healthy |-> FALSE, error |-> TRUE, timedOut |-> TRUE],
                      [stats EXCEPT !.healthy = FALSE], [stats EXCEPT !.healthy = TRUE]}
      BY <1>8 DEF EndCycle
    <3>2. CASE stats' = [healthy |-> FALSE, error |-> TRUE, timedOut |-> TRUE]
      BY <3>2
    <3>3. CASE stats' = [stats EXCEPT !.healthy = FALSE]
      BY <3>3
    <3>4. CASE stats' = [stats EXCEPT !.healthy = TRUE]
      BY <3>4
    <3> QED BY <3>1, <3>2, <3>3, <3>4
  <2>2. outcome' \in {"ok", "failed", "timed out"}
    BY <1>8 DEF EndCycle
  <2> QED BY <1>8, <2>1, <2>2 DEF EndCycle, caches
<1>9. CASE ElectorReports
  BY <1>9 DEF ElectorReports, caches, cycle, observed
<1>10. CASE ListingStep \/ CycleExpires \/ ExchangeStep
  BY <1>10 DEF ListingStep, CycleExpires, ExchangeStep, loop, caches, cycle, observed
<1>11. CASE Tick
  <2>1. eventsAge' \in 0 .. EventsTTL
    BY <1>11, OlderBounded, LoopAssumption DEF Tick
  <2>2. tagsAge' \in 0 .. TagsTTL
    BY <1>11, OlderBounded, LoopAssumption DEF Tick
  <2> QED BY <1>11, <2>1, <2>2 DEF Tick, cycle, observed
<1>12. CASE Crash
  BY <1>12, Bounds DEF Crash, Unhealthy
<1>13. CASE UNCHANGED vars
  BY <1>13 DEF vars, loop, caches, cycle, observed
<1> QED
  BY <1>1, <1>2, <1>3, <1>4, <1>5, <1>6, <1>7, <1>8, <1>9, <1>10, <1>11, <1>12,
     <1>13 DEF Next, ScanStep

(* Every variable of the loop and its client keeps its type; a listing runs  *)
(* only within fetchEvents.                                                  *)
THEOREM TypeCorrect == Spec => []TypeOK
<1>1. Init => ClientTypeOK /\ LoopTypeOK
  <2> SUFFICES ASSUME Init PROVE ClientTypeOK /\ LoopTypeOK
    OBVIOUS
  <2>1. ClientTypeOK
    BY Bounds DEF Init, InitClient, ClientTypeOK, Fetching
  <2>2. LoopTypeOK
    BY Bounds, NoneGiven DEF Init, Unhealthy, LoopTypeOK
  <2> QED BY <2>1, <2>2
<1>2. ClientTypeOK /\ LoopTypeOK /\ [Next]_vars => (ClientTypeOK /\ LoopTypeOK)'
  BY ClientTypeNext, LoopTypeNext
<1>3. ClientTypeOK /\ LoopTypeOK => TypeOK
  BY DEF ClientTypeOK, LoopTypeOK, TypeOK
<1> QED BY <1>1, <1>2, <1>3, PTL DEF Spec
=============================================================================
