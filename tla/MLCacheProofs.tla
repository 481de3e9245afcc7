---------------------------- MODULE MLCacheProofs ----------------------------
(***************************************************************************)
(* Proofs about MLCache: what the cached model may miss, for any labels,   *)
(* processes and times.                                                    *)
(***************************************************************************)
EXTENDS MLCache, TLAPS

\* A model in use is as old as its entry and the load before it; one in
\* training, as old as its load.
RecentInv ==
    /\ \A l \in Labels : l \notin records => since[l] = 0
    /\ \A p \in Processes, l \in records :
          /\ Usable(p) /\ l \notin model[p] => since[l] =< age[p] + MaxLoad
          /\ pc[p] = "train" /\ l \notin loaded[p] => since[l] =< loadAge[p]

\* The scanner loads only when it has no model in use.  Where no load overlapped
\* them, a label that is not recorded yet finds neither a model nor a training,
\* and a recorded one is in both.
OwnInv ==
    /\ \A p \in Processes : pc[p] # "idle" => ~Usable(p)
    /\ \A l \in Labels : l \notin raced =>
          /\ feed[l] = "fed" => ~Usable(home[l]) /\ pc[home[l]] # "train"
          /\ l \in records =>
                /\ Usable(home[l]) => l \in model[home[l]]
                /\ pc[home[l]] = "train" => l \in loaded[home[l]]

-----------------------------------------------------------------------------
(* Only the scanner's steps, Drops and Tick touch the cache; each lemma has *)
(* a step per action.                                                       *)

LEMMA TypeStep ==
    ASSUME TypeOK, [Next]_vars
    PROVE  TypeOK'
<1> USE CacheAssumption DEF TypeOK, Horizon, user, cache, scanner, feedback
<1>1. CASE \E l \in Labels : Invalidate(l)
  BY <1>1 DEF Invalidate, Drops
<1>2. CASE \E l \in Labels : Record(l)
  <2>1. PICK l \in Labels : Record(l)
    BY <1>2
  <2>2. records \subseteq records' /\ records' \in SUBSET Labels
    BY <2>1 DEF Record
  <2>3. /\ feed' \in [Labels -> {"none", "fed", "over", "lost"}]
        /\ \A k \in Labels : k \in records' <=> feed'[k] = "over"
    BY <2>1 DEF Record
  <2>4. faults' \in 0 .. MaxFaults
    BY <2>1 DEF Record, Fault
  <2> QED BY <2>1, <2>2, <2>3, <2>4 DEF Record
<1>3. ASSUME NEW p \in Processes, ScanStep(p)
      PROVE  TypeOK'
  <2>1. CASE ScoreByCounters(p)
    BY <2>1 DEF ScoreByCounters, Fault
  <2>2. CASE Hit(p)
    BY <2>2 DEF Hit, Scores
  <2>3. CASE Miss(p)
    BY <2>3 DEF Miss
  <2>4. CASE Load(p)
    BY <2>4 DEF Load
  <2>5. CASE LoadFails(p)
    BY <2>5 DEF LoadFails, Fault
  <2>6. CASE Store(p)
    BY <2>6 DEF Store, Scores
  <2> QED BY <1>3, <2>1, <2>2, <2>3, <2>4, <2>5, <2>6 DEF ScanStep
<1>4. CASE \E p \in Processes : Crash(p)
  BY <1>4 DEF Crash, Fault, Drops
<1>5. CASE ToggleEnhanced
  BY <1>5 DEF ToggleEnhanced
<1>6. CASE Tick
  BY <1>6 DEF Tick, Older
<1>7. CASE UNCHANGED vars
  BY <1>7 DEF vars
<1> QED BY <1>1, <1>2, <1>3, <1>4, <1>5, <1>6, <1>7 DEF Next

LEMMA RecentStep ==
    ASSUME TypeOK, RecentInv, [Next]_vars
    PROVE  RecentInv'
<1> USE CacheAssumption DEF TypeOK, RecentInv, Usable, Horizon, user, cache, scanner, feedback
<1>1. CASE \E l \in Labels : Invalidate(l)
  BY <1>1 DEF Invalidate, Drops
<1>2. CASE \E l \in Labels : Record(l)
  BY <1>2 DEF Record
<1>3. ASSUME NEW p \in Processes, ScanStep(p)
      PROVE  RecentInv'
  <2>1. CASE ScoreByCounters(p) \/ Hit(p) \/ Miss(p) \/ LoadFails(p)
    BY <2>1 DEF ScoreByCounters, Hit, Miss, LoadFails
  <2>2. CASE Load(p)
    BY <2>2 DEF Load
  <2>3. CASE Store(p)
    BY <2>3 DEF Store
  <2> QED BY <1>3, <2>1, <2>2, <2>3 DEF ScanStep
<1>4. CASE \E p \in Processes : Crash(p)
  BY <1>4 DEF Crash, Drops
<1>5. CASE ToggleEnhanced
  BY <1>5 DEF ToggleEnhanced
<1>6. CASE Tick
  BY <1>6 DEF Tick, Older
<1>7. CASE UNCHANGED vars
  BY <1>7 DEF vars
<1> QED BY <1>1, <1>2, <1>3, <1>4, <1>5, <1>6, <1>7 DEF Next

LEMMA OwnStep ==
    ASSUME TypeOK, OwnInv, [Next]_vars
    PROVE  OwnInv'
<1> USE CacheAssumption DEF TypeOK, OwnInv, Usable, user, cache, scanner, feedback
<1>1. CASE \E l \in Labels : Invalidate(l)
  BY <1>1 DEF Invalidate, Drops
<1>2. CASE \E l \in Labels : Record(l)
  BY <1>2 DEF Record
<1>3. ASSUME NEW p \in Processes, ScanStep(p)
      PROVE  OwnInv'
  <2>1. CASE ScoreByCounters(p) \/ Hit(p) \/ Miss(p) \/ LoadFails(p)
    BY <2>1 DEF ScoreByCounters, Hit, Miss, LoadFails
  <2>2. CASE Load(p)
    BY <2>2 DEF Load
  <2>3. CASE Store(p)
    BY <2>3 DEF Store
  <2> QED BY <1>3, <2>1, <2>2, <2>3 DEF ScanStep
<1>4. CASE \E p \in Processes : Crash(p)
  BY <1>4 DEF Crash, Drops
<1>5. CASE ToggleEnhanced
  BY <1>5 DEF ToggleEnhanced
<1>6. CASE Tick
  BY <1>6 DEF Tick, Older
<1>7. CASE UNCHANGED vars
  BY <1>7 DEF vars
<1> QED BY <1>1, <1>2, <1>3, <1>4, <1>5, <1>6, <1>7 DEF Next

LEMMA InitHolds == Init => TypeOK /\ RecentInv /\ OwnInv
<1> SUFFICES ASSUME Init
             PROVE  TypeOK /\ RecentInv /\ OwnInv
  OBVIOUS
<1>1. \A p \in Processes : age[p] = TTL /\ pc[p] = "idle" /\ model[p] = {} /\ loaded[p] = {}
  BY DEF Init
<1>2. \A l \in Labels : feed[l] = "none" /\ since[l] = 0
  BY DEF Init
<1>3. TypeOK
  <2>1. TTL \in 0 .. TTL /\ 0 \in 0 .. MaxLoad /\ 0 \in 0 .. Horizon /\ 0 \in 0 .. MaxFaults
    BY CacheAssumption DEF Horizon
  <2>2. /\ model \in [Processes -> SUBSET records] /\ age \in [Processes -> 0 .. TTL]
        /\ loaded \in [Processes -> SUBSET records] /\ loadAge \in [Processes -> 0 .. MaxLoad]
        /\ since \in [Labels -> 0 .. Horizon]
    BY <2>1 DEF Init
  <2>3. \A l \in Labels : l \in records <=> feed[l] = "over"
    BY <1>2 DEF Init
  <2> QED BY <2>1, <2>2, <2>3 DEF Init, TypeOK
<1>4. RecentInv
  BY <1>2 DEF Init, RecentInv
<1>5. OwnInv
  BY <1>1, <1>2 DEF Init, OwnInv
<1> QED BY <1>3, <1>4, <1>5

(* The cache's state is well typed, and a model holds recorded labels only.  *)
THEOREM TypeCorrect == Spec => []TypeOK
<1>1. TypeOK /\ [Next]_vars => TypeOK'
  BY TypeStep
<1> QED BY <1>1, InitHolds, PTL DEF Spec

(* A model in use misses only labels younger than TTL and a training.       *)
THEOREM ModelIsRecentCorrect == Spec => []ModelIsRecent
<1>1. TypeOK /\ RecentInv /\ [Next]_vars => RecentInv'
  BY RecentStep
<1>2. TypeOK /\ RecentInv => ModelIsRecent
  BY CacheAssumption DEF TypeOK, RecentInv, ModelIsRecent, Usable, Horizon
<1> QED BY <1>1, <1>2, InitHolds, TypeCorrect, PTL DEF Spec

(* A label of the scanner's own process is in the model, unless the load of  *)
(* the examples overlapped the recording of it.                             *)
THEOREM OwnLabelsCountCorrect == Spec => []OwnLabelsCount
<1>1. TypeOK /\ OwnInv /\ [Next]_vars => OwnInv'
  BY OwnStep
<1>2. TypeOK /\ OwnInv => OwnLabelsCount
  BY DEF TypeOK, OwnInv, OwnLabelsCount
<1> QED BY <1>1, <1>2, InitHolds, TypeCorrect, PTL DEF Spec
=============================================================================
