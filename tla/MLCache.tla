------------------------------- MODULE MLCache -------------------------------
(***************************************************************************)
(* The model cache of MLScorer for one user, and the feedback that should  *)
(* reach it.                                                               *)
(*                                                                         *)
(* The scanner of a process scores markets for a user who opted in to      *)
(* enhanced suggestions with a model trained from suggestion_records.      *)
(* modelFor looks the model up under a mutex, but loads the examples and   *)
(* trains outside of it, and then stores the model whatever happened       *)
(* meanwhile.  A label is first dropped on the cache (Feed: Invalidate)    *)
(* and only then recorded (Append), by the scanner itself or by a web      *)
(* goroutine, in this process or in another one, whose cache is its own.   *)
(*                                                                         *)
(* Data abstraction: a model is the set of labels it was trained with; a   *)
(* missing entry of the cache is one whose age has reached TTL.  The label *)
(* in the user's row and the counters, which Feed updates first, are in    *)
(* AlertPipeline.  Labels join suggestions that are recorded already.      *)
(***************************************************************************)
EXTENDS Naturals, FiniteSets

CONSTANTS
    Labels,         \* answers and detected purchases, one per suggestion
    Processes,      \* the replicas
    MinExamples,    \* ML_MIN_TRAINING_EXAMPLES
    TTL,            \* 5 minutes: how long a model is used
    MaxLoad,        \* longest time from a query to the storing of its model:
                    \* both run under the context of a cycle
    MaxFaults       \* bound: failing statements and crashes together

ASSUME CacheAssumption ==
    MinExamples \in Nat \ {0} /\ TTL \in Nat \ {0} /\ MaxLoad \in Nat /\ MaxFaults \in Nat

VARIABLES
    \* in the database
    records,    \* the labels in suggestion_records
    enhanced,   \* whether the user opted in
    \* in the processes
    model,      \* model[p]: the labels the cached model of p was trained with
    age,        \* age[p]: time since that model was stored, up to TTL
    pc,         \* pc[p]: where the scanner of p is in modelFor
    loaded,     \* loaded[p]: the labels it has loaded
    loadAge,    \* loadAge[p]: time since they were queried
    feed,       \* feed[l]: how far the goroutine that handles l is
    home,       \* home[l]: the process of that goroutine
    \* bound, and what an observer knows
    faults,
    since,      \* since[l]: time since l was recorded, up to Horizon
    raced,      \* labels whose Feed and Append overlapped the last load of
                \* examples in their process
    scored      \* scored[p]: what the last score of p came from

user == <<records, enhanced>>
scanner == <<pc, loaded, loadAge>>
cache == <<model, age>>
feedback == <<feed, home>>
vars == <<user, cache, scanner, feedback, faults, since, raced, scored>>

Horizon == TTL + MaxLoad
Usable(p) == age[p] < TTL

Init ==
    /\ records = {} /\ enhanced = FALSE
    /\ model = [p \in Processes |-> {}] /\ age = [p \in Processes |-> TTL]
    /\ pc = [p \in Processes |-> "idle"]
    /\ loaded = [p \in Processes |-> {}] /\ loadAge = [p \in Processes |-> 0]
    /\ feed = [l \in Labels |-> "none"] /\ home \in [Labels -> Processes]
    /\ faults = 0 /\ since = [l \in Labels |-> 0] /\ raced = {}
    /\ scored = [p \in Processes |-> "nothing"]

Fault == faults < MaxFaults /\ faults' = faults + 1
-----------------------------------------------------------------------------
(* Feedback. *)

Drops(p) == age' = [age EXCEPT ![p] = TTL]

\* Mutant: Feed without its second line.
InvalidateNothing(l) ==
    /\ feed[l] = "none"
    /\ feed' = [feed EXCEPT ![l] = "fed"]
    /\ raced' = IF pc[home[l]] = "train" THEN raced \cup {l} ELSE raced
    /\ UNCHANGED <<user, cache, home, scanner, faults, since, scored>>

\* Feed: the counters are updated, then the user's cached model is dropped.
Invalidate(l) ==
    /\ feed[l] = "none"
    /\ feed' = [feed EXCEPT ![l] = "fed"]
    /\ Drops(home[l])
    /\ raced' = IF pc[home[l]] = "train" THEN raced \cup {l} ELSE raced
    /\ UNCHANGED <<user, model, home, scanner, faults, since, scored>>

\* Append inserts the label; an error is logged and the label is not counted.
Record(l) ==
    /\ feed[l] = "fed"
    /\ \/ UNCHANGED faults /\ records' = records \cup {l} /\ feed' = [feed EXCEPT ![l] = "over"]
       \/ Fault /\ UNCHANGED records /\ feed' = [feed EXCEPT ![l] = "lost"]
    /\ UNCHANGED <<enhanced, cache, home, scanner, since, raced, scored>>

\* ENHANCED ON and OFF, by text or by link.
ToggleEnhanced ==
    /\ enhanced' = ~enhanced
    /\ UNCHANGED <<records, cache, scanner, feedback, faults, since, raced, scored>>
-----------------------------------------------------------------------------
(* Scoring of one market. *)

\* A model is used when it was trained with enough examples; else the counters.
Scores(p, known) ==
    scored' = [scored EXCEPT ![p] =
        IF Cardinality(known) >= MinExamples THEN "model" ELSE "counters"]

\* The user did not opt in, or the View that asks fails: the counters score.
ScoreByCounters(p) ==
    /\ pc[p] = "idle"
    /\ (~enhanced /\ UNCHANGED faults) \/ Fault
    /\ scored' = [scored EXCEPT ![p] = "counters"]
    /\ UNCHANGED <<user, cache, scanner, feedback, since, raced>>

\* Mutant: a hit renews the entry (a sliding expiry).
HitRenewing(p) ==
    /\ pc[p] = "idle" /\ enhanced
    /\ Usable(p)
    /\ age' = [age EXCEPT ![p] = 0]
    /\ Scores(p, model[p])
    /\ UNCHANGED <<user, model, scanner, feedback, faults, since, raced>>

\* modelFor finds an entry younger than TTL.
Hit(p) ==
    /\ pc[p] = "idle" /\ enhanced
    /\ Usable(p)
    /\ Scores(p, model[p])
    /\ UNCHANGED <<user, cache, scanner, feedback, faults, since, raced>>

\* modelFor finds none, and unlocks.
Miss(p) ==
    /\ pc[p] = "idle" /\ enhanced
    /\ ~Usable(p)
    /\ pc' = [pc EXCEPT ![p] = "load"]
    /\ UNCHANGED <<user, cache, loaded, loadAge, feedback, faults, since, raced, scored>>

\* Mutant: the examples come from the labels of the user's row.
LoadFromRow(p) ==
    /\ pc[p] = "load"
    /\ pc' = [pc EXCEPT ![p] = "train"]
    /\ loaded' = [loaded EXCEPT ![p] = {l \in Labels : feed[l] # "none"}]
    /\ loadAge' = [loadAge EXCEPT ![p] = 0]
    /\ UNCHANGED <<user, cache, feedback, faults, since, raced, scored>>

\* LoadTrainingExamples: the query sees what is recorded at one instant.
Load(p) ==
    /\ pc[p] = "load"
    /\ pc' = [pc EXCEPT ![p] = "train"]
    /\ loaded' = [loaded EXCEPT ![p] = records]
    /\ loadAge' = [loadAge EXCEPT ![p] = 0]
    /\ raced' = {l \in raced : home[l] = p => l \notin records}
                  \cup {l \in Labels : home[l] = p /\ feed[l] = "fed"}
    /\ UNCHANGED <<user, cache, feedback, faults, since, scored>>

\* The query fails: the counters score this market.
LoadFails(p) ==
    /\ pc[p] = "load" /\ Fault
    /\ pc' = [pc EXCEPT ![p] = "idle"]
    /\ scored' = [scored EXCEPT ![p] = "counters"]
    /\ UNCHANGED <<user, cache, loaded, loadAge, feedback, since, raced>>

\* The model is trained and stored, also when there are too few examples.
Store(p) ==
    /\ pc[p] = "train"
    /\ model' = [model EXCEPT ![p] = loaded[p]]
    /\ age' = [age EXCEPT ![p] = 0]
    /\ pc' = [pc EXCEPT ![p] = "idle"]
    /\ Scores(p, loaded[p])
    /\ UNCHANGED <<user, loaded, loadAge, feedback, faults, since, raced>>
-----------------------------------------------------------------------------
Older(t, bound) == IF t < bound THEN t + 1 ELSE bound

\* Time passes; a model is trained and stored within MaxLoad of its query.
Tick ==
    /\ \A p \in Processes : pc[p] = "train" => loadAge[p] < MaxLoad
    /\ age' = [p \in Processes |-> Older(age[p], TTL)]
    /\ loadAge' = [p \in Processes |-> Older(loadAge[p], MaxLoad)]
    /\ since' = [l \in Labels |->
                    IF l \in records THEN Older(since[l], Horizon) ELSE since[l]]
    /\ UNCHANGED <<user, model, pc, loaded, feedback, faults, raced, scored>>

\* A process dies and restarts: its cache is empty, its goroutines are gone.
Crash(p) ==
    /\ Fault
    /\ Drops(p)
    /\ pc' = [pc EXCEPT ![p] = "idle"]
    /\ feed' = [l \in Labels |->
                    IF home[l] = p /\ feed[l] = "fed" THEN "lost" ELSE feed[l]]
    /\ UNCHANGED <<user, model, loaded, loadAge, home, since, raced, scored>>

ScanStep(p) == ScoreByCounters(p) \/ Hit(p) \/ Miss(p) \/ Load(p) \/ LoadFails(p) \/ Store(p)

Next ==
    \/ \E l \in Labels : Invalidate(l) \/ Record(l)
    \/ \E p \in Processes : ScanStep(p) \/ Crash(p)
    \/ ToggleEnhanced \/ Tick

Spec == Init /\ [][Next]_vars
-----------------------------------------------------------------------------
(* Type invariant: what is loaded or cached was recorded, and a label is    *)
(* recorded by the goroutine that handles it.                               *)
TypeOK ==
    /\ records \in SUBSET Labels /\ enhanced \in BOOLEAN
    /\ model \in [Processes -> SUBSET records] /\ age \in [Processes -> 0 .. TTL]
    /\ pc \in [Processes -> {"idle", "load", "train"}]
    /\ loaded \in [Processes -> SUBSET records] /\ loadAge \in [Processes -> 0 .. MaxLoad]
    /\ feed \in [Labels -> {"none", "fed", "over", "lost"}] /\ home \in [Labels -> Processes]
    /\ \A l \in Labels : l \in records <=> feed[l] = "over"
    /\ faults \in 0 .. MaxFaults /\ since \in [Labels -> 0 .. Horizon]
    /\ raced \in SUBSET Labels
    /\ scored \in [Processes -> {"nothing", "counters", "model"}]

(* No model in use misses a label that was recorded TTL and the time of a   *)
(* training ago, whatever overlaps: also a label of another process, which  *)
(* does not invalidate this one's cache (modelFor's expiry).                *)
ModelIsRecent ==
    \A p \in Processes, l \in records :
        Usable(p) /\ l \notin model[p] => since[l] < Horizon

(* A label handled in the scanner's own process is in every model it uses   *)
(* from the moment it is recorded, unless the last load of the examples     *)
(* overlapped its Feed and Append: then the stale model stands until it     *)
(* expires (ml_scorer.go:71, and commands.go:384 before 385).               *)
OwnLabelsCount ==
    \A p \in Processes, l \in records :
        Usable(p) /\ home[l] = p /\ l \notin raced => l \in model[p]
=============================================================================
