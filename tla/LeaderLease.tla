---------------------------- MODULE LeaderLease ----------------------------
(***************************************************************************)
(* leader.Elector: the lease in table scanner_locks that decides which     *)
(* replica scans, and the scanner's use of it.                             *)
(*                                                                         *)
(* RunLoop calls TryAcquire at once and then whenever its ticker fires.    *)
(* TryAcquire reads the row and either inserts it, or renews or takes it   *)
(* over with a guarded UPDATE, or gives up; RunLoop stores the answer in   *)
(* isLeader, an error counting as "not leader".  The scanner loop reads    *)
(* isLeader only before a cycle.                                           *)
(*                                                                         *)
(* Time is a countdown: left is the time until the row's expires_at, timer *)
(* the time until a ticker fires, age the time since TryAcquire read the   *)
(* clock.  One unit is any fixed fraction of the ticker's interval, and    *)
(* Skew[i] is how far i's clock runs ahead.  Two instants of the same unit *)
(* may compare either way, so also do the RFC3339Nano strings the UPDATE   *)
(* compares, which misorder instants of one second only.                   *)
(***************************************************************************)
EXTENDS Integers, FiniteSets

CONSTANTS
    Instances,      \* the instance ids that may run
    StableIds,      \* those set by INSTANCE_ID, which a restart keeps
    Nobody,         \* the holder when the table has no row
    TTL,            \* 30 s: the lease
    Interval,       \* 10 s: RunLoop's ticker
    MaxLag,         \* bound: units from reading the clock to storing isLeader
    Drift, Skew,    \* clocks run at most Drift ahead of the slowest
    MaxErrors,      \* bound: failing TryAcquire calls
    MaxCrashes      \* bound: crashes and shutdowns

\* MaxLag is an assumption about the database: TryAcquire has no deadline.
ASSUME LeaseAssumption ==
    /\ StableIds \subseteq Instances
    /\ Nobody \notin Instances
    /\ Interval \in Nat \ {0} /\ TTL \in Nat /\ TTL >= Interval
    /\ MaxLag \in Nat /\ MaxLag < Interval
    /\ Drift \in Nat /\ Skew \in [Instances -> 0 .. Drift]
    /\ MaxErrors \in Nat /\ MaxCrashes \in Nat

VARIABLES
    \* in the database: the row of scanner_locks
    holder, left,
    \* in the processes
    pc,         \* pc[i]: where the elector's goroutine is
    age,        \* age[i]: time since the running TryAcquire read the clock
    timer,      \* timer[i]: time until RunLoop's ticker fires
    due,        \* the instances with a tick in the ticker's channel
    leaders,    \* the instances whose isLeader is true
    scanning,   \* the instances in a scan cycle
    \* bounds, and what an observer knows
    errors, crashes,
    gone,       \* generated ids whose process has ended
    sure        \* sure[i]: time left of the lease i was last told it holds

row == <<holder, left>>
process == <<pc, age, timer, due, leaders, scanning>>
vars == <<holder, left, pc, age, timer, due, leaders, scanning,
          errors, crashes, gone, sure>>

Steps == {"down", "wait", "select", "insert", "update", "won", "lost"}
Trying == {"select", "insert", "update", "won", "lost"}
Live == {i \in Instances : pc[i] # "down"}

\* How long expiry is tracked past: below it every comparison has one answer.
Floor == -(MaxLag + 1)
Sooner(n) == IF n > Floor THEN n - 1 ELSE n
Count(n) == IF n > 0 THEN n - 1 ELSE 0

Init ==
    /\ holder = Nobody /\ left = Floor
    /\ pc = [i \in Instances |-> "down"]
    /\ age = [i \in Instances |-> 0]
    /\ timer = [i \in Instances |-> Interval]
    /\ due = {} /\ leaders = {} /\ scanning = {}
    /\ errors = 0 /\ crashes = 0 /\ gone = {}
    /\ sure = [i \in Instances |-> 0]

\* A replica starts: isLeader is false, and RunLoop tries at once.
Boot(i) ==
    /\ pc[i] = "down" /\ i \notin gone
    /\ pc' = [pc EXCEPT ![i] = "wait"]
    /\ timer' = [timer EXCEPT ![i] = Interval]
    /\ due' = due \cup {i}
    /\ UNCHANGED <<holder, left, age, leaders, scanning, errors, crashes, gone, sure>>

\* TryAcquire reads the clock and opens a transaction.
Begin(i) ==
    /\ pc[i] = "wait" /\ i \in due
    /\ pc' = [pc EXCEPT ![i] = "select"]
    /\ age' = [age EXCEPT ![i] = 0]
    /\ due' = due \ {i}
    /\ UNCHANGED <<holder, left, timer, leaders, scanning, errors, crashes, gone, sure>>

\* What the SELECT of holder_id and expires_at decides, by i's clock now.
Select(i) ==
    /\ pc[i] = "select"
    /\ \/ /\ holder = Nobody
          /\ pc' = [pc EXCEPT ![i] = "insert"]
       \/ /\ holder = i \/ (holder # Nobody /\ left <= Skew[i])
          /\ pc' = [pc EXCEPT ![i] = "update"]
       \/ /\ holder \notin {i, Nobody} /\ left >= Skew[i]
          /\ pc' = [pc EXCEPT ![i] = "lost"]
    /\ UNCHANGED <<holder, left, age, timer, due, leaders, scanning, errors,
                   crashes, gone, sure>>

\* Mutant: a lease is written to run from the next renewal.
WriteLeaseLate(i) ==
    /\ holder' = i
    /\ left' = TTL + Skew[i] - age[i] + Interval

\* Mutant: a renewal leaves expires_at as it was.
WriteLeaseRenewingNothing(i) ==
    /\ holder' = i
    /\ left' = IF holder = i THEN left ELSE TTL + Skew[i] - age[i]

\* The row as TryAcquire writes it: expires_at is ttl after it read the clock.
WriteLease(i) ==
    /\ holder' = i
    /\ left' = TTL + Skew[i] - age[i]

\* INSERT: the primary key refuses a second row.
InsertMatches(i) == pc[i] = "insert" /\ holder = Nobody
InsertRefused(i) == pc[i] = "insert" /\ holder # Nobody

\* Mutant: UPDATE ... WHERE lock_name = ? alone.
UpdateMatchesAny(i) == pc[i] = "update" /\ holder # Nobody

\* Mutant: UPDATE ... WHERE holder_id = ?, nothing about expiry.
UpdateMatchesOwn(i) == pc[i] = "update" /\ holder = i

\* UPDATE ... WHERE holder_id = ? OR expires_at < ?
UpdateMatches(i) ==
    /\ pc[i] = "update"
    /\ holder = i \/ (holder # Nobody /\ left <= Skew[i] - age[i])
UpdateMisses(i) ==
    /\ pc[i] = "update"
    /\ holder # i /\ left >= Skew[i] - age[i]

\* The write transaction commits and is acknowledged.
Win(i) ==
    /\ InsertMatches(i) \/ UpdateMatches(i)
    /\ WriteLease(i)
    /\ pc' = [pc EXCEPT ![i] = "won"]
    /\ UNCHANGED <<age, timer, due, leaders, scanning, errors, crashes, gone, sure>>

\* Another replica was there first.
Lose(i) ==
    /\ InsertRefused(i) \/ UpdateMisses(i)
    /\ pc' = [pc EXCEPT ![i] = "lost"]
    /\ UNCHANGED <<holder, left, age, timer, due, leaders, scanning, errors,
                   crashes, gone, sure>>

\* A statement fails, or a commit whose outcome TryAcquire never learns.
Fault(i) ==
    /\ errors < MaxErrors
    /\ errors' = errors + 1
    /\ pc[i] \in {"select", "insert", "update"}
    /\ \/ UNCHANGED row
       \/ (InsertMatches(i) \/ UpdateMatches(i)) /\ WriteLease(i)
    /\ pc' = [pc EXCEPT ![i] = "lost"]
    /\ UNCHANGED <<age, timer, due, leaders, scanning, crashes, gone, sure>>

\* Mutant: a failed attempt leaves isLeader as it was.
AnswerKeepingFlag(i) ==
    /\ pc[i] \in {"won", "lost"}
    /\ pc' = [pc EXCEPT ![i] = "wait"]
    /\ IF pc[i] = "won"
       THEN /\ leaders' = leaders \cup {i}
            /\ sure' = [sure EXCEPT ![i] = TTL + Skew[i] - age[i]]
       ELSE UNCHANGED <<leaders, sure>>
    /\ UNCHANGED <<holder, left, age, timer, due, scanning, errors, crashes, gone>>

\* RunLoop stores the answer through onLeadership.
Answer(i) ==
    /\ pc[i] \in {"won", "lost"}
    /\ pc' = [pc EXCEPT ![i] = "wait"]
    /\ IF pc[i] = "won"
       THEN /\ leaders' = leaders \cup {i}
            /\ sure' = [sure EXCEPT ![i] = TTL + Skew[i] - age[i]]
       ELSE /\ leaders' = leaders \ {i}
            /\ UNCHANGED sure
    /\ UNCHANGED <<holder, left, age, timer, due, scanning, errors, crashes, gone>>

\* Scanner.Run: if isLeader() then cycle, however long it takes.
StartCycle(i) ==
    /\ i \in leaders /\ i \notin scanning
    /\ scanning' = scanning \cup {i}
    /\ UNCHANGED <<holder, left, pc, age, timer, due, leaders, errors, crashes, gone, sure>>

EndCycle(i) ==
    /\ i \in scanning
    /\ scanning' = scanning \ {i}
    /\ UNCHANGED <<holder, left, pc, age, timer, due, leaders, errors, crashes, gone, sure>>

\* The process ends, by a crash or a shutdown: the row is not released, and a
\* generated instance id never comes back.
Crash(i) ==
    /\ pc[i] # "down" /\ crashes < MaxCrashes
    /\ crashes' = crashes + 1
    /\ pc' = [pc EXCEPT ![i] = "down"]
    /\ due' = due \ {i} /\ leaders' = leaders \ {i} /\ scanning' = scanning \ {i}
    /\ gone' = IF i \in StableIds THEN gone ELSE gone \cup {i}
    /\ sure' = [sure EXCEPT ![i] = 0]
    /\ age' = [age EXCEPT ![i] = 0]
    /\ UNCHANGED <<holder, left, timer, errors>>

\* One unit of time passes.  A ticker's receiver runs before the next unit,
\* and no attempt lasts longer than MaxLag.
Tick ==
    /\ \A i \in Instances : pc[i] = "wait" => i \notin due
    /\ \A i \in Instances : pc[i] \in Trying => age[i] < MaxLag
    /\ left' = Sooner(left)
    /\ sure' = [i \in Instances |-> Count(sure[i])]
    /\ age' = [i \in Instances |-> IF pc[i] \in Trying THEN age[i] + 1 ELSE age[i]]
    /\ timer' = [i \in Instances |->
          IF i \in Live /\ timer[i] > 1 THEN timer[i] - 1 ELSE Interval]
    /\ due' = due \cup {i \in Live : timer[i] = 1}
    /\ UNCHANGED <<holder, pc, leaders, scanning, errors, crashes, gone>>

Next ==
    \/ \E i \in Instances :
          \/ Boot(i) \/ Begin(i) \/ Select(i) \/ Win(i) \/ Lose(i) \/ Fault(i)
          \/ Answer(i) \/ StartCycle(i) \/ EndCycle(i) \/ Crash(i)
    \/ Tick

Spec == Init /\ [][Next]_vars

\* Time passes, goroutines run, and the platform restarts a process.
Fairness ==
    /\ WF_vars(Tick)
    /\ \A i \in Instances :
          WF_vars(Boot(i) \/ Begin(i) \/ Select(i) \/ Win(i) \/ Lose(i) \/ Answer(i))

FairSpec == Spec /\ Fairness
-----------------------------------------------------------------------------
(* Type invariant. *)
TypeOK ==
    /\ holder \in Instances \cup {Nobody}
    /\ left \in Floor .. (TTL + Drift)
    /\ pc \in [Instances -> Steps]
    /\ age \in [Instances -> 0 .. MaxLag]
    /\ timer \in [Instances -> 1 .. Interval]
    /\ due \subseteq Live /\ leaders \subseteq Live /\ scanning \subseteq Live
    /\ errors \in 0 .. MaxErrors /\ crashes \in 0 .. MaxCrashes
    /\ gone \subseteq Instances
    /\ sure \in [Instances -> 0 .. (TTL + Drift)]

(* A replica that was told it holds the lease is the holder of the row, for *)
(* as long as no clock can have reached the expiry it was told: TryAcquire  *)
(* never takes over a lease early, however two attempts interleave.         *)
LeaseHonoured ==
    \A i \in Instances : sure[i] > Drift => holder = i /\ left >= sure[i]

(* isLeader is true in one replica at a time: a replica whose lease has     *)
(* lapsed has cleared it before another can win.  It takes a lease longer   *)
(* than the interval, a slow attempt and the clock drift together.          *)
OneLeader ==
    \A i, j \in leaders : i = j

(* Until an attempt fails or its process ends, a leader stays leader: it    *)
(* renews before another replica may take the lease.                        *)
NotDeposed ==
    [][\A i \in leaders : errors' = 0 /\ crashes' = crashes => i \in leaders']_vars

(* A scan cycle starts only in the replica that holds an unexpired lease.   *)
CycleStartsLeased ==
    [][\A i \in Instances :
          i \in scanning' /\ i \notin scanning => holder = i /\ left > 0]_vars

(* If a replica stays up, there is a leader in the end, and it stays: the   *)
(* lease of a dead one does not block the others.                           *)
LeaderEmerges ==
    <>[](Live # {}) => <>[](Cardinality(leaders) = 1)

(* "so only one instance scans" (leader.go:14).                             *)
OneScanner ==
    \A i, j \in scanning : i = j
=============================================================================
