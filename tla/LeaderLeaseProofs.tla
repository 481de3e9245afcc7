------------------------- MODULE LeaderLeaseProofs -------------------------
(***************************************************************************)
(* Proofs about LeaderLease, for any number of instances and any clocks    *)
(* within Drift of each other.                                             *)
(*                                                                         *)
(* LeaseHonoured needs nothing of the timing: the guarded UPDATE is enough.*)
(* That isLeader is true in one place at a time needs the lease to outlast *)
(* the ticker's interval, a slow attempt and the drift (LongLease).        *)
(***************************************************************************)
EXTENDS LeaderLease, TLAPS

LongLease == TTL > Interval + MaxLag + Drift

USE LeaseAssumption DEF LeaseAssumption

-----------------------------------------------------------------------------
(* Types. *)

(* Every step keeps the types. *)
LEMMA TypeNext == TypeOK /\ [Next]_vars => TypeOK'
<1> SUFFICES ASSUME TypeOK, [Next]_vars PROVE TypeOK'
  OBVIOUS
<1> USE DEF TypeOK, Steps, Live, Floor
<1>1. ASSUME NEW i \in Instances, Boot(i) PROVE TypeOK'
  BY <1>1 DEF Boot
<1>2. ASSUME NEW i \in Instances, Begin(i) PROVE TypeOK'
  BY <1>2 DEF Begin
<1>3. ASSUME NEW i \in Instances, Select(i) PROVE TypeOK'
  BY <1>3 DEF Select
<1>4. ASSUME NEW i \in Instances, Win(i) PROVE TypeOK'
  BY <1>4 DEF Win, WriteLease, InsertMatches, UpdateMatches
<1>5. ASSUME NEW i \in Instances, Lose(i) PROVE TypeOK'
  BY <1>5 DEF Lose, InsertRefused, UpdateMisses
<1>6. ASSUME NEW i \in Instances, Fault(i) PROVE TypeOK'
  <2>1. holder' \in Instances \cup {Nobody} /\ left' \in Floor .. (TTL + Drift)
    BY <1>6 DEF Fault, WriteLease, row
  <2> QED BY <1>6, <2>1 DEF Fault
<1>7. ASSUME NEW i \in Instances, Answer(i) PROVE TypeOK'
  BY <1>7 DEF Answer
<1>8. ASSUME NEW i \in Instances, StartCycle(i) \/ EndCycle(i) PROVE TypeOK'
  BY <1>8 DEF StartCycle, EndCycle
<1>9. ASSUME NEW i \in Instances, Crash(i) PROVE TypeOK'
  BY <1>9 DEF Crash
<1>10. CASE Tick
  BY <1>10 DEF Tick, Trying, Sooner, Count
<1>11. CASE UNCHANGED vars
  BY <1>11 DEF vars
<1> QED
  BY <1>1, <1>2, <1>3, <1>4, <1>5, <1>6, <1>7, <1>8, <1>9, <1>10, <1>11 DEF Next

(* TypeOK holds for every deployment. *)
THEOREM TypeCorrect == Spec => []TypeOK
<1>1. Init => TypeOK
  BY DEF Init, TypeOK, Steps, Live, Floor
<1> QED BY <1>1, TypeNext, PTL DEF Spec

-----------------------------------------------------------------------------
(* The lease. *)

\* A commit that i has yet to learn of is as good as a confirmed lease; and a
\* renewal never shortens the lease i already counts on.
WonHonoured ==
    \A i \in Instances :
        /\ pc[i] = "won" /\ TTL + Skew[i] - age[i] > Drift
             => holder = i /\ left >= TTL + Skew[i] - age[i]
        /\ sure[i] <= TTL + Skew[i]
        /\ pc[i] \in Trying /\ sure[i] > 0 => sure[i] <= TTL + Skew[i] - age[i]

LeaseInv == LeaseHonoured /\ WonHonoured

(* A write of the row by one instance harms no other's unexpired lease. *)
LEMMA WriteHonours ==
    ASSUME TypeOK, LeaseInv, NEW i \in Instances,
           InsertMatches(i) \/ UpdateMatches(i), WriteLease(i), UNCHANGED <<age, sure>>,
           pc' = [pc EXCEPT ![i] = "won"] \/ pc' = [pc EXCEPT ![i] = "lost"]
    PROVE  LeaseInv'
<1> USE DEF TypeOK, Steps, Trying
<1>1. /\ pc[i] \in {"insert", "update"}
      /\ holder \in {i, Nobody} \/ left <= Drift
  BY DEF InsertMatches, UpdateMatches
<1>2. sure[i] > 0 => sure[i] <= TTL + Skew[i] - age[i]
  BY <1>1 DEF LeaseInv, WonHonoured
<1>3. holder' = i /\ left' = TTL + Skew[i] - age[i]
  BY DEF WriteLease
<1>4. ASSUME NEW k \in Instances, k # i
      PROVE  sure[k] <= Drift /\ (pc[k] = "won" => TTL + Skew[k] - age[k] <= Drift)
  BY <1>1, <1>4 DEF LeaseInv, LeaseHonoured, WonHonoured, Floor
<1>5. LeaseHonoured'
  BY <1>2, <1>3, <1>4 DEF LeaseHonoured
<1>6. WonHonoured'
  BY <1>1, <1>3, <1>4 DEF LeaseInv, WonHonoured
<1> QED BY <1>5, <1>6 DEF LeaseInv

(* Every step honours unexpired leases. *)
LEMMA LeaseNext == TypeOK /\ LeaseInv /\ [Next]_vars => LeaseInv'
<1> SUFFICES ASSUME TypeOK, LeaseInv, [Next]_vars PROVE LeaseInv'
  OBVIOUS
<1> USE DEF TypeOK, LeaseInv, LeaseHonoured, WonHonoured, Steps, Trying, Floor
<1>1. ASSUME NEW i \in Instances, Boot(i) PROVE LeaseInv'
  BY <1>1 DEF Boot
<1>2. ASSUME NEW i \in Instances, Begin(i) PROVE LeaseInv'
  BY <1>2 DEF Begin
<1>3. ASSUME NEW i \in Instances, Select(i) PROVE LeaseInv'
  BY <1>3 DEF Select
<1>4. ASSUME NEW i \in Instances, Win(i) PROVE LeaseInv'
  BY <1>4, WriteHonours DEF Win
<1>5. ASSUME NEW i \in Instances, Lose(i) PROVE LeaseInv'
  BY <1>5 DEF Lose, InsertRefused, UpdateMisses
<1>6. ASSUME NEW i \in Instances, Fault(i) PROVE LeaseInv'
  <2>1. CASE UNCHANGED row
    BY <1>6, <2>1 DEF Fault, row
  <2> QED BY <1>6, <2>1, WriteHonours DEF Fault
<1>7. ASSUME NEW i \in Instances, Answer(i) PROVE LeaseInv'
  BY <1>7 DEF Answer
<1>8. ASSUME NEW i \in Instances, StartCycle(i) \/ EndCycle(i) PROVE LeaseInv'
  BY <1>8 DEF StartCycle, EndCycle
<1>9. ASSUME NEW i \in Instances, Crash(i) PROVE LeaseInv'
  BY <1>9 DEF Crash
<1>10. CASE Tick
  BY <1>10 DEF Tick, Sooner, Count
<1>11. CASE UNCHANGED vars
  BY <1>11 DEF vars
<1> QED
  BY <1>1, <1>2, <1>3, <1>4, <1>5, <1>6, <1>7, <1>8, <1>9, <1>10, <1>11 DEF Next

(* A lease an instance was told it holds is honoured until it expires, in   *)
(* every deployment and whatever the timing constants.                      *)
THEOREM LeaseCorrect == Spec => []LeaseHonoured
<1>1. Init => TypeOK /\ LeaseInv
  BY DEF Init, TypeOK, Steps, Live, Floor, LeaseInv, LeaseHonoured, WonHonoured, Trying
<1>2. LeaseInv => LeaseHonoured
  BY DEF LeaseInv
<1> QED BY <1>1, <1>2, TypeNext, LeaseNext, PTL DEF Spec

-----------------------------------------------------------------------------
(* The flag. *)

\* A leader's last confirmed lease is recent: the ticker brings its renewal.
FlagFresh ==
    \A i \in Instances :
        /\ pc[i] \in Trying => i \notin due /\ age[i] = Interval - timer[i]
        /\ pc[i] = "wait" /\ i \in due => timer[i] = Interval
        /\ i \in leaders =>
              /\ pc[i] = "wait" /\ i \notin due
                   => sure[i] >= TTL + Skew[i] - (Interval - timer[i])
              /\ pc[i] = "wait" /\ i \in due
                   => sure[i] >= TTL + Skew[i] - Interval
              /\ pc[i] \in Trying
                   => sure[i] >= TTL + Skew[i] - Interval - age[i]

(* Every step leaves leaders with a recent lease. *)
LEMMA FlagNext ==
    ASSUME LongLease
    PROVE  TypeOK /\ FlagFresh /\ [Next]_vars => FlagFresh'
<1> SUFFICES ASSUME TypeOK, FlagFresh, [Next]_vars PROVE FlagFresh'
  OBVIOUS
<1> USE DEF TypeOK, FlagFresh, Steps, Live, Trying, LongLease
<1>1. ASSUME NEW i \in Instances, Boot(i) PROVE FlagFresh'
  BY <1>1 DEF Boot
<1>2. ASSUME NEW i \in Instances, Begin(i) PROVE FlagFresh'
  BY <1>2 DEF Begin
<1>3. ASSUME NEW i \in Instances, Select(i) \/ Win(i) \/ Lose(i) \/ Fault(i)
      PROVE FlagFresh'
  BY <1>3 DEF Select, Win, Lose, Fault, InsertMatches, UpdateMatches,
              InsertRefused, UpdateMisses
<1>4. ASSUME NEW i \in Instances, Answer(i) PROVE FlagFresh'
  BY <1>4 DEF Answer
<1>5. ASSUME NEW i \in Instances, StartCycle(i) \/ EndCycle(i) PROVE FlagFresh'
  BY <1>5 DEF StartCycle, EndCycle
<1>6. ASSUME NEW i \in Instances, Crash(i) PROVE FlagFresh'
  BY <1>6 DEF Crash
<1>7. CASE Tick
  BY <1>7 DEF Tick, Count
<1>8. CASE UNCHANGED vars
  BY <1>8 DEF vars
<1> QED
  BY <1>1, <1>2, <1>3, <1>4, <1>5, <1>6, <1>7, <1>8 DEF Next

(* A leader holds an unexpired lease, by every clock. *)
LEMMA LeaderHolds ==
    ASSUME LongLease, TypeOK, FlagFresh, LeaseHonoured, NEW i \in leaders
    PROVE  holder = i /\ left > Drift
<1>1. i \in Instances /\ pc[i] # "down"
  BY DEF TypeOK, Live
<1>2. sure[i] > Drift
  BY <1>1 DEF LongLease, TypeOK, FlagFresh, Steps, Trying
<1> QED BY <1>1, <1>2 DEF LeaseHonoured, TypeOK, Floor

(* With a lease longer than the interval, a slow attempt and the drift      *)
(* together, isLeader is true in at most one replica.                       *)
THEOREM OneLeaderCorrect ==
    ASSUME LongLease
    PROVE  Spec => []OneLeader
<1>1. Init => TypeOK /\ LeaseInv /\ FlagFresh
  BY DEF Init, TypeOK, Steps, Live, Floor, LeaseInv, LeaseHonoured, WonHonoured,
         Trying, FlagFresh
<1>2. TypeOK /\ LeaseInv /\ FlagFresh => OneLeader
  BY LeaderHolds DEF OneLeader, LeaseInv
<1> QED BY <1>1, <1>2, TypeNext, LeaseNext, FlagNext, PTL DEF Spec

(* With such a lease, a scan cycle starts only in the replica that holds an *)
(* unexpired lease.                                                         *)
THEOREM CycleStartsLeasedCorrect ==
    ASSUME LongLease
    PROVE  Spec => CycleStartsLeased
<1>1. Init => TypeOK /\ LeaseInv /\ FlagFresh
  BY DEF Init, TypeOK, Steps, Live, Floor, LeaseInv, LeaseHonoured, WonHonoured,
         Trying, FlagFresh
<1>2. ASSUME TypeOK, LeaseInv, FlagFresh, [Next]_vars,
             NEW i \in Instances, i \in scanning', i \notin scanning
      PROVE  holder = i /\ left > 0
  <2>1. i \in leaders
    BY <1>2 DEF Next, vars, Boot, Begin, Select, Win, Lose, Fault, Answer, StartCycle,
                EndCycle, Crash, Tick
  <2> QED BY <1>2, <2>1, LeaderHolds DEF LeaseInv, TypeOK, Floor
<1>3. TypeOK /\ LeaseInv /\ FlagFresh /\ [Next]_vars
        => [\A i \in Instances :
              i \in scanning' /\ i \notin scanning => holder = i /\ left > 0]_vars
  BY <1>2
<1> QED BY <1>1, <1>3, TypeNext, LeaseNext, FlagNext, PTL DEF Spec, CycleStartsLeased
-----------------------------------------------------------------------------
(* Stability. *)

\* While nothing has failed, a leader's attempts find its own row.
Renewing == errors = 0 => \A i \in leaders : pc[i] \notin {"insert", "lost"}

FlagInv == TypeOK /\ LeaseInv /\ FlagFresh

LEMMA RenewingNext ==
    ASSUME LongLease
    PROVE  FlagInv /\ Renewing /\ [Next]_vars => Renewing'
<1> SUFFICES ASSUME TypeOK, LeaseInv, FlagFresh, Renewing, [Next]_vars
             PROVE  Renewing'
  BY DEF FlagInv
<1>0. \A i \in leaders : holder = i /\ left > Drift
  BY LeaderHolds DEF LeaseInv
<1> USE DEF TypeOK, Renewing, Live, Steps
<1>1. ASSUME NEW i \in Instances, Boot(i) \/ Begin(i) PROVE Renewing'
  BY <1>1 DEF Boot, Begin
<1>2. ASSUME NEW i \in Instances, Select(i) PROVE Renewing'
  BY <1>0, <1>2 DEF Select
<1>3. ASSUME NEW i \in Instances, Win(i) PROVE Renewing'
  BY <1>3 DEF Win, InsertMatches, UpdateMatches
<1>4. ASSUME NEW i \in Instances, Lose(i) PROVE Renewing'
  BY <1>0, <1>4 DEF Lose, InsertRefused, UpdateMisses
<1>5. ASSUME NEW i \in Instances, Fault(i) PROVE Renewing'
  BY <1>5 DEF Fault
<1>6. ASSUME NEW i \in Instances, Answer(i) PROVE Renewing'
  BY <1>6 DEF Answer
<1>7. ASSUME NEW i \in Instances, StartCycle(i) \/ EndCycle(i) \/ Crash(i)
      PROVE Renewing'
  BY <1>7 DEF StartCycle, EndCycle, Crash
<1>8. CASE Tick
  BY <1>8 DEF Tick
<1>9. CASE UNCHANGED vars
  BY <1>9 DEF vars
<1> QED
  BY <1>1, <1>2, <1>3, <1>4, <1>5, <1>6, <1>7, <1>8, <1>9 DEF Next

(* With a long enough lease, a leader stays leader until an attempt of some *)
(* replica fails or a process ends.                                         *)
THEOREM NotDeposedCorrect ==
    ASSUME LongLease
    PROVE  Spec => NotDeposed
<1>1. Init => FlagInv /\ Renewing
  BY DEF Init, FlagInv, TypeOK, Steps, Live, Floor, LeaseInv, LeaseHonoured,
         WonHonoured, Trying, FlagFresh, Renewing
<1>2. FlagInv /\ [Next]_vars => FlagInv'
  BY TypeNext, LeaseNext, FlagNext DEF FlagInv
<1>3. ASSUME FlagInv, Renewing, [Next]_vars, NEW i \in leaders,
             errors' = 0, crashes' = crashes
      PROVE  i \in leaders'
  <2>1. errors = 0 /\ errors \in Nat /\ crashes \in Nat
    BY <1>3 DEF FlagInv, TypeOK, Next, vars, Boot, Begin, Select, Win, Lose, Fault,
                Answer, StartCycle, EndCycle, Crash, Tick
  <2> QED
    BY <1>3, <2>1 DEF FlagInv, TypeOK, Renewing, Next, vars, Boot, Begin, Select, Win,
                Lose, Fault, Answer, StartCycle, EndCycle, Crash, Tick
<1>4. FlagInv /\ Renewing /\ [Next]_vars
        => [\A i \in leaders : errors' = 0 /\ crashes' = crashes => i \in leaders']_vars
  BY <1>3
<1> QED BY <1>1, <1>2, <1>4, RenewingNext, PTL DEF Spec, NotDeposed
=============================================================================
