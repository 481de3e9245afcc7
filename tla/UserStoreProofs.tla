-------------------------- MODULE UserStoreProofs --------------------------
(***************************************************************************)
(* Proofs about UserStore.                                                 *)
(*                                                                         *)
(* TypeOK, LockHeld and OneCaller hold for any number of replicas.  The    *)
(* guarantees about rows need all users of the store to run in one replica *)
(* (SingleInstance): the mutexes are per process.                          *)
(***************************************************************************)
EXTENDS UserStore, TLAPS

SingleInstance == \A i, j \in Instances : i = j

USE StoreAssumption DEF StoreAssumption

-----------------------------------------------------------------------------
(* Types, and who is calling what. *)

\* Each running update has one caller, which is on its way to return.
OneCaller ==
    \A t \in Threads :
        /\ pc[t] = "save" => IsUpdate(t)
        /\ IsUpdate(t) => /\ pc[t] # "idle"
                          /\ PhoneOf[upd[t]] = phone[t]
                          /\ outcome[upd[t]] = "running"
                          /\ \A s \in Threads \ {t} : upd[s] # upd[t]

CallInv == TypeOK /\ OneCaller

(* Initially there are no calls. *)
LEMMA CallInit == Init => CallInv
  BY DEF Init, CallInv, TypeOK, OneCaller, Steps, Outcomes, IsUpdate

(* Every step keeps the types and the single caller of each update. *)
LEMMA CallNext == CallInv /\ [Next]_vars => CallInv'
<1> SUFFICES ASSUME TypeOK, OneCaller, [Next]_vars
             PROVE  TypeOK' /\ OneCaller'
  BY DEF CallInv
<1> USE DEF TypeOK, OneCaller, IsUpdate, Steps, Outcomes
<1>1. ASSUME NEW t \in Threads, NEW u \in Updates, CallUpdate(t, u)
      PROVE  TypeOK' /\ OneCaller'
  <2>1. TypeOK'
    BY <1>1 DEF CallUpdate, Acked
  <2>2. OneCaller'
    BY <1>1 DEF CallUpdate
  <2> QED BY <2>1, <2>2
<1>2. ASSUME NEW t \in Threads, NEW p \in Phones, CallView(t, p)
      PROVE  TypeOK' /\ OneCaller'
  <2>1. TypeOK'
    BY <1>2 DEF CallView, Acked
  <2>2. OneCaller'
    BY <1>2 DEF CallView
  <2> QED BY <2>1, <2>2
<1>3. ASSUME NEW t \in Threads, Lock(t)
      PROVE  TypeOK' /\ OneCaller'
  BY <1>3 DEF Lock, LockOf, LockId
<1>4. ASSUME NEW t \in Threads, Ensure(t)
      PROVE  TypeOK' /\ OneCaller'
  BY <1>4 DEF Ensure, Fail
<1>5. ASSUME NEW t \in Threads, Load(t)
      PROVE  TypeOK' /\ OneCaller'
  BY <1>5 DEF Load, Fail
<1>6. ASSUME NEW t \in Threads, Save(t)
      PROVE  TypeOK' /\ OneCaller'
  <2>1. rows' \in [Phones -> SUBSET Updates]
    BY <1>6 DEF Save, Fail, CommitCopy
  <2>2. /\ pc' \in [Threads -> Steps]
        /\ UNCHANGED <<users, mutex, phone, upd, copy, outcome, crashes, known>>
    BY <1>6 DEF Save, Fail
  <2>3. TypeOK'
    BY <2>1, <2>2
  <2>4. \A s \in Threads : pc'[s] \notin {"idle", "save"} \/ pc'[s] = pc[s]
    BY <1>6 DEF Save, Fail
  <2>5. OneCaller'
    BY <2>2, <2>4
  <2> QED BY <2>3, <2>5
<1>7. ASSUME NEW t \in Threads, Unlock(t)
      PROVE  TypeOK' /\ OneCaller'
  <2>1. TypeOK'
    BY <1>7 DEF Unlock, LockId, Done
  <2>2. OneCaller'
    BY <1>7 DEF Unlock, LockId, Done
  <2> QED BY <2>1, <2>2
<1>8. ASSUME NEW p \in Phones, EnsureUser(p)
      PROVE  TypeOK' /\ OneCaller'
  BY <1>8 DEF EnsureUser
<1>9. ASSUME NEW i \in Instances, Crash(i)
      PROVE  TypeOK' /\ OneCaller'
  <2>1. TypeOK'
    BY <1>9 DEF Crash
  <2>2. OneCaller'
    BY <1>9 DEF Crash
  <2> QED BY <2>1, <2>2
<1>10. CASE UNCHANGED vars
  BY <1>10 DEF vars
<1> QED
  BY <1>1, <1>2, <1>3, <1>4, <1>5, <1>6, <1>7, <1>8, <1>9, <1>10 DEF Next

(* TypeOK holds for every deployment. *)
THEOREM TypeCorrect == Spec => []TypeOK
<1>1. CallInv => TypeOK
  BY DEF CallInv
<1> QED
  BY <1>1, CallInit, CallNext, PTL DEF Spec
-----------------------------------------------------------------------------
(* Mutual exclusion per process and phone. *)

(* Every step keeps the phone's mutex in the hands of the goroutine that is *)
(* past Lock and before the deferred Unlock.                                *)
LEMMA LockNext == CallInv /\ LockHeld /\ [Next]_vars => LockHeld'
<1> SUFFICES ASSUME TypeOK, LockHeld, [Next]_vars
             PROVE  LockHeld'
  BY DEF CallInv
<1> USE DEF TypeOK, LockHeld, LockOf, LockId, Locked, Steps
<1>1. ASSUME NEW t \in Threads, NEW u \in Updates, CallUpdate(t, u)
      PROVE  LockHeld'
  BY <1>1 DEF CallUpdate
<1>2. ASSUME NEW t \in Threads, NEW p \in Phones, CallView(t, p)
      PROVE  LockHeld'
  BY <1>2 DEF CallView
<1>3. ASSUME NEW t \in Threads, Lock(t)
      PROVE  LockHeld'
  BY <1>3 DEF Lock
<1>4. ASSUME NEW t \in Threads, Ensure(t) \/ Load(t) \/ Save(t)
      PROVE  LockHeld'
  BY <1>4 DEF Ensure, Load, Save, Fail
<1>5. ASSUME NEW t \in Threads, Unlock(t)
      PROVE  LockHeld'
  BY <1>5 DEF Unlock, Done
<1>6. ASSUME NEW p \in Phones, EnsureUser(p)
      PROVE  LockHeld'
  BY <1>6 DEF EnsureUser
<1>7. ASSUME NEW i \in Instances, Crash(i)
      PROVE  LockHeld'
  BY <1>7 DEF Crash
<1>8. CASE UNCHANGED vars
  BY <1>8 DEF vars
<1> QED
  BY <1>1, <1>2, <1>3, <1>4, <1>5, <1>6, <1>7, <1>8 DEF Next

(* Between mu.Lock and the deferred Unlock a goroutine holds its phone's    *)
(* mutex, in every deployment.                                              *)
THEOREM LockCorrect == Spec => []LockHeld
<1>1. Init => LockHeld
  BY DEF Init, LockHeld, Locked
<1> QED
  BY <1>1, CallInit, CallNext, LockNext, PTL DEF Spec

-----------------------------------------------------------------------------
(* One replica: the mutexes protect the committed rows. *)

\* An update about to be acknowledged is in the row, and so is all that a call
\* knew when it began.
RowsCatchUp ==
    \A t \in Threads :
        /\ pc[t] = "return" /\ IsUpdate(t) => upd[t] \in rows[phone[t]]
        /\ pc[t] \in {"lock", "ensure", "load"} => known[t] \subseteq rows[phone[t]]

RowInv == CopyIsCurrent /\ AcksDurable /\ FreshCopy /\ RowsCatchUp

(* Initially nothing is acknowledged and nothing is loaded. *)
LEMMA RowInit == Init => RowInv
  BY DEF Init, RowInv, CopyIsCurrent, AcksDurable, FreshCopy, RowsCatchUp

(* In one replica, two goroutines between Lock and Unlock have two phones.  *)
LEMMA OneHolder ==
    ASSUME SingleInstance, TypeOK, LockHeld,
           NEW s \in Threads, NEW t \in Threads,
           pc[s] \in Locked, pc[t] \in Locked, phone[s] = phone[t]
    PROVE  s = t
<1>1. InstanceOf[s] = InstanceOf[t]
  BY DEF SingleInstance
<1>2. LockOf(s) = LockOf(t)
  BY <1>1 DEF LockOf, LockId
<1>3. LockOf(s) = s /\ LockOf(t) = t
  BY DEF LockHeld
<1> QED BY <1>2, <1>3

(* A save only adds the caller's update to the row. *)
LEMMA CommitAdds ==
    ASSUME TypeOK, CopyIsCurrent, NEW t \in Threads, pc[t] = "save", CommitCopy(t)
    PROVE  /\ rows'[phone[t]] = rows[phone[t]] \cup {upd[t]}
           /\ \A p \in Phones \ {phone[t]} : rows'[p] = rows[p]
           /\ \A p \in Phones : rows[p] \subseteq rows'[p]
  BY DEF CommitCopy, TypeOK, CopyIsCurrent

(* With one replica, every step keeps copies current and acknowledged       *)
(* updates in their rows.                                                   *)
LEMMA RowNext ==
    ASSUME SingleInstance
    PROVE  CallInv /\ LockHeld /\ RowInv /\ [Next]_vars => RowInv'
<1> SUFFICES ASSUME TypeOK, OneCaller, LockHeld, RowInv, [Next]_vars
             PROVE  RowInv'
  BY DEF CallInv
<1> USE DEF TypeOK, RowInv, CopyIsCurrent, AcksDurable, FreshCopy, RowsCatchUp,
            IsUpdate, Steps
<1>1. ASSUME NEW t \in Threads, NEW u \in Updates, CallUpdate(t, u)
      PROVE  RowInv'
  BY <1>1 DEF CallUpdate, Acked
<1>2. ASSUME NEW t \in Threads, NEW p \in Phones, CallView(t, p)
      PROVE  RowInv'
  BY <1>2 DEF CallView, Acked
<1>3. ASSUME NEW t \in Threads, Lock(t)
      PROVE  RowInv'
  BY <1>3 DEF Lock
<1>4. ASSUME NEW t \in Threads, Ensure(t)
      PROVE  RowInv'
  BY <1>4 DEF Ensure, Fail
<1>5. ASSUME NEW t \in Threads, Load(t)
      PROVE  RowInv'
  BY <1>5 DEF Load, Fail
<1>6. ASSUME NEW t \in Threads, Save(t)
      PROVE  RowInv'
  <2>1. CASE UNCHANGED rows
    BY <1>6, <2>1 DEF Save, Fail, CommitCopy
  <2>2. CASE CommitCopy(t)
    <3>1. pc[t] = "save"
      BY <1>6 DEF Save
    <3>2. CopyIsCurrent'
      BY <1>6, <2>2, <3>1, OneHolder, CommitAdds DEF Save, Fail, Locked
    <3>3. AcksDurable'
      BY <1>6, <2>2, <3>1, CommitAdds DEF Save
    <3>4. FreshCopy'
      BY <1>6, <3>1 DEF Save, Fail
    <3>5. RowsCatchUp'
      BY <1>6, <2>2, <3>1, CommitAdds DEF Save, Fail
    <3> QED BY <3>2, <3>3, <3>4, <3>5
  <2> QED BY <1>6, <2>1, <2>2 DEF Save
<1>7. ASSUME NEW t \in Threads, Unlock(t)
      PROVE  RowInv'
  BY <1>7 DEF Unlock, Done, OneCaller
<1>8. ASSUME NEW p \in Phones, EnsureUser(p)
      PROVE  RowInv'
  BY <1>8 DEF EnsureUser
<1>9. ASSUME NEW i \in Instances, Crash(i)
      PROVE  RowInv'
  BY <1>9 DEF Crash
<1>10. CASE UNCHANGED vars
  BY <1>10 DEF vars
<1> QED
  BY <1>1, <1>2, <1>3, <1>4, <1>5, <1>6, <1>7, <1>8, <1>9, <1>10 DEF Next

(* In a one-replica deployment an acknowledged update stays in the row, the *)
(* copy an Update writes back is never stale, and no call works on older    *)
(* state than was acknowledged before it began.                             *)
THEOREM RowsCorrect ==
    ASSUME SingleInstance
    PROVE  Spec => [](CopyIsCurrent /\ AcksDurable /\ FreshCopy)
<1>1. RowInv => CopyIsCurrent /\ AcksDurable /\ FreshCopy
  BY DEF RowInv
<1>2. Init => LockHeld
  BY DEF Init, LockHeld, Locked
<1> QED
  BY <1>1, <1>2, CallInit, CallNext, LockNext, RowInit, RowNext, PTL DEF Spec

(* In particular no View shows a user older state than a reply sent before. *)
THEOREM FreshCopyCorrect ==
    ASSUME SingleInstance
    PROVE  Spec => []FreshCopy
BY RowsCorrect, PTL
-----------------------------------------------------------------------------
(* Refinement: in one replica, Update is indivisible. *)

(* Every step of the store is a step of the abstract one, or changes        *)
(* nothing it shows.                                                        *)
LEMMA StepRefines ==
    ASSUME TypeOK, OneCaller, RowInv, [Next]_vars
    PROVE  [Atomic!Next]_(Atomic!avars)
<1> USE DEF TypeOK, Atomic!Next, Atomic!avars, IsUpdate
<1>1. ASSUME NEW t \in Threads, NEW u \in Updates, CallUpdate(t, u)
      PROVE  Atomic!Begin(u)
  BY <1>1 DEF CallUpdate, Atomic!Begin
<1>2. ASSUME NEW t \in Threads, NEW p \in Phones, CallView(t, p)
      PROVE  UNCHANGED Atomic!avars
  BY <1>2 DEF CallView
<1>3. ASSUME NEW t \in Threads, Lock(t) \/ Ensure(t) \/ Load(t)
      PROVE  UNCHANGED Atomic!avars
  BY <1>3 DEF Lock, Ensure, Load
<1>4. ASSUME NEW t \in Threads, Save(t)
      PROVE  (\E u \in Updates : Atomic!Apply(u)) \/ UNCHANGED Atomic!avars
  <2>1. pc[t] = "save" /\ upd[t] \in Updates /\ UNCHANGED outcome
    BY <1>4 DEF Save, OneCaller
  <2>2. CASE UNCHANGED rows
    BY <2>1, <2>2
  <2>3. CASE CommitCopy(t)
    <3>1. rows' = [rows EXCEPT ![phone[t]] = @ \cup {upd[t]}]
      BY <2>1, <2>3 DEF CommitCopy, RowInv, CopyIsCurrent
    <3>2. phone[t] = PhoneOf[upd[t]] /\ outcome[upd[t]] = "running"
      BY <2>1 DEF OneCaller
    <3>3. CASE upd[t] \in rows[phone[t]]
      BY <2>1, <3>1, <3>3
    <3>4. CASE upd[t] \notin rows[phone[t]]
      BY <2>1, <3>1, <3>2, <3>4 DEF Atomic!Apply
    <3> QED BY <3>3, <3>4
  <2> QED BY <1>4, <2>2, <2>3 DEF Save
<1>5. ASSUME NEW t \in Threads, Unlock(t)
      PROVE  \/ \E u \in Updates : Atomic!ReturnNil(u) \/ Atomic!ReturnError(u)
             \/ UNCHANGED Atomic!avars
  <2>1. CASE ~IsUpdate(t)
    BY <1>5, <2>1 DEF Unlock
  <2>2. CASE IsUpdate(t)
    <3>1. /\ upd[t] \in Updates
          /\ outcome[upd[t]] = "running"
          /\ phone[t] = PhoneOf[upd[t]]
      BY <2>2 DEF OneCaller
    <3>2. CASE pc[t] = "fail"
      BY <1>5, <2>2, <3>1, <3>2 DEF Unlock, Atomic!ReturnError
    <3>3. CASE pc[t] = "return"
      <4>1. upd[t] \in rows[PhoneOf[upd[t]]]
        BY <2>2, <3>1, <3>3 DEF RowInv, RowsCatchUp
      <4> QED BY <1>5, <2>2, <3>1, <3>3, <4>1 DEF Unlock, Atomic!ReturnNil
    <3> QED BY <1>5, <3>2, <3>3 DEF Unlock, Done
  <2> QED BY <2>1, <2>2
<1>6. ASSUME NEW p \in Phones, EnsureUser(p)
      PROVE  UNCHANGED Atomic!avars
  BY <1>6 DEF EnsureUser
<1>7. ASSUME NEW i \in Instances, Crash(i)
      PROVE  Atomic!Vanish
  <2> DEFINE S == {u \in Updates : \E t \in Threads : InstanceOf[t] = i /\ upd[t] = u}
  <2>1. \A u \in S : outcome[u] = "running"
    BY DEF OneCaller
  <2>2. outcome' = [u \in Updates |-> IF u \in S THEN "crashed" ELSE outcome[u]]
    BY <1>7 DEF Crash
  <2>3. UNCHANGED rows
    BY <1>7 DEF Crash
  <2> QED BY <2>1, <2>2, <2>3 DEF Atomic!Vanish
<1>8. CASE UNCHANGED vars
  BY <1>8 DEF vars
<1> QED
  BY <1>1, <1>2, <1>3, <1>4, <1>5, <1>6, <1>7, <1>8 DEF Next

(* In a one-replica deployment the lock-load-save protocol of Update        *)
(* implements indivisible updates.                                          *)
THEOREM UpdatesAreAtomic ==
    ASSUME SingleInstance
    PROVE  Spec => ImplementsAtomic
<1>1. Init => Atomic!Init
  BY DEF Init, Atomic!Init
<1>2. Init => LockHeld
  BY DEF Init, LockHeld, Locked
<1>3. CallInv /\ RowInv /\ [Next]_vars => [Atomic!Next]_(Atomic!avars)
  BY StepRefines DEF CallInv
<1> QED
  BY <1>1, <1>2, <1>3, CallInit, CallNext, LockNext, RowInit, RowNext, PTL
     DEF Spec, ImplementsAtomic, Atomic!Spec
=============================================================================
