----------------------------- MODULE UserStore -----------------------------
(***************************************************************************)
(* state.Store: per-user state kept in libSQL, changed by read-modify-     *)
(* write under an in-process mutex per phone.                              *)
(*                                                                         *)
(* Update(phone, fn) locks the phone's mutex, ensures the users row,       *)
(* LOADS the whole row into memory, runs fn on the copy, SAVES the whole   *)
(* copy in one transaction and unlocks (deferred, so on every path).       *)
(* View does the same without the save.  Other instances of the service    *)
(* share the database and have mutexes of their own.                       *)
(*                                                                         *)
(* Data abstraction: a row is the set of updates it reflects.  Saving a    *)
(* copy replaces that set, as saveLocked deletes and re-inserts the row's  *)
(* tables; fn adds the update to the copy.                                 *)
(***************************************************************************)
EXTENDS Naturals

CONSTANTS Instances,    \* replicas of the service sharing the database
          Threads,      \* goroutines that use the store: scanner, HTTP handlers
          Deadline,     \* those whose statements have a deadline (cycleCtx, WithTimeout)
          InstanceOf,   \* InstanceOf[t]: the replica goroutine t runs in
          Updates, Phones, PhoneOf,
          NoUpdate,     \* the "update" of a View
          Free,         \* the holder of an unlocked mutex
          MaxCrashes    \* bound: process crashes in one behaviour

\* Constants that a deployment may give any value of their types.
ASSUME StoreAssumption ==
    /\ Deadline \subseteq Threads
    /\ InstanceOf \in [Threads -> Instances]
    /\ PhoneOf \in [Updates -> Phones]
    /\ NoUpdate \notin Updates
    /\ Free \notin Threads
    /\ MaxCrashes \in Nat

VARIABLES
    \* in the database
    rows,       \* rows[p]: the updates the committed row of p reflects
    users,      \* the phones that have a row in table users
    \* in the processes
    mutex,      \* mutex[i, p]: the goroutine of replica i that holds p's lock
    pc,         \* pc[t]: where goroutine t is in Update or View
    phone,      \* phone[t]: the user of t's current or last call
    upd,        \* upd[t]: the update t is making; NoUpdate for a View
    copy,       \* copy[t]: the *Data that t loaded
    outcome,    \* outcome[u]: what the caller of update u knows
    crashes,
    \* history: the updates known applied when t's call began
    known

dbVars == <<rows, users>>
vars == <<rows, users, mutex, pc, phone, upd, copy, outcome, crashes, known>>

Steps == {"idle", "lock", "ensure", "load", "save", "return", "fail"}
\* the steps a goroutine takes holding its phone's mutex
Locked == {"ensure", "load", "save", "return", "fail"}
\* the call is over, with nil or with an error; the deferred unlock remains
Done == {"return", "fail"}
Outcomes == {"new", "running", "ok", "error", "crashed"}

Acked(p) == {u \in Updates : outcome[u] = "ok" /\ PhoneOf[u] = p}
LockId(t) == <<InstanceOf[t], phone[t]>>
LockOf(t) == mutex[LockId(t)]
IsUpdate(t) == upd[t] # NoUpdate

Init ==
    /\ rows = [p \in Phones |-> {}]
    /\ users = {}
    /\ mutex = [l \in Instances \X Phones |-> Free]
    /\ pc = [t \in Threads |-> "idle"]
    /\ phone \in [Threads -> Phones]
    /\ upd = [t \in Threads |-> NoUpdate]
    /\ copy = [t \in Threads |-> {}]
    /\ outcome = [u \in Updates |-> "new"]
    /\ crashes = 0
    /\ known = [t \in Threads |-> {}]

\* A goroutine calls Update(ctx, PhoneOf[u], fn).
CallUpdate(t, u) ==
    /\ pc[t] = "idle" /\ outcome[u] = "new"
    /\ pc' = [pc EXCEPT ![t] = "lock"]
    /\ phone' = [phone EXCEPT ![t] = PhoneOf[u]]
    /\ upd' = [upd EXCEPT ![t] = u]
    /\ outcome' = [outcome EXCEPT ![u] = "running"]
    /\ known' = [known EXCEPT ![t] = Acked(PhoneOf[u])]
    /\ UNCHANGED <<rows, users, mutex, copy, crashes>>

\* A goroutine calls View(ctx, p, fn).
CallView(t, p) ==
    /\ pc[t] = "idle"
    /\ pc' = [pc EXCEPT ![t] = "lock"]
    /\ phone' = [phone EXCEPT ![t] = p]
    /\ known' = [known EXCEPT ![t] = Acked(p)]
    /\ UNCHANGED <<rows, users, mutex, upd, copy, outcome, crashes>>

\* Mutant: the phone's mutex is not awaited (the lock dropped from Update).
LockIgnoringHolder(t) ==
    /\ pc[t] = "lock"
    /\ mutex' = [mutex EXCEPT ![LockId(t)] = t]
    /\ pc' = [pc EXCEPT ![t] = "ensure"]
    /\ UNCHANGED <<rows, users, phone, upd, copy, outcome, crashes, known>>

\* mu.Lock() on the mutex of (this process, phone).
Lock(t) ==
    /\ pc[t] = "lock"
    /\ LockOf(t) = Free
    /\ mutex' = [mutex EXCEPT ![LockId(t)] = t]
    /\ pc' = [pc EXCEPT ![t] = "ensure"]
    /\ UNCHANGED <<rows, users, phone, upd, copy, outcome, crashes, known>>

\* Any statement of the call fails: the error is returned through the
\* deferred unlock.
Fail(t) == pc' = [pc EXCEPT ![t] = "fail"]

\* INSERT INTO users ... ON CONFLICT DO NOTHING.
Ensure(t) ==
    /\ pc[t] = "ensure"
    /\ \/ /\ users' = users \cup {phone[t]}
          /\ pc' = [pc EXCEPT ![t] = "load"]
       \/ /\ users' \in {users, users \cup {phone[t]}}
          /\ Fail(t)
    /\ UNCHANGED <<rows, mutex, phone, upd, copy, outcome, crashes, known>>

\* Mutant: the copy of an earlier call is reused instead of loading the row.
LoadCached(t) ==
    /\ pc[t] = "load"
    /\ pc' = [pc EXCEPT ![t] = IF IsUpdate(t) THEN "save" ELSE "return"]
    /\ UNCHANGED <<rows, users, mutex, phone, upd, copy, outcome, crashes, known>>

\* Mutant: a View is saved like an Update.
LoadSavingViews(t) ==
    /\ pc[t] = "load"
    /\ \/ /\ phone[t] \in users
          /\ copy' = [copy EXCEPT ![t] = rows[phone[t]]]
          /\ pc' = [pc EXCEPT ![t] = "save"]
       \/ /\ Fail(t)
          /\ UNCHANGED copy
    /\ UNCHANGED <<rows, users, mutex, phone, upd, outcome, crashes, known>>

\* The SELECTs of loadLocked, then fn on the copy: a View is then done.  A
\* phone without a users row is an error (sql.ErrNoRows).
Load(t) ==
    /\ pc[t] = "load"
    /\ \/ /\ phone[t] \in users
          /\ copy' = [copy EXCEPT ![t] = rows[phone[t]]]
          /\ pc' = [pc EXCEPT ![t] = IF IsUpdate(t) THEN "save" ELSE "return"]
       \/ /\ Fail(t)
          /\ UNCHANGED copy
    /\ UNCHANGED <<rows, users, mutex, phone, upd, outcome, crashes, known>>

\* The transaction of saveLocked replaces the row by the copy fn changed.
CommitCopy(t) ==
    rows' = [rows EXCEPT ![phone[t]] = copy[t] \cup {upd[t]}]

\* Mutant: a failed commit is not reported to the caller.
SaveSwallowingErrors(t) ==
    /\ pc[t] = "save"
    /\ CommitCopy(t) \/ UNCHANGED rows
    /\ pc' = [pc EXCEPT ![t] = "return"]
    /\ UNCHANGED <<users, mutex, phone, upd, copy, outcome, crashes, known>>

\* Mutant: an error in saveLocked returns past the unlock.
SaveLeakingLock(t) ==
    /\ pc[t] = "save"
    /\ \/ /\ CommitCopy(t)
          /\ pc' = [pc EXCEPT ![t] = "return"]
          /\ UNCHANGED <<upd, outcome>>
       \/ /\ UNCHANGED rows
          /\ pc' = [pc EXCEPT ![t] = "idle"]
          /\ outcome' = [outcome EXCEPT ![upd[t]] = "error"]
          /\ upd' = [upd EXCEPT ![t] = NoUpdate]
    /\ UNCHANGED <<users, mutex, phone, copy, crashes, known>>

\* saveLocked: committed and reported; or failed, in which case the
\* transaction was rolled back or its commit was acknowledged too late.
Save(t) ==
    /\ pc[t] = "save"
    /\ \/ /\ CommitCopy(t)
          /\ pc' = [pc EXCEPT ![t] = "return"]
       \/ /\ CommitCopy(t) \/ UNCHANGED rows
          /\ Fail(t)
    /\ UNCHANGED <<users, mutex, phone, upd, copy, outcome, crashes, known>>

\* defer mu.Unlock(): the call returns to its caller, its locals are gone.
Unlock(t) ==
    /\ pc[t] \in Done
    /\ mutex' = [mutex EXCEPT ![LockId(t)] = Free]
    /\ pc' = [pc EXCEPT ![t] = "idle"]
    /\ outcome' = IF IsUpdate(t)
                  THEN [outcome EXCEPT ![upd[t]] = IF pc[t] = "fail" THEN "error" ELSE "ok"]
                  ELSE outcome
    /\ upd' = [upd EXCEPT ![t] = NoUpdate]
    /\ copy' = [copy EXCEPT ![t] = {}]
    /\ known' = [known EXCEPT ![t] = {}]
    /\ UNCHANGED <<rows, users, phone, crashes>>

\* EnsureUser outside the lock: at start-up and for onboarding tokens.
EnsureUser(p) ==
    /\ users' = users \cup {p}
    /\ UNCHANGED <<rows, mutex, pc, phone, upd, copy, outcome, crashes, known>>

\* Replica i dies and restarts: its goroutines and mutexes are gone, an open
\* transaction is rolled back, committed rows stay.
Crash(i) ==
    /\ crashes < MaxCrashes
    /\ crashes' = crashes + 1
    /\ LET dead == {t \in Threads : InstanceOf[t] = i}
       IN /\ pc' = [t \in Threads |-> IF t \in dead THEN "idle" ELSE pc[t]]
          /\ outcome' = [u \in Updates |->
                IF \E t \in dead : upd[t] = u THEN "crashed" ELSE outcome[u]]
          /\ upd' = [t \in Threads |-> IF t \in dead THEN NoUpdate ELSE upd[t]]
          /\ copy' = [t \in Threads |-> IF t \in dead THEN {} ELSE copy[t]]
          /\ known' = [t \in Threads |-> IF t \in dead THEN {} ELSE known[t]]
    /\ mutex' = [l \in Instances \X Phones |-> IF l[1] = i THEN Free ELSE mutex[l]]
    /\ UNCHANGED <<rows, users, phone>>

Next ==
    \/ \E t \in Threads :
          \/ \E u \in Updates : CallUpdate(t, u)
          \/ \E p \in Phones : CallView(t, p)
          \/ Lock(t) \/ Ensure(t) \/ Load(t) \/ Save(t) \/ Unlock(t)
    \/ \E p \in Phones : EnsureUser(p)
    \/ \E i \in Instances : Crash(i)

Spec == Init /\ [][Next]_vars

\* A statement under a deadline returns; one under r.Context() or Background,
\* as those of a feedback link, may hang.  sync.Mutex hands a contended lock to
\* a goroutine that has waited too long (starvation mode); the deferred unlock
\* waits for nothing.
Fairness ==
    /\ \A t \in Deadline : WF_vars(Ensure(t) \/ Load(t) \/ Save(t))
    /\ \A t \in Threads : WF_vars(Unlock(t)) /\ SF_vars(Lock(t))

FairSpec == Spec /\ Fairness
-----------------------------------------------------------------------------
(* Type invariant. *)
TypeOK ==
    /\ rows \in [Phones -> SUBSET Updates]
    /\ users \in SUBSET Phones
    /\ mutex \in [Instances \X Phones -> Threads \cup {Free}]
    /\ pc \in [Threads -> Steps]
    /\ phone \in [Threads -> Phones]
    /\ upd \in [Threads -> Updates \cup {NoUpdate}]
    /\ copy \in [Threads -> SUBSET Updates]
    /\ outcome \in [Updates -> Outcomes]
    /\ crashes \in Nat
    /\ known \in [Threads -> SUBSET Updates]

(* Between mu.Lock and the deferred Unlock the goroutine, and no other of   *)
(* its process, holds the phone's mutex: "exclusive access" within one      *)
(* process.                                                                 *)
LockHeld ==
    \A t \in Threads : pc[t] \in Locked => LockOf(t) = t

(* The copy an Update is about to write back is still the committed row:    *)
(* nothing was committed for that phone since it was loaded.  This is what  *)
(* makes the read-modify-write of saveLocked safe.                          *)
CopyIsCurrent ==
    \A t \in Threads : pc[t] = "save" => copy[t] = rows[phone[t]]

(* An update that returned nil is in the row, and stays there whatever      *)
(* calls, failures and crashes follow.                                      *)
AcksDurable ==
    \A u \in Updates : outcome[u] = "ok" => u \in rows[PhoneOf[u]]

(* A call that succeeds has worked on a copy that reflects every update     *)
(* acknowledged before it began: a View never shows a user older state than *)
(* a reply already sent.                                                    *)
FreshCopy ==
    \A t \in Threads :
        pc[t] \in {"save", "return"} => known[t] \subseteq copy[t]

(* A call returns, unless a statement without a deadline hangs for ever in  *)
(* the same process with the same user's mutex (its own, or of the call it  *)
(* waits for: mu.Lock knows no context).  No error path keeps a mutex, and a *)
(* hung call stops nobody else's.                                           *)
HangsOn(o, t) ==
    <>[](pc[o] \in {"ensure", "load", "save"} /\ LockId(o) = LockId(t))

CallsReturn ==
    \A t \in Threads :
        \/ pc[t] # "idle" ~> pc[t] = "idle"
        \/ \E o \in Threads \ Deadline : HangsOn(o, t)

(* The lock-load-save protocol implements indivisible updates.              *)
Atomic == INSTANCE AtomicStore WITH rows <- rows, outcome <- outcome
ImplementsAtomic == Atomic!Spec
=============================================================================
