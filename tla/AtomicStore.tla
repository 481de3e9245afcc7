---------------------------- MODULE AtomicStore ----------------------------
(***************************************************************************)
(* What state.Store promises its callers: each Update is one indivisible   *)
(* change of the user's row.  An update is applied at most once, only      *)
(* between its call and its return; an update that returned nil has been   *)
(* applied; and a row never loses an update it once reflected.             *)
(* UserStore is the code's way of keeping that promise.                    *)
(***************************************************************************)
CONSTANTS Updates,      \* the calls of Store.Update, each made once
          Phones,       \* the users, keyed by phone number or e-mail address
          PhoneOf       \* PhoneOf[u]: the user whose row update u changes

VARIABLES rows,         \* rows[p]: the updates the committed row of p reflects
          outcome       \* outcome[u]: what the caller of u knows

avars == <<rows, outcome>>

Outcomes == {"new", "running", "ok", "error", "crashed"}

Init ==
    /\ rows = [p \in Phones |-> {}]
    /\ outcome = [u \in Updates |-> "new"]

\* A caller starts an update.
Begin(u) ==
    /\ outcome[u] = "new"
    /\ outcome' = [outcome EXCEPT ![u] = "running"]
    /\ UNCHANGED rows

\* The one instant at which the row changes.
Apply(u) ==
    /\ outcome[u] = "running"
    /\ u \notin rows[PhoneOf[u]]
    /\ rows' = [rows EXCEPT ![PhoneOf[u]] = @ \cup {u}]
    /\ UNCHANGED outcome

\* The update returns nil: only after it was applied.
ReturnNil(u) ==
    /\ outcome[u] = "running"
    /\ u \in rows[PhoneOf[u]]
    /\ outcome' = [outcome EXCEPT ![u] = "ok"]
    /\ UNCHANGED rows

\* The update returns an error: it may or may not have been applied.
ReturnError(u) ==
    /\ outcome[u] = "running"
    /\ outcome' = [outcome EXCEPT ![u] = "error"]
    /\ UNCHANGED rows

\* A process dies and takes the callers of some running updates with it.
Vanish ==
    /\ \E S \in SUBSET {u \in Updates : outcome[u] = "running"} :
          outcome' = [u \in Updates |-> IF u \in S THEN "crashed" ELSE outcome[u]]
    /\ UNCHANGED rows

Next ==
    \/ \E u \in Updates : Begin(u) \/ Apply(u) \/ ReturnNil(u) \/ ReturnError(u)
    \/ Vanish

Spec == Init /\ [][Next]_avars
=============================================================================
