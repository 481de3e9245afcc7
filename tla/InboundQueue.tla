---------------------------- MODULE InboundQueue ----------------------------
(***************************************************************************)
(* Commands received by text: from the provider's webhook, through the     *)
(* durable queue inbound_messages, to Handler.Handle in the scan cycle.    *)
(*                                                                         *)
(* A webhook goroutine writes a 200, reads the clock (received_at) and     *)
(* inserts the row; net/http buffers a reply this short, so the provider   *)
(* has the 200 when the handler returns.  processInbound lists the oldest  *)
(* pending rows and, for each, changes the user's state, replies by SMS    *)
(* and marks the row, all under the context of the cycle.                  *)
(*                                                                         *)
(* Data abstraction: a command replaces one setting (paused, a watch item, *)
(* quiet hours, enhanced, a filter, the categories), so a setting is the   *)
(* message that last replaced it; a command that only reads has NoSetting. *)
(* received_at matters only where it is compared: older[m] are the         *)
(* messages with a stamp less than that of m.  It is compared as text,     *)
(* which RFC3339Nano, without trailing zeros, puts out of order at times.  *)
(* TOOK and PASS are modelled in AlertPipeline.  Messages are well-formed  *)
(* texts of allowed recipients; a webhook delivered twice is two messages. *)
(***************************************************************************)
EXTENDS Naturals, FiniteSets

CONSTANTS
    Messages, Settings,
    SettingOf,      \* SettingOf[m]: what the command in m replaces
    NoSetting,      \* STATUS, LIST, WHY, HELP, invalid QUIET hours
    NoMessage,      \* last replaced a setting still as it was, or is in hand
    Limit,          \* 50: rows listed in a cycle
    Faults,         \* what may go wrong, of FaultKinds
    MaxFaults       \* bound: faults, of all kinds together

\* A stamp is out of order; the statements of Enqueue, Pending, Store.Update or
\* MarkDone and MarkFailed fail; a reply cannot be sent; a cycle reaches
\* SCAN_CYCLE_TIMEOUT; the process dies.
FaultKinds ==
    {"disorder", "enqueue", "list", "update", "mark", "refused", "expiry", "crash"}

ASSUME QueueAssumption ==
    /\ SettingOf \in [Messages -> Settings \cup {NoSetting}]
    /\ NoSetting \notin Settings /\ NoMessage \notin Messages
    /\ Limit \in Nat \ {0}
    /\ Faults \subseteq FaultKinds /\ MaxFaults \in Nat

VARIABLES
    \* in the database
    status,     \* status[m]: of m's row; "none" while there is none
    older,      \* older[m]: the messages with a received_at less than that of m
    setting,    \* setting[s]: the message that last replaced s
    \* in the process
    web,        \* web[m]: where the webhook goroutine of m is
    pc,         \* where processInbound is
    expired,    \* whether the cycle's context has expired
    batch,      \* the listed messages still to be handled
    inHand,     \* the one of them being handled
    \* bound, and what an observer knows
    faults,
    applied,    \* messages whose command took effect
    informed,   \* messages whose sender received a reply
    earlier,    \* earlier[m]: the messages stored when m was stamped
    logged      \* messages whose row failed to be stored, with an error in the log

database == <<status, older, setting>>
cycle == <<pc, expired, batch, inHand>>
observer == <<applied, informed, earlier, logged>>
vars == <<database, web, cycle, faults, observer>>

Handled == {"done", "failed"}
Stored == {m \in Messages : status[m] # "none"}
Pending == {m \in Messages : status[m] = "pending"}
Stamped == {m \in Messages : web[m] # "none"}

Init ==
    /\ status = [m \in Messages |-> "none"] /\ older = [m \in Messages |-> {}]
    /\ setting = [s \in Settings |-> NoMessage]
    /\ web = [m \in Messages |-> "none"]
    /\ pc = "idle" /\ expired = FALSE /\ batch = {} /\ inHand = NoMessage
    /\ faults = 0 /\ applied = {} /\ informed = {}
    /\ earlier = [m \in Messages |-> {}] /\ logged = {}

Fault(kind) == kind \in Faults /\ faults < MaxFaults /\ faults' = faults + 1

-----------------------------------------------------------------------------
(* The webhook. *)

\* The stamp of m comes after those in s and before the others.
StampAfter(m, s) ==
    /\ \A n \in s : older[n] \subseteq s
    /\ older' = [n \in Messages |-> IF n = m THEN s
                                    ELSE IF n \in Stamped \ s THEN older[n] \cup {m}
                                    ELSE older[n]]

\* The provider calls the webhook for m, and Enqueue reads the clock.  The
\* provider repeats a call that got no answer.
Receive(m) ==
    /\ web[m] = "none"
    /\ web' = [web EXCEPT ![m] = "stamped"]
    /\ \/ UNCHANGED faults /\ StampAfter(m, Stamped)
       \/ Fault("disorder") /\ \E s \in SUBSET Stamped : StampAfter(m, s)
    /\ earlier' = [earlier EXCEPT ![m] = Stored]
    /\ UNCHANGED <<status, setting, cycle, applied, informed, logged>>

\* Enqueue inserts the row; an error is logged.
Insert(m) ==
    /\ web[m] = "stamped"
    /\ web' = [web EXCEPT ![m] = "inserted"]
    /\ \/ UNCHANGED <<faults, logged>> /\ status' = [status EXCEPT ![m] = "pending"]
       \/ Fault("enqueue") /\ UNCHANGED status /\ logged' = logged \cup {m}
       \/ Fault("enqueue") /\ UNCHANGED logged /\ status' = [status EXCEPT ![m] = "pending"]
    /\ UNCHANGED <<older, setting, cycle, applied, informed, earlier>>

\* Mutant: the reply is flushed before Enqueue, whose call ends with it.
Answer200Early(m) ==
    /\ web[m] \in {"stamped", "inserted"}
    /\ web' = [web EXCEPT ![m] = "over"]
    /\ UNCHANGED <<database, cycle, faults, observer>>

\* The handler returns, and its 200 is sent, whatever Enqueue did.
Answer200(m) ==
    /\ web[m] = "inserted"
    /\ web' = [web EXCEPT ![m] = "over"]
    /\ UNCHANGED <<database, cycle, faults, observer>>

-----------------------------------------------------------------------------
(* processInbound. *)

Goto(step) == pc' = step
\* A statement under an expired context has no effect; one that fails
\* otherwise may have taken effect.
Succeeds == ~expired /\ UNCHANGED faults
FailsWithout(kind) == (expired /\ UNCHANGED faults) \/ Fault(kind)
FailsAfter(kind) == ~expired /\ Fault(kind)

\* Mutant: WHERE status = 'pending' dropped.
ListingAllRows == {m \in Stored : Cardinality(older[m] \cap Stored) < Limit}

\* SELECT ... WHERE status = 'pending' ORDER BY received_at ASC LIMIT ?
Listing == {m \in Pending : Cardinality(older[m] \cap Pending) < Limit}

\* A cycle begins, with a context of its own, and lists the pending rows.
List ==
    /\ pc = "idle"
    /\ \/ /\ UNCHANGED faults
          /\ batch' = Listing
          /\ Goto(IF Listing = {} THEN "idle" ELSE "apply")
       \/ Fault("list") /\ UNCHANGED <<batch, pc>>
    /\ expired' = FALSE
    /\ UNCHANGED <<database, web, inHand, observer>>

Replace(m) ==
    /\ SettingOf[m] \in Settings
    /\ setting' = [setting EXCEPT ![SettingOf[m]] = m]
    /\ applied' = applied \cup {m}

\* A command that shows something: LIST, STATUS.
OnlyRead(m) ==
    /\ SettingOf[m] = NoSetting
    /\ applied' = applied \cup {m}
    /\ UNCHANGED setting

\* The oldest listed message is handled next.  Handle: the command's
\* Store.Update or View; an error becomes the reply.
Apply ==
    /\ pc = "apply"
    /\ \E m \in batch :
          /\ older[m] \cap batch = {}
          /\ inHand' = m
          /\ \/ /\ Succeeds \/ FailsAfter("update")
                /\ Replace(m) \/ OnlyRead(m)
             \/ FailsWithout("update") /\ UNCHANGED <<setting, applied>>
    /\ Goto("reply")
    /\ UNCHANGED <<status, older, web, expired, batch, informed, earlier, logged>>

\* SendSMS of the reply, which may arrive although the client reports an error.
SendSucceeds == Succeeds /\ informed' = informed \cup {inHand}
SendFails ==
    \/ FailsWithout("refused") /\ UNCHANGED informed
    \/ FailsAfter("refused") /\ informed' = informed \cup {inHand}

\* Handle returns the error of the send.
Reply ==
    /\ pc = "reply"
    /\ \/ SendSucceeds /\ Goto("done")
       \/ SendFails /\ Goto("failed")
    /\ UNCHANGED <<database, web, expired, batch, inHand, applied, earlier, logged>>

\* Mutant: the loop ends at the first message that failed.
MarkEndingLoop ==
    /\ pc \in Handled
    /\ \/ Succeeds /\ status' = [status EXCEPT ![inHand] = pc]
       \/ FailsWithout("mark") /\ UNCHANGED status
    /\ batch' = batch \ {inHand} /\ inHand' = NoMessage
    /\ Goto(IF pc = "failed" \/ batch = {inHand} THEN "idle" ELSE "apply")
    /\ UNCHANGED <<older, setting, web, expired, observer>>

\* Mutant: a command whose reply failed is put back for a retry.
MarkRetrying ==
    /\ pc \in Handled
    /\ \/ Succeeds /\ status' = [status EXCEPT ![inHand] =
                                   IF pc = "done" THEN "done" ELSE "pending"]
       \/ FailsWithout("mark") /\ UNCHANGED status
    /\ batch' = batch \ {inHand} /\ inHand' = NoMessage
    /\ Goto(IF batch = {inHand} THEN "idle" ELSE "apply")
    /\ UNCHANGED <<older, setting, web, expired, observer>>

\* Mutant: the row is marked under a context that does not expire.
MarkUnbounded ==
    /\ pc \in Handled
    /\ UNCHANGED faults
    /\ status' = [status EXCEPT ![inHand] = pc]
    /\ batch' = batch \ {inHand} /\ inHand' = NoMessage
    /\ Goto(IF batch = {inHand} THEN "idle" ELSE "apply")
    /\ UNCHANGED <<older, setting, web, expired, observer>>

\* MarkDone or MarkFailed; an error is logged, and the next message follows.
Mark ==
    /\ pc \in Handled
    /\ \/ (Succeeds \/ FailsAfter("mark")) /\ status' = [status EXCEPT ![inHand] = pc]
       \/ FailsWithout("mark") /\ UNCHANGED status
    /\ batch' = batch \ {inHand} /\ inHand' = NoMessage
    /\ Goto(IF batch = {inHand} THEN "idle" ELSE "apply")
    /\ UNCHANGED <<older, setting, web, expired, observer>>

\* The cycle's deadline passes.
Expire ==
    /\ pc # "idle" /\ ~expired
    /\ Fault("expiry")
    /\ expired' = TRUE
    /\ UNCHANGED <<database, web, pc, batch, inHand, observer>>

\* The process dies and restarts: its goroutines are gone, and the provider
\* repeats the calls that were not answered (the one whose row is stored comes
\* as another message).
Crash ==
    /\ Fault("crash")
    /\ pc' = "idle" /\ expired' = FALSE /\ batch' = {} /\ inHand' = NoMessage
    /\ web' = [m \in Messages |->
          IF web[m] = "none" \/ web[m] = "over" THEN web[m]
          ELSE IF m \in Stored THEN "over" ELSE "none"]
    /\ older' = [m \in Messages |-> IF m \in Stored THEN older[m] \cap Stored ELSE {}]
    /\ UNCHANGED <<status, setting, observer>>

Next ==
    \/ \E m \in Messages : Receive(m) \/ Insert(m) \/ Answer200(m)
    \/ List \/ Apply \/ Reply \/ Mark \/ Expire \/ Crash

Spec == Init /\ [][Next]_vars

\* The ticker keeps starting cycles, and a cycle runs to its end.
FairSpec == Spec /\ WF_vars(List \/ Apply \/ Reply \/ Mark)
-----------------------------------------------------------------------------
(* Type invariant. *)
TypeOK ==
    /\ status \in [Messages -> {"none", "pending"} \cup Handled]
    /\ older \in [Messages -> SUBSET Messages]
    /\ setting \in [Settings -> Messages \cup {NoMessage}]
    /\ web \in [Messages -> {"none", "stamped", "inserted", "over"}]
    /\ pc \in {"idle", "apply", "reply"} \cup Handled
    /\ expired \in BOOLEAN
    /\ batch \subseteq Stored /\ (pc = "idle" <=> batch = {})
    /\ IF pc \in {"idle", "apply"} THEN inHand = NoMessage ELSE inHand \in batch
    /\ faults \in 0 .. MaxFaults
    /\ earlier \in [Messages -> SUBSET Messages]
    /\ applied \cup informed \cup logged \subseteq Messages

(* A message leaves the queue only after its command took effect or its     *)
(* sender was told that it did not: an expired cycle leaves it pending.      *)
(* (An Update and a reply that both fail do lose it: "update" and "refused".) *)
NotForgotten ==
    \A m \in Messages : status[m] \in Handled => m \in applied \cup informed

(* When the queue is empty no setting is older than a command sent later:   *)
(* replays after a crash or an expired cycle never undo a newer command.    *)
(* (A MarkDone that fails alone does let them: "mark".)                     *)
NewestCommandWins ==
    Pending = {} /\ pc = "idle" =>
        \A s \in Settings, m \in Stored :
            SettingOf[m] = s => setting[s] \notin earlier[m]

(* Every stored message is handled in the end, whatever the backlog.        *)
AllHandled ==
    \A m \in Messages : status[m] = "pending" ~> status[m] \in Handled

(* "at-least-once processing" (inbound.go:12) as far as it goes: a message   *)
(* whose webhook answered 200, so that the provider will not repeat it, is   *)
(* stored, or an error in the log names its sender (enqueueInbound); a crash *)
(* in between loses none.                                                    *)
AnsweredOrLogged ==
    \A m \in Messages : web[m] = "over" => m \in Stored \cup logged
=============================================================================
