------------------------- MODULE InboundQueueProofs -------------------------
(***************************************************************************)
(* Proofs about InboundQueue, for any messages, batches and number of      *)
(* faults of every kind but one.                                           *)
(*                                                                         *)
(* A message is never forgotten as long as Store.Update fails only because *)
(* the cycle has expired (ReliableUpdates): then the reply and the mark of *)
(* that message fail as well, under the same context, and it stays queued. *)
(***************************************************************************)
EXTENDS InboundQueue, FiniteSetTheorems, TLAPS

(* Types. *)

\* What every step does to the rows and to the count of faults.
Steady ==
    /\ status' \in [Messages -> {"none", "pending"} \cup Handled]
    /\ Stored \subseteq Stored'
    /\ faults' \in 0 .. MaxFaults

LEMMA FaultCounted ==
    ASSUME TypeOK, NEW kind, UNCHANGED faults \/ Fault(kind)
    PROVE  faults' \in 0 .. MaxFaults
BY QueueAssumption DEF TypeOK, Fault

(* Rows are never deleted, and faults are counted up to their bound.        *)
LEMMA AlwaysSteady == TypeOK /\ [Next]_vars => Steady
<1> SUFFICES ASSUME TypeOK, [Next]_vars PROVE Steady
  OBVIOUS
<1>1. ASSUME UNCHANGED status, faults' \in 0 .. MaxFaults PROVE Steady
  BY <1>1 DEF Steady, TypeOK, Stored
<1>2. ASSUME NEW m \in Messages, Receive(m) \/ Answer200(m) PROVE Steady
  <2>1. UNCHANGED status /\ (UNCHANGED faults \/ Fault("disorder"))
    BY <1>2 DEF Receive, Answer200, database
  <2> QED BY <1>1, <2>1, FaultCounted
<1>3. ASSUME NEW m \in Messages, Insert(m) PROVE Steady
  <2>1. /\ UNCHANGED faults \/ Fault("enqueue")
        /\ status' = status \/ status' = [status EXCEPT ![m] = "pending"]
    BY <1>3 DEF Insert
  <2>2. faults' \in 0 .. MaxFaults
    BY <2>1, FaultCounted
  <2> QED BY <2>1, <2>2 DEF Steady, TypeOK, Stored
<1>4. CASE List
  <2>1. UNCHANGED status /\ (UNCHANGED faults \/ Fault("list"))
    BY <1>4 DEF List, database
  <2> QED BY <1>1, <2>1, FaultCounted
<1>5. CASE Apply
  <2>1. UNCHANGED status /\ (UNCHANGED faults \/ Fault("update"))
    BY <1>5 DEF Apply, Succeeds, FailsAfter, FailsWithout
  <2> QED BY <1>1, <2>1, FaultCounted
<1>6. CASE Reply
  <2>1. UNCHANGED status /\ (UNCHANGED faults \/ Fault("refused"))
    BY <1>6 DEF Reply, SendSucceeds, SendFails, Succeeds, FailsAfter, FailsWithout, database
  <2> QED BY <1>1, <2>1, FaultCounted
<1>7. CASE Mark
  <2>1. /\ UNCHANGED faults \/ Fault("mark")
        /\ status' = status \/ status' = [status EXCEPT ![inHand] = pc]
        /\ pc \in Handled
    BY <1>7 DEF Mark, Succeeds, FailsAfter, FailsWithout
  <2>2. faults' \in 0 .. MaxFaults
    BY <2>1, FaultCounted
  <2> QED BY <2>1, <2>2 DEF Steady, TypeOK, Stored, Handled
<1>8. CASE Expire \/ Crash
  <2>1. UNCHANGED status /\ (Fault("expiry") \/ Fault("crash"))
    BY <1>8 DEF Expire, Crash, database
  <2> QED BY <1>1, <2>1, FaultCounted
<1>9. CASE UNCHANGED vars
  BY <1>1, <1>9 DEF vars, database, TypeOK
<1> QED
  BY <1>2, <1>3, <1>4, <1>5, <1>6, <1>7, <1>8, <1>9 DEF Next

\* The scanner's place in its loop, and what is left of the batch.
LoopType ==
    /\ pc \in {"idle", "apply", "reply"} \cup Handled
    /\ expired \in BOOLEAN
    /\ batch \subseteq Stored /\ (pc = "idle" <=> batch = {})
    /\ IF pc \in {"idle", "apply"} THEN inHand = NoMessage ELSE inHand \in batch

(* The loop has a message in hand exactly while it handles one.             *)
LEMMA LoopTypeNext == TypeOK /\ [Next]_vars => LoopType'
<1> SUFFICES ASSUME TypeOK, [Next]_vars PROVE LoopType'
  OBVIOUS
<1>1. Stored \subseteq Stored' /\ LoopType
  BY AlwaysSteady DEF Steady, TypeOK, LoopType
<1> USE DEF LoopType, Goto, Handled
<1>2. ASSUME UNCHANGED <<pc, expired, batch, inHand>> PROVE LoopType'
  BY <1>1, <1>2
<1>3. ASSUME NEW m \in Messages, Receive(m) \/ Insert(m) \/ Answer200(m) PROVE LoopType'
  BY <1>2, <1>3 DEF Receive, Insert, Answer200, cycle
<1>4. CASE List
  <2>1. Listing \subseteq Stored
    BY DEF Listing, Pending, Stored
  <2> QED BY <1>1, <1>4, <2>1 DEF List
<1>5. CASE Apply
  BY <1>1, <1>5 DEF Apply
<1>6. CASE Reply
  BY <1>1, <1>6 DEF Reply
<1>7. CASE Mark
  BY <1>1, <1>7 DEF Mark
<1>8. CASE Expire
  BY <1>1, <1>8 DEF Expire
<1>9. CASE Crash
  BY <1>9 DEF Crash
<1>10. CASE UNCHANGED vars
  BY <1>2, <1>10 DEF vars, cycle
<1> QED
  BY <1>3, <1>4, <1>5, <1>6, <1>7, <1>8, <1>9, <1>10 DEF Next

\* The other variables.
RestType ==
    /\ web \in [Messages -> {"none", "stamped", "inserted", "over"}]
    /\ older \in [Messages -> SUBSET Messages]
    /\ setting \in [Settings -> Messages \cup {NoMessage}]
    /\ earlier \in [Messages -> SUBSET Messages]
    /\ applied \subseteq Messages /\ informed \subseteq Messages /\ logged \subseteq Messages

LEMMA RestTypeNext == TypeOK /\ [Next]_vars => RestType'
<1> SUFFICES ASSUME TypeOK, [Next]_vars PROVE RestType'
  OBVIOUS
<1>1. RestType
  BY DEF TypeOK, RestType
<1>2. ASSUME UNCHANGED <<older, setting, web, applied, informed, earlier, logged>> PROVE RestType'
  BY <1>1, <1>2 DEF RestType
<1>3. ASSUME NEW m \in Messages, Receive(m) PROVE RestType'
  <2>1. PICK s \in SUBSET Stamped : StampAfter(m, s)
    BY <1>3 DEF Receive
  <2>2. older' \in [Messages -> SUBSET Messages]
    BY <1>1, <2>1 DEF StampAfter, Stamped, RestType
  <2> QED BY <1>1, <1>3, <2>2 DEF Receive, RestType, Stored
<1>4. ASSUME NEW m \in Messages, Insert(m) \/ Answer200(m) PROVE RestType'
  BY <1>1, <1>4 DEF Insert, Answer200, database, observer, RestType
<1>5. CASE List \/ Expire \/ Mark
  BY <1>2, <1>5 DEF List, Expire, Mark, database, observer
<1>6. CASE Apply
  <2>1. PICK m \in batch : Replace(m) \/ OnlyRead(m) \/ UNCHANGED <<setting, applied>>
    BY <1>6 DEF Apply
  <2>2. m \in Messages
    BY DEF TypeOK, Stored
  <2>3. setting' \in [Settings -> Messages \cup {NoMessage}] /\ applied' \subseteq Messages
    BY <1>1, <2>1, <2>2 DEF Replace, OnlyRead, RestType
  <2> QED BY <1>1, <1>6, <2>3 DEF Apply, RestType
<1>7. CASE Reply
  <2>1. inHand \in Messages
    BY <1>7 DEF Reply, TypeOK, Stored
  <2> QED BY <1>1, <1>7, <2>1 DEF Reply, SendSucceeds, SendFails, database, RestType
<1>8. CASE Crash
  BY <1>1, <1>8 DEF Crash, observer, RestType
<1>9. CASE UNCHANGED vars
  BY <1>2, <1>9 DEF vars, database, observer
<1> QED BY <1>3, <1>4, <1>5, <1>6, <1>7, <1>8, <1>9 DEF Next

(* Every variable keeps its type.                                           *)
LEMMA TypeNext == TypeOK /\ [Next]_vars => TypeOK'
BY AlwaysSteady, LoopTypeNext, RestTypeNext DEF TypeOK, Steady, LoopType, RestType

LEMMA TypeInit == Init => TypeOK
<1> SUFFICES ASSUME Init PROVE TypeOK
  OBVIOUS
<1>1. /\ status \in [Messages -> {"none", "pending"} \cup Handled]
      /\ older \in [Messages -> SUBSET Messages]
      /\ setting \in [Settings -> Messages \cup {NoMessage}]
      /\ web \in [Messages -> {"none", "stamped", "inserted", "over"}]
      /\ earlier \in [Messages -> SUBSET Messages]
  BY DEF Init
<1>2. /\ pc = "idle" /\ expired = FALSE /\ batch = {} /\ inHand = NoMessage
      /\ faults \in 0 .. MaxFaults
      /\ applied = {} /\ informed = {} /\ logged = {}
  BY QueueAssumption DEF Init
<1> QED BY <1>1, <1>2 DEF TypeOK

(* Every state of the queue and of its loop is of its type.                 *)
THEOREM TypeCorrect == Spec => []TypeOK
BY TypeInit, TypeNext, PTL DEF Spec
-----------------------------------------------------------------------------
ReliableUpdates == "update" \notin Faults

\* What is known of the message being handled: without effect and without a
\* reply it gets this far only in an expired cycle.
HeadInv ==
    /\ pc = "reply" => inHand \in applied \/ expired
    /\ pc = "done" => inHand \in informed
    /\ pc = "failed" => inHand \in applied \cup informed \/ expired

StatusType == DOMAIN status = Messages

QueueInv == StatusType /\ HeadInv /\ NotForgotten

(* One step keeps the invariant: the only step that takes a message out of  *)
(* the queue is Mark, and Mark has no effect in an expired cycle.           *)
LEMMA QueueNext ==
    ASSUME ReliableUpdates
    PROVE  QueueInv /\ [Next]_vars => QueueInv'
<1> SUFFICES ASSUME StatusType, HeadInv, NotForgotten, [Next]_vars
             PROVE  QueueInv'
  BY DEF QueueInv
<1> USE DEF QueueInv, StatusType, HeadInv, NotForgotten, Handled
<1>1. ASSUME NEW m \in Messages, Receive(m) \/ Answer200(m)
      PROVE  QueueInv'
  BY <1>1 DEF Receive, Answer200, database, cycle, observer
<1>2. ASSUME NEW m \in Messages, Insert(m) PROVE QueueInv'
  <2>1. /\ DOMAIN status' = Messages
        /\ \A n \in Messages : status'[n] \in Handled => status[n] \in Handled
    BY <1>2 DEF Insert
  <2> QED BY <1>2, <2>1 DEF Insert, cycle, observer
<1>3. CASE List
  BY <1>3 DEF List, Goto, database, observer
<1>4. CASE Apply
  <2>1. inHand' \in applied' \/ expired
    BY <1>4 DEF Apply, Replace, OnlyRead, Succeeds, FailsAfter, FailsWithout, Fault, ReliableUpdates
  <2>2. applied \subseteq applied'
    BY <1>4 DEF Apply, Replace, OnlyRead
  <2> QED BY <1>4, <2>1, <2>2 DEF Apply, Goto
<1>5. CASE Reply
  <2>1. informed \subseteq informed'
    BY <1>5 DEF Reply, SendSucceeds, SendFails
  <2>2. (pc' = "done" /\ inHand \in informed') \/ pc' = "failed"
    BY <1>5 DEF Reply, Goto, SendSucceeds
  <2> QED BY <1>5, <2>1, <2>2 DEF Reply, database
<1>6. CASE Mark
  <2>1. DOMAIN status' = Messages
    BY <1>6 DEF Mark
  <2>2. ASSUME NEW m \in Messages, status'[m] \in {"done", "failed"}
        PROVE  m \in applied \cup informed
    <3>1. CASE status'[m] = status[m]
      BY <2>2, <3>1
    <3>2. CASE status'[m] # status[m]
      BY <1>6, <3>2 DEF Mark, Succeeds, FailsAfter
    <3> QED BY <3>1, <3>2
  <2>3. pc' \in {"idle", "apply"}
    BY <1>6 DEF Mark, Goto
  <2> QED BY <1>6, <2>1, <2>2, <2>3 DEF Mark, observer
<1>7. CASE Expire
  BY <1>7 DEF Expire, database, observer
<1>8. CASE Crash
  BY <1>8 DEF Crash, database, observer
<1>9. CASE UNCHANGED vars
  BY <1>9 DEF vars, database, cycle, observer
<1> QED
  BY <1>1, <1>2, <1>3, <1>4, <1>5, <1>6, <1>7, <1>8, <1>9 DEF Next

(* No message leaves the queue with neither an effect nor a reply, whatever *)
(* expires, crashes or cannot be sent, while updates themselves succeed.    *)
THEOREM NotForgottenCorrect ==
    ASSUME ReliableUpdates
    PROVE  Spec => []NotForgotten
<1>1. Init => QueueInv
  BY DEF Init, QueueInv, StatusType, HeadInv, NotForgotten, Handled
<1>2. QueueInv => NotForgotten
  BY DEF QueueInv
<1> QED BY <1>1, <1>2, QueueNext, PTL DEF Spec
-----------------------------------------------------------------------------
\* What is known of a webhook's goroutine behind its Enqueue.
WebInv ==
    /\ DOMAIN status = Messages /\ DOMAIN web = Messages
    /\ \A m \in Messages : web[m] \in {"inserted", "over"} => m \in Stored \cup logged

(* A stored message stays stored, and an error stays in the log, so a step   *)
(* that answers, or a crash that ends a goroutine, finds either of them.     *)
LEMMA WebNext == WebInv /\ [Next]_vars => WebInv'
<1> SUFFICES ASSUME WebInv, [Next]_vars PROVE WebInv'
  OBVIOUS
<1> USE DEF WebInv, Stored
<1>1. ASSUME NEW n \in Messages, Receive(n) \/ Answer200(n)
      PROVE  WebInv'
  BY <1>1 DEF Receive, Answer200, database, observer
<1>2. ASSUME NEW n \in Messages, Insert(n) PROVE WebInv'
  <2>1. /\ DOMAIN status' = Messages /\ DOMAIN web' = Messages
        /\ \A m \in Messages \ {n} : web'[m] = web[m]
        /\ \A m \in Messages : status[m] # "none" => status'[m] # "none"
        /\ logged \subseteq logged'
    BY <1>2 DEF Insert
  <2>2. status'[n] # "none" \/ n \in logged'
    BY <1>2 DEF Insert
  <2> QED BY <2>1, <2>2
<1>3. CASE List \/ Apply \/ Reply
  BY <1>3 DEF List, Apply, Reply, database, observer
<1>4. CASE Mark
  <2>1. DOMAIN status' = Messages
    BY <1>4 DEF Mark
  <2>2. ASSUME NEW m \in Messages, status[m] # "none" PROVE status'[m] # "none"
    BY <1>4, <2>2 DEF Mark, Handled
  <2> QED BY <1>4, <2>1, <2>2 DEF Mark, observer
<1>5. CASE Expire
  BY <1>5 DEF Expire, database, observer
<1>6. CASE Crash
  BY <1>6 DEF Crash, observer
<1>7. CASE UNCHANGED vars
  BY <1>7 DEF vars, database, observer
<1> QED
  BY <1>1, <1>2, <1>3, <1>4, <1>5, <1>6, <1>7 DEF Next

(* What was answered is stored or logged, whatever fails and crashes.       *)
THEOREM AnsweredOrLoggedCorrect == Spec => []AnsweredOrLogged
<1>1. Init => WebInv
  BY DEF Init, WebInv
<1>2. WebInv => AnsweredOrLogged
  BY DEF WebInv, AnsweredOrLogged
<1> QED BY <1>1, <1>2, WebNext, PTL DEF Spec
-----------------------------------------------------------------------------
(* Replays. *)

\* No statement but those of an expired cycle fails between a command's effect
\* and its row's mark, and stamps are in the order in which they were taken.
ReliableMarks == {"disorder", "update", "mark"} \cap Faults = {}

\* The stamps are ordered, and what was stored before a message is older.
OrderInv ==
    /\ IsFiniteSet(Stamped) /\ Stored \subseteq Stamped
    /\ \A m \in Messages :
          /\ older[m] \subseteq Stamped
          /\ \A n \in older[m] : older[n] \subseteq older[m]
          /\ web[m] = "stamped" => m \notin Stored
          /\ earlier[m] \subseteq Stored \ {m}
          /\ m \in Stored \/ web[m] = "stamped" => earlier[m] \subseteq older[m]

(* The steps that take no stamp and store nothing.                          *)
LEMMA OrderKept ==
    ASSUME TypeOK, OrderInv, UNCHANGED <<older, web, earlier>>, Stored' = Stored
    PROVE  OrderInv'
BY DEF OrderInv, Stamped

LEMMA SameStored ==
    ASSUME UNCHANGED status PROVE Stored' = Stored
BY DEF Stored

LEMMA OrderNext ==
    ASSUME ReliableMarks
    PROVE  TypeOK /\ OrderInv /\ [Next]_vars => OrderInv'
<1> SUFFICES ASSUME TypeOK, OrderInv, [Next]_vars PROVE OrderInv'
  OBVIOUS
<1>1. ASSUME UNCHANGED <<status, older, web, earlier>> PROVE OrderInv'
  BY <1>1, OrderKept, SameStored
<1>2. ASSUME NEW m \in Messages, Receive(m) PROVE OrderInv'
  <2>1. /\ web[m] = "none" /\ web' = [web EXCEPT ![m] = "stamped"]
        /\ StampAfter(m, Stamped)
        /\ earlier' = [earlier EXCEPT ![m] = Stored]
        /\ Stored' = Stored
    BY <1>2, SameStored DEF Receive, ReliableMarks, Fault
  <2>2. m \notin Stamped /\ m \notin Stored
    BY <2>1 DEF OrderInv, Stamped
  <2>3. Stamped' = Stamped \cup {m}
    BY <2>1 DEF Stamped, TypeOK
  <2>4. IsFiniteSet(Stamped')
    BY <2>3, FS_AddElement DEF OrderInv
  <2>5. /\ older'[m] = Stamped
        /\ \A n \in Messages : n # m => older'[n] = older[n]
    BY <2>1 DEF StampAfter, TypeOK
  <2>6. ASSUME NEW n \in Messages
        PROVE  /\ older'[n] \subseteq Stamped'
               /\ \A k \in older'[n] : older'[k] \subseteq older'[n]
               /\ web'[n] = "stamped" => n \notin Stored'
               /\ earlier'[n] \subseteq Stored' \ {n}
               /\ n \in Stored' \/ web'[n] = "stamped" => earlier'[n] \subseteq older'[n]
    <3>1. CASE n = m
      <4>1. \A k \in Stamped : older'[k] \subseteq Stamped
        BY <2>2, <2>5 DEF OrderInv, Stamped
      <4> QED BY <2>1, <2>2, <2>3, <2>5, <3>1, <4>1 DEF OrderInv, TypeOK
    <3>2. CASE n # m
      <4>1. /\ older'[n] = older[n] /\ web'[n] = web[n] /\ earlier'[n] = earlier[n]
            /\ \A k \in older[n] : older'[k] = older[k]
        BY <2>1, <2>2, <2>5, <3>2 DEF OrderInv, TypeOK, Stamped
      <4> QED BY <2>1, <2>3, <4>1 DEF OrderInv
    <3> QED BY <3>1, <3>2
  <2> QED BY <2>1, <2>3, <2>4, <2>6 DEF OrderInv
<1>3. ASSUME NEW m \in Messages, Insert(m) PROVE OrderInv'
  <2>1. /\ web[m] = "stamped" /\ web' = [web EXCEPT ![m] = "inserted"]
        /\ UNCHANGED <<older, earlier>>
        /\ Stored \subseteq Stored' /\ Stored' \subseteq Stored \cup {m}
    BY <1>3 DEF Insert, Stored, TypeOK
  <2>2. Stamped' = Stamped /\ m \in Stamped
    BY <2>1 DEF Stamped, TypeOK
  <2>3. \A n \in Messages : web'[n] = "stamped" => n # m /\ web[n] = "stamped"
    BY <2>1 DEF TypeOK
  <2> QED BY <2>1, <2>2, <2>3 DEF OrderInv
<1>4. ASSUME NEW m \in Messages, Answer200(m) PROVE OrderInv'
  <2>1. /\ web[m] = "inserted" /\ web' = [web EXCEPT ![m] = "over"]
        /\ UNCHANGED <<older, earlier>> /\ Stored' = Stored
    BY <1>4, SameStored DEF Answer200, database, observer
  <2>2. Stamped' = Stamped
    BY <2>1 DEF Stamped, TypeOK
  <2>3. \A n \in Messages : web'[n] = "stamped" => web[n] = "stamped"
    BY <2>1 DEF TypeOK
  <2> QED BY <2>1, <2>2, <2>3 DEF OrderInv
<1>5. CASE List \/ Apply \/ Reply \/ Expire
  BY <1>1, <1>5 DEF List, Apply, Reply, Expire, database, observer
<1>6. CASE Mark
  <2>1. Stored' = Stored
    BY <1>6 DEF Mark, Stored, Handled, TypeOK
  <2> QED BY <1>6, <2>1, OrderKept DEF Mark, observer
<1>7. CASE Crash
  <2>1. /\ Stored' = Stored /\ UNCHANGED earlier
        /\ older' = [m \in Messages |-> IF m \in Stored THEN older[m] \cap Stored ELSE {}]
        /\ \A m \in Messages : web'[m] # "stamped" /\ (web'[m] # "none" => web[m] # "none")
        /\ \A m \in Stored : web[m] # "none" => web'[m] # "none"
    BY <1>7, SameStored DEF Crash, observer, Stored
  <2>2. Stamped' \subseteq Stamped /\ Stored \subseteq Stamped'
    BY <2>1 DEF Stamped, OrderInv, Stored
  <2>3. IsFiniteSet(Stamped')
    BY <2>2, FS_Subset DEF OrderInv
  <2>4. \A m \in Messages : older'[m] = IF m \in Stored THEN older[m] \cap Stored ELSE {}
    BY <2>1
  <2>5. ASSUME NEW m \in Messages, NEW n \in older'[m]
        PROVE  older'[n] \subseteq older'[m]
    <3>1. n \in Messages /\ m \in Stored /\ n \in older[m] /\ n \in Stored
      BY <2>4, <2>5 DEF Stored
    <3>2. older[n] \subseteq older[m]
      BY <3>1 DEF OrderInv
    <3> QED BY <2>4, <3>1, <3>2
  <2>6. \A m \in Messages : older'[m] \subseteq Stamped'
    BY <2>2, <2>4
  <2> QED BY <2>1, <2>2, <2>3, <2>4, <2>5, <2>6 DEF OrderInv
<1>8. CASE UNCHANGED vars
  BY <1>1, <1>8 DEF vars, database, observer
<1> QED BY <1>2, <1>3, <1>4, <1>5, <1>6, <1>7, <1>8 DEF Next

Finished == {m \in Messages : status[m] \in Handled}

\* What a replay could undo is already undone or will be redone: a command has
\* its effect after those of all messages before it, which are then marked.
ReplayInv ==
    /\ applied \subseteq Stored /\ batch \subseteq Pending
    /\ pc \in {"reply"} \cup Handled => inHand \in applied \/ expired
    /\ ~expired => \A m \in batch : earlier[m] \subseteq batch \cup Finished
    /\ Finished \subseteq applied
    /\ \A m \in applied :
          /\ earlier[m] \subseteq Finished
          /\ SettingOf[m] \in Settings => setting[SettingOf[m]] \notin earlier[m]

(* The oldest messages are listed: with a message, all before it.           *)
LEMMA ListingClosed ==
    ASSUME TypeOK, OrderInv, NEW m \in Listing, NEW n \in Pending, n \in older[m]
    PROVE  n \in Listing
<1> DEFINE M == older[m] \cap Pending
           N == older[n] \cap Pending
<1>1. m \in Messages /\ Cardinality(M) < Limit
  BY DEF Listing, Pending
<1>2. IsFiniteSet(M)
  BY <1>1, FS_Subset DEF OrderInv
<1>3. N \subseteq M
  BY <1>1 DEF OrderInv
<1>4. Cardinality(N) <= Cardinality(M) /\ IsFiniteSet(N)
  BY <1>2, <1>3, FS_Subset
<1>5. Cardinality(N) \in Nat /\ Cardinality(M) \in Nat
  BY <1>2, <1>4, FS_CardinalityType
<1> QED BY <1>1, <1>4, <1>5, QueueAssumption DEF Listing

(* A command that takes effect comes after those of all earlier messages,   *)
(* and no message with an effect was sent after it.                         *)
LEMMA ReplayApply ==
    ASSUME ReliableMarks, TypeOK, OrderInv, ReplayInv, Apply
    PROVE  ReplayInv'
<1>1. PICK m \in batch :
         /\ pc = "apply" /\ older[m] \cap batch = {} /\ inHand' = m
         /\ \/ ~expired /\ (Replace(m) \/ OnlyRead(m))
            \/ expired /\ UNCHANGED <<setting, applied>>
  BY DEF Apply, Succeeds, FailsAfter, FailsWithout, Fault, ReliableMarks
<1>2. /\ m \in Messages /\ m \in Stored /\ m \notin Finished
      /\ pc' = "reply" /\ UNCHANGED <<status, expired, batch, earlier>>
  BY DEF Apply, Goto, ReplayInv, TypeOK, Pending, Finished, Stored, Handled
<1>3. Stored' = Stored /\ Pending' = Pending /\ Finished' = Finished
  BY <1>2 DEF Stored, Pending, Finished
<1>4. CASE UNCHANGED <<setting, applied>> /\ expired
  BY <1>1, <1>2, <1>3, <1>4 DEF ReplayInv
<1>5. CASE ~expired /\ (Replace(m) \/ OnlyRead(m))
  <2>1. applied' = applied \cup {m}
    BY <1>5 DEF Replace, OnlyRead
  <2>2. earlier[m] \subseteq Finished /\ m \notin earlier[m]
    <3>1. earlier[m] \subseteq batch \cup Finished
      BY <1>5 DEF ReplayInv
    <3>2. earlier[m] \subseteq older[m] /\ m \notin earlier[m]
      BY <1>2 DEF OrderInv
    <3> QED BY <1>1, <3>1, <3>2
  <2>3. \A n \in applied : m \notin earlier[n]
    BY <1>2 DEF ReplayInv
  <2>4. ASSUME NEW n \in applied', SettingOf[n] \in Settings
        PROVE  setting'[SettingOf[n]] \notin earlier[n]
    <3>1. CASE Replace(m) /\ SettingOf[n] = SettingOf[m]
      <4>1. setting'[SettingOf[n]] = m
        BY <2>4, <3>1 DEF Replace, TypeOK
      <4> QED BY <2>1, <2>2, <2>3, <4>1
    <3>2. CASE Replace(m) /\ SettingOf[n] # SettingOf[m]
      <4>1. setting'[SettingOf[n]] = setting[SettingOf[n]] /\ n \in applied
        BY <2>1, <2>4, <3>2 DEF Replace, TypeOK
      <4> QED BY <2>4, <4>1 DEF ReplayInv
    <3>3. CASE OnlyRead(m)
      <4>1. setting' = setting /\ n \in applied
        BY <2>1, <2>4, <3>3, QueueAssumption DEF OnlyRead
      <4> QED BY <2>4, <4>1 DEF ReplayInv
    <3> QED BY <1>5, <3>1, <3>2, <3>3
  <2>5. \A n \in applied' : earlier[n] \subseteq Finished
    BY <2>1, <2>2 DEF ReplayInv
  <2> QED BY <1>1, <1>2, <1>3, <2>1, <2>4, <2>5 DEF ReplayInv
<1> QED BY <1>1, <1>4, <1>5

(* A row is marked after its command took effect, and leaves the batch.     *)
LEMMA ReplayMark ==
    ASSUME ReliableMarks, TypeOK, ReplayInv, Mark
    PROVE  ReplayInv'
<1>1. /\ pc \in Handled /\ inHand \in batch /\ inHand \in Messages
      /\ batch' = batch \ {inHand} /\ pc' \in {"idle", "apply"}
      /\ UNCHANGED <<setting, expired, applied, earlier>>
  BY DEF Mark, Goto, observer, TypeOK, Handled, Stored
<1>2. \/ ~expired /\ status' = [status EXCEPT ![inHand] = pc]
      \/ expired /\ status' = status
  BY DEF Mark, Succeeds, FailsAfter, FailsWithout, Fault, ReliableMarks
<1>3. CASE ~expired /\ status' = [status EXCEPT ![inHand] = pc]
  <2>1. inHand \in applied
    BY <1>1, <1>3 DEF ReplayInv
  <2>2. Finished' = Finished \cup {inHand}
    BY <1>1, <1>3 DEF Finished, TypeOK
  <2>3. Stored' = Stored
    BY <1>1, <1>3 DEF Stored, Handled, TypeOK
  <2>4. batch' \subseteq Pending'
    BY <1>1, <1>3 DEF Pending, TypeOK, ReplayInv
  <2> QED BY <1>1, <2>1, <2>2, <2>3, <2>4 DEF ReplayInv, Handled
<1>4. CASE expired /\ status' = status
  BY <1>1, <1>4 DEF ReplayInv, Stored, Pending, Finished, Handled
<1> QED BY <1>2, <1>3, <1>4

(* No step brings an effect out of order.                                   *)
LEMMA ReplayNext ==
    ASSUME ReliableMarks
    PROVE  TypeOK /\ OrderInv /\ ReplayInv /\ [Next]_vars => ReplayInv'
<1> SUFFICES ASSUME TypeOK, OrderInv, ReplayInv, [Next]_vars PROVE ReplayInv'
  OBVIOUS
<1>1. ASSUME UNCHANGED <<status, setting, batch, inHand, pc, applied, earlier>>,
             expired' = expired \/ expired'
      PROVE  ReplayInv'
  <2>1. Stored' = Stored /\ Pending' = Pending /\ Finished' = Finished
    BY <1>1 DEF Stored, Pending, Finished
  <2> QED BY <1>1, <2>1 DEF ReplayInv
<1>2. ASSUME NEW m \in Messages, Receive(m) PROVE ReplayInv'
  <2>1. /\ UNCHANGED <<status, setting, batch, inHand, pc, applied, expired>>
        /\ web[m] = "none" /\ earlier' = [earlier EXCEPT ![m] = Stored]
    BY <1>2 DEF Receive, cycle
  <2>2. m \notin Stored /\ \A n \in Messages : n # m => earlier'[n] = earlier[n]
    BY <2>1 DEF OrderInv, Stamped, TypeOK
  <2>3. \A n \in Stored : earlier'[n] = earlier[n]
    BY <2>2 DEF Stored
  <2>4. Stored' = Stored /\ Pending' = Pending /\ Finished' = Finished
    BY <2>1 DEF Stored, Pending, Finished
  <2>5. applied \subseteq Stored /\ batch \subseteq Stored
    BY DEF ReplayInv, TypeOK
  <2> QED BY <2>1, <2>3, <2>4, <2>5 DEF ReplayInv
<1>3. ASSUME NEW m \in Messages, Insert(m) PROVE ReplayInv'
  <2>1. /\ UNCHANGED <<setting, batch, inHand, pc, applied, expired, earlier>>
        /\ m \notin Stored
        /\ status' = status \/ status' = [status EXCEPT ![m] = "pending"]
    BY <1>3 DEF Insert, cycle, OrderInv
  <2>2. Stored \subseteq Stored' /\ Pending \subseteq Pending' /\ Finished' = Finished
    BY <2>1 DEF Stored, Pending, Finished, TypeOK, Handled
  <2> QED BY <2>1, <2>2 DEF ReplayInv
<1>4. ASSUME NEW m \in Messages, Answer200(m) PROVE ReplayInv'
  BY <1>1, <1>4 DEF Answer200, database, cycle, observer
<1>5. CASE List
  <2>1. /\ UNCHANGED <<status, setting, applied, earlier>> /\ expired' = FALSE
        /\ pc' \in {"idle", "apply"}
        /\ batch' \in {Listing, {}}
    BY <1>5 DEF List, Goto, database, observer, TypeOK
  <2>2. Stored' = Stored /\ Pending' = Pending /\ Finished' = Finished
    BY <2>1 DEF Stored, Pending, Finished
  <2>3. Listing \subseteq Pending
    BY DEF Listing
  <2>4. ASSUME NEW m \in Listing, NEW n \in earlier[m] PROVE n \in Listing \cup Finished
    <3>1. m \in Messages /\ m \in Stored
      BY DEF Listing, Pending, Stored
    <3>2. n \in Stored /\ n \in older[m]
      BY <2>4, <3>1 DEF OrderInv
    <3>3. n \in Pending \/ n \in Finished
      BY <3>2 DEF Stored, Pending, Finished, TypeOK, Handled
    <3> QED BY <3>2, <3>3, ListingClosed
  <2> QED BY <2>1, <2>2, <2>3, <2>4 DEF ReplayInv, Handled
<1>6. CASE Reply
  <2>1. /\ UNCHANGED <<status, setting, batch, inHand, applied, expired, earlier>>
        /\ pc = "reply" /\ pc' \in Handled
    BY <1>6 DEF Reply, Goto, database, Handled
  <2>2. Stored' = Stored /\ Pending' = Pending /\ Finished' = Finished
    BY <2>1 DEF Stored, Pending, Finished
  <2> QED BY <2>1, <2>2 DEF ReplayInv
<1>7. CASE Expire
  BY <1>1, <1>7 DEF Expire, database, observer
<1>8. CASE Crash
  <2>1. /\ UNCHANGED <<status, setting, applied, earlier>>
        /\ pc' = "idle" /\ batch' = {}
    BY <1>8 DEF Crash, observer
  <2>2. Stored' = Stored /\ Pending' = Pending /\ Finished' = Finished
    BY <2>1 DEF Stored, Pending, Finished
  <2> QED BY <2>1, <2>2 DEF ReplayInv, Handled
<1>9. CASE UNCHANGED vars
  BY <1>1, <1>9 DEF vars, database, cycle, observer
<1> QED
  BY <1>2, <1>3, <1>4, <1>5, <1>6, <1>7, <1>8, <1>9, ReplayApply, ReplayMark DEF Next

(* When the queue is empty every setting is as new as its newest message:   *)
(* neither a replay after a crash or an expired cycle, nor a backlog beyond *)
(* the limit of a listing, lets an older command win.                       *)
THEOREM NewestCommandWinsCorrect ==
    ASSUME ReliableMarks
    PROVE  Spec => []NewestCommandWins
<1>1. Init => OrderInv
  <2>1. Init => Stamped = {} /\ Stored = {}
    BY DEF Init, Stamped, Stored
  <2> QED BY <2>1, FS_EmptySet DEF Init, OrderInv
<1>2. Init => ReplayInv
  BY DEF Init, ReplayInv, Finished, Handled
<1>3. TypeOK /\ ReplayInv => NewestCommandWins
  <2> SUFFICES ASSUME TypeOK, ReplayInv, Pending = {}, NEW m \in Stored, SettingOf[m] \in Settings
               PROVE  setting[SettingOf[m]] \notin earlier[m]
    BY DEF NewestCommandWins
  <2>1. m \in Finished
    BY DEF Stored, Pending, Finished, Handled, TypeOK
  <2> QED BY <2>1 DEF ReplayInv
<1> QED BY <1>1, <1>2, <1>3, TypeInit, TypeNext, OrderNext, ReplayNext, PTL DEF Spec
=============================================================================
