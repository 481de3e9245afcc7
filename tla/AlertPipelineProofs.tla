------------------------ MODULE AlertPipelineProofs ------------------------
(***************************************************************************)
(* Proofs about AlertPipeline, for any markets, web goroutines, numbers    *)
(* and kinds of faults.                                                    *)
(*                                                                         *)
(* A suggestion id is never given twice while its first suggestion exists  *)
(* (IdsFresh), although a failed send gives ids back: the digest being     *)
(* built holds the highest ids, so giving back its first one frees no id   *)
(* of an older suggestion (BatchOnTop).  With that, no step replaces a     *)
(* label (LabelFinal).  A vote is on its way to the counters in one place  *)
(* only, a goroutine's job or the scanner's list of accepted suggestions,  *)
(* and only for a suggestion that stopped being pending when the vote      *)
(* began its way (VoteInv): there is at most one (FedOnce), and it is what *)
(* the suggestion is labelled (FedAsLabelled).                             *)
(*                                                                         *)
(* Then what the user is promised, each under the faults it survives: an   *)
(* id remembered anywhere names its suggestion for ever (NameInv, for      *)
(* TrainingSound), every suggestion is one alert texted (TextedInv), a     *)
(* market the user was told is suppressed stays so (PassInv), and a market *)
(* is sent again only when worth more or after its PASS (OnceInv).         *)
(***************************************************************************)
EXTENDS AlertPipeline, SequenceTheorems, FiniteSetTheorems, TLAPS

-----------------------------------------------------------------------------
(* Sequences, whatever their elements. *)

IsSequence(s) == s \in Seq(Range(s))

LEMMA AppendSequence ==
    ASSUME NEW s, IsSequence(s), NEW x
    PROVE  /\ IsSequence(Append(s, x))
           /\ Append(s, x) # <<>>
           /\ Append(s, x)[1] = IF s = <<>> THEN x ELSE s[1]
           /\ \A i \in DOMAIN s : i \in DOMAIN Append(s, x) /\ Append(s, x)[i] = s[i]
           /\ \E i \in DOMAIN Append(s, x) : Append(s, x)[i] = x
<1> DEFINE S == Range(s) \cup {x}
           a == Append(s, x)
<1>1. s \in Seq(S) /\ x \in S
  BY DEF IsSequence, Range
<1> HIDE DEF S
<1>2. /\ a \in Seq(S) /\ Len(a) = Len(s) + 1 /\ a # <<>>
      /\ \A i \in 1 .. Len(s) : a[i] = s[i]
      /\ a[Len(s) + 1] = x
  BY <1>1, AppendProperties
<1> HIDE DEF a
<1>3. Len(s) \in Nat /\ DOMAIN s = 1 .. Len(s) /\ DOMAIN a = 1 .. Len(a)
  BY <1>1, <1>2
<1>4. IsSequence(a)
  <2>1. \A i \in 1 .. Len(a) : a[i] \in Range(a)
    BY <1>3 DEF Range
  <2> QED BY <1>2, <2>1 DEF IsSequence
<1>5. a[1] = IF s = <<>> THEN x ELSE s[1]
  <2>1. CASE s = <<>>
    BY <1>2, <2>1
  <2>2. CASE s # <<>>
    BY <1>1, <1>2, <1>3, <2>2
  <2> QED BY <2>1, <2>2
<1> QED BY <1>2, <1>3, <1>4, <1>5 DEF a

LEMMA TailSequence ==
    ASSUME NEW s, IsSequence(s), s # <<>>
    PROVE  /\ IsSequence(Tail(s))
           /\ Len(s) = 1 => Tail(s) = <<>>
           /\ Len(s) # 1 => Tail(s) # <<>>
<1> DEFINE S == Range(s)
           t == Tail(s)
<1>1. s \in Seq(S)
  BY DEF IsSequence
<1> HIDE DEF S
<1>2. t \in Seq(S) /\ Len(t) = Len(s) - 1 /\ Len(s) \in Nat
  BY <1>1, HeadTailProperties
<1> HIDE DEF t
<1>3. \A i \in 1 .. Len(t) : t[i] \in Range(t)
  BY <1>2 DEF Range
<1>4. IsSequence(t)
  BY <1>2, <1>3 DEF IsSequence
<1> QED BY <1>2, <1>4 DEF t

-----------------------------------------------------------------------------
(* Ids. *)

\* Where the scanner is between the first allocation and the digest's end.
Building == {"alloc", "send", "rollback"}
Marking == {"mark", "record"}

\* The batch is empty outside a digest, and not empty once it may be sent.
BatchShape ==
    /\ IsSequence(batch)
    /\ pc \notin Building \cup Marking => batch = <<>>
    /\ pc \in {"send", "rollback"} \cup Marking => batch # <<>>

\* The picks of the digest being built have the highest ids in use.
BatchOnTop ==
    pc \in Building /\ batch # <<>> =>
        /\ batch[1].id \in Nat
        /\ \A id \in DOMAIN sugs :
              id < batch[1].id \/ \E i \in DOMAIN batch : batch[i].id = id

IdTypes == nextId \in Nat /\ DOMAIN sugs \subseteq Nat

IdInv == IdTypes /\ BatchShape /\ BatchOnTop /\ IdsFresh

\* What the steps outside a digest leave as it is.
SameIds == nextId' = nextId /\ DOMAIN sugs' = DOMAIN sugs /\ batch' = batch

(* Every step keeps the ids in order.                                       *)
LEMMA IdNext == IdInv /\ [Next]_vars => IdInv'
<1> SUFFICES ASSUME IdTypes, BatchShape, BatchOnTop, IdsFresh, [Next]_vars
             PROVE  IdInv'
  BY DEF IdInv
<1> USE DEF IdInv, IdTypes, BatchShape, BatchOnTop, IdsFresh, Building, Marking
<1>1. ASSUME SameIds, pc' = pc PROVE IdInv'
  BY <1>1 DEF SameIds
<1>2. ASSUME SameIds, batch = <<>>, pc' \notin {"send", "rollback", "mark", "record"}
      PROVE  IdInv'
  BY <1>2 DEF SameIds
<1>3. ASSUME NEW t \in Tickers, Trade(t) \/ Buy(t) \/ PassEnds(t) PROVE IdInv'
  BY <1>1, <1>3 DEF Trade, Buy, PassEnds, SameIds, db, cycle
<1>4. CASE ToggleQuiet \/ Expire \/ TogglePause \/ FeedAccepted
  BY <1>1, <1>4 DEF ToggleQuiet, Expire, TogglePause, FeedAccepted, SameIds, db, cycle
<1>5. ASSUME NEW g \in Goroutines, NEW sid, NEW l \in {"took", "pass"},
             Feedback(g, sid, l)
      PROVE  IdInv'
  BY <1>1, <1>5 DEF Feedback, Labelled, SameIds, cycle
<1>6. ASSUME NEW g \in Goroutines, Feed(g) \/ RecordLabel(g) PROVE IdInv'
  BY <1>1, <1>6 DEF Feed, RecordLabel, SameIds, cycle
<1>7. CASE StartCycle \/ FetchEvents
  BY <1>2, <1>7 DEF StartCycle, FetchEvents, Goto, SameIds, db
<1>8. CASE DetectPositions
  BY <1>2, <1>8 DEF DetectPositions, Goto, SameIds
<1>9. CASE TakeSnapshot
  BY <1>2, <1>9 DEF TakeSnapshot, Goto, SameIds, db
<1>10. CASE Allocate
  <2>1. CASE batch' = <<>> /\ pc' = "idle"
    <3>1. nextId' \in Nat /\ DOMAIN sugs' \subseteq Nat /\ \A id \in DOMAIN sugs' : id < nextId'
      BY <1>10 DEF Allocate
    <3> QED BY <2>1, <3>1 DEF IsSequence, Range
  <2>2. CASE ~(batch' = <<>> /\ pc' = "idle")
    <3> DEFINE pick == [serial |-> serials', id |-> nextId, ticker |-> Head(queue).ticker,
                        offer |-> Head(queue).offer]
    <3>1. /\ batch' = Append(batch, pick)
          /\ nextId' = nextId + 1
          /\ DOMAIN sugs' = DOMAIN sugs \cup {nextId}
          /\ pc = "alloc" /\ pc' \in {"send", "alloc"}
      BY <1>10, <2>2 DEF Allocate, Goto
    <3>2. pick.id = nextId
      OBVIOUS
    <3> HIDE DEF pick
    <3>3. /\ IsSequence(batch') /\ batch' # <<>>
          /\ batch'[1] = IF batch = <<>> THEN pick ELSE batch[1]
          /\ \A i \in DOMAIN batch : i \in DOMAIN batch' /\ batch'[i] = batch[i]
          /\ \E i \in DOMAIN batch' : batch'[i] = pick
      BY <3>1, AppendSequence
    <3>4. batch'[1].id \in Nat
      BY <3>1, <3>2, <3>3
    <3>5. ASSUME NEW id \in DOMAIN sugs'
          PROVE  id < batch'[1].id \/ \E i \in DOMAIN batch' : batch'[i].id = id
      <4>1. CASE id = nextId
        BY <3>2, <3>3, <4>1
      <4>2. CASE id \in DOMAIN sugs /\ batch = <<>>
        BY <3>2, <3>3, <4>2
      <4>3. CASE id \in DOMAIN sugs /\ batch # <<>>
        BY <3>1, <3>3, <4>3
      <4> QED BY <3>1, <4>1, <4>2, <4>3
    <3> QED BY <3>1, <3>3, <3>4, <3>5
  <2> QED BY <2>1, <2>2
<1>11. CASE Send
  BY <1>11 DEF Send, Goto, db
<1>12. CASE Rollback
  <2>1. nextId' \in Nat /\ DOMAIN sugs' \subseteq Nat
    BY <1>12 DEF Rollback, Restrict
  <2>2. \A id \in DOMAIN sugs' : id < nextId'
    <3>1. CASE UNCHANGED <<nextId, sugs>>
      BY <3>1
    <3>2. CASE sugs' # sugs \/ nextId' # nextId
      <4>1. /\ DOMAIN sugs' = DOMAIN sugs \ {p.id : p \in Range(batch)}
            /\ nextId' = IF nextId > batch[1].id THEN batch[1].id ELSE nextId
        BY <1>12, <3>2 DEF Rollback, Restrict
      <4>2. \A i \in DOMAIN batch : batch[i].id \in {p.id : p \in Range(batch)}
        BY DEF Range
      <4> QED BY <1>12, <4>1, <4>2 DEF Rollback
    <3> QED BY <3>1, <3>2
  <2>3. batch' = <<>> /\ pc' = "idle"
    BY <1>12 DEF Rollback, Goto
  <2> QED BY <2>1, <2>2, <2>3 DEF IsSequence, Range
<1>13. CASE Mark
  BY <1>13 DEF Mark, Goto
<1>14. CASE RecordSuggestion
  <2>1. batch # <<>> /\ batch' = Tail(batch)
    BY <1>14 DEF RecordSuggestion
  <2>2. /\ IsSequence(batch')
        /\ (pc' = "idle" /\ batch' = <<>>) \/ (pc' = "mark" /\ batch' # <<>>)
    BY <1>14, <2>1, TailSequence DEF RecordSuggestion, Goto
  <2> QED BY <1>14, <2>2 DEF RecordSuggestion
<1>15. CASE Crash
  <2>1. pc' = "idle" /\ batch' = <<>> /\ UNCHANGED <<nextId, sugs>>
    BY <1>15 DEF Crash, db
  <2> QED BY <2>1 DEF IsSequence, Range
<1>16. CASE UNCHANGED vars
  BY <1>1, <1>16 DEF vars, SameIds, db, cycle
<1> QED
  BY <1>3, <1>4, <1>5, <1>6, <1>7, <1>8, <1>9, <1>10, <1>11, <1>12, <1>13, <1>14,
     <1>15, <1>16 DEF Next

LEMMA IdInit == Init => IdInv
BY DEF Init, IdInv, IdTypes, BatchShape, BatchOnTop, IdsFresh, IsSequence, Range, Building,
       Marking

(* No suggestion is overwritten: the next id is above every id in use.      *)
THEOREM IdsFreshCorrect == Spec => []IdsFresh
<1>1. IdInv => IdsFresh
  BY DEF IdInv
<1> QED BY <1>1, IdInit, IdNext, PTL DEF Spec

-----------------------------------------------------------------------------
(* Labels. *)

\* A suggestion has the fields the program gives it.
IsSuggestion(r) == r = [serial |-> r.serial, ticker |-> r.ticker, label |-> r.label]

SugsInv ==
    /\ sugs = [id \in DOMAIN sugs |-> sugs[id]]
    /\ \A id \in DOMAIN sugs : IsSuggestion(sugs[id])

\* What one step may do to the suggestions that stay.
KeepsLabels ==
    \A id \in DOMAIN sugs \cap DOMAIN sugs' :
        /\ sugs'[id].serial = sugs[id].serial
        /\ sugs[id].label # "pending" => sugs'[id].label = sugs[id].label

LEMMA SuggestionRecord ==
    ASSUME NEW a, NEW b, NEW c
    PROVE  IsSuggestion([serial |-> a, ticker |-> b, label |-> c])
BY DEF IsSuggestion

(* Relabelling one suggestion leaves the others, and its serial, alone.     *)
LEMMA LabelledProperties ==
    ASSUME SugsInv, NEW id \in DOMAIN sugs, NEW l
    PROVE  /\ DOMAIN Labelled(id, l) = DOMAIN sugs
           /\ Labelled(id, l) = [i \in DOMAIN sugs |-> Labelled(id, l)[i]]
           /\ Labelled(id, l)[id] =
                [serial |-> sugs[id].serial, ticker |-> sugs[id].ticker, label |-> l]
           /\ \A i \in DOMAIN sugs : i # id => Labelled(id, l)[i] = sugs[i]
BY DEF SugsInv, IsSuggestion, Labelled

(* No step gives a labelled suggestion another label, or a suggestion       *)
(* another serial.                                                          *)
LEMMA LabelNext ==
    IdInv /\ SugsInv /\ [Next]_vars => SugsInv' /\ KeepsLabels
<1> SUFFICES ASSUME IdInv, SugsInv, [Next]_vars
             PROVE  SugsInv' /\ KeepsLabels
  OBVIOUS
<1>1. ASSUME sugs' = sugs PROVE SugsInv' /\ KeepsLabels
  BY <1>1 DEF SugsInv, KeepsLabels, IsSuggestion
<1>2. ASSUME NEW g \in Goroutines, NEW sid, NEW l \in {"took", "pass"},
             Feedback(g, sid, l)
      PROVE  SugsInv' /\ KeepsLabels
  <2>1. /\ sid \in DOMAIN sugs /\ sugs[sid].label = "pending"
        /\ sugs' = Labelled(sid, l)
    BY <1>2 DEF Feedback
  <2>2. /\ DOMAIN sugs' = DOMAIN sugs
        /\ sugs' = [i \in DOMAIN sugs |-> sugs'[i]]
        /\ sugs'[sid] = [serial |-> sugs[sid].serial,
                             ticker |-> sugs[sid].ticker, label |-> l]
        /\ \A i \in DOMAIN sugs : i # sid => sugs'[i] = sugs[i]
    BY <2>1, LabelledProperties
  <2>3. \A i \in DOMAIN sugs : IsSuggestion(sugs'[i])
    BY <2>2, SuggestionRecord DEF SugsInv
  <2>4. /\ sugs'[sid].serial = sugs[sid].serial
        /\ sugs[sid].label = "pending"
    BY <2>1, <2>2
  <2> QED BY <2>2, <2>3, <2>4 DEF SugsInv, KeepsLabels
<1>3. CASE DetectPositions
  <2> DEFINE new == portfolio \ known
             hit == {id \in DOMAIN sugs : sugs[id].ticker \in new /\ sugs[id].label = "pending"}
  <2>1. \/ sugs' = sugs
        \/ sugs' = [id \in DOMAIN sugs |->
                      IF id \in hit THEN [sugs[id] EXCEPT !.label = "position"] ELSE sugs[id]]
    BY <1>3 DEF DetectPositions
  <2> HIDE DEF hit
  <2>2. \A id \in DOMAIN sugs :
           [sugs[id] EXCEPT !.label = "position"] =
             [serial |-> sugs[id].serial, ticker |-> sugs[id].ticker, label |-> "position"]
    BY DEF SugsInv, IsSuggestion
  <2>3. \A id \in hit : sugs[id].label = "pending"
    BY DEF hit
  <2>4. CASE sugs' # sugs
    <3>1. DOMAIN sugs' = DOMAIN sugs /\ sugs' = [id \in DOMAIN sugs' |-> sugs'[id]]
      BY <2>1, <2>4
    <3>2. \A id \in DOMAIN sugs : IF id \in hit
             THEN sugs'[id] = [serial |-> sugs[id].serial, ticker |-> sugs[id].ticker,
                               label |-> "position"]
             ELSE sugs'[id] = sugs[id]
      BY <2>1, <2>2, <2>4
    <3>3. \A id \in DOMAIN sugs : IsSuggestion(sugs'[id])
      BY <3>2, SuggestionRecord DEF SugsInv
    <3> QED BY <2>3, <3>1, <3>2, <3>3 DEF SugsInv, KeepsLabels
  <2> QED BY <1>1, <2>4
<1>4. CASE Allocate
  <2>1. \/ sugs' = sugs
        \/ sugs' = [id \in DOMAIN sugs \cup {nextId} |->
                      IF id = nextId
                      THEN [serial |-> serials', ticker |-> Head(queue).ticker, label |-> "pending"]
                      ELSE sugs[id]]
    BY <1>4 DEF Allocate
  <2>2. nextId \notin DOMAIN sugs
    BY DEF IdInv, IdTypes, IdsFresh
  <2> QED BY <1>1, <2>1, <2>2 DEF SugsInv, KeepsLabels, IsSuggestion
<1>5. CASE Rollback
  <2>1. \/ sugs' = sugs
        \/ sugs' = Restrict(sugs, DOMAIN sugs \ {p.id : p \in Range(batch)})
    BY <1>5 DEF Rollback
  <2> QED BY <1>1, <2>1 DEF SugsInv, KeepsLabels, IsSuggestion, Restrict
<1>6. ASSUME NEW t \in Tickers, Trade(t) \/ Buy(t) \/ PassEnds(t) PROVE sugs' = sugs
  BY <1>6 DEF Trade, Buy, PassEnds, db
<1>7. CASE ToggleQuiet \/ Expire \/ TogglePause \/ FeedAccepted \/ Crash \/ StartCycle
  BY <1>1, <1>7 DEF ToggleQuiet, Expire, TogglePause, FeedAccepted, Crash, StartCycle, db
<1>8. CASE FetchEvents \/ TakeSnapshot \/ Send \/ Mark \/ RecordSuggestion
  BY <1>1, <1>8 DEF FetchEvents, TakeSnapshot, Send, Mark, RecordSuggestion, db
<1>9. ASSUME NEW g \in Goroutines, Feed(g) \/ RecordLabel(g) PROVE sugs' = sugs
  BY <1>9 DEF Feed, RecordLabel
<1>10. CASE UNCHANGED vars
  BY <1>1, <1>10 DEF vars, db
<1> QED
  BY <1>1, <1>2, <1>3, <1>4, <1>5, <1>6, <1>7, <1>8, <1>9, <1>10 DEF Next

(* A label is final: no answer, portfolio scan or reused id replaces it.    *)
THEOREM LabelFinalCorrect == Spec => LabelFinal
<1>1. Init => IdInv /\ SugsInv
  BY IdInit DEF Init, SugsInv
<1>2. IdInv /\ SugsInv /\ [Next]_vars
        => [\A id \in DOMAIN sugs \cap DOMAIN sugs' :
              /\ sugs'[id].serial = sugs[id].serial
              /\ sugs[id].label # "pending" => sugs'[id].label = sugs[id].label]_vars
  BY LabelNext DEF KeepsLabels
<1> QED BY <1>1, <1>2, IdNext, LabelNext, PTL DEF Spec, LabelFinal

-----------------------------------------------------------------------------
(* Votes. *)

\* Goroutine g is about to feed the counters.
Feeding(g) == job[g] # NoJob /\ job[g].step = "feed"

\* A serial that was given to a suggestion.
Given(n) == n \in Serials /\ n <= serials

IsJob(r) == r = [step |-> r.step, serial |-> r.serial, id |-> r.id, label |-> r.label]

\* Each suggestion has a serial of its own; a serial not given has no vote.
SerialInv ==
    /\ serials \in Nat /\ DOMAIN fed = Serials /\ DOMAIN job = Goroutines
    /\ \A g \in Goroutines : job[g] # NoJob => IsJob(job[g])
    /\ \A id \in DOMAIN sugs : Given(sugs[id].serial)
    /\ \A i, j \in DOMAIN sugs : sugs[i].serial = sugs[j].serial => i = j
    /\ \A n \in Serials : n > serials => fed[n] = <<>>

\* A vote on its way to the counters is the only one of its suggestion.
OneVote ==
    /\ \A g \in Goroutines : Feeding(g) => Given(job[g].serial) /\ fed[job[g].serial] = <<>>
    /\ \A g, h \in Goroutines :
          Feeding(g) /\ Feeding(h) /\ job[g].serial = job[h].serial => g = h
    /\ \A a \in accepted :
          /\ Given(a.serial) /\ fed[a.serial] = <<>>
          /\ \A g \in Goroutines : Feeding(g) => job[g].serial # a.serial
    /\ \A a, b \in accepted : a.serial = b.serial => a = b

\* A vote, given or on its way, is what its suggestion is labelled.
VoteIsLabel ==
    \A id \in DOMAIN sugs :
        /\ \A g \in Goroutines : Feeding(g) /\ job[g].serial = sugs[id].serial
              => sugs[id].label # "pending" /\ job[g].label = sugs[id].label
        /\ \A a \in accepted : a.serial = sugs[id].serial => sugs[id].label = "position"
        /\ fed[sugs[id].serial] # <<>>
              => sugs[id].label # "pending" /\ fed[sugs[id].serial][1] = Accepts(sugs[id].label)

VoteInv == SerialInv /\ OneVote /\ VoteIsLabel /\ FedOnce

(* A pending suggestion has no vote, neither given nor on its way.          *)
LEMMA PendingUnclaimed ==
    ASSUME VoteInv, NEW id \in DOMAIN sugs, sugs[id].label = "pending"
    PROVE  /\ fed[sugs[id].serial] = <<>>
           /\ \A g \in Goroutines : Feeding(g) => job[g].serial # sugs[id].serial
           /\ \A a \in accepted : a.serial # sugs[id].serial
BY DEF VoteInv, VoteIsLabel

(* Steps that touch no vote and at most delete suggestions.                 *)
LEMMA VotesLeft ==
    ASSUME VoteInv, UNCHANGED <<fed, job, accepted, serials>>,
           \A id \in DOMAIN sugs' : id \in DOMAIN sugs /\ sugs'[id] = sugs[id]
    PROVE  VoteInv'
BY DEF VoteInv, SerialInv, OneVote, VoteIsLabel, FedOnce, Feeding, Given, IsJob

(* The first vote of a suggestion.                                          *)
LEMMA FirstVote ==
    ASSUME NEW v
    PROVE  /\ Append(<<>>, v) # <<>> /\ Append(<<>>, v)[1] = v
           /\ Len(Append(<<>>, v)) = 1
<1>1. <<>> \in Seq({v}) /\ v \in {v} /\ Len(<<>>) = 0
  OBVIOUS
<1> QED BY <1>1, AppendProperties

(* Feeding gives the vote that was on its way.                              *)
LEMMA VotesFed ==
    ASSUME VoteInv, NEW g \in Goroutines, Feed(g)
    PROVE  VoteInv'
<1> DEFINE n == job[g].serial
           v == Accepts(job[g].label)
<1>1. Feeding(g) /\ UNCHANGED <<sugs, accepted, serials>>
  BY DEF Feed, Feeding, cycle, bounds
<1>2. n \in Serials /\ Given(n) /\ fed[n] = <<>>
  BY <1>1 DEF VoteInv, OneVote, Given
<1>3. /\ DOMAIN job' = Goroutines
      /\ job'[g] = [step |-> "record", serial |-> n, id |-> job[g].id, label |-> job[g].label]
      /\ \A h \in Goroutines : h # g => job'[h] = job[h]
  BY DEF Feed, VoteInv, SerialInv, IsJob
<1>4. ~Feeding(g)' /\ \A h \in Goroutines : h # g => Feeding(h)' = Feeding(h)
  BY <1>3 DEF Feeding
<1>5. fed' = fed \/ fed' = [fed EXCEPT ![n] = Append(@, v)]
  BY DEF Feed
<1>6. DOMAIN fed' = Serials /\ \A m \in Serials : m # n => fed'[m] = fed[m]
  BY <1>5 DEF VoteInv, SerialInv
<1> HIDE DEF n, v
<1>7. fed'[n] = <<>> \/ (fed'[n] # <<>> /\ fed'[n][1] = v /\ Len(fed'[n]) = 1)
  <2>1. fed' = fed \/ fed'[n] = Append(<<>>, v)
    BY <1>2, <1>5 DEF VoteInv, SerialInv
  <2> QED BY <1>2, <2>1, FirstVote
<1>8. SerialInv'
  <2>1. \A h \in Goroutines : job'[h] # NoJob => IsJob(job'[h])
    BY <1>3 DEF VoteInv, SerialInv, IsJob
  <2>2. \A m \in Serials : m > serials => fed'[m] = <<>>
    BY <1>2, <1>6 DEF VoteInv, SerialInv, Given
  <2> QED BY <1>1, <1>3, <1>6, <2>1, <2>2 DEF VoteInv, SerialInv, Given
<1>9. OneVote'
  BY <1>1, <1>2, <1>3, <1>4, <1>6 DEF VoteInv, OneVote, Given, n
<1>10. VoteIsLabel'
  <2>1. ASSUME NEW id \in DOMAIN sugs, NEW h \in Goroutines, Feeding(h)',
               job'[h].serial = sugs[id].serial
        PROVE  sugs[id].label # "pending" /\ job'[h].label = sugs[id].label
    BY <1>3, <1>4, <2>1 DEF VoteInv, VoteIsLabel
  <2>2. ASSUME NEW id \in DOMAIN sugs, NEW a \in accepted, a.serial = sugs[id].serial
        PROVE  sugs[id].label = "position"
    BY <2>2 DEF VoteInv, VoteIsLabel
  <2>3. ASSUME NEW id \in DOMAIN sugs, fed'[sugs[id].serial] # <<>>
        PROVE  /\ sugs[id].label # "pending"
               /\ fed'[sugs[id].serial][1] = Accepts(sugs[id].label)
    <3>1. CASE sugs[id].serial = n
      <4>1. sugs[id].label # "pending" /\ job[g].label = sugs[id].label
        BY <1>1, <3>1 DEF VoteInv, VoteIsLabel, n
      <4> QED BY <1>7, <2>3, <3>1, <4>1 DEF v
    <3>2. CASE sugs[id].serial # n
      <4>1. fed'[sugs[id].serial] = fed[sugs[id].serial]
        BY <1>6, <3>2 DEF VoteInv, SerialInv, Given
      <4> QED BY <2>3, <4>1 DEF VoteInv, VoteIsLabel
    <3> QED BY <3>1, <3>2
  <2> QED BY <1>1, <2>1, <2>2, <2>3 DEF VoteIsLabel
<1>11. FedOnce'
  BY <1>6, <1>7 DEF VoteInv, FedOnce
<1> QED BY <1>8, <1>9, <1>10, <1>11 DEF VoteInv

(* An answer claims a pending suggestion for one goroutine.                 *)
LEMMA VotesAnswered ==
    ASSUME VoteInv, SugsInv, NEW g \in Goroutines, NEW sid,
           NEW l \in {"took", "pass"}, Feedback(g, sid, l)
    PROVE  VoteInv'
<1> DEFINE i == sid
           n == sugs[i].serial
           r == [step |-> "feed", serial |-> n, id |-> i, label |-> l]
<1>1. /\ i \in DOMAIN sugs /\ sugs[i].label = "pending" /\ job[g] = NoJob
      /\ UNCHANGED <<fed, accepted, serials>>
  BY DEF Feedback, Answers, cycle, bounds
<1>2. /\ DOMAIN sugs' = DOMAIN sugs
      /\ sugs'[i].serial = n /\ sugs'[i].label = l
      /\ \A j \in DOMAIN sugs : j # i => sugs'[j] = sugs[j]
  <2>1. sugs' = Labelled(i, l)
    BY DEF Feedback
  <2> HIDE DEF i
  <2>2. /\ DOMAIN Labelled(i, l) = DOMAIN sugs
        /\ Labelled(i, l)[i] =
             [serial |-> sugs[i].serial, ticker |-> sugs[i].ticker, label |-> l]
        /\ \A j \in DOMAIN sugs : j # i => Labelled(i, l)[j] = sugs[j]
    BY <1>1, LabelledProperties
  <2> QED BY <2>1, <2>2
<1>3. /\ Given(n) /\ fed[n] = <<>>
      /\ \A h \in Goroutines : Feeding(h) => job[h].serial # n
      /\ \A a \in accepted : a.serial # n
  BY <1>1, PendingUnclaimed DEF VoteInv, SerialInv
<1>4. \A j \in DOMAIN sugs : j # i => sugs[j].serial # n
  BY <1>1 DEF VoteInv, SerialInv
<1>5. /\ r.serial = n /\ r.label = l /\ IsJob(r)
  BY DEF IsJob
<1>6. job' = job \/ job' = [job EXCEPT ![g] = r]
  BY DEF Feedback
<1> HIDE DEF r, n, i
<1>7. /\ DOMAIN job' = Goroutines
      /\ job'[g] = NoJob \/ job'[g] = r
      /\ \A h \in Goroutines : h # g => job'[h] = job[h]
  BY <1>1, <1>6 DEF VoteInv, SerialInv
<1>8. /\ Feeding(g)' => job'[g] = r
      /\ \A h \in Goroutines : h # g => Feeding(h)' = Feeding(h)
  BY <1>7 DEF Feeding
<1>9. SerialInv'
  <2>1. \A j \in DOMAIN sugs : sugs'[j].serial = sugs[j].serial
    BY <1>2 DEF n
  <2> QED BY <1>1, <1>2, <1>5, <1>7, <2>1 DEF VoteInv, SerialInv, Given, IsJob
<1>10. OneVote'
  BY <1>1, <1>3, <1>5, <1>7, <1>8 DEF VoteInv, OneVote, Given
<1>11. VoteIsLabel'
  <2>1. ASSUME NEW j \in DOMAIN sugs, j # i PROVE sugs'[j] = sugs[j] /\ sugs[j].serial # n
    BY <1>2, <1>4, <2>1
  <2>2. ASSUME NEW j \in DOMAIN sugs, NEW h \in Goroutines, Feeding(h)',
               job'[h].serial = sugs'[j].serial
        PROVE  sugs'[j].label # "pending" /\ job'[h].label = sugs'[j].label
    BY <1>2, <1>3, <1>5, <1>7, <1>8, <2>1, <2>2 DEF VoteInv, VoteIsLabel
  <2>3. ASSUME NEW j \in DOMAIN sugs, NEW a \in accepted, a.serial = sugs'[j].serial
        PROVE  sugs'[j].label = "position"
    BY <1>2, <1>3, <2>1, <2>3 DEF VoteInv, VoteIsLabel
  <2>4. ASSUME NEW j \in DOMAIN sugs, fed[sugs'[j].serial] # <<>>
        PROVE  /\ sugs'[j].label # "pending"
               /\ fed[sugs'[j].serial][1] = Accepts(sugs'[j].label)
    BY <1>2, <1>3, <2>1, <2>4 DEF VoteInv, VoteIsLabel
  <2> QED BY <1>1, <1>2, <2>2, <2>3, <2>4 DEF VoteIsLabel
<1>12. FedOnce'
  BY <1>1 DEF VoteInv, FedOnce
<1> QED BY <1>9, <1>10, <1>11, <1>12 DEF VoteInv

(* The portfolio claims the pending suggestions of its new markets.         *)
LEMMA VotesDetected ==
    ASSUME VoteInv, SugsInv, DetectPositions
    PROVE  VoteInv'
<1> DEFINE new == portfolio \ known
           hit == {id \in DOMAIN sugs : sugs[id].ticker \in new /\ sugs[id].label = "pending"}
           claim(id) == [serial |-> sugs[id].serial, id |-> id]
           saved == [id \in DOMAIN sugs |->
                       IF id \in hit THEN [sugs[id] EXCEPT !.label = "position"] ELSE sugs[id]]
<1>1. UNCHANGED <<fed, job, serials>>
  BY DEF DetectPositions, bounds
<1>2. \/ sugs' = saved /\ (accepted' = {claim(id) : id \in hit} \/ accepted' = accepted)
      \/ UNCHANGED <<sugs, accepted>>
  BY DEF DetectPositions
<1>3. \A id \in hit : id \in DOMAIN sugs /\ sugs[id].label = "pending"
  OBVIOUS
<1> HIDE DEF hit
<1>4. CASE UNCHANGED <<sugs, accepted>>
  BY <1>1, <1>4, VotesLeft
<1>5. CASE sugs' = saved /\ (accepted' = {claim(id) : id \in hit} \/ accepted' = accepted)
  <2>1. /\ DOMAIN sugs' = DOMAIN sugs
        /\ \A id \in DOMAIN sugs : sugs'[id].serial = sugs[id].serial
        /\ \A id \in hit : sugs'[id].label = "position"
        /\ \A id \in DOMAIN sugs \ hit : sugs'[id] = sugs[id]
    <3>1. \A id \in DOMAIN sugs :
             [sugs[id] EXCEPT !.label = "position"] =
               [serial |-> sugs[id].serial, ticker |-> sugs[id].ticker, label |-> "position"]
      BY DEF SugsInv, IsSuggestion
    <3> QED BY <1>3, <1>5, <3>1
  <2> HIDE DEF saved
  <2>2. \A id \in hit :
           /\ Given(sugs[id].serial) /\ fed[sugs[id].serial] = <<>>
           /\ \A g \in Goroutines : Feeding(g) => job[g].serial # sugs[id].serial
           /\ \A a \in accepted : a.serial # sugs[id].serial
    BY <1>3, PendingUnclaimed DEF VoteInv, SerialInv
  <2>3. ASSUME NEW a \in accepted'
        PROVE  a \in accepted \/ \E id \in hit : a = claim(id) /\ a.serial = sugs[id].serial
    BY <1>5, <2>3
  <2>4. \A g \in Goroutines : Feeding(g)' = Feeding(g)
    BY <1>1 DEF Feeding
  <2>5. SerialInv'
    BY <1>1, <2>1 DEF VoteInv, SerialInv, Given, IsJob
  <2>6. OneVote'
    <3>1. ASSUME NEW a \in accepted'
          PROVE  /\ Given(a.serial)' /\ fed'[a.serial] = <<>>
                 /\ \A g \in Goroutines : Feeding(g)' => job'[g].serial # a.serial
      BY <1>1, <2>2, <2>3, <2>4 DEF VoteInv, OneVote, Given
    <3>2. ASSUME NEW a \in accepted', NEW b \in accepted', a.serial = b.serial PROVE a = b
      <4>1. CASE accepted' = accepted
        BY <3>2, <4>1 DEF VoteInv, OneVote
      <4>2. CASE accepted' = {claim(id) : id \in hit}
        <5>1. PICK i \in hit : a = claim(i)
          BY <4>2
        <5>2. PICK j \in hit : b = claim(j)
          BY <4>2
        <5>3. i = j
          BY <1>3, <3>2, <5>1, <5>2 DEF VoteInv, SerialInv
        <5> QED BY <5>1, <5>2, <5>3
      <4> QED BY <1>5, <4>1, <4>2
    <3> QED BY <1>1, <2>4, <3>1, <3>2 DEF VoteInv, OneVote, Given
  <2>7. VoteIsLabel'
    <3>1. ASSUME NEW id \in DOMAIN sugs, NEW g \in Goroutines, Feeding(g),
                 job[g].serial = sugs[id].serial
          PROVE  sugs'[id].label # "pending" /\ job[g].label = sugs'[id].label
      BY <2>1, <2>2, <3>1 DEF VoteInv, VoteIsLabel
    <3>2. ASSUME NEW id \in DOMAIN sugs, NEW a \in accepted', a.serial = sugs[id].serial
          PROVE  sugs'[id].label = "position"
      <4>1. CASE a \in accepted
        BY <2>1, <3>2, <4>1 DEF VoteInv, VoteIsLabel
      <4>2. CASE \E i \in hit : a.serial = sugs[i].serial
        BY <1>3, <2>1, <3>2, <4>2 DEF VoteInv, SerialInv
      <4> QED BY <2>3, <4>1, <4>2
    <3>3. ASSUME NEW id \in DOMAIN sugs, fed[sugs[id].serial] # <<>>
          PROVE  /\ sugs'[id].label # "pending"
                 /\ fed[sugs[id].serial][1] = Accepts(sugs'[id].label)
      BY <2>1, <2>2, <3>3 DEF VoteInv, VoteIsLabel
    <3> QED BY <1>1, <2>1, <2>4, <3>1, <3>2, <3>3 DEF VoteIsLabel
  <2>8. FedOnce'
    BY <1>1 DEF VoteInv, FedOnce
  <2> QED BY <2>5, <2>6, <2>7, <2>8 DEF VoteInv
<1> QED BY <1>2, <1>4, <1>5

(* Feeding what the portfolio accepted hands each claim to the scanner.     *)
LEMMA VotesAccepted ==
    ASSUME VoteInv, FeedAccepted
    PROVE  VoteInv'
<1>1. /\ Scanner \in Goroutines /\ job[Scanner] = NoJob
      /\ UNCHANGED <<fed, sugs, serials>>
  BY DEF FeedAccepted, Goroutines, db, bounds
<1>2. PICK a \in accepted :
         /\ accepted' = accepted \ {a}
         /\ job' = [job EXCEPT ![Scanner] = [step |-> "feed", serial |-> a.serial,
                                             id |-> a.id, label |-> "position"]]
  BY DEF FeedAccepted
<1>3. /\ DOMAIN job' = Goroutines /\ IsJob(job'[Scanner])
      /\ job'[Scanner].serial = a.serial /\ job'[Scanner].label = "position"
      /\ \A h \in Goroutines : h # Scanner => job'[h] = job[h]
  BY <1>1, <1>2 DEF VoteInv, SerialInv, IsJob
<1>4. \A h \in Goroutines : h # Scanner => Feeding(h)' = Feeding(h)
  BY <1>3 DEF Feeding
<1>5. SerialInv'
  BY <1>1, <1>3 DEF VoteInv, SerialInv, Given, IsJob
<1>6. OneVote'
  BY <1>1, <1>2, <1>3, <1>4 DEF VoteInv, OneVote, Given
<1>7. VoteIsLabel'
  <2>1. \A id \in DOMAIN sugs : a.serial = sugs[id].serial => sugs[id].label = "position"
    BY DEF VoteInv, VoteIsLabel
  <2> QED BY <1>1, <1>2, <1>3, <1>4, <2>1 DEF VoteInv, VoteIsLabel
<1>8. FedOnce'
  BY <1>1 DEF VoteInv, FedOnce
<1> QED BY <1>5, <1>6, <1>7, <1>8 DEF VoteInv

(* A new suggestion has a serial that no vote is for.                       *)
LEMMA VotesAllocated ==
    ASSUME VoteInv, IdInv, Allocate
    PROVE  VoteInv'
<1>1. serials' = serials + 1 /\ serials < MaxSerial /\ UNCHANGED <<fed, job, accepted>>
  BY DEF Allocate
<1>2. \/ sugs' = sugs
      \/ sugs' = [id \in DOMAIN sugs \cup {nextId} |->
                    IF id = nextId
                    THEN [serial |-> serials', ticker |-> Head(queue).ticker, label |-> "pending"]
                    ELSE sugs[id]]
  BY DEF Allocate
<1>3. serials \in Nat /\ MaxSerial \in Nat /\ serials' \in Serials
  BY <1>1, PipelineAssumption DEF VoteInv, SerialInv, Serials
<1>4. \A id \in DOMAIN sugs' :
         \/ id \in DOMAIN sugs /\ sugs'[id] = sugs[id]
         \/ id = nextId /\ sugs'[id].serial = serials' /\ sugs'[id].label = "pending"
  BY <1>2
<1>5. \A n : Given(n) => Given(n)' /\ n # serials'
  BY <1>1, <1>3 DEF Given, Serials
<1>6. \A g \in Goroutines : Feeding(g)' = Feeding(g)
  BY <1>1 DEF Feeding
<1>7. SerialInv'
  <2>1. \A id \in DOMAIN sugs' : sugs'[id].serial \in Serials /\ sugs'[id].serial <= serials'
    BY <1>1, <1>3, <1>4, <1>5 DEF VoteInv, SerialInv, Given
  <2>2. \A i, j \in DOMAIN sugs' : sugs'[i].serial = sugs'[j].serial => i = j
    BY <1>4, <1>5 DEF VoteInv, SerialInv
  <2>3. \A n \in Serials : n > serials' => fed'[n] = <<>>
    BY <1>1, <1>3 DEF VoteInv, SerialInv, Serials
  <2>4. \A g \in Goroutines : job'[g] # NoJob => IsJob(job'[g])
    BY <1>1 DEF VoteInv, SerialInv
  <2> QED BY <1>1, <1>3, <2>1, <2>2, <2>3, <2>4 DEF VoteInv, SerialInv, Given
<1>8. OneVote'
  BY <1>1, <1>5, <1>6 DEF VoteInv, OneVote
<1>9. VoteIsLabel'
  <2>1. fed[serials'] = <<>>
    BY <1>1, <1>3 DEF VoteInv, SerialInv
  <2>2. /\ \A g \in Goroutines : Feeding(g) => job[g].serial # serials'
        /\ \A a \in accepted : a.serial # serials'
    BY <1>5 DEF VoteInv, OneVote
  <2> QED BY <1>1, <1>4, <1>6, <2>1, <2>2 DEF VoteInv, VoteIsLabel
<1>10. FedOnce'
  BY <1>1 DEF VoteInv, FedOnce
<1> QED BY <1>7, <1>8, <1>9, <1>10 DEF VoteInv

(* No step votes twice for a suggestion, or against its label.              *)
LEMMA VoteNext == IdInv /\ SugsInv /\ VoteInv /\ [Next]_vars => VoteInv'
<1> SUFFICES ASSUME IdInv, SugsInv, VoteInv, [Next]_vars PROVE VoteInv'
  OBVIOUS
<1>1. ASSUME NEW t \in Tickers, Trade(t) \/ Buy(t) \/ PassEnds(t) PROVE VoteInv'
  BY <1>1, VotesLeft DEF Trade, Buy, PassEnds, db, cycle, bounds
<1>2. CASE ToggleQuiet \/ Expire \/ TogglePause \/ StartCycle \/ FetchEvents
  BY <1>2, VotesLeft DEF ToggleQuiet, Expire, TogglePause, StartCycle, FetchEvents, db, cycle,
                         bounds
<1>3. CASE TakeSnapshot \/ Send \/ Mark \/ RecordSuggestion
  BY <1>3, VotesLeft DEF TakeSnapshot, Send, Mark, RecordSuggestion, db, bounds
<1>4. CASE Rollback
  <2>1. /\ UNCHANGED <<fed, job, accepted, serials>>
        /\ \/ sugs' = sugs
           \/ sugs' = Restrict(sugs, DOMAIN sugs \ {p.id : p \in Range(batch)})
    BY <1>4 DEF Rollback, bounds
  <2>2. \A id \in DOMAIN sugs' : id \in DOMAIN sugs /\ sugs'[id] = sugs[id]
    BY <2>1 DEF Restrict
  <2> QED BY <2>1, <2>2, VotesLeft
<1>5. CASE Crash
  <2>1. /\ accepted' = {} /\ UNCHANGED <<fed, sugs, serials>>
        /\ job' = [g \in Goroutines |-> NoJob]
    BY <1>5 DEF Crash, db, bounds
  <2>2. \A g \in Goroutines : job'[g] = NoJob /\ ~Feeding(g)'
    BY <2>1 DEF Feeding
  <2> QED
    BY <2>1, <2>2 DEF VoteInv, SerialInv, OneVote, VoteIsLabel, FedOnce, Given
<1>6. ASSUME NEW g \in Goroutines, RecordLabel(g) PROVE VoteInv'
  <2>1. /\ UNCHANGED <<fed, sugs, accepted, serials>>
        /\ job' = [job EXCEPT ![g] = NoJob]
    BY <1>6 DEF RecordLabel, cycle, bounds
  <2>2. /\ DOMAIN job' = Goroutines /\ job'[g] = NoJob /\ ~Feeding(g)'
        /\ \A h \in Goroutines : h # g => job'[h] = job[h] /\ Feeding(h)' = Feeding(h)
    BY <2>1 DEF VoteInv, SerialInv, Feeding
  <2> QED
    BY <2>1, <2>2 DEF VoteInv, SerialInv, OneVote, VoteIsLabel, FedOnce, Given, IsJob
<1>7. CASE UNCHANGED vars
  BY <1>7, VotesLeft DEF vars, db, cycle, bounds
<1> QED
  BY <1>1, <1>2, <1>3, <1>4, <1>5, <1>6, <1>7, VotesFed, VotesAnswered, VotesDetected,
     VotesAccepted, VotesAllocated DEF Next

LEMMA VoteInit == Init => VoteInv
BY DEF Init, VoteInv, SerialInv, OneVote, VoteIsLabel, FedOnce, Feeding, Serials

(* In every reachable state the votes are in order.                         *)
LEMMA VotesInOrder == Spec => [](FedOnce /\ FedAsLabelled)
<1>1. Init => IdInv /\ SugsInv /\ VoteInv
  BY IdInit, VoteInit DEF Init, SugsInv
<1>2. VoteInv => FedOnce /\ FedAsLabelled
  BY DEF VoteInv, VoteIsLabel, FedAsLabelled
<1> QED BY <1>1, <1>2, IdNext, LabelNext, VoteNext, PTL DEF Spec

(* The counters hear of a suggestion at most once, however answers,         *)
(* portfolio, failures and crashes interleave.                              *)
THEOREM FedOnceCorrect == Spec => []FedOnce
BY VotesInOrder, PTL

(* What the counters heard is what the suggestion is labelled, for ever.    *)
THEOREM FedAsLabelledCorrect == Spec => []FedAsLabelled
BY VotesInOrder, PTL

-----------------------------------------------------------------------------
(* Pause. *)

\* A digest is made and sent only for a user who has not paused.
PauseInv == pc \in {"alloc", "send"} => ~paused

(* Nothing is sent to a user who has paused: the scanner handles PAUSE      *)
(* before it takes the snapshot of a cycle, and not during the digest.      *)
THEOREM PauseHonouredCorrect == Spec => PauseHonoured
<1>1. Init => PauseInv
  BY DEF Init, PauseInv
<1>2. ASSUME PauseInv, [Next]_vars PROVE PauseInv' /\ (inbox' # inbox => ~paused)
  <2> USE DEF PauseInv
  <2>1. ASSUME NEW t \in Tickers, Trade(t) \/ Buy(t) \/ PassEnds(t) PROVE UNCHANGED <<pc, paused, inbox>>
    BY <2>1 DEF Trade, Buy, PassEnds, db, world, cycle
  <2>2. CASE ToggleQuiet \/ Expire \/ Crash \/ StartCycle \/ FetchEvents \/ FeedAccepted
    BY <1>2, <2>2 DEF ToggleQuiet, Expire, Crash, StartCycle, FetchEvents, FeedAccepted, Goto,
                      db, world, cycle
  <2>3. CASE TogglePause
    BY <2>3 DEF TogglePause, Answers, world, cycle
  <2>4. CASE DetectPositions \/ TakeSnapshot
    BY <1>2, <2>4 DEF DetectPositions, TakeSnapshot, Goto, db, world
  <2>5. CASE Allocate \/ Rollback
    BY <1>2, <2>5 DEF Allocate, Rollback, Goto, world
  <2>6. CASE Send
    BY <1>2, <2>6 DEF Send, Goto, db
  <2>7. CASE Mark \/ RecordSuggestion
    BY <1>2, <2>7 DEF Mark, RecordSuggestion, Goto, world
  <2>8. ASSUME NEW g \in Goroutines, NEW sid, NEW l \in {"took", "pass"},
               Feedback(g, sid, l)
        PROVE  UNCHANGED <<pc, paused, inbox>>
    BY <2>8 DEF Feedback, world, cycle
  <2>9. ASSUME NEW g \in Goroutines, Feed(g) \/ RecordLabel(g)
        PROVE  UNCHANGED <<pc, paused, inbox>>
    BY <2>9 DEF Feed, RecordLabel, world, cycle
  <2>10. CASE UNCHANGED vars
    BY <1>2, <2>10 DEF vars, db, world, cycle
  <2> QED
    BY <1>2, <2>1, <2>2, <2>3, <2>4, <2>5, <2>6, <2>7, <2>8, <2>9, <2>10 DEF Next
<1>3. PauseInv /\ [Next]_vars => [inbox' # inbox => ~paused]_vars
  BY <1>2
<1> QED BY <1>1, <1>2, <1>3, PTL DEF Spec, PauseHonoured

-----------------------------------------------------------------------------
(* Who changes what. *)

Answering == \E g \in Goroutines, sid \in DOMAIN sugs, l \in {"took", "pass"} :
                sid \in Answerable(g) /\ Feedback(g, sid, l)
Voting == \E g \in Goroutines : Feed(g)
Lapsing == \E t \in Tickers : PassEnds(t)
Recording == \E g \in Goroutines : RecordLabel(g)
InDigest == Allocate \/ Send \/ Rollback \/ Mark \/ RecordSuggestion
Advancing == StartCycle \/ FetchEvents \/ DetectPositions \/ TakeSnapshot \/ InDigest

\* A step changes a variable only if it is one of these.
Frame ==
    /\ (UNCHANGED <<nextId, serials>> /\ DOMAIN sugs' = DOMAIN sugs) \/ Allocate \/ Rollback
    /\ UNCHANGED sugs \/ Answering \/ DetectPositions \/ Allocate \/ Rollback
    /\ UNCHANGED alerted \/ Answering \/ Mark \/ Lapsing
    /\ UNCHANGED told \/ Answering \/ Lapsing
    /\ UNCHANGED lapsed \/ Send \/ Lapsing
    /\ UNCHANGED known \/ DetectPositions
    /\ UNCHANGED fed \/ Voting
    /\ UNCHANGED records \/ Recording \/ RecordSuggestion
    /\ UNCHANGED <<quote, near>> \/ \E t \in Tickers : Trade(t)
    /\ UNCHANGED portfolio \/ \E t \in Tickers : Buy(t)
    /\ UNCHANGED inbox \/ Send
    /\ UNCHANGED pc \/ Advancing \/ Crash
    /\ UNCHANGED expired \/ StartCycle \/ Expire \/ Crash
    /\ UNCHANGED seen \/ FetchEvents \/ Crash
    /\ UNCHANGED accepted \/ DetectPositions \/ FeedAccepted \/ Crash
    /\ UNCHANGED queue \/ TakeSnapshot \/ Allocate \/ Crash
    /\ UNCHANGED batch \/ Allocate \/ Rollback \/ RecordSuggestion \/ Crash
    /\ UNCHANGED job \/ Answering \/ Voting \/ Recording \/ FeedAccepted \/ Crash

LEMMA Frames == [Next]_vars => Frame
<1> SUFFICES ASSUME [Next]_vars PROVE Frame
  OBVIOUS
<1> USE DEF Frame, db, world, cycle, bounds, observer
<1>1. ASSUME NEW t \in Tickers, Trade(t) \/ Buy(t) \/ PassEnds(t) PROVE Frame
  BY <1>1 DEF Trade, Buy, PassEnds, Lapsing
<1>2. CASE ToggleQuiet \/ Expire \/ TogglePause
  BY <1>2 DEF ToggleQuiet, Expire, TogglePause
<1>3. CASE Crash \/ StartCycle
  BY <1>3 DEF Crash, StartCycle, Advancing
<1>4. CASE FetchEvents \/ FeedAccepted
  BY <1>4 DEF FetchEvents, FeedAccepted, Advancing
<1>5. CASE DetectPositions
  <2>1. DOMAIN sugs' = DOMAIN sugs
    BY <1>5 DEF DetectPositions
  <2> QED BY <1>5, <2>1 DEF DetectPositions, Advancing
<1>6. CASE TakeSnapshot
  BY <1>6 DEF TakeSnapshot, Advancing
<1>7. CASE Allocate
  BY <1>7 DEF Allocate, Advancing, InDigest
<1>8. CASE Send
  BY <1>8 DEF Send, Advancing, InDigest
<1>9. CASE Rollback
  BY <1>9 DEF Rollback, Advancing, InDigest
<1>10. CASE Mark
  BY <1>10 DEF Mark, Advancing, InDigest
<1>11. CASE RecordSuggestion
  BY <1>11 DEF RecordSuggestion, Advancing, InDigest
<1>12. ASSUME NEW g \in Goroutines, NEW sid \in Answerable(g), NEW l \in {"took", "pass"},
              Feedback(g, sid, l)
       PROVE  Frame
  <2>1. Answering
    BY <1>12 DEF Answering, Feedback
  <2>2. DOMAIN sugs' = DOMAIN sugs
    BY <1>12 DEF Feedback, Labelled
  <2>3. UNCHANGED <<nextId, known, fed, records, world, cycle, bounds, lapsed>>
    BY <1>12 DEF Feedback
  <2> QED BY <2>1, <2>2, <2>3
<1>13. ASSUME NEW g \in Goroutines, Feed(g) PROVE Frame
  BY <1>13 DEF Feed, Voting
<1>14. ASSUME NEW g \in Goroutines, RecordLabel(g) PROVE Frame
  BY <1>14 DEF RecordLabel, Recording
<1>15. CASE UNCHANGED vars
  BY <1>15 DEF vars
<1> QED
  <2> HIDE DEF Frame, db, world, cycle, bounds, observer
  <2> QED
    BY <1>1, <1>2, <1>3, <1>4, <1>5, <1>6, <1>7, <1>8, <1>9, <1>10, <1>11, <1>12, <1>13,
       <1>14, <1>15 DEF Next

-----------------------------------------------------------------------------
(* Types. *)

Sug == [serial : Serials, ticker : Tickers, label : Labels]
Text == [serial : Serials, id : Serials, ticker : Tickers, offer : Offers]
Entry == [offer : Offers, serial : Serials, passed : {"no", "yes", "over"}]
Candidate == [ticker : Tickers, offer : Offers]

(* A digest is made of different eligible markets, as they are offered.     *)
LEMMA DigestsAreSequences ==
    ASSUME seen \in [Tickers -> Quotes], NEW d \in Digests
    PROVE  /\ d \in Seq(Candidate)
           /\ \A c \in Range(d) : Eligible(c.ticker) /\ c.offer = Offer(c.ticker)
           /\ \A c, e \in Range(d) : c.ticker = e.ticker => c = e
           /\ \A i, j \in DOMAIN d : d[i] = d[j] => i = j
<1> DEFINE E == {t \in Tickers : Eligible(t)}
           Loud == IF quiet THEN Watched ELSE Tickers
<1>0. PICK C \in SUBSET E : \E e \in SetToSeqs(C \cap Loud) : d = Candidates(e)
  BY DEF Digests, kSubset
<1>1. PICK e \in SetToSeqs(C \cap Loud) : d = Candidates(e)
  BY <1>0
<1> DEFINE n == Cardinality(C \cap Loud)
<1>2. e \in [1 .. n -> C \cap Loud] /\ \A i, j \in 1 .. n : i # j => e[i] # e[j]
  BY <1>1 DEF SetToSeqs
<1>3. n \in Nat
  <2>1. C \cap Loud \subseteq Tickers
    OBVIOUS
  <2> QED BY <2>1, FS_Subset, FS_CardinalityType, PipelineAssumption
<1> HIDE DEF n
<1>4. DOMAIN e = 1 .. n /\ \A i \in 1 .. n : e[i] \in Tickers /\ Eligible(e[i])
  BY <1>2
<1>5. /\ DOMAIN d = 1 .. n
      /\ \A i \in 1 .. n : d[i] = [ticker |-> e[i], offer |-> Offer(e[i])]
      /\ d = [i \in 1 .. n |-> d[i]]
  BY <1>1, <1>4 DEF Candidates
<1>6. \A i \in 1 .. n : d[i].ticker = e[i] /\ d[i].offer = Offer(e[i])
  BY <1>5
<1>7. \A t \in Tickers : Offer(t) \in Offers
  BY DEF Offer, Offers
<1>8. \A i \in 1 .. n : d[i] \in Candidate
  BY <1>4, <1>5, <1>7 DEF Candidate
<1>9. d \in Seq(Candidate)
  <2>1. d \in [1 .. n -> Candidate]
    BY <1>5, <1>8
  <2> QED BY <1>3, <2>1, IsASeq
<1>10. Range(d) = {d[i] : i \in 1 .. n}
  BY <1>5 DEF Range
<1>11. \A i, j \in 1 .. n : d[i].ticker = d[j].ticker => i = j
  BY <1>2, <1>6
<1>12. \A c \in Range(d) : Eligible(c.ticker) /\ c.offer = Offer(c.ticker)
  BY <1>4, <1>6, <1>10
<1>13. \A c, f \in Range(d) : c.ticker = f.ticker => c = f
  BY <1>10, <1>11
<1>14. \A i, j \in DOMAIN d : d[i] = d[j] => i = j
  BY <1>5, <1>11
<1> QED BY <1>9, <1>12, <1>13, <1>14

CountType ==
    /\ serials \in 0 .. MaxSerial /\ nextId \in 1 .. serials + 1
    /\ DOMAIN sugs \subseteq 1 .. serials

SugType == \A id \in DOMAIN sugs : sugs[id] \in Sug

\* A cycle that has fetched its events has a quote of every market.
MarketType ==
    /\ portfolio \subseteq Tickers /\ known \subseteq Tickers
    /\ quote \in [Tickers -> Quotes]
    /\ seen # <<>> \/ pc \notin {"idle", "inbound"} => seen \in [Tickers -> Quotes]

MarkType ==
    /\ DOMAIN alerted \subseteq Tickers
    /\ \A t \in DOMAIN alerted : alerted[t] \in Entry

VoteType ==
    /\ DOMAIN fed = Serials /\ \A n \in Serials : fed[n] \in Seq(BOOLEAN)
    /\ records \subseteq [kind : {"suggestion", "label"}, id : Serials, serial : Serials]
    /\ accepted \subseteq [serial : Serials, id : Serials]
    /\ DOMAIN job = Goroutines
    /\ \A g \in Goroutines : job[g] = NoJob \/ job[g] \in
          [step : {"feed", "record"}, serial : Serials, id : Serials, label : Labels]

DigestType ==
    /\ pc \in {"idle", "inbound", "positions", "feeding", "alloc", "send", "rollback",
               "mark", "record"}
    /\ inbox \subseteq Text /\ batch \in Seq(Text) /\ queue \in Seq(Candidate)
    /\ pc = "alloc" => queue # <<>>

TypeInv ==
    /\ CountType /\ SugType /\ MarketType /\ MarkType /\ VoteType /\ DigestType
    /\ IdInv /\ SugsInv

(* Ids and serials are given out together, and a rollback gives ids back.   *)
LEMMA CountTypeNext == TypeInv /\ [Next]_vars => CountType'
<1> SUFFICES ASSUME TypeInv, [Next]_vars PROVE CountType'
  OBVIOUS
<1>1. CountType /\ serials \in Nat /\ nextId \in Nat /\ MaxSerial \in Nat
  BY PipelineAssumption DEF TypeInv, CountType
<1>2. CASE UNCHANGED <<nextId, serials>> /\ DOMAIN sugs' = DOMAIN sugs
  BY <1>1, <1>2 DEF CountType
<1>3. CASE Allocate
  <2>1. /\ serials < MaxSerial /\ serials' = serials + 1
        /\ \/ UNCHANGED <<nextId, sugs>>
           \/ nextId' = nextId + 1 /\ DOMAIN sugs' = DOMAIN sugs \cup {nextId}
    BY <1>3 DEF Allocate
  <2>2. nextId' \in 1 .. serials' + 1
    BY <1>1, <2>1 DEF CountType
  <2>3. DOMAIN sugs' \subseteq 1 .. serials'
    BY <1>1, <2>1 DEF CountType
  <2> QED BY <1>1, <2>1, <2>2, <2>3 DEF CountType
<1>4. CASE Rollback
  <2>1. batch # <<>> /\ batch \in Seq(Text)
    BY <1>4 DEF Rollback, TypeInv, DigestType, IdInv, BatchShape
  <2>2. batch[1].id \in Nat /\ batch[1].id >= 1
    <3>1. batch[1] \in Text
      BY <2>1
    <3> QED BY <3>1, PipelineAssumption DEF Text, Serials
  <2>3. /\ serials' = serials
        /\ nextId' = nextId \/ nextId' = IF nextId > batch[1].id THEN batch[1].id ELSE nextId
        /\ DOMAIN sugs' \subseteq DOMAIN sugs
    BY <1>4 DEF Rollback, Restrict, bounds
  <2> QED BY <1>1, <2>2, <2>3 DEF CountType
<1> QED BY <1>2, <1>3, <1>4, Frames DEF Frame

LEMMA SugTypeNext == TypeInv /\ [Next]_vars => SugType'
<1> SUFFICES ASSUME TypeInv, [Next]_vars PROVE SugType'
  OBVIOUS
<1>1. SugType /\ SugsInv
  BY DEF TypeInv
<1>2. CASE UNCHANGED sugs
  BY <1>1, <1>2 DEF SugType
<1>3. CASE Answering
  <2>1. PICK g \in Goroutines, sid \in DOMAIN sugs, l \in {"took", "pass"} : Feedback(g, sid, l)
    BY <1>3 DEF Answering
  <2>2. sid \in DOMAIN sugs /\ sugs' = Labelled(sid, l)
    BY <2>1 DEF Feedback
  <2>3. [serial |-> sugs[sid].serial, ticker |-> sugs[sid].ticker, label |-> l] \in Sug
    BY <1>1, <2>2 DEF SugType, Sug, Labels
  <2> QED BY <1>1, <2>2, <2>3, LabelledProperties DEF SugType
<1>4. CASE DetectPositions
  <2>1. \A id \in DOMAIN sugs : [sugs[id] EXCEPT !.label = "position"] \in Sug
    BY <1>1 DEF SugType, Sug, Labels
  <2> QED BY <1>1, <1>4, <2>1 DEF DetectPositions, SugType
<1>5. CASE Allocate
  <2>1. Head(queue).ticker \in Tickers
    <3>1. Head(queue) \in Candidate
      BY <1>5 DEF Allocate, TypeInv, DigestType
    <3> QED BY <3>1 DEF Candidate
  <2>2. serials' \in Serials
    BY <1>5, PipelineAssumption DEF Allocate, TypeInv, CountType, Serials
  <2>3. [serial |-> serials', ticker |-> Head(queue).ticker, label |-> "pending"] \in Sug
    BY <2>1, <2>2 DEF Sug, Labels
  <2>4. \/ sugs' = sugs
        \/ sugs' = [id \in DOMAIN sugs \cup {nextId} |->
                      IF id = nextId
                      THEN [serial |-> serials', ticker |-> Head(queue).ticker, label |-> "pending"]
                      ELSE sugs[id]]
    BY <1>5 DEF Allocate
  <2> QED BY <1>1, <2>3, <2>4 DEF SugType
<1>6. CASE Rollback
  BY <1>1, <1>6 DEF Rollback, Restrict, SugType
<1> QED BY <1>2, <1>3, <1>4, <1>5, <1>6, Frames DEF Frame

LEMMA MarketTypeNext == TypeInv /\ [Next]_vars => MarketType'
<1> SUFFICES ASSUME TypeInv, [Next]_vars PROVE MarketType'
  OBVIOUS
<1>1. MarketType
  BY DEF TypeInv
<1>2. portfolio' \subseteq Tickers
  BY <1>1, Frames DEF Frame, Buy, MarketType
<1>3. known' \subseteq Tickers
  BY <1>1, Frames DEF Frame, DetectPositions, MarketType
<1>4. quote' \in [Tickers -> Quotes]
  BY <1>1, Frames DEF Frame, Trade, MarketType
<1>5. seen' # <<>> \/ pc' \notin {"idle", "inbound"} => seen' \in [Tickers -> Quotes]
  <2>1. CASE FetchEvents
    BY <1>1, <2>1 DEF FetchEvents, Goto, MarketType
  <2>2. CASE Crash
    BY <2>2 DEF Crash
  <2>3. CASE seen' = seen /\ (pc \in {"idle", "inbound"} => pc' \in {"idle", "inbound"})
    BY <1>1, <2>3 DEF MarketType
  <2>4. CASE StartCycle \/ DetectPositions \/ TakeSnapshot
    BY <1>1, <2>4 DEF StartCycle, DetectPositions, TakeSnapshot, Goto, MarketType
  <2>5. CASE InDigest
    <3>1. seen' = seen /\ pc \notin {"idle", "inbound"}
      BY <2>5 DEF InDigest, Allocate, Send, Rollback, Mark, RecordSuggestion
    <3> QED BY <1>1, <3>1 DEF MarketType
  <2> QED BY <2>1, <2>2, <2>3, <2>4, <2>5, Frames DEF Frame, Advancing
<1> QED BY <1>2, <1>3, <1>4, <1>5 DEF MarketType

(* The picks of the batch are texts to be sent.                             *)
LEMMA HeadOfBatch ==
    ASSUME TypeInv, pc \in Marking
    PROVE  batch # <<>> /\ Head(batch) \in Text
BY DEF TypeInv, DigestType, IdInv, BatchShape

LEMMA MarkTypeNext == TypeInv /\ [Next]_vars => MarkType'
<1> SUFFICES ASSUME TypeInv, [Next]_vars PROVE MarkType'
  OBVIOUS
<1>1. MarkType
  BY DEF TypeInv
<1>2. CASE UNCHANGED alerted
  BY <1>1, <1>2 DEF MarkType
<1>3. CASE Answering
  <2>1. PICK t : alerted' = alerted \/ alerted' = Suppressed(t)
    BY <1>3 DEF Answering, Feedback
  <2>2. \A u \in DOMAIN alerted : [alerted[u] EXCEPT !.passed = "yes"] \in Entry
    BY <1>1 DEF MarkType, Entry
  <2> QED BY <1>1, <2>1, <2>2 DEF MarkType, Suppressed
<1>4. CASE Mark
  <2> DEFINE p == Head(batch)
             entry == [offer |-> p.offer, serial |-> p.serial, passed |-> "no"]
  <2>1. p \in Text
    BY <1>4, HeadOfBatch DEF Mark, Marking
  <2>2. p.ticker \in Tickers /\ entry \in Entry
    BY <2>1 DEF Text, Entry
  <2>3. \/ alerted' = alerted
        \/ alerted' = [t \in DOMAIN alerted \cup {p.ticker} |->
                         IF t = p.ticker THEN entry ELSE alerted[t]]
    BY <1>4 DEF Mark
  <2> HIDE DEF p, entry
  <2> QED BY <1>1, <2>2, <2>3 DEF MarkType
<1>5. CASE Lapsing
  <2>1. PICK t : alerted' = alerted \/ alerted' = [alerted EXCEPT ![t].passed = "over"]
    BY <1>5 DEF Lapsing, PassEnds
  <2>2. \A u \in DOMAIN alerted : [alerted[u] EXCEPT !.passed = "over"] \in Entry
    BY <1>1 DEF MarkType, Entry
  <2> QED BY <1>1, <2>1, <2>2 DEF MarkType
<1> QED BY <1>2, <1>3, <1>4, <1>5, Frames DEF Frame

(* A job is of a suggestion that exists, or of one accepted.                *)
LEMMA VoteTypeNext == TypeInv /\ [Next]_vars => VoteType'
<1> SUFFICES ASSUME TypeInv, [Next]_vars PROVE VoteType'
  OBVIOUS
<1> DEFINE Job == [step : {"feed", "record"}, serial : Serials, id : Serials, label : Labels]
           JobType(j) == \A g \in Goroutines : j[g] = NoJob \/ j[g] \in Job
<1>1. VoteType /\ SugType /\ DOMAIN sugs \subseteq Serials
  BY PipelineAssumption DEF TypeInv, CountType, Serials
<1>2. \A id \in DOMAIN sugs : id \in Serials /\ sugs[id].serial \in Serials
  BY <1>1 DEF SugType, Sug
<1>3. DOMAIN fed' = Serials /\ \A n \in Serials : fed'[n] \in Seq(BOOLEAN)
  <2>1. CASE UNCHANGED fed
    BY <1>1, <2>1 DEF VoteType
  <2>2. CASE Voting
    <3>1. PICK g \in Goroutines : Feed(g)
      BY <2>2 DEF Voting
    <3>2. job[g].serial \in Serials /\ Accepts(job[g].label) \in BOOLEAN
      BY <1>1, <3>1 DEF Feed, VoteType, Accepts
    <3>3. \/ fed' = fed
          \/ fed' = [fed EXCEPT ![job[g].serial] = Append(@, Accepts(job[g].label))]
      BY <3>1 DEF Feed
    <3>4. Append(fed[job[g].serial], Accepts(job[g].label)) \in Seq(BOOLEAN)
      BY <1>1, <3>2, AppendProperties DEF VoteType
    <3> QED BY <1>1, <3>3, <3>4 DEF VoteType
  <2> QED BY <2>1, <2>2, Frames DEF Frame
<1>4. records' \subseteq [kind : {"suggestion", "label"}, id : Serials, serial : Serials]
  <2>1. CASE UNCHANGED records
    BY <1>1, <2>1 DEF VoteType
  <2>2. CASE Recording
    <3>1. PICK g \in Goroutines : RecordLabel(g)
      BY <2>2 DEF Recording
    <3>2. job[g].serial \in Serials /\ job[g].id \in Serials
      BY <1>1, <3>1 DEF RecordLabel, VoteType
    <3> QED BY <1>1, <3>1, <3>2 DEF RecordLabel, VoteType
  <2>3. CASE RecordSuggestion
    <3>1. Head(batch).serial \in Serials /\ Head(batch).id \in Serials
      BY <2>3, HeadOfBatch DEF RecordSuggestion, Marking, Text
    <3> QED BY <1>1, <2>3, <3>1 DEF RecordSuggestion, VoteType
  <2> QED BY <2>1, <2>2, <2>3, Frames DEF Frame
<1>5. accepted' \subseteq [serial : Serials, id : Serials]
  <2>1. CASE UNCHANGED accepted \/ FeedAccepted \/ Crash
    BY <1>1, <2>1 DEF FeedAccepted, Crash, VoteType
  <2>2. CASE DetectPositions
    BY <1>1, <1>2, <2>2 DEF DetectPositions, VoteType
  <2> QED BY <2>1, <2>2, Frames DEF Frame
<1>6. DOMAIN job' = Goroutines /\ JobType(job')
  <2>1. DOMAIN job = Goroutines /\ JobType(job)
    BY <1>1 DEF VoteType
  <2>2. ASSUME NEW g \in Goroutines, NEW r \in Job \cup {NoJob}, job' = [job EXCEPT ![g] = r]
        PROVE  DOMAIN job' = Goroutines /\ JobType(job')
    BY <2>1, <2>2
  <2>3. CASE UNCHANGED job
    BY <2>1, <2>3
  <2>4. CASE Answering
    <3>1. PICK g \in Goroutines, sid \in DOMAIN sugs, l \in {"took", "pass"} : Feedback(g, sid, l)
      BY <2>4 DEF Answering
    <3>2. sid \in Serials /\ sugs[sid].serial \in Serials
      BY <1>2, <3>1 DEF Feedback
    <3>3. [step |-> "feed", serial |-> sugs[sid].serial, id |-> sid, label |-> l] \in Job
      BY <3>2 DEF Labels
    <3>4. \/ job' = job
          \/ job' = [job EXCEPT ![g] = [step |-> "feed", serial |-> sugs[sid].serial,
                                        id |-> sid, label |-> l]]
      BY <3>1 DEF Feedback
    <3> QED BY <2>2, <2>3, <3>3, <3>4
  <2>5. CASE Voting
    <3>1. PICK g \in Goroutines : Feed(g)
      BY <2>5 DEF Voting
    <3>2. job[g] \in Job /\ job' = [job EXCEPT ![g].step = "record"]
      BY <2>1, <3>1 DEF Feed
    <3>3. job' = [job EXCEPT ![g] = [job[g] EXCEPT !.step = "record"]]
      BY <3>2
    <3>4. [job[g] EXCEPT !.step = "record"] \in Job
      BY <3>2
    <3> QED BY <2>2, <3>3, <3>4
  <2>6. CASE Recording
    <3>1. PICK g \in Goroutines : job' = [job EXCEPT ![g] = NoJob]
      BY <2>6 DEF Recording, RecordLabel
    <3> QED BY <2>2, <3>1
  <2>7. CASE FeedAccepted
    <3>1. PICK a \in accepted :
             job' = [job EXCEPT ![Scanner] = [step |-> "feed", serial |-> a.serial,
                                              id |-> a.id, label |-> "position"]]
      BY <2>7 DEF FeedAccepted
    <3>2. [step |-> "feed", serial |-> a.serial, id |-> a.id, label |-> "position"] \in Job
      BY <1>1 DEF VoteType, Labels
    <3>3. Scanner \in Goroutines
      BY DEF Goroutines
    <3> QED BY <2>2, <3>1, <3>2, <3>3
  <2>8. CASE Crash
    BY <2>8 DEF Crash
  <2> HIDE DEF JobType
  <2> QED BY <2>3, <2>4, <2>5, <2>6, <2>7, <2>8, Frames DEF Frame
<1> QED BY <1>3, <1>4, <1>5, <1>6 DEF VoteType

(* The digest's queue and batch are texts; allocation ends with the queue.  *)
LEMMA DigestTypeNext == TypeInv /\ [Next]_vars => DigestType'
<1> SUFFICES ASSUME TypeInv, [Next]_vars PROVE DigestType'
  OBVIOUS
<1>1. /\ DigestType
      /\ DOMAIN sugs \subseteq Serials /\ nextId \in 1 .. serials + 1
  BY PipelineAssumption DEF TypeInv, CountType, Serials
<1>2. /\ pc' \in {"idle", "inbound", "positions", "feeding", "alloc", "send", "rollback",
                 "mark", "record"}
      /\ pc' = "alloc" => pc = "alloc" \/ TakeSnapshot
  <2>1. CASE UNCHANGED pc \/ Crash
    BY <1>1, <2>1 DEF Crash, DigestType
  <2>2. CASE StartCycle \/ FetchEvents \/ DetectPositions
    BY <2>2 DEF StartCycle, FetchEvents, DetectPositions, Goto
  <2>3. CASE TakeSnapshot
    BY <2>3 DEF TakeSnapshot, Goto
  <2>4. CASE InDigest
    BY <2>4 DEF InDigest, Allocate, Send, Rollback, Mark, RecordSuggestion, Goto
  <2> QED BY <2>1, <2>2, <2>3, <2>4, Frames DEF Frame, Advancing
<1>3. CASE Allocate
  <2> DEFINE c == Head(queue)
             pick == [serial |-> serials', id |-> nextId, ticker |-> c.ticker,
                      offer |-> c.offer]
  <2>1. queue \in Seq(Candidate) /\ queue # <<>> /\ batch \in Seq(Text) /\ inbox \subseteq Text
    BY <1>1, <1>3 DEF Allocate, DigestType
  <2>2. c \in Candidate /\ Tail(queue) \in Seq(Candidate)
        /\ (Len(queue) # 1 => Tail(queue) # <<>>)
    <3>1. /\ Head(queue) \in Candidate /\ Tail(queue) \in Seq(Candidate)
          /\ Len(Tail(queue)) = Len(queue) - 1
      BY <2>1, HeadTailProperties
    <3>2. Len(queue) \in Nat
      BY <2>1
    <3>3. Tail(queue) = <<>> => Len(Tail(queue)) = 0
      OBVIOUS
    <3>4. Len(queue) # 1 => Tail(queue) # <<>>
      BY <3>1, <3>2, <3>3
    <3> QED BY <3>1, <3>4
  <2>3. serials' \in Serials /\ nextId \in Serials
    BY <1>1, <1>3, PipelineAssumption DEF Allocate, TypeInv, CountType, Serials
  <2>5. pick \in Text
    BY <2>2, <2>3 DEF Text, Candidate
  <2>6. \/ batch' = Append(batch, pick) /\ queue' = Tail(queue)
           /\ (pc' = "alloc" => Len(queue) # 1)
        \/ batch' = <<>> /\ queue' = <<>> /\ pc' = "idle"
    BY <1>3 DEF Allocate, Goto
  <2>7. inbox' = inbox
    BY <1>3 DEF Allocate, world
  <2> HIDE DEF pick, c
  <2>8. Append(batch, pick) \in Seq(Text)
    BY <2>1, <2>5, AppendProperties
  <2>9. batch' \in Seq(Text) /\ queue' \in Seq(Candidate) /\ (pc' = "alloc" => queue' # <<>>)
    BY <2>2, <2>6, <2>8, EmptySeq
  <2> QED BY <1>2, <2>1, <2>7, <2>9 DEF DigestType
<1>4. inbox' \subseteq Text
  <2>1. Range(batch) \subseteq Text
    BY <1>1 DEF DigestType, Range
  <2>2. CASE Send
    BY <1>1, <2>1, <2>2 DEF Send, SendSucceeds, Arrives, SendFails, DigestType
  <2> QED BY <1>1, <2>2, Frames DEF Frame, DigestType
<1>5. ~Allocate => batch' \in Seq(Text)
  <2>1. CASE RecordSuggestion
    <3>1. batch # <<>> /\ batch' = Tail(batch)
      BY <2>1, HeadOfBatch DEF RecordSuggestion, Marking
    <3> QED BY <1>1, <3>1 DEF DigestType
  <2>2. CASE Rollback \/ Crash
    BY <2>2, EmptySeq DEF Rollback, Crash
  <2> QED BY <1>1, <2>1, <2>2, Frames DEF Frame, DigestType
<1>6. ~Allocate => queue' \in Seq(Candidate) /\ (pc' = "alloc" => queue' # <<>>)
  <2>1. CASE TakeSnapshot
    <3>1. \/ pc' = "idle" /\ queue' = queue
          \/ queue' = <<>> /\ pc' = "idle"
          \/ queue' \in Digests /\ (pc' = "alloc" => queue' # <<>>)
      BY <2>1 DEF TakeSnapshot, Goto
    <3>2. queue' \in Digests => queue' \in Seq(Candidate)
      <4>1. seen \in [Tickers -> Quotes]
        BY <2>1 DEF TakeSnapshot, TypeInv, MarketType
      <4> QED BY <4>1, DigestsAreSequences
    <3> QED BY <1>1, <3>1, <3>2, EmptySeq DEF DigestType
  <2>2. CASE Crash
    BY <2>2 DEF Crash
  <2> QED BY <1>1, <1>2, <2>1, <2>2, Frames DEF Frame, DigestType
<1> QED BY <1>2, <1>3, <1>4, <1>5, <1>6 DEF DigestType

LEMMA TypeInit == Init => TypeInv
<1> SUFFICES ASSUME Init PROVE TypeInv
  OBVIOUS
<1>1. CountType /\ SugType /\ MarkType
  BY PipelineAssumption DEF Init, CountType, SugType, MarkType
<1>2. MarketType
  BY PipelineAssumption DEF Init, MarketType
<1>3. VoteType /\ DigestType
  BY DEF Init, VoteType, DigestType
<1> QED BY <1>1, <1>2, <1>3, IdInit DEF TypeInv, SugsInv, Init

LEMMA TypeNext == TypeInv /\ [Next]_vars => TypeInv'
BY CountTypeNext, SugTypeNext, MarketTypeNext, MarkTypeNext, VoteTypeNext, DigestTypeNext,
   IdNext, LabelNext DEF TypeInv

-----------------------------------------------------------------------------
(* What a step does to the suggestions and to the picks of the digest. *)

LEMMA RangeOfAppend ==
    ASSUME NEW S, NEW s \in Seq(S), NEW x \in S
    PROVE  Range(Append(s, x)) = Range(s) \cup {x}
<1> DEFINE a == Append(s, x)
<1>1. /\ a \in Seq(S) /\ Len(a) = Len(s) + 1 /\ a[Len(s) + 1] = x
      /\ \A i \in 1 .. Len(s) : a[i] = s[i]
  BY AppendProperties
<1>2. DOMAIN s = 1 .. Len(s) /\ DOMAIN a = 1 .. Len(a) /\ Len(s) \in Nat
  BY <1>1
<1> HIDE DEF a
<1>3. Range(a) = {a[i] : i \in 1 .. Len(s) + 1} /\ Range(s) = {s[i] : i \in 1 .. Len(s)}
  BY <1>1, <1>2 DEF Range
<1>4. \A i \in 1 .. Len(s) + 1 : i \in 1 .. Len(s) \/ i = Len(s) + 1
  BY <1>2
<1>5. Range(a) \subseteq Range(s) \cup {x}
  BY <1>1, <1>3, <1>4
<1>6. Range(s) \subseteq Range(a)
  BY <1>1, <1>2, <1>3
<1>7. x \in Range(a)
  BY <1>1, <1>2, <1>3
<1> QED BY <1>5, <1>6, <1>7 DEF a

LEMMA RangeOfTail ==
    ASSUME NEW S, NEW s \in Seq(S), s # <<>>
    PROVE  /\ Range(s) = {Head(s)} \cup Range(Tail(s))
           /\ (\A i, j \in DOMAIN s : s[i] = s[j] => i = j)
                => /\ Head(s) \notin Range(Tail(s))
                   /\ \A i, j \in DOMAIN Tail(s) : Tail(s)[i] = Tail(s)[j] => i = j
<1> DEFINE t == Tail(s)
<1>1. /\ Head(s) = s[1] /\ t \in Seq(S) /\ Len(t) = Len(s) - 1 /\ Len(s) \in Nat /\ Len(s) >= 1
      /\ \A i \in 1 .. Len(t) : t[i] = s[i + 1]
  BY HeadTailProperties
<1>2. DOMAIN s = 1 .. Len(s) /\ DOMAIN t = 1 .. Len(t)
  BY <1>1
<1> HIDE DEF t
<1>3. Range(t) = {t[i] : i \in 1 .. Len(t)} /\ Range(s) = {s[i] : i \in 1 .. Len(s)}
  BY <1>2 DEF Range
<1>4. Range(t) \subseteq Range(s) /\ Head(s) \in Range(s)
  BY <1>1, <1>3
<1>5. ASSUME NEW i \in 1 .. Len(s) PROVE s[i] = Head(s) \/ s[i] \in Range(t)
  <2>1. CASE i = 1
    BY <1>1, <2>1
  <2>2. CASE i # 1
    <3>1. i - 1 \in 1 .. Len(t) /\ (i - 1) + 1 = i
      BY <1>1, <2>2
    <3>2. t[i - 1] = s[i]
      BY <1>1, <3>1
    <3> QED BY <1>3, <3>1, <3>2
  <2> QED BY <2>1, <2>2
<1>6. ASSUME \A i, j \in DOMAIN s : s[i] = s[j] => i = j
      PROVE  Head(s) \notin Range(t) /\ \A i, j \in DOMAIN t : t[i] = t[j] => i = j
  <2>1. \A i \in 1 .. Len(t) : i + 1 \in DOMAIN s /\ i + 1 # 1 /\ t[i] = s[i + 1]
    BY <1>1, <1>2
  <2>2. 1 \in DOMAIN s
    BY <1>1, <1>2
  <2>3. Head(s) \notin Range(t)
    BY <1>1, <1>3, <1>6, <2>1, <2>2
  <2>4. ASSUME NEW i \in DOMAIN t, NEW j \in DOMAIN t, t[i] = t[j] PROVE i = j
    <3>1. i + 1 = j + 1
      BY <1>2, <1>6, <2>1, <2>4
    <3> QED BY <1>2, <3>1
  <2> QED BY <2>3, <2>4
<1> QED BY <1>3, <1>4, <1>5, <1>6 DEF t

\* The picks that have an id and no mark yet, and the one Allocate adds.
Picks == Range(batch)
NewPick == [serial |-> serials', id |-> nextId, ticker |-> Head(queue).ticker,
            offer |-> Head(queue).offer]

\* The ids of a digest that was not sent.
Unsent == IF pc \in Building THEN {p.id : p \in Picks} ELSE {}

\* The pick of a new id becomes a suggestion; the others stay as they are.
Added ==
    /\ DOMAIN sugs' = DOMAIN sugs \cup {nextId} /\ nextId \notin DOMAIN sugs
    /\ sugs'[nextId] = [serial |-> serials', ticker |-> Head(queue).ticker, label |-> "pending"]
    /\ \A id \in DOMAIN sugs : sugs'[id] = sugs[id]

(* An allocation adds a pick and its suggestion, or ends the digest.        *)
LEMMA Allocating ==
    ASSUME TypeInv, Allocate
    PROVE  /\ pc = "alloc" /\ serials' = serials + 1 /\ seen' = seen
           /\ queue \in Seq(Candidate) /\ queue # <<>> /\ NewPick \in Text
           /\ \/ /\ Succeeds(Scanner) /\ Added /\ Picks' = Picks \cup {NewPick}
                 /\ pc' \in {"alloc", "send"} /\ queue' = Tail(queue)
              \/ /\ FailsAfter(Scanner) \/ FailsWithout(Scanner)
                 /\ Added \/ UNCHANGED sugs
                 /\ Picks' = {} /\ pc' = "idle"
<1>1. /\ pc = "alloc" /\ serials' = serials + 1 /\ seen' = seen
      /\ queue \in Seq(Candidate) /\ queue # <<>> /\ batch \in Seq(Text)
  BY DEF Allocate, TypeInv, DigestType
<1>2. NewPick \in Text
  <2>1. Head(queue).ticker \in Tickers /\ Head(queue).offer \in Offers
    <3>1. Head(queue) \in Candidate
      BY <1>1
    <3> QED BY <3>1 DEF Candidate
  <2>2. serials' \in Serials /\ nextId \in Serials
    BY PipelineAssumption DEF Allocate, TypeInv, CountType, Serials
  <2> QED BY <2>1, <2>2 DEF NewPick, Text
<1>3. nextId \notin DOMAIN sugs
  BY DEF TypeInv, IdInv, IdTypes, IdsFresh
<1> DEFINE Save == /\ nextId' = nextId + 1
                   /\ sugs' = [id \in DOMAIN sugs \cup {nextId} |->
                         IF id = nextId
                         THEN [serial |-> serials', ticker |-> Head(queue).ticker, label |-> "pending"]
                         ELSE sugs[id]]
<1>4. \/ /\ Succeeds(Scanner) /\ Save
         /\ batch' = Append(batch, NewPick) /\ queue' = Tail(queue) /\ pc' \in {"alloc", "send"}
      \/ /\ \/ FailsAfter(Scanner) /\ Save
            \/ FailsWithout(Scanner) /\ UNCHANGED <<nextId, sugs>>
         /\ batch' = <<>> /\ pc' = "idle"
  BY DEF Allocate, NewPick, Goto
<1>5. Save => Added
  BY <1>3 DEF Added
<1> HIDE DEF Save
<1>6. Range(Append(batch, NewPick)) = Range(batch) \cup {NewPick}
  BY <1>1, <1>2, RangeOfAppend
<1>7. batch' = <<>> => Picks' = {}
  BY DEF Picks, Range
<1>8. batch' = Append(batch, NewPick) => Picks' = Picks \cup {NewPick}
  BY <1>6 DEF Picks
<1> QED BY <1>1, <1>2, <1>4, <1>5, <1>7, <1>8

(* Only an allocation adds a pick; recording one removes the first.         *)
LEMMA PicksNext ==
    ASSUME TypeInv, [Next]_vars
    PROVE  /\ Picks' \subseteq Picks \/ Allocate
           /\ Rollback \/ Crash => Picks' = {}
           /\ RecordSuggestion => Picks = {Head(batch)} \cup Picks'
           /\ Picks' = Picks \/ Allocate \/ Rollback \/ RecordSuggestion \/ Crash
           /\ Picks \subseteq Text
<1>1. batch \in Seq(Text)
  BY DEF TypeInv, DigestType
<1>2. Rollback \/ Crash => Picks' = {}
  BY DEF Rollback, Crash, Picks, Range
<1>3. RecordSuggestion => Picks = {Head(batch)} \cup Picks'
  <2>1. ASSUME RecordSuggestion PROVE Picks = {Head(batch)} \cup Picks'
    <3>1. batch # <<>> /\ batch' = Tail(batch)
      BY <2>1, HeadOfBatch DEF RecordSuggestion, Marking
    <3> QED BY <1>1, <3>1, RangeOfTail DEF Picks
  <2> QED BY <2>1
<1>4. Picks' = Picks \/ Allocate \/ Rollback \/ RecordSuggestion \/ Crash
  BY Frames DEF Frame, Picks
<1>5. Picks \subseteq Text
  BY <1>1 DEF Picks, Range
<1> QED BY <1>2, <1>3, <1>4, <1>5

\* The suggestions that stay keep their serial and market.
SugsStay ==
    \A id \in DOMAIN sugs \cap DOMAIN sugs' :
        sugs'[id].serial = sugs[id].serial /\ sugs'[id].ticker = sugs[id].ticker

(* A suggestion is added by an allocation, and deleted only with a digest   *)
(* that was not sent.                                                       *)
LEMMA SugsNext ==
    ASSUME TypeInv, [Next]_vars
    PROVE  /\ SugsStay
           /\ DOMAIN sugs' = DOMAIN sugs \/ Allocate \/ Rollback
           /\ Rollback => /\ pc = "rollback" /\ pc' = "idle"
                          /\ \/ sugs' = sugs /\ FailsWithout(Scanner)
                             \/ DOMAIN sugs' = DOMAIN sugs \ Unsent
<1>1. SugsInv
  BY DEF TypeInv
<1>2. ASSUME Rollback
      PROVE  /\ pc = "rollback" /\ pc' = "idle"
             /\ \/ sugs' = sugs /\ FailsWithout(Scanner)
                \/ /\ DOMAIN sugs' = DOMAIN sugs \ Unsent
                   /\ \A id \in DOMAIN sugs' : sugs'[id] = sugs[id]
  BY <1>2 DEF Rollback, Goto, Restrict, Unsent, Building, Picks
<1>3. SugsStay
  <2>1. CASE UNCHANGED sugs \/ Rollback
    BY <1>2, <2>1 DEF SugsStay
  <2>2. CASE Allocate
    BY <2>2, Allocating DEF Added, SugsStay
  <2>3. CASE Answering
    <3>1. PICK g \in Goroutines, sid \in DOMAIN sugs, l \in {"took", "pass"} : Feedback(g, sid, l)
      BY <2>3 DEF Answering
    <3>2. sid \in DOMAIN sugs /\ sugs' = Labelled(sid, l)
      BY <3>1 DEF Feedback
    <3>3. /\ sugs'[sid] = [serial |-> sugs[sid].serial,
                               ticker |-> sugs[sid].ticker, label |-> l]
          /\ \A i \in DOMAIN sugs : i # sid => sugs'[i] = sugs[i]
      BY <1>1, <3>2, LabelledProperties
    <3>4. /\ sugs'[sid].serial = sugs[sid].serial
          /\ sugs'[sid].ticker = sugs[sid].ticker
      BY <3>3
    <3> QED BY <3>3, <3>4 DEF SugsStay
  <2>4. CASE DetectPositions
    <3>1. \A id \in DOMAIN sugs :
             [sugs[id] EXCEPT !.label = "position"] =
               [serial |-> sugs[id].serial, ticker |-> sugs[id].ticker, label |-> "position"]
      BY <1>1 DEF SugsInv, IsSuggestion
    <3> QED BY <2>4, <3>1 DEF DetectPositions, SugsStay
  <2> QED BY <2>1, <2>2, <2>3, <2>4, Frames DEF Frame
<1>4. DOMAIN sugs' = DOMAIN sugs \/ Allocate \/ Rollback
  BY Frames DEF Frame
<1> QED BY <1>2, <1>3, <1>4

(* Where a digest is being built or marked, and how that ends.              *)
LEMMA PcNext ==
    ASSUME TypeInv, [Next]_vars
    PROVE  /\ pc' \in Building => pc \in Building \/ (TakeSnapshot /\ pc' = "alloc")
           /\ pc' \in Marking => pc \in Marking \/ (Send /\ pc' = "mark")
           /\ pc \notin Building \cup Marking => Picks = {}
           /\ pc \in Building => pc' \in Building \/ Send \/ Rollback \/ Allocate \/ Crash
           /\ pc \in Marking => pc' \in Marking \/ RecordSuggestion \/ Crash
<1> USE DEF Building, Marking
<1>1. pc \notin Building \cup Marking => Picks = {}
  BY DEF TypeInv, IdInv, BatchShape, Picks, Range
<1>2. CASE UNCHANGED pc \/ Crash
  BY <1>1, <1>2 DEF Crash
<1>3. CASE StartCycle \/ FetchEvents \/ DetectPositions \/ TakeSnapshot
  BY <1>1, <1>3 DEF StartCycle, FetchEvents, DetectPositions, TakeSnapshot, Goto
<1>4. CASE InDigest
  BY <1>1, <1>4 DEF InDigest, Allocate, Send, Rollback, Mark, RecordSuggestion, Goto
<1> QED BY <1>2, <1>3, <1>4, Frames DEF Frame, Advancing

-----------------------------------------------------------------------------
(* What a step does to the marks. *)

(* A suppression leaves the marks of the other markets, and every offer.    *)
LEMMA SuppressedProperties ==
    ASSUME TypeInv, NEW t, NEW u \in DOMAIN alerted
    PROVE  /\ DOMAIN Suppressed(t) = DOMAIN alerted
           /\ Suppressed(t)[u].offer = alerted[u].offer
           /\ Suppressed(t)[u].serial = alerted[u].serial
           /\ \/ Suppressed(t)[u].passed = "yes"
              \/ u # t /\ Suppressed(t)[u].passed = alerted[u].passed
<1>1. alerted[u] \in Entry
  BY DEF TypeInv, MarkType
<1>2. /\ [alerted[u] EXCEPT !.passed = "yes"].passed = "yes"
      /\ [alerted[u] EXCEPT !.passed = "yes"].offer = alerted[u].offer
      /\ [alerted[u] EXCEPT !.passed = "yes"].serial = alerted[u].serial
  BY <1>1 DEF Entry
<1>3. DOMAIN Suppressed(t) = DOMAIN alerted
  BY DEF Suppressed
<1>4. Suppressed(t)[u] = alerted[u] \/ Suppressed(t)[u] = [alerted[u] EXCEPT !.passed = "yes"]
  BY DEF Suppressed
<1>5. u = t => Suppressed(t)[u] = [alerted[u] EXCEPT !.passed = "yes"]
  BY DEF Suppressed
<1> QED BY <1>2, <1>3, <1>4, <1>5

(* The end of a PASS leaves the other markets, and every offer.             *)
LEMMA LapsedProperties ==
    ASSUME TypeInv, NEW t, PassEnds(t)
    PROVE  /\ told' = told \ {t} /\ lapsed' = lapsed \cup {t}
           /\ DOMAIN alerted' = DOMAIN alerted
           /\ \A u \in DOMAIN alerted :
                 /\ alerted'[u].offer = alerted[u].offer
                 /\ alerted'[u].serial = alerted[u].serial
                 /\ u # t => alerted'[u].passed = alerted[u].passed
<1>1. \A u \in DOMAIN alerted : alerted[u] \in Entry
  BY DEF TypeInv, MarkType
<1>2. \A u \in DOMAIN alerted :
         /\ [alerted[u] EXCEPT !.passed = "over"].offer = alerted[u].offer
         /\ [alerted[u] EXCEPT !.passed = "over"].serial = alerted[u].serial
  BY <1>1 DEF Entry
<1>3. told' = told \ {t} /\ lapsed' = lapsed \cup {t}
  BY DEF PassEnds
<1>4. CASE alerted' = alerted
  BY <1>3, <1>4
<1>5. CASE alerted' = [alerted EXCEPT ![t].passed = "over"]
  <2>1. /\ DOMAIN alerted' = DOMAIN alerted
        /\ \A u \in DOMAIN alerted :
              \/ alerted'[u] = alerted[u]
              \/ u = t /\ alerted'[u] = [alerted[u] EXCEPT !.passed = "over"]
    BY <1>5
  <2> QED BY <1>2, <1>3, <2>1
<1> QED BY <1>4, <1>5 DEF PassEnds

(* A mark is of the first pick, at its offer; the other marks stay.         *)
LEMMA MarkProperties ==
    ASSUME TypeInv, Mark
    PROVE  /\ Head(batch) \in Picks
           /\ \/ alerted' = alerted /\ FailsWithout(Scanner)
              \/ /\ DOMAIN alerted' = DOMAIN alerted \cup {Head(batch).ticker}
                 /\ alerted'[Head(batch).ticker] =
                      [offer |-> Head(batch).offer, serial |-> Head(batch).serial,
                       passed |-> "no"]
                 /\ \A t \in DOMAIN alerted :
                       t # Head(batch).ticker => alerted'[t] = alerted[t]
<1>1. pc = "mark" /\ batch # <<>> /\ batch \in Seq(Text)
  BY HeadOfBatch DEF Mark, Marking, TypeInv, DigestType
<1>2. Head(batch) \in Picks
  BY <1>1, RangeOfTail DEF Picks
<1> QED BY <1>2 DEF Mark

-----------------------------------------------------------------------------
(* Every id and serial that is borne was given out. *)

Issued(n) == n \in 1 .. serials

UseInv ==
    /\ \A id \in DOMAIN sugs : Issued(sugs[id].serial)
    /\ \A t \in DOMAIN alerted : Issued(alerted[t].serial)
    /\ \A r \in records : Issued(r.id) /\ Issued(r.serial)
    /\ \A x \in inbox : Issued(x.id) /\ Issued(x.serial)
    /\ \A a \in accepted : Issued(a.id) /\ Issued(a.serial)
    /\ \A p \in Picks : Issued(p.id) /\ Issued(p.serial)
    /\ \A g \in Goroutines : job[g] # NoJob => Issued(job[g].id) /\ Issued(job[g].serial)

\* So it is after the step, for a number of the step's choice.
StillIssued(n) == n \in 1 .. serials'

(* What was given out stays given out, and the new pick is of this step.    *)
LEMMA IssuedNext ==
    ASSUME TypeInv, [Next]_vars
    PROVE  /\ \A n : Issued(n) => StillIssued(n)
           /\ \A id \in DOMAIN sugs : Issued(id)
           /\ Allocate => StillIssued(NewPick.id) /\ StillIssued(NewPick.serial)
<1>1. serials \in Nat /\ nextId \in 1 .. serials + 1 /\ DOMAIN sugs \subseteq 1 .. serials
  BY PipelineAssumption DEF TypeInv, CountType
<1>2. serials' = serials \/ (Allocate /\ serials' = serials + 1)
  BY Frames DEF Frame, Allocate, Rollback, bounds
<1>3. NewPick.id = nextId /\ NewPick.serial = serials'
  BY DEF NewPick
<1>4. Allocate => serials' = serials + 1
  BY DEF Allocate
<1> QED BY <1>1, <1>2, <1>3, <1>4 DEF Issued, StillIssued

(* A step gives to a suggestion, a mark, a record, a text or a job only     *)
(* what it takes from another, or from the new pick.                        *)
LEMMA UseNext == TypeInv /\ UseInv /\ [Next]_vars => UseInv'
<1> SUFFICES ASSUME TypeInv, UseInv, [Next]_vars PROVE UseInv'
  OBVIOUS
<1>1. \A n : Issued(n) => StillIssued(n)
  BY IssuedNext
<1>2. ASSUME NEW id \in DOMAIN sugs' PROVE StillIssued(sugs'[id].serial)
  <2>1. CASE id \in DOMAIN sugs
    BY <1>1, <1>2, <2>1, SugsNext DEF SugsStay, UseInv
  <2>2. CASE id \notin DOMAIN sugs
    <3>1. ~Rollback
      BY <1>2, <2>2, SugsNext
    <3>2. Allocate /\ Added /\ id = nextId
      BY <1>2, <2>2, <3>1, SugsNext, Allocating DEF Added
    <3>3. sugs'[id].serial = NewPick.serial
      BY <3>2 DEF Added, NewPick
    <3> QED BY <3>2, <3>3, IssuedNext
  <2> QED BY <2>1, <2>2
<1>3. ASSUME NEW t \in DOMAIN alerted' PROVE StillIssued(alerted'[t].serial)
  <2>1. CASE t \in DOMAIN alerted /\ alerted'[t].serial = alerted[t].serial
    BY <1>1, <2>1 DEF UseInv
  <2>2. CASE Mark /\ alerted'[t].serial = Head(batch).serial
    BY <1>1, <2>2, MarkProperties DEF UseInv
  <2>3. CASE UNCHANGED alerted
    BY <1>3, <2>1, <2>3
  <2>4. CASE Answering
    <3>1. PICK u : alerted' = alerted \/ alerted' = Suppressed(u)
      BY <2>4 DEF Answering, Feedback
    <3>2. DOMAIN alerted' = DOMAIN alerted
      BY <3>1 DEF Suppressed
    <3> QED BY <1>3, <2>1, <3>1, <3>2, SuppressedProperties
  <2>5. CASE Mark /\ ~UNCHANGED alerted
    <3>1. t \in DOMAIN alerted \/ t = Head(batch).ticker
      BY <1>3, <2>5, MarkProperties
    <3>2. t = Head(batch).ticker => alerted'[t].serial = Head(batch).serial
      BY <2>5, MarkProperties
    <3>3. t # Head(batch).ticker => alerted'[t] = alerted[t]
      BY <2>5, <3>1, MarkProperties
    <3> QED BY <2>1, <2>2, <2>5, <3>1, <3>2, <3>3
  <2>6. CASE Lapsing
    BY <1>3, <2>1, <2>6, LapsedProperties DEF Lapsing
  <2> QED BY <2>3, <2>4, <2>5, <2>6, Frames DEF Frame
<1>4. ASSUME NEW p \in Picks' PROVE StillIssued(p.id) /\ StillIssued(p.serial)
  <2>1. p \in Picks \/ (Allocate /\ p = NewPick)
    BY <1>4, PicksNext, Allocating
  <2> QED BY <1>1, <2>1, IssuedNext DEF UseInv
<1>5. ASSUME NEW x \in inbox' PROVE StillIssued(x.id) /\ StillIssued(x.serial)
  <2>1. x \in inbox \/ x \in Picks
    BY <1>5, Frames DEF Frame, Send, SendSucceeds, Arrives, SendFails, Picks
  <2> QED BY <1>1, <2>1 DEF UseInv
<1>6. ASSUME NEW r \in records' PROVE StillIssued(r.id) /\ StillIssued(r.serial)
  <2>1. CASE r \in records
    BY <1>1, <2>1 DEF UseInv
  <2>2. CASE r \notin records /\ Recording
    <3>1. PICK g \in Goroutines : RecordLabel(g)
      BY <2>2 DEF Recording
    <3>2. job[g] # NoJob /\ r = [kind |-> "label", id |-> job[g].id, serial |-> job[g].serial]
      BY <1>6, <2>2, <3>1 DEF RecordLabel
    <3>3. r.id = job[g].id /\ r.serial = job[g].serial
      BY <3>2
    <3> QED BY <1>1, <3>2, <3>3 DEF UseInv
  <2>3. CASE r \notin records /\ RecordSuggestion
    <3>1. r = [kind |-> "suggestion", id |-> Head(batch).id, serial |-> Head(batch).serial]
      BY <1>6, <2>3 DEF RecordSuggestion
    <3>2. Head(batch) \in Picks
      BY <2>3, PicksNext
    <3>3. r.id = Head(batch).id /\ r.serial = Head(batch).serial
      BY <3>1
    <3> QED BY <1>1, <3>2, <3>3 DEF UseInv
  <2> QED BY <2>1, <2>2, <2>3, <1>6, Frames DEF Frame
<1>7. ASSUME NEW a \in accepted' PROVE StillIssued(a.id) /\ StillIssued(a.serial)
  <2>1. CASE a \in accepted
    BY <1>1, <2>1 DEF UseInv
  <2>2. CASE a \notin accepted
    <3>1. DetectPositions
      BY <1>7, <2>2, Frames DEF Frame, FeedAccepted, Crash
    <3>2. PICK id \in DOMAIN sugs : a = [serial |-> sugs[id].serial, id |-> id]
      BY <1>7, <2>2, <3>1 DEF DetectPositions
    <3>3. a.id = id /\ a.serial = sugs[id].serial
      BY <3>2
    <3> QED BY <1>1, <3>2, <3>3, IssuedNext DEF UseInv
  <2> QED BY <2>1, <2>2
<1>8. ASSUME NEW g \in Goroutines, job'[g] # NoJob
      PROVE  StillIssued(job'[g].id) /\ StillIssued(job'[g].serial)
  <2>1. ASSUME NEW i, NEW n, Issued(i), Issued(n), job'[g].id = i, job'[g].serial = n
        PROVE  StillIssued(job'[g].id) /\ StillIssued(job'[g].serial)
    BY <1>1, <2>1
  <2>2. DOMAIN job = Goroutines
    BY DEF TypeInv, VoteType
  <2>3. CASE job'[g] = job[g]
    BY <1>8, <2>1, <2>3 DEF UseInv
  <2>4. CASE Crash
    BY <1>8, <2>4 DEF Crash
  <2>5. CASE Answering
    <3>1. PICK h \in Goroutines, sid \in DOMAIN sugs, l \in {"took", "pass"} : Feedback(h, sid, l)
      BY <2>5 DEF Answering
    <3>2. \/ job'[g] = job[g]
          \/ job'[g] = [step |-> "feed", serial |-> sugs[sid].serial, id |-> sid, label |-> l]
      BY <2>2, <3>1 DEF Feedback
    <3>3. CASE job'[g] # job[g]
      <4>1. job'[g].id = sid /\ job'[g].serial = sugs[sid].serial
        BY <3>2, <3>3
      <4>2. Issued(sid) /\ Issued(sugs[sid].serial)
        BY IssuedNext DEF UseInv
      <4> QED BY <2>1, <4>1, <4>2
    <3> QED BY <2>3, <3>3
  <2>6. CASE Voting \/ Recording
    <3>1. PICK h \in Goroutines : Feed(h) \/ RecordLabel(h)
      BY <2>6 DEF Voting, Recording
    <3>2. job'[g] = job[g] \/ (g = h /\ Feed(h) /\ job'[g] = [job[g] EXCEPT !.step = "record"])
      BY <1>8, <2>2, <3>1 DEF Feed, RecordLabel
    <3>3. CASE job'[g] # job[g]
      <4>1. job[g] # NoJob /\ \E S, T, U, V : job[g] \in [step : S, serial : T, id : U, label : V]
        BY <3>2, <3>3 DEF Feed, TypeInv, VoteType
      <4>2. job'[g].id = job[g].id /\ job'[g].serial = job[g].serial
        BY <3>2, <3>3, <4>1
      <4> QED BY <2>1, <4>1, <4>2 DEF UseInv
    <3> QED BY <2>3, <3>3
  <2>7. CASE FeedAccepted
    <3>1. PICK a \in accepted :
             job' = [job EXCEPT ![Scanner] = [step |-> "feed", serial |-> a.serial,
                                              id |-> a.id, label |-> "position"]]
      BY <2>7 DEF FeedAccepted
    <3>2. job'[g] = job[g] \/ (job'[g].id = a.id /\ job'[g].serial = a.serial)
      BY <2>2, <3>1
    <3> QED BY <2>1, <2>3, <3>1, <3>2 DEF UseInv
  <2> QED BY <2>3, <2>4, <2>5, <2>6, <2>7, Frames DEF Frame
<1>9. UseInv' <=>
        /\ \A id \in DOMAIN sugs' : StillIssued(sugs'[id].serial)
        /\ \A t \in DOMAIN alerted' : StillIssued(alerted'[t].serial)
        /\ \A r \in records' : StillIssued(r.id) /\ StillIssued(r.serial)
        /\ \A x \in inbox' : StillIssued(x.id) /\ StillIssued(x.serial)
        /\ \A a \in accepted' : StillIssued(a.id) /\ StillIssued(a.serial)
        /\ \A p \in Picks' : StillIssued(p.id) /\ StillIssued(p.serial)
        /\ \A g \in Goroutines :
              job'[g] # NoJob => StillIssued(job'[g].id) /\ StillIssued(job'[g].serial)
  BY DEF UseInv, Issued, StillIssued
<1> HIDE DEF UseInv, StillIssued
<1> QED BY <1>2, <1>3, <1>4, <1>5, <1>6, <1>7, <1>8, <1>9

(* Every variable has its type, and nothing bears an id or a serial beyond  *)
(* the number of suggestions made so far.                                   *)
THEOREM TypeCorrect == Spec => []TypeOK
<1>1. Init => UseInv
  BY DEF Init, UseInv, Picks, Range
<1>2. ASSUME TypeInv, UseInv PROVE TypeOK
  <2>1. DOMAIN sugs \cup {sugs[id].serial : id \in DOMAIN sugs}
          \cup {alerted[t].serial : t \in DOMAIN alerted} \subseteq 1 .. serials
    BY <1>2 DEF TypeInv, CountType, UseInv, Issued
  <2>2. UNION {{r.id, r.serial} : r \in records \cup inbox \cup accepted \cup Range(batch)}
          \subseteq 1 .. serials
    BY <1>2 DEF UseInv, Issued, Picks
  <2>3. UNION {{job[g].id, job[g].serial} : g \in {h \in Goroutines : job[h] # NoJob}}
          \subseteq 1 .. serials
    BY <1>2 DEF UseInv, Issued
  <2>4. InUse \subseteq 1 .. serials
    BY <2>1, <2>2, <2>3 DEF InUse
  <2>5. serials \in 0 .. MaxSerial /\ nextId \in 1 .. serials + 1 /\ known \subseteq Tickers
    BY <1>2 DEF TypeInv, CountType, MarketType
  <2>6. \A id \in DOMAIN sugs :
           sugs[id] \in [serial : Serials, ticker : Tickers, label : Labels]
    BY <1>2 DEF TypeInv, SugType, Sug
  <2>7. /\ DOMAIN alerted \subseteq Tickers
        /\ \A t \in DOMAIN alerted :
              alerted[t] \in [offer : Offers, serial : Serials, passed : {"no", "yes", "over"}]
    BY <1>2 DEF TypeInv, MarkType, Entry
  <2>8. /\ \A n \in Serials : fed[n] \in Seq(BOOLEAN)
        /\ records \subseteq [kind : {"suggestion", "label"}, id : Serials, serial : Serials]
        /\ \A g \in Goroutines : job[g] = NoJob \/ job[g] \in
              [step : {"feed", "record"}, serial : Serials, id : Serials, label : Labels]
    BY <1>2 DEF TypeInv, VoteType
  <2>9. /\ inbox \subseteq [serial : Serials, id : Serials, ticker : Tickers, offer : Offers]
        /\ seen # <<>> => seen \in [Tickers -> Quotes]
        /\ pc \in {"idle", "inbound", "positions", "feeding", "alloc", "send", "rollback",
                   "mark", "record"}
    BY <1>2 DEF TypeInv, DigestType, Text, MarketType
  <2> QED BY <2>4, <2>5, <2>6, <2>7, <2>8, <2>9 DEF TypeOK
<1> QED BY <1>1, <1>2, TypeInit, TypeNext, UseNext, PTL DEF Spec

-----------------------------------------------------------------------------
(* An id names the same suggestion for ever. *)

Named(id, n) == id \in DOMAIN sugs /\ sugs[id].serial = n

\* The id n was texted under is not one a failed send will give back.
Kept(id, n) == Named(id, n) /\ id \notin Unsent

\* So it is after the step, for an id and a serial of the step's choice.
StillNamed(id, n) == id \in DOMAIN sugs' /\ sugs'[id].serial = n
StillKept(id, n) == StillNamed(id, n) /\ id \notin Unsent'

\* Every id the program or the user remembers names the suggestion it was given
\* to, and goes on naming it.
NameInv ==
    /\ \A p \in Picks : Named(p.id, p.serial)
    /\ \A x \in inbox : Kept(x.id, x.serial)
    /\ \A r \in records : Kept(r.id, r.serial)
    /\ \A a \in accepted : Kept(a.id, a.serial)
    /\ \A g \in Goroutines : job[g] # NoJob => Kept(job[g].id, job[g].serial)

(* An id that is kept stays kept: a digest takes new ids, and a failed send *)
(* gives back those of its own digest.                                      *)
LEMMA KeptNext ==
    ASSUME TypeInv, [Next]_vars, NEW id, NEW n, Kept(id, n)
    PROVE  StillKept(id, n)
<1>1. id \in DOMAIN sugs /\ sugs[id].serial = n /\ id \notin Unsent
  BY DEF Kept, Named
<1>2. id \in DOMAIN sugs'
  BY <1>1, SugsNext, Allocating DEF Added
<1>3. sugs'[id].serial = n
  BY <1>1, <1>2, SugsNext DEF SugsStay
<1>4. id \notin Unsent'
  <2>1. CASE Allocate
    <3>1. Unsent' \subseteq {p.id : p \in Picks \cup {NewPick}} /\ pc \in Building
      BY <2>1, Allocating DEF Unsent, Building
    <3>2. NewPick.id = nextId
      BY DEF NewPick
    <3>3. nextId \notin DOMAIN sugs
      BY DEF TypeInv, IdInv, IdTypes, IdsFresh
    <3> QED BY <1>1, <3>1, <3>2, <3>3 DEF Unsent
  <2>2. CASE ~Allocate
    <3>1. Picks' \subseteq Picks
      BY <2>2, PicksNext
    <3>2. pc' \in Building => pc \in Building \/ Picks = {}
      BY PcNext DEF Building, Marking, TakeSnapshot
    <3> QED BY <1>1, <3>1, <3>2 DEF Unsent
  <2> QED BY <2>1, <2>2
<1> QED BY <1>2, <1>3, <1>4 DEF StillKept, StillNamed

(* A pick of a digest names its suggestion until the digest ends.           *)
LEMMA PicksNamed ==
    ASSUME TypeInv, NameInv, [Next]_vars
    PROVE  \A p \in Picks' : StillNamed(p.id, p.serial)
<1> SUFFICES ASSUME NEW p \in Picks' PROVE StillNamed(p.id, p.serial)
  OBVIOUS
<1>1. ASSUME p \in Picks, ~Rollback
      PROVE  StillNamed(p.id, p.serial)
  <2>1. p.id \in DOMAIN sugs /\ sugs[p.id].serial = p.serial
    BY <1>1 DEF NameInv, Named
  <2>2. p.id \in DOMAIN sugs'
    BY <1>1, <2>1, SugsNext, Allocating DEF Added
  <2> QED BY <2>1, <2>2, SugsNext DEF SugsStay, StillNamed
<1>2. CASE p \notin Picks
  <2>1. Allocate /\ Added /\ p = NewPick
    BY <1>2, PicksNext, Allocating
  <2>2. p.id = nextId /\ p.serial = serials'
    BY <2>1 DEF NewPick
  <2> QED BY <2>1, <2>2 DEF Added, StillNamed
<1> QED BY <1>1, <1>2, PicksNext

(* If no text arrives of which the client reports an error, every id keeps  *)
(* naming the suggestion it was given to.                                   *)
LEMMA NameNext ==
    "ambiguous" \notin Faults /\ TypeInv /\ NameInv /\ [Next]_vars => NameInv'
<1> SUFFICES ASSUME "ambiguous" \notin Faults, TypeInv, NameInv, [Next]_vars PROVE NameInv'
  OBVIOUS
<1>1. \A id, n : Kept(id, n) => StillKept(id, n)
  BY KeptNext
<1>2. \A p \in Picks' : StillNamed(p.id, p.serial)
  BY PicksNamed
<1>3. pc' \notin Building => \A id, n : StillNamed(id, n) => StillKept(id, n)
  BY DEF StillKept, Unsent
<1>4. ASSUME NEW x \in inbox', x \notin inbox PROVE StillKept(x.id, x.serial)
  <2>1. Send
    BY <1>4, Frames DEF Frame
  <2>2. x \in Picks /\ pc' = "mark" /\ Picks' = Picks
    BY <1>4, <2>1 DEF Send, SendSucceeds, Arrives, SendFails, Goto, Fault, Picks
  <2> QED BY <1>2, <1>3, <2>2 DEF Building
<1>5. ASSUME NEW r \in records', r \notin records PROVE StillKept(r.id, r.serial)
  <2>1. CASE Recording
    <3>1. PICK g \in Goroutines : RecordLabel(g)
      BY <2>1 DEF Recording
    <3>2. job[g] # NoJob /\ r = [kind |-> "label", id |-> job[g].id, serial |-> job[g].serial]
      BY <1>5, <3>1 DEF RecordLabel
    <3>3. StillKept(job[g].id, job[g].serial)
      BY <1>1, <3>2 DEF NameInv
    <3>4. r.id = job[g].id /\ r.serial = job[g].serial
      BY <3>2
    <3> QED BY <3>3, <3>4
  <2>2. CASE RecordSuggestion
    <3>1. /\ pc = "record" /\ pc' \in {"idle", "mark"}
          /\ r = [kind |-> "suggestion", id |-> Head(batch).id, serial |-> Head(batch).serial]
      BY <1>5, <2>2 DEF RecordSuggestion, Goto
    <3>2. Head(batch) \in Picks
      BY <2>2, PicksNext
    <3>3. Kept(Head(batch).id, Head(batch).serial)
      BY <3>1, <3>2 DEF NameInv, Kept, Unsent, Building
    <3>4. StillKept(Head(batch).id, Head(batch).serial)
      BY <3>3, KeptNext
    <3>5. r.id = Head(batch).id /\ r.serial = Head(batch).serial
      BY <3>1
    <3> QED BY <3>4, <3>5
  <2> QED BY <1>5, <2>1, <2>2, Frames DEF Frame
<1>6. ASSUME NEW a \in accepted', a \notin accepted PROVE StillKept(a.id, a.serial)
  <2>1. DetectPositions
    BY <1>6, Frames DEF Frame, FeedAccepted, Crash
  <2>2. PICK id \in DOMAIN sugs : a = [serial |-> sugs[id].serial, id |-> id]
    BY <1>6, <2>1 DEF DetectPositions
  <2>3. pc \notin Building
    BY <2>1 DEF DetectPositions, Building
  <2>4. Kept(a.id, a.serial)
    BY <2>2, <2>3 DEF Kept, Named, Unsent
  <2> QED BY <1>1, <2>4
<1>7. ASSUME NEW g \in Goroutines, job'[g] # NoJob PROVE StillKept(job'[g].id, job'[g].serial)
  <2>1. ASSUME NEW j, Kept(j.id, j.serial), job'[g].id = j.id, job'[g].serial = j.serial
        PROVE  StillKept(job'[g].id, job'[g].serial)
    <3>1. StillKept(j.id, j.serial)
      BY <1>1, <2>1
    <3> QED BY <2>1, <3>1
  <2>2. /\ DOMAIN job = Goroutines
        /\ \A h \in Goroutines : job[h] # NoJob => Kept(job[h].id, job[h].serial)
    BY DEF TypeInv, VoteType, NameInv
  <2>3. CASE UNCHANGED job \/ Crash
    BY <1>7, <2>1, <2>2, <2>3 DEF Crash
  <2>4. CASE Answering
    <3>1. PICK h \in Goroutines, sid \in DOMAIN sugs, l \in {"took", "pass"} :
             sid \in Answerable(h) /\ Feedback(h, sid, l)
      BY <2>4 DEF Answering
    <3>2. Kept(sid, sugs[sid].serial)
      <4>1. CASE h = Scanner
        BY <3>1, <4>1 DEF Feedback, Answers, Kept, Named, Unsent, Building
      <4>2. CASE h # Scanner
        BY <3>1, <4>2 DEF Answerable, NameInv, Kept, Named
      <4> QED BY <4>1, <4>2
    <3>3. \/ job'[g] = job[g]
          \/ job'[g] = [step |-> "feed", serial |-> sugs[sid].serial, id |-> sid,
                        label |-> l]
      BY <2>2, <3>1 DEF Feedback
    <3>4. CASE job'[g] = job[g]
      BY <1>7, <2>1, <2>2, <3>4
    <3>5. CASE job'[g] # job[g]
      <4>1. job'[g].id = sid /\ job'[g].serial = sugs[sid].serial
        BY <3>3, <3>5
      <4>2. StillKept(sid, sugs[sid].serial)
        BY <1>1, <3>2
      <4> QED BY <4>1, <4>2
    <3> QED BY <3>4, <3>5
  <2>5. CASE Voting \/ Recording
    <3>1. PICK h \in Goroutines : Feed(h) \/ RecordLabel(h)
      BY <2>5 DEF Voting, Recording
    <3>2. job'[g] = job[g] \/ (g = h /\ Feed(h) /\ job'[g] = [job[g] EXCEPT !.step = "record"])
      BY <1>7, <2>2, <3>1 DEF Feed, RecordLabel
    <3>3. CASE job'[g] # job[g]
      <4>1. job[g] # NoJob /\ \E S, T, U, V : job[g] \in [step : S, serial : T, id : U, label : V]
        BY <3>2, <3>3 DEF Feed, TypeInv, VoteType
      <4>2. job'[g].id = job[g].id /\ job'[g].serial = job[g].serial
        BY <3>2, <3>3, <4>1
      <4> QED BY <2>1, <2>2, <4>1, <4>2
    <3> QED BY <1>7, <2>1, <2>2, <3>2, <3>3
  <2>6. CASE FeedAccepted
    <3>1. PICK a \in accepted :
             job' = [job EXCEPT ![Scanner] = [step |-> "feed", serial |-> a.serial,
                                              id |-> a.id, label |-> "position"]]
      BY <2>6 DEF FeedAccepted
    <3>2. job'[g] = job[g] \/ (job'[g].id = a.id /\ job'[g].serial = a.serial)
      BY <2>2, <3>1
    <3> QED BY <1>7, <2>1, <2>2, <3>1, <3>2 DEF NameInv
  <2> QED BY <2>3, <2>4, <2>5, <2>6, Frames DEF Frame
<1>8. NameInv' <=> /\ \A p \in Picks' : StillNamed(p.id, p.serial)
                   /\ \A x \in inbox' : StillKept(x.id, x.serial)
                   /\ \A r \in records' : StillKept(r.id, r.serial)
                   /\ \A a \in accepted' : StillKept(a.id, a.serial)
                   /\ \A g \in Goroutines :
                         job'[g] # NoJob => StillKept(job'[g].id, job'[g].serial)
  BY DEF NameInv, Named, Kept, StillNamed, StillKept
<1>9. /\ \A x \in inbox : StillKept(x.id, x.serial)
      /\ \A r \in records : StillKept(r.id, r.serial)
      /\ \A a \in accepted : StillKept(a.id, a.serial)
  BY <1>1 DEF NameInv
<1> QED BY <1>2, <1>4, <1>5, <1>6, <1>7, <1>8, <1>9

LEMMA NameInit == Init => NameInv
BY DEF Init, NameInv, Picks, Range

(* The model learns from a market with that market's own label, through     *)
(* failing statements, refused sends, expired cycles and crashes; only a    *)
(* digest that arrived although its send reported an error breaks it.       *)
THEOREM TrainingSoundCorrect ==
    ASSUME "ambiguous" \notin Faults
    PROVE  Spec => []TrainingSound
<1>1. NameInv => TrainingSound
  <2> SUFFICES ASSUME NameInv, NEW ex \in TrainingExamples
               PROVE  ex.suggestion.serial = ex.label.serial
    BY DEF TrainingSound
  <2>1. ex.suggestion \in records /\ ex.label \in records /\ ex.suggestion.id = ex.label.id
    BY DEF TrainingExamples
  <2> QED BY <2>1 DEF NameInv, Kept, Named
<1> QED BY <1>1, TypeInit, TypeNext, NameInit, NameNext, PTL DEF Spec

-----------------------------------------------------------------------------
(* What the user is promised while the store answers. *)

\* No statement fails, no cycle expires and the process does not die.
StoreReliable == {"statement", "expiry", "crash"} \cap Faults = {}

(* With a reliable store a cycle goes on as long as its sends succeed.      *)
LEMMA ReliableNext ==
    ASSUME StoreReliable, ~expired, [Next]_vars
    PROVE  /\ ~expired' /\ ~Crash
           /\ \A g : ~FailsAfter(g) /\ ~FailsWithout(g)
<1>1. ~Crash /\ ~Expire
  BY DEF Crash, Expire, Fault, StoreReliable
<1>2. \A g : ~FailsAfter(g) /\ ~FailsWithout(g)
  BY DEF FailsAfter, FailsWithout, Dead, Breaks, Fault, StoreReliable
<1>3. ~expired'
  BY <1>1, Frames DEF Frame, StartCycle
<1> QED BY <1>1, <1>2, <1>3

(* The snapshot is taken of fetched events.                                 *)
LEMMA MarketsSeen ==
    ASSUME TypeInv, TakeSnapshot
    PROVE  seen \in [Tickers -> Quotes]
BY DEF TakeSnapshot, TypeInv, MarketType

(* How a digest, a mark and a delivery begin.                               *)
LEMMA DigestSteps ==
    ASSUME TypeInv, [Next]_vars
    PROVE  /\ pc' = "alloc" => \/ pc = "alloc" /\ queue' = queue /\ Picks' = Picks /\ ~Send
                               \/ Allocate
                               \/ /\ TakeSnapshot /\ queue' \in Digests
                                  /\ Picks = {} /\ Picks' = {}
           /\ pc' = "record" => /\ batch' = batch /\ Picks' = Picks /\ batch # <<>>
                                /\ Head(batch) \in Picks
                                /\ (pc = "record" /\ ~Mark) \/ Mark
           /\ inbox \subseteq inbox' /\ inbox' \subseteq inbox \cup Picks
           /\ inbox' # inbox => Send
           /\ Send => pc = "send" /\ Picks' = Picks
<1>1. Send => pc = "send" /\ batch' = batch /\ inbox \subseteq inbox'
              /\ inbox' \subseteq inbox \cup Picks
  BY DEF Send, SendSucceeds, Arrives, SendFails, Picks
<1>2. inbox' # inbox => Send
  BY Frames DEF Frame
<1>3. ASSUME pc' = "alloc", ~Allocate
      PROVE  \/ pc = "alloc" /\ queue' = queue /\ Picks' = Picks /\ ~Send
             \/ TakeSnapshot /\ queue' \in Digests /\ Picks = {} /\ Picks' = {}
  <2>1. pc = "alloc" \/ TakeSnapshot
    BY <1>3, Frames DEF Frame, Advancing, InDigest, Crash, StartCycle, FetchEvents,
                        DetectPositions, Send, Rollback, Mark, RecordSuggestion, Goto
  <2>2. CASE TakeSnapshot
    <3>1. pc = "feeding" /\ queue' \in Digests
      BY <1>3, <2>2 DEF TakeSnapshot, Goto
    <3>2. Picks = {} /\ Picks' = {}
      BY <2>2, <3>1, PcNext DEF Building, Marking, TakeSnapshot, Picks
    <3> QED BY <2>2, <3>1, <3>2
  <2>3. CASE pc = "alloc" /\ ~TakeSnapshot
    <3>1. ~Crash /\ ~Rollback /\ ~RecordSuggestion /\ ~Send
      BY <1>3, <2>3 DEF Crash, Rollback, RecordSuggestion, Send
    <3> QED BY <1>3, <2>3, <3>1, Frames, PicksNext DEF Frame
  <2> QED BY <2>1, <2>2, <2>3
<1>4. ASSUME pc' = "record"
      PROVE  batch' = batch /\ Picks' = Picks /\ batch # <<>> /\ Head(batch) \in Picks
             /\ (pc = "record" \/ Mark)
  <2>1. pc = "record" \/ Mark
    BY <1>4, Frames DEF Frame, Advancing, InDigest, Crash, StartCycle, FetchEvents,
                        DetectPositions, TakeSnapshot, Allocate, Send, Rollback,
                        RecordSuggestion, Goto
  <2>2. ~Crash /\ ~Rollback /\ ~RecordSuggestion /\ ~Allocate /\ pc \in Marking
    BY <1>4, <2>1 DEF Crash, Rollback, RecordSuggestion, Allocate, Mark, Goto, Marking
  <2>3. batch' = batch
    BY <2>2, Frames DEF Frame
  <2>4. batch # <<>> /\ batch \in Seq(Text)
    BY <2>2, HeadOfBatch DEF TypeInv, DigestType
  <2>5. Head(batch) \in Picks
    BY <2>4, RangeOfTail DEF Picks
  <2> QED BY <2>1, <2>3, <2>4, <2>5 DEF Picks
<1> QED BY <1>1, <1>2, <1>3, <1>4 DEF Picks

-----------------------------------------------------------------------------
(* Every suggestion is one alert the user received. *)

Texted(n) == \E x \in inbox : x.serial = n

\* A suggestion was texted, or is a pick of the digest being built.
TextedInv ==
    /\ ~expired
    /\ \A id \in DOMAIN sugs :
          \/ Texted(sugs[id].serial)
          \/ pc \in Building /\ \E p \in Picks : p.id = id /\ p.serial = sugs[id].serial

(* A digest is delivered, or deleted with its suggestions.                  *)
LEMMA TextedNext ==
    StoreReliable /\ TypeInv /\ TextedInv /\ [Next]_vars => TextedInv'
<1> SUFFICES ASSUME StoreReliable, TypeInv, TextedInv, [Next]_vars PROVE TextedInv'
  OBVIOUS
<1>1. ~expired /\ ~expired' /\ ~Crash /\ \A g : ~FailsAfter(g) /\ ~FailsWithout(g)
  BY ReliableNext DEF TextedInv
<1>2. inbox \subseteq inbox'
  BY DigestSteps
<1>3. ASSUME NEW id \in DOMAIN sugs', id \notin DOMAIN sugs
      PROVE  pc' \in Building /\ \E p \in Picks' : p.id = id /\ p.serial = sugs'[id].serial
  <2>1. Allocate
    BY <1>3, SugsNext, <1>1
  <2>2. Added /\ NewPick \in Picks' /\ pc' \in Building
    BY <1>1, <2>1, Allocating DEF Building
  <2>3. NewPick.id = nextId /\ NewPick.serial = serials'
    BY DEF NewPick
  <2> QED BY <1>3, <2>2, <2>3 DEF Added
<1>4. ASSUME NEW id \in DOMAIN sugs', id \in DOMAIN sugs
      PROVE  \/ \E x \in inbox' : x.serial = sugs'[id].serial
             \/ pc' \in Building /\ \E p \in Picks' : p.id = id /\ p.serial = sugs'[id].serial
  <2>1. sugs'[id].serial = sugs[id].serial
    BY <1>4, SugsNext DEF SugsStay
  <2>2. CASE Texted(sugs[id].serial)
    BY <1>2, <2>1, <2>2 DEF Texted
  <2>3. CASE pc \in Building /\ \E p \in Picks : p.id = id /\ p.serial = sugs[id].serial
    <3>1. PICK p \in Picks : p.id = id /\ p.serial = sugs[id].serial
      BY <2>3
    <3>2. CASE Send
      <4>1. Picks' = Picks /\ (Picks \subseteq inbox' \/ pc' = "rollback")
        BY <3>2, DigestSteps DEF Send, SendSucceeds, Arrives, Goto, Picks
      <4> QED BY <2>1, <3>1, <4>1 DEF Building
    <3>3. CASE Allocate
      BY <1>1, <2>1, <3>1, <3>3, Allocating DEF Building
    <3>4. ~Rollback
      BY <1>1, <1>4, <2>3, <3>1, SugsNext DEF Unsent
    <3>5. CASE ~Send /\ ~Allocate
      <4>1. pc' \in Building
        BY <1>1, <2>3, <3>4, <3>5, PcNext
      <4>2. ~RecordSuggestion
        BY <2>3 DEF RecordSuggestion, Building
      <4>3. Picks' = Picks
        BY <1>1, <3>4, <3>5, <4>2, PicksNext
      <4> QED BY <2>1, <3>1, <4>1, <4>3
    <3> QED BY <3>2, <3>3, <3>5
  <2> QED BY <1>4, <2>2, <2>3 DEF TextedInv
<1> QED BY <1>1, <1>3, <1>4 DEF TextedInv, Texted

(* While the store answers, every suggestion between cycles is one alert    *)
(* the user received, whether sends are refused or their outcome is lost.   *)
THEOREM SuggestionWasTextedCorrect ==
    ASSUME StoreReliable
    PROVE  Spec => []SuggestionWasTexted
<1>1. Init => TextedInv
  BY DEF Init, TextedInv
<1>2. TextedInv => SuggestionWasTexted
  BY DEF TextedInv, SuggestionWasTexted, Texted, Building
<1> QED BY <1>1, <1>2, TypeInit, TypeNext, TextedNext, PTL DEF Spec

-----------------------------------------------------------------------------
(* A PASS is honoured. *)

\* The user of the SMS mode has no web goroutines and watches no market.
SmsUser == Web = {} /\ Watched = {}

\* A market of which the user was told it is suppressed is suppressed, and in
\* no digest; one with a suggestion is marked, or about to be.
PassInv ==
    /\ ~expired
    /\ \A t \in told : Passed(t)
    /\ \A id \in DOMAIN sugs :
          \/ sugs[id].ticker \in DOMAIN alerted
          \/ \E p \in Picks : p.id = id /\ p.ticker = sugs[id].ticker
    /\ pc = "record" => Head(batch).ticker \in DOMAIN alerted
    /\ \A p \in Picks : p.ticker \notin told
    /\ pc = "alloc" => \A c \in Range(queue) : c.ticker \notin told

(* The scanner reads answers before it builds a digest.                     *)
LEMMA AnswersBefore ==
    ASSUME SmsUser, TypeInv, Answering
    PROVE  /\ pc = "inbound" /\ pc' = "inbound" /\ Picks = {} /\ Picks' = {}
           /\ DOMAIN alerted' = DOMAIN alerted
           /\ \E id \in DOMAIN sugs :
                 \/ UNCHANGED <<alerted, told>>
                 \/ alerted' = Suppressed(sugs[id].ticker) /\ told' = told
                 \/ /\ alerted' = Suppressed(sugs[id].ticker)
                    /\ told' = told \cup {sugs[id].ticker}
<1>1. PICK g \in Goroutines, sid \in DOMAIN sugs, l \in {"took", "pass"} : Feedback(g, sid, l)
  BY DEF Answering
<1>2. g = Scanner
  BY DEF SmsUser, Goroutines
<1>3. pc = "inbound" /\ pc' = "inbound" /\ batch' = batch
  BY <1>1, <1>2 DEF Feedback, Answers, cycle
<1>4. batch = <<>>
  BY <1>3 DEF TypeInv, IdInv, BatchShape, Building, Marking
<1>5. Picks = {} /\ Picks' = {}
  BY <1>3, <1>4 DEF Picks, Range
<1>6. /\ sid \in DOMAIN sugs
      /\ \/ alerted' = alerted /\ told' = told
         \/ /\ alerted' = Suppressed(sugs[sid].ticker)
            /\ told' = told \/ told' = told \cup {sugs[sid].ticker}
  BY <1>1 DEF Feedback, observer
<1>7. DOMAIN alerted' = DOMAIN alerted
  BY <1>6 DEF Suppressed
<1> QED BY <1>3, <1>5, <1>6, <1>7

(* The mark of a suppressed market is not replaced, and a suppressed market *)
(* is chosen for no digest.                                                 *)
LEMMA PassNext ==
    StoreReliable /\ SmsUser /\ TypeInv /\ PassInv /\ [Next]_vars => PassInv'
<1> SUFFICES ASSUME StoreReliable, SmsUser, TypeInv, PassInv, [Next]_vars PROVE PassInv'
  OBVIOUS
<1>1. ~expired' /\ ~Crash /\ \A g : ~FailsAfter(g) /\ ~FailsWithout(g)
  BY ReliableNext DEF PassInv
<1>2. told' \subseteq told \/ (pc = "inbound" /\ pc' = "inbound" /\ Picks = {} /\ Picks' = {})
  BY AnswersBefore, LapsedProperties, Frames DEF Frame, Lapsing
<1>3. DOMAIN alerted \subseteq DOMAIN alerted'
  BY AnswersBefore, MarkProperties, LapsedProperties, Frames DEF Frame, Lapsing
<1>4. ASSUME NEW t \in told' PROVE t \in DOMAIN alerted' /\ alerted'[t].passed = "yes"
  <2>1. CASE UNCHANGED <<alerted, told>>
    BY <1>4, <2>1 DEF PassInv, Passed
  <2>2. CASE Answering
    <3>1. PICK id \in DOMAIN sugs :
             \/ UNCHANGED <<alerted, told>>
             \/ alerted' = Suppressed(sugs[id].ticker) /\ told' = told
             \/ /\ alerted' = Suppressed(sugs[id].ticker)
                /\ told' = told \cup {sugs[id].ticker}
      BY <2>2, AnswersBefore
    <3>2. sugs[id].ticker \in DOMAIN alerted
      BY <2>2, AnswersBefore DEF PassInv
    <3>3. t \in DOMAIN alerted /\ (alerted[t].passed = "yes" \/ t = sugs[id].ticker)
      BY <1>4, <3>1, <3>2 DEF PassInv, Passed
    <3> QED BY <1>4, <2>1, <3>1, <3>3, SuppressedProperties
  <2>3. CASE Mark
    <3>1. Head(batch).ticker \notin told
      BY <2>3, MarkProperties DEF PassInv
    <3>2. told' \subseteq told
      BY <1>2, <2>3 DEF Mark
    <3>3. t \in DOMAIN alerted /\ alerted[t].passed = "yes"
      BY <1>4, <3>2 DEF PassInv, Passed
    <3> QED BY <1>4, <2>3, <3>1, <3>2, <3>3, MarkProperties
  <2>4. CASE Lapsing
    <3>1. PICK u \in Tickers : PassEnds(u)
      BY <2>4 DEF Lapsing
    <3>2. t \in told /\ t # u
      BY <1>4, <3>1, LapsedProperties
    <3> QED BY <3>1, <3>2, LapsedProperties DEF PassInv, Passed
  <2> QED BY <2>1, <2>2, <2>3, <2>4, Frames DEF Frame
<1>5. ASSUME NEW id \in DOMAIN sugs'
      PROVE  \/ sugs'[id].ticker \in DOMAIN alerted'
             \/ \E p \in Picks' : p.id = id /\ p.ticker = sugs'[id].ticker
  <2>1. CASE id \notin DOMAIN sugs
    <3>1. Added /\ NewPick \in Picks'
      BY <1>1, <1>5, <2>1, SugsNext, Allocating
    <3>2. NewPick.id = nextId /\ NewPick.ticker = Head(queue).ticker
      BY DEF NewPick
    <3> QED BY <1>5, <2>1, <3>1, <3>2 DEF Added
  <2>2. CASE id \in DOMAIN sugs
    <3>1. sugs'[id].ticker = sugs[id].ticker
      BY <1>5, <2>2, SugsNext DEF SugsStay
    <3>2. CASE sugs[id].ticker \in DOMAIN alerted
      BY <1>3, <3>1, <3>2
    <3>3. CASE \E p \in Picks : p.id = id /\ p.ticker = sugs[id].ticker
      <4>1. PICK p \in Picks : p.id = id /\ p.ticker = sugs[id].ticker
        BY <3>3
      <4>2. ~Rollback
        BY <1>1, <1>5, <2>2, <4>1, SugsNext DEF Unsent, Building
      <4>3. p \in Picks' \/ (RecordSuggestion /\ p = Head(batch))
        BY <1>1, <4>1, <4>2, PicksNext, Allocating
      <4>4. RecordSuggestion => Head(batch).ticker \in DOMAIN alerted
        BY DEF RecordSuggestion, PassInv
      <4> QED BY <1>3, <3>1, <4>1, <4>3, <4>4
    <3> QED BY <2>2, <3>2, <3>3 DEF PassInv
  <2> QED BY <2>1, <2>2
<1>6. ASSUME pc' = "record" PROVE Head(batch').ticker \in DOMAIN alerted'
  <2>1. batch' = batch /\ (pc = "record" \/ Mark)
    BY <1>6, DigestSteps
  <2>2. Head(batch).ticker \in DOMAIN alerted'
    BY <1>1, <1>3, <2>1, MarkProperties DEF PassInv
  <2> QED BY <2>1, <2>2
<1>7. \A p \in Picks' : p.ticker \notin told'
  <2>1. CASE Allocate
    <3>1. Head(queue) \in Range(queue)
      BY <2>1, Allocating, RangeOfTail
    <3>2. pc = "alloc" /\ Picks' = Picks \cup {NewPick} /\ NewPick.ticker = Head(queue).ticker
      BY <1>1, <2>1, Allocating DEF NewPick
    <3> QED BY <1>2, <3>1, <3>2 DEF PassInv
  <2>2. CASE ~Allocate
    BY <1>2, <2>2, PicksNext DEF PassInv
  <2> QED BY <2>1, <2>2
<1>8. ASSUME pc' = "alloc", NEW c \in Range(queue') PROVE c.ticker \notin told'
  <2>1. told' \subseteq told
    BY <1>2, <1>8
  <2>2. CASE Allocate
    <3>1. pc = "alloc" /\ queue' = Tail(queue) /\ queue \in Seq(Candidate) /\ queue # <<>>
      BY <1>1, <1>8, <2>2, Allocating
    <3>2. c \in Range(queue)
      BY <1>8, <3>1, RangeOfTail
    <3> QED BY <2>1, <3>1, <3>2 DEF PassInv
  <2>3. CASE TakeSnapshot /\ queue' \in Digests
    <3>1. Eligible(c.ticker)
      BY <1>8, <2>3, MarketsSeen, DigestsAreSequences
    <3>2. c.ticker \notin told
      BY <3>1 DEF Eligible, SmsUser, PassInv, Passed
    <3> QED BY <2>1, <3>2
  <2>4. CASE pc = "alloc" /\ queue' = queue
    BY <1>8, <2>1, <2>4 DEF PassInv
  <2> QED BY <1>8, <2>2, <2>3, <2>4, DigestSteps
<1> HIDE DEF PassInv
<1>9. PassInv' <=>
        /\ ~expired'
        /\ \A t \in told' : t \in DOMAIN alerted' /\ alerted'[t].passed = "yes"
        /\ \A id \in DOMAIN sugs' :
              \/ sugs'[id].ticker \in DOMAIN alerted'
              \/ \E p \in Picks' : p.id = id /\ p.ticker = sugs'[id].ticker
        /\ pc' = "record" => Head(batch').ticker \in DOMAIN alerted'
        /\ \A p \in Picks' : p.ticker \notin told'
        /\ pc' = "alloc" => \A c \in Range(queue') : c.ticker \notin told'
  BY DEF PassInv, Passed
<1> QED BY <1>1, <1>4, <1>5, <1>6, <1>7, <1>8, <1>9

(* Once the user was told of the suppression, no alert of that market is    *)
(* texted until it ends: while the store answers, for a user of SMS without *)
(* a watchlist.                                                             *)
THEOREM PassHonouredCorrect ==
    ASSUME StoreReliable, SmsUser
    PROVE  Spec => PassHonoured
<1>1. Init => PassInv
  BY DEF Init, PassInv, Picks, Range
<1>2. TypeInv /\ PassInv /\ [Next]_vars => [\A x \in inbox' \ inbox : x.ticker \notin told]_vars
  BY DigestSteps DEF PassInv
<1> QED BY <1>1, <1>2, TypeInit, TypeNext, PassNext, PTL DEF Spec, PassHonoured

-----------------------------------------------------------------------------
(* A market alerts once until it is worth another alert. *)

\* A send may be refused, and nothing else goes wrong; no market is watched.
OnlyRefusals == Faults \subseteq {"refused"} /\ Watched = {}

\* A text of this market may follow x at the offer c.
MayFollow(x, c) == Worth(x.offer, c.offer) \/ c.ticker \in lapsed

\* Market t is marked as alerted at the offer o.
MarkedAt(t, o) == t \in DOMAIN alerted /\ alerted[t].offer = o

\* Market t is in the digest that was sent, and waits for its mark.
Awaits(t) == pc \in Marking /\ \E p \in Picks : p.ticker = t

\* The last text of a market is what it is marked at, or gets its mark in this
\* digest; a PASS that ended for the program ended for the user.
TextsMarked ==
    /\ \A x \in inbox : /\ x.serial <= serials
                        /\ LastText(x) => \/ MarkedAt(x.ticker, x.offer)
                                          \/ pc \in Marking /\ x \in Picks
    /\ \A t \in DOMAIN alerted :
          alerted[t].passed = "over" => t \in lapsed \/ Awaits(t)

\* A digest to be sent is newer than what was received and may follow it; one
\* that was sent is what was received last.
PicksNewer ==
    /\ \A p \in Picks : p.serial <= serials
    /\ pc \in Building => \A p \in Picks, x \in inbox :
          /\ x.serial < p.serial
          /\ x.ticker = p.ticker /\ LastText(x) => MayFollow(x, p)
    /\ pc \in Marking => \A p \in Picks, x \in inbox :
          x.ticker = p.ticker /\ LastText(x) => x = p

\* The pick that is being recorded has its mark.
HeadMarked ==
    pc = "record" =>
        /\ MarkedAt(Head(batch).ticker, Head(batch).offer)
        /\ alerted[Head(batch).ticker].passed = "over" => Head(batch).ticker \in lapsed

PicksDiffer ==
    /\ \A p, q \in Picks : p.ticker = q.ticker => p = q
    /\ pc = "alloc" =>
          /\ \A i, j \in DOMAIN queue : queue[i] = queue[j] => i = j
          /\ \A c, d \in Range(queue) : c.ticker = d.ticker => c = d
          /\ \A c \in Range(queue) :
                /\ \A p \in Picks : p.ticker # c.ticker
                /\ \A x \in inbox : x.ticker = c.ticker /\ LastText(x) => MayFollow(x, c)

OnceInv == ~expired /\ TextsMarked /\ PicksNewer /\ HeadMarked /\ PicksDiffer

(* What a step can be if only sends are refused.                            *)
LEMMA OnceSteps ==
    ASSUME OnlyRefusals, TypeInv, OnceInv, [Next]_vars
    PROVE  /\ ~expired' /\ ~Crash /\ \A g : ~FailsAfter(g) /\ ~FailsWithout(g)
           /\ \/ inbox' = inbox /\ lapsed \subseteq lapsed'
              \/ /\ Send /\ pc = "send" /\ pc' = "mark" /\ Picks' = Picks
                 /\ inbox' = inbox \cup Picks /\ lapsed' = lapsed \ {p.ticker : p \in Picks}
           /\ serials' = serials \/ (Allocate /\ serials' = serials + 1)
           /\ pc = "alloc" => seen' = seen
<1>1. StoreReliable
  BY DEF OnlyRefusals, StoreReliable
<1>2. ~expired' /\ ~Crash /\ \A g : ~FailsAfter(g) /\ ~FailsWithout(g)
  BY <1>1, ReliableNext DEF OnceInv
<1>3. CASE Send
  <2>1. \/ inbox' = inbox /\ lapsed' = lapsed
        \/ /\ pc' = "mark" /\ inbox' = inbox \cup Picks
           /\ lapsed' = lapsed \ {p.ticker : p \in Picks}
    BY <1>3 DEF Send, SendSucceeds, Arrives, SendFails, Goto, Fault, Picks, OnlyRefusals
  <2> QED BY <1>2, <1>3, <2>1, DigestSteps, Frames DEF Frame, Allocate, Rollback, bounds, FetchEvents
<1>4. CASE ~Send
  <2>1. inbox' = inbox /\ lapsed \subseteq lapsed'
    BY <1>4, LapsedProperties, Frames DEF Frame, Lapsing
  <2>2. serials' = serials \/ (Allocate /\ serials' = serials + 1)
    BY Frames DEF Frame, Allocate, Rollback, bounds
  <2>3. pc = "alloc" => seen' = seen
    BY <1>2, Frames DEF Frame, FetchEvents
  <2> QED BY <1>2, <2>1, <2>2, <2>3
<1> QED BY <1>3, <1>4

(* A mark keeps its offer until the market's next mark, and a PASS ends for *)
(* the program when it ends for the user.                                   *)
LEMMA MarksNext ==
    ASSUME TypeInv, [Next]_vars, NEW t \in DOMAIN alerted, ~(Mark /\ t = Head(batch).ticker)
    PROVE  /\ t \in DOMAIN alerted' /\ alerted'[t].offer = alerted[t].offer
           /\ alerted'[t].passed = "over" => \/ alerted[t].passed = "over"
                                             \/ t \in lapsed'
<1>1. CASE UNCHANGED alerted
  BY <1>1
<1>2. CASE Answering
  <2>1. PICK u : alerted' = alerted \/ alerted' = Suppressed(u)
    BY <1>2 DEF Answering, Feedback
  <2> QED BY <2>1, SuppressedProperties
<1>3. CASE Mark
  BY <1>3, MarkProperties
<1>4. CASE Lapsing
  BY <1>4, LapsedProperties DEF Lapsing
<1> QED BY <1>1, <1>2, <1>3, <1>4, Frames DEF Frame

(* A text that is the last of its market was so before.                     *)
LEMMA LastBefore ==
    ASSUME TypeInv, [Next]_vars, NEW x \in inbox, (LastText(x))'
    PROVE  LastText(x)
BY DigestSteps DEF LastText

(* While a digest waits for its marks, no pick leaves it but the recorded.  *)
LEMMA MarkingNext ==
    ASSUME OnlyRefusals, TypeInv, OnceInv, [Next]_vars, pc \in Marking, NEW p \in Picks,
           ~(RecordSuggestion /\ p = Head(batch))
    PROVE  pc' \in Marking /\ p \in Picks'
<1>1. ~Rollback /\ ~Allocate
  BY DEF Rollback, Allocate, Marking
<1>2. p \in Picks'
  BY <1>1, OnceSteps, PicksNext
<1>3. pc' \in Building \cup Marking
  BY <1>2, TypeNext DEF TypeInv, IdInv, BatchShape, Picks, Range
<1>4. pc' \notin Building
  BY PcNext DEF Building, Marking, TakeSnapshot
<1> QED BY <1>2, <1>3, <1>4

(* The last text of every market stays marked, or in the digest that is     *)
(* being marked.                                                            *)
LEMMA TextsMarkedNext ==
    ASSUME OnlyRefusals, TypeInv, OnceInv, [Next]_vars
    PROVE  TextsMarked'
<1>1. ASSUME NEW x \in inbox' PROVE x.serial <= serials'
  <2>1. x \in Text /\ x.serial <= serials /\ x.serial \in Nat
    <3>1. x \in Text /\ x.serial <= serials
      BY <1>1, OnceSteps, PicksNext DEF OnceInv, TextsMarked, PicksNewer, TypeInv, DigestType
    <3> QED BY <3>1 DEF Text, Serials
  <2>2. serials \in Nat
    BY PipelineAssumption DEF TypeInv, CountType
  <2> QED BY <2>1, <2>2, OnceSteps
<1>2. ASSUME NEW x \in inbox', (LastText(x))'
      PROVE  \/ x.ticker \in DOMAIN alerted' /\ alerted'[x.ticker].offer = x.offer
             \/ pc' \in Marking /\ x \in Picks'
  <2>1. CASE x \notin inbox
    <3>1. x \in Picks' /\ pc' = "mark"
      BY <1>2, <2>1, OnceSteps
    <3> QED BY <3>1 DEF Marking
  <2>2. CASE x \in inbox /\ MarkedAt(x.ticker, x.offer)
    <3>1. CASE ~(Mark /\ x.ticker = Head(batch).ticker)
      BY <2>2, <3>1, MarksNext DEF MarkedAt
    <3>2. CASE Mark /\ x.ticker = Head(batch).ticker
      <4>1. x = Head(batch)
        BY <1>2, <2>2, <3>2, LastBefore, MarkProperties DEF Mark, Marking, OnceInv, PicksNewer
      <4> QED BY <3>2, <4>1, OnceSteps, MarkProperties
    <3> QED BY <3>1, <3>2
  <2>3. CASE x \in inbox /\ ~MarkedAt(x.ticker, x.offer)
    <3>1. pc \in Marking /\ x \in Picks
      BY <1>2, <2>3, LastBefore DEF OnceInv, TextsMarked
    <3>2. ~(RecordSuggestion /\ x = Head(batch))
      BY <2>3 DEF RecordSuggestion, OnceInv, HeadMarked
    <3> QED BY <3>1, <3>2, MarkingNext
  <2> QED BY <2>1, <2>2, <2>3
<1>3. ASSUME NEW t \in DOMAIN alerted', alerted'[t].passed = "over"
      PROVE  t \in lapsed' \/ (pc' \in Marking /\ \E p \in Picks' : p.ticker = t)
  <2>1. ~(Mark /\ t = Head(batch).ticker)
    BY <1>3, OnceSteps, MarkProperties
  <2>2. t \in DOMAIN alerted
    <3>1. CASE Answering
      BY <1>3, <3>1 DEF Answering, Feedback, Suppressed
    <3>2. CASE Mark
      BY <1>3, <2>1, <3>2, MarkProperties
    <3>3. CASE Lapsing
      BY <1>3, <3>3, LapsedProperties DEF Lapsing
    <3> QED BY <1>3, <3>1, <3>2, <3>3, Frames DEF Frame
  <2>3. CASE alerted[t].passed # "over"
    BY <1>3, <2>1, <2>2, <2>3, MarksNext
  <2>4. CASE t \in lapsed
    <3>1. CASE lapsed \subseteq lapsed'
      BY <2>4, <3>1
    <3>2. CASE pc' = "mark" /\ Picks' = Picks /\ lapsed' = lapsed \ {p.ticker : p \in Picks}
      BY <2>4, <3>2 DEF Marking
    <3> QED BY <3>1, <3>2, OnceSteps
  <2>5. CASE alerted[t].passed = "over" /\ t \notin lapsed
    <3>1. PICK p \in Picks : pc \in Marking /\ p.ticker = t
      BY <2>2, <2>5 DEF OnceInv, TextsMarked, Awaits
    <3>2. ~(RecordSuggestion /\ p = Head(batch))
      BY <2>5, <3>1 DEF RecordSuggestion, OnceInv, HeadMarked
    <3> QED BY <3>1, <3>2, MarkingNext
  <2> QED BY <2>3, <2>4, <2>5
<1> HIDE DEF TextsMarked
<1>4. TextsMarked' <=>
        /\ \A x \in inbox' :
              /\ x.serial <= serials'
              /\ (LastText(x))' => \/ x.ticker \in DOMAIN alerted' /\ alerted'[x.ticker].offer = x.offer
                                   \/ pc' \in Marking /\ x \in Picks'
        /\ \A t \in DOMAIN alerted' : alerted'[t].passed = "over" =>
              t \in lapsed' \/ (pc' \in Marking /\ \E p \in Picks' : p.ticker = t)
  BY DEF TextsMarked, MarkedAt, Awaits
<1> QED BY <1>1, <1>2, <1>3, <1>4

(* A digest is newer than what was received, and then it is the last.       *)
LEMMA PicksNewerNext ==
    ASSUME OnlyRefusals, TypeInv, OnceInv, [Next]_vars
    PROVE  PicksNewer'
<1>1. serials \in Nat /\ inbox \subseteq Text /\ Picks \subseteq Text
  BY PicksNext, PipelineAssumption DEF TypeInv, CountType, DigestType
<1>2. \A x \in Text : x.serial \in Nat
  BY DEF Text, Serials
<1>3. /\ NewPick.serial = serials' /\ NewPick.ticker = Head(queue).ticker
      /\ NewPick.offer = Head(queue).offer
  BY DEF NewPick
<1>4. \A p \in Picks' : p.serial <= serials'
  <2>1. CASE Allocate
    BY <1>1, <1>2, <1>3, <2>1, OnceSteps, Allocating DEF OnceInv, PicksNewer
  <2>2. CASE ~Allocate
    BY <2>2, OnceSteps, PicksNext DEF OnceInv, PicksNewer
  <2> QED BY <2>1, <2>2
<1>5. ASSUME pc' \in Building, NEW p \in Picks', NEW x \in inbox'
      PROVE  /\ x.serial < p.serial
             /\ x.ticker = p.ticker /\ (LastText(x))'
                  => Worth(x.offer, p.offer) \/ p.ticker \in lapsed'
  <2>1. x \in inbox /\ lapsed \subseteq lapsed'
    BY <1>5, OnceSteps DEF Building
  <2>2. (LastText(x))' => LastText(x)
    BY <2>1, LastBefore
  <2>3. CASE Allocate /\ p \notin Picks
    <3>1. p = NewPick /\ serials' = serials + 1 /\ pc = "alloc" /\ Head(queue) \in Range(queue)
      BY <1>5, <2>3, OnceSteps, Allocating, RangeOfTail
    <3>2. /\ x.serial <= serials
          /\ x.ticker = Head(queue).ticker /\ LastText(x) => MayFollow(x, Head(queue))
      BY <2>1, <3>1 DEF OnceInv, TextsMarked, PicksDiffer
    <3>3. x.serial < p.serial
      BY <1>1, <1>2, <1>3, <2>1, <3>1, <3>2
    <3> QED BY <1>3, <2>1, <2>2, <3>1, <3>2, <3>3 DEF MayFollow
  <2>4. CASE p \in Picks
    <3>1. pc \in Building
      BY <1>5, <2>4, PcNext DEF TakeSnapshot, Building, Marking
    <3>2. x.serial < p.serial /\ (x.ticker = p.ticker /\ LastText(x) => MayFollow(x, p))
      BY <2>1, <2>4, <3>1 DEF OnceInv, PicksNewer
    <3> QED BY <2>1, <2>2, <3>2 DEF MayFollow
  <2> QED BY <1>5, <2>3, <2>4, PicksNext
<1>6. ASSUME pc' \in Marking, NEW p \in Picks', NEW x \in inbox', x.ticker = p.ticker,
             (LastText(x))'
      PROVE  x = p
  <2>1. p \in Picks
    BY <1>6, PicksNext, OnceSteps, Allocating DEF Marking
  <2>2. CASE inbox' # inbox
    <3>1. pc = "send" /\ inbox' = inbox \cup Picks
      BY <2>2, OnceSteps
    <3>2. p.serial <= x.serial
      BY <1>6, <2>1, <3>1 DEF LastText
    <3>3. CASE x \in inbox
      <4>1. x.serial < p.serial
        BY <2>1, <3>1, <3>3 DEF OnceInv, PicksNewer, Building
      <4> QED BY <1>1, <1>2, <2>1, <3>2, <3>3, <4>1
    <3>4. CASE x \in Picks
      BY <1>6, <2>1, <3>4 DEF OnceInv, PicksDiffer
    <3> QED BY <1>6, <3>1, <3>3, <3>4
  <2>3. CASE inbox' = inbox
    <3>1. CASE pc \in Marking
      BY <1>6, <2>1, <2>3, <3>1, LastBefore DEF OnceInv, PicksNewer
    <3>2. CASE pc \notin Marking
      <4>1. Send /\ pc = "send" /\ pc' = "mark" /\ Picks' = Picks
        BY <1>6, <3>2, PcNext, DigestSteps
      <4>2. inbox' = inbox \cup Picks
        BY <4>1 DEF Send, SendSucceeds, Arrives, Goto, Picks
      <4>3. p \in inbox
        BY <2>1, <2>3, <4>2
      <4>4. p.serial < p.serial
        BY <2>1, <4>1, <4>3 DEF OnceInv, PicksNewer, Building
      <4> QED BY <1>1, <1>2, <2>1, <4>4
    <3> QED BY <3>1, <3>2
  <2> QED BY <2>2, <2>3
<1> HIDE DEF PicksNewer
<1>7. PicksNewer' <=>
        /\ \A p \in Picks' : p.serial <= serials'
        /\ pc' \in Building => \A p \in Picks', x \in inbox' :
              /\ x.serial < p.serial
              /\ x.ticker = p.ticker /\ (LastText(x))'
                   => Worth(x.offer, p.offer) \/ p.ticker \in lapsed'
        /\ pc' \in Marking => \A p \in Picks', x \in inbox' :
              x.ticker = p.ticker /\ (LastText(x))' => x = p
  BY DEF PicksNewer, MayFollow
<1> QED BY <1>4, <1>5, <1>6, <1>7

(* A pick is recorded after it was marked, at its offer.                    *)
LEMMA HeadMarkedNext ==
    ASSUME OnlyRefusals, TypeInv, OnceInv, [Next]_vars
    PROVE  HeadMarked'
<1> DEFINE p == Head(batch)
<1> SUFFICES ASSUME pc' = "record"
             PROVE  /\ p.ticker \in DOMAIN alerted' /\ alerted'[p.ticker].offer = p.offer
                    /\ alerted'[p.ticker].passed = "over" => p.ticker \in lapsed'
  <2>1. pc' = "record" => batch' = batch
    BY DigestSteps
  <2> QED BY <2>1 DEF HeadMarked, MarkedAt
<1>1. CASE Mark
  BY <1>1, OnceSteps, MarkProperties
<1>2. CASE pc = "record" /\ ~Mark
  <2>1. /\ p.ticker \in DOMAIN alerted /\ alerted[p.ticker].offer = p.offer
        /\ alerted[p.ticker].passed = "over" => p.ticker \in lapsed
    BY <1>2 DEF OnceInv, HeadMarked, MarkedAt
  <2>2. lapsed \subseteq lapsed'
    BY <1>2, OnceSteps
  <2> QED BY <1>2, <2>1, <2>2, MarksNext
<1> QED BY <1>1, <1>2, DigestSteps

(* A digest is of different markets, each worth more than when last sent.   *)
LEMMA PicksDifferNext ==
    ASSUME OnlyRefusals, TypeInv, OnceInv, [Next]_vars
    PROVE  PicksDiffer'
<1>1. ASSUME Allocate
      PROVE  /\ pc = "alloc" /\ Picks' = Picks \cup {NewPick}
             /\ NewPick.ticker = Head(queue).ticker
             /\ queue \in Seq(Candidate) /\ queue # <<>> /\ queue' = Tail(queue)
             /\ Range(queue) = {Head(queue)} \cup Range(queue')
  BY <1>1, OnceSteps, Allocating, RangeOfTail DEF NewPick
<1>2. ASSUME NEW p \in Picks', NEW q \in Picks', p.ticker = q.ticker PROVE p = q
  <2>1. CASE Allocate
    <3>1. \A r \in Picks : r.ticker # NewPick.ticker
      BY <1>1, <2>1 DEF OnceInv, PicksDiffer
    <3> QED BY <1>1, <1>2, <2>1, <3>1 DEF OnceInv, PicksDiffer
  <2>2. CASE ~Allocate
    BY <1>2, <2>2, PicksNext DEF OnceInv, PicksDiffer
  <2> QED BY <2>1, <2>2
<1>3. ASSUME pc' = "alloc"
      PROVE  /\ \A i, j \in DOMAIN queue' : queue'[i] = queue'[j] => i = j
             /\ \A c, d \in Range(queue') : c.ticker = d.ticker => c = d
  <2>1. CASE Allocate
    <3>1. /\ \A i, j \in DOMAIN queue : queue[i] = queue[j] => i = j
          /\ \A c, d \in Range(queue) : c.ticker = d.ticker => c = d
      BY <1>1, <2>1 DEF OnceInv, PicksDiffer
    <3> QED BY <1>1, <2>1, <3>1, RangeOfTail
  <2>2. CASE TakeSnapshot /\ queue' \in Digests
    BY <2>2, MarketsSeen, DigestsAreSequences
  <2>3. CASE pc = "alloc" /\ queue' = queue
    BY <2>3 DEF OnceInv, PicksDiffer
  <2> QED BY <1>3, <2>1, <2>2, <2>3, DigestSteps
<1>4. ASSUME pc' = "alloc", NEW c \in Range(queue')
      PROVE  /\ \A p \in Picks' : p.ticker # c.ticker
             /\ \A x \in inbox' : x.ticker = c.ticker /\ (LastText(x))'
                  => Worth(x.offer, c.offer) \/ c.ticker \in lapsed'
  <2>1. inbox' = inbox /\ lapsed \subseteq lapsed'
    BY <1>4, OnceSteps
  <2>2. \A x \in inbox : (LastText(x))' => LastText(x)
    BY LastBefore
  <2>3. CASE pc = "alloc" /\ c \in Range(queue)
    <3>1. \A x \in inbox : x.ticker = c.ticker /\ LastText(x) => MayFollow(x, c)
      BY <2>3 DEF OnceInv, PicksDiffer
    <3>2. \A x \in inbox' : x.ticker = c.ticker /\ (LastText(x))'
             => Worth(x.offer, c.offer) \/ c.ticker \in lapsed'
      BY <2>1, <2>2, <3>1 DEF MayFollow
    <3>3. \A p \in Picks : p.ticker # c.ticker
      BY <2>3 DEF OnceInv, PicksDiffer
    <3>4. CASE Allocate
      <4>1. c # Head(queue)
        <5>1. \A i, j \in DOMAIN queue : queue[i] = queue[j] => i = j
          BY <1>1, <3>4 DEF OnceInv, PicksDiffer
        <5>2. Head(queue) \notin Range(Tail(queue))
          BY <1>1, <3>4, <5>1, RangeOfTail
        <5> QED BY <1>1, <1>4, <3>4, <5>2
      <4>2. c.ticker # Head(queue).ticker
        BY <1>1, <2>3, <3>4, <4>1 DEF OnceInv, PicksDiffer
      <4> QED BY <1>1, <3>2, <3>3, <3>4, <4>2
    <3>5. CASE ~Allocate
      BY <3>2, <3>3, <3>5, PicksNext
    <3> QED BY <3>4, <3>5
  <2>4. CASE TakeSnapshot /\ queue' \in Digests /\ Picks' = {}
    <3>1. Eligible(c.ticker) /\ c.offer = Offer(c.ticker) /\ pc = "feeding"
      BY <1>4, <2>4, MarketsSeen, DigestsAreSequences DEF TakeSnapshot
    <3>2. ASSUME NEW x \in inbox, x.ticker = c.ticker, LastText(x)
          PROVE  MayFollow(x, c)
      <4>1. MarkedAt(x.ticker, x.offer)
        BY <3>1, <3>2 DEF OnceInv, TextsMarked, Marking
      <4>2. CASE alerted[c.ticker].passed = "over"
        BY <3>1, <3>2, <4>1, <4>2 DEF OnceInv, TextsMarked, MarkedAt, Awaits, Marking, MayFollow
      <4>3. CASE Worth(alerted[c.ticker].offer, Offer(c.ticker))
        BY <3>1, <3>2, <4>1, <4>3 DEF MarkedAt, MayFollow
      <4> QED BY <3>1, <3>2, <4>1, <4>2, <4>3 DEF Eligible, OnlyRefusals, MarkedAt
    <3> QED BY <2>1, <2>2, <2>4, <3>2 DEF MayFollow
  <2>5. pc = "alloc" /\ queue' = queue => c \in Range(queue)
    BY <1>4
  <2>6. Allocate => c \in Range(queue)
    BY <1>1, <1>4
  <2>7. Allocate => pc = "alloc"
    BY <1>1
  <2> QED BY <1>4, <2>3, <2>4, <2>5, <2>6, <2>7, DigestSteps
<1> HIDE DEF PicksDiffer
<1>5. PicksDiffer' <=>
        /\ \A p, q \in Picks' : p.ticker = q.ticker => p = q
        /\ pc' = "alloc" =>
              /\ \A i, j \in DOMAIN queue' : queue'[i] = queue'[j] => i = j
              /\ \A c, d \in Range(queue') : c.ticker = d.ticker => c = d
              /\ \A c \in Range(queue') :
                    /\ \A p \in Picks' : p.ticker # c.ticker
                    /\ \A x \in inbox' : x.ticker = c.ticker /\ (LastText(x))'
                         => Worth(x.offer, c.offer) \/ c.ticker \in lapsed'
  BY DEF PicksDiffer, MayFollow
<1> QED BY <1>2, <1>3, <1>4, <1>5

LEMMA OnceNext == OnlyRefusals /\ TypeInv /\ OnceInv /\ [Next]_vars => OnceInv'
BY OnceSteps, TextsMarkedNext, PicksNewerNext, HeadMarkedNext, PicksDifferNext DEF OnceInv

(* A market is sent again only if, since its last text, it became cheaper by *)
(* the drop, came near its close or doubled its volume, or its PASS ended:  *)
(* as long as only sends are refused.  The mark that suppresses a market is *)
(* written after the text is sent, so any failure between the two repeats   *)
(* the alert.                                                               *)
THEOREM AlertsOnceCorrect ==
    ASSUME OnlyRefusals
    PROVE  Spec => AlertsOnce
<1>1. Init => OnceInv
  BY DEF Init, OnceInv, TextsMarked, PicksNewer, HeadMarked, PicksDiffer, Picks, Range,
         Building, Marking
<1>2. ASSUME TypeInv, OnceInv, [Next]_vars, NEW y \in inbox' \ inbox, NEW x \in inbox,
             x.ticker = y.ticker, LastText(x)
      PROVE  Worth(x.offer, y.offer) \/ y.ticker \in lapsed
  <2>1. y \in Picks /\ pc = "send"
    BY <1>2, OnceSteps
  <2>2. MayFollow(x, y)
    BY <1>2, <2>1 DEF OnceInv, PicksNewer, Building
  <2> QED BY <2>2 DEF MayFollow
<1>3. TypeInv /\ OnceInv /\ [Next]_vars
        => [\A y \in inbox' \ inbox, x \in inbox :
              x.ticker = y.ticker /\ LastText(x)
                => Worth(x.offer, y.offer) \/ y.ticker \in lapsed]_vars
  BY <1>2
<1> QED BY <1>1, <1>3, TypeInit, TypeNext, OnceNext, PTL DEF Spec, AlertsOnce
=============================================================================
