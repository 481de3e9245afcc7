--------------------------- MODULE AlertPipeline ---------------------------
(***************************************************************************)
(* One user's alerts, from a scan cycle to the label that trains a model.  *)
(*                                                                         *)
(* The scanner goroutine: commands received by SMS, position detection, a  *)
(* snapshot of the user's state, the digest (an id for each pick, one      *)
(* message, a mark for each pick).  Goroutines of the HTTP server: feedback*)
(* by e-mail link.  They share the user's row, which Store.Update changes  *)
(* indivisibly (UserStore), and the append-only suggestion_records.        *)
(*                                                                         *)
(* Data abstraction: of a market there is what decides whether it is worth *)
(* another alert, its ask, its volume and whether it closes within 6 hours; *)
(* Tickers are the markets that match the user's filters at any of these.  *)
(* A suggestion carries a serial number, unique for ever, beside the id    *)
(* the program gives it.  Pruning, beyond 200 suggestions, is out of the   *)
(* bounds.                                                                 *)
(***************************************************************************)
EXTENDS Naturals, Sequences, FiniteSets, Functions, FiniteSetsExt, SequencesExt

CONSTANTS
    Tickers,        \* markets that match the user's filters
    Watched,        \* those on the user's watchlist
    Cap,            \* MAX_ALERTS_PER_MESSAGE
    Scanner,        \* the scanner goroutine
    Web,            \* goroutines serving feedback links; {} in SMS mode
    SmsReplies,     \* whether users answer by SMS
    Faults,         \* what may go wrong, of FaultKinds
    NoJob,          \* a goroutine that is recording no feedback
    Quotes,         \* what Kalshi may say of a market: [ask, volume]
    Opening,        \* what it may say when the service starts
    RealertDrop,    \* REALERT_DROP_CENTS
    PassEnding,     \* PASS_SUPPRESS_DAYS > 0: a PASS ends some day
    MaxSerial,      \* bound: suggestions ever made
    MaxFaults,      \* bound: faults, of all kinds together
    MaxChanges      \* bound: trades, purchases, ends of PASSes, PAUSE and quiet hours

\* A statement or request fails; a send is refused, or delivered although the
\* client reports an error; a cycle reaches SCAN_CYCLE_TIMEOUT; the process dies.
FaultKinds == {"statement", "refused", "ambiguous", "expiry", "crash"}

ASSUME PipelineAssumption ==
    /\ IsFiniteSet(Tickers) /\ Watched \subseteq Tickers /\ Cap \in Nat \ {0}
    /\ Scanner \notin Web /\ SmsReplies \in BOOLEAN
    /\ Faults \subseteq FaultKinds
    /\ Quotes \subseteq [ask : Nat, volume : Nat] /\ Opening \subseteq Quotes
    /\ RealertDrop \in Nat /\ PassEnding \in BOOLEAN
    /\ {MaxSerial, MaxFaults, MaxChanges} \subseteq Nat

VARIABLES
    \* in the database
    nextId,     \* users.next_suggestion_id
    sugs,       \* suggestions: id -> [serial, ticker, label]
    alerted,    \* alerted_markets: ticker -> [offer, serial, passed]
    known,      \* known_positions
    fed,        \* fed[n]: the votes fed to the counters for suggestion n
    records,    \* suggestion_records
    paused,     \* users.paused
    \* outside
    quote,      \* quote[t]: what Kalshi says of market t
    near,       \* the markets that close within 6 hours
    portfolio, quiet,
    inbox,      \* the alerts the user received: [serial, id, ticker, offer]
    \* in the process
    pc,         \* where the scanner is in a cycle
    expired,    \* whether the cycle's context has expired
    seen,       \* the market data of the events cache, or <<>>
    accepted,   \* detectPositions' newlyAccepted
    queue,      \* picks still to be given an id: [ticker, offer]
    batch,      \* picks given an id, in order
    job,        \* job[g]: feedback goroutine g has saved and is recording
    \* bounds, and what an observer knows
    serials, faults, changes,
    told,       \* tickers whose PASS was answered "Passing on #..." and lasts
    lapsed      \* tickers whose PASS has ended since their last text

db == <<nextId, sugs, alerted, known, fed, records, paused>>
world == <<quote, near, portfolio, quiet, inbox>>
cycle == <<pc, expired, seen, accepted, queue, batch>>
bounds == <<serials, changes>>
observer == <<told, lapsed>>
vars == <<db, world, cycle, job, bounds, faults, observer>>

Serials == 1 .. MaxSerial
Labels == {"pending", "took", "pass", "position"}
Accepts(label) == label \in {"took", "position"}
Goroutines == {Scanner} \cup Web

Init ==
    /\ nextId = 1 /\ sugs = <<>> /\ alerted = <<>> /\ known = {}
    /\ fed = [n \in Serials |-> <<>>] /\ records = {} /\ paused = FALSE
    /\ quote \in [Tickers -> Opening] /\ near = {}
    /\ portfolio = {} /\ quiet = FALSE /\ inbox = {}
    /\ pc = "idle" /\ expired = FALSE /\ seen = <<>>
    /\ accepted = {} /\ queue = <<>> /\ batch = <<>>
    /\ job = [g \in Goroutines |-> NoJob]
    /\ serials = 0 /\ faults = 0 /\ changes = 0
    /\ told = {} /\ lapsed = {}

-----------------------------------------------------------------------------
(* How a statement of goroutine g may end.  One under an expired context    *)
(* has no effect; one that fails otherwise may have taken effect.           *)

Dead(g) == g = Scanner /\ expired
Succeeds(g) == ~Dead(g) /\ UNCHANGED faults
Fault(kind) == kind \in Faults /\ faults < MaxFaults /\ faults' = faults + 1
Breaks == Fault("statement")
FailsWithout(g) == (Dead(g) /\ UNCHANGED faults) \/ Breaks
FailsAfter(g) == ~Dead(g) /\ Breaks

-----------------------------------------------------------------------------
(* The world. *)

\* The market is traded, or its close comes within 6 hours.
Trade(t) ==
    /\ changes < MaxChanges /\ changes' = changes + 1
    /\ \/ \E q \in Quotes \ {quote[t]} :
             quote' = [quote EXCEPT ![t] = q] /\ UNCHANGED near
       \/ t \notin near /\ near' = near \cup {t} /\ UNCHANGED quote
    /\ UNCHANGED <<db, portfolio, quiet, inbox, cycle, job, serials, faults,
                   observer>>

Buy(t) ==
    /\ t \notin portfolio
    /\ changes < MaxChanges /\ changes' = changes + 1
    /\ portfolio' = portfolio \cup {t}
    /\ UNCHANGED <<db, quote, near, quiet, inbox, cycle, job, serials, faults, observer>>

\* Quiet hours begin or end, by the clock or by a toggle link.
ToggleQuiet ==
    /\ changes < MaxChanges /\ changes' = changes + 1
    /\ quiet' = ~quiet
    /\ UNCHANGED <<db, quote, near, portfolio, inbox, cycle, job, serials, faults,
                   observer>>

\* SuppressedUntil of a PASS passes, for the program and for the user.
Passed(t) == t \in DOMAIN alerted /\ alerted[t].passed = "yes"
PassEnds(t) ==
    /\ PassEnding
    /\ Passed(t) \/ t \in told
    /\ changes < MaxChanges /\ changes' = changes + 1
    /\ alerted' = IF Passed(t) THEN [alerted EXCEPT ![t].passed = "over"] ELSE alerted
    /\ told' = told \ {t} /\ lapsed' = lapsed \cup {t}
    /\ UNCHANGED <<nextId, sugs, known, fed, records, paused, world, cycle, job, serials,
                   faults>>

\* The cycle's deadline passes.
Expire ==
    /\ pc # "idle" /\ ~expired
    /\ Fault("expiry")
    /\ expired' = TRUE
    /\ UNCHANGED <<db, world, pc, seen, accepted, queue, batch, job, bounds, observer>>

\* The process dies and restarts.
Crash ==
    /\ Fault("crash")
    /\ pc' = "idle" /\ expired' = FALSE /\ seen' = <<>>
    /\ accepted' = {} /\ queue' = <<>> /\ batch' = <<>>
    /\ job' = [g \in Goroutines |-> NoJob]
    /\ UNCHANGED <<db, world, bounds, observer>>

-----------------------------------------------------------------------------
(* Feedback: Handler.feedback, run by a web goroutine or by the scanner.    *)

\* The label of suggestion id, and the market's suppression, under label l.
Labelled(id, l) == [sugs EXCEPT ![id].label = l]
Suppressed(t) ==
    IF t \in DOMAIN alerted THEN [alerted EXCEPT ![t].passed = "yes"] ELSE alerted

Answers(g) ==
    /\ job[g] = NoJob
    /\ g = Scanner => SmsReplies /\ pc = "inbound"

\* By SMS the user may type any id; a link is signed for an id that was sent.
Answerable(g) == IF g = Scanner THEN Serials ELSE {x.id : x \in inbox}

\* Mutant: a suggestion that has a label may be labelled again.
FeedbackRepeated(g, id, l) ==
    /\ Answers(g)
    /\ id \in DOMAIN sugs
    /\ LET sug == sugs[id]
       IN /\ sugs' = Labelled(id, l)
          /\ alerted' = IF l = "pass" THEN Suppressed(sug.ticker) ELSE alerted
          /\ \/ /\ Succeeds(g)
                /\ job' = [job EXCEPT ![g] = [step |-> "feed", serial |-> sug.serial,
                                              id |-> id, label |-> l]]
                /\ told' = IF l = "pass" THEN told \cup {sug.ticker} ELSE told
                /\ UNCHANGED lapsed
             \/ FailsAfter(g) /\ UNCHANGED <<job, observer>>
    /\ UNCHANGED <<nextId, known, fed, records, paused, world, cycle, bounds>>

\* Mutant: a PASS labels the suggestion and forgets the market.
FeedbackNotSuppressing(g, id, l) ==
    /\ Answers(g)
    /\ id \in DOMAIN sugs /\ sugs[id].label = "pending"
    /\ LET sug == sugs[id]
       IN /\ sugs' = Labelled(id, l)
          /\ \/ /\ Succeeds(g)
                /\ job' = [job EXCEPT ![g] = [step |-> "feed", serial |-> sug.serial,
                                              id |-> id, label |-> l]]
                /\ told' = IF l = "pass" THEN told \cup {sug.ticker} ELSE told
                /\ UNCHANGED lapsed
             \/ FailsAfter(g) /\ UNCHANGED <<job, observer>>
    /\ UNCHANGED <<nextId, alerted, known, fed, records, paused, world, cycle, bounds>>

\* The user answers TOOK or PASS for an id.  The first answer labels the
\* suggestion; another id or a second answer changes nothing.
Feedback(g, id, l) ==
    /\ Answers(g)
    /\ id \in DOMAIN sugs /\ sugs[id].label = "pending"
    /\ LET sug == sugs[id]
       IN /\ sugs' = Labelled(id, l)
          /\ alerted' = IF l = "pass" THEN Suppressed(sug.ticker) ELSE alerted
          /\ \/ /\ Succeeds(g)
                /\ job' = [job EXCEPT ![g] = [step |-> "feed", serial |-> sug.serial,
                                              id |-> id, label |-> l]]
                /\ told' = IF l = "pass" THEN told \cup {sug.ticker} ELSE told
                /\ UNCHANGED lapsed
             \/ FailsAfter(g) /\ UNCHANGED <<job, observer>>
    /\ UNCHANGED <<nextId, known, fed, records, paused, world, cycle, bounds>>

\* Feed: one more accept or reject for the suggestion's features.  An error is
\* logged and the record is appended all the same.
Feed(g) ==
    /\ job[g] # NoJob /\ job[g].step = "feed"
    /\ \/ /\ Succeeds(g) \/ FailsAfter(g)
          /\ fed' = [fed EXCEPT ![job[g].serial] = Append(@, Accepts(job[g].label))]
       \/ FailsWithout(g) /\ UNCHANGED fed
    /\ job' = [job EXCEPT ![g].step = "record"]
    /\ UNCHANGED <<nextId, sugs, alerted, known, records, paused, world, cycle,
                   bounds, observer>>

\* SuggestionLog.Append of the label; an error is logged.
RecordLabel(g) ==
    /\ job[g] # NoJob /\ job[g].step = "record"
    /\ \/ /\ Succeeds(g) \/ FailsAfter(g)
          /\ records' = records \cup {[kind |-> "label", id |-> job[g].id,
                                       serial |-> job[g].serial]}
       \/ FailsWithout(g) /\ UNCHANGED records
    /\ job' = [job EXCEPT ![g] = NoJob]
    /\ UNCHANGED <<nextId, sugs, alerted, known, fed, paused, world, cycle, bounds, observer>>

-----------------------------------------------------------------------------
(* LoadTrainingExamples: labels and suggestions joined by id. *)
TrainingExamples ==
    {ex \in [suggestion : records, label : records] :
        /\ ex.suggestion.kind = "suggestion" /\ ex.label.kind = "label"
        /\ ex.suggestion.id = ex.label.id}

-----------------------------------------------------------------------------
(* The scan cycle. *)

Goto(step) == pc' = step

\* A cycle begins, with a context of its own.
StartCycle ==
    /\ pc = "idle"
    /\ Goto("inbound") /\ expired' = FALSE
    /\ UNCHANGED <<db, world, seen, accepted, queue, batch, job, bounds, faults, observer>>

\* processInbound handles a PAUSE or RESUME.
TogglePause ==
    /\ Answers(Scanner) /\ ~Dead(Scanner)
    /\ changes < MaxChanges /\ changes' = changes + 1
    /\ paused' = ~paused
    /\ UNCHANGED <<nextId, sugs, alerted, known, fed, records, world, cycle, job,
                   serials, faults, observer>>

\* fetchEvents: the cached events, or fresh ones; an error ends the cycle.
FetchEvents ==
    /\ pc = "inbound" /\ job[Scanner] = NoJob
    /\ \/ seen # <<>> /\ UNCHANGED <<seen, faults>> /\ Goto("positions")
       \/ Succeeds(Scanner) /\ seen' = quote /\ Goto("positions")
       \/ FailsWithout(Scanner) /\ Goto("idle") /\ UNCHANGED seen
    /\ UNCHANGED <<db, world, expired, accepted, queue, batch, job, bounds, observer>>

\* Mutant: the portfolio labels suggestions already answered, too.
DetectPositionsRelabelling ==
    /\ pc = "positions"
    /\ LET new == portfolio \ known
           hit == {id \in DOMAIN sugs : sugs[id].ticker \in new}
       IN /\ Succeeds(Scanner)
          /\ known' = known \cup new
          /\ sugs' = [id \in DOMAIN sugs |->
                IF id \in hit THEN [sugs[id] EXCEPT !.label = "position"] ELSE sugs[id]]
          /\ accepted' = {[serial |-> sugs[id].serial, id |-> id] : id \in hit}
    /\ Goto("feeding")
    /\ UNCHANGED <<nextId, alerted, fed, records, paused, world, expired, seen, queue,
                   batch, job, bounds, observer>>

\* detectPositions: a position in a market not known before accepts the pending
\* suggestions of that market.  A failing request or statement, also for a
\* later recipient, is logged, and what was accepted is forgotten.
DetectPositions ==
    /\ pc = "positions"
    /\ LET new == portfolio \ known
           hit == {id \in DOMAIN sugs : sugs[id].ticker \in new /\ sugs[id].label = "pending"}
           Save == /\ known' = known \cup new
                   /\ sugs' = [id \in DOMAIN sugs |->
                         IF id \in hit THEN [sugs[id] EXCEPT !.label = "position"]
                                       ELSE sugs[id]]
       IN \/ /\ Succeeds(Scanner) /\ Save
             /\ accepted' = {[serial |-> sugs[id].serial, id |-> id] : id \in hit}
          \/ FailsAfter(Scanner) /\ Save /\ UNCHANGED accepted
          \/ FailsWithout(Scanner) /\ UNCHANGED <<known, sugs, accepted>>
    /\ Goto("feeding")
    /\ UNCHANGED <<nextId, alerted, fed, records, paused, world, expired, seen, queue,
                   batch, job, bounds, observer>>

\* Each accepted suggestion is fed and recorded like an answer.
FeedAccepted ==
    /\ pc = "feeding" /\ job[Scanner] = NoJob
    /\ \E a \in accepted :
          /\ accepted' = accepted \ {a}
          /\ job' = [job EXCEPT ![Scanner] = [step |-> "feed", serial |-> a.serial,
                                              id |-> a.id, label |-> "position"]]
    /\ UNCHANGED <<db, world, pc, expired, seen, queue, batch, bounds, faults, observer>>

\* What a candidate shows: the events' ask and volume, the close by the clock.
Offer(t) == [market |-> seen[t], near |-> t \in near]

\* Worth another alert after the one that showed prev: cheaper by the drop,
\* about to close, or traded twice as much.
Worth(prev, now) ==
    \/ now.market.ask + RealertDrop <= prev.market.ask
    \/ now.near /\ ~prev.near
    \/ prev.market.volume > 0 /\ now.market.volume >= 2 * prev.market.volume

\* Mutant: a market without a mark is taken for one alerted as it is now.
EligibleDropped(t) ==
    \/ t \in Watched
    \/ /\ t \notin known
       /\ LET last == IF t \in DOMAIN alerted THEN alerted[t]
                      ELSE [offer |-> Offer(t), serial |-> 0, passed |-> "no"]
          IN last.passed = "no" /\ Worth(last.offer, Offer(t))

\* disqualify, for a market that matches the filters: a watched market always
\* qualifies; another must have no position, and be new, or not passed and
\* worth more than its mark, or passed for long enough.
Eligible(t) ==
    \/ t \in Watched
    \/ /\ t \notin known
       /\ \/ t \notin DOMAIN alerted
          \/ alerted[t].passed = "over"
          \/ alerted[t].passed = "no" /\ Worth(alerted[t].offer, Offer(t))

\* The picks a sequence of markets becomes.
Candidates(d) == [i \in DOMAIN d |-> [ticker |-> d[i], offer |-> Offer(d[i])]]

\* The ranked candidates, watched ones first, cut at the digest's limit; in
\* quiet hours only the watched ones of them.
Digests ==
    LET E == {t \in Tickers : Eligible(t)}
        Cuts == {C \in kSubset(IF Cardinality(E) < Cap THEN Cardinality(E) ELSE Cap, E) :
                   C \subseteq Watched \/ E \cap Watched \subseteq C}
        Loud == IF quiet THEN Watched ELSE Tickers
    IN {Candidates(d) : d \in {e \in UNION {SetToSeqs(C \cap Loud) : C \in Cuts} :
          \A i, j \in DOMAIN e : e[j] \in Watched /\ i < j => e[i] \in Watched}}

\* The bound on suggestions: a digest that would exceed it is not made.
InBounds(d) == serials + Len(d) <= MaxSerial

\* Mutant: the digest of a paused user is made as well.
TakeSnapshotPaused ==
    /\ pc = "feeding" /\ accepted = {} /\ job[Scanner] = NoJob
    /\ Succeeds(Scanner)
    /\ \E d \in Digests : queue' = IF InBounds(d) THEN d ELSE <<>>
    /\ Goto(IF queue' = <<>> THEN "idle" ELSE "alloc")
    /\ UNCHANGED <<db, world, expired, seen, accepted, batch, job, bounds, observer>>

\* cycleForUser reads the user's state once and chooses the digest.
TakeSnapshot ==
    /\ pc = "feeding" /\ accepted = {} /\ job[Scanner] = NoJob
    /\ \/ /\ Succeeds(Scanner) /\ ~paused
          /\ \E d \in Digests : queue' = IF InBounds(d) THEN d ELSE <<>>
          /\ Goto(IF queue' = <<>> THEN "idle" ELSE "alloc")
       \/ /\ (paused /\ Succeeds(Scanner)) \/ FailsWithout(Scanner)
          /\ Goto("idle") /\ UNCHANGED queue
    /\ UNCHANGED <<db, world, expired, seen, accepted, batch, job, bounds, observer>>

\* Mutant: the id given to a pick is not saved as used.
AllocateReusing ==
    /\ pc = "alloc"
    /\ Succeeds(Scanner)
    /\ serials' = serials + 1
    /\ LET t == Head(queue).ticker
           pick == [serial |-> serials', id |-> nextId, ticker |-> t,
                    offer |-> Head(queue).offer]
       IN /\ sugs' = [id \in DOMAIN sugs \cup {nextId} |->
                IF id = nextId THEN [serial |-> serials', ticker |-> t, label |-> "pending"]
                               ELSE sugs[id]]
          /\ batch' = Append(batch, pick)
    /\ queue' = Tail(queue)
    /\ Goto(IF Len(queue) = 1 THEN "send" ELSE "alloc")
    /\ UNCHANGED <<nextId, alerted, known, fed, records, paused, world, expired, seen,
                   accepted, job, changes, observer>>

\* alert, first loop: the next pick gets the next id.  On an error alert
\* returns at once.
Allocate ==
    /\ pc = "alloc"
    /\ serials < MaxSerial /\ serials' = serials + 1      \* always within the bound: InBounds
    /\ LET t == Head(queue).ticker
           pick == [serial |-> serials', id |-> nextId, ticker |-> t,
                    offer |-> Head(queue).offer]
           Save == /\ nextId' = nextId + 1
                   /\ sugs' = [id \in DOMAIN sugs \cup {nextId} |->
                         IF id = nextId
                         THEN [serial |-> serials', ticker |-> t, label |-> "pending"]
                         ELSE sugs[id]]
       IN \/ /\ Succeeds(Scanner) /\ Save
             /\ batch' = Append(batch, pick) /\ queue' = Tail(queue)
             /\ Goto(IF Len(queue) = 1 THEN "send" ELSE "alloc")
          \/ /\ \/ FailsAfter(Scanner) /\ Save
                \/ FailsWithout(Scanner) /\ UNCHANGED <<nextId, sugs>>
             /\ batch' = <<>> /\ queue' = <<>> /\ Goto("idle")
    /\ UNCHANGED <<alerted, known, fed, records, paused, world, expired, seen,
                   accepted, job, changes, observer>>

\* SendSMS of the digest: delivered; not delivered; or delivered although the
\* client reports an error.
Arrives ==
    /\ inbox' = inbox \cup Range(batch)
    /\ lapsed' = lapsed \ {p.ticker : p \in Range(batch)}
SendSucceeds == Succeeds(Scanner) /\ Arrives
SendFails ==
    \/ expired /\ UNCHANGED <<inbox, faults, lapsed>>
    \/ ~expired /\ Fault("refused") /\ UNCHANGED <<inbox, lapsed>>
    \/ ~expired /\ Fault("ambiguous") /\ Arrives

Send ==
    /\ pc = "send"
    /\ \/ SendSucceeds /\ Goto("mark")
       \/ SendFails /\ Goto("rollback")
    /\ UNCHANGED <<db, quote, near, portfolio, quiet, expired, seen, accepted, queue, batch,
                   job, bounds, told>>

\* Mutant: one id too many is given back.
RollbackTooFar ==
    /\ pc = "rollback"
    /\ Succeeds(Scanner)
    /\ sugs' = Restrict(sugs, DOMAIN sugs \ {p.id : p \in Range(batch)})
    /\ nextId' = batch[1].id - 1
    /\ batch' = <<>> /\ Goto("idle")
    /\ UNCHANGED <<alerted, known, fed, records, paused, world, expired, seen, accepted,
                   queue, job, bounds, observer>>

\* Mutant: the ids are given back while the suggestions stay.
RollbackKeepingSuggestions ==
    /\ pc = "rollback"
    /\ Succeeds(Scanner)
    /\ nextId' = batch[1].id
    /\ batch' = <<>> /\ Goto("idle")
    /\ UNCHANGED <<sugs, alerted, known, fed, records, paused, world, expired, seen, accepted,
                   queue, job, bounds, observer>>

\* The send failed: the suggestions are deleted and their ids given back, under
\* the cycle's own context, ignoring an error.
Rollback ==
    /\ pc = "rollback"
    /\ LET ids == {p.id : p \in Range(batch)}
           Save == /\ sugs' = Restrict(sugs, DOMAIN sugs \ ids)
                   /\ nextId' = IF nextId > batch[1].id THEN batch[1].id ELSE nextId
       IN \/ (Succeeds(Scanner) \/ FailsAfter(Scanner)) /\ Save
          \/ FailsWithout(Scanner) /\ UNCHANGED <<nextId, sugs>>
    /\ batch' = <<>> /\ Goto("idle")
    /\ UNCHANGED <<alerted, known, fed, records, paused, world, expired, seen, accepted,
                   queue, job, bounds, observer>>

\* Mutant: the mark of a market that is alerted again is not renewed.
MarkFirstOffer ==
    /\ pc = "mark"
    /\ Succeeds(Scanner)
    /\ LET p == Head(batch)
       IN alerted' = [t \in DOMAIN alerted \cup {p.ticker} |->
                        IF t \in DOMAIN alerted THEN alerted[t]
                        ELSE [offer |-> p.offer, serial |-> p.serial, passed |-> "no"]]
    /\ Goto("record")
    /\ UNCHANGED <<nextId, sugs, known, fed, records, paused, world, expired, seen,
                   accepted, queue, batch, job, bounds, observer>>

\* alert, last loop: the market of the next pick is marked as alerted, at the
\* offer of the digest, which ends a PASS of it, ignoring an error.
Mark ==
    /\ pc = "mark"
    /\ LET p == Head(batch)
           entry == [offer |-> p.offer, serial |-> p.serial, passed |-> "no"]
       IN \/ /\ Succeeds(Scanner) \/ FailsAfter(Scanner)
             /\ alerted' = [t \in DOMAIN alerted \cup {p.ticker} |->
                              IF t = p.ticker THEN entry ELSE alerted[t]]
          \/ FailsWithout(Scanner) /\ UNCHANGED alerted
    /\ Goto("record")
    /\ UNCHANGED <<nextId, sugs, known, fed, records, paused, world, expired, seen,
                   accepted, queue, batch, job, bounds, observer>>

\* The pick's suggestion record is appended; an error is logged.
RecordSuggestion ==
    /\ pc = "record"
    /\ LET p == Head(batch)
       IN \/ /\ Succeeds(Scanner) \/ FailsAfter(Scanner)
             /\ records' = records \cup {[kind |-> "suggestion", id |-> p.id,
                                          serial |-> p.serial]}
          \/ FailsWithout(Scanner) /\ UNCHANGED records
    /\ batch' = Tail(batch)
    /\ Goto(IF Len(batch) = 1 THEN "idle" ELSE "mark")
    /\ UNCHANGED <<nextId, sugs, alerted, known, fed, paused, world, expired, seen,
                   accepted, queue, job, bounds, observer>>

ScanStep ==
    \/ StartCycle \/ FetchEvents \/ DetectPositions \/ FeedAccepted
    \/ TakeSnapshot \/ Allocate \/ Send \/ Rollback \/ Mark \/ RecordSuggestion
    \/ Feed(Scanner) \/ RecordLabel(Scanner)

Next ==
    \/ StartCycle \/ FetchEvents \/ DetectPositions \/ FeedAccepted
    \/ TakeSnapshot \/ Allocate \/ Send \/ Rollback \/ Mark \/ RecordSuggestion
    \/ TogglePause \/ ToggleQuiet \/ Expire \/ Crash
    \/ \E t \in Tickers : Trade(t) \/ Buy(t) \/ PassEnds(t)
    \/ \E g \in Goroutines :
          \/ \E id \in Answerable(g), l \in {"took", "pass"} : Feedback(g, id, l)
          \/ Feed(g) \/ RecordLabel(g)

Spec == Init /\ [][Next]_vars

\* The ticker keeps starting cycles, and a cycle runs to its end.
FairSpec == Spec /\ WF_vars(ScanStep)
-----------------------------------------------------------------------------
Offers == [market : Quotes, near : BOOLEAN]

\* The serials and ids that suggestions, marks, records, texts and jobs bear.
InUse ==
    DOMAIN sugs \cup {sugs[id].serial : id \in DOMAIN sugs}
      \cup {alerted[t].serial : t \in DOMAIN alerted}
      \cup (UNION {{r.id, r.serial} : r \in records \cup inbox \cup accepted \cup Range(batch)})
      \cup (UNION {{job[g].id, job[g].serial} : g \in {h \in Goroutines : job[h] # NoJob}})

(* Type invariant; nothing bears a serial or an id beyond the suggestions   *)
(* made so far.                                                             *)
TypeOK ==
    /\ serials \in 0 .. MaxSerial /\ nextId \in 1 .. serials + 1
    /\ InUse \subseteq 1 .. serials
    /\ \A id \in DOMAIN sugs :
          sugs[id] \in [serial : Serials, ticker : Tickers, label : Labels]
    /\ DOMAIN alerted \subseteq Tickers
    /\ \A t \in DOMAIN alerted :
          alerted[t] \in [offer : Offers, serial : Serials, passed : {"no", "yes", "over"}]
    /\ known \subseteq Tickers
    /\ \A n \in Serials : fed[n] \in Seq(BOOLEAN)
    /\ records \subseteq [kind : {"suggestion", "label"}, id : Serials, serial : Serials]
    /\ inbox \subseteq [serial : Serials, id : Serials, ticker : Tickers, offer : Offers]
    /\ seen # <<>> => seen \in [Tickers -> Quotes]
    /\ pc \in {"idle", "inbound", "positions", "feeding", "alloc", "send", "rollback",
               "mark", "record"}
    /\ \A g \in Goroutines : job[g] = NoJob \/ job[g] \in
          [step : {"feed", "record"}, serial : Serials, id : Serials, label : Labels]

(* The next id is above every id in use, through failed allocations, rolled *)
(* back digests and crashes: no suggestion is ever overwritten.             *)
IdsFresh ==
    \A id \in DOMAIN sugs : id < nextId

(* A label is given once: neither a second answer, nor the portfolio, nor   *)
(* the same answer by another goroutine replaces it.                        *)
LabelFinal ==
    [][\A id \in DOMAIN sugs \cap DOMAIN sugs' :
          /\ sugs'[id].serial = sugs[id].serial
          /\ sugs[id].label # "pending" => sugs'[id].label = sugs[id].label]_vars

(* The counters hear of a suggestion at most once, however answers, the     *)
(* portfolio, errors and restarts interleave.                               *)
FedOnce ==
    \A n \in Serials : Len(fed[n]) <= 1

(* What the counters heard is what the suggestion is labelled.              *)
FedAsLabelled ==
    \A id \in DOMAIN sugs :
        LET votes == fed[sugs[id].serial]
        IN votes # <<>> => sugs[id].label # "pending" /\ votes[1] = Accepts(sugs[id].label)

(* "Suggestion is one alert we texted" (state.go:57): between cycles every  *)
(* suggestion is one the user received.                                     *)
SuggestionWasTexted ==
    pc = "idle" => \A id \in DOMAIN sugs : \E x \in inbox : x.serial = sugs[id].serial

\* x is the last text of its market.
LastText(x) == \A z \in inbox : z.ticker = x.ticker => z.serial <= x.serial

(* A market is sent again only if, since its last text, it became cheaper by *)
(* REALERT_DROP_CENTS, came near its close or was traded twice as much      *)
(* (scanner.go:452-461), or its PASS has ended (446-450): neither a price   *)
(* that falls and rises, nor a purchase, a pause or a refused send repeats  *)
(* an alert.                                                                *)
AlertsOnce ==
    [][\A y \in inbox' \ inbox, x \in inbox :
          x.ticker = y.ticker /\ LastText(x)
            => Worth(x.offer, y.offer) \/ y.ticker \in lapsed]_vars

(* After the answer "Passing on #... Suppressed for N days" (commands.go:393) *)
(* the market is not sent until those days are over.                        *)
PassHonoured ==
    [][\A x \in inbox' \ inbox : x.ticker \notin told]_vars

(* "PASSed markets never alert again" (README.md:12): between cycles a market *)
(* whose PASS was answered is suppressed.                                   *)
PassKept ==
    pc = "idle" => \A t \in told : Passed(t)

(* A label record joins the record of its own suggestion: the model is      *)
(* never trained on one market's features with another's label.             *)
TrainingSound ==
    \A ex \in TrainingExamples : ex.suggestion.serial = ex.label.serial

(* Nothing is sent to a user who has paused.                                *)
PauseHonoured ==
    [][inbox' # inbox => ~paused]_vars

(* Every matching market is sent in the end, if the user does not stay      *)
(* paused, in quiet hours, or hold a position in it: the limit of a digest  *)
(* delays a market and never starves it.                                    *)
AllAlerted ==
    <>[](~paused /\ ~quiet)
      => \A t \in Tickers : <>(t \in known \/ \E x \in inbox : x.ticker = t)
=============================================================================
