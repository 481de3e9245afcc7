# Verification of kalshi-search

TLA+ models of the alert service in this repository (a Go program that scans
Kalshi markets, texts or e-mails picks, takes commands back and learns from
them), the TLC runs that check them on small instances, and TLAPS proofs of the
properties that matter most. Paths below are relative to the repository.

Running a check: `tlc -config AlertsSms.cfg MCAlertPipeline`; a proof:
`tlapm UserStoreProofs.tla`. `PROJECT.json` lists the runs, the lines each
definition models, and for each property a bug (a "mutant" operator kept next to
the definition it breaks) that the run would find.

## 1. The system

One process per replica (`cmd/kalshi-alerts/main.go`). Each runs the goroutine
of the scanner, the goroutine of the leader elector, and an HTTP server with a
goroutine per request. All replicas share one libSQL database; only the replica
that holds a lease scans, but every replica serves HTTP.

| Component | State | Operations | Interacts with | Correct when |
|---|---|---|---|---|
| Per-user store (`state/state.go`) | a user's rows over seven tables; a mutex per user and process | `EnsureUser`, `Update` (lock, load all, change a copy, save all in a transaction), `View` | called by scanner, commands and web handlers, at once | an acknowledged update stays; a call sees what was acknowledged before it; no error path keeps the mutex, and only a statement without a deadline can |
| Leader election (`leader/leader.go`) | row of `scanner_locks`; `isLeader` in memory | `TryAcquire` every 10 s, `RunLoop` | the scanner reads `isLeader` before a cycle | one leader, one scanner; the lease of a dead replica passes on |
| Scan cycle and alerts (`scanner/scanner.go`) | caches of events and series tags, and the user's suggestions, marks and positions | inbound commands, fetch, recipients in turn; per user: positions, snapshot, choice of the digest, ids, send, marks or rollback, records | store, Kalshi, message clients, learning | an open market reaches every recipient; the best is sent, once until it is worth more; never while paused or passed; ids are not reused; failures lose nothing that was promised |
| Command handler (`commands/commands.go`) | none | TOOK, PASS, PAUSE, WATCH, QUIET, PREFS, category numbers, ALL, ... | run by the scanner (SMS) and by feedback links (e-mail) | the first answer counts, once |
| Inbound queue (`inbound/inbound.go`, `server/server.go`) | table `inbound_messages` | webhook, `Enqueue`, `Pending`, `MarkDone`, `MarkFailed` | provider, scanner | each message is handled, in an order that leaves the newest command in force |
| Onboarding (`server/onboarding.go`, `scanner.go: onboard`, tokens in `state.go`) | `onboarded`, the menu, categories, `onboarding_tokens` | welcome, PREFS, form, token create / look up / mark | scanner, web, store | the user gets a link; a link is used once; a choice is kept |
| Action links (`server/actions.go`) | none | feedback, quiet hours, enhanced | command handler, store | as for commands |
| Learning (`learning/`) | counters, `suggestion_records`, a model cache | `Feed`, `Append`, `LoadTrainingExamples`, `modelFor`, `Invalidate` | commands and scanner feed it; the scanner scores with it | a suggestion is counted once, as labelled; features join their own label; a model in use is not older than it may be |
| Kalshi client (`kalshi/`) | none | events, series, positions: retries, pages | scanner | a listing is complete or an error, though markets open and close between its pages |
| Message clients (`telnyx/`, `twilio/`, `email/`, `sms/`) | none | `SendSMS`: one request | scanner, commands | - |
| Health and metrics (`scanstats/`, `metrics/`) | the last cycle's result; counters | `Run` and `RecordCycle` write, `/healthz` reads | scanner, HTTP | 200 exactly after a cycle that succeeded |

What is hard here: the store's read-modify-write is protected in one process
only; a cycle acts for minutes on what it read before; the digest is a sequence
of statements, a send in the middle, and a rollback under the context whose
expiry may have failed the send; a message may be delivered and yet reported as
failed; a process may die anywhere; ids are given back; commands are replayed;
markets, cursors and caches move while a listing or a training is under way.
`PROJECT.json` ("hazards") names the line of each and the property about it.

## 2. The modules

| Module | Models | Actions |
|---|---|---|
| `AtomicStore` | what the store promises: an update is one instant | Begin, Apply, ReturnNil, ReturnError, Vanish |
| `UserStore` | how `state.go` does it | CallUpdate, CallView, Lock, Ensure, Load, Save, Unlock, EnsureUser, Crash |
| `LeaderLease` | elector and the scanner's reading of `isLeader` | Boot, Begin (reads the clock), Select, Win / Lose (the guarded INSERT or UPDATE), Fault, Answer (stores the flag), StartCycle, EndCycle, Crash, Tick |
| `Listing` | what a listing of the client promises | Change, Call, Return, Fail, Vanish |
| `KalshiClient` | how `ListOpenEvents` and `get` do it | Call, Page, Transient, Permanent, Retry, Resume, CutOff, Expire; Trade (the exchange) |
| `ScanLoop` | `Run` and `cycle` over all recipients, above `KalshiClient` (which it extends), and health | StartCycle, UseCachedEvents, ListEvents, ListingStep, ListingReturns, RefreshTags, ScanUser, ScanUserFails, RecordCycle, EndCycle; ElectorReports, CycleExpires, Tick, Crash, ExchangeStep |
| `Digest` | what `cycleForUser` chooses, hour by hour | Scan, ScanFails, NextHour; Trade, Approach, Rescore, Rematch, Watch, SetPrice, SetQuiet, Pass, PassEnds |
| `AlertPipeline` | how a digest is made: one user's cycle, feedback and training records | StartCycle, TogglePause, FetchEvents, DetectPositions, FeedAccepted, TakeSnapshot, Allocate, Send, Rollback, Mark, RecordSuggestion; Feedback, Feed, RecordLabel; Trade, Buy, PassEnds, ToggleQuiet, Expire, Crash |
| `MLCache` | the model cache against feedback | ScoreByCounters, Hit, Miss, Load, LoadFails, Store; Invalidate, Record, ToggleEnhanced; Tick, Crash |
| `InboundQueue` | commands from webhook to mark | Receive, Insert, Answer200; List, Apply, Reply, Mark; Expire, Crash |
| `Onboarding` | welcome, tokens and form | StartOnboard, CycleOnboarded, CreateToken, Invite, SendWelcome, Undo, AskPrefs, ReplyPrefs, SelectCategories, SelectAll; Lookup, ReadMenu, SaveChoice, MarkUsed; GoStale, Expire, Crash |

Each `MC...` module names the model values and functions its `.cfg` files use;
each `...Proofs` module holds the theorems about one module.

The modules are layered. `UserStore` is checked and proved to implement
`AtomicStore` within one process; that is what allows the other modules to treat
a `Store.Update` as one step. `LeaderLease` is about who scans; the others assume
one scanner, and the run `lease_long_cycle` shows when that fails. `ScanLoop` says
when a user is scanned and with which events, `Digest` what is then chosen, in one
step, and `AlertPipeline` how the choice is sent and remembered, step by step and
with its failures; there the choice is any digest of the right length.
`AlertPipeline` treats TOOK and PASS, `InboundQueue` the other commands and their
delivery, `MLCache` what a label does to the model that ranks the next digest.
Below `ScanLoop`, `KalshiClient` is checked and proved to implement `Listing`.

State and code correspond as follows. A VARIABLE under the heading "in the
database" is a table or column, one "in the process" is memory that a crash
loses, and one that "an observer knows" is history that no action reads except to
record it. Each action is the code between two points where another goroutine,
a crash or a failure can come in: a statement, a request, or a change to shared
memory. A goroutine's place in its function is `pc` (scanner), `job[g]`
(feedback), `form[g]` (forms) or `web[m]` (webhooks).

Abstractions:

- A row of the store is the set of updates it reflects; saving a copy replaces it.
- In `AlertPipeline` a market has what `disqualify` compares with its mark: `quote`,
  an ask and a volume that may move either way, and `near`, whether it closes within
  6 hours. `Worth` is the comparison, with its three reasons. A cycle reads the
  quotes from its events cache and the close from the clock (`Offer`). `Tickers`
  are the markets that pass the user's filters whatever they quote.
- A PASS is in force (`passed` is "yes") until the step `PassEnds`, which stands for
  `SuppressedUntil` having passed; `PassEnding` is FALSE for `PASS_SUPPRESS_DAYS` of 0.
  The step ends it for the program and for the user, who was told the number of days.
- By text the user may answer any id, by link one that was sent (`Answerable`).
- Suggestions carry a serial number the code does not have, to tell which suggestion
  an id stands for. They are never more than the 200 that `pruneSuggestions` keeps.
- A command of `InboundQueue` replaces one setting, and a setting is the message
  that last replaced it. A webhook that the provider repeats is two messages, as
  it is for the code. A stamp `received_at` is known by `older[m]`, the messages
  with smaller ones; the fault "disorder" is a stamp out of the order of the calls,
  and is in no run. `net/http` buffers so short a reply, so the provider has
  its 200 only when the handler returns (Answer200).
- Events of `KalshiClient` and `ScanLoop` are numbers in the exchange's order, one
  series each. That the exchange lists in a fixed order and a cursor names a place
  in it, whatever opens or closes, is an assumption about Kalshi; the client's
  promise rests on it.
- `sort.Slice` leaves equal candidates in any order: `Digest` lets TLC, and the
  proofs, take any `place` of the candidates that agrees with the comparison, and
  the filters of the digest are sets that this ranking cuts (`First`).
- In `Digest` a score is any small number, and the filters on volume, open
  interest, status, closing time, position and category are one set of markets
  that may change at any time. An hour has one cycle that succeeds.
- In `MLCache` a model is the set of labels it was trained with. A score comes
  from the model or the counters per market, as in the code, so that one digest
  may mix both when a load fails.
- The choice behind a form is a set of categories; the menu of each welcome may
  be any set. Category numbers in a text are the categories of the menu they name,
  and others, which count as invalid.
- Time in `LeaderLease` is counted down in units of a fraction of the ticker's
  interval. Two instants within one unit compare either way, which covers that
  `expires_at` is compared as text.

How statements and requests fail, in every module: one under an expired context
has no effect; one that fails otherwise either did nothing or took effect and the
acknowledgement was lost. It is assumed that no statement takes effect after its
error was returned. A send is delivered, refused, or delivered and reported as
failed. `Faults` names the kinds a run (or theorem) admits, `MaxFaults` bounds
their number.

## 3. The runs

| Run | Question | Result |
|---|---|---|
| `user_store` | one process, failing statements, a crash: are updates atomic and durable, does a call return unless a statement without a deadline hangs, is `AtomicStore` implemented? | holds |
| `store_two_instances` | the same with two replicas | `AcksDurable` fails: an acknowledged update is overwritten |
| `leader_lease` | three replicas, clock skew, an error, a crash: is the lease honoured, is there one leader, does it stay, does one emerge? | holds |
| `lease_long_cycle` | is there one scanner? | `OneScanner` fails: a cycle outlasts the lease |
| `alerts_sms` | commands by text, a refused send, moving quotes, purchases, PASSes that end, pauses: is a market sent again only for the code's reasons, are PASS and PAUSE honoured, training joins sound, is every market sent in the end? | holds |
| `alerts_faulty` | two feedback goroutines and any two faults: ids fresh, labels final, counters fed at most once and as labelled? | holds |
| `alerts_pass_race` | a PASS link between send and mark | `PassKept` fails: the mark overwrites it |
| `scan_loop` | two recipients, markets that open and close between pages, retries, expiring cycles, lost leadership, crashes: is a listing complete or an error, does an open event reach everyone, is `/healthz` right? | holds |
| `digest` | three markets of two series, and moving prices, scores, filters, watchlists, quiet hours: are the best sent, does every market get its turn? | holds |
| `ml_cache` | two replicas, feedback that overlaps a training, failing statements, a crash: how old may a model in use be, and when does a label count? | holds |
| `inbound_queue` | a backlog longer than a cycle lists, failing Enqueue, refusals, expiry, crashes: every stored message handled, none forgotten, what was answered stored or logged, newest command in force? | holds |
| `onboarding` | failing requests, refusals, expiry, crashes, two forms, PREFS, categories chosen by text: the welcome arrives unless cut off, a choice is kept, an answered link is refused? | holds |

The three failing properties are statements of the repository's own documentation;
`PROJECT.json` ("findings") quotes them.

### Bounds

| Constants | Values | Why they are enough |
|---|---|---|
| `UserStore`: goroutines, updates, users | 2, 3, 2 | two updates of one row conflict, the third is of another row whose mutex must not matter; a View joins in. One goroutine's statements have a deadline (the scanner's), the other's may hang (a web handler's) |
| `LeaderLease`: replicas; TTL, Interval, MaxLag, Drift | 3; 6, 2, 1, 1 (5 s units) | a holder and two rivals; 30 s and 10 s as in the code; a restart with a kept and with a new id |
| `AlertPipeline`: markets, `Cap`, serials, changes of the world | 2, 1 or 2, 3 or 5, 1 or 2 | a digest cut short; a digest of two whose second allocation fails; an id given back and used again; a second and a third alert for one market, for each of the three reasons and after a PASS that ended; a price that falls and rises. `alerts_pass_race` needs one market and no change |
| `ScanLoop`: events, `PageSize`, attempts, recipients, cache ages | 2, 1, 2, 2, 1 | three requests for a listing, with a market that closes or opens behind, at and after the cursor; one recipient needs tags and is after one that may fail; a cache is used, and expires |
| `Digest`: markets, cut, per series, price limit, hours, moves | 3, 2, 1, 2, 3, 2 | three candidates for two places, of which two for one place of their series; quiet hours within a day, past midnight, empty and all but one; a watched market in each position; a second alert and a PASS that ends |
| `MLCache`: labels, replicas, examples needed, TTL, longest training | 2, 2, 2, 2, 1 | a label before, during and after a load, in this replica and in the other; a model with too few examples; a load that ends after the cache has expired again |
| faults | 1 or 2 of all kinds | a fault during the recovery from another |
| `InboundQueue`: messages, `Limit` | 3, 2 | a backlog of more than a listing; two commands for one setting, one that only reads |
| `Onboarding`: tokens, forms, categories, commands | 4, 2, 2, 1 | two failed welcomes and a PREFS, two submissions of one link that overlap, a choice by text before, between and after welcomes |

`SYMMETRY` is used in `alerts_faulty` only, whose properties are invariants and an
action property. Deadlock is checked in every run.

### Fairness

- `UserStore`: strong fairness of `Lock` (`sync.Mutex` hands the lock to a goroutine
  that waited over a millisecond), weak fairness of `Unlock`, and weak fairness of
  the statements of `Deadline`, the goroutines whose context ends: the scanner's
  cycle. Nothing is assumed of the other statements. `handleFeedback`, `handleToggle`
  and `handleEnhanced` pass `r.Context()` (actions.go:76, :98, :128), which the server
  never ends by itself, since it sets only `ReadHeaderTimeout` (main.go:148), and
  start-up passes `Background` (main.go:62). Such a statement may hang, and then keeps
  the user's mutex; `mu.Lock` knows no context, so whoever waits for it, the scanner's
  cycle included, waits beyond its own deadline. `CallsReturn` says that this is the
  only way for a call not to return.
- `LeaderLease`: time passes, goroutines run, and the platform restarts a dead
  process. `LeaderEmerges` supposes that some replica stays up.
- `ScanLoop`: as the other modules, and time passes (`Tick`), which the caches need.
  `EventsReachEveryone` supposes that the process leads for good.
- `Digest`: each hour has a cycle that succeeds, since `POLL_INTERVAL` is less than
  an hour, and hours pass. `ScanFails` is bounded by `MaxMoves`.
- The other modules: weak fairness of the scanner's steps only. The ticker keeps
  starting cycles, and each step of a cycle is bounded by its context, as long as no
  statement of a web handler hangs with the user's mutex (above). Nothing is
  assumed about users, about web goroutines or about failures, which their
  bounds end.

## 4. What is proved

For every value of the constants that meets the module's `ASSUME`.

| Theorem | Under | Argument |
|---|---|---|
| `UserStoreProofs!TypeCorrect`, `LockCorrect` | - | `CallInv` adds to the types that an update has one caller; `LockHeld` is then inductive |
| `UserStoreProofs!RowsCorrect`, `FreshCopyCorrect` (`AcksDurable`, `CopyIsCurrent`, `FreshCopy`) | one replica | two goroutines past `Lock` have different users (`OneHolder`), so a copy stays the row it was read from, and a save only adds to the row (`CommitAdds`); `RowsCatchUp` carries an update from save to return, and what was known at the call to the load |
| `UserStoreProofs!UpdatesAreAtomic` | one replica | under these invariants each step is a step of `AtomicStore` or stutters: `Save` is `Apply`, `Unlock` returns |
| `LeaderLeaseProofs!TypeCorrect`, `LeaseCorrect` | - | a lease that was written but not yet reported is also honoured (`WonHonoured`); the UPDATE's guard spares every unexpired lease (`WriteHonours`) |
| `OneLeaderCorrect`, `CycleStartsLeasedCorrect`, `NotDeposedCorrect` | TTL > Interval + MaxLag + Drift | the flag is never older than an interval and an attempt (`FlagFresh`), so a leader holds a lease no clock has seen expire (`LeaderHolds`); `Renewing` keeps its attempts from losing |
| `AlertPipelineProofs!IdsFreshCorrect` | any faults | between the first allocation and the end of a rollback the ids of the batch are the topmost (`BatchOnTop`), so giving them back leaves only smaller ones |
| `TypeCorrect` | any faults | `TypeInv` has the types, and that ids are never above the serials; `UseInv`: what a suggestion, mark, job, record, text or pick bears was made so far, and a step only adds to what was made (`IssuedNext`) |
| `LabelFinalCorrect` | any faults | with fresh ids an allocation touches no existing suggestion; the two labelling steps touch pending ones only |
| `FedOnceCorrect`, `FedAsLabelledCorrect` | any faults | `VoteInv`: a vote on its way is in one job or in the accepted list, and only for a suggestion that stopped being pending when the vote set out; feeding it leaves none behind |
| `PauseHonouredCorrect` | any faults, PAUSE by text | the scanner handles commands before the snapshot, never between it and the send |
| `TrainingSoundCorrect` | a message reported as failed was not delivered | `NameInv`: an id that was answered, voted on or recorded has kept its serial; a rollback takes back only ids the user never saw |
| `SuggestionWasTextedCorrect` | no statement fails, no cycle expires, no crash | `TextedInv`: a suggestion was delivered, or is of the digest in hand, which is then sent or rolled back in full |
| `PassHonouredCorrect` | the same, commands by text, nothing watched | `PassInv`: until the PASS ends, whoever was told "Suppressed" has the market suppressed, and it is in no digest; each suggestion is marked, or about to be, when an answer can arrive |
| `AlertsOnceCorrect` | only sends fail, without being delivered; nothing watched | `OnceInv`: the last text of a market is what it is marked at, or is about to be (`TextsMarked`, `HeadMarked`), and a digest is newer than all texts and may follow the last of each market (`PicksNewer`), with each market once (`PicksDiffer`) |
| `InboundQueueProofs!TypeCorrect` | any faults | the batch is empty exactly when the loop is idle, and has the message in hand |
| `InboundQueueProofs!NotForgottenCorrect` | `Update` fails only when the cycle has expired | `HeadInv`: a message in hand has had its effect, or a reply, or the cycle is dead and cannot mark it |
| `NewestCommandWinsCorrect` | stamps are in the order of the calls; `Update` and `MarkDone` fail only when the cycle has expired | `OrderInv`: what was stored before a message arrived is older than it. `ReplayInv`: when a command takes effect, all that were stored before it have had theirs and are marked, so nothing that is replayed is older than a setting it replaces |
| `AnsweredOrLoggedCorrect` | any faults | `WebInv`: a webhook about to answer has inserted its message or logged the error |
| `ScanLoopProofs!TypeCorrect` | - | a listing is under way only while the scanner waits for it |
| `ListingCorrect` | - | `PageInv`: what was open throughout and lies at or before the cursor is among the pages fetched, and everything fetched was once open; the last page leaves nothing behind it, so each step is a step of `Listing` or stutters |
| `HealthTellsCorrect` | - | `CycleInv` ties the recipients reached to the place in the loop, and the statistics to the outcome while no cycle runs |
| `DigestProofs!TypeCorrect` | - | a digest lists a set that a cut left, each market once (`DigestProperties`) |
| `BestAreSentCorrect` | - | counting those ahead is a bijection (`Counting`), so the first n of a ranking are n or all and precede the rest (`FirstProperties`); a market left out has a full message before it (`FullReason`) or enough of its series, of which the cut can take some only if the message is full (`SeriesReason`). The code's test for quiet hours is the cyclic one (`QuietMeans`) |
| `MLCacheProofs!TypeCorrect` | - | what is cached was loaded, and what was loaded was recorded |
| `ModelIsRecentCorrect` | - | a label that a loaded set or a model lacks was recorded after the load, so its age is at most the load's, and the model's age with a training at most |
| `OwnLabelsCountCorrect` | - | a label that is missing from a usable model of its process was dropped there before it was recorded, and so overlapped the load |
| `OnboardingProofs!TypeCorrect` | - | a link exists only for a stored token |
| `NoLateFormCorrect` | the statement that marks a token does not fail | whatever was answered is marked, and `Lookup` refuses the marked |
| `ChoiceKeptCorrect` | a message reported as failed was not delivered | after a delivered welcome the user stays onboarded and the scanner stays out of `onboard` (`WelcomeInv`), so that only `SaveChoice` and the commands are left to change the categories |

Every safety property of a passing run is stated by one of these theorems. Only
model-checked is liveness (`CallsReturn`, `LeaderEmerges`, `AllAlerted`,
`EveryoneGetsATurn`, `EventsReachEveryone`, `AllHandled`, `WelcomeArrives`), which
with ENABLED is beyond the prover. The three failing properties are refuted, and
what holds instead is proved: `AcksDurable` within one replica, `OneLeader` and
`CycleStartsLeased` for the flag, `PassHonoured` for commands by text.

No theorem is about a recursive definition, whose induction is beyond the provers
too. That is why the queue's stamps and the digest's filters are sets and counts
and not sorted sequences: the two say the same, and these can be reasoned about.

The strengthenings were checked by TLC before they were proved. The hypotheses of
the theorems of `AlertPipeline` and `InboundQueue` are met by the constants of the
runs or are weaker than those: `PassHonoured` and `NewestCommandWins` hold with
more kinds of faults than their runs admit, and `AlertsOnce` with web answers.

## 5. Limits of what holds

Where a passing run leaves a kind of fault or a case out, the property does not
hold with it.

Alerts:

- `AlertsOnce` when a cycle expires, a mark fails, or the process dies between the
  send and the marks (scanner.go:528), or when a message is delivered and reported
  as failed: the next cycle sends the digest again, although README.md:12 says that
  each market alerts at most once.
- `AlertsOnce` and `PassHonoured` with watched markets: `disqualify` returns
  before it looks at marks and suppressions (scanner.go:413), so an affordable
  watched market is sent in every cycle, also after a PASS.
- `PassHonoured` when the mark of a delivered digest fails: a PASS then finds no
  entry to suppress (commands.go:364) and is answered all the same. By link it
  does not hold either, which is the finding of `alerts_pass_race`.
- `AllAlerted` and `EveryoneGetsATurn` with watched markets: `MAX_ALERTS_PER_MESSAGE`
  affordable ones fill every digest and starve the rest.
- `SuggestionWasTexted` with an expired cycle: the rollback runs under the same
  expired context (scanner.go:517) and fails as well.
- `TrainingSound` after a message that was delivered and reported as failed: the
  ids in it are given to other markets, and an answer labels those.
- A digest under way ignores a PASS or PAUSE by link that comes after its snapshot
  (scanner.go:249). By text neither can come in between.
- `PauseHonoured` is about digests; a paused user who is not onboarded still gets a
  welcome (scanner.go:263).
- `EventsReachEveryone` supposes that failures end. A recipient that fails in every
  cycle starves those after it (scanner.go:170).

Commands:

- A stored message is handled in the end; one whose `Enqueue` fails is not stored,
  the provider has its 200 all the same (server.go:215), and only the log names it.
  `AnsweredOrLogged` is what does hold.
- `NotForgotten` when an `Update` and the reply both fail, `NewestCommandWins`
  when `MarkDone` fails alone, or an `Update` does: a command is lost, or replayed
  after newer ones.
- `NewestCommandWins` when `received_at` is out of order (inbound.go:24): the text
  drops trailing zeros, so that `.1Z` sorts after `.12Z`, and replicas have clocks
  of their own.

Onboarding:

- `WelcomeArrives` when the cycle expires or the process dies after `Onboarded` is
  stored and before the link is sent (scanner.go:623): that user never gets a link,
  although README.md:78 promises one. So too when the update that stores
  `Onboarded` fails after taking effect, or the one that takes it back fails.
- `ChoiceKept` after an ambiguous welcome, and before the first welcome for a user
  who asked for PREFS or chose categories by text.
- `NoLateForm` when the mark of the token fails: the form is answered all the
  same (onboarding.go:95). Overlapping submissions of one link both succeed.

Re-alerts, where the documentation says less than the code does. `AlertsOnce` and
`PassHonoured` state what the code does:

- README.md:12 says that a market "re-alerts only if the price drops by
  `REALERT_DROP_CENTS`", and .env.example:63 the same. `disqualify` also sends
  it again when its close comes within 6 hours (scanner.go:456) and when its
  volume has doubled (scanner.go:459, which scanner_test.go:53 tests), without
  any drop of the price, and after a PASS has ended whatever its quote
  (scanner.go:447).
- README.md:12 also says that passed markets "never alert again", while README.md:118
  gives `PASS_SUPPRESS_DAYS` a default of 30, which is what the code does.

Scoring and health:

- `OwnLabelsCount` leaves out a label whose `Feed` and `Append` overlapped a load:
  it stays missing until the entry expires, which `ModelIsRecent` bounds.
- `HealthTells` is about a process whose scanner is enabled; without it `/healthz`
  always answers 200. It states what is reported, which a reader of `/healthz` might not
  expect: a standby that never scanned answers 503, at the path `railway.json`
  uses as its health check, and a cycle that fails before its deadline is not
  recorded, so that `last_error` and `cycle_timed_out` are those of an older one.

Assumptions:

- A hung statement of a web handler keeps the user's mutex, as the section on
  fairness says: `CallsReturn` excepts it, and the other liveness properties suppose
  that there is none.
- `OneLeader` if an attempt takes longer than `MaxLag`: `TryAcquire` has no
  deadline of its own, so this bound is an assumption about the database.
  `ModelIsRecent` has a bound of its own kind, but a justified one: load and
  training run under the cycle's context, which `SCAN_CYCLE_TIMEOUT` ends.
- On the configuration, which does not check it: `MAX_ALERTS_PER_MESSAGE` is at
  least 1 (0 never alerts, less panics at the cut) and `REALERT_DROP_CENTS` at
  least 1 (0 repeats every alert).

## 6. Not modelled

- Training, prediction, feature extraction and the scores: floating point over
  market data. `Digest` takes any score, `MLCache` any set of labels.
- Webhook signatures and payloads, HTML, wording: parsing and I/O without state of
  their own; the models start from a verified, parsed message.
- Configuration and the schema's DDL: read or run once at start-up. What they set
  is the CONSTANTS and VARIABLES of the modules.
- Metrics and the operator tools: nothing reads the former back, and the latter
  share no state with the service.
- Pruning beyond 200 suggestions. It never drops a pending one, so that a user who
  never answers, or watches an affordable market, has an ever growing row.
- `matchesSubcategories` in full: a series has its tags or not.

## 7. Plan

Done, in this order: `AtomicStore` and `UserStore` (everything else rests on
them), `LeaderLease`, `AlertPipeline` (the heart of the service), `InboundQueue`,
`Onboarding`; then `MLCache`, `Listing`, `KalshiClient`, `ScanLoop` and `Digest`,
with the proofs of the first four of these, and the votes of `AlertPipeline`.

Then the theorems: the type invariants of `AlertPipeline`, `InboundQueue` and
`Digest`, and `TrainingSound`, `SuggestionWasTexted`, `PassHonoured`, `AlertsOnce`,
`NewestCommandWins` and `BestAreSent`, each with its inductive invariant.

Next:

1. Pruning, and `ParseForm`, as functions against reference definitions.
2. Two replicas in `ScanLoop`, composed with `LeaderLease`: what each replica's
   caches and health say when leadership moves.
