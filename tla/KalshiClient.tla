---------------------------- MODULE KalshiClient ----------------------------
(***************************************************************************)
(* ListOpenEvents of the Kalshi client: pages fetched by cursor, each by   *)
(* get with its retries, from an exchange whose markets open and close     *)
(* meanwhile.  ListSeries and ListPositions are the same loop over other   *)
(* items.                                                                  *)
(*                                                                         *)
(* Items are numbered in the order in which the exchange lists them, and a *)
(* cursor is the last item before the next page: 0 at the start, and 0 for *)
(* the empty cursor that ends a listing.                                   *)
(***************************************************************************)
EXTENDS Naturals, FiniteSets

CONSTANTS
    Items,          \* what may be listed
    PageSize,       \* 200: the limit of a request
    MaxAttempts,    \* 4: requests for one page
    MaxFaults       \* bound: failures, of all kinds together

ASSUME ClientAssumption ==
    /\ Items \subseteq Nat \ {0}
    /\ PageSize \in Nat \ {0} /\ MaxAttempts \in Nat \ {0} /\ MaxFaults \in Nat

VARIABLES
    open,       \* on the exchange: the open items
    step,       \* where ListOpenEvents is
    cursor,     \* the cursor of the next page
    got,        \* the items of the pages fetched so far
    attempt,    \* which request for this page it is
    expired,    \* whether the caller's context has expired
    faults,     \* bound
    through,    \* an observer: the items open ever since the call
    seen        \* an observer: the items open at some time since the call

client == <<step, cursor, got, attempt>>
exchange == <<open, through, seen>>
clientVars == <<exchange, client, expired, faults>>

Fetching == {"request", "backoff", "pause"}

InitClient ==
    /\ open \in SUBSET Items /\ through = {} /\ seen = {}
    /\ step = "idle" /\ cursor = 0 /\ got = {} /\ attempt = 1
    /\ expired = FALSE /\ faults = 0

Fault == faults < MaxFaults /\ faults' = faults + 1
-----------------------------------------------------------------------------
(* The exchange. *)

\* A market opens or closes.
Trade(i) ==
    /\ open' = IF i \in open THEN open \ {i} ELSE open \cup {i}
    /\ through' = through \cap open'
    /\ seen' = IF step \in Fetching THEN seen \cup open' ELSE seen
    /\ UNCHANGED <<client, expired, faults>>

Between(c, b) == {i \in open : c < i /\ i =< b}

\* The page after the cursor c ends at b: it is full, or the last one.
PageEnds(c, b) ==
    /\ Cardinality(Between(c, b)) =< PageSize
    /\ Between(c, b) = {} => \A i \in open : i =< c

\* The next cursor: the last page may come with one, which leads to an empty page.
NextCursors(b) == IF \E i \in open : i > b THEN {b} ELSE {0, b}
-----------------------------------------------------------------------------
(* The client. *)

Call ==
    /\ step \notin Fetching
    /\ step' = "request" /\ cursor' = 0 /\ got' = {} /\ attempt' = 1
    /\ through' = open /\ seen' = open
    /\ UNCHANGED <<open, expired, faults>>

\* A page arrives with status 200: the listing ends with an empty cursor or page.
Page ==
    /\ step = "request" /\ ~expired
    /\ \E b \in Items \cup {cursor} :
          /\ PageEnds(cursor, b)
          /\ got' = got \cup Between(cursor, b)
          /\ \E next \in NextCursors(b) :
                IF next = 0 \/ Between(cursor, b) = {}
                THEN step' = "listed" /\ UNCHANGED <<cursor, attempt>>
                ELSE step' = "pause" /\ cursor' = next /\ attempt' = 1
    /\ UNCHANGED <<exchange, expired, faults>>

\* Mutant: an error of a later page ends the listing as an empty page does.
TransientKeepingPages ==
    /\ step = "request" /\ ~expired /\ Fault
    /\ step' = IF attempt < MaxAttempts THEN "backoff"
               ELSE IF got = {} THEN "failed" ELSE "listed"
    /\ UNCHANGED <<exchange, cursor, got, attempt, expired>>

\* Mutant: one attempt too many.
TransientOffByOne ==
    /\ step = "request" /\ ~expired /\ Fault
    /\ step' = IF attempt =< MaxAttempts THEN "backoff" ELSE "failed"
    /\ UNCHANGED <<exchange, cursor, got, attempt, expired>>

\* Status 429 or 5xx, a transport error or a body cut short: get tries again.
Transient ==
    /\ step = "request" /\ ~expired /\ Fault
    /\ step' = IF attempt < MaxAttempts THEN "backoff" ELSE "failed"
    /\ UNCHANGED <<exchange, cursor, got, attempt, expired>>

\* Another status, a body that does not decode, a request over 30 s, or an
\* expired context: get gives up at once.
Permanent ==
    /\ step = "request"
    /\ (expired /\ UNCHANGED faults) \/ Fault
    /\ step' = "failed"
    /\ UNCHANGED <<exchange, cursor, got, attempt, expired>>

\* The backoff of get ends, 1, 2 or 4 s later.
Retry ==
    /\ step = "backoff"
    /\ step' = "request" /\ attempt' = attempt + 1
    /\ UNCHANGED <<exchange, cursor, got, expired, faults>>

\* The 250 ms between pages are over.
Resume ==
    /\ step = "pause"
    /\ step' = "request"
    /\ UNCHANGED <<exchange, cursor, got, attempt, expired, faults>>

\* The context expires during a backoff or a pause.
CutOff ==
    /\ step \in {"backoff", "pause"} /\ expired
    /\ step' = "failed"
    /\ UNCHANGED <<exchange, cursor, got, attempt, expired, faults>>

Expire ==
    /\ step \in Fetching /\ ~expired /\ Fault
    /\ expired' = TRUE
    /\ UNCHANGED <<exchange, client>>

ClientStep == Page \/ Transient \/ Permanent \/ Retry \/ Resume \/ CutOff

ClientNext == Call \/ ClientStep \/ Expire \/ \E i \in Items : Trade(i)

ClientSpec == InitClient /\ [][ClientNext]_clientVars
-----------------------------------------------------------------------------
(* What the caller is handed: the list, or nothing and an error.            *)
Result == IF step = "listed" THEN got ELSE {}

CallState == IF step \in Fetching THEN "running" ELSE step

Promise == INSTANCE Listing WITH call <- CallState, result <- Result

(* A listing returns all that was open throughout and nothing that was      *)
(* never open, or it fails and returns nothing, whatever requests fail and  *)
(* whatever opens and closes between two pages.                             *)
ImplementsListing == Promise!Spec
=============================================================================
