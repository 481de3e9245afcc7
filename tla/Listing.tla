------------------------------- MODULE Listing -------------------------------
(***************************************************************************)
(* What a listing of the Kalshi client promises the scanner, while markets *)
(* open and close on the exchange: it returns a list or an error, never a  *)
(* part of a list.  A list has everything that was open from the call to   *)
(* the return, and nothing that was never open in between.  KalshiClient   *)
(* is the code's way of keeping that promise, page by page.                *)
(***************************************************************************)
CONSTANT Items          \* what may be listed

VARIABLES
    open,       \* the items that are open on the exchange
    through,    \* those open ever since the call
    seen,       \* those open at some time since the call
    call,       \* "idle", "running", "listed" or "failed"
    result      \* the list returned; {} unless one was

lvars == <<open, through, seen, call, result>>

Init ==
    /\ open \in SUBSET Items /\ through = {} /\ seen = {}
    /\ call = "idle" /\ result = {}

\* Items open and close at any time.
Change ==
    /\ open' \in SUBSET Items
    /\ through' = through \cap open'
    /\ seen' = IF call = "running" THEN seen \cup open' ELSE seen
    /\ UNCHANGED <<call, result>>

Call ==
    /\ call # "running"
    /\ call' = "running"
    /\ through' = open /\ seen' = open /\ result' = {}
    /\ UNCHANGED open

Return ==
    /\ call = "running"
    /\ call' = "listed"
    /\ through \subseteq result' /\ result' \in SUBSET seen
    /\ UNCHANGED <<open, through, seen>>

Fail ==
    /\ call = "running"
    /\ call' = "failed"
    /\ UNCHANGED <<open, through, seen, result>>

\* The process of the caller dies.
Vanish ==
    /\ call' = "idle" /\ through' = {} /\ seen' = {} /\ result' = {}
    /\ UNCHANGED open

Next == Change \/ Call \/ Return \/ Fail \/ Vanish

Spec == Init /\ [][Next]_lvars
=============================================================================
