----------------------------- MODULE Onboarding -----------------------------
(***************************************************************************)
(* How a user comes to have categories: the welcome message with a link,   *)
(* links asked for with PREFS, the form behind a link, and the commands    *)
(* that name categories of the menu by their numbers.                      *)
(*                                                                         *)
(* The scanner goroutine, finding the user not onboarded, creates a token, *)
(* stores the menu with Onboarded set, sends the link, and takes Onboarded *)
(* back when the send fails.  Web goroutines look the token up, read the   *)
(* menu, save the categories and then mark the token as used.              *)
(*                                                                         *)
(* Data abstraction: a selection is a set of categories (subcategories go  *)
(* with them); the menu of a welcome is any set, as markets come and go.   *)
(***************************************************************************)
EXTENDS Naturals

CONSTANTS
    Categories,
    Web,            \* goroutines serving submitted forms
    NoForm,         \* a goroutine that is serving none
    Faults,         \* what may go wrong, of FaultKinds
    MaxTokens,      \* bound: tokens ever made
    MaxAsked,       \* bound: commands by SMS; 0 in e-mail mode
    MaxFaults       \* bound: faults, of all kinds together

\* The statements or requests of onboard (tags, token, invite, undo), of a
\* form (form, mark) and of a command (command) fail; a message is refused, or delivered although the
\* client reports an error; a cycle reaches SCAN_CYCLE_TIMEOUT; the process dies.
FaultKinds == {"tags", "token", "invite", "undo", "form", "mark", "command",
               "refused", "ambiguous", "expiry", "crash"}

ASSUME OnboardingAssumption ==
    /\ Categories # {}
    /\ Faults \subseteq FaultKinds
    /\ {MaxTokens, MaxAsked, MaxFaults} \subseteq Nat

VARIABLES
    \* in the database: the user's row, and onboarding_tokens
    onboarded, menu, chosen,
    made,       \* tokens 1 .. made exist
    used,       \* those marked as used
    \* outside
    stale,      \* tokens past their expires_at
    links,      \* tokens whose link the user received
    \* in the process
    pc,         \* where the scanner is
    expired,    \* whether the cycle's context has expired
    draft,      \* the menu of the welcome being sent
    form,       \* form[g]: the submission goroutine g is serving
    \* bounds, and what an observer knows
    asked, faults,
    welcomed,   \* whether a welcome message was delivered
    cut,        \* whether a welcome was cut off after Onboarded was stored
    settled     \* tokens a submission through which was answered "all set"

user == <<onboarded, menu, chosen>>
tokens == <<made, used, stale, links>>
scanner == <<pc, expired, draft>>
observer == <<asked, welcomed, cut, settled>>
vars == <<user, tokens, scanner, form, faults, observer>>

Tokens == 1 .. MaxTokens

Init ==
    /\ onboarded = FALSE /\ menu = {} /\ chosen = {}
    /\ made = 0 /\ used = {} /\ stale = {} /\ links = {}
    /\ pc = "idle" /\ expired = FALSE /\ draft = {}
    /\ form = [g \in Web |-> NoForm]
    /\ asked = 0 /\ faults = 0 /\ welcomed = FALSE /\ cut = FALSE
    /\ settled = {}

Fault(kind) == kind \in Faults /\ faults < MaxFaults /\ faults' = faults + 1
\* A statement under an expired context has no effect; one that fails
\* otherwise may have taken effect.
Succeeds == ~expired /\ UNCHANGED faults
FailsWithout(kind) == (expired /\ UNCHANGED faults) \/ Fault(kind)
FailsAfter(kind) == ~expired /\ Fault(kind)

Goto(step) == pc' = step

-----------------------------------------------------------------------------
(* The scanner. *)

\* The snapshot of a cycle shows a user who is not onboarded: the menu is what
\* the open events offer, and its tags are fetched.
StartOnboard ==
    /\ pc = "idle" /\ ~onboarded /\ made < MaxTokens
    /\ \/ /\ UNCHANGED faults
          /\ draft' \in SUBSET Categories \ {{}}
          /\ Goto("token")
       \/ Fault("tags") /\ UNCHANGED <<draft, pc>>
    /\ expired' = FALSE
    /\ UNCHANGED <<user, tokens, form, observer>>

\* The cycle of a user who is onboarded goes on to the alerts (AlertPipeline).
CycleOnboarded ==
    /\ pc = "idle" /\ onboarded
    /\ expired' = FALSE
    /\ UNCHANGED <<user, tokens, pc, draft, form, faults, observer>>

\* Mutant: the token is returned without having been inserted.
CreateTokenUnsaved ==
    /\ pc = "token"
    /\ Succeeds /\ Goto("invite")
    /\ UNCHANGED <<user, tokens, expired, draft, form, observer>>

\* CreateOnboardingToken; an error ends the cycle.
CreateToken ==
    /\ pc = "token"
    /\ \/ Succeeds /\ made' = made + 1 /\ Goto("invite")
       \/ FailsAfter("token") /\ made' = made + 1 /\ Goto("idle")
       \/ FailsWithout("token") /\ UNCHANGED made /\ Goto("idle")
    /\ UNCHANGED <<user, used, stale, links, expired, draft, form, observer>>

\* Mutant: the user is not recorded as onboarded.
InviteForgetting ==
    /\ pc = "invite"
    /\ Succeeds
    /\ menu' = draft /\ chosen' = {}
    /\ Goto("send")
    /\ UNCHANGED <<onboarded, tokens, expired, draft, form, observer>>

\* The menu is stored, earlier categories are cleared, and the user counts as
\* onboarded.  An error ends the cycle.
Invite ==
    /\ pc = "invite"
    /\ LET Save == onboarded' = TRUE /\ menu' = draft /\ chosen' = {}
       IN \/ Succeeds /\ Save /\ Goto("send")
          \/ FailsAfter("invite") /\ Save /\ Goto("idle")
          \/ FailsWithout("invite") /\ UNCHANGED user /\ Goto("idle")
    /\ UNCHANGED <<tokens, expired, draft, form, observer>>

\* SendSMS of the newest link: the message arrives; it does not; or it does
\* although the client reports an error.
SendSucceeds == Succeeds /\ links' = links \cup {made}
SendFails ==
    \/ FailsWithout("refused") /\ UNCHANGED links
    \/ FailsAfter("ambiguous") /\ links' = links \cup {made}

SendWelcome ==
    /\ pc = "send"
    /\ \/ SendSucceeds /\ welcomed' = TRUE /\ Goto("idle")
       \/ SendFails /\ welcomed' = (welcomed \/ links' # links) /\ Goto("undo")
    /\ UNCHANGED <<user, made, used, stale, expired, draft, form, asked, cut,
                   settled>>

\* Mutant: a failed send is not taken back.
UndoNothing ==
    /\ pc = "undo"
    /\ UNCHANGED faults
    /\ Goto("idle")
    /\ UNCHANGED <<user, tokens, expired, draft, form, observer>>

\* The send failed: the user is not onboarded after all, ignoring an error.
Undo ==
    /\ pc = "undo"
    /\ \/ (Succeeds \/ FailsAfter("undo")) /\ onboarded' = FALSE
       \/ FailsWithout("undo") /\ UNCHANGED onboarded
    /\ Goto("idle")
    /\ UNCHANGED <<menu, chosen, tokens, expired, draft, form, observer>>

\* processInbound handles PREFS: a token, whose link is the reply.
AskPrefs ==
    /\ pc = "idle" /\ asked < MaxAsked /\ made < MaxTokens
    /\ asked' = asked + 1
    /\ \/ UNCHANGED faults /\ made' = made + 1 /\ Goto("reply")
       \/ Fault("token") /\ made' \in {made, made + 1} /\ UNCHANGED pc
    /\ expired' = FALSE
    /\ UNCHANGED <<user, used, stale, links, draft, form, welcomed, cut, settled>>

ReplyPrefs ==
    /\ pc = "reply"
    /\ SendSucceeds \/ SendFails
    /\ Goto("idle")
    /\ UNCHANGED <<user, made, used, stale, expired, draft, form, observer>>

\* The Update of a command makes the categories new, or fails.
Choose(new) ==
    /\ pc = "idle" /\ asked < MaxAsked /\ asked' = asked + 1
    /\ \/ UNCHANGED faults /\ chosen' = new
       \/ Fault("command") /\ chosen' \in {chosen, new}
    /\ expired' = FALSE
    /\ UNCHANGED <<onboarded, menu, tokens, pc, draft, form, welcomed, cut, settled>>

\* processInbound handles a list of numbers: those of the menu are chosen; if
\* there are none, nothing changes.
SelectCategories(picks) ==
    Choose(IF picks \cap menu = {} THEN chosen ELSE picks \cap menu)

\* ALL: the whole menu, also an empty one.
SelectAll == Choose(menu)

\* The cycle's deadline passes.
Expire ==
    /\ pc # "idle" /\ ~expired
    /\ Fault("expiry")
    /\ expired' = TRUE
    /\ cut' = (cut \/ pc \in {"send", "undo"})
    /\ UNCHANGED <<user, tokens, pc, draft, form, asked, welcomed, settled>>

-----------------------------------------------------------------------------
(* The form behind a link. *)

At(g, step) == form[g] # NoForm /\ form[g].step = step
Leave(g) == form' = [form EXCEPT ![g] = NoForm]

\* ONBOARDING_TOKEN_TTL passes.
GoStale(t) ==
    /\ t \in links \ stale
    /\ stale' = stale \cup {t}
    /\ UNCHANGED <<user, made, used, links, scanner, form, faults, observer>>

\* Mutant: the lookup does not look at used.
LookupIgnoringUse(g, t, picks) ==
    /\ form[g] = NoForm /\ t \in links
    /\ t \notin stale
    /\ form' = [form EXCEPT ![g] = [step |-> "view", token |-> t, picks |-> picks,
                                    late |-> t \in settled]]
    /\ UNCHANGED <<user, tokens, scanner, faults, observer>>

\* LookupOnboardingToken for a submitted form; a token that is used or past
\* its time gets an error page.
Lookup(g, t, picks) ==
    /\ form[g] = NoForm /\ t \in links
    /\ t \notin used \cup stale
    /\ form' = [form EXCEPT ![g] = [step |-> "view", token |-> t, picks |-> picks,
                                    late |-> t \in settled]]
    /\ UNCHANGED <<user, tokens, scanner, faults, observer>>

\* ParseForm: the submitted categories that are on the menu.
ParseForm(offered, picks) == picks \cap offered

\* View of the menu.
ReadMenu(g) ==
    /\ At(g, "view")
    /\ \/ /\ UNCHANGED faults
          /\ form' = [form EXCEPT ![g].step = "save",
                                  ![g].picks = ParseForm(menu, form[g].picks)]
       \/ Fault("form") /\ Leave(g)
    /\ UNCHANGED <<user, tokens, scanner, observer>>

\* Update of the categories; an error gets the form again.
SaveChoice(g) ==
    /\ At(g, "save")
    /\ \/ /\ UNCHANGED faults
          /\ chosen' = form[g].picks
          /\ form' = [form EXCEPT ![g].step = "mark"]
       \/ Fault("form") /\ chosen' \in {chosen, form[g].picks} /\ Leave(g)
    /\ UNCHANGED <<onboarded, menu, tokens, scanner, observer>>

\* MarkOnboardingTokenUsed, an error being logged, and the answer "all set".
MarkUsed(g) ==
    /\ At(g, "mark")
    /\ \/ UNCHANGED faults /\ used' = used \cup {form[g].token}
       \/ Fault("mark") /\ used' \in {used, used \cup {form[g].token}}
    /\ settled' = settled \cup {form[g].token}
    /\ Leave(g)
    /\ UNCHANGED <<user, made, stale, links, scanner, asked, welcomed, cut>>

\* The process dies and restarts.
Crash ==
    /\ Fault("crash")
    /\ pc' = "idle" /\ expired' = FALSE /\ draft' = {}
    /\ form' = [g \in Web |-> NoForm]
    /\ cut' = (cut \/ pc \in {"send", "undo"})
    /\ UNCHANGED <<user, tokens, asked, welcomed, settled>>

ScanStep ==
    \/ StartOnboard \/ CreateToken \/ Invite \/ SendWelcome \/ Undo \/ ReplyPrefs

Next ==
    \/ StartOnboard \/ CycleOnboarded \/ CreateToken \/ Invite \/ SendWelcome \/ Undo
    \/ AskPrefs \/ ReplyPrefs \/ SelectAll \/ Expire \/ Crash
    \/ \E picks \in SUBSET Categories : SelectCategories(picks)
    \/ \E t \in Tokens : GoStale(t)
    \/ \E g \in Web :
          \/ \E t \in links, picks \in SUBSET Categories : Lookup(g, t, picks)
          \/ ReadMenu(g) \/ SaveChoice(g) \/ MarkUsed(g)

Spec == Init /\ [][Next]_vars

\* The ticker keeps starting cycles, and a cycle runs to its end.
FairSpec == Spec /\ WF_vars(ScanStep)
-----------------------------------------------------------------------------
(* Type invariant. *)
TypeOK ==
    /\ onboarded \in BOOLEAN /\ menu \subseteq Categories /\ chosen \subseteq Categories
    /\ made \in 0 .. MaxTokens /\ used \subseteq links /\ stale \subseteq links
    /\ links \subseteq 1 .. made
    /\ pc \in {"idle", "token", "invite", "send", "undo", "reply"}
    /\ draft \subseteq Categories
    /\ \A g \in Web : form[g] = NoForm \/ form[g] \in
          [step : {"view", "save", "mark"}, token : links, picks : SUBSET Categories,
           late : BOOLEAN]

(* A welcome that fails is tried again until it is delivered, unless a      *)
(* cycle is cut off after it stored that the user is onboarded.             *)
WelcomeArrives ==
    <>(welcomed \/ cut)

(* From the welcome on only the user changes the user's categories, by a    *)
(* submitted form or a command: no other welcome clears what was chosen     *)
(* through the first.                                                       *)
ChoiceKept ==
    [][welcomed /\ chosen' # chosen
         => \/ asked' # asked
            \/ \E g \in Web : At(g, "save") /\ form'[g] # form[g]]_vars

(* A form that is opened after a submission through the same link was       *)
(* answered "all set" is refused.                                           *)
NoLateForm ==
    \A g \in Web : form[g] # NoForm => ~form[g].late
=============================================================================
