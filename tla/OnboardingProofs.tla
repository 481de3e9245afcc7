-------------------------- MODULE OnboardingProofs --------------------------
(***************************************************************************)
(* Proofs about Onboarding, for any categories, goroutines and number of   *)
(* faults of every kind but the one each theorem excludes by name.         *)
(***************************************************************************)
EXTENDS Onboarding, TLAPS

\* A message the provider reports as refused was not delivered.
TruthfulSends == "ambiguous" \notin Faults

\* The statement that marks a token as used does not fail.
ReliableMarks == "mark" \notin Faults

-----------------------------------------------------------------------------
(* Types. *)

\* A link is sent only for a token that exists.
TypeInv ==
    /\ TypeOK
    /\ form \in [Web -> {NoForm} \cup
            [step : {"view", "save", "mark"}, token : links, picks : SUBSET Categories,
             late : BOOLEAN]]
    /\ pc \in {"invite", "send", "undo", "reply"} => made >= 1
    /\ pc = "token" => made < MaxTokens
    /\ asked \in Nat

LEMMA MembershipIsBoolean ==
    ASSUME NEW x, NEW S
    PROVE  (x \in S) \in BOOLEAN
OBVIOUS

LEMMA TypeNext == TypeInv /\ [Next]_vars => TypeInv'
<1> SUFFICES ASSUME TypeInv, [Next]_vars PROVE TypeInv'
  OBVIOUS
<1> USE OnboardingAssumption DEF TypeInv, TypeOK, OnboardingAssumption
<1>1. CASE StartOnboard \/ CycleOnboarded \/ Expire
  BY <1>1 DEF StartOnboard, CycleOnboarded, Expire, Goto, user, tokens, observer
<1>2. CASE CreateToken
  BY <1>2 DEF CreateToken, Goto, user, observer
<1>3. CASE Invite \/ Undo
  BY <1>3 DEF Invite, Undo, Goto, user, tokens, observer
<1>4. CASE AskPrefs
  BY <1>4 DEF AskPrefs, Goto, user
<1>5. ASSUME NEW picks \in SUBSET Categories, SelectAll \/ SelectCategories(picks)
      PROVE  TypeInv'
  <2>1. \E new \in SUBSET Categories : Choose(new)
    BY <1>5 DEF SelectAll, SelectCategories
  <2> QED BY <2>1 DEF Choose, tokens
<1>6. CASE SendWelcome \/ ReplyPrefs
  <2>1. made \in 1 .. made
    BY <1>6 DEF SendWelcome, ReplyPrefs
  <2>2. links' = links \/ links' = links \cup {made}
    BY <1>6 DEF SendWelcome, ReplyPrefs, SendSucceeds, SendFails
  <2>3. links \subseteq links' /\ links' \subseteq 1 .. made
    BY <2>1, <2>2
  <2>4. /\ UNCHANGED <<onboarded, menu, chosen, made, used, stale, draft, form, asked>>
        /\ pc' \in {"idle", "undo"} /\ made >= 1
    BY <1>6 DEF SendWelcome, ReplyPrefs, Goto, user, observer
  <2> QED BY <2>3, <2>4
<1>7. CASE Crash
  BY <1>7 DEF Crash, user, tokens
<1>8. ASSUME NEW t \in Tokens, GoStale(t) PROVE TypeInv'
  BY <1>8 DEF GoStale, user, scanner, observer
<1>9. ASSUME NEW g \in Web, NEW t \in links, NEW picks \in SUBSET Categories,
             Lookup(g, t, picks)
      PROVE  TypeInv'
  <2>1. (t \in settled) \in BOOLEAN
    BY MembershipIsBoolean
  <2>2. form' \in [Web -> {NoForm} \cup
            [step : {"view", "save", "mark"}, token : links, picks : SUBSET Categories,
             late : BOOLEAN]]
    <3> DEFINE f == [step |-> "view", token |-> t, picks |-> picks, late |-> t \in settled]
    <3>1. f \in [step : {"view", "save", "mark"}, token : links,
                picks : SUBSET Categories, late : BOOLEAN]
      BY <2>1
    <3>2. form' = [form EXCEPT ![g] = f]
      BY <1>9 DEF Lookup
    <3> HIDE DEF f
    <3> QED BY <3>1, <3>2
  <2> QED BY <1>9, <2>2 DEF Lookup, user, tokens, scanner, observer
<1>10. ASSUME NEW g \in Web, ReadMenu(g) \/ SaveChoice(g) \/ MarkUsed(g) PROVE TypeInv'
  BY <1>10 DEF ReadMenu, SaveChoice, MarkUsed, At, Leave, ParseForm, user, tokens, scanner,
              observer
<1>11. CASE UNCHANGED vars
  BY <1>11 DEF vars, user, tokens, scanner, observer
<1> QED
  BY <1>1, <1>2, <1>3, <1>4, <1>5, <1>6, <1>7, <1>8, <1>9, <1>10, <1>11 DEF Next

LEMMA TypeInit == Init => TypeInv
<1> SUFFICES ASSUME Init PROVE TypeInv
  OBVIOUS
<1>1. form \in [Web -> {NoForm} \cup
        [step : {"view", "save", "mark"}, token : links, picks : SUBSET Categories,
         late : BOOLEAN]]
  BY DEF Init
<1>2. \A g \in Web : form[g] = NoForm
  BY DEF Init
<1>3. MaxTokens \in Nat
  BY OnboardingAssumption DEF OnboardingAssumption
<1>4. made \in 0 .. MaxTokens /\ links \subseteq 1 .. made
  BY <1>3 DEF Init
<1> QED BY <1>1, <1>2, <1>4 DEF Init, TypeInv, TypeOK

(* Tokens, links and forms stay well typed: every link that was sent names  *)
(* a stored token, and every token that is used was sent.                   *)
THEOREM TypeCorrect == Spec => []TypeOK
<1>1. TypeInv => TypeOK
  BY DEF TypeInv
<1> QED BY <1>1, TypeInit, TypeNext, PTL DEF Spec

-----------------------------------------------------------------------------
(* A used link. *)

\* Every link whose submission was answered is marked, so Lookup refuses it.
FormInv ==
    /\ settled \subseteq used
    /\ NoLateForm

LEMMA FormNext ==
    ASSUME ReliableMarks
    PROVE  TypeInv /\ FormInv /\ [Next]_vars => FormInv'
<1> SUFFICES ASSUME TypeInv, FormInv, [Next]_vars PROVE FormInv'
  OBVIOUS
<1>0. form \in [Web -> {NoForm} \cup
        [step : {"view", "save", "mark"}, token : links, picks : SUBSET Categories,
         late : BOOLEAN]]
  BY DEF TypeInv
<1> USE DEF FormInv, NoLateForm
<1>1. CASE \/ StartOnboard \/ CycleOnboarded \/ CreateToken \/ Invite \/ SendWelcome
           \/ Undo \/ AskPrefs \/ ReplyPrefs \/ SelectAll \/ Expire
           \/ \E picks \in SUBSET Categories : SelectCategories(picks)
           \/ \E t \in Tokens : GoStale(t)
  BY <1>1 DEF StartOnboard, CycleOnboarded, CreateToken, Invite, SendWelcome, Undo,
              AskPrefs, ReplyPrefs, SelectAll, SelectCategories, Choose, Expire, GoStale, user,
              tokens, scanner, observer
<1>2. CASE Crash
  BY <1>2 DEF Crash, tokens
<1>3. ASSUME NEW g \in Web, NEW t \in links, NEW picks \in SUBSET Categories,
             Lookup(g, t, picks)
      PROVE  FormInv'
  <2>1. t \notin settled /\ settled' = settled /\ used' = used
    BY <1>3 DEF Lookup, tokens, observer
  <2>2. /\ \A h \in Web \ {g} : form'[h] = form[h]
        /\ form'[g] = [step |-> "view", token |-> t, picks |-> picks, late |-> t \in settled]
    BY <1>0, <1>3 DEF Lookup
  <2>3. form'[g].late = (t \in settled)
    BY <2>2
  <2>4. ~form'[g].late
    BY <2>1, <2>3, Zenon
  <2> QED BY <2>1, <2>2, <2>4
<1>4. ASSUME NEW g \in Web, ReadMenu(g) \/ SaveChoice(g) PROVE FormInv'
  <2>1. settled' = settled /\ used' = used
    BY <1>4 DEF ReadMenu, SaveChoice, tokens, observer
  <2>2. \A h \in Web : form'[h] # NoForm => form[h] # NoForm /\ form'[h].late = form[h].late
    BY <1>0, <1>4 DEF ReadMenu, SaveChoice, At, Leave
  <2> QED BY <2>1, <2>2
<1>5. ASSUME NEW g \in Web, MarkUsed(g) PROVE FormInv'
  <2>1. settled' \subseteq used'
    BY <1>5 DEF MarkUsed, Fault, ReliableMarks
  <2> QED BY <1>0, <1>5, <2>1 DEF MarkUsed, Leave
<1>6. CASE UNCHANGED vars
  BY <1>6 DEF vars, tokens, observer
<1> QED
  BY <1>1, <1>2, <1>3, <1>4, <1>5, <1>6 DEF Next

(* A form opened after a submission through its link was answered is        *)
(* refused, whatever other statements fail and whenever the process dies.   *)
THEOREM NoLateFormCorrect ==
    ASSUME ReliableMarks
    PROVE  Spec => []NoLateForm
<1>1. Init => FormInv
  BY DEF Init, FormInv, NoLateForm
<1>2. FormInv => NoLateForm
  BY DEF FormInv
<1> QED BY <1>1, <1>2, TypeInit, TypeNext, FormNext, PTL DEF Spec

-----------------------------------------------------------------------------
(* The welcome. *)

\* A delivered welcome leaves the scanner outside of onboard for ever.
WelcomeInv ==
    /\ pc = "send" => onboarded
    /\ welcomed => onboarded /\ pc \in {"idle", "reply"}

LEMMA WelcomeNext ==
    ASSUME TruthfulSends
    PROVE  WelcomeInv /\ [Next]_vars => WelcomeInv'
<1> SUFFICES ASSUME WelcomeInv, [Next]_vars PROVE WelcomeInv'
  OBVIOUS
<1> USE DEF WelcomeInv
<1>1. CASE StartOnboard \/ CycleOnboarded \/ CreateToken \/ Undo
  BY <1>1 DEF StartOnboard, CycleOnboarded, CreateToken, Undo, Goto, user, observer
<1>2. CASE Invite
  BY <1>2 DEF Invite, Goto, user, observer
<1>3. CASE SendWelcome
  BY <1>3 DEF SendWelcome, SendFails, Goto, FailsAfter, Fault, TruthfulSends, user
<1>4. CASE \/ AskPrefs \/ ReplyPrefs \/ SelectAll \/ Expire \/ Crash
           \/ \E picks \in SUBSET Categories : SelectCategories(picks)
  BY <1>4 DEF AskPrefs, ReplyPrefs, SelectAll, SelectCategories, Choose, Expire, Crash, Goto,
              user, observer
<1>5. ASSUME NEW t \in Tokens, GoStale(t) PROVE WelcomeInv'
  BY <1>5 DEF GoStale, user, scanner, observer
<1>6. ASSUME NEW g \in Web,
             \/ \E t \in links, picks \in SUBSET Categories : Lookup(g, t, picks)
             \/ ReadMenu(g) \/ SaveChoice(g) \/ MarkUsed(g)
      PROVE  WelcomeInv'
  BY <1>6 DEF Lookup, ReadMenu, SaveChoice, MarkUsed, Leave, user, scanner, observer
<1>7. CASE UNCHANGED vars
  BY <1>7 DEF vars, user, scanner, observer
<1> QED
  BY <1>1, <1>2, <1>3, <1>4, <1>5, <1>6, <1>7 DEF Next

(* Once the welcome was delivered only a submitted form or a command        *)
(* changes the user's categories, if refused messages are really not        *)
(* delivered.                                                               *)
THEOREM ChoiceKeptCorrect ==
    ASSUME TruthfulSends
    PROVE  Spec => ChoiceKept
<1>1. Init => WelcomeInv
  BY DEF Init, WelcomeInv
<1>2. TypeInv /\ WelcomeInv /\ [Next]_vars
        => [welcomed /\ chosen' # chosen
              => \/ asked' # asked
                 \/ \E g \in Web : At(g, "save") /\ form'[g] # form[g]]_vars
  <2> SUFFICES ASSUME TypeInv, WelcomeInv, Next, welcomed, chosen' # chosen, asked' = asked
               PROVE  \E g \in Web : At(g, "save") /\ form'[g] # form[g]
    OBVIOUS
  <2>1. pc # "invite"
    BY DEF WelcomeInv
  <2>2. asked' = asked => ~SelectAll /\ \A picks : ~SelectCategories(picks)
    <3>1. asked' = asked => asked' # asked + 1
      BY DEF TypeInv
    <3> QED BY <3>1 DEF SelectAll, SelectCategories, Choose
  <2>3. PICK g \in Web : SaveChoice(g)
    BY <2>1, <2>2 DEF Next, StartOnboard, CycleOnboarded, CreateToken, Invite, SendWelcome, Undo,
                AskPrefs, ReplyPrefs, Expire, Crash, GoStale, Lookup, ReadMenu, MarkUsed,
                user
  <2>4. At(g, "save") /\ form'[g] # form[g]
    <3>1. form[g] \in [step : {"view", "save", "mark"}, token : links,
                       picks : SUBSET Categories, late : BOOLEAN]
      BY <2>3 DEF TypeInv, SaveChoice, At
    <3>2. form' = [form EXCEPT ![g].step = "mark"] \/ form' = [form EXCEPT ![g] = NoForm]
      BY <2>3 DEF SaveChoice, Leave
    <3>3. form'[g] = NoForm \/ form'[g].step = "mark"
      BY <3>1, <3>2 DEF TypeInv
    <3> QED BY <2>3, <3>3 DEF SaveChoice, At
  <2> QED BY <2>4
<1> QED BY <1>1, <1>2, TypeInit, TypeNext, WelcomeNext, PTL DEF Spec, ChoiceKept
=============================================================================
