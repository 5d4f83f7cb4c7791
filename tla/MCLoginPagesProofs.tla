-------------------------- MODULE MCLoginPagesProofs --------------------------
(***************************************************************************)
(* The safety properties of the two login pages as MCLoginPages composes     *)
(* them.  Each page's properties are proved in a module of its own, whose    *)
(* instance here is one of the page's module besides the one MCLoginPages    *)
(* makes: the first lemmas say that the two instances agree.                 *)
(***************************************************************************)
EXTENDS MCLoginPages, TLAPS

LocalProofs == INSTANCE LocalLoginPageProofs
FerrisKeyProofs == INSTANCE FerrisKeyPageProofs

PagesInv ==
    /\ mode \in {"local", "ferriskey"}
    /\ mode = "local" => LocalProofs!IInv
    /\ mode = "ferriskey" => FerrisKeyProofs!IInv

-----------------------------------------------------------------------------
(* The instances agree.                                                      *)

LEMMA SameLocalUser == Local!User <=> LocalProofs!User
  BY DEF Local!Tasks, LocalProofs!Tasks, Local!Idle, LocalProofs!Idle, Local!New, LocalProofs!New,
      Local!Free, LocalProofs!Free, Local!Slot, LocalProofs!Slot, Local!shown, LocalProofs!shown,
      Local!page, LocalProofs!page, Local!Display, LocalProofs!Display, Local!Armed,
      LocalProofs!Armed, Local!Show, LocalProofs!Show, Local!End, LocalProofs!End, Local!Bump,
      LocalProofs!Bump, Local!Cancel, LocalProofs!Cancel, Local!Begin, LocalProofs!Begin,
      Local!RunCeremony, LocalProofs!RunCeremony, Local!Gets, LocalProofs!Gets, Local!Ceremonies,
      LocalProofs!Ceremonies, Local!Trigger, LocalProofs!Trigger, Local!Released,
      LocalProofs!Released, Local!Quiet, LocalProofs!Quiet, Local!Leave, LocalProofs!Leave,
      Local!Press, LocalProofs!Press, Local!Call, LocalProofs!Call, Local!Forms, LocalProofs!Forms,
      Local!EmailSubmit, LocalProofs!EmailSubmit, Local!Passkey, LocalProofs!Passkey, Local!UseCode,
      LocalProofs!UseCode, Local!PasskeyBack, LocalProofs!PasskeyBack, Local!Retry,
      LocalProofs!Retry, Local!Back, LocalProofs!Back, Local!OfferSkip, LocalProofs!OfferSkip,
      Local!Submit, LocalProofs!Submit, Local!User, LocalProofs!User

LEMMA SameLocalContinue == Local!Continue <=> LocalProofs!Continue
  BY DEF Local!Tasks, LocalProofs!Tasks, Local!Idle, LocalProofs!Idle, Local!New, LocalProofs!New,
      Local!shown, LocalProofs!shown, Local!page, LocalProofs!page, Local!Display,
      LocalProofs!Display, Local!Armed, LocalProofs!Armed, Local!Show, LocalProofs!Show, Local!End,
      LocalProofs!End, Local!Begin, LocalProofs!Begin, Local!Ceremonies, LocalProofs!Ceremonies,
      Local!Released, LocalProofs!Released, Local!Quiet, LocalProofs!Quiet, Local!First,
      LocalProofs!First, Local!Continue, LocalProofs!Continue

LEMMA SameLocalAnswers == \A t : Local!Answered(t) <=> LocalProofs!Answered(t)
  BY DEF Local!Tasks, LocalProofs!Tasks, Local!Idle, LocalProofs!Idle, Local!New, LocalProofs!New,
      Local!Gets, LocalProofs!Gets, Local!shown, LocalProofs!shown, Local!page, LocalProofs!page,
      Local!Display, LocalProofs!Display, Local!Armed, LocalProofs!Armed, Local!Show,
      LocalProofs!Show, Local!End, LocalProofs!End, Local!Bump, LocalProofs!Bump, Local!Cancel,
      LocalProofs!Cancel, Local!Begin, LocalProofs!Begin, Local!RunCeremony,
      LocalProofs!RunCeremony, Local!Ceremonies, LocalProofs!Ceremonies, Local!Trigger,
      LocalProofs!Trigger, Local!Released, LocalProofs!Released, Local!Quiet, LocalProofs!Quiet,
      Local!Ends, LocalProofs!Ends, Local!Proceed, LocalProofs!Proceed, Local!SlotUnchanged,
      LocalProofs!SlotUnchanged, Local!Disable, LocalProofs!Disable, Local!Stale, LocalProofs!Stale,
      Local!Failed, LocalProofs!Failed, Local!Options, LocalProofs!Options, Local!Available,
      LocalProofs!Available, Local!Release, LocalProofs!Release, Local!GetSettles,
      LocalProofs!GetSettles, Local!PasskeyVerified, LocalProofs!PasskeyVerified, Local!Started,
      LocalProofs!Started, Local!Captcha, LocalProofs!Captcha, Local!Posted, LocalProofs!Posted,
      Local!Answered, LocalProofs!Answered

LEMMA SameLocalTimeout == \A t : Local!Timeout(t) <=> LocalProofs!Timeout(t)
  BY DEF Local!Tasks, LocalProofs!Tasks, Local!shown, LocalProofs!shown, Local!page,
      LocalProofs!page, Local!Released, LocalProofs!Released, Local!Quiet, LocalProofs!Quiet,
      Local!Timeout, LocalProofs!Timeout

LEMMA SameLocalNext == Local!Next <=> LocalProofs!Next
  BY SameLocalUser, SameLocalContinue, SameLocalAnswers, SameLocalTimeout
  DEF Local!Tasks, LocalProofs!Tasks, Local!Next, LocalProofs!Next

LEMMA SameLocalInit == Local!Init <=> LocalProofs!Init
  BY DEF Local!Tasks, LocalProofs!Tasks, Local!Idle, LocalProofs!Idle, Local!New, LocalProofs!New,
      Local!Init, LocalProofs!Init

LEMMA SameLocalProperties ==
    /\ Local!TypeOK <=> LocalProofs!TypeOK
    /\ Local!OneCeremony <=> LocalProofs!OneCeremony
    /\ Local!LeftIsInert <=> LocalProofs!LeftIsInert
  BY DEF Local!Tasks, LocalProofs!Tasks, Local!Steps, LocalProofs!Steps, Local!Ceremonies,
      LocalProofs!Ceremonies, Local!Forms, LocalProofs!Forms, Local!Gets, LocalProofs!Gets,
      Local!shown, LocalProofs!shown, Local!page, LocalProofs!page, Local!TypeOK,
      LocalProofs!TypeOK, Local!OneCeremony, LocalProofs!OneCeremony, Local!LeftIsInert,
      LocalProofs!LeftIsInert

LEMMA SameFerrisKeyNext == FerrisKey!Next <=> FerrisKeyProofs!Next
  BY DEF FerrisKey!page, FerrisKeyProofs!page, FerrisKey!Idle, FerrisKeyProofs!Idle, FerrisKey!New,
      FerrisKeyProofs!New, FerrisKey!Free, FerrisKeyProofs!Free, FerrisKey!Slot,
      FerrisKeyProofs!Slot, FerrisKey!Gets, FerrisKeyProofs!Gets, FerrisKey!Press,
      FerrisKeyProofs!Press, FerrisKey!Bump, FerrisKeyProofs!Bump, FerrisKey!Forms,
      FerrisKeyProofs!Forms, FerrisKey!End, FerrisKeyProofs!End, FerrisKey!Cancel,
      FerrisKeyProofs!Cancel, FerrisKey!Show, FerrisKeyProofs!Show, FerrisKey!Proceed,
      FerrisKeyProofs!Proceed, FerrisKey!Submit, FerrisKeyProofs!Submit, FerrisKey!Back,
      FerrisKeyProofs!Back, FerrisKey!UsePassword, FerrisKeyProofs!UsePassword, FerrisKey!Solve,
      FerrisKeyProofs!Solve, FerrisKey!Trigger, FerrisKeyProofs!Trigger, FerrisKey!GetSettles,
      FerrisKeyProofs!GetSettles, FerrisKey!PasskeyVerified, FerrisKeyProofs!PasskeyVerified,
      FerrisKey!Started, FerrisKeyProofs!Started, FerrisKey!TokenPolled,
      FerrisKeyProofs!TokenPolled, FerrisKey!Reset, FerrisKeyProofs!Reset,
      FerrisKey!CaptchaVerified, FerrisKeyProofs!CaptchaVerified, FerrisKey!Posted,
      FerrisKeyProofs!Posted, FerrisKey!Answered, FerrisKeyProofs!Answered, FerrisKey!Next,
      FerrisKeyProofs!Next

LEMMA SameFerrisKeyInit == FerrisKey!Init <=> FerrisKeyProofs!Init
  BY DEF FerrisKey!Idle, FerrisKeyProofs!Idle, FerrisKey!New, FerrisKeyProofs!New, FerrisKey!Init,
      FerrisKeyProofs!Init

LEMMA SameFerrisKeyProperties ==
    /\ FerrisKey!TypeOK <=> FerrisKeyProofs!TypeOK
    /\ FerrisKey!PromptOnItsStep <=> FerrisKeyProofs!PromptOnItsStep
    /\ FerrisKey!SendsFreshToken <=> FerrisKeyProofs!SendsFreshToken
  BY DEF FerrisKey!Steps, FerrisKeyProofs!Steps, FerrisKey!Tokens, FerrisKeyProofs!Tokens,
      FerrisKey!Forms, FerrisKeyProofs!Forms, FerrisKey!Gets, FerrisKeyProofs!Gets,
      FerrisKey!TypeOK, FerrisKeyProofs!TypeOK, FerrisKey!PromptOnItsStep,
      FerrisKeyProofs!PromptOnItsStep, FerrisKey!SendsFreshToken, FerrisKeyProofs!SendsFreshToken

-----------------------------------------------------------------------------
(* A step of the composition is a step of its page.                          *)

LEMMA PageStep ==
    ASSUME PagesInv, [Next]_vars
    PROVE  /\ mode' = mode
           /\ mode = "local" => [LocalProofs!Next]_(LocalProofs!vars)
           /\ mode = "ferriskey" => [FerrisKeyProofs!Next]_(FerrisKeyProofs!vars)
<1>1. CASE OnLocal(Local!Next)
  BY <1>1, SameLocalNext DEF OnLocal
<1>2. CASE OnFerrisKey(FerrisKey!Next)
  BY <1>2, SameFerrisKeyNext DEF OnFerrisKey
<1>3. CASE UNCHANGED vars
  BY <1>3
  DEF vars, localOnly, ferrisKeyOnly, LocalProofs!vars, LocalProofs!page, LocalProofs!shown,
      FerrisKeyProofs!vars, FerrisKeyProofs!page
<1> QED
  BY <1>1, <1>2, <1>3 DEF Next

LEMMA InitPagesInv == Init => PagesInv
<1>1. LocalProofs!Init => LocalProofs!IInv
  BY LocalProofs!InitIInv, TasksAssumption
<1>2. FerrisKeyProofs!Init => FerrisKeyProofs!IInv
  BY FerrisKeyProofs!InitIInv, TasksAssumption
<1> QED
  BY <1>1, <1>2, SameLocalInit, SameFerrisKeyInit DEF Init, PagesInv

LEMMA PagesInvInductive == PagesInv /\ [Next]_vars => PagesInv'
<1> SUFFICES ASSUME PagesInv, [Next]_vars PROVE PagesInv'
  OBVIOUS
<1>1. CASE mode = "local"
  <2>1. LocalProofs!IInv /\ [LocalProofs!Next]_(LocalProofs!vars) => LocalProofs!IInv'
    BY LocalProofs!IInvInductive, TasksAssumption
  <2> QED
    BY <1>1, <2>1, PageStep DEF PagesInv
<1>2. CASE mode = "ferriskey"
  <2>1. FerrisKeyProofs!IInv /\ [FerrisKeyProofs!Next]_(FerrisKeyProofs!vars) => FerrisKeyProofs!IInv'
    BY FerrisKeyProofs!IInvInductive, TasksAssumption
  <2> QED
    BY <1>2, <2>1, PageStep DEF PagesInv
<1> QED
  BY <1>1, <1>2 DEF PagesInv

\* Whichever page it is, its invariant holds in every state.
THEOREM Invariance == Spec => []PagesInv
<1>1. Init => PagesInv
  BY InitPagesInv
<1>2. PagesInv /\ [Next]_vars => PagesInv'
  BY PagesInvInductive
<1> QED
  BY <1>1, <1>2, PTL DEF Spec

-----------------------------------------------------------------------------
(* The theorems.                                                             *)

\* Either page and its functions in flight have their types.
THEOREM TypeCorrect == Spec => []TypeOK
<1>1. PagesInv => TypeOK
  BY LocalProofs!IInvTypes, SameLocalProperties, SameFerrisKeyProperties, TasksAssumption
  DEF PagesInv, TypeOK, FerrisKeyProofs!IInv
<1> QED
  BY <1>1, Invariance, PTL

\* The browser has no WebAuthn request of the local page but the one in the slot,
\* unless a wait for a release gave up or Back came over a call (runCeremony).
THEOREM OneRequest == Spec => []OneCeremony
<1>1. PagesInv => OneCeremony
  BY LocalProofs!IInvOneCeremony, SameLocalProperties, TasksAssumption DEF PagesInv, OneCeremony
<1> QED
  BY <1>1, Invariance, PTL

\* A ceremony that the user left on the local page never moves it, nor turns the
\* autofill off (attempt).
THEOREM LeftIsOver == Spec => LeftNeverActs
<1>1. PagesInv /\ [Next]_vars => [mode = "local" => Local!LeftIsInert]_vars
  BY LocalProofs!InertStep, PageStep, SameLocalProperties, TasksAssumption DEF PagesInv
<1> QED
  BY <1>1, Invariance, PTL DEF Spec, LeftNeverActs

\* A passkey prompt of the FerrisKey page that nobody told to go away belongs to
\* the attempt under way and to the step that shows (cancelCeremony).
THEOREM PromptHasItsStep == Spec => []PromptOnItsStep
<1>1. PagesInv => PromptOnItsStep
  BY SameFerrisKeyProperties DEF PagesInv, PromptOnItsStep, FerrisKeyProofs!IInv
<1> QED
  BY <1>1, Invariance, PTL

\* The FerrisKey page sends no captcha token to be verified twice (resetCaptcha).
THEOREM TokenGoesOnce == Spec => TokenSentOnce
<1>1. PagesInv /\ [Next]_vars => [mode = "ferriskey" => FerrisKey!SendsFreshToken]_vars
  BY FerrisKeyProofs!TokenStep, PageStep, SameFerrisKeyProperties, TasksAssumption DEF PagesInv
<1> QED
  BY <1>1, Invariance, PTL DEF Spec, TokenSentOnce

=============================================================================
