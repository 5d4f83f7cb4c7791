---------------------------- MODULE MCLoginPages ----------------------------
(* Both login pages of oxidt-auth for TLC.  A behaviour is one page: the     *)
(* variables of the other keep the values they start with.                   *)
EXTENDS LoginPage

VARIABLES
    mode,
    codeOffered, condDisabled, waiting, late, finished,
    passwordOffered, captcha, token

Local == INSTANCE LocalLoginPage
FerrisKey == INSTANCE FerrisKeyPage

localOnly == <<codeOffered, condDisabled, waiting, late, finished>>
ferrisKeyOnly == <<passwordOffered, captcha, token>>
vars == <<mode, step, loading, ceremony, task, localOnly, ferrisKeyOnly>>

Init ==
    \/ /\ mode = "local"
       /\ Local!Init
       /\ passwordOffered = FALSE
       /\ captcha = FALSE
       /\ token = "none"
    \/ /\ mode = "ferriskey"
       /\ FerrisKey!Init
       /\ codeOffered = FALSE
       /\ condDisabled = FALSE
       /\ waiting = <<>>
       /\ late = FALSE
       /\ finished = FALSE

\* A step of the page that this behaviour is.
OnLocal(A) == mode = "local" /\ A /\ UNCHANGED <<mode, ferrisKeyOnly>>
OnFerrisKey(A) == mode = "ferriskey" /\ A /\ UNCHANGED <<mode, localOnly>>

Next == OnLocal(Local!Next) \/ OnFerrisKey(FerrisKey!Next)

\* The fairness of each module, for its page.
Fairness ==
    /\ WF_vars(OnLocal(Local!Continue))
    /\ \A t \in Pool \cup {Autofill} :
           /\ WF_vars(OnLocal(Local!Calls(t)))
           /\ WF_vars(OnLocal(Local!Timeout(t)))
    /\ \A t \in Pool : WF_vars(OnFerrisKey(FerrisKey!Answered(t)))

Spec == Init /\ [][Next]_vars /\ Fairness

-----------------------------------------------------------------------------
(* The properties of the two modules, each on its page.                      *)

\* The state of either page.
TypeOK ==
    /\ mode \in {"local", "ferriskey"}
    /\ mode = "local" => Local!TypeOK
    /\ mode = "ferriskey" => FerrisKey!TypeOK

\* The local page has one WebAuthn request in flight (runCeremony).
OneCeremony == mode = "local" => Local!OneCeremony

\* A ceremony the user left on the local page never acts on it (attempt).
LeftNeverActs == [][mode = "local" => Local!LeftIsInert]_vars

\* An open prompt of the FerrisKey page has its step behind it (cancelCeremony).
PromptOnItsStep == mode = "ferriskey" => FerrisKey!PromptOnItsStep

\* The FerrisKey page sends no captcha token twice (resetCaptcha).
TokenSentOnce == [][mode = "ferriskey" => FerrisKey!SendsFreshToken]_vars

\* Neither page stays disabled or on a step without a button (setLoading, show).
EveryWaitEnds ==
    /\ (mode = "local" /\ Local!Waits) ~> (mode = "local" => Local!WaitOver)
    /\ (mode = "ferriskey" /\ FerrisKey!Waits) ~> (~FerrisKey!Waits \/ step = "success")
=============================================================================
