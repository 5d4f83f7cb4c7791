---------------------------- MODULE FerrisKeyPage ----------------------------
(***************************************************************************)
(* ferriskey_login.js, the script of oxidt-auth's FerrisKey login page: its   *)
(* steps, its asynchronous functions (tasks) and the captcha token they       *)
(* spend.                                                                     *)
(*                                                                           *)
(* An action is one run of a handler, from the event or the answer that       *)
(* starts it to its next await.  What the user types, the messages shown and  *)
(* the server's side of the calls are left out; an answer is a choice.        *)
(***************************************************************************)
EXTENDS LoginPage

VARIABLES
    passwordOffered,  \* "Use password instead" is not hidden
    captcha,          \* hasCaptcha
    token             \* the captcha token in the form

page == <<step, loading, passwordOffered>>
vars == <<page, captcha, token, ceremony, task>>

-----------------------------------------------------------------------------

Steps == {"email", "detecting", "passkey", "password", "otp", "tos", "verifying", "success"}

\* A token is solved, or was sent to be verified and is spent.
Tokens == {"none", "solved", "spent"}

\* aborted: its get() was told to abort.
New(kind, pc) == [kind |-> kind, pc |-> pc, fresh |-> TRUE, aborted |-> FALSE]

Idle == New("idle", "end")

End(t) == [task EXCEPT ![t] = Idle]

\* cancelCeremony
Cancel(f) == IF ceremony = NoTask THEN f ELSE [f EXCEPT ![ceremony].aborted = TRUE]

\* show and setLoading, with the tasks that are left.
Show(f, s, l) ==
    /\ step' = s
    /\ loading' = l
    /\ task' = f

\* proceedAfterLogin: the terms, or the end, where the buttons stay disabled.
Proceed(f) ==
    \E s \in {"tos", "success"} : Show(f, s, s = "success" /\ loading)

-----------------------------------------------------------------------------
(* What the user does.                                                        *)

\* The forms and buttons that call the server: the step they are on, and the
\* one they show until it answers.
Forms == [submit |-> <<"email", "detecting">>, otp |-> <<"otp", "verifying">>,
          password |-> <<"password", "verifying">>, resend |-> <<"otp", "otp">>,
          terms |-> <<"tos", "tos">>]

\* onEmailSubmit, onOtpSubmit, onPasswordSubmit, resend and tos-accept.
Submit ==
    \E kind \in DOMAIN Forms :
        /\ Press({Forms[kind][1]})
        /\ Free # {}
        /\ Show([task EXCEPT ![Slot] = New(kind, "post")], Forms[kind][2], TRUE)
        /\ UNCHANGED <<passwordOffered, captcha, token, ceremony>>

\* Mutant of Back: the prompt is left open.
BackWithoutCancel ==
    /\ Press({"passkey", "password", "otp"})
    /\ Show(Bump(task), "email", FALSE)
    /\ UNCHANGED <<passwordOffered, captcha, token, ceremony>>

Back ==
    /\ Press({"passkey", "password", "otp"})
    /\ Show(Cancel(Bump(task)), "email", FALSE)
    /\ UNCHANGED <<passwordOffered, captcha, token, ceremony>>

UsePassword ==
    /\ Press({"otp"})
    /\ passwordOffered
    /\ Show(task, "password", loading)
    /\ UNCHANGED <<passwordOffered, captcha, token, ceremony>>

-----------------------------------------------------------------------------
(* The answers.                                                              *)

\* triggerPasskey and getPasskey: the request is made whatever the browser
\* still has in flight.
Trigger(t) ==
    /\ Show([Bump(task) EXCEPT ![t] = New("passkey", "get")], "passkey", FALSE)
    /\ ceremony' = t

\* get() settles: the user picked a passkey, or it was aborted, cancelled or
\* refused, which leaves the page where it is.
GetSettles(t) ==
    /\ task[t].pc = "get"
    /\ ceremony' = IF ceremony = t THEN NoTask ELSE ceremony
    /\ \/ Show(End(t), step, loading)
       \/ /\ task[t].fresh
          /\ ~task[t].aborted
          /\ Gets = {t}
          /\ Show([task EXCEPT ![t].pc = "verify"], "verifying", loading)
    /\ UNCHANGED <<passwordOffered, captcha, token>>

PasskeyVerified(t) ==
    /\ task[t].pc = "verify"
    /\ \/ /\ ~task[t].fresh
          /\ Show(End(t), step, loading)
       \/ /\ task[t].fresh
          /\ \/ Proceed(End(t))
             \/ Show(End(t), "passkey", FALSE)
    /\ UNCHANGED <<passwordOffered, captcha, token, ceremony>>

\* /auth/session/start answers, or fails: onEmailSubmit goes on.
Started(t) ==
    /\ task[t].kind = "submit"
    /\ task[t].pc = "post"
    /\ \/ /\ passwordOffered' \in BOOLEAN
          /\ \/ Trigger(t)
             \/ /\ \E s \in IF passwordOffered' THEN {"password"} ELSE {"otp", "email"} :
                       Show(End(t), s, FALSE)
                /\ UNCHANGED ceremony
             \/ /\ IF captcha THEN Show([task EXCEPT ![t].pc = "token"], "email", loading)
                              ELSE Show(End(t), "email", FALSE)
                /\ UNCHANGED ceremony
       \/ /\ Show(End(t), "email", FALSE)
          /\ UNCHANGED <<passwordOffered, ceremony>>
    /\ UNCHANGED <<captcha, token>>

\* completeCaptcha: the widget's token, or none within 12 seconds.
TokenPolled(t) ==
    /\ task[t].pc = "token"
    /\ \/ /\ token # "none"
          /\ Show([task EXCEPT ![t].pc = "captcha"], step, loading)
          /\ token' = "spent"
       \/ /\ token = "none"
          /\ Show(End(t), step, FALSE)
          /\ UNCHANGED token
    /\ UNCHANGED <<passwordOffered, captcha, ceremony>>

\* Mutant of Reset: the spent token stays in the form.
ResetNothing == token' = token

\* resetCaptcha
Reset == token' = "none"

\* /auth/session/captcha/verify answers: a code was mailed, or the email step
\* stays for another try.
CaptchaVerified(t) ==
    /\ task[t].pc = "captcha"
    /\ \E s \in {"otp", step} : Show(End(t), s, FALSE)
    /\ Reset
    /\ UNCHANGED <<passwordOffered, captcha, ceremony>>

\* The other calls: the answer that goes on, and the refusal or failure.
Posted(t) ==
    /\ task[t].pc = "post"
    /\ LET kind == task[t].kind
       IN  \/ /\ kind \in {"otp", "password", "terms"}
              /\ Proceed(End(t))
           \/ /\ kind # "submit"
              /\ Show(End(t), Forms[kind][1], FALSE)
    /\ UNCHANGED <<passwordOffered, captcha, token, ceremony>>

\* The widget solves a challenge into the form.
Solve ==
    /\ captcha
    /\ token = "none"
    /\ token' = "solved"
    /\ UNCHANGED <<page, captcha, ceremony, task>>

-----------------------------------------------------------------------------

\* The script has run, at the email step or, after a login elsewhere, the terms.
Init ==
    /\ step \in {"email", "tos"}
    /\ loading = FALSE
    /\ passwordOffered = FALSE
    /\ captcha \in BOOLEAN
    /\ token = "none"
    /\ ceremony = NoTask
    /\ task = [t \in Pool |-> Idle]

Answered(t) ==
    \/ PasskeyVerified(t) \/ Started(t) \/ TokenPolled(t) \/ CaptchaVerified(t) \/ Posted(t)

Next ==
    \/ Submit \/ Back \/ UsePassword \/ Solve
    \/ \E t \in Pool : Answered(t) \/ GetSettles(t)

\* A call is answered or fails.  A get() may stay open for ever.
Spec == Init /\ [][Next]_vars /\ \A t \in Pool : WF_vars(Answered(t))

-----------------------------------------------------------------------------
(* Properties.                                                               *)

\* The state of the page and its functions in flight.
TypeOK ==
    /\ step \in Steps
    /\ {loading, passwordOffered, captcha} \subseteq BOOLEAN
    /\ token \in Tokens
    /\ ceremony \in Pool \cup {NoTask}
    /\ task \in [Pool -> [kind : {"idle", "passkey"} \cup DOMAIN Forms,
                           pc : {"end", "post", "token", "captcha", "get", "verify"},
                           fresh : BOOLEAN, aborted : BOOLEAN]]

\* "Leaving the page must not leave a ceremony blocking the document", and Back
\* neither: a passkey prompt that nobody told to go away is the slot's, is of
\* the attempt under way, and has the passkey step behind it.
PromptOnItsStep ==
    \A t \in Gets : ~task[t].aborted => ceremony = t /\ task[t].fresh /\ step = "passkey"

\* "A fresh one lets Back and another address verify again instead of failing on
\* the consumed challenge": no token is sent twice.
SendsFreshToken ==
    \A t \in Pool : task'[t].pc = "captcha" /\ task[t].pc # "captcha" => token = "solved"
TokenSentOnce == [][SendsFreshToken]_vars

\* Nor does the page stay disabled, or on a step without a button.
Waits == loading \/ step \in {"detecting", "verifying"}
EveryWaitEnds == Waits ~> ~Waits \/ step = "success"

=============================================================================
