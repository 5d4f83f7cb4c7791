--------------------------- MODULE LocalLoginPage ---------------------------
(***************************************************************************)
(* local_login.js, the script of oxidt-auth's self-owned login page: which   *)
(* step shows, and the asynchronous functions (tasks) that move it.          *)
(*                                                                           *)
(* The browser runs one handler at a time, from the event or the answer that *)
(* starts it to its next await of the network, of WebAuthn or of a timer: an *)
(* action is one such run.  The functions that awaited the release of a      *)
(* ceremony go on in microtasks, before any other event.  Awaits that        *)
(* nothing happens between are taken as one: the poll for a captcha token    *)
(* and its verification, the three calls of a passkey enrollment.            *)
(*                                                                           *)
(* The browser supports WebAuthn.  What the user types, the messages shown   *)
(* and the server's side of the calls are left out; an answer is a choice.   *)
(***************************************************************************)
EXTENDS LoginPage, Naturals, Sequences, FiniteSets

VARIABLES
    codeOffered,  \* "Use email code instead" is not hidden
    condDisabled,
    waiting,      \* tasks in cancelCeremony, in the order they came
    late,         \* history: a wait gave up after its 2 seconds, or Back came over
                  \* a call and enabled the buttons
    finished      \* history: the page sent the browser on

shown == <<step, loading, finished>>
page == <<shown, codeOffered, condDisabled>>
vars == <<page, ceremony, task, waiting, late>>

-----------------------------------------------------------------------------

\* condRunning admits one autofill.
Tasks == Pool \cup {Autofill}

Steps == {"email", "passkey", "passkey-retry", "verifying", "password", "otp",
          "offer", "tos", "success"}

Ceremonies == {"autofill", "passkey", "trigger"}

\* aborted: its get() was told to abort.  on: the task whose release it awaits.
\* left: history, the user has since pressed a button that leaves a ceremony.
New(kind, pc) ==
    [kind |-> kind, pc |-> pc, fresh |-> TRUE, aborted |-> FALSE, on |-> NoTask, left |-> FALSE]

Idle == New("idle", "end")

Released == {t \in Tasks : task[t].pc = "wait" /\ task[t].on = NoTask}

\* No microtask is pending: the browser takes the next event.
Quiet == Released = {}

Leave(f) == [t \in Tasks |-> IF f[t] = Idle THEN Idle ELSE [f[t] EXCEPT !.left = TRUE]]

End(f, t) == [f EXCEPT ![t] = Idle]

\* armConditional, of a page that comes to step s.
Armed(f, s, l) ==
    IF s = "email" /\ ~l /\ ~condDisabled /\ f[Autofill] = Idle
    THEN [f EXCEPT ![Autofill] = New("autofill", "opts")]
    ELSE f

\* The step that comes to show, and whether it loads.
Display(s, l) ==
    /\ step' = s
    /\ loading' = l
    /\ finished' = (finished \/ s = "success")

\* show and setLoading; either one arms the autofill.
Show(f, s, l) ==
    /\ Display(s, l)
    /\ task' = Armed(f, s, l)

-----------------------------------------------------------------------------
(* The ceremony slot.                                                        *)

\* cancelCeremony, of task t, of a page that comes to step s: abort, and wait.
Cancel(f, t, s, l) ==
    /\ Display(s, l)
    /\ task' = [f EXCEPT ![t].pc = "wait", ![t].on = ceremony, ![ceremony].aborted = TRUE]
    /\ waiting' = Append(waiting, t)
    /\ UNCHANGED ceremony

\* runCeremony, once the slot is released.
Begin(f, t) ==
    IF f[t].fresh
    THEN /\ task' = [f EXCEPT ![t].pc = "get"]
         /\ ceremony' = t
    ELSE /\ task' = End(f, t)
         /\ UNCHANGED ceremony

\* Mutant of RunCeremony: the other request is aborted, its release not awaited.
RunWithoutWaiting(f, t, s, l) ==
    /\ Display(s, l)
    /\ Begin(IF ceremony = NoTask THEN f ELSE [f EXCEPT ![ceremony].aborted = TRUE], t)
    /\ UNCHANGED waiting

\* runCeremony.
RunCeremony(f, t, s, l) ==
    \/ /\ ceremony # NoTask
       /\ Cancel(f, t, s, l)
    \/ /\ ceremony = NoTask
       /\ Display(s, l)
       /\ Begin(f, t)
       /\ UNCHANGED waiting

\* triggerPasskey.  Only a response with options leads here, so it has some.
Trigger(f, t) ==
    RunCeremony([Bump(f) EXCEPT ![t] = New("trigger", "get")], t, "passkey", FALSE)

-----------------------------------------------------------------------------
(* What the user does, between two events.                                   *)

\* A call that disables the buttons until it is answered.
Call(f, t, kind) == [f EXCEPT ![t] = New(kind, "post")]

\* onEmailSubmit, of a well-formed address: the flow is email-bound from here.
EmailSubmit ==
    /\ Press({"email"})
    /\ Free # {}
    /\ LET f == Call(Bump(Leave(task)), Slot, "submit")
       IN  \/ /\ ceremony = NoTask
              /\ Show(f, step, TRUE)
              /\ UNCHANGED <<ceremony, waiting>>
           \/ /\ ceremony # NoTask
              /\ Cancel(f, Slot, step, TRUE)
    /\ UNCHANGED <<codeOffered, condDisabled, late>>

\* actions.passkey: a ceremony for an account that only the key names.
Passkey ==
    /\ Press({"email"})
    /\ Free # {}
    /\ Show([Bump(Leave(task)) EXCEPT ![Slot] = New("passkey", "opts")], "passkey", FALSE)
    /\ codeOffered' = FALSE
    /\ UNCHANGED <<condDisabled, ceremony, waiting, late>>

\* actions["use-code"]
UseCode ==
    /\ Press({"passkey", "passkey-retry", "password"})
    /\ codeOffered
    /\ Free # {}
    /\ LET f == Call(Bump(Leave(task)), Slot, "code")
       IN  \/ /\ ceremony = NoTask
              /\ Show(f, step, TRUE)
              /\ UNCHANGED <<ceremony, waiting>>
           \/ /\ ceremony # NoTask
              /\ Cancel(f, Slot, step, TRUE)
    /\ UNCHANGED <<codeOffered, condDisabled, late>>

\* actions["passkey-back"]: it does not disable the buttons while it waits.
PasskeyBack ==
    /\ Press({"passkey", "passkey-retry"})
    /\ LET f == Bump(Leave(task))
       IN  \/ /\ ceremony = NoTask
              /\ Show(f, "email", FALSE)
              /\ UNCHANGED <<ceremony, waiting>>
           \/ /\ ceremony # NoTask
              /\ Free # {}
              /\ Cancel([f EXCEPT ![Slot] = New("back", "wait")], Slot, step, loading)
    /\ UNCHANGED <<codeOffered, condDisabled, late>>

Retry ==
    /\ Press({"passkey-retry"})
    /\ Free # {}
    /\ Trigger(Leave(task), Slot)
    /\ UNCHANGED <<codeOffered, condDisabled, late>>

Back ==
    /\ Press({"password", "otp"})
    /\ Show(task, "email", FALSE)
    /\ UNCHANGED <<codeOffered, condDisabled, ceremony, waiting, late>>

OfferSkip ==
    /\ Press({"offer"})
    /\ Show(task, "success", FALSE)
    /\ UNCHANGED <<codeOffered, condDisabled, ceremony, waiting, late>>

\* onOtpSubmit, onPasswordSubmit, resend, offer-add and tos-accept: the step
\* they are on, and the one they show while they load.
Forms == [otp |-> <<"otp", "verifying">>, password |-> <<"password", "password">>,
          resend |-> <<"otp", "otp">>, enroll |-> <<"offer", "offer">>,
          terms |-> <<"tos", "tos">>]

Submit ==
    \E kind \in DOMAIN Forms :
        /\ Press({Forms[kind][1]})
        /\ Free # {}
        /\ Show(Call(task, Slot, kind), Forms[kind][2], TRUE)
        /\ UNCHANGED <<codeOffered, condDisabled, ceremony, waiting, late>>

User ==
    /\ Quiet
    /\ EmailSubmit \/ Passkey \/ UseCode \/ PasskeyBack \/ Retry \/ Back \/ OfferSkip \/ Submit

-----------------------------------------------------------------------------
(* The answers.                                                              *)

\* proceedAfterLogin and routeAfterTerms: the terms, the offer of a passkey, or
\* the end.  The buttons stay disabled at the end.
\* Mutant of Ends: a step that the markup of the page lacks.
MisnamedEnds == {"offer", "done"}

Ends == {"offer", "success"}
Proceed(f) ==
    \E s \in Ends \cup {"tos"} : Show(f, s, s = "success" /\ loading)

\* A step that leaves the ceremony slot alone.
SlotUnchanged == UNCHANGED <<codeOffered, ceremony, waiting, late>>

\* Quietly: an autofill that failed is not tried again.
Disable(f) ==
    /\ condDisabled' = TRUE
    /\ task' = f
    /\ UNCHANGED shown

\* A ceremony the user has left returns.
Stale(t) ==
    /\ ~task[t].fresh
    /\ task' = End(task, t)
    /\ UNCHANGED page

\* Where a ceremony that failed leads.
Failed(f, t) ==
    \/ /\ task[t].kind = "autofill"
       /\ IF task[t].aborted THEN task' = f /\ UNCHANGED page
                             ELSE Disable(f) /\ UNCHANGED codeOffered
    \/ /\ task[t].kind = "passkey"
       /\ Show(f, "email", loading)
       /\ UNCHANGED <<codeOffered, condDisabled>>
    \/ /\ task[t].kind = "trigger"
       /\ Show(f, "passkey-retry", FALSE)
       /\ UNCHANGED <<codeOffered, condDisabled>>

\* conditionalOptions answers.
Options(t) ==
    /\ task[t].pc = "opts"
    /\ \/ /\ Stale(t)
          /\ UNCHANGED <<ceremony, waiting>>
       \/ /\ task[t].fresh
          /\ task[t].kind = "autofill"
          /\ task' = [task EXCEPT ![t].pc = "available"]
          /\ UNCHANGED <<page, ceremony, waiting>>
       \/ /\ task[t].fresh
          /\ task[t].kind = "passkey"
          /\ RunCeremony(task, t, step, loading)
          /\ UNCHANGED <<codeOffered, condDisabled>>
       \/ /\ task[t].fresh
          /\ Failed(End(task, t), t)
          /\ UNCHANGED <<ceremony, waiting>>
    /\ UNCHANGED late

\* isConditionalMediationAvailable answers.  Nothing is checked before
\* runCeremony aborts what holds the slot.
Available(t) ==
    /\ task[t].pc = "available"
    /\ \/ /\ RunCeremony(task, t, step, loading)
          /\ UNCHANGED <<codeOffered, condDisabled>>
       \/ /\ Stale(t)
          /\ UNCHANGED <<ceremony, waiting>>
       \/ /\ task[t].fresh
          /\ Failed(End(task, t), t)
          /\ UNCHANGED <<ceremony, waiting>>
    /\ UNCHANGED late

\* The slot is given up, and those that await this release go on next.
Release(t) ==
    [x \in Tasks |-> IF task[x].on = t THEN [task[x] EXCEPT !.on = NoTask] ELSE task[x]]

\* get() settles: it was aborted, it failed, or the user picked a passkey (in
\* the email field, for the autofill).  The browser serves one request at a time.
GetSettles(t) ==
    /\ task[t].pc = "get"
    /\ ceremony' = IF ceremony = t THEN NoTask ELSE ceremony
    /\ LET f == Release(t)
       IN  \/ /\ ~task[t].fresh
              /\ task' = End(f, t)
              /\ UNCHANGED page
           \/ /\ task[t].fresh
              /\ Failed(End(f, t), t)
           \/ /\ task[t].fresh
              /\ ~task[t].aborted
              /\ Gets = {t}
              /\ task[t].kind = "autofill" => step = "email"
              /\ Show([f EXCEPT ![t].pc = "verify"], "verifying", loading)
              /\ UNCHANGED <<codeOffered, condDisabled>>
    /\ UNCHANGED <<waiting, late>>

\* /auth/session/passkey/verify answers.  An autofill whose call fails, rather
\* than its passkey, stays where it is.
PasskeyVerified(t) ==
    /\ task[t].pc = "verify"
    /\ \/ Stale(t)
       \/ /\ task[t].fresh
          /\ Proceed(End(task, t))
          /\ UNCHANGED <<codeOffered, condDisabled>>
       \/ /\ task[t].fresh
          /\ Failed(End(task, t), t)
       \/ /\ task[t].fresh
          /\ task[t].kind = "autofill"
          /\ Display("email", loading)
          /\ condDisabled' = TRUE
          /\ task' = End(task, t)
          /\ UNCHANGED codeOffered
    /\ UNCHANGED <<ceremony, waiting, late>>

\* /auth/session/start answers, or fails.
Started(t) ==
    /\ task[t].kind = "submit"
    /\ task[t].pc = "post"
    /\ \/ /\ codeOffered' \in BOOLEAN
          /\ \/ /\ task' = [task EXCEPT ![t].pc = "captcha"]
                /\ UNCHANGED <<shown, ceremony, waiting>>
             \/ Trigger(task, t)
             \/ /\ \E s \in {"password", "otp", "email"} : Show(End(task, t), s, FALSE)
                /\ UNCHANGED <<ceremony, waiting>>
       \/ /\ Show(End(task, t), "email", FALSE)
          /\ UNCHANGED <<codeOffered, ceremony, waiting>>
    /\ UNCHANGED <<condDisabled, late>>

\* Mutant of Captcha: a refused captcha leaves the buttons disabled.
CaptchaStaysLoading(t) ==
    /\ task[t].pc = "captcha"
    /\ \/ Show(End(task, t), "otp", FALSE)
       \/ Show(End(task, t), step, loading)
    /\ UNCHANGED condDisabled
    /\ SlotUnchanged

\* completeCaptcha: a code was mailed, or the step stays for another try.
Captcha(t) ==
    /\ task[t].pc = "captcha"
    /\ \E s \in {"otp", step} : Show(End(task, t), s, FALSE)
    /\ UNCHANGED condDisabled
    /\ SlotUnchanged

\* The other calls: the answer that goes on, and the refusal or failure.
Posted(t) ==
    /\ task[t].pc = "post"
    /\ LET kind == task[t].kind
           f == End(task, t)
       IN  \/ /\ kind = "code"
              /\ \E s \in {"otp", "email"} : Show(f, s, FALSE)
           \/ /\ kind \in {"otp", "password"}
              /\ Proceed(f)
           \/ /\ kind = "otp"
              /\ Show(f, "otp", FALSE)
           \/ /\ kind \in {"password", "resend", "enroll", "terms"}
              /\ Show(f, step, FALSE)
           \/ /\ kind = "enroll"
              /\ Show(f, "success", FALSE)
           \/ /\ kind = "terms"
              /\ \E s \in Ends : Show(f, s, FALSE)
    /\ UNCHANGED condDisabled
    /\ SlotUnchanged

Answered(t) ==
    /\ Quiet
    /\ Options(t) \/ Available(t) \/ GetSettles(t) \/ PasskeyVerified(t)
       \/ Started(t) \/ Captcha(t) \/ Posted(t)

\* The wait for a release gives up.
Timeout(t) ==
    /\ Quiet
    /\ task[t].pc = "wait"
    /\ task' = [task EXCEPT ![t].on = NoTask]
    /\ late' = TRUE
    /\ UNCHANGED <<page, ceremony, waiting>>

\* The place in waiting of the first of the released.
First ==
    CHOOSE i \in DOMAIN waiting :
        /\ waiting[i] \in Released
        /\ \A j \in 1 .. i - 1 : waiting[j] \notin Released

\* The first of the released goes on.
Continue ==
    /\ ~Quiet
    /\ waiting' = SubSeq(waiting, 1, First - 1) \o SubSeq(waiting, First + 1, Len(waiting))
    /\ LET t == waiting[First]
       IN  /\ \/ /\ task[t].kind \in Ceremonies
                 /\ Begin(task, t)
                 /\ UNCHANGED page
              \/ /\ task[t].kind \in {"submit", "code"}
                 /\ task' = [task EXCEPT ![t].pc = "post"]
                 /\ UNCHANGED <<page, ceremony>>
              \/ /\ task[t].kind = "back"
                 /\ Show(End(task, t), "email", FALSE)
                 /\ UNCHANGED <<codeOffered, condDisabled, ceremony>>
           /\ late' = (late \/ (task[t].kind = "back" /\ loading))

-----------------------------------------------------------------------------

\* The script has run: the email step shows, its autofill is being armed.
Init ==
    /\ step = "email"
    /\ loading = FALSE
    /\ codeOffered = TRUE
    /\ condDisabled = FALSE
    /\ ceremony = NoTask
    /\ task = [t \in Tasks |-> IF t = Autofill THEN New("autofill", "opts") ELSE Idle]
    /\ waiting = <<>>
    /\ late = FALSE
    /\ finished = FALSE

Next == User \/ Continue \/ \E t \in Tasks : Answered(t) \/ Timeout(t)

\* A call is answered or fails, an aborted get() is released or its wait gives
\* up, and the browser runs its microtasks.  Nothing is assumed of the user: a
\* get() may stay open for ever.
Calls(t) == task[t].pc # "get" /\ Answered(t)
Fairness ==
    /\ WF_vars(Continue)
    /\ \A t \in Tasks : WF_vars(Calls(t)) /\ WF_vars(Timeout(t))

Spec == Init /\ [][Next]_vars /\ Fairness

-----------------------------------------------------------------------------
(* Properties.                                                               *)

\* The state of the page and its functions in flight.
TypeOK ==
    /\ step \in Steps
    /\ {loading, codeOffered, condDisabled, late, finished} \subseteq BOOLEAN
    /\ ceremony \in Tasks \cup {NoTask}
    /\ task \in [Tasks ->
         [kind : Ceremonies \cup {"submit", "code", "back", "idle"} \cup DOMAIN Forms,
          pc : {"opts", "available", "wait", "get", "verify", "post", "captcha", "end"},
          fresh : BOOLEAN, aborted : BOOLEAN, on : Tasks \cup {NoTask}, left : BOOLEAN]]
    /\ waiting \in Seq(Tasks)

\* "The one WebAuthn get() in flight (modal or autofill)": the browser has no
\* other request than the slot's, so that none is refused because one is pending.
\* Save after a wait for a release gave up, or Back came over a call: then two
\* calls overlap, the later starts a ceremony, the answer of the other shows the
\* email step, whose autofill is as fresh, and one release lets both begin.
OneCeremony == ~late => Gets = {ceremony} \ {NoTask}

\* "so a late-resolving ceremony can't act on a flow the user has left": one
\* that the user left by submitting an address, asking for a code, going back or
\* starting another never moves the page, nor turns the autofill off.
LeftIsInert ==
    \A t \in Tasks :
        task[t].left /\ task[t].kind \in Ceremonies /\ task'[t].pc # task[t].pc => UNCHANGED page
LeftNeverActs == [][LeftIsInert]_vars

\* The page never stays disabled, nor on its "Verifying" step, which has no
\* button: a call that holds it there is answered, whatever overtakes it.  Save
\* where the call that verifies an autofilled passkey fails.
Waits == loading \/ step = "verifying"
WaitOver ==
    \/ ~loading /\ step # "verifying"
    \/ finished
    \/ step = "verifying" /\ condDisabled
EveryWaitEnds == Waits ~> WaitOver

=============================================================================
