------------------------ MODULE FerrisKeyPageProofs ------------------------
(***************************************************************************)
(* The safety properties of FerrisKeyPage, for any number of functions in    *)
(* flight.                                                                   *)
(***************************************************************************)
EXTENDS FerrisKeyPage, TLAPS

Kinds == {"idle", "passkey"} \cup DOMAIN Forms

TaskType == [kind : Kinds, pc : {"end", "post", "token", "captcha", "get", "verify"},
             fresh : BOOLEAN, aborted : BOOLEAN]

\* A function whose call disables the buttons.
Busy(t) == task[t].pc \in {"post", "token", "captcha"}

\* A ceremony of the attempt under way that the server is verifying.
Verifies(t) == task[t].pc = "verify" /\ task[t].fresh

\* One call at a time disables the buttons, and no ceremony is under way then.
OneCall ==
    \A t \in Pool : Busy(t) =>
        /\ task[t].kind \in DOMAIN Forms
        /\ loading
        /\ step # "passkey"
        /\ \A u \in Pool : u # t => ~Busy(u) /\ ~Verifies(u)

\* A ceremony that is being verified shows it, and is the only one.
VerifyingShows ==
    \A t \in Pool : Verifies(t) => step = "verifying" /\ \A u \in Pool : u # t => ~Verifies(u)

\* A token is spent for the verification that is under way.
SpentInFlight == token = "spent" => \E t \in Pool : task[t].pc = "captcha"

IInv == TypeOK /\ OneCall /\ VerifyingShows /\ SpentInFlight /\ PromptOnItsStep

-----------------------------------------------------------------------------
(* Lemmas.                                                                   *)

LEMMA FormsType ==
    \A kind \in DOMAIN Forms : /\ Forms[kind][1] \in {"email", "otp", "password", "tos"}
                               /\ Forms[kind][2] \in {"detecting", "verifying", "otp", "tos"}
  BY DEF Forms

LEMMA TaskTyped ==
    ASSUME TypeOK
    PROVE  task \in [Pool -> TaskType] /\ DOMAIN task = Pool
  BY DEF TypeOK, TaskType, Kinds

LEMMA SlotFree == ASSUME Free # {} PROVE Slot \in Pool /\ task[Slot].pc = "end"
  BY DEF Slot, Free

LEMMA NewTyped ==
    ASSUME NEW kind \in Kinds, NEW pc \in {"end", "post", "get"}
    PROVE  New(kind, pc) \in TaskType
  BY DEF New, TaskType

LEMMA EndStep ==
    ASSUME TypeOK, NEW t \in Pool
    PROVE  /\ End(t) \in [Pool -> TaskType]
           /\ End(t)[t].pc = "end"
           /\ \A u \in Pool : u # t => End(t)[u] = task[u]
<1>1. Idle \in TaskType /\ Idle.pc = "end"
  BY NewTyped DEF Idle, New, Kinds
<1> QED
  BY <1>1, TaskTyped DEF End

LEMMA BumpStep ==
    ASSUME TypeOK
    PROVE  /\ Bump(task) \in [Pool -> TaskType]
           /\ \A u \in Pool : /\ Bump(task)[u].pc = task[u].pc
                              /\ Bump(task)[u].kind = task[u].kind
                              /\ Bump(task)[u].aborted = task[u].aborted
                              /\ task[u].pc # "end" => ~Bump(task)[u].fresh
  BY TaskTyped DEF Bump, TaskType

\* A step that ends task t.
LEMMA EndKeeps ==
    ASSUME IInv, NEW t \in Pool, task' = End(t),
           step' \in Steps, loading' \in BOOLEAN, UNCHANGED <<captcha, ceremony>>,
           passwordOffered' \in BOOLEAN, token' \in Tokens,
           \/ Busy(t) /\ token' # "spent"
           \/ Verifies(t) /\ UNCHANGED token
           \/ task[t].pc = "verify" /\ UNCHANGED <<step, loading, token>>
    PROVE  IInv'
<1>1. /\ task' \in [Pool -> TaskType]
      /\ task'[t].pc = "end"
      /\ \A u \in Pool : u # t => task'[u] = task[u]
      /\ DOMAIN task = Pool /\ DOMAIN task' = Pool
  BY EndStep, TaskTyped DEF IInv
<1>2. TypeOK'
  BY <1>1 DEF IInv, TypeOK, TaskType, Kinds
<1>3. CASE task[t].pc = "verify" /\ UNCHANGED <<step, loading, token>>
  <2>1. OneCall' /\ VerifyingShows'
    BY <1>1, <1>3 DEF IInv, OneCall, VerifyingShows, Busy, Verifies
  <2>2. SpentInFlight' /\ PromptOnItsStep'
    BY <1>1, <1>3 DEF IInv, SpentInFlight, PromptOnItsStep, Gets
  <2> QED
    BY <1>2, <2>1, <2>2 DEF IInv
<1>4. CASE Busy(t) /\ token' # "spent"
  <2>1. \A u \in Pool : ~Busy(u)' /\ ~Verifies(u)'
    BY <1>1, <1>4 DEF IInv, OneCall, Busy, Verifies
  <2>2. step # "passkey"
    BY <1>4 DEF IInv, OneCall
  <2>3. \A u \in Gets' : task'[u].aborted
    BY <1>1, <2>2 DEF IInv, PromptOnItsStep, Gets
  <2> QED
    BY <1>2, <1>4, <2>1, <2>3 DEF IInv, OneCall, VerifyingShows, SpentInFlight, PromptOnItsStep
<1>5. CASE Verifies(t) /\ UNCHANGED token
  <2>1. step = "verifying" /\ \A u \in Pool : ~Busy(u)
    BY <1>5 DEF IInv, VerifyingShows, OneCall, Busy, Verifies
  <2>2. \A u \in Pool : ~Busy(u)' /\ ~Verifies(u)'
    BY <1>1, <1>5, <2>1 DEF IInv, VerifyingShows, Busy, Verifies
  <2>3. \A u \in Gets' : task'[u].aborted
    BY <1>1, <2>1 DEF IInv, PromptOnItsStep, Gets
  <2>4. token' # "spent"
    BY <1>5, <2>1 DEF IInv, SpentInFlight, Busy
  <2> QED
    BY <1>2, <2>2, <2>3, <2>4 DEF IInv, OneCall, VerifyingShows, SpentInFlight, PromptOnItsStep
<1> QED
  BY <1>3, <1>4, <1>5

-----------------------------------------------------------------------------
(* The invariant holds at first and is kept by every action.                 *)

LEMMA InitIInv == Init => IInv
<1> SUFFICES ASSUME Init PROVE IInv
  OBVIOUS
<1>1. Idle \in TaskType /\ Idle.pc = "end"
  BY NewTyped DEF Idle, New, Kinds
<1>2. task \in [Pool -> TaskType] /\ \A t \in Pool : task[t].pc = "end"
  BY <1>1 DEF Init
<1>3. TypeOK
  BY <1>2 DEF Init, TypeOK, TaskType, Kinds, Steps, Tokens
<1> QED
  BY <1>2, <1>3 DEF Init, IInv, OneCall, VerifyingShows, SpentInFlight, PromptOnItsStep, Busy, Verifies, Gets

\* A button pressed away from the passkey and "verifying" steps.
LEMMA PressFacts ==
    ASSUME IInv, ~loading, step \notin {"passkey", "verifying"}
    PROVE  /\ \A u \in Pool : ~Busy(u) /\ ~Verifies(u)
           /\ \A u \in Pool : task[u].pc = "get" => task[u].aborted
           /\ token # "spent"
<1>1. \A u \in Pool : ~Busy(u) /\ ~Verifies(u)
  BY DEF IInv, OneCall, VerifyingShows
<1>2. \A u \in Pool : task[u].pc = "get" => task[u].aborted
  BY TaskTyped DEF IInv, PromptOnItsStep, Gets
<1> QED
  BY <1>1, <1>2 DEF IInv, SpentInFlight, Busy

LEMMA SubmitKeeps == ASSUME IInv, Submit PROVE IInv'
<1>1. PICK kind \in DOMAIN Forms :
        /\ Press({Forms[kind][1]})
        /\ Free # {}
        /\ Show([task EXCEPT ![Slot] = New(kind, "post")], Forms[kind][2], TRUE)
        /\ UNCHANGED <<passwordOffered, captcha, token, ceremony>>
  BY DEF Submit
<1>2. /\ ~loading /\ step \in {"email", "otp", "password", "tos"}
      /\ step' \in {"detecting", "verifying", "otp", "tos"}
      /\ loading' = TRUE
      /\ task' = [task EXCEPT ![Slot] = New(kind, "post")]
  BY <1>1, FormsType DEF Press, Show
<1>3. /\ \A u \in Pool : ~Busy(u) /\ ~Verifies(u)
      /\ \A u \in Pool : task[u].pc = "get" => task[u].aborted
      /\ token # "spent"
  BY <1>2, PressFacts
<1>4. New(kind, "post") \in TaskType /\ New(kind, "post").pc = "post" /\ New(kind, "post").kind = kind
  BY NewTyped DEF New, Kinds
<1>5. /\ task' \in [Pool -> TaskType] /\ DOMAIN task' = Pool
      /\ Slot \in Pool /\ task'[Slot].pc = "post" /\ task'[Slot].kind = kind
      /\ \A u \in Pool : u # Slot => task'[u] = task[u]
  BY <1>1, <1>2, <1>4, SlotFree, TaskTyped DEF IInv
<1>6. TypeOK'
  BY <1>1, <1>2, <1>5 DEF IInv, TypeOK, TaskType, Kinds, Steps
<1>7. OneCall' /\ VerifyingShows'
  BY <1>2, <1>3, <1>5 DEF OneCall, VerifyingShows, Busy, Verifies
<1>8. SpentInFlight' /\ PromptOnItsStep'
  BY <1>1, <1>3, <1>5 DEF SpentInFlight, PromptOnItsStep, Gets
<1> QED
  BY <1>6, <1>7, <1>8 DEF IInv

LEMMA BackKeeps == ASSUME IInv, Back PROVE IInv'
<1>1. /\ ~loading /\ step \in {"passkey", "password", "otp"}
      /\ step' = "email" /\ loading' = FALSE /\ task' = Cancel(Bump(task))
      /\ UNCHANGED <<passwordOffered, captcha, token, ceremony>>
  BY DEF Back, Press, Show
<1>2. \A u \in Pool : ~Busy(u) /\ ~Verifies(u)
  BY <1>1 DEF IInv, OneCall, VerifyingShows
<1>3. /\ Bump(task) \in [Pool -> TaskType]
      /\ \A u \in Pool : /\ Bump(task)[u].pc = task[u].pc
                         /\ Bump(task)[u].aborted = task[u].aborted
                         /\ task[u].pc # "end" => ~Bump(task)[u].fresh
  BY BumpStep DEF IInv
<1>4. /\ task' \in [Pool -> TaskType] /\ DOMAIN task' = Pool
      /\ \A u \in Pool : /\ task'[u].pc = task[u].pc
                         /\ task[u].aborted \/ u = ceremony => task'[u].aborted
                         /\ task[u].pc # "end" => ~task'[u].fresh
  <2>1. CASE ceremony = NoTask
    <3>1. NoTask \notin Pool
      BY TasksAssumption
    <3> QED
      BY <1>1, <1>3, <2>1, <3>1 DEF Cancel
  <2>2. CASE ceremony # NoTask
    <3>1. ceremony \in Pool /\ task' = [Bump(task) EXCEPT ![ceremony].aborted = TRUE]
      BY <1>1, <2>2 DEF Cancel, IInv, TypeOK
    <3> QED
      BY <1>3, <3>1 DEF TaskType
  <2> QED
    BY <2>1, <2>2
<1>5. TypeOK'
  BY <1>1, <1>4 DEF IInv, TypeOK, TaskType, Kinds, Steps
<1>6. OneCall' /\ VerifyingShows'
  BY <1>2, <1>4 DEF OneCall, VerifyingShows, Busy, Verifies
<1>7. token # "spent"
  BY <1>2 DEF IInv, SpentInFlight, Busy
<1>8. \A u \in Gets' : task'[u].aborted
  BY <1>4, TaskTyped DEF IInv, PromptOnItsStep, Gets
<1> QED
  BY <1>1, <1>5, <1>6, <1>7, <1>8 DEF IInv, SpentInFlight, PromptOnItsStep

LEMMA UsePasswordKeeps == ASSUME IInv, UsePassword PROVE IInv'
<1>1. /\ ~loading /\ step = "otp" /\ step' = "password"
      /\ UNCHANGED <<loading, task, passwordOffered, captcha, token, ceremony>>
  BY DEF UsePassword, Press, Show
<1>2. /\ \A u \in Pool : ~Busy(u) /\ ~Verifies(u)
      /\ \A u \in Pool : task[u].pc = "get" => task[u].aborted
      /\ token # "spent"
  BY <1>1, PressFacts
<1>3. TypeOK'
  BY <1>1 DEF IInv, TypeOK, Steps
<1>4. DOMAIN task = Pool
  BY TaskTyped DEF IInv
<1> QED
  BY <1>1, <1>2, <1>3, <1>4
  DEF IInv, OneCall, VerifyingShows, SpentInFlight, PromptOnItsStep, Busy, Verifies, Gets

LEMMA SolveKeeps == ASSUME IInv, Solve PROVE IInv'
<1>1. token' = "solved" /\ UNCHANGED <<step, loading, passwordOffered, captcha, ceremony, task>>
  BY DEF Solve, page
<1>2. TypeOK'
  BY <1>1 DEF IInv, TypeOK, Tokens
<1> QED
  BY <1>1, <1>2 DEF IInv, OneCall, VerifyingShows, SpentInFlight, PromptOnItsStep, Busy, Verifies, Gets

LEMMA GetSettlesKeeps == ASSUME IInv, NEW t \in Pool, GetSettles(t) PROVE IInv'
<1>1. /\ task[t].pc = "get"
      /\ ceremony' = (IF ceremony = t THEN NoTask ELSE ceremony)
      /\ UNCHANGED <<passwordOffered, captcha, token>>
  BY DEF GetSettles
<1>2. task \in [Pool -> TaskType] /\ DOMAIN task = Pool
  BY TaskTyped DEF IInv
<1>3. ceremony' \in Pool \cup {NoTask}
  BY <1>1 DEF IInv, TypeOK
<1>4. CASE Show(End(t), step, loading)
  <2>1. /\ task' \in [Pool -> TaskType] /\ task'[t].pc = "end"
        /\ \A u \in Pool : u # t => task'[u] = task[u]
        /\ UNCHANGED <<step, loading>>
    BY <1>4, EndStep DEF Show, IInv
  <2>2. TypeOK'
    BY <1>1, <1>3, <2>1 DEF IInv, TypeOK, TaskType, Kinds
  <2>3. OneCall' /\ VerifyingShows'
    BY <2>1 DEF IInv, OneCall, VerifyingShows, Busy, Verifies
  <2>4. SpentInFlight'
    BY <1>1, <2>1 DEF IInv, SpentInFlight
  <2>5. PromptOnItsStep'
    BY <1>1, <1>2, <2>1 DEF IInv, PromptOnItsStep, Gets
  <2> QED
    BY <2>2, <2>3, <2>4, <2>5 DEF IInv
<1>5. CASE /\ task[t].fresh /\ ~task[t].aborted /\ Gets = {t}
           /\ Show([task EXCEPT ![t].pc = "verify"], "verifying", loading)
  <2>1. /\ task' \in [Pool -> TaskType] /\ task'[t].pc = "verify" /\ DOMAIN task' = Pool
        /\ \A u \in Pool : u # t => task'[u] = task[u]
        /\ step' = "verifying" /\ UNCHANGED loading
    BY <1>2, <1>5 DEF Show, TaskType
  <2>2. step = "passkey"
    BY <1>5 DEF IInv, PromptOnItsStep
  <2>3. \A u \in Pool : ~Busy(u) /\ ~Verifies(u)
    BY <2>2 DEF IInv, OneCall, VerifyingShows
  <2>4. TypeOK'
    BY <1>1, <1>3, <2>1 DEF IInv, TypeOK, TaskType, Kinds, Steps
  <2>5. OneCall' /\ VerifyingShows'
    BY <2>1, <2>3 DEF OneCall, VerifyingShows, Busy, Verifies
  <2>6. token # "spent"
    BY <2>3 DEF IInv, SpentInFlight, Busy
  <2>7. Gets' = {}
    BY <1>2, <1>5, <2>1 DEF Gets
  <2> QED
    BY <1>1, <2>4, <2>5, <2>6, <2>7 DEF IInv, SpentInFlight, PromptOnItsStep
<1> QED
  BY <1>4, <1>5 DEF GetSettles

LEMMA PasskeyVerifiedKeeps == ASSUME IInv, NEW t \in Pool, PasskeyVerified(t) PROVE IInv'
<1>1. /\ task[t].pc = "verify" /\ task' = End(t)
      /\ UNCHANGED <<passwordOffered, captcha, token, ceremony>>
      /\ step' \in Steps /\ loading' \in BOOLEAN
      /\ task[t].fresh \/ UNCHANGED <<step, loading>>
  BY DEF PasskeyVerified, Proceed, Show, IInv, TypeOK, Steps
<1>2. passwordOffered' \in BOOLEAN /\ token' \in Tokens
  BY <1>1 DEF IInv, TypeOK
<1> QED
  BY <1>1, <1>2, EndKeeps DEF Verifies

\* A call that ends with a refusal, a failure or the next step.
LEMMA CallEnds ==
    ASSUME IInv, NEW t \in Pool, Busy(t), NEW s \in Steps, NEW l \in BOOLEAN, Show(End(t), s, l),
           UNCHANGED <<captcha, ceremony>>, passwordOffered' \in BOOLEAN,
           token' \in Tokens, token' # "spent"
    PROVE  IInv'
  BY EndKeeps DEF Show

\* Only a verification spends the token.
LEMMA Unspent ==
    ASSUME IInv, NEW t \in Pool, task[t].pc \in {"post", "token"}
    PROVE  token # "spent"
  BY DEF IInv, SpentInFlight, OneCall, Busy

LEMMA TriggerKeeps ==
    ASSUME IInv, NEW t \in Pool, Busy(t), token # "spent", Trigger(t),
           UNCHANGED <<captcha, token>>, passwordOffered' \in BOOLEAN
    PROVE  IInv'
<1>1. /\ task' = [Bump(task) EXCEPT ![t] = New("passkey", "get")]
      /\ step' = "passkey" /\ loading' = FALSE /\ ceremony' = t
  BY DEF Trigger, Show
<1>2. New("passkey", "get") \in TaskType /\ New("passkey", "get").pc = "get" /\ New("passkey", "get").fresh
  BY NewTyped DEF New, Kinds
<1>3. /\ task' \in [Pool -> TaskType] /\ DOMAIN task' = Pool
      /\ task'[t].pc = "get" /\ task'[t].fresh
      /\ \A u \in Pool : u # t => /\ task'[u].pc = task[u].pc
                                  /\ task'[u].aborted = task[u].aborted
                                  /\ task[u].pc # "end" => ~task'[u].fresh
  BY <1>1, <1>2, BumpStep DEF IInv
<1>4. step # "passkey" /\ \A u \in Pool : u # t => ~Busy(u)
  BY DEF IInv, OneCall
<1>5. TypeOK'
  BY <1>1, <1>3 DEF IInv, TypeOK, TaskType, Kinds, Steps
<1>6. OneCall' /\ VerifyingShows'
  BY <1>3, <1>4 DEF OneCall, VerifyingShows, Busy, Verifies
<1>7. \A u \in Pool : u # t /\ task'[u].pc = "get" => task'[u].aborted
  BY <1>3, <1>4, TaskTyped DEF IInv, PromptOnItsStep, Gets
<1> QED
  BY <1>1, <1>3, <1>5, <1>6, <1>7 DEF IInv, SpentInFlight, PromptOnItsStep, Gets

LEMMA StartedKeeps == ASSUME IInv, NEW t \in Pool, Started(t) PROVE IInv'
<1>1. task[t].pc = "post" /\ Busy(t) /\ token # "spent" /\ UNCHANGED <<captcha, token>>
  BY Unspent DEF Started, Busy
<1>2. passwordOffered' \in BOOLEAN /\ token' \in Tokens /\ loading \in BOOLEAN
  BY <1>1 DEF Started, IInv, TypeOK
<1>3. CASE Trigger(t)
  BY <1>1, <1>2, <1>3, TriggerKeeps
<1>4. CASE (\E s \in Steps : Show(End(t), s, FALSE)) /\ UNCHANGED ceremony
  BY <1>1, <1>2, <1>4, CallEnds
<1>5. CASE Show([task EXCEPT ![t].pc = "token"], "email", loading) /\ UNCHANGED ceremony
  <2>1. task \in [Pool -> TaskType]
    BY TaskTyped DEF IInv
  <2>2. /\ task' \in [Pool -> TaskType] /\ DOMAIN task' = Pool /\ DOMAIN task = Pool
        /\ task'[t].pc = "token" /\ task'[t].kind = task[t].kind
        /\ \A u \in Pool : u # t => task'[u] = task[u]
        /\ step' = "email" /\ UNCHANGED loading
    BY <1>5, <2>1 DEF Show, TaskType
  <2>3. /\ task[t].kind \in DOMAIN Forms /\ loading /\ step # "passkey"
        /\ \A u \in Pool : u # t => ~Busy(u) /\ ~Verifies(u)
    BY <1>1 DEF IInv, OneCall
  <2>4. TypeOK'
    BY <1>1, <1>2, <1>5, <2>2 DEF IInv, TypeOK, TaskType, Kinds, Steps
  <2>5. OneCall' /\ VerifyingShows'
    BY <2>2, <2>3 DEF OneCall, VerifyingShows, Busy, Verifies
  <2>6. \A u \in Gets' : task'[u].aborted
    BY <2>2, <2>3 DEF IInv, PromptOnItsStep, Gets
  <2> QED
    BY <1>1, <2>4, <2>5, <2>6 DEF IInv, SpentInFlight, PromptOnItsStep
<1> QED
  BY <1>3, <1>4, <1>5 DEF Started, Steps

LEMMA TokenPolledKeeps == ASSUME IInv, NEW t \in Pool, TokenPolled(t) PROVE IInv'
<1>1. /\ task[t].pc = "token" /\ Busy(t) /\ token # "spent"
      /\ UNCHANGED <<passwordOffered, captcha, ceremony>>
  BY Unspent DEF TokenPolled, Busy
<1>2. /\ passwordOffered' \in BOOLEAN /\ token \in Tokens /\ loading \in BOOLEAN /\ step \in Steps
      /\ "spent" \in Tokens
  BY <1>1 DEF IInv, TypeOK, Tokens
<1>3. CASE Show(End(t), step, FALSE) /\ UNCHANGED token
  BY <1>1, <1>2, <1>3, CallEnds
<1>4. CASE Show([task EXCEPT ![t].pc = "captcha"], step, loading) /\ token' = "spent"
  <2>1. task \in [Pool -> TaskType]
    BY TaskTyped DEF IInv
  <2>2. /\ task' \in [Pool -> TaskType] /\ DOMAIN task' = Pool /\ DOMAIN task = Pool
        /\ task'[t].pc = "captcha" /\ task'[t].kind = task[t].kind
        /\ \A u \in Pool : u # t => task'[u] = task[u]
        /\ UNCHANGED <<step, loading>>
    BY <1>4, <2>1 DEF Show, TaskType
  <2>3. /\ task[t].kind \in DOMAIN Forms /\ loading /\ step # "passkey"
        /\ \A u \in Pool : u # t => ~Busy(u) /\ ~Verifies(u)
    BY <1>1 DEF IInv, OneCall
  <2>4. TypeOK'
    BY <1>1, <1>2, <1>4, <2>2 DEF IInv, TypeOK, TaskType, Kinds
  <2>5. OneCall' /\ VerifyingShows'
    BY <2>2, <2>3 DEF OneCall, VerifyingShows, Busy, Verifies
  <2>6. \A u \in Gets' : task'[u].aborted
    BY <2>2, <2>3 DEF IInv, PromptOnItsStep, Gets
  <2> QED
    BY <2>2, <2>4, <2>5, <2>6 DEF IInv, SpentInFlight, PromptOnItsStep
<1> QED
  BY <1>3, <1>4 DEF TokenPolled

LEMMA CaptchaVerifiedKeeps == ASSUME IInv, NEW t \in Pool, CaptchaVerified(t) PROVE IInv'
<1>1. PICK s \in {"otp", step} : Show(End(t), s, FALSE)
  BY DEF CaptchaVerified
<1>2. Busy(t) /\ token' = "none" /\ UNCHANGED <<passwordOffered, captcha, ceremony>>
  BY DEF CaptchaVerified, Reset, Busy
<1>3. s \in Steps /\ passwordOffered' \in BOOLEAN /\ token' \in Tokens
  BY <1>2 DEF IInv, TypeOK, Steps, Tokens
<1> QED
  BY <1>1, <1>2, <1>3, CallEnds

LEMMA PostedKeeps == ASSUME IInv, NEW t \in Pool, Posted(t) PROVE IInv'
<1>1. task[t].pc = "post" /\ Busy(t) /\ token # "spent" /\ UNCHANGED <<passwordOffered, captcha, token, ceremony>>
  BY Unspent DEF Posted, Busy
<1>2. /\ passwordOffered' \in BOOLEAN /\ token' \in Tokens /\ loading \in BOOLEAN
      /\ task[t].kind \in DOMAIN Forms
  BY <1>1 DEF IInv, TypeOK, OneCall
<1>3. \E s \in Steps, l \in BOOLEAN : Show(End(t), s, l)
  <2>1. CASE Proceed(End(t))
    BY <1>2, <2>1 DEF Proceed, Steps
  <2>2. CASE Show(End(t), Forms[task[t].kind][1], FALSE)
    BY <1>2, <2>2, FormsType DEF Steps
  <2> QED
    BY <2>1, <2>2 DEF Posted
<1> QED
  BY <1>1, <1>2, <1>3, CallEnds

LEMMA IInvInductive == IInv /\ [Next]_vars => IInv'
<1> SUFFICES ASSUME IInv, [Next]_vars PROVE IInv'
  OBVIOUS
<1>1. CASE UNCHANGED vars
  BY <1>1 DEF vars, page, IInv, TypeOK, OneCall, VerifyingShows, SpentInFlight, PromptOnItsStep,
              Busy, Verifies, Gets
<1>2. CASE Submit \/ Back \/ UsePassword \/ Solve
  BY <1>2, SubmitKeeps, BackKeeps, UsePasswordKeeps, SolveKeeps
<1>3. CASE \E t \in Pool : Answered(t) \/ GetSettles(t)
  BY <1>3, GetSettlesKeeps, PasskeyVerifiedKeeps, StartedKeeps, TokenPolledKeeps,
     CaptchaVerifiedKeeps, PostedKeeps DEF Answered
<1> QED
  BY <1>1, <1>2, <1>3 DEF Next

\* The parts of the invariant hold in every state.
THEOREM Invariance == Spec => []IInv
<1>1. Init => IInv
  BY InitIInv
<1>2. IInv /\ [Next]_vars => IInv'
  BY IInvInductive
<1> QED
  BY <1>1, <1>2, PTL DEF Spec

-----------------------------------------------------------------------------
(* The theorems.                                                             *)

\* The page and its functions in flight have their types.
THEOREM TypeCorrect == Spec => []TypeOK
<1>1. IInv => TypeOK
  BY DEF IInv
<1> QED
  BY <1>1, Invariance, PTL

\* A passkey prompt that nobody told to go away belongs to the attempt under way
\* and to the step that shows (triggerPasskey, cancelCeremony).
THEOREM PromptHasItsStep == Spec => []PromptOnItsStep
<1>1. IInv => PromptOnItsStep
  BY DEF IInv
<1> QED
  BY <1>1, Invariance, PTL

LEMMA TokenStep == IInv /\ [Next]_vars => SendsFreshToken
<1>1. ASSUME IInv, Next, NEW t \in Pool, task'[t].pc = "captcha", task[t].pc # "captcha"
      PROVE  token = "solved"
  <2> USE <1>1
  <2>1. task \in [Pool -> TaskType] /\ DOMAIN task = Pool
    BY TaskTyped DEF IInv
  <2>2. \A u \in Pool : End(u)[t].pc # "captcha"
    BY EndStep DEF IInv
  <2>3. Bump(task) \in [Pool -> TaskType] /\ Bump(task)[t].pc # "captcha"
    BY BumpStep DEF IInv
  <2>4. ~Submit
    <3> SUFFICES ASSUME Submit PROVE FALSE
      OBVIOUS
    <3>1. \E kind \in DOMAIN Forms : task' = [task EXCEPT ![Slot] = New(kind, "post")]
      BY DEF Submit, Show
    <3> QED
      BY <2>1, <3>1 DEF New
  <2>5. ~Back
    <3> SUFFICES ASSUME Back PROVE FALSE
      OBVIOUS
    <3>1. task' = Cancel(Bump(task))
      BY DEF Back, Show
    <3>2. task'[t].pc = Bump(task)[t].pc
      BY <2>3, <3>1 DEF Cancel, TaskType
    <3> QED
      BY <2>3, <3>2
  <2>6. ~UsePassword /\ ~Solve
    BY DEF UsePassword, Solve, Show
  <2>7. ASSUME NEW u \in Pool PROVE ~GetSettles(u) /\ ~PasskeyVerified(u) /\ ~CaptchaVerified(u) /\ ~Posted(u)
    <3>1. ~GetSettles(u)
      BY <2>1, <2>2 DEF GetSettles, Show, TaskType
    <3>2. ~PasskeyVerified(u) /\ ~CaptchaVerified(u) /\ ~Posted(u)
      BY <2>2 DEF PasskeyVerified, CaptchaVerified, Posted, Proceed, Show
    <3> QED
      BY <3>1, <3>2
  <2>8. ASSUME NEW u \in Pool PROVE ~Started(u)
    <3> SUFFICES ASSUME Started(u) PROVE FALSE
      OBVIOUS
    <3>1. \/ Trigger(u)
          \/ task' = End(u)
          \/ task' = [task EXCEPT ![u].pc = "token"]
      BY DEF Started, Show
    <3>2. ~Trigger(u)
      BY <2>3 DEF Trigger, Show, New
    <3> QED
      BY <2>1, <2>2, <3>1, <3>2 DEF TaskType
  <2>9. ASSUME NEW u \in Pool, TokenPolled(u) PROVE token = "solved"
    <3>1. token # "spent"
      BY <2>9, Unspent DEF TokenPolled
    <3>2. token # "none"
      BY <2>2, <2>9 DEF TokenPolled, Show
    <3> QED
      BY <3>1, <3>2 DEF IInv, TypeOK, Tokens
  <2> QED
    BY <2>4, <2>5, <2>6, <2>7, <2>8, <2>9 DEF Next, Answered
<1>2. ASSUME IInv, UNCHANGED vars PROVE SendsFreshToken
  BY <1>2 DEF vars, SendsFreshToken
<1> QED
  BY <1>1, <1>2 DEF SendsFreshToken

\* No captcha token is sent to be verified twice (completeCaptcha, resetCaptcha).
THEOREM TokenGoesOnce == Spec => TokenSentOnce
<1>1. IInv /\ [Next]_vars => [SendsFreshToken]_vars
  BY TokenStep
<1> QED
  BY <1>1, Invariance, PTL DEF Spec, TokenSentOnce
=============================================================================
