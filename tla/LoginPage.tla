------------------------------ MODULE LoginPage ------------------------------
(***************************************************************************)
(* What the scripts of oxidt-auth's two login pages, local_login.js and      *)
(* ferriskey_login.js, have in common: the step that shows, the attempt and  *)
(* the asynchronous functions (tasks) that move the page.                    *)
(***************************************************************************)

CONSTANTS
    Pool,       \* bound: functions in flight, besides the autofill's
    Autofill,   \* the task of armConditional, which the local page has
    NoTask

ASSUME TasksAssumption == Autofill \notin Pool /\ NoTask \notin Pool \cup {Autofill}

\* task: a record for each function, of these fields at least.  pc: where it is,
\* "end" when it does not run.  fresh: attempt has not moved since it began.
VARIABLES
    step,       \* the step that shows
    loading,    \* every button is disabled
    ceremony,   \* the task of the get() in the slot
    task

-----------------------------------------------------------------------------

Free == {t \in Pool : task[t].pc = "end"}
Slot == CHOOSE t \in Free : TRUE

\* The get() requests the browser has not settled.
Gets == {t \in DOMAIN task : task[t].pc = "get"}

\* Mutant of Bump: attempt does not move.
BumpNothing(f) == f

\* attempt++
Bump(f) == [t \in DOMAIN f |-> IF f[t].pc = "end" THEN f[t] ELSE [f[t] EXCEPT !.fresh = FALSE]]

\* A button works when its step shows and nothing loads; a form is not submitted
\* while its button is disabled.
Press(steps) == step \in steps /\ ~loading

=============================================================================
