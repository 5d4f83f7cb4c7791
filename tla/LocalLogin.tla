----------------------------- MODULE LocalLogin -----------------------------
(***************************************************************************)
(* oxidt-auth's self-owned login: emailed codes and passkeys, for the        *)
(* requests that one browser session has in flight at a time.                *)
(*                                                                           *)
(* A request works on a copy of the session record, loaded at its first read *)
(* and written back as a whole when its response completes; two requests     *)
(* that overlap overwrite each other.  Only the verification of a code runs  *)
(* under the session lock, from its load to an explicit save; the save leaves *)
(* its copy marked as modified, so that it too is written back once more at  *)
(* the end of the response, after the unlock.  One replica serves the        *)
(* session, so that there is one lock.                                       *)
(*                                                                           *)
(* A code is named by the issuance that minted it.  An email sender is       *)
(* configured.  What the data of a deployment or of a moment decides is a    *)
(* choice: whether password_login offers the password step before a code is  *)
(* mailed (the step itself is not modelled), whether the resend throttle      *)
(* stops a request (one it stops changes nothing), whether a code has         *)
(* expired when it is checked.  Accounts are not deleted, and the             *)
(* registration policy stays what it is during a login.  Sign-in moves the    *)
(* browser to a new session id; what happens there is out of scope, but       *)
(* requests still in flight may write the old record back.                    *)
(***************************************************************************)
EXTENDS Integers

CONSTANTS
    Addresses,      \* an account is identified by its address
    Registered,     \* addresses with an account at the start
    Admitted,       \* addresses that registration_allowed admits
    Requests,       \* requests of the session in flight
    CodeLimit,      \* bound: codes minted
    MaxAttempts,    \* MAX_OTP_ATTEMPTS
    None

ASSUME ConstantsAssumption ==
    /\ Registered \subseteq Addresses
    /\ Admitted \subseteq Addresses
    /\ CodeLimit \in Nat
    /\ MaxAttempts \in Nat
    /\ None \notin Addresses \cup Requests

VARIABLES
    store,       \* the session record; an absent one loads as the empty one
    rq,          \* requests
    lock,        \* the request that holds the session lock
    accounts,    \* addresses with an account
    keyed,       \* accounts with passkeys
    captcha,     \* whether a captcha is configured
    minted,      \* codes minted so far
    sentTo,      \* history: the address each code was mailed to
    solved,      \* history: codes mailed for a solved captcha, and their resends
    founders,    \* history: codes that created an account
    tries,       \* history: comparisons with each code ...
    used         \* history: ... and how many admitted it, since it was minted or
                 \*   last brought back by the write of an older copy

config == <<keyed, captcha>>
codeLog == <<sentTo, solved, founders>>
counts == <<tries, used>>
vars == <<store, rq, lock, accounts, config, minted, codeLog, counts>>

-----------------------------------------------------------------------------

Codes == 1 .. CodeLimit
NoCode == 0

Empty == [email |-> None, code |-> NoCode, to |-> None, attempts |-> 0,
          deferred |-> FALSE, challenge |-> FALSE, owner |-> None]

\* code: the code this request minted or verified; account: whom it signs in.
Idle == [pc |-> "idle", copy |-> Empty, code |-> NoCode, account |-> None]

At(r, pc, c) == [rq EXCEPT ![r].pc = pc, ![r].copy = c]
Done(r) == [rq EXCEPT ![r] = Idle]

\* clear_otp_state.
Cleared(c) == [c EXCEPT !.code = NoCode, !.to = None, !.attempts = 0]

\* generate_and_send_otp: the code and the address it goes to, in the copy.
Issue(r, c, e) ==
    /\ minted < CodeLimit
    /\ minted' = minted + 1
    /\ sentTo' = [sentTo EXCEPT ![minted + 1] = e]
    /\ rq' = [rq EXCEPT ![r].pc = "save", ![r].code = minted + 1,
                        ![r].copy = [c EXCEPT !.code = minted + 1, !.to = e, !.attempts = 0]]

-----------------------------------------------------------------------------
(* start_session.                                                            *)

\* Mutant of Reset: only the code is dropped.
ResetCodeOnly(c) == Cleared(c)

\* reset_pending_login_state.
Reset(c) == [Cleared(c) EXCEPT !.deferred = FALSE, !.challenge = FALSE, !.owner = None]

StartLoad(r, e) ==
    /\ rq[r].pc = "idle"
    /\ rq' = At(r, "lookup", [Reset(store) EXCEPT !.email = e])
    /\ UNCHANGED <<store, lock, accounts, config, minted, codeLog, counts>>

\* The copy start_session ends with, and whether it may mail a code; with
\* password_login set it mails none before it is asked to.
Started(c) ==
    IF c.email \in accounts /\ c.email \in keyed
    THEN [c EXCEPT !.challenge = TRUE, !.owner = c.email]
    ELSE [c EXCEPT !.deferred = c.email \in Admitted \ accounts]

Mails(c) ==
    IF c.email \in accounts THEN c.email \notin keyed
                            ELSE c.email \in Admitted /\ ~captcha

StartLookup(r) ==
    LET c == rq[r].copy
    IN  /\ rq[r].pc = "lookup"
        /\ \/ Mails(c) /\ Issue(r, Started(c), c.email)
           \/ rq' = At(r, "save", Started(c)) /\ UNCHANGED <<minted, sentTo>>
        /\ UNCHANGED <<store, lock, accounts, config, solved, founders, counts>>

-----------------------------------------------------------------------------
(* The other requests that mail a code.                                      *)

\* Mutant of Resendable: a resend does not ask for a code in progress.
ResendableAlways(c) == c.email # None

Resendable(c) == c.email # None /\ c.code # NoCode

\* resend_otp_handler.
Resend(r) ==
    /\ rq[r].pc = "idle"
    /\ Resendable(store)
    /\ Issue(r, store, store.email)
    /\ solved' = IF store.code \in solved THEN solved \cup {minted + 1} ELSE solved
    /\ UNCHANGED <<store, lock, accounts, config, founders, counts>>

\* passkey_fallback_to_otp.
Fallback(r) ==
    /\ rq[r].pc = "idle"
    /\ store.email # None
    /\ ~(captcha /\ store.deferred)
    /\ Issue(r, [store EXCEPT !.challenge = FALSE, !.owner = None], store.email)
    /\ UNCHANGED <<store, lock, accounts, config, solved, founders, counts>>

\* verify_captcha_handler, up to the call of the captcha server.
CaptchaLoad(r) ==
    /\ rq[r].pc = "idle"
    /\ captcha
    /\ store.deferred
    /\ rq' = At(r, "captcha", store)
    /\ UNCHANGED <<store, lock, accounts, config, minted, codeLog, counts>>

CaptchaPass(r) ==
    LET c == rq[r].copy
    IN  /\ rq[r].pc = "captcha"
        /\ c.email # None
        /\ Issue(r, c, c.email)
        /\ solved' = solved \cup {minted + 1}
        /\ UNCHANGED <<store, lock, accounts, config, founders, counts>>

-----------------------------------------------------------------------------
(* Passkeys.                                                                 *)

\* passkey_conditional_options: a challenge that names no account.
ConditionalOptions(r) ==
    /\ rq[r].pc = "idle"
    /\ rq' = At(r, "save", [store EXCEPT !.challenge = TRUE, !.owner = None])
    /\ UNCHANGED <<store, lock, accounts, config, minted, codeLog, counts>>

\* A credential of account k answers the challenge in the copy.
Answers(c, k) == c.challenge /\ (c.owner # None => c.owner = k)

\* verify_passkey_handler, of an assertion that verifies; one that does not
\* leaves the record alone.
VerifyPasskey(r, k) ==
    /\ rq[r].pc = "idle"
    /\ k \in keyed /\ k \in accounts
    /\ Answers(store, k)
    /\ rq' = [rq EXCEPT ![r] = [Idle EXCEPT !.pc = "finalize", !.account = k]]
    /\ UNCHANGED <<store, lock, accounts, config, minted, codeLog, counts>>

-----------------------------------------------------------------------------
(* verify_otp_handler.                                                       *)

\* Mutant of VerifyLoad: the record is read without the lock.
VerifyLoadUnlocked(r) ==
    /\ rq[r].pc = "idle"
    /\ lock' = r
    /\ rq' = At(r, "compare", store)
    /\ UNCHANGED <<store, accounts, config, minted, codeLog, counts>>

VerifyLoad(r) ==
    /\ rq[r].pc = "idle"
    /\ lock = None
    /\ lock' = r
    /\ rq' = At(r, "compare", store)
    /\ UNCHANGED <<store, accounts, config, minted, codeLog, counts>>

\* Mutant of Persist: the save is left to the end of the response.
PersistLater(c) == UNCHANGED store

\* persist_now.
Persist(c) == store' = c

\* Mutant of Comparable: one attempt too many.
ComparableOneMore(c) ==
    c.code # NoCode /\ c.to # None /\ c.attempts <= MaxAttempts

Comparable(c) ==
    c.code # NoCode /\ c.to # None /\ c.attempts < MaxAttempts

\* verify_otp_from_session on the copy, the explicit save, and the unlock.  Any
\* code may be submitted and the stored one may have expired: a comparison goes
\* either way, and a refusal is always possible.  Without a code in progress the
\* copy is not modified, and not written back.
VerifyRefuse(r) ==
    LET c == rq[r].copy
    IN  /\ rq[r].pc = "compare"
        /\ Persist(Cleared(c))
        /\ rq' = IF c.code # NoCode THEN At(r, "respond", Cleared(c)) ELSE Done(r)
        /\ lock' = None
        /\ UNCHANGED <<accounts, config, minted, codeLog, counts>>

VerifyWrong(r) ==
    LET c == rq[r].copy
    IN  /\ rq[r].pc = "compare"
        /\ Comparable(c)
        /\ tries' = [tries EXCEPT ![c.code] = @ + 1]
        /\ Persist([c EXCEPT !.attempts = @ + 1])
        /\ rq' = At(r, "respond", [c EXCEPT !.attempts = @ + 1])
        /\ lock' = None
        /\ UNCHANGED <<accounts, config, minted, codeLog, used>>

\* Mutant of Proven: the address the session is at by now.
ProvenNow(c) == store.email

\* The address a verified code speaks for: the one it was mailed to.
Proven(c) == c.to

VerifyRight(r) ==
    LET c == rq[r].copy
    IN  /\ rq[r].pc = "compare"
        /\ Comparable(c)
        /\ tries' = [tries EXCEPT ![c.code] = @ + 1]
        /\ used' = [used EXCEPT ![c.code] = @ + 1]
        /\ Persist(Cleared(c))
        /\ rq' = [rq EXCEPT ![r] = [pc |-> "resolve", copy |-> Cleared(c), code |-> c.code,
                                    account |-> Proven(c)]]
        /\ lock' = None
        /\ UNCHANGED <<accounts, config, minted, codeLog>>

\* resolve_or_create_account: the lookup and the registration gate, whose refusal
\* is a response like any other.
Resolve(r) ==
    LET a == rq[r].account
    IN  /\ rq[r].pc = "resolve"
        /\ rq' = IF a \in accounts THEN [rq EXCEPT ![r].pc = "finalize"]
                 ELSE IF a \in Admitted THEN [rq EXCEPT ![r].pc = "create"]
                 ELSE [rq EXCEPT ![r] = [Idle EXCEPT !.pc = "respond", !.copy = rq[r].copy]]
        /\ UNCHANGED <<store, lock, accounts, config, minted, codeLog, counts>>

\* create_account.  The application's table has one row for an address: a
\* creation that lost the race to another fails, with a server error.
Create(r) ==
    LET a == rq[r].account
    IN  /\ rq[r].pc = "create"
        /\ IF a \in accounts
           THEN rq' = Done(r) /\ UNCHANGED <<accounts, founders>>
           ELSE /\ rq' = [rq EXCEPT ![r].pc = "finalize"]
                /\ accounts' = accounts \cup {a}
                /\ founders' = founders \cup {rq[r].code}
        /\ UNCHANGED <<store, lock, config, minted, sentTo, solved, counts>>

-----------------------------------------------------------------------------
(* The end of a request.                                                     *)

\* finalize_login: cycle_id takes the old record out of the store.
Finalize(r) ==
    /\ rq[r].pc = "finalize"
    /\ store' = Empty
    /\ rq' = Done(r)
    /\ UNCHANGED <<lock, accounts, config, minted, codeLog, counts>>

\* The copy brings back a code, or an attempt at it, that is gone from the
\* record, and that this request did not mint.
Restores(r) ==
    LET c == rq[r].copy
    IN  /\ c.code # NoCode
        /\ c.code # rq[r].code
        /\ store.code # c.code \/ store.attempts > c.attempts

\* The session layer writes the copy back, of a verification the second time.
Save(r) ==
    /\ rq[r].pc \in {"save", "respond"}
    /\ store' = rq[r].copy
    /\ LET written(count) == IF Restores(r) THEN [count EXCEPT ![rq[r].copy.code] = 0]
                                            ELSE count
       IN  tries' = written(tries) /\ used' = written(used)
    /\ rq' = Done(r)
    /\ UNCHANGED <<lock, accounts, config, minted, codeLog>>

\* A server error, or the client gone: nothing more is written.
Lost(r) ==
    /\ rq[r].pc # "idle"
    /\ rq' = Done(r)
    /\ lock' = IF lock = r THEN None ELSE lock
    /\ UNCHANGED <<store, accounts, config, minted, codeLog, counts>>

-----------------------------------------------------------------------------
(* Other sessions.                                                           *)

Join(a) ==
    /\ a \notin accounts
    /\ accounts' = accounts \cup {a}
    /\ UNCHANGED <<store, rq, lock, config, minted, codeLog, counts>>

-----------------------------------------------------------------------------

Init ==
    /\ store = Empty
    /\ rq = [r \in Requests |-> Idle]
    /\ lock = None
    /\ accounts = Registered
    /\ keyed \in SUBSET Registered
    /\ captcha \in BOOLEAN
    /\ minted = 0
    /\ sentTo = [n \in Codes |-> None]
    /\ solved = {}
    /\ founders = {}
    /\ tries = [n \in Codes |-> 0]
    /\ used = [n \in Codes |-> 0]

Start(r) == (\E e \in Addresses : StartLoad(r, e)) \/ StartLookup(r)

Captcha(r) == CaptchaLoad(r) \/ CaptchaPass(r)

VerifyOtp(r) == \/ VerifyLoad(r) \/ VerifyRefuse(r) \/ VerifyWrong(r) \/ VerifyRight(r)
                \/ Resolve(r) \/ Create(r)

Next == \/ \E r \in Requests :
             \/ Start(r) \/ Resend(r) \/ Fallback(r) \/ Captcha(r) \/ ConditionalOptions(r)
             \/ \E k \in Addresses : VerifyPasskey(r, k)
             \/ VerifyOtp(r) \/ Finalize(r) \/ Save(r) \/ Lost(r)
        \/ \E a \in Addresses : Join(a)

Spec == Init /\ [][Next]_vars

-----------------------------------------------------------------------------
(* Properties.                                                               *)

Record == [email : Addresses \cup {None}, code : Codes \cup {NoCode},
           to : Addresses \cup {None}, attempts : 0 .. MaxAttempts,
           deferred : BOOLEAN, challenge : BOOLEAN, owner : Addresses \cup {None}]

Request == [pc : {"idle", "lookup", "captcha", "compare", "resolve", "create",
                  "finalize", "save", "respond"},
            copy : Record, code : Codes \cup {NoCode},
            account : Addresses \cup {None}]

\* The record and every copy of it stay in their type; no copy counts more
\* attempts than a code allows.
TypeOK ==
    /\ store \in Record
    /\ rq \in [Requests -> Request]
    /\ lock \in Requests \cup {None}
    /\ accounts \subseteq Addresses
    /\ keyed \subseteq Addresses
    /\ captcha \in BOOLEAN
    /\ minted \in 0 .. CodeLimit
    /\ sentTo \in [Codes -> Addresses \cup {None}]
    /\ solved \subseteq Codes /\ founders \subseteq Codes
    /\ tries \in [Codes -> Nat] /\ used \in [Codes -> Nat]

\* A sign-in by code is for the address that this very code was mailed to,
\* whatever start_session, resends and saved copies did to the session while the
\* code was on its way.
SignsInAsProven ==
    \A r \in Requests :
        rq[r].pc \in {"resolve", "create", "finalize"} /\ rq[r].code # NoCode =>
            rq[r].account = sentTo[rq[r].code]

OneAddress(c) ==
    /\ c.code # NoCode => c.to = c.email /\ sentTo[c.code] = c.to
    /\ c.owner # None => c.owner = c.email /\ c.challenge
    /\ c.deferred => c.email \in Admitted \ Registered

\* The pieces of a login attempt (code, passkey challenge, pending registration)
\* in the record, and in every copy about to overwrite it, are for one address:
\* none survives into an attempt for another.
AttemptsNeverMix ==
    OneAddress(store) /\ \A r \in Requests : OneAddress(rq[r].copy)

\* A code creates an account only for an address that may register and, where
\* a captcha is configured, only if it was mailed for a solved one, or resent after
\* one that was: no other request that mails a code is a way around it.
AccountsGated ==
    \A n \in founders : sentTo[n] \in Admitted /\ (captcha => n \in solved)

\* Parallel guesses meet the cap once: a code is compared at most MaxAttempts
\* times, however many requests guess at it, before the write-back of an older
\* copy brings it or an attempt at it back (of a request that takes no lock, or of
\* a guess whose response was slow).
GuessesCapped == \A n \in Codes : tries[n] <= MaxAttempts

\* In the same span a code admits at most one request, however many carry it: it
\* is gone from the record before the lock is released.
CodeAdmitsOnce == \A n \in Codes : used[n] <= 1

\* The lock and the explicit save close the window for guesses, as otp.rs says:
\* the end of one guess's response takes back no attempt that another counted.
GuessesStay ==
    [][\A r \in Requests :
         rq[r].pc = "respond" /\ rq'[r].pc = "idle" /\ store'.code = store.code =>
            store'.attempts >= store.attempts]_vars

=============================================================================
