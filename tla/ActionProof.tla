---------------------------- MODULE ActionProof ----------------------------
(***************************************************************************)
(* oxidt-auth's action_proof: a fresh code, mailed to the account's address  *)
(* and bound to one action of one user from one browser session on one       *)
(* target, that is spent in the transaction of the action it protects.       *)
(*                                                                           *)
(* request and confirm run concurrently, on any number of replicas.  Each    *)
(* method of ActionProofBackend is one atomic step, as the trait demands of   *)
(* the application's storage; between two of them anything else may happen,   *)
(* and a handler may be lost with its client or its process.                  *)
(*                                                                           *)
(* There is one user and one action.  A code stands for its salted hash and   *)
(* is named by the issuance that minted it: a resend never repeats a hash.    *)
(***************************************************************************)
EXTENDS Integers

CONSTANTS
    Sessions,     \* browser sessions of the user, each with its own key
    Targets,      \* what the action may act on
    Addresses,    \* addresses the account may have
    Requests,     \* request handlers in flight
    Confirms,     \* confirm handlers in flight
    IssueLimit,   \* codes charge_issue lets through
    GuessLimit,   \* guesses charge_guess lets through
    MaxAttempts,  \* MAX_ATTEMPTS
    None

ASSUME ConstantsAssumption ==
    /\ IssueLimit \in Nat
    /\ GuessLimit \in Nat
    /\ MaxAttempts \in Nat
    /\ None \notin Sessions \cup Targets \cup Addresses

VARIABLES
    proof,        \* the one pending proof of each session, code 0 when there is none
    address,      \* the account's current address
    owned,        \* the targets the user owns now
    issued,       \* the issuance counter
    guessed,      \* the guess counter
    req,          \* request handlers
    con,          \* confirm handlers
    newest,       \* history: the last proof stored for each session
    tries,        \* history: comparisons made against each code
    spent,        \* history: actions performed under each code
    undelivered   \* history: codes whose mail was reported failed

vars == <<proof, address, owned, issued, guessed, req, con, newest, tries, spent, undelivered>>

account == <<address, owned>>
history == <<newest, tries, spent, undelivered>>

-----------------------------------------------------------------------------

Codes == 1 .. IssueLimit
NoCode == 0              \* no proof, and a guess that matches none

NoProof == [code |-> NoCode, target |-> None, recipient |-> None, attempts |-> 0,
            expired |-> FALSE]
NoRequest == [pc |-> "idle", session |-> None, target |-> None, recipient |-> None,
              code |-> NoCode]
NoConfirm == [pc |-> "idle", session |-> None, target |-> None, guess |-> NoCode]

-----------------------------------------------------------------------------
(* request.                                                                  *)

\* A request for s and t, within quota under code n.
Charged(s, t, n) == [pc |-> "recipient", session |-> s, target |-> t, recipient |-> None,
                     code |-> n]

\* Mutant of RequestCharge: the limit is compared before the increment.
RequestChargeLate(r, s, t) ==
    /\ req[r].pc = "idle"
    /\ issued <= IssueLimit
    /\ issued' = issued + 1
    /\ req' = [req EXCEPT ![r] = Charged(s, t, issued + 1)]
    /\ UNCHANGED <<proof, account, guessed, con, history>>

\* charge_issue within quota.  The counter is the user's, whatever the session
\* or target.  Past its limit the request ends and the counter is not told
\* apart: no step.
RequestCharge(r, s, t) ==
    /\ req[r].pc = "idle"
    /\ issued < IssueLimit
    /\ issued' = issued + 1
    /\ req' = [req EXCEPT ![r] = Charged(s, t, issued + 1)]
    /\ UNCHANGED <<proof, account, guessed, con, history>>

\* recipient: the address of the account now, if the user owns the target.
RequestRecipient(r) ==
    /\ req[r].pc = "recipient"
    /\ req' = [req EXCEPT ![r] = IF @.target \in owned
                                 THEN [@ EXCEPT !.pc = "store", !.recipient = address]
                                 ELSE NoRequest]
    /\ UNCHANGED <<proof, account, issued, guessed, con, history>>

\* store_pending replaces whatever the session had pending.
RequestStore(r) ==
    LET p == [code |-> req[r].code, target |-> req[r].target,
              recipient |-> req[r].recipient, attempts |-> 0, expired |-> FALSE]
    IN  /\ req[r].pc = "store"
        /\ proof' = [proof EXCEPT ![req[r].session] = p]
        /\ newest' = [newest EXCEPT ![req[r].session] = p]
        /\ req' = [req EXCEPT ![r].pc = "send"]
        /\ UNCHANGED <<account, issued, guessed, con, tries, spent, undelivered>>

RequestSent(r) ==
    /\ req[r].pc = "send"
    /\ req' = [req EXCEPT ![r] = NoRequest]
    /\ UNCHANGED <<proof, account, issued, guessed, con, history>>

\* The mailer reports an error; the mail may have arrived all the same.
RequestUnsent(r) ==
    /\ req[r].pc = "send"
    /\ undelivered' = undelivered \cup {req[r].code}
    /\ req' = [req EXCEPT ![r].pc = "discard"]
    /\ UNCHANGED <<proof, account, issued, guessed, con, newest, tries, spent>>

\* Mutant of RequestDiscard: deletes by session, without the hash.
RequestDiscardAny(r) ==
    /\ req[r].pc = "discard"
    /\ proof' = [proof EXCEPT ![req[r].session] = NoProof]
    /\ req' = [req EXCEPT ![r] = NoRequest]
    /\ UNCHANGED <<account, issued, guessed, con, history>>

\* discard_pending: only a proof that still carries this request's hash.
RequestDiscard(r) ==
    /\ req[r].pc = "discard"
    /\ proof' = [proof EXCEPT ![req[r].session] = IF @.code = req[r].code THEN NoProof ELSE @]
    /\ req' = [req EXCEPT ![r] = NoRequest]
    /\ UNCHANGED <<account, issued, guessed, con, history>>

\* A backend error, or the handler is dropped: what was stored stays.
RequestLost(r) ==
    /\ req[r].pc # "idle"
    /\ req' = [req EXCEPT ![r] = NoRequest]
    /\ UNCHANGED <<proof, account, issued, guessed, con, history>>

-----------------------------------------------------------------------------
(* confirm.                                                                  *)

\* A confirmation for s and t, within quota.
Guessing(s, t, guess) == [pc |-> "attempt", session |-> s, target |-> t, guess |-> guess]

\* charge_guess within quota, likewise.
ConfirmCharge(c, s, t, guess) ==
    /\ con[c].pc = "idle"
    /\ guessed < GuessLimit
    /\ guessed' = guessed + 1
    /\ con' = [con EXCEPT ![c] = Guessing(s, t, guess)]
    /\ UNCHANGED <<proof, account, issued, req, history>>

\* Mutant of Chargeable: one guess too many.
ChargeableOneMore(s, t) ==
    /\ proof[s].code # NoCode
    /\ proof[s].target = t
    /\ ~proof[s].expired
    /\ proof[s].attempts <= MaxAttempts

Chargeable(s, t) ==
    /\ proof[s].code # NoCode
    /\ proof[s].target = t
    /\ ~proof[s].expired
    /\ proof[s].attempts < MaxAttempts

\* charge_attempt, then the comparison with the hash it returned, which no one
\* else sees.  A guess that matched stands for that hash from here on; one of
\* NoCode is malformed, wrong, or never compared because its handler was lost.
ConfirmAttempt(c) ==
    LET s == con[c].session
    IN  /\ con[c].pc = "attempt"
        /\ Chargeable(s, con[c].target)
        /\ proof' = [proof EXCEPT ![s].attempts = @ + 1]
        /\ tries' = [tries EXCEPT ![proof[s].code] = @ + 1]
        /\ con' = [con EXCEPT ![c] = IF @.guess = proof[s].code
                                     THEN [@ EXCEPT !.pc = "consume"] ELSE NoConfirm]
        /\ UNCHANGED <<account, issued, guessed, req, newest, spent, undelivered>>

ConfirmNothing(c) ==
    /\ con[c].pc = "attempt"
    /\ ~Chargeable(con[c].session, con[c].target)
    /\ con' = [con EXCEPT ![c] = NoConfirm]
    /\ UNCHANGED <<proof, account, issued, guessed, req, history>>

\* Mutant of Spendable: the proof is consumed by its binding alone.
SpendableByBinding(c) ==
    LET p == proof[con[c].session]
    IN  /\ p.code # NoCode
        /\ p.target = con[c].target
        /\ ~p.expired
        /\ p.recipient = address

\* What consume_and_perform deletes by.
Spendable(c) ==
    LET p == proof[con[c].session]
    IN  /\ p.code = con[c].guess
        /\ p.target = con[c].target
        /\ ~p.expired
        /\ p.recipient = address

\* Mutant of ConfirmConsume: the action commits before the proof is deleted.
ConfirmConsumeKeeps(c) ==
    /\ con[c].pc = "consume"
    /\ Spendable(c)
    /\ con[c].target \in owned
    /\ owned' = owned \ {con[c].target}
    /\ spent' = [spent EXCEPT ![con[c].guess] = @ + 1]
    /\ con' = [con EXCEPT ![c] = NoConfirm]
    /\ UNCHANGED <<proof, address, issued, guessed, req, newest, tries, undelivered>>

\* The proof is deleted and the action performed in one transaction, if the
\* target is still the user's.
ConfirmConsume(c) ==
    /\ con[c].pc = "consume"
    /\ Spendable(c)
    /\ con[c].target \in owned
    /\ proof' = [proof EXCEPT ![con[c].session] = NoProof]
    /\ owned' = owned \ {con[c].target}
    /\ spent' = [spent EXCEPT ![con[c].guess] = @ + 1]
    /\ con' = [con EXCEPT ![c] = NoConfirm]
    /\ UNCHANGED <<address, issued, guessed, req, newest, tries, undelivered>>

\* Spent, superseded, expired or readdressed; or the check of the target fails
\* and the proof's deletion is rolled back with it.
ConfirmRefused(c) ==
    /\ con[c].pc = "consume"
    /\ ~Spendable(c) \/ con[c].target \notin owned
    /\ con' = [con EXCEPT ![c] = NoConfirm]
    /\ UNCHANGED <<proof, account, issued, guessed, req, history>>

\* A backend error, or the handler is dropped before it writes.
ConfirmLost(c) ==
    /\ con[c].pc # "idle"
    /\ con' = [con EXCEPT ![c] = NoConfirm]
    /\ UNCHANGED <<proof, account, issued, guessed, req, history>>

-----------------------------------------------------------------------------
(* The application and time.                                                 *)

Expire(s) ==
    /\ proof[s].code # NoCode
    /\ ~proof[s].expired
    /\ proof' = [proof EXCEPT ![s].expired = TRUE]
    /\ UNCHANGED <<account, issued, guessed, req, con, history>>

Readdress(a) ==
    /\ a # address
    /\ address' = a
    /\ UNCHANGED <<proof, owned, issued, guessed, req, con, history>>

ChangeHands(t) ==
    /\ owned' = IF t \in owned THEN owned \ {t} ELSE owned \cup {t}
    /\ UNCHANGED <<proof, address, issued, guessed, req, con, history>>

-----------------------------------------------------------------------------

Init ==
    /\ proof = [s \in Sessions |-> NoProof]
    /\ address \in Addresses
    /\ owned \in SUBSET Targets
    /\ issued = 0
    /\ guessed = 0
    /\ req = [r \in Requests |-> NoRequest]
    /\ con = [c \in Confirms |-> NoConfirm]
    /\ newest = [s \in Sessions |-> NoProof]
    /\ tries = [n \in Codes |-> 0]
    /\ spent = [n \in Codes |-> 0]
    /\ undelivered = {}

Request(r) == \/ \E s \in Sessions, t \in Targets : RequestCharge(r, s, t)
              \/ RequestRecipient(r) \/ RequestStore(r) \/ RequestSent(r)
              \/ RequestUnsent(r) \/ RequestDiscard(r) \/ RequestLost(r)

Confirm(c) == \/ \E s \in Sessions, t \in Targets, guess \in Codes \cup {NoCode} :
                   ConfirmCharge(c, s, t, guess)
              \/ ConfirmAttempt(c) \/ ConfirmNothing(c)
              \/ ConfirmConsume(c) \/ ConfirmRefused(c) \/ ConfirmLost(c)

Application == \/ \E s \in Sessions : Expire(s)
               \/ \E a \in Addresses : Readdress(a)
               \/ \E t \in Targets : ChangeHands(t)

Next == \/ \E r \in Requests : Request(r)
        \/ \E c \in Confirms : Confirm(c)
        \/ Application

Spec == Init /\ [][Next]_vars

-----------------------------------------------------------------------------
(* Properties.                                                               *)

Proof == [code : Codes \cup {NoCode}, target : Targets \cup {None},
          recipient : Addresses \cup {None}, attempts : 0 .. MaxAttempts,
          expired : BOOLEAN]

Requesting == [pc : {"idle", "recipient", "store", "send", "discard"},
               session : Sessions \cup {None}, target : Targets \cup {None},
               recipient : Addresses \cup {None}, code : Codes \cup {NoCode}]

Confirming == [pc : {"idle", "attempt", "consume"},
               session : Sessions \cup {None}, target : Targets \cup {None},
               guess : Codes \cup {NoCode}]

\* Every proof and every handler in flight stays in its type; no proof counts
\* more attempts than it allows.
TypeOK ==
    /\ proof \in [Sessions -> Proof]
    /\ address \in Addresses
    /\ owned \subseteq Targets
    /\ issued \in 0 .. IssueLimit
    /\ guessed \in 0 .. GuessLimit
    /\ req \in [Requests -> Requesting]
    /\ con \in [Confirms -> Confirming]
    /\ newest \in [Sessions -> Proof]
    /\ tries \in [Codes -> Nat]
    /\ spent \in [Codes -> Nat]
    /\ undelivered \subseteq Codes

\* Parallel confirmations, on any replicas, make no more than MAX_ATTEMPTS
\* comparisons against one code, malformed guesses included, whatever resends
\* and expiries come between.
GuessesBounded == \A n \in Codes : tries[n] <= MaxAttempts

\* One code performs one action, once, however many confirmations verified it
\* before the first of them spent it, and even if the target comes back.
SpentOnce == \A n \in Codes : spent[n] <= 1

\* A resend wins over a confirmation already verified: an action is performed
\* only under the last proof its session stored, on the target that proof was
\* asked for, while the address it was mailed to is still the account's.
NewestProofPerforms ==
    [][\A n \in Codes : spent'[n] > spent[n] =>
         \E s \in Sessions : /\ newest[s].code = n
                             /\ newest[s].recipient = address
                             /\ owned \ owned' = {newest[s].target}]_vars

\* A mail that fails late takes no other request's code with it: a pending
\* proof disappears only when it is spent or its own delivery failed.
DeliveredCodeStays ==
    [][\A s \in Sessions :
         LET n == proof[s].code
         IN  n # NoCode /\ proof'[s].code = NoCode =>
               spent'[n] > spent[n] \/ n \in undelivered]_vars

=============================================================================
