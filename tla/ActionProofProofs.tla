------------------------- MODULE ActionProofProofs -------------------------
(***************************************************************************)
(* Theorems about ActionProof: its type, the bound on guesses, that a code   *)
(* is spent at most once, and what a performed action and a vanished proof   *)
(* say about the past.                                                       *)
(***************************************************************************)
EXTENDS ActionProof, TLAPS

-----------------------------------------------------------------------------
(* The inductive invariant.                                                  *)

\* A code that was minted and is not stored yet.
Fresh(r) == req[r].pc \in {"recipient", "store"}

\* A handler in flight knows its binding.
Bound ==
    /\ \A r \in Requests : req[r].pc # "idle" => /\ req[r].session \in Sessions
                                                 /\ req[r].target \in Targets
                                                 /\ req[r].code \in Codes
    /\ \A c \in Confirms : con[c].pc # "idle" => /\ con[c].session \in Sessions
                                                 /\ con[c].target \in Targets
    /\ \A c \in Confirms : con[c].pc = "consume" => con[c].guess \in Codes

\* Nothing has happened to a code that is not stored yet.
Unused(n) == tries[n] = 0 /\ spent[n] = 0 /\ \A s \in Sessions : proof[s].code # n

Minted ==
    /\ \A n \in Codes : n > issued => Unused(n)
    /\ \A r \in Requests : Fresh(r) => req[r].code <= issued /\ Unused(req[r].code)
    /\ \A r, q \in Requests : Fresh(r) /\ Fresh(q) /\ r # q => req[r].code # req[q].code

\* A pending proof is unspent, counts its comparisons, is its session's newest,
\* and no other session has its code.
Pending ==
    /\ \A s \in Sessions :
         LET n == proof[s].code
         IN  n # NoCode => /\ tries[n] <= proof[s].attempts
                           /\ spent[n] = 0
                           /\ newest[s].code = n
                           /\ newest[s].target = proof[s].target
                           /\ newest[s].recipient = proof[s].recipient
    /\ \A s, z \in Sessions : s # z /\ proof[s].code # NoCode => proof[s].code # proof[z].code

\* A request that discards its code was told that its mail failed.
Failed == \A r \in Requests : req[r].pc = "discard" => req[r].code \in undelivered

IInv == /\ TypeOK /\ Bound /\ Minted /\ Pending /\ Failed
        /\ GuessesBounded /\ SpentOnce

\* The records a request handler moves through, and their fields.
LEMMA RequestValues ==
    /\ NoRequest \in Requesting /\ NoRequest.pc = "idle"
    /\ \A s \in Sessions, t \in Targets, n \in Codes :
         LET q == Charged(s, t, n)
         IN  /\ q \in Requesting /\ q.pc = "recipient"
             /\ q.session = s /\ q.target = t /\ q.code = n
    /\ \A q \in Requesting, p \in {"idle", "recipient", "store", "send", "discard"} :
         LET z == [q EXCEPT !.pc = p]
         IN  /\ z \in Requesting /\ z.pc = p /\ z.session = q.session
             /\ z.target = q.target /\ z.code = q.code
    /\ \A q \in Requesting, a \in Addresses :
         LET z == [q EXCEPT !.pc = "store", !.recipient = a]
         IN  /\ z \in Requesting /\ z.pc = "store" /\ z.session = q.session
             /\ z.target = q.target /\ z.code = q.code
BY DEF NoRequest, Charged, Requesting, NoCode

\* Init satisfies the invariant.
LEMMA InvInit == Init => IInv
<1> SUFFICES ASSUME Init PROVE IInv
  OBVIOUS
<1> USE ConstantsAssumption DEF Init, NoProof, NoRequest, NoConfirm, NoCode, Codes
<1>1. TypeOK
  <2>1. proof \in [Sessions -> Proof] /\ newest \in [Sessions -> Proof]
    BY DEF Proof
  <2>2. con \in [Confirms -> Confirming]
    BY DEF Confirming
  <2>3. req \in [Requests -> Requesting]
    BY RequestValues
  <2>4. /\ tries \in [Codes -> Nat] /\ spent \in [Codes -> Nat]
        /\ issued \in 0 .. IssueLimit /\ guessed \in 0 .. GuessLimit
    OBVIOUS
  <2> QED
    BY <2>1, <2>2, <2>3, <2>4 DEF TypeOK
<1>2. Bound
  BY DEF Bound
<1>3. Minted
  BY DEF Minted, Unused, Fresh
<1>4. Pending
  BY DEF Pending
<1>5. Failed
  BY DEF Failed
<1>6. GuessesBounded /\ SpentOnce
  BY DEF GuessesBounded, SpentOnce
<1> QED
  BY <1>1, <1>2, <1>3, <1>4, <1>5, <1>6 DEF IInv

-----------------------------------------------------------------------------
(* The steps of request.                                                     *)

\* A request is charged: its code was never used.
LEMMA ChargeStep ==
    ASSUME IInv, NEW r \in Requests, NEW s \in Sessions, NEW t \in Targets,
           RequestCharge(r, s, t)
    PROVE  IInv'
<1>1. issued + 1 \in Codes /\ issued \in Nat
  BY ConstantsAssumption DEF IInv, RequestCharge, TypeOK, Codes
<1> DEFINE q0 == Charged(s, t, issued + 1)
<1>2. /\ q0 \in Requesting /\ q0.pc = "recipient"
      /\ q0.session = s /\ q0.target = t /\ q0.code = issued + 1
  <2> DEFINE n == issued + 1
  <2>1. n \in Codes
    BY <1>1
  <2> HIDE DEF n
  <2>2. /\ Charged(s, t, n) \in Requesting /\ Charged(s, t, n).pc = "recipient"
        /\ Charged(s, t, n).session = s /\ Charged(s, t, n).target = t
        /\ Charged(s, t, n).code = n
    BY <2>1 DEF Charged, Requesting
  <2> QED
    BY <2>2 DEF n
<1>3. req' = [req EXCEPT ![r] = q0]
  BY Zenon DEF RequestCharge
<1> HIDE DEF q0
<1> USE ConstantsAssumption DEF IInv, RequestCharge, account, history, NoCode, Codes
<1>4. TypeOK'
  BY <1>1, <1>2, <1>3 DEF TypeOK
<1>5. Bound'
  BY <1>1, <1>2, <1>3 DEF TypeOK, Bound
<1>6. Minted'
  <2>1. Unused(issued + 1)
    BY <1>1 DEF Minted
  <2>2. \A n \in Codes : Unused(n) => Unused(n)'
    BY DEF Unused
  <2>3. \A q \in Requests : q # r => req'[q] = req[q]
    BY DEF TypeOK
  <2>4. req'[r].code = issued + 1 /\ req'[r].pc = "recipient"
    BY <1>2, <1>3 DEF TypeOK
  <2>5. \A q \in Requests : Fresh(q)' => q = r \/ Fresh(q)
    BY <2>3 DEF Fresh
  <2>6. \A q \in Requests : Fresh(q) => req[q].code \in Codes
    BY DEF Fresh, Bound
  <2> QED
    BY <1>1, <2>1, <2>2, <2>3, <2>4, <2>5, <2>6 DEF Minted
<1>7. Pending'
  BY DEF Pending
<1>8. Failed'
  BY <1>2, <1>3 DEF Failed, TypeOK
<1>9. GuessesBounded' /\ SpentOnce'
  BY DEF GuessesBounded, SpentOnce
<1> QED
  BY <1>4, <1>5, <1>6, <1>7, <1>8, <1>9

\* Steps that only move a request on, or end it.
LEMMA MoveStep ==
    ASSUME IInv, NEW r \in Requests,
           RequestRecipient(r) \/ RequestSent(r) \/ RequestUnsent(r) \/ RequestLost(r)
    PROVE  IInv'
<1> USE ConstantsAssumption
        DEF IInv, RequestRecipient, RequestSent, RequestUnsent, RequestLost,
            account, history, NoCode, Codes
<1>1. /\ proof' = proof /\ issued' = issued /\ con' = con /\ newest' = newest
      /\ tries' = tries /\ spent' = spent /\ guessed' = guessed
  OBVIOUS
<1>2. PICK z \in Requesting :
        /\ req' = [req EXCEPT ![r] = z]
        /\ z.pc # "idle" => /\ req[r].pc # "idle"
                            /\ z.code = req[r].code
                            /\ z.session = req[r].session
                            /\ z.target = req[r].target
        /\ z.pc \in {"recipient", "store"} => req[r].pc \in {"recipient", "store"}
        /\ z.pc = "discard" => z.code \in undelivered'
  <2>1. req[r] \in Requesting /\ address \in Addresses
    BY DEF TypeOK
  <2>2. CASE RequestRecipient(r)
    BY <2>1, <2>2, RequestValues DEF TypeOK
  <2>3. CASE RequestSent(r) \/ RequestLost(r)
    BY <2>1, <2>3, RequestValues DEF TypeOK
  <2>4. CASE RequestUnsent(r)
    <3>1. [req[r] EXCEPT !.pc = "discard"] \in Requesting
      BY <2>1, RequestValues
    <3> QED
      BY <2>1, <2>4, <3>1, RequestValues DEF TypeOK
  <2> QED
    BY <2>2, <2>3, <2>4
<1>3. req'[r] = z /\ \A q \in Requests : q # r => req'[q] = req[q]
  BY <1>2 DEF TypeOK
<1>4. Fresh(r)' => Fresh(r)
  BY <1>2, <1>3 DEF Fresh
<1>5. undelivered \subseteq undelivered'
  OBVIOUS
<1>6. TypeOK'
  <2>1. undelivered' \subseteq Codes
    BY DEF TypeOK, Bound
  <2>2. address' \in Addresses /\ owned' \subseteq Targets
    BY DEF TypeOK
  <2>3. req' \in [Requests -> Requesting]
    BY <1>2 DEF TypeOK
  <2> QED
    BY <1>1, <2>1, <2>2, <2>3 DEF TypeOK, Proof
<1>7. Bound'
  BY <1>1, <1>2, <1>3 DEF Bound
<1>8. Minted'
  <2>1. \A n : Unused(n)' <=> Unused(n)
    BY <1>1 DEF Unused
  <2>2. \A q \in Requests : Fresh(q)' => Fresh(q) /\ req'[q].code = req[q].code
    BY <1>2, <1>3, <1>4 DEF Fresh
  <2> QED
    BY <1>1, <2>1, <2>2 DEF Minted
<1>9. Pending'
  BY <1>1 DEF Pending
<1>10. Failed'
  BY <1>2, <1>3, <1>5 DEF Failed
<1>11. GuessesBounded' /\ SpentOnce'
  BY <1>1 DEF GuessesBounded, SpentOnce
<1> QED
  BY <1>6, <1>7, <1>8, <1>9, <1>10, <1>11

\* A fresh code becomes the pending proof of its session.
LEMMA StoreStep ==
    ASSUME IInv, NEW r \in Requests, RequestStore(r)
    PROVE  IInv'
<1> USE ConstantsAssumption DEF IInv, RequestStore, account, NoCode, Codes
<1> DEFINE s == req[r].session
           n == req[r].code
<1>1. s \in Sessions /\ n \in Codes /\ req[r].target \in Targets
  BY DEF Bound
<1>2. Fresh(r) /\ Unused(n) /\ n <= issued
  BY DEF Fresh, Minted
<1>3. \A q \in Requests : q # r => req'[q] = req[q]
  BY DEF TypeOK
<1>4. /\ req'[r].pc = "send"
      /\ req'[r].code = n /\ req'[r].session = s /\ req'[r].target = req[r].target
  BY DEF TypeOK
<1>5. /\ proof'[s].code = n /\ proof'[s].attempts = 0
      /\ newest'[s] = proof'[s]
      /\ \A z \in Sessions : z # s => proof'[z] = proof[z] /\ newest'[z] = newest[z]
  BY <1>1 DEF TypeOK
<1>6. /\ tries' = tries /\ spent' = spent /\ issued' = issued /\ con' = con
      /\ undelivered' = undelivered
  OBVIOUS
<1>7. TypeOK'
  <2>1. req' \in [Requests -> Requesting]
    BY RequestValues DEF TypeOK
  <2>2. req[r].recipient \in Addresses \cup {None}
    BY DEF TypeOK, Requesting
  <2>3. [code |-> n, target |-> req[r].target, recipient |-> req[r].recipient,
         attempts |-> 0, expired |-> FALSE] \in Proof
    BY <1>1, <2>2 DEF Proof
  <2> QED
    BY <1>1, <1>6, <2>1, <2>3 DEF TypeOK
<1>8. Bound'
  BY <1>1, <1>3, <1>4, <1>6 DEF Bound
<1>9. Minted'
  <2>1. \A m \in Codes : Unused(m) /\ m # n => Unused(m)'
    BY <1>5, <1>6 DEF Unused
  <2>2. \A q \in Requests : Fresh(q)' => q # r /\ Fresh(q) /\ req'[q] = req[q]
    BY <1>3, <1>4 DEF Fresh
  <2>3. \A q \in Requests : Fresh(q) => req[q].code \in Codes
    BY DEF Fresh, Bound
  <2> HIDE DEF s, n
  <2>4. \A q \in Requests : Fresh(q) /\ q # r => req[q].code # n
    BY <1>2 DEF Minted, n
  <2>5. n <= issued /\ issued \in Nat /\ n \in Codes
    BY <1>1, <1>2 DEF TypeOK
  <2> QED
    BY <1>6, <2>1, <2>2, <2>3, <2>4, <2>5 DEF Minted
<1>10. Pending'
  <2>1. tries[n] = 0 /\ spent[n] = 0
    BY <1>2 DEF Unused
  <2>2. \A z \in Sessions : proof[z].code # n
    BY <1>2 DEF Unused
  <2> HIDE DEF s, n
  <2> QED
    BY <1>1, <1>5, <1>6, <2>1, <2>2 DEF Pending
<1>11. Failed'
  BY <1>3, <1>4, <1>6 DEF Failed
<1>12. GuessesBounded' /\ SpentOnce'
  BY <1>6 DEF GuessesBounded, SpentOnce
<1> QED
  BY <1>7, <1>8, <1>9, <1>10, <1>11, <1>12

\* A request whose mail failed takes back its own code, if it is still there.
LEMMA DiscardStep ==
    ASSUME IInv, NEW r \in Requests, RequestDiscard(r)
    PROVE  IInv'
<1> USE ConstantsAssumption DEF IInv, RequestDiscard, account, history, NoCode
<1> DEFINE s == req[r].session
<1>1. s \in Sessions
  BY DEF Bound
<1>2. /\ tries' = tries /\ spent' = spent /\ issued' = issued /\ con' = con
      /\ newest' = newest /\ undelivered' = undelivered
  OBVIOUS
<1>3. NoProof \in Proof /\ NoProof.code = 0
  BY DEF NoProof, Proof
<1>4. /\ proof'[s] = proof[s] \/ proof'[s] = NoProof
      /\ \A z \in Sessions : z # s => proof'[z] = proof[z]
  BY <1>1 DEF TypeOK
<1>5. /\ req'[r].pc = "idle"
      /\ \A q \in Requests : q # r => req'[q] = req[q]
  BY DEF TypeOK, NoRequest
<1> HIDE DEF s, RequestDiscard
<1>6. TypeOK'
  <2>1. req' \in [Requests -> Requesting]
    BY RequestValues DEF RequestDiscard, TypeOK
  <2>2. proof' \in [Sessions -> Proof]
    BY <1>1, <1>3 DEF RequestDiscard, TypeOK, s
  <2>3. address' = address /\ owned' = owned /\ guessed' = guessed
    BY DEF RequestDiscard
  <2> QED
    BY <1>2, <2>1, <2>2, <2>3 DEF TypeOK
<1>7. Bound'
  BY <1>2, <1>5 DEF Bound
<1>8. Minted'
  <2>1. \A n \in Codes : Unused(n) => Unused(n)'
    BY <1>2, <1>3, <1>4 DEF Unused, Codes
  <2>2. \A q \in Requests : Fresh(q)' => q # r /\ Fresh(q) /\ req'[q] = req[q]
    BY <1>5 DEF Fresh
  <2>3. \A q \in Requests : Fresh(q) => req[q].code \in Codes
    BY DEF Fresh, Bound
  <2> QED
    BY <1>2, <2>1, <2>2, <2>3 DEF Minted
<1>9. Pending'
  BY <1>2, <1>3, <1>4 DEF Pending
<1>10. Failed'
  BY <1>2, <1>5 DEF Failed
<1>11. GuessesBounded' /\ SpentOnce'
  BY <1>2 DEF GuessesBounded, SpentOnce
<1> QED
  BY <1>6, <1>7, <1>8, <1>9, <1>10, <1>11

-----------------------------------------------------------------------------
(* The steps of confirm.                                                     *)

\* The records a confirm handler moves through, and their fields.
LEMMA ConfirmValues ==
    /\ NoConfirm \in Confirming /\ NoConfirm.pc = "idle"
    /\ \A s \in Sessions, t \in Targets, g \in Codes \cup {NoCode} :
         LET z == Guessing(s, t, g)
         IN  z \in Confirming /\ z.pc = "attempt" /\ z.session = s /\ z.target = t
    /\ \A q \in Confirming :
         LET z == [q EXCEPT !.pc = "consume"]
         IN  /\ z \in Confirming /\ z.pc = "consume" /\ z.session = q.session
             /\ z.target = q.target /\ z.guess = q.guess
BY DEF NoConfirm, Guessing, Confirming, NoCode

\* Steps that only begin or end a confirmation.
LEMMA ConfirmMoveStep ==
    ASSUME IInv, NEW c \in Confirms,
           \/ \E s \in Sessions, t \in Targets, g \in Codes \cup {NoCode} :
                ConfirmCharge(c, s, t, g)
           \/ ConfirmNothing(c) \/ ConfirmRefused(c) \/ ConfirmLost(c)
    PROVE  IInv'
<1> USE ConstantsAssumption
<1>1. /\ proof' = proof /\ issued' = issued /\ req' = req /\ newest' = newest
      /\ tries' = tries /\ spent' = spent /\ undelivered' = undelivered
      /\ address' = address /\ owned' = owned
  BY DEF ConfirmCharge, ConfirmNothing, ConfirmRefused, ConfirmLost, account, history
<1>2. guessed' \in 0 .. GuessLimit
  <2>1. guessed \in 0 .. GuessLimit
    BY DEF IInv, TypeOK
  <2>2. CASE guessed' = guessed
    BY <2>1, <2>2
  <2>3. CASE guessed < GuessLimit /\ guessed' = guessed + 1
    BY <2>1, <2>3, ConstantsAssumption DEF ConstantsAssumption
  <2> QED
    BY <2>2, <2>3 DEF ConfirmCharge, ConfirmNothing, ConfirmRefused, ConfirmLost
<1>3. PICK z \in Confirming :
        /\ con' = [con EXCEPT ![c] = z]
        /\ z.pc # "consume"
        /\ z.pc # "idle" => z.session \in Sessions /\ z.target \in Targets
  <2>1. CASE \E s \in Sessions, t \in Targets, g \in Codes \cup {NoCode} :
               ConfirmCharge(c, s, t, g)
    <3>1. PICK s \in Sessions, t \in Targets, g \in Codes \cup {NoCode} :
            con' = [con EXCEPT ![c] = Guessing(s, t, g)]
      BY <2>1, Zenon DEF ConfirmCharge
    <3>2. /\ Guessing(s, t, g) \in Confirming /\ Guessing(s, t, g).pc = "attempt"
          /\ Guessing(s, t, g).session = s /\ Guessing(s, t, g).target = t
      BY DEF Guessing, Confirming
    <3> QED
      BY <3>1, <3>2
  <2>2. CASE ConfirmNothing(c) \/ ConfirmRefused(c) \/ ConfirmLost(c)
    BY <2>2, ConfirmValues DEF ConfirmNothing, ConfirmRefused, ConfirmLost
  <2> QED
    BY <2>1, <2>2
<1> USE DEF IInv
<1>4. TypeOK'
  BY <1>1, <1>2, <1>3 DEF TypeOK
<1>5. Bound'
  BY <1>1, <1>3 DEF Bound, TypeOK
<1>6. Minted'
  BY <1>1 DEF Minted, Fresh, Unused
<1>7. Pending'
  BY <1>1 DEF Pending
<1>8. Failed' /\ GuessesBounded' /\ SpentOnce'
  BY <1>1 DEF Failed, GuessesBounded, SpentOnce
<1> QED
  BY <1>4, <1>5, <1>6, <1>7, <1>8

\* A comparison is counted against the proof before it is made.
LEMMA AttemptStep ==
    ASSUME IInv, NEW c \in Confirms, ConfirmAttempt(c)
    PROVE  IInv'
<1> USE ConstantsAssumption DEF IInv
<1> DEFINE s == con[c].session
           n == proof[s].code
<1>1. /\ s \in Sessions /\ n # NoCode /\ proof[s].attempts < MaxAttempts
      /\ proof' = [proof EXCEPT ![s].attempts = @ + 1]
      /\ tries' = [tries EXCEPT ![n] = @ + 1]
      /\ con' = [con EXCEPT ![c] = IF @.guess = n
                                   THEN [@ EXCEPT !.pc = "consume"] ELSE NoConfirm]
  BY DEF ConfirmAttempt, Chargeable, Bound
<1>2. /\ req' = req /\ issued' = issued /\ guessed' = guessed /\ newest' = newest
      /\ spent' = spent /\ undelivered' = undelivered
      /\ address' = address /\ owned' = owned
  BY DEF ConfirmAttempt, account
<1>3. n \in Codes /\ proof[s].attempts \in 0 .. MaxAttempts /\ proof[s] \in Proof
  BY <1>1 DEF TypeOK, Proof
<1>4. tries[n] \in Nat /\ tries[n] <= proof[s].attempts /\ spent[n] = 0
  BY <1>1, <1>3 DEF TypeOK, Pending
<1>5. /\ proof'[s].attempts = proof[s].attempts + 1
      /\ proof'[s] = [proof[s] EXCEPT !.attempts = @ + 1]
      /\ \A z \in Sessions : z # s => proof'[z] = proof[z]
  BY <1>1, <1>3 DEF TypeOK, Proof
<1>6. \A z \in Sessions : /\ proof'[z].code = proof[z].code
                          /\ proof'[z].target = proof[z].target
                          /\ proof'[z].recipient = proof[z].recipient
  BY <1>3, <1>5 DEF Proof
<1>7. tries'[n] = tries[n] + 1 /\ \A m \in Codes : m # n => tries'[m] = tries[m]
  BY <1>1, <1>3 DEF TypeOK
<1>8. PICK after \in Confirming :
        /\ con' = [con EXCEPT ![c] = after]
        /\ after.pc # "idle" => after.session \in Sessions /\ after.target \in Targets
        /\ after.pc = "consume" => after.guess \in Codes
  <2>1. con[c] \in Confirming /\ s \in Sessions /\ con[c].target \in Targets
    BY <1>1 DEF ConfirmAttempt, TypeOK, Bound
  <2>2. CASE con[c].guess = n
    <3> DEFINE after == [con[c] EXCEPT !.pc = "consume"]
    <3>1. con' = [con EXCEPT ![c] = after]
      BY <1>1, <2>2
    <3>2. /\ after \in Confirming /\ after.pc = "consume" /\ after.session = s
          /\ after.target = con[c].target /\ after.guess = n
      BY <2>1, <2>2, ConfirmValues
    <3> HIDE DEF after
    <3> QED
      BY <1>3, <2>1, <3>1, <3>2
  <2>3. CASE con[c].guess # n
    BY <1>1, <2>3, ConfirmValues DEF TypeOK
  <2> QED
    BY <2>2, <2>3
<1> HIDE DEF s, n
<1>9. TypeOK'
  <2>1. proof'[s] \in Proof
    BY <1>1, <1>3, <1>5 DEF Proof
  <2>2. proof' \in [Sessions -> Proof]
    BY <1>1, <1>5, <2>1 DEF TypeOK
  <2>3. tries' \in [Codes -> Nat]
    BY <1>1, <1>3, <1>4 DEF TypeOK
  <2>4. con' \in [Confirms -> Confirming]
    BY <1>8 DEF TypeOK
  <2> QED
    BY <1>2, <2>2, <2>3, <2>4 DEF TypeOK
<1>10. Bound'
  BY <1>2, <1>8 DEF Bound, TypeOK
<1>11. Minted'
  <2>1. \A m \in Codes : Unused(m) => m # n
    BY <1>1 DEF Unused, n
  <2>2. \A m \in Codes : Unused(m) => Unused(m)'
    BY <1>2, <1>6, <1>7, <2>1 DEF Unused
  <2>3. \A q \in Requests : Fresh(q)' <=> Fresh(q)
    BY <1>2 DEF Fresh
  <2>4. \A q \in Requests : Fresh(q) => req[q].code \in Codes
    BY DEF Fresh, Bound
  <2> QED
    BY <1>2, <2>2, <2>3, <2>4 DEF Minted
<1>12. Pending'
  <2>1. \A z \in Sessions : proof[z].code = n => z = s
    BY <1>1, <1>3 DEF Pending, n
  <2>2. \A z \in Sessions : z # s /\ proof[z].code # NoCode =>
          /\ proof[z].code \in Codes
          /\ tries'[proof[z].code] = tries[proof[z].code]
    BY <1>7, <2>1 DEF TypeOK, Proof
  <2>3. n = proof[s].code
    BY DEF n
  <2>4. proof[s].code # NoCode => tries'[n] <= proof'[s].attempts
    BY <1>3, <1>4, <1>5, <1>7
  <2>5. \A z \in Sessions : proof'[z].code # NoCode => tries'[proof'[z].code] <= proof'[z].attempts
    <3> SUFFICES ASSUME NEW y \in Sessions, proof'[y].code # NoCode
                 PROVE  tries'[proof'[y].code] <= proof'[y].attempts
      OBVIOUS
    <3>1. CASE y = s
      BY <1>6, <2>3, <2>4, <3>1
    <3>2. CASE y # s
      BY <1>5, <2>2, <3>2 DEF Pending
    <3> QED
      BY <3>1, <3>2
  <2> QED
    BY <1>2, <1>6, <2>5 DEF Pending
<1>13. Failed'
  BY <1>2 DEF Failed
<1>14. GuessesBounded'
  BY <1>1, <1>3, <1>4, <1>7 DEF GuessesBounded
<1>15. SpentOnce'
  BY <1>2 DEF SpentOnce
<1> QED
  BY <1>9, <1>10, <1>11, <1>12, <1>13, <1>14, <1>15

\* The proof is spent with the action it allows.
LEMMA ConsumeStep ==
    ASSUME IInv, NEW c \in Confirms, ConfirmConsume(c)
    PROVE  IInv'
<1> USE ConstantsAssumption DEF IInv
<1> DEFINE s == con[c].session
           n == con[c].guess
<1>1. /\ s \in Sessions /\ n \in Codes /\ proof[s].code = n
      /\ proof' = [proof EXCEPT ![s] = NoProof]
      /\ spent' = [spent EXCEPT ![n] = @ + 1]
      /\ con' = [con EXCEPT ![c] = NoConfirm]
      /\ owned' \subseteq owned
  BY DEF ConfirmConsume, Spendable, Bound
<1>2. /\ req' = req /\ issued' = issued /\ guessed' = guessed /\ newest' = newest
      /\ tries' = tries /\ undelivered' = undelivered /\ address' = address
  BY DEF ConfirmConsume
<1>3. n # NoCode /\ spent[n] = 0
  BY <1>1 DEF Codes, NoCode, Pending
<1>4. NoProof \in Proof /\ NoProof.code = NoCode
  BY DEF NoProof, Proof
<1>5. /\ proof'[s] = NoProof
      /\ \A z \in Sessions : z # s => proof'[z] = proof[z]
  BY <1>1 DEF TypeOK
<1>6. spent'[n] = 1 /\ \A m \in Codes : m # n => spent'[m] = spent[m]
  BY <1>1, <1>3 DEF TypeOK
<1>7. con'[c].pc = "idle" /\ \A q \in Confirms : q # c => con'[q] = con[q]
  BY <1>1 DEF TypeOK, NoConfirm
<1> HIDE DEF s, n
<1>8. TypeOK'
  <2>1. proof' \in [Sessions -> Proof]
    BY <1>1, <1>4 DEF TypeOK
  <2>2. spent' \in [Codes -> Nat]
    BY <1>1, <1>3 DEF TypeOK
  <2>3. con' \in [Confirms -> Confirming]
    BY <1>1, ConfirmValues DEF TypeOK
  <2> QED
    BY <1>1, <1>2, <2>1, <2>2, <2>3 DEF TypeOK
<1>9. Bound'
  BY <1>2, <1>7 DEF Bound
<1>10. Minted'
  <2>1. \A m \in Codes : Unused(m) => m # n
    BY <1>1 DEF Unused
  <2>2. \A m \in Codes : m # NoCode
    BY DEF Codes, NoCode
  <2>3. \A m \in Codes : Unused(m) => Unused(m)'
    BY <1>2, <1>4, <1>5, <1>6, <2>1, <2>2 DEF Unused
  <2>4. \A q \in Requests : Fresh(q)' <=> Fresh(q)
    BY <1>2 DEF Fresh
  <2>5. \A q \in Requests : Fresh(q) => req[q].code \in Codes
    BY DEF Fresh, Bound
  <2> QED
    BY <1>2, <2>3, <2>4, <2>5 DEF Minted
<1>11. Pending'
  <2>1. \A z \in Sessions : z # s => proof[z].code # n
    BY <1>1, <1>3 DEF Pending
  <2>2. \A z \in Sessions : z # s /\ proof[z].code # NoCode => proof[z].code \in Codes
    BY DEF TypeOK, Proof
  <2> QED
    BY <1>2, <1>4, <1>5, <1>6, <2>1, <2>2 DEF Pending
<1>12. Failed' /\ GuessesBounded'
  BY <1>2 DEF Failed, GuessesBounded
<1>13. SpentOnce'
  BY <1>6 DEF SpentOnce
<1> QED
  BY <1>8, <1>9, <1>10, <1>11, <1>12, <1>13

-----------------------------------------------------------------------------
(* The application, and every step.                                          *)

\* Expiry, a new address, a target that changes hands.
LEMMA ApplicationStep ==
    ASSUME IInv, Application
    PROVE  IInv'
<1> USE DEF IInv
<1>1. /\ issued' = issued /\ guessed' = guessed /\ req' = req /\ con' = con
      /\ newest' = newest /\ tries' = tries /\ spent' = spent
      /\ undelivered' = undelivered
      /\ address' \in Addresses /\ owned' \subseteq Targets
  BY DEF Application, Expire, Readdress, ChangeHands, account, history, TypeOK
<1>2. /\ proof' \in [Sessions -> Proof]
      /\ \A s \in Sessions : /\ proof'[s].code = proof[s].code
                             /\ proof'[s].target = proof[s].target
                             /\ proof'[s].recipient = proof[s].recipient
                             /\ proof'[s].attempts = proof[s].attempts
  <2>1. CASE proof' = proof
    BY <2>1 DEF TypeOK
  <2>2. ASSUME NEW s \in Sessions, proof' = [proof EXCEPT ![s].expired = TRUE]
        PROVE  <1>2
    <3>1. proof \in [Sessions -> Proof]
      BY DEF TypeOK
    <3>2. \A z \in Sessions :
            proof'[z] = IF z = s THEN [proof[s] EXCEPT !.expired = TRUE] ELSE proof[z]
      BY <2>2, <3>1
    <3>3. [proof[s] EXCEPT !.expired = TRUE] \in Proof
      BY <3>1 DEF Proof
    <3>4. proof' \in [Sessions -> Proof]
      BY <2>2, <3>1, <3>3
    <3> QED
      BY <3>1, <3>2, <3>4 DEF Proof
  <2> QED
    BY <2>1, <2>2 DEF Application, Expire, Readdress, ChangeHands
<1>3. TypeOK'
  BY <1>1, <1>2 DEF TypeOK
<1>4. Bound' /\ Failed' /\ GuessesBounded' /\ SpentOnce'
  BY <1>1 DEF Bound, Failed, GuessesBounded, SpentOnce
<1>5. Minted'
  BY <1>1, <1>2 DEF Minted, Fresh, Unused
<1>6. Pending'
  BY <1>1, <1>2 DEF Pending
<1> QED
  BY <1>3, <1>4, <1>5, <1>6

\* Every step preserves the invariant.
LEMMA InvStep == IInv /\ [Next]_vars => IInv'
<1> SUFFICES ASSUME IInv, [Next]_vars PROVE IInv'
  OBVIOUS
<1>1. ASSUME NEW r \in Requests, Request(r) PROVE IInv'
  BY <1>1, ChargeStep, MoveStep, StoreStep, DiscardStep DEF Request
<1>2. ASSUME NEW c \in Confirms, Confirm(c) PROVE IInv'
  BY <1>2, ConfirmMoveStep, AttemptStep, ConsumeStep DEF Confirm
<1>3. CASE Application
  BY <1>3, ApplicationStep
<1>4. CASE UNCHANGED vars
  BY <1>4 DEF vars, IInv, TypeOK, Bound, Minted, Fresh, Unused, Pending, Failed,
              GuessesBounded, SpentOnce
<1> QED
  BY <1>1, <1>2, <1>3, <1>4 DEF Next

\* The invariant holds of every reachable state.
LEMMA Invariant == Spec => []IInv
BY InvInit, InvStep, PTL DEF Spec

-----------------------------------------------------------------------------
(* The theorems.                                                             *)

\* Type correctness: no proof ever counts more attempts than it allows.
THEOREM TypeCorrect == Spec => []TypeOK
BY Invariant, PTL DEF IInv

\* However many confirmations race, at most MaxAttempts guesses are compared
\* with one code.
THEOREM GuessBound == Spec => []GuessesBounded
BY Invariant, PTL DEF IInv

\* However many confirmations verified a code, it performs one action.
THEOREM SingleUse == Spec => []SpentOnce
BY Invariant, PTL DEF IInv

\* An action is performed only under the newest proof of its session, on that
\* proof's target, while its recipient is the account's address.
THEOREM NewestWins == Spec => NewestProofPerforms
<1> DEFINE A == \A n \in Codes : spent'[n] > spent[n] =>
                  \E s \in Sessions : /\ newest[s].code = n
                                      /\ newest[s].recipient = address
                                      /\ owned \ owned' = {newest[s].target}
<1>1. IInv /\ [Next]_vars => [A]_vars
  <2> SUFFICES ASSUME IInv, Next, NEW n \in Codes, spent'[n] > spent[n]
               PROVE  \E s \in Sessions : /\ newest[s].code = n
                                          /\ newest[s].recipient = address
                                          /\ owned \ owned' = {newest[s].target}
    OBVIOUS
  <2>1. spent' # spent
    BY DEF IInv, TypeOK
  <2>2. PICK c \in Confirms : ConfirmConsume(c)
    BY <2>1 DEF Next, Request, Confirm, Application, RequestCharge, RequestRecipient,
                RequestStore, RequestSent, RequestUnsent, RequestDiscard, RequestLost,
                ConfirmCharge, ConfirmAttempt, ConfirmNothing, ConfirmRefused, ConfirmLost,
                Expire, Readdress, ChangeHands, history
  <2>3. con[c].guess = n
    BY <2>2 DEF ConfirmConsume, IInv, TypeOK
  <2>4. con[c].session \in Sessions
    BY <2>2 DEF ConfirmConsume, IInv, Bound
  <2>5. /\ proof[con[c].session].code = n /\ n # NoCode
        /\ proof[con[c].session].target = con[c].target
        /\ proof[con[c].session].recipient = address
    BY <2>2, <2>3 DEF ConfirmConsume, Spendable, Codes, NoCode
  <2>6. owned \ owned' = {con[c].target}
    BY <2>2 DEF ConfirmConsume
  <2> QED
    BY <2>4, <2>5, <2>6 DEF IInv, Pending
<1> QED
  BY <1>1, Invariant, PTL DEF Spec, NewestProofPerforms

\* A pending proof disappears only when it is spent or its mail failed.
THEOREM DeliveredStays == Spec => DeliveredCodeStays
<1> DEFINE A == \A s \in Sessions :
                  LET n == proof[s].code
                  IN  n # NoCode /\ proof'[s].code = NoCode =>
                        spent'[n] > spent[n] \/ n \in undelivered
<1>1. IInv /\ [Next]_vars => [A]_vars
  <2> SUFFICES ASSUME IInv, Next, NEW s \in Sessions,
                      proof[s].code # NoCode, proof'[s].code = NoCode
               PROVE  spent'[proof[s].code] > spent[proof[s].code]
                        \/ proof[s].code \in undelivered
    OBVIOUS
  <2>1. proof' # proof
    OBVIOUS
  <2>2. ASSUME NEW r \in Requests, RequestStore(r)
        PROVE  FALSE
    BY <2>2 DEF RequestStore, IInv, TypeOK, Bound, Codes, NoCode
  <2>3. ASSUME NEW r \in Requests, RequestDiscard(r)
        PROVE  proof[s].code \in undelivered
    BY <2>3 DEF RequestDiscard, IInv, TypeOK, Failed
  <2>4. ASSUME NEW c \in Confirms, ConfirmAttempt(c)
        PROVE  FALSE
    BY <2>4 DEF ConfirmAttempt, IInv, TypeOK, Proof
  <2>5. ASSUME NEW c \in Confirms, ConfirmConsume(c)
        PROVE  spent'[proof[s].code] > spent[proof[s].code]
    <3>1. s = con[c].session /\ proof[s].code = con[c].guess
      BY <2>5 DEF ConfirmConsume, Spendable, IInv, TypeOK
    <3>2. con[c].guess \in Codes
      BY <2>5 DEF ConfirmConsume, IInv, Bound
    <3> QED
      BY <2>5, <3>1, <3>2 DEF ConfirmConsume, IInv, TypeOK
  <2>6. ASSUME NEW z \in Sessions, Expire(z)
        PROVE  FALSE
    BY <2>6 DEF Expire, IInv, TypeOK, Proof
  <2> QED
    BY <2>1, <2>2, <2>3, <2>4, <2>5, <2>6
       DEF Next, Request, Confirm, Application, RequestCharge, RequestRecipient,
           RequestSent, RequestUnsent, RequestLost, ConfirmCharge, ConfirmNothing,
           ConfirmRefused, ConfirmLost, Readdress, ChangeHands
<1> QED
  BY <1>1, Invariant, PTL DEF Spec, DeliveredCodeStays

=============================================================================
