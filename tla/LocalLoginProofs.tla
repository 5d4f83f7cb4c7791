--------------------------- MODULE LocalLoginProofs ---------------------------
(***************************************************************************)
(* The safety properties of LocalLogin, for any addresses, any number of     *)
(* requests in flight and any bound on codes and attempts.                   *)
(***************************************************************************)
EXTENDS LocalLogin, TLAPS

(* The inductive invariant.                                                  *)

\* A record, or a copy of it, has the pieces of one attempt and a code that exists.
Sound(c) == c.code <= minted /\ OneAddress(c)

\* An address that may register but has no account is kept for a captcha.
Known(c) == c.email # None /\ ~c.deferred => c.email \in accounts \/ c.email \notin Admitted

\* The attempts of a record cover the comparisons with its code, which admitted none.
Counted(c) == c.code # NoCode => tries[c.code] <= c.attempts /\ used[c.code] = 0

StoreHolds == Sound(store) /\ Known(store) /\ Counted(store)

\* What a request carries from its load to its end.
Carries(q) ==
    /\ Sound(q.copy)
    /\ q.pc \in {"captcha", "compare", "save", "resolve", "respond"} => Known(q.copy)
    /\ q.pc = "compare" => Counted(q.copy)
    /\ q.pc \in {"idle", "lookup", "captcha", "compare", "respond"} => q.code = NoCode
    /\ q.pc \in {"resolve", "create"} => q.code # NoCode
    /\ q.pc = "create" => q.account \in Admitted
    /\ q.code <= minted
    /\ q.pc \in {"resolve", "create", "finalize"} /\ q.code # NoCode => q.account = sentTo[q.code]

RequestsHold ==
    \A r \in Requests : Carries(rq[r]) /\ (rq[r].pc = "compare" => lock = r)

\* A code that its request has not stored yet is nowhere else, and was not compared.
FreshCodes ==
    \A r \in Requests :
        rq[r].pc = "save" /\ rq[r].code # NoCode =>
            /\ rq[r].copy.code = rq[r].code /\ rq[r].copy.attempts = 0
            /\ tries[rq[r].code] = 0 /\ used[rq[r].code] = 0
            /\ store.code # rq[r].code
            /\ \A q \in Requests : q # r => rq[q].copy.code # rq[r].code

\* A code for an address that has no account and may register was mailed for a
\* captcha; codes to come have no history.
Ledger ==
    /\ Registered \subseteq accounts
    /\ \A n \in founders : n <= minted
    /\ \A n \in Codes :
          IF n <= minted
          THEN captcha /\ sentTo[n] \in Admitted \ accounts => n \in solved
          ELSE tries[n] = 0 /\ used[n] = 0

IInv == /\ TypeOK /\ StoreHolds /\ RequestsHold /\ FreshCodes /\ Ledger
        /\ AccountsGated /\ GuessesCapped /\ CodeAdmitsOnce

-----------------------------------------------------------------------------
(* Records.                                                                  *)

\* What the program builds its records from.
LEMMA Values ==
  /\ NoCode = 0 /\ MaxAttempts \in Nat /\ CodeLimit \in Nat
  /\ Codes = 1 .. CodeLimit
  /\ Empty \in Record /\ Idle \in Request
  /\ None \notin Addresses /\ None \notin Requests
<1>1. MaxAttempts \in Nat /\ CodeLimit \in Nat /\ 0 \in 0 .. MaxAttempts
      /\ None \notin Addresses /\ None \notin Requests
  BY ConstantsAssumption DEF ConstantsAssumption
<1>2. Empty \in Record
  BY <1>1 DEF Empty, Record, NoCode
<1> QED
  BY <1>1, <1>2 DEF Idle, Request, Codes, NoCode

\* Codes and attempts are numbers.
LEMMA Numbers ==
  /\ \A c \in Record : /\ c.code \in Nat /\ (c.code # NoCode => c.code \in Codes)
                       /\ c.attempts \in Nat /\ c.attempts <= MaxAttempts
  /\ \A q \in Request : q.copy \in Record /\ q.code \in Nat /\ (q.code # NoCode => q.code \in Codes)
  /\ \A n \in Codes : n \in Nat /\ n # NoCode
<1>1. \A n \in Codes : n \in Nat /\ n # NoCode
  BY Values
<1>2. \A n \in 0 .. MaxAttempts : n \in Nat /\ n <= MaxAttempts
  BY Values
<1>3. \A c \in Record : c.code \in Codes \cup {NoCode} /\ c.attempts \in 0 .. MaxAttempts
  BY DEF Record
<1>4. \A q \in Request : q.copy \in Record /\ q.code \in Codes \cup {NoCode}
  BY DEF Request
<1>5. NoCode \in Nat
  BY Values
<1> QED
  BY <1>1, <1>2, <1>3, <1>4, <1>5

\* clear_otp_state and reset_pending_login_state.
LEMMA ClearedRecord ==
  ASSUME NEW c \in Record
  PROVE  /\ Cleared(c) \in Record
         /\ Cleared(c).code = NoCode /\ Cleared(c).email = c.email
         /\ Cleared(c).deferred = c.deferred /\ Cleared(c).owner = c.owner
         /\ Cleared(c).challenge = c.challenge
<1>1. NoCode \in Codes \cup {NoCode} /\ 0 \in 0 .. MaxAttempts
  BY Values
<1> QED
  BY <1>1 DEF Cleared, Record

\* ... which start_session then gives the address.
LEMMA ResetRecord ==
  ASSUME NEW c \in Record, NEW e \in Addresses
  PROVE  /\ [Reset(c) EXCEPT !.email = e] \in Record
         /\ [Reset(c) EXCEPT !.email = e].email = e
         /\ [Reset(c) EXCEPT !.email = e].code = NoCode
         /\ [Reset(c) EXCEPT !.email = e].owner = None
         /\ [Reset(c) EXCEPT !.email = e].deferred = FALSE
<1>1. Cleared(c) \in Record /\ Cleared(c).code = NoCode
  BY ClearedRecord
<1> QED
  BY <1>1 DEF Reset, Record

\* Init satisfies the invariant.
LEMMA InvInit == Init => IInv
<1> SUFFICES ASSUME Init PROVE IInv
  OBVIOUS
<1>1. TypeOK
  BY Values, ConstantsAssumption DEF ConstantsAssumption, Init, TypeOK
<1>2. /\ Empty.email = None /\ Empty.code = NoCode /\ Empty.owner = None /\ ~Empty.deferred
      /\ Idle.pc = "idle" /\ Idle.copy = Empty /\ Idle.code = NoCode
  BY DEF Empty, Idle
<1>3. Sound(Empty) /\ Known(Empty) /\ Counted(Empty)
  BY <1>2, Values DEF Init, Sound, OneAddress, Known, Counted
<1>4. Carries(Idle)
  BY <1>2, <1>3, Values DEF Init, Carries
<1>5. StoreHolds /\ RequestsHold /\ FreshCodes
  BY <1>2, <1>3, <1>4 DEF Init, StoreHolds, RequestsHold, FreshCodes
<1>6. Ledger /\ AccountsGated /\ GuessesCapped /\ CodeAdmitsOnce
  BY Values DEF Init, Ledger, AccountsGated, GuessesCapped, CodeAdmitsOnce
<1> QED
  BY <1>1, <1>5, <1>6 DEF IInv

-----------------------------------------------------------------------------
(* Steps of one request.                                                     *)

\* History only grows.
Onward == /\ accounts \subseteq accounts'
          /\ minted <= minted'
          /\ \A n \in Codes : n <= minted => sentTo'[n] = sentTo[n]

\* What is sound and known stays so, in a record that is not touched.
LEMMA StoreOn ==
  ASSUME IInv, TypeOK', Onward, NEW c \in Record
  PROVE  /\ Sound(c) => /\ c.code <= minted'
                        /\ c.code # NoCode => c.to = c.email /\ sentTo'[c.code] = c.to
         /\ Known(c) => (c.email # None /\ ~c.deferred => c.email \in accounts' \/ c.email \notin Admitted)
<1>1. minted \in 0 .. CodeLimit /\ minted' \in 0 .. CodeLimit
  BY DEF IInv, TypeOK
<1>2. minted \in Nat /\ minted' \in Nat /\ c.code \in Nat /\ (c.code # NoCode => c.code \in Codes)
  BY <1>1, Values, Numbers
<1> QED
  BY <1>2 DEF Onward, Sound, OneAddress, Known

\* ... and in a request that does not move.
LEMMA CarriesOn ==
  ASSUME IInv, TypeOK', Onward, NEW q \in Requests, rq'[q] = rq[q],
         rq[q].pc = "compare" /\ rq[q].copy.code # NoCode =>
            LET n == rq[q].copy.code
            IN  tries'[n] \in {tries[n], 0} /\ used'[n] \in {used[n], 0}
  PROVE  Carries(rq[q])'
<1> DEFINE l == rq[q]
<1>1. l \in Request /\ l.copy \in Record /\ Carries(l)
  BY DEF IInv, TypeOK, Request, RequestsHold
<1>2. /\ l.code \in Nat /\ (l.code # NoCode => l.code \in Codes) /\ minted \in Nat /\ minted' \in Nat
      /\ l.copy.attempts \in Nat
  <2>1. minted \in 0 .. CodeLimit /\ minted' \in 0 .. CodeLimit
    BY DEF IInv, TypeOK
  <2> QED
    BY <1>1, <2>1, Values, Numbers
<1>3. Sound(l.copy)'
  BY <1>1, StoreOn DEF Carries, Sound, OneAddress
<1>4. l.pc \in {"captcha", "compare", "save", "resolve", "respond"} => Known(l.copy)'
  BY <1>1, StoreOn DEF Carries, Known
<1>5. l.pc = "compare" => Counted(l.copy)'
  BY <1>1, <1>2 DEF Carries, Counted
<1>6. l.code <= minted' /\ (l.code # NoCode => sentTo'[l.code] = sentTo[l.code])
  BY <1>1, <1>2 DEF Carries, Onward
<1> QED
  BY <1>1, <1>3, <1>4, <1>5, <1>6 DEF Carries

\* ... in the history of the codes.
LEMMA LedgerOn ==
  ASSUME IInv, TypeOK', Onward, captcha' = captcha, solved \subseteq solved', founders' = founders,
         \A n \in Codes : n > minted => tries'[n] = tries[n] /\ used'[n] = used[n],
         \A n \in Codes : n > minted /\ n <= minted' =>
            (captcha /\ sentTo'[n] \in Admitted \ accounts' => n \in solved')
  PROVE  Ledger' /\ AccountsGated'
<1>1. minted \in 0 .. CodeLimit /\ minted' \in 0 .. CodeLimit /\ founders \subseteq Codes
  BY DEF IInv, TypeOK
<1>2. minted \in Nat /\ minted' \in Nat /\ \A n \in Codes : n \in Nat
  BY <1>1, Values, Numbers
<1>3. AccountsGated'
  BY <1>1, <1>2 DEF IInv, Ledger, AccountsGated, Onward
<1>4. \A n \in founders' : n <= minted'
  BY <1>1, <1>2 DEF IInv, Ledger, Onward
<1>5. \A n \in Codes : n <= minted' =>
        (captcha' /\ sentTo'[n] \in Admitted \ accounts' => n \in solved')
  BY <1>1, <1>2 DEF IInv, Ledger, Onward
<1>6. \A n \in Codes : ~(n <= minted') => tries'[n] = 0 /\ used'[n] = 0
  BY <1>1, <1>2 DEF IInv, Ledger, Onward
<1> QED
  BY <1>3, <1>4, <1>5, <1>6 DEF IInv, Ledger, Onward

\* A request goes on to l without a code of its own, and only it moves.
Quietly(r, l) ==
    /\ rq' = [rq EXCEPT ![r] = l]
    /\ l.pc = "save" => l.code = NoCode
    /\ l.copy.code \in {store.code, rq[r].copy.code, NoCode}
    /\ l.pc = "compare" => lock' = r
    /\ lock' = lock \/ (lock \in {None, r} /\ lock' \in {None, r})
    /\ UNCHANGED <<store, accounts, config, minted, codeLog, counts>>

\* ... which keeps the invariant.
LEMMA Move ==
  ASSUME IInv, NEW r \in Requests, NEW l \in Request, Carries(l), Quietly(r, l)
  PROVE  IInv'
<1>1. /\ UNCHANGED <<store, accounts, keyed, captcha, minted, sentTo, solved, founders, tries, used>>
      /\ rq' = [rq EXCEPT ![r] = l]
  BY DEF Quietly, config, codeLog, counts
<1>2. TypeOK'
  BY <1>1 DEF IInv, TypeOK, Quietly
<1>3. rq'[r] = l /\ \A q \in Requests : q # r => rq'[q] = rq[q]
  BY <1>1 DEF IInv, TypeOK
<1>4. Onward
  BY <1>1, Values DEF Onward, IInv, TypeOK
<1>5. StoreHolds'
  BY <1>1 DEF IInv, StoreHolds, Sound, OneAddress, Known, Counted
<1>6. ASSUME NEW q \in Requests PROVE Carries(rq[q])' /\ (rq'[q].pc = "compare" => lock' = q)
  <2>1. CASE q = r
    <3>1. Carries(rq[r])'
      BY <1>1, <1>3 DEF Carries, Sound, OneAddress, Known, Counted
    <3> QED
      BY <1>3, <2>1, <3>1 DEF Quietly
  <2>2. CASE q # r
    <3>1. Carries(rq[q])'
      BY <1>1, <1>2, <1>3, <1>4, <2>2, CarriesOn
    <3>2. rq[q].pc = "compare" => lock' = q
      BY <2>2, Values DEF Quietly, IInv, RequestsHold
    <3> QED
      BY <1>3, <2>2, <3>1, <3>2
  <2> QED
    BY <2>1, <2>2
<1>7. FreshCodes'
  <2>1. l.copy.code \in {store.code, rq[r].copy.code, NoCode}
    BY DEF Quietly
  <2>2. ASSUME NEW q \in Requests, q # r, rq[q].pc = "save", rq[q].code # NoCode
        PROVE  l.copy.code # rq[q].code
    BY <2>1, <2>2 DEF IInv, FreshCodes
  <2> QED
    BY <1>1, <1>3, <2>2 DEF IInv, FreshCodes, Quietly
<1>8. Ledger' /\ AccountsGated'
  BY <1>1, <1>2, <1>4, LedgerOn, Numbers DEF IInv, TypeOK
<1>9. GuessesCapped' /\ CodeAdmitsOnce'
  BY <1>1 DEF IInv, GuessesCapped, CodeAdmitsOnce
<1> QED
  BY <1>2, <1>5, <1>6, <1>7, <1>8, <1>9 DEF IInv, RequestsHold

\* The loads: what the store holds is what the copy holds.
LEMMA Loaded ==
  ASSUME IInv
  PROVE  /\ store \in Record /\ Sound(store) /\ Known(store) /\ Counted(store)
         /\ \A r \in Requests : rq[r] \in Request /\ Carries(rq[r]) /\ rq[r].copy \in Record
         /\ 0 <= minted /\ minted \in Nat
         /\ Carries(Idle) /\ Idle \in Request /\ Idle.copy.code = NoCode /\ Idle.pc = "idle"
<1>1. store \in Record /\ \A r \in Requests : rq[r] \in Request
  BY DEF IInv, TypeOK
<1>2. minted \in 0 .. CodeLimit
  BY DEF IInv, TypeOK
<1>3. 0 <= minted /\ minted \in Nat
  BY <1>2, Values
<1>4. /\ Empty.email = None /\ Empty.code = NoCode /\ Empty.owner = None /\ ~Empty.deferred
      /\ Idle.pc = "idle" /\ Idle.copy = Empty /\ Idle.code = NoCode
  BY DEF Empty, Idle
<1>5. Carries(Idle)
  BY <1>3, <1>4, Values DEF Carries, Sound, OneAddress
<1> QED
  BY <1>1, <1>3, <1>4, <1>5, Numbers, Values DEF IInv, StoreHolds, RequestsHold

\* start_session, up to its lookup.
LEMMA InvStartLoad ==
  ASSUME IInv, NEW r \in Requests, NEW e \in Addresses, StartLoad(r, e)
  PROVE  IInv'
<1> DEFINE c == [Reset(store) EXCEPT !.email = e]
           l == [rq[r] EXCEPT !.pc = "lookup", !.copy = c]
<1>1. c \in Record /\ c.email = e /\ c.code = NoCode /\ c.owner = None /\ c.deferred = FALSE
  BY Loaded, ResetRecord
<1>2. rq' = [rq EXCEPT ![r] = l] /\ rq[r].pc = "idle"
  BY DEF StartLoad, At
<1> HIDE DEF c
<1>3. l \in Request /\ l.pc = "lookup" /\ l.copy = c /\ l.code = rq[r].code
  BY <1>1, Loaded DEF Request
<1> HIDE DEF l
<1>4. Carries(l)
  BY <1>1, <1>2, <1>3, Loaded, Values DEF Carries, Sound, OneAddress
<1>5. Quietly(r, l)
  BY <1>1, <1>2, <1>3 DEF Quietly, StartLoad
<1> QED
  BY <1>3, <1>4, <1>5, Move

\* The copy start_session ends with.
LEMMA StartedRecord ==
  ASSUME IInv, NEW c \in Record, Sound(c)
  PROVE  /\ Started(c) \in Record /\ Sound(Started(c)) /\ Known(Started(c))
         /\ Started(c).email = c.email /\ Started(c).code = c.code
<1> DEFINE passkey == [c EXCEPT !.challenge = TRUE, !.owner = c.email]
           code == [c EXCEPT !.deferred = c.email \in Admitted \ accounts]
<1>1. Registered \subseteq accounts
  BY DEF IInv, Ledger
<1>2. passkey \in Record /\ Sound(passkey) /\ passkey.email = c.email /\ passkey.code = c.code
  BY DEF Record, Sound, OneAddress
<1>3. c.email \in accounts => Known(passkey)
  BY DEF Record, Known
<1>4. code \in Record /\ Sound(code) /\ Known(code) /\ code.email = c.email /\ code.code = c.code
  <2> DEFINE d(b) == [c EXCEPT !.deferred = b]
  <2>1. \A b \in BOOLEAN : /\ d(b) \in Record /\ d(b).email = c.email /\ d(b).code = c.code
                           /\ d(b).to = c.to /\ d(b).owner = c.owner
                           /\ d(b).challenge = c.challenge /\ d(b).deferred = b
    BY DEF Record
  <2>2. CASE c.email \in Admitted \ accounts
    <3>1. code = d(TRUE)
      <4>1. (c.email \in Admitted \ accounts) = TRUE
        BY <2>2
      <4> QED
        BY <4>1
    <3> HIDE DEF code, d
    <3> QED
      BY <1>1, <2>1, <2>2, <3>1 DEF Sound, OneAddress, Known
  <2>3. CASE c.email \notin Admitted \ accounts
    <3>1. code = d(FALSE)
      <4>1. (c.email \in Admitted \ accounts) = FALSE
        BY <2>3
      <4> QED
        BY <4>1
    <3> HIDE DEF code, d
    <3> QED
      BY <2>1, <2>3, <3>1 DEF Sound, OneAddress, Known
  <2> QED
    BY <2>2, <2>3
<1>5. Started(c) = IF c.email \in accounts /\ c.email \in keyed THEN passkey ELSE code
  BY DEF Started
<1> HIDE DEF passkey, code
<1> QED
  BY <1>2, <1>3, <1>4, <1>5

\* The other steps that move one request: the end of start_session without a
\* code, the loads, the lookup of an account, and a request that is lost.
LEMMA InvMove ==
  ASSUME IInv, NEW r \in Requests,
         \/ StartLookup(r) /\ minted' = minted
         \/ CaptchaLoad(r) \/ ConditionalOptions(r) \/ VerifyLoad(r) \/ Resolve(r) \/ Lost(r)
         \/ \E k \in Addresses : VerifyPasskey(r, k)
  PROVE  IInv'
<1> DEFINE me == rq[r]
<1>0. /\ me \in Request /\ Carries(me) /\ me.copy \in Record
      /\ me.pc = "idle" => me.code = NoCode
  BY Loaded DEF Carries
<1>1. CASE StartLookup(r) /\ minted' = minted
  <2> DEFINE c == Started(me.copy)
             l == [me EXCEPT !.pc = "save", !.copy = c]
  <2>1. c \in Record /\ Sound(c) /\ Known(c) /\ c.code = me.copy.code
    BY <1>0, StartedRecord DEF Carries
  <2>2. rq' = [rq EXCEPT ![r] = l] /\ sentTo' = sentTo /\ me.pc = "lookup"
    <3>1. ~Issue(r, c, me.copy.email)
      BY <1>1, Loaded DEF Issue
    <3> QED
      BY <1>1, <3>1 DEF StartLookup, At
  <2>3. UNCHANGED <<store, lock, accounts, config, minted, codeLog, counts>>
    BY <1>1, <2>2 DEF StartLookup, codeLog
  <2> HIDE DEF c
  <2>4. l \in Request /\ l.pc = "save" /\ l.copy = c /\ l.code = me.code
    BY <1>0, <2>1 DEF Request
  <2> HIDE DEF l
  <2>5. Carries(l)
    BY <1>0, <2>1, <2>2, <2>4 DEF Carries
  <2>6. Quietly(r, l)
    BY <1>0, <2>1, <2>2, <2>3, <2>4 DEF Quietly, Carries
  <2> QED
    BY <2>4, <2>5, <2>6, Move
<1>2. CASE CaptchaLoad(r) \/ VerifyLoad(r)
  <2>1. PICK place \in {"captcha", "compare"} :
          /\ rq' = [rq EXCEPT ![r] = [me EXCEPT !.pc = place, !.copy = store]]
          /\ place = "compare" => lock = None /\ lock' = r
          /\ place = "captcha" => lock' = lock
    BY <1>2 DEF CaptchaLoad, VerifyLoad, At
  <2> DEFINE l == [me EXCEPT !.pc = place, !.copy = store]
  <2>2. me.pc = "idle" /\ UNCHANGED <<store, accounts, config, minted, codeLog, counts>>
    BY <1>2 DEF CaptchaLoad, VerifyLoad
  <2>3. l \in Request /\ l.pc = place /\ l.copy = store /\ l.code = me.code
    BY <1>0, Loaded DEF Request
  <2>4. rq' = [rq EXCEPT ![r] = l]
    BY <2>1
  <2> HIDE DEF l
  <2>5. Carries(l)
    BY <1>0, <2>2, <2>3, Loaded, Values DEF Carries
  <2>6. Quietly(r, l)
    BY <2>1, <2>2, <2>3, <2>4 DEF Quietly
  <2> QED
    BY <2>3, <2>5, <2>6, Move
<1>3. CASE ConditionalOptions(r)
  <2> DEFINE c == [store EXCEPT !.challenge = TRUE, !.owner = None]
             l == [me EXCEPT !.pc = "save", !.copy = c]
  <2>1. c \in Record /\ Sound(c) /\ Known(c) /\ c.code = store.code
    BY Loaded DEF Record, Sound, OneAddress, Known
  <2>2. rq' = [rq EXCEPT ![r] = l] /\ me.pc = "idle"
    BY <1>3 DEF ConditionalOptions, At
  <2> HIDE DEF c
  <2>3. l \in Request /\ l.pc = "save" /\ l.copy = c /\ l.code = me.code
    BY <1>0, <2>1 DEF Request
  <2> HIDE DEF l
  <2>4. Carries(l)
    BY <1>0, <2>1, <2>2, <2>3, Loaded, Values DEF Carries
  <2>5. Quietly(r, l)
    BY <1>0, <1>3, <2>1, <2>2, <2>3 DEF Quietly, ConditionalOptions
  <2> QED
    BY <2>3, <2>4, <2>5, Move
<1>4. ASSUME NEW k \in Addresses, VerifyPasskey(r, k) PROVE IInv'
  <2> DEFINE l == [Idle EXCEPT !.pc = "finalize", !.account = k]
  <2>1. l \in Request /\ l.pc = "finalize" /\ l.copy = Idle.copy /\ l.code = Idle.code
        /\ Idle.code = NoCode
    BY Loaded DEF Request, Idle
  <2>2. rq' = [rq EXCEPT ![r] = l]
    BY <1>4 DEF VerifyPasskey
  <2> HIDE DEF l
  <2>3. Carries(l)
    BY <2>1, Loaded DEF Carries
  <2>4. Quietly(r, l)
    BY <1>4, <2>1, <2>2, Loaded DEF Quietly, VerifyPasskey
  <2> QED
    BY <2>1, <2>3, <2>4, Move
<1>5. CASE Lost(r)
  <2>1. Quietly(r, Idle)
    BY <1>5, Loaded DEF Quietly, Lost, Done
  <2> QED
    BY <2>1, Loaded, Move
<1> DEFINE refused == [Idle EXCEPT !.pc = "respond", !.copy = me.copy]
<1>7. CASE Resolve(r) /\ rq' = [rq EXCEPT ![r] = refused]
  <2>1. refused \in Request /\ refused.pc = "respond" /\ refused.copy = me.copy
        /\ refused.code = NoCode
    BY <1>0, Loaded DEF Request, Idle
  <2> HIDE DEF refused
  <2>2. Carries(refused)
    BY <1>0, <1>7, <2>1, Loaded DEF Carries, Resolve
  <2>3. Quietly(r, refused)
    BY <1>7, <2>1 DEF Quietly, Resolve
  <2> QED
    BY <2>1, <2>2, <2>3, Move
<1>6. CASE Resolve(r) /\ rq' # [rq EXCEPT ![r] = refused]
  <2>1. PICK place \in {"finalize", "create"} :
          /\ rq' = [rq EXCEPT ![r] = [me EXCEPT !.pc = place]]
          /\ place = "create" => me.account \in Admitted
    BY <1>6 DEF Resolve
  <2> HIDE DEF refused
  <2> DEFINE l == [me EXCEPT !.pc = place]
  <2>2. l \in Request /\ l.pc = place /\ l.copy = me.copy /\ l.code = me.code /\ l.account = me.account
    BY <1>0 DEF Request
  <2>3. rq' = [rq EXCEPT ![r] = l] /\ me.pc = "resolve"
    BY <1>6, <2>1 DEF Resolve
  <2> HIDE DEF l
  <2>4. Carries(l)
    BY <1>0, <2>1, <2>2, <2>3 DEF Carries
  <2>5. Quietly(r, l)
    BY <1>6, <2>2, <2>3 DEF Quietly, Resolve
  <2> QED
    BY <2>2, <2>4, <2>5, Move
<1> QED
  BY <1>1, <1>2, <1>3, <1>4, <1>5, <1>6, <1>7

-----------------------------------------------------------------------------
(* Steps that mint a code.                                                   *)

\* generate_and_send_otp for the address of copy c, which a captcha may have paid for.
Mint(r, c) ==
    /\ Issue(r, c, c.email)
    /\ solved' \in {solved, solved \cup {minted + 1}}
    /\ captcha /\ c.email \in Admitted \ accounts => minted + 1 \in solved'
    /\ UNCHANGED <<store, lock, accounts, config, founders, counts>>

\* ... keeps the invariant.
LEMMA InvMint ==
  ASSUME IInv, NEW r \in Requests, NEW c \in Record, Sound(c), Known(c), Mint(r, c)
  PROVE  IInv'
<1> DEFINE n == minted + 1
           d == [c EXCEPT !.code = n, !.to = c.email, !.attempts = 0]
           l == [rq[r] EXCEPT !.pc = "save", !.code = n, !.copy = d]
<1>1. /\ UNCHANGED <<store, lock, accounts, keyed, captcha, founders, tries, used>>
      /\ minted' = n /\ sentTo' = [sentTo EXCEPT ![n] = c.email] /\ minted < CodeLimit
      /\ rq' = [rq EXCEPT ![r] = l]
  BY DEF Mint, Issue, config, counts
<1>2. n \in Codes /\ n \in Nat /\ minted \in Nat /\ ~(n <= minted) /\ minted <= n /\ n <= n
      /\ n # NoCode /\ n \in 0 .. CodeLimit
  BY <1>1, Loaded, Values
<1> HIDE DEF n
<1>3. /\ d \in Record /\ d.code = n /\ d.to = c.email /\ d.attempts = 0 /\ d.email = c.email
      /\ d.owner = c.owner /\ d.challenge = c.challenge /\ d.deferred = c.deferred
  <2>1. 0 \in 0 .. MaxAttempts
    BY Values
  <2> QED
    BY <1>2, <2>1 DEF Record
<1> HIDE DEF d
<1>4. l \in Request /\ l.pc = "save" /\ l.copy = d /\ l.code = n
  BY <1>2, <1>3, Loaded DEF Request
<1> HIDE DEF l
<1>5. solved' \subseteq Codes /\ solved \subseteq solved'
  <2>1. solved \subseteq Codes
    BY DEF IInv, TypeOK
  <2> QED
    BY <1>2, <2>1 DEF Mint, n
<1>6. c.email \in Addresses \cup {None}
  BY DEF Record
<1>7. TypeOK'
  BY <1>1, <1>2, <1>4, <1>5, <1>6 DEF IInv, TypeOK
<1>8. rq'[r] = l /\ \A q \in Requests : q # r => rq'[q] = rq[q]
  BY <1>1 DEF IInv, TypeOK
<1>9. /\ sentTo'[n] = c.email
      /\ \A m \in Codes : m <= minted => sentTo'[m] = sentTo[m]
  BY <1>1, <1>2 DEF IInv, TypeOK
<1>10. Onward
  BY <1>1, <1>2, <1>9 DEF Onward
<1>11. StoreHolds'
  BY <1>1, <1>7, <1>10, Loaded, StoreOn DEF IInv, StoreHolds, Sound, OneAddress, Known, Counted
<1>12. ASSUME NEW q \in Requests PROVE Carries(rq[q])' /\ (rq'[q].pc = "compare" => lock' = q)
  <2>1. CASE q = r
    <3>1. Carries(rq[r])'
      BY <1>1, <1>2, <1>3, <1>4, <1>8, <1>9 DEF Carries, Sound, OneAddress, Known
    <3> QED
      BY <1>4, <1>8, <2>1, <3>1
  <2>2. CASE q # r
    <3>1. Carries(rq[q])'
      BY <1>1, <1>7, <1>8, <1>10, <2>2, CarriesOn
    <3> QED
      BY <1>1, <1>8, <2>2, <3>1 DEF IInv, RequestsHold
  <2> QED
    BY <2>1, <2>2
<1>13. FreshCodes'
  <2>1. tries[n] = 0 /\ used[n] = 0
    BY <1>2 DEF IInv, Ledger
  <2>2. store.code # n /\ \A q \in Requests : rq[q].copy.code # n /\ rq[q].code # n
    BY <1>2, Loaded DEF Sound, Carries
  <2>3. ASSUME NEW q \in Requests, rq'[q].pc = "save", rq'[q].code # NoCode
        PROVE  /\ rq'[q].copy.code = rq'[q].code /\ rq'[q].copy.attempts = 0
               /\ tries'[rq'[q].code] = 0 /\ used'[rq'[q].code] = 0
               /\ store'.code # rq'[q].code
               /\ \A p \in Requests : p # q => rq'[p].copy.code # rq'[q].code
    <3>1. CASE q = r
      BY <1>1, <1>3, <1>4, <1>8, <2>1, <2>2, <3>1
    <3>2. CASE q # r
      BY <1>1, <1>3, <1>4, <1>8, <2>2, <2>3, <3>2 DEF IInv, FreshCodes
    <3> QED
      BY <3>1, <3>2
  <2> QED
    BY <2>3 DEF FreshCodes
<1>14. Ledger' /\ AccountsGated'
  <2>1. \A m \in Codes : m > minted /\ m <= minted' => m = n
    BY <1>1, Loaded, Numbers DEF n
  <2>2. captcha /\ c.email \in Admitted \ accounts => n \in solved'
    BY DEF Mint, n
  <2> QED
    BY <1>1, <1>5, <1>7, <1>9, <1>10, <2>1, <2>2, LedgerOn
<1>15. GuessesCapped' /\ CodeAdmitsOnce'
  BY <1>1 DEF IInv, GuessesCapped, CodeAdmitsOnce
<1> QED
  BY <1>7, <1>11, <1>12, <1>13, <1>14, <1>15 DEF IInv, RequestsHold

\* start_session that mails a code, resend_otp, passkey_fallback_to_otp and
\* verify_captcha.
LEMMA InvMail ==
  ASSUME IInv, NEW r \in Requests,
         \/ StartLookup(r) /\ minted' # minted
         \/ Resend(r) \/ Fallback(r) \/ CaptchaPass(r)
  PROVE  IInv'
<1>0. rq[r].copy \in Record /\ Carries(rq[r])
  BY Loaded
<1>1. CASE StartLookup(r) /\ minted' # minted
  <2> DEFINE c == Started(rq[r].copy)
  <2>1. /\ c \in Record /\ Sound(c) /\ Known(c) /\ c.email = rq[r].copy.email
    BY <1>0, StartedRecord DEF Carries
  <2>2. Mails(rq[r].copy) /\ Issue(r, c, c.email)
    BY <1>1, <2>1 DEF StartLookup
  <2>3. captcha => ~(c.email \in Admitted \ accounts)
    BY <2>1, <2>2 DEF Mails
  <2> HIDE DEF c
  <2>4. Mint(r, c)
    BY <1>1, <2>2, <2>3 DEF StartLookup, Mint
  <2> QED
    BY <2>1, <2>4, InvMint
<1>2. CASE Resend(r)
  <2>1. Issue(r, store, store.email) /\ store.code # NoCode
    BY <1>2 DEF Resend, Resendable
  <2>2. /\ store.code \in Codes /\ store.code <= minted
        /\ sentTo[store.code] = store.email
    BY <2>1, Loaded, Numbers DEF Sound, OneAddress
  <2>3. captcha /\ store.email \in Admitted \ accounts => store.code \in solved
    BY <2>2 DEF IInv, Ledger
  <2>4. Mint(r, store)
    BY <1>2, <2>1, <2>3 DEF Resend, Mint
  <2> QED
    BY <2>4, Loaded, InvMint
<1>3. CASE Fallback(r)
  <2> DEFINE c == [store EXCEPT !.challenge = FALSE, !.owner = None]
  <2>1. /\ c \in Record /\ Sound(c) /\ Known(c) /\ c.email = store.email
    BY Loaded DEF Record, Sound, OneAddress, Known
  <2>2. captcha => ~(store.email \in Admitted \ accounts)
    BY <1>3, Loaded DEF Fallback, Known
  <2>3. Issue(r, c, c.email) /\ UNCHANGED <<store, lock, accounts, config, solved, founders, counts>>
    BY <1>3, <2>1 DEF Fallback
  <2> HIDE DEF c
  <2>4. Mint(r, c)
    BY <2>1, <2>2, <2>3 DEF Mint
  <2> QED
    BY <2>1, <2>4, InvMint
<1>4. CASE CaptchaPass(r)
  <2> DEFINE c == rq[r].copy
  <2>1. c \in Record /\ Sound(c) /\ Known(c)
    BY <1>0, <1>4 DEF Carries, CaptchaPass
  <2>2. Mint(r, c)
    BY <1>4 DEF CaptchaPass, Mint
  <2> QED
    BY <2>1, <2>2, InvMint
<1> QED
  BY <1>1, <1>2, <1>3, <1>4

-----------------------------------------------------------------------------
(* The verification of a code.                                               *)

\* The comparison of request r ends: the record becomes d, the request l.
Verdict(r, d, l) ==
    LET n == rq[r].copy.code
    IN  /\ rq[r].pc = "compare"
        /\ store' = d /\ lock' = None
        /\ rq' = [rq EXCEPT ![r] = l]
        /\ d.code \in {NoCode, n}
        /\ l.pc \notin {"compare", "save"} /\ l.copy.code \in {NoCode, n}
        /\ \A m \in Codes : m # n => tries'[m] = tries[m] /\ used'[m] = used[m]
        /\ n # NoCode => tries'[n] <= MaxAttempts /\ used'[n] <= 1
        /\ d.code # NoCode => tries'[n] <= d.attempts /\ used'[n] = 0
        /\ UNCHANGED <<accounts, config, minted, codeLog>>

\* ... which keeps the invariant.
LEMMA InvVerdict ==
  ASSUME IInv, NEW r \in Requests, NEW d \in Record, NEW l \in Request,
         Sound(d), Known(d), Carries(l), Verdict(r, d, l),
         tries' \in [Codes -> Nat], used' \in [Codes -> Nat]
  PROVE  IInv'
<1> DEFINE n == rq[r].copy.code
<1>1. /\ UNCHANGED <<accounts, keyed, captcha, minted, sentTo, solved, founders>>
      /\ store' = d /\ lock' = None /\ rq' = [rq EXCEPT ![r] = l]
      /\ rq[r].pc = "compare" /\ d.code \in {NoCode, n}
      /\ l.pc \notin {"compare", "save"} /\ l.copy.code \in {NoCode, n}
      /\ \A m \in Codes : m # n => tries'[m] = tries[m] /\ used'[m] = used[m]
      /\ n # NoCode => tries'[n] <= MaxAttempts /\ used'[n] <= 1
      /\ d.code # NoCode => tries'[n] <= d.attempts /\ used'[n] = 0
  BY DEF Verdict, config, codeLog
<1>2. n <= minted /\ \A m \in Codes : m \in Nat
  BY Loaded, Numbers DEF Carries, Sound
<1> HIDE DEF n
<1>3. TypeOK'
  BY <1>1 DEF IInv, TypeOK
<1>4. rq'[r] = l /\ \A q \in Requests : q # r => rq'[q] = rq[q]
  BY <1>1 DEF IInv, TypeOK
<1>5. Onward
  BY <1>1, Loaded DEF Onward
<1>6. lock = r /\ \A q \in Requests : q # r => rq[q].pc # "compare"
  BY <1>1 DEF IInv, RequestsHold
<1>7. StoreHolds'
  BY <1>1 DEF StoreHolds, Sound, OneAddress, Known, Counted
<1>8. ASSUME NEW q \in Requests PROVE Carries(rq[q])' /\ rq'[q].pc # "compare"
  <2>1. CASE q = r
    <3>1. Carries(rq[r])'
      BY <1>1, <1>4 DEF Carries, Sound, OneAddress, Known
    <3> QED
      BY <1>1, <1>4, <2>1, <3>1
  <2>2. CASE q # r
    <3>1. Carries(rq[q])'
      BY <1>3, <1>4, <1>5, <1>6, <2>2, CarriesOn
    <3> QED
      BY <1>4, <1>6, <2>2, <3>1
  <2> QED
    BY <2>1, <2>2
<1>9. FreshCodes'
  <2>1. ASSUME NEW q \in Requests, rq'[q].pc = "save", rq'[q].code # NoCode
        PROVE  /\ rq'[q].copy.code = rq'[q].code /\ rq'[q].copy.attempts = 0
               /\ tries'[rq'[q].code] = 0 /\ used'[rq'[q].code] = 0
               /\ store'.code # rq'[q].code
               /\ \A p \in Requests : p # q => rq'[p].copy.code # rq'[q].code
    <3>1. q # r /\ rq'[q] = rq[q] /\ rq[q] \in Request
      BY <1>1, <1>4, <2>1, Loaded
    <3>2. rq[q].code \in Codes /\ rq[q].code # n
      BY <2>1, <3>1, Numbers DEF IInv, FreshCodes, n
    <3> QED
      BY <1>1, <1>4, <2>1, <3>1, <3>2 DEF IInv, FreshCodes
  <2> QED
    BY <2>1 DEF FreshCodes
<1>10. Ledger' /\ AccountsGated'
  <2>1. \A m \in Codes : m > minted => tries'[m] = tries[m] /\ used'[m] = used[m]
    BY <1>1, <1>2, Loaded
  <2> QED
    BY <1>1, <1>2, <1>3, <1>5, <2>1, Loaded, LedgerOn
<1>11. GuessesCapped' /\ CodeAdmitsOnce'
  <2>1. n \in Codes => n # NoCode
    BY Numbers
  <2>2. ASSUME NEW m \in Codes PROVE tries'[m] <= MaxAttempts /\ used'[m] <= 1
    BY <1>1, <2>1, <2>2 DEF IInv, GuessesCapped, CodeAdmitsOnce
  <2> QED
    BY <2>2 DEF GuessesCapped, CodeAdmitsOnce
<1> QED
  BY <1>3, <1>7, <1>8, <1>9, <1>10, <1>11 DEF IInv, RequestsHold

\* verify_otp_from_session: refused, wrong, and right.
LEMMA InvVerify ==
  ASSUME IInv, NEW r \in Requests, VerifyRefuse(r) \/ VerifyWrong(r) \/ VerifyRight(r)
  PROVE  IInv'
<1> DEFINE c == rq[r].copy
           n == c.code
<1>1. /\ c \in Record /\ rq[r].pc = "compare"
      /\ Sound(c) /\ Known(c) /\ Counted(c)
      /\ tries \in [Codes -> Nat] /\ used \in [Codes -> Nat]
  BY Loaded DEF Carries, VerifyRefuse, VerifyWrong, VerifyRight, IInv, TypeOK
<1>2. /\ c.attempts \in Nat /\ MaxAttempts \in Nat /\ (n # NoCode => n \in Codes)
      /\ n # NoCode => tries[n] <= c.attempts /\ used[n] = 0 /\ tries[n] \in Nat
  BY <1>1, Numbers, Values DEF Counted
<1>3. /\ Cleared(c) \in Record /\ Sound(Cleared(c)) /\ Known(Cleared(c))
      /\ Cleared(c).code = NoCode
  BY <1>1, ClearedRecord, Loaded, Values DEF Sound, OneAddress, Known
\* The request while its response is on its way, with copy d to be written back.
<1> DEFINE answer(d) == [rq[r] EXCEPT !.pc = "respond", !.copy = d]
<1>7. ASSUME NEW d \in Record, Sound(d), Known(d)
      PROVE  /\ answer(d) \in Request /\ Carries(answer(d)) /\ answer(d).pc = "respond"
             /\ answer(d).copy = d
  <2>1. rq[r] \in Request /\ rq[r].code = NoCode /\ rq[r].code <= minted
    BY <1>1, Loaded DEF Carries
  <2>2. /\ answer(d) \in Request /\ answer(d).pc = "respond" /\ answer(d).copy = d
        /\ answer(d).code = NoCode
    BY <2>1 DEF Request
  <2> HIDE DEF answer
  <2> QED
    BY <1>7, <2>1, <2>2, Loaded DEF Carries
<1>4. CASE VerifyRefuse(r)
  <2> DEFINE l == IF n # NoCode THEN answer(Cleared(c)) ELSE Idle
  <2>1. n # NoCode => tries[n] <= MaxAttempts /\ used[n] <= 1
    BY <1>2 DEF IInv, GuessesCapped, CodeAdmitsOnce
  <2>2. /\ store' = Cleared(c) /\ lock' = None /\ rq' = [rq EXCEPT ![r] = l]
        /\ tries' = tries /\ used' = used
        /\ UNCHANGED <<accounts, config, minted, codeLog>>
    BY <1>4 DEF VerifyRefuse, Persist, At, Done, counts
  <2>3. /\ l \in Request /\ Carries(l) /\ l.pc \notin {"compare", "save"}
        /\ l.copy.code = NoCode
    BY <1>3, <1>7, Loaded
  <2> HIDE DEF l
  <2>4. Verdict(r, Cleared(c), l)
    BY <1>1, <1>3, <2>1, <2>2, <2>3 DEF Verdict
  <2> QED
    BY <1>1, <1>3, <2>2, <2>3, <2>4, InvVerdict
<1>5. CASE VerifyWrong(r)
  <2> DEFINE d == [c EXCEPT !.attempts = @ + 1]
  <2>1. n # NoCode /\ c.attempts < MaxAttempts
    BY <1>5 DEF VerifyWrong, Comparable
  <2>2. c.attempts + 1 \in 0 .. MaxAttempts
    BY <1>2, <2>1
  <2>3. /\ d \in Record /\ Sound(d) /\ Known(d) /\ d.code = n /\ d.attempts = c.attempts + 1
    BY <1>1, <2>2 DEF Record, Sound, OneAddress, Known
  <2>4. /\ store' = d /\ lock' = None /\ rq' = [rq EXCEPT ![r] = answer(d)]
        /\ tries' = [tries EXCEPT ![n] = tries[n] + 1] /\ used' = used
        /\ UNCHANGED <<accounts, config, minted, codeLog>>
    BY <1>5 DEF VerifyWrong, Persist, At
  <2>5. tries' \in [Codes -> Nat] /\ tries'[n] <= c.attempts + 1 /\ tries'[n] <= MaxAttempts
        /\ \A m \in Codes : m # n => tries'[m] = tries[m]
    BY <1>1, <1>2, <2>1, <2>4
  <2> HIDE DEF d
  <2>6. /\ answer(d) \in Request /\ Carries(answer(d)) /\ answer(d).pc = "respond"
        /\ answer(d).copy.code = n
    BY <1>7, <2>3
  <2> HIDE DEF answer
  <2>7. Verdict(r, d, answer(d))
    BY <1>1, <1>2, <2>1, <2>3, <2>4, <2>5, <2>6 DEF Verdict
  <2> QED
    BY <1>1, <2>3, <2>4, <2>5, <2>6, <2>7, InvVerdict
<1>6. CASE VerifyRight(r)
  <2> DEFINE l == [pc |-> "resolve", copy |-> Cleared(c), code |-> n, account |-> c.to]
  <2>1. n # NoCode /\ c.attempts < MaxAttempts
    BY <1>6 DEF VerifyRight, Comparable
  <2>2. c.to \in Addresses \cup {None} /\ n \in Codes
    BY <1>1, <1>2, <2>1 DEF Record
  <2>3. l \in Request /\ l.pc = "resolve" /\ l.code = n /\ l.account = c.to
        /\ l.copy = Cleared(c)
    BY <1>3, <2>2 DEF Request
  <2>4. /\ store' = Cleared(c) /\ lock' = None /\ rq' = [rq EXCEPT ![r] = l]
        /\ tries' = [tries EXCEPT ![n] = tries[n] + 1]
        /\ used' = [used EXCEPT ![n] = used[n] + 1]
        /\ UNCHANGED <<accounts, config, minted, codeLog>>
    BY <1>6 DEF VerifyRight, Persist, Proven
  <2>5. /\ tries' \in [Codes -> Nat] /\ tries'[n] <= MaxAttempts
        /\ used' \in [Codes -> Nat] /\ used'[n] <= 1
        /\ \A m \in Codes : m # n => tries'[m] = tries[m] /\ used'[m] = used[m]
    BY <1>1, <1>2, <2>1, <2>4
  <2> HIDE DEF l
  <2>6. Carries(l)
    BY <1>1, <1>3, <2>1, <2>3, Loaded DEF Carries, Sound, OneAddress
  <2>7. Verdict(r, Cleared(c), l)
    BY <1>1, <1>3, <2>3, <2>4, <2>5 DEF Verdict
  <2> QED
    BY <1>3, <2>3, <2>5, <2>6, <2>7, InvVerdict
<1> QED
  BY <1>4, <1>5, <1>6

-----------------------------------------------------------------------------
(* Accounts, and the end of a request.                                       *)

\* An account appears, here or in another session.
LEMMA InvAccount ==
  ASSUME IInv, (\E r \in Requests : Create(r)) \/ (\E a \in Addresses : Join(a))
  PROVE  IInv'
<1>1. ASSUME NEW a \in Addresses, Join(a) PROVE IInv'
  <2>1. /\ accounts' = accounts \cup {a}
        /\ UNCHANGED <<store, rq, lock, keyed, captcha, minted, sentTo, solved, founders, tries, used>>
    BY <1>1 DEF Join, config, codeLog, counts
  <2>2. TypeOK' /\ Onward
    BY <2>1, Loaded DEF IInv, TypeOK, Onward
  <2>3. StoreHolds'
    BY <2>1 DEF IInv, StoreHolds, Sound, OneAddress, Known, Counted
  <2>4. \A q \in Requests : Carries(rq[q])'
    BY <2>1, <2>2, CarriesOn
  <2>5. RequestsHold' /\ FreshCodes'
    BY <2>1, <2>4 DEF IInv, RequestsHold, FreshCodes
  <2>6. Ledger' /\ AccountsGated'
    BY <2>1, <2>2, Loaded, Numbers, LedgerOn
  <2>7. GuessesCapped' /\ CodeAdmitsOnce'
    BY <2>1 DEF IInv, GuessesCapped, CodeAdmitsOnce
  <2> QED
    BY <2>2, <2>3, <2>5, <2>6, <2>7 DEF IInv
<1>2. ASSUME NEW r \in Requests, Create(r), rq[r].account \in accounts PROVE IInv'
  <2>1. Quietly(r, Idle)
    BY <1>2, Loaded DEF Quietly, Create, Done, codeLog
  <2> QED
    BY <2>1, Loaded, Move
<1>3. ASSUME NEW r \in Requests, Create(r), rq[r].account \notin accounts PROVE IInv'
  <2> DEFINE a == rq[r].account
             n == rq[r].code
             l == [rq[r] EXCEPT !.pc = "finalize"]
  <2>1. /\ accounts' = accounts \cup {a} /\ founders' = founders \cup {n}
        /\ rq' = [rq EXCEPT ![r] = l] /\ rq[r].pc = "create"
        /\ UNCHANGED <<store, lock, keyed, captcha, minted, sentTo, solved, tries, used>>
    BY <1>3 DEF Create, config, counts
  <2>2. /\ rq[r] \in Request /\ a \in Admitted /\ n # NoCode /\ n \in Codes /\ n <= minted
        /\ a = sentTo[n]
    BY <2>1, Loaded, Numbers DEF Carries
  <2>3. a \in Addresses
    BY <2>2, ConstantsAssumption DEF ConstantsAssumption
  <2>4. l \in Request /\ l.pc = "finalize" /\ l.copy = rq[r].copy /\ l.code = n /\ l.account = a
    BY <2>2 DEF Request
  <2>5. captcha => n \in solved
    BY <1>3, <2>2 DEF IInv, Ledger
  <2> HIDE DEF a, n, l
  <2>6. TypeOK' /\ Onward
    BY <2>1, <2>2, <2>3, <2>4, Loaded DEF IInv, TypeOK, Onward
  <2>7. rq'[r] = l /\ \A q \in Requests : q # r => rq'[q] = rq[q]
    BY <2>1 DEF IInv, TypeOK
  <2>8. StoreHolds'
    BY <2>1 DEF IInv, StoreHolds, Sound, OneAddress, Known, Counted
  <2>9. ASSUME NEW q \in Requests PROVE Carries(rq[q])' /\ (rq'[q].pc = "compare" => lock' = q)
    <3>1. CASE q = r
      <4>1. Carries(rq[r])'
        BY <2>1, <2>2, <2>4, <2>7, Loaded DEF Carries, Sound, OneAddress
      <4> QED
        BY <2>4, <2>7, <3>1, <4>1
    <3>2. CASE q # r
      <4>1. Carries(rq[q])'
        BY <2>1, <2>6, <2>7, <3>2, CarriesOn
      <4> QED
        BY <2>1, <2>7, <3>2, <4>1 DEF IInv, RequestsHold
    <3> QED
      BY <3>1, <3>2
  <2>10. FreshCodes'
    BY <2>1, <2>4, <2>7 DEF IInv, FreshCodes
  <2>11. Ledger' /\ AccountsGated'
    BY <2>1, <2>2, <2>5 DEF IInv, Ledger, AccountsGated
  <2>12. GuessesCapped' /\ CodeAdmitsOnce'
    BY <2>1 DEF IInv, GuessesCapped, CodeAdmitsOnce
  <2> QED
    BY <2>6, <2>8, <2>9, <2>10, <2>11, <2>12 DEF IInv, RequestsHold
<1> QED
  BY <1>1, <1>2, <1>3

\* Request r ends, having left d in the store, with a code whose history restarts if
\* it is back.
Ends(r, d) ==
    /\ store' = d
    /\ rq' = [rq EXCEPT ![r] = Idle]
    /\ rq[r].pc # "compare"
    /\ d.code \in {NoCode, rq[r].copy.code}
    /\ d.code # NoCode => tries'[d.code] <= d.attempts /\ used'[d.code] = 0
    /\ \A m \in Codes : tries'[m] \in {tries[m], 0} /\ used'[m] \in {used[m], 0}
    /\ UNCHANGED <<lock, accounts, config, minted, codeLog>>

\* ... which keeps the invariant.
LEMMA InvEnds ==
  ASSUME IInv, NEW r \in Requests, NEW d \in Record, Sound(d), Known(d), Ends(r, d),
         tries' \in [Codes -> Nat], used' \in [Codes -> Nat]
  PROVE  IInv'
<1>1. /\ UNCHANGED <<lock, accounts, keyed, captcha, minted, sentTo, solved, founders>>
      /\ store' = d /\ rq' = [rq EXCEPT ![r] = Idle]
      /\ d.code \in {NoCode, rq[r].copy.code}
      /\ d.code # NoCode => tries'[d.code] <= d.attempts /\ used'[d.code] = 0
      /\ \A m \in Codes : tries'[m] \in {tries[m], 0} /\ used'[m] \in {used[m], 0}
  BY DEF Ends, config, codeLog
<1>2. TypeOK' /\ Onward
  BY <1>1, Loaded DEF IInv, TypeOK, Onward
<1>3. rq'[r] = Idle /\ \A q \in Requests : q # r => rq'[q] = rq[q]
  BY <1>1 DEF IInv, TypeOK
<1>4. StoreHolds'
  BY <1>1 DEF StoreHolds, Sound, OneAddress, Known, Counted
<1>5. ASSUME NEW q \in Requests PROVE Carries(rq[q])' /\ (rq'[q].pc = "compare" => lock' = q)
  <2>1. CASE q = r
    <3>1. Carries(rq[r])'
      BY <1>1, <1>3, Loaded DEF Carries, Sound, OneAddress, Known
    <3> QED
      BY <1>3, <2>1, <3>1, Loaded
  <2>2. CASE q # r
    <3>1. rq[q].copy.code # NoCode => rq[q].copy.code \in Codes
      BY Loaded, Numbers
    <3>2. Carries(rq[q])'
      BY <1>1, <1>2, <1>3, <2>2, <3>1, CarriesOn
    <3> QED
      BY <1>1, <1>3, <2>2, <3>2 DEF IInv, RequestsHold
  <2> QED
    BY <2>1, <2>2
<1>6. FreshCodes'
  <2>1. ASSUME NEW q \in Requests, rq'[q].pc = "save", rq'[q].code # NoCode
        PROVE  /\ rq'[q].copy.code = rq'[q].code /\ rq'[q].copy.attempts = 0
               /\ tries'[rq'[q].code] = 0 /\ used'[rq'[q].code] = 0
               /\ store'.code # rq'[q].code
               /\ \A p \in Requests : p # q => rq'[p].copy.code # rq'[q].code
    <3>1. q # r /\ rq'[q] = rq[q] /\ rq[q] \in Request
      BY <1>3, <2>1, Loaded
    <3>2. rq[q].code \in Codes
      BY <2>1, <3>1, Numbers
    <3> QED
      BY <1>1, <1>3, <2>1, <3>1, <3>2, Loaded DEF IInv, FreshCodes
  <2> QED
    BY <2>1 DEF FreshCodes
<1>7. Ledger' /\ AccountsGated'
  <2>1. \A m \in Codes : m > minted => tries'[m] = tries[m] /\ used'[m] = used[m]
    BY <1>1, Loaded, Numbers DEF IInv, Ledger
  <2> QED
    BY <1>1, <1>2, <2>1, Loaded, Numbers, LedgerOn
<1>8. GuessesCapped' /\ CodeAdmitsOnce'
  <2>1. 0 <= MaxAttempts
    BY Values
  <2>2. ASSUME NEW m \in Codes PROVE tries'[m] <= MaxAttempts /\ used'[m] <= 1
    <3>1. tries[m] <= MaxAttempts /\ used[m] <= 1
      BY DEF IInv, GuessesCapped, CodeAdmitsOnce
    <3>2. tries'[m] \in {tries[m], 0} /\ used'[m] \in {used[m], 0}
      BY <1>1
    <3> QED
      BY <2>1, <3>1, <3>2
  <2> QED
    BY <2>2 DEF GuessesCapped, CodeAdmitsOnce
<1> QED
  BY <1>2, <1>4, <1>5, <1>6, <1>7, <1>8 DEF IInv, RequestsHold

\* finalize_login, and the session layer's write.
LEMMA InvEnd ==
  ASSUME IInv, NEW r \in Requests, Finalize(r) \/ Save(r)
  PROVE  IInv'
<1>0. tries \in [Codes -> Nat] /\ used \in [Codes -> Nat]
  BY DEF IInv, TypeOK
<1>1. CASE Finalize(r)
  <2>1. Empty.email = None /\ Empty.code = NoCode /\ Empty.owner = None /\ ~Empty.deferred
    BY DEF Empty
  <2>2. Sound(Empty) /\ Known(Empty)
    BY <2>1, Loaded, Values DEF Sound, OneAddress, Known
  <2>3. Ends(r, Empty)
    BY <1>1, <2>1 DEF Ends, Finalize, Done, counts
  <2>4. tries' = tries /\ used' = used
    BY <1>1 DEF Finalize, counts
  <2> QED
    BY <1>0, <2>2, <2>3, <2>4, Values, InvEnds
<1>2. CASE Save(r)
  <2> DEFINE c == rq[r].copy
             n == c.code
  <2>1. /\ c \in Record /\ Sound(c) /\ Known(c) /\ (n # NoCode => n \in Codes)
        /\ rq[r].pc \in {"save", "respond"} /\ (rq[r].pc = "respond" => rq[r].code = NoCode)
    BY <1>2, Loaded, Numbers DEF Carries, Save
  <2>2. /\ tries' = IF Restores(r) THEN [tries EXCEPT ![n] = 0] ELSE tries
        /\ used' = IF Restores(r) THEN [used EXCEPT ![n] = 0] ELSE used
        /\ store' = c /\ rq' = [rq EXCEPT ![r] = Idle]
        /\ UNCHANGED <<lock, accounts, config, minted, codeLog>>
    BY <1>2 DEF Save, Done
  <2>3. /\ tries' \in [Codes -> Nat] /\ used' \in [Codes -> Nat]
        /\ \A m \in Codes : tries'[m] \in {tries[m], 0} /\ used'[m] \in {used[m], 0}
    BY <1>0, <2>2
  <2>4. ASSUME n # NoCode PROVE tries'[n] <= c.attempts /\ used'[n] = 0
    <3>1. n \in Codes /\ c.attempts \in Nat /\ tries[n] \in Nat
          /\ store.attempts \in Nat
      BY <1>0, <2>1, <2>4, Numbers, Loaded
    <3>2. CASE Restores(r)
      BY <1>0, <2>2, <3>1, <3>2
    <3>3. CASE ~Restores(r) /\ n = rq[r].code
      BY <2>1, <2>2, <2>4, <3>1, <3>3 DEF IInv, FreshCodes
    <3>4. CASE ~Restores(r) /\ n # rq[r].code
      <4>1. store.code = n /\ ~(store.attempts > c.attempts)
        BY <2>4, <3>4 DEF Restores
      <4>2. tries[n] <= store.attempts /\ used[n] = 0
        BY <2>4, <4>1, Loaded DEF Counted
      <4> QED
        BY <2>2, <3>1, <3>4, <4>1, <4>2
    <3> QED
      BY <3>2, <3>3, <3>4
  <2>5. Ends(r, c)
    BY <2>1, <2>2, <2>3, <2>4 DEF Ends
  <2> QED
    BY <2>1, <2>3, <2>5, InvEnds
<1> QED
  BY <1>1, <1>2

\* The invariant is inductive.
LEMMA Inductive == IInv /\ [Next]_vars => IInv'
<1> SUFFICES ASSUME IInv, [Next]_vars PROVE IInv'
  OBVIOUS
<1>1. ASSUME NEW r \in Requests, NEW e \in Addresses, StartLoad(r, e) PROVE IInv'
  BY <1>1, InvStartLoad
<1>2. ASSUME NEW r \in Requests, StartLookup(r) PROVE IInv'
  BY <1>2, InvMove, InvMail
<1>3. ASSUME NEW r \in Requests,
             \/ Resend(r) \/ Fallback(r) \/ Captcha(r) \/ ConditionalOptions(r)
             \/ \E k \in Addresses : VerifyPasskey(r, k)
             \/ Lost(r)
      PROVE  IInv'
  BY <1>3, InvMove, InvMail DEF Captcha
<1>4. ASSUME NEW r \in Requests, VerifyOtp(r) PROVE IInv'
  BY <1>4, InvMove, InvVerify, InvAccount DEF VerifyOtp
<1>5. ASSUME NEW r \in Requests, Finalize(r) \/ Save(r) PROVE IInv'
  BY <1>5, InvEnd
<1>6. ASSUME NEW a \in Addresses, Join(a) PROVE IInv'
  BY <1>6, InvAccount
<1>7. CASE UNCHANGED vars
  <2>1. UNCHANGED <<store, rq, lock, accounts, keyed, captcha, minted, sentTo, solved, founders,
                    tries, used>>
    BY <1>7 DEF vars, config, codeLog, counts
  <2>2. TypeOK' /\ Onward
    BY <2>1, Loaded DEF IInv, TypeOK, Onward
  <2>3. \A q \in Requests : Carries(rq[q])'
    BY <2>1, <2>2, CarriesOn
  <2>4. StoreHolds' /\ RequestsHold' /\ FreshCodes'
    BY <2>1, <2>3
    DEF IInv, StoreHolds, Sound, OneAddress, Known, Counted, RequestsHold, FreshCodes
  <2>5. Ledger' /\ AccountsGated' /\ GuessesCapped' /\ CodeAdmitsOnce'
    BY <2>1 DEF IInv, Ledger, AccountsGated, GuessesCapped, CodeAdmitsOnce
  <2> QED
    BY <2>2, <2>4, <2>5 DEF IInv
<1> QED
  BY <1>1, <1>2, <1>3, <1>4, <1>5, <1>6, <1>7 DEF Next, Start

\* The invariant holds throughout.
LEMMA Invariant == Spec => []IInv
BY InvInit, Inductive, PTL DEF Spec

-----------------------------------------------------------------------------
(* The properties.                                                           *)

\* The session record and every copy of it are well typed.
THEOREM TypeCorrect == Spec => []TypeOK
BY Invariant, PTL DEF IInv

\* Whatever start_session, resends and saved copies do while a code is on its way,
\* it signs in the address it was mailed to (verify_otp_handler).
THEOREM SignsInProven == Spec => []SignsInAsProven
<1>1. IInv => SignsInAsProven
  BY DEF IInv, RequestsHold, Carries, SignsInAsProven
<1> QED
  BY <1>1, Invariant, PTL

\* The code, the passkey challenge and the pending registration in the record, or
\* in a copy about to overwrite it, are for one address (start_session).
THEOREM OneAttempt == Spec => []AttemptsNeverMix
<1>1. IInv => AttemptsNeverMix
  BY DEF IInv, StoreHolds, RequestsHold, Carries, Sound, AttemptsNeverMix
<1> QED
  BY <1>1, Invariant, PTL

\* A code creates an account only where registration is allowed and, with a
\* captcha configured, only if a solved captcha paid for it
\* (resolve_or_create_account, passkey_fallback_to_otp, resend_otp_handler).
THEOREM Gated == Spec => []AccountsGated
BY Invariant, PTL DEF IInv

\* Until the write-back of an older copy, that of a slow guess included, brings it
\* or an attempt at it back, a code is compared at most MaxAttempts times, however
\* many requests guess in parallel (verify_otp_from_session).
THEOREM GuessBound == Spec => []GuessesCapped
BY Invariant, PTL DEF IInv

\* In the same span a code admits at most one request (persist_now).
THEOREM AdmitsOnce == Spec => []CodeAdmitsOnce
BY Invariant, PTL DEF IInv

=============================================================================
