----------------------------- MODULE JobsProofs -----------------------------
(* The queue for every set of jobs and workers.  Whatever the durations: type *)
(* correctness, final statuses, the fence of the lease token and the counts   *)
(* of stats.  With Lease >= ReplyDelay + 2 * Renewal: mutual exclusion of the *)
(* attempts at a job, and the contract of JobContract.                        *)
EXTENDS Jobs, FiniteSetTheorems, TLAPS

-----------------------------------------------------------------------------
(* The inductive invariant.                                                   *)

\* A renewal is only under way while an attempt runs, and no longer than the
\* time give_up_at leaves it.
TimersAgree ==
    \A w \in Workers :
        /\ wk[w].pc # "run" => wk[w].renew = "none"
        /\ wk[w].renew = "none" => wk[w].renewAge = 0
        /\ wk[w].pc = "run" => wk[w].renewAge + wk[w].giveUp <= 2 * Renewal

\* A job runs only in an attempt that was counted.
RunningCounted == \A j \in JobIds : rows[j].status = "running" => rows[j].attempts >= 1

TypeInv == TypeOK /\ TimersAgree /\ RunningCounted

\* The worker believes that its lease is live.
Trusts(w) == wk[w].pc \in {"reply", "run"}

\* Everything the worker believes is true of the table.
Justified(w) ==
    /\ Holds(w)
    /\ wk[w].pc = "reply" => rows[wk[w].job].leaseLeft >= wk[w].replyIn + 2 * Renewal
    /\ wk[w].pc = "run" => rows[wk[w].job].leaseLeft >= wk[w].giveUp
    /\ wk[w].renew = "kept" => rows[wk[w].job].leaseLeft >= 2 * Renewal - wk[w].renewAge
    /\ wk[w].renew # "lost"

TrustJustified == \A w \in Workers : Trusts(w) => Justified(w)

\* The worker may still present its token to the table.
Carries(w) == wk[w].pc \in {"reply", "run", "ack"}

\* No two workers carry the same token.
TokensDiffer ==
    \A v, w \in Workers :
        /\ wk[w].token <= minted
        /\ v # w /\ Trusts(v) /\ Carries(w) => wk[v].token # wk[w].token

LeaseInv == TypeInv /\ TrustJustified /\ TokensDiffer

ReplyInTime == ReplyDelay + 2 * Renewal <= Lease

-----------------------------------------------------------------------------
(* Type correctness.                                                          *)

\* The values the actions write lie in the fields of a row ...
LEMMA RowValues ==
  /\ Status = {"absent", "pending", "running", "completed", "failed", "pruned"}
  /\ 0 \in Expired .. Lease /\ Lease \in Expired .. Lease
  /\ 0 \in 0 .. MaxAttempts /\ 0 \in 0 .. AgeLimit /\ AgeLimit \in Nat
  /\ NoToken \in Nat /\ 0 \in Int
  /\ Priorities \subseteq Int /\ RunDelays \subseteq Int
  BY ConstantsAssumption DEF ConstantsAssumption, Status, Expired, NoToken, AgeLimit, Greater

\* A renewal moves the lease's end and leaves the rest of the row.
LEMMA RenewedType ==
  ASSUME NEW row \in Row
  PROVE  /\ Renewed(row) \in Row
         /\ Renewed(row).status = row.status /\ Renewed(row).attempts = row.attempts
         /\ Renewed(row).token = row.token
         /\ Renewed(row).leaseLeft = Lease /\ row.leaseLeft <= Lease /\ row.leaseLeft \in Int
<1>1. row.leaseLeft <= Lease /\ row.leaseLeft \in Int
  BY ConstantsAssumption DEF Row, Expired, ConstantsAssumption
<1> QED
  BY <1>1, RowValues DEF Renewed, Row

\* ... and in those of a worker loop.
LEMMA LoopValues ==
  /\ Phase = {"poll", "sweep", "take", "reply", "run", "ack", "idle", "stopped", "down"}
  /\ RenewState = {"none", "sent", "kept", "lost"}
  /\ 0 \in 0 .. MaxAttempts
  /\ 0 \in 0 .. ReplyDelay /\ ReplyDelay \in 0 .. ReplyDelay
  /\ 0 \in 0 .. 2 * Renewal /\ 2 * Renewal \in 0 .. 2 * Renewal
  /\ 0 \in 0 .. Renewal /\ Renewal \in 0 .. Renewal
  /\ 0 \in 0 .. AttemptTimeout /\ AttemptTimeout \in 0 .. AttemptTimeout
  /\ 0 \in RetryAfters \cup {0} /\ NoToken \in Nat
  BY ConstantsAssumption DEF ConstantsAssumption, Phase, RenewState, NoToken

\* A loop that holds nothing is well-typed wherever it stands.
LEMMA AtType == \A place \in Phase : /\ At(place) \in Loop
                                     /\ At(place).pc = place
                                     /\ At(place).renew = "none"
                                     /\ At(place).renewAge = 0
  BY LoopValues DEF At, FreshLoop, Loop

\* Moving one worker to a place where it holds nothing keeps the part of the
\* invariant that is about workers.
LEMMA Release ==
  ASSUME TypeInv, NEW w \in Workers, NEW place \in Phase, place # "run",
         wk' = [wk EXCEPT ![w] = At(place)]
  PROVE  wk' \in [Workers -> Loop] /\ TimersAgree'
  BY AtType DEF TypeInv, TypeOK, TimersAgree

\* Init satisfies the invariant.
LEMMA TypeInit == Init => TypeInv
<1>1. AbsentRow \in Row /\ AbsentRow.status = "absent"
  BY RowValues DEF AbsentRow, Row
<1>2. /\ FreshLoop \in Loop /\ FreshLoop.pc = "poll"
      /\ FreshLoop.renew = "none" /\ FreshLoop.renewAge = 0
  BY LoopValues DEF FreshLoop, Loop
<1> QED
  BY <1>1, <1>2 DEF Init, TypeInv, TypeOK, TimersAgree, RunningCounted

\* The two records a claim writes.
LEMMA ClaimedType ==
  ASSUME NEW row \in Row, NEW t \in Nat, row.attempts < MaxAttempts
  PROVE  /\ Claimed(row, t) \in Row
         /\ Claimed(row, t).status = "running" /\ Claimed(row, t).token = t
         /\ Claimed(row, t).leaseLeft = Lease
         /\ Claimed(row, t).attempts = row.attempts + 1
         /\ row.attempts + 1 \in 1 .. MaxAttempts
<1>1. row.attempts + 1 \in 0 .. MaxAttempts /\ row.attempts + 1 \in 1 .. MaxAttempts
  BY ConstantsAssumption DEF ConstantsAssumption, Row
<1> QED
  BY <1>1, RowValues DEF Claimed, Row

\* ... the second of them.
LEMMA ClaimantType ==
  ASSUME NEW j \in JobIds, NEW t \in Nat, NEW n \in 0 .. MaxAttempts
  PROVE  /\ Claimant(j, t, n) \in Loop
         /\ Claimant(j, t, n).pc = "reply" /\ Claimant(j, t, n).job = j
         /\ Claimant(j, t, n).token = t /\ Claimant(j, t, n).replyIn = ReplyDelay
         /\ Claimant(j, t, n).renew = "none" /\ Claimant(j, t, n).renewAge = 0
  BY LoopValues DEF Claimant, At, FreshLoop, Loop

\* What the host does.
LEMMA TypeHost == TypeInv /\ Host => TypeInv'
<1> SUFFICES ASSUME TypeInv, Host PROVE TypeInv'
  OBVIOUS
<1> USE DEF TypeInv, TypeOK, TimersAgree, RunningCounted
<1>1. ASSUME NEW j \in JobIds, NEW k \in Keys \cup {NoKey}, NEW p \in Priorities,
             NEW d \in RunDelays, Enqueue(j, k, p, d)
      PROVE  TypeInv'
  <2> DEFINE r == [AbsentRow EXCEPT !.status = "pending", !.key = k,
                                    !.priority = p, !.runIn = d]
  <2>1. r \in Row /\ r.status = "pending"
    BY RowValues DEF AbsentRow, Row
  <2>2. rows' = [rows EXCEPT ![j] = r]
    BY <1>1 DEF Enqueue
  <2> HIDE DEF r
  <2> QED
    BY <1>1, <2>1, <2>2 DEF Enqueue
<1>2. CASE Prune
  <2>1. \A j \in JobIds : /\ [rows[j] EXCEPT !.status = "pruned"] \in Row
                          /\ [rows[j] EXCEPT !.status = "pruned"].status = "pruned"
    BY RowValues DEF Row
  <2> QED
    BY <1>2, <2>1 DEF Prune
<1>3. ASSUME Stop("stop") \/ Stop("dropped") PROVE TypeInv'
  BY <1>3 DEF Stop
<1> QED
  BY <1>1, <1>2, <1>3 DEF Host

\* The loop of a worker up to a claimed job.
LEMMA TypeClaim ==
  ASSUME NEW w \in Workers, TypeInv,
         \/ LoopHead(w) \/ ClaimSweep(w) \/ ClaimTake(w) \/ ClaimNone(w) \/ ClaimError(w)
         \/ IdleStop(w) \/ IdleWake(w)
  PROVE  TypeInv'
<1>1. CASE LoopHead(w) \/ ClaimNone(w) \/ ClaimError(w) \/ IdleStop(w) \/ IdleWake(w)
  <2>1. \E place \in Phase : place # "run" /\ wk' = [wk EXCEPT ![w] = At(place)]
    BY <1>1, LoopValues DEF LoopHead, ClaimNone, ClaimError, IdleStop, IdleWake
  <2>2. wk' \in [Workers -> Loop] /\ TimersAgree'
    BY <2>1, Release
  <2> QED
    BY <1>1, <2>2
    DEF LoopHead, ClaimNone, ClaimError, IdleStop, IdleWake, TypeInv, TypeOK, RunningCounted
<1>2. CASE ClaimSweep(w)
  <2> DEFINE r(j) == [rows[j] EXCEPT !.status = "failed", !.token = NoToken, !.leaseLeft = 0]
  <2>1. wk' \in [Workers -> Loop] /\ TimersAgree'
    BY <1>2, Release, LoopValues DEF ClaimSweep
  <2>2. \A j \in JobIds : r(j) \in Row /\ r(j).status = "failed"
    <3>1. \A j \in JobIds : rows[j] \in Row
      BY DEF TypeInv, TypeOK
    <3> QED
      BY <3>1, RowValues DEF Row
  <2>3. \A j \in JobIds : rows'[j] = rows[j] \/ rows'[j] = r(j)
    BY <1>2 DEF ClaimSweep
  <2>4. rows' \in [JobIds -> Row]
    BY <1>2, <2>2 DEF ClaimSweep, TypeInv, TypeOK
  <2>5. RunningCounted'
    BY <2>2, <2>3 DEF TypeInv, RunningCounted
  <2> QED
    BY <1>2, <2>1, <2>4, <2>5 DEF ClaimSweep, TypeInv, TypeOK
<1>3. CASE ClaimTake(w)
  <2>1. PICK j \in Claimable :
          /\ rows' = [rows EXCEPT ![j] = Claimed(rows[j], minted + 1)]
          /\ wk' = [wk EXCEPT ![w] = Claimant(j, minted + 1, rows[j].attempts + 1)]
    BY <1>3 DEF ClaimTake
  <2>2. j \in JobIds /\ rows[j] \in Row /\ rows[j].attempts < MaxAttempts
    BY <2>1, ConstantsAssumption
    DEF Claimable, Exhausted, Row, ConstantsAssumption, TypeInv, TypeOK
  <2>3. minted + 1 \in Nat
    BY DEF TypeInv, TypeOK
  <2>4. rows[j].attempts + 1 \in 0 .. MaxAttempts /\ rows[j].attempts + 1 >= 1
    BY <2>2, <2>3, ClaimedType
  <2>5. rows' \in [JobIds -> Row] /\ RunningCounted'
    BY <2>1, <2>2, <2>3, <2>4, ClaimedType DEF TypeInv, TypeOK, RunningCounted
  <2>6. wk' \in [Workers -> Loop] /\ TimersAgree'
    BY <2>1, <2>2, <2>3, <2>4, ClaimantType DEF TypeInv, TypeOK, TimersAgree
  <2> QED
    BY <1>3, <2>3, <2>5, <2>6 DEF ClaimTake, TypeInv, TypeOK
<1> QED
  BY <1>1, <1>2, <1>3

\* What a renewal on the wire leaves behind is still a set of tokens.
LEMMA LateType ==
  ASSUME NEW w \in Workers, TypeInv, MayArriveLate(w)
  PROVE  late' \subseteq Nat
<1>1. wk[w].token \in Nat /\ late \subseteq Nat
  BY DEF TypeInv, TypeOK, Loop
<1>2. late' = late \/ late' = late \cup {wk[w].token}
  BY DEF MayArriveLate
<1> QED
  BY <1>1, <1>2

\* The steps of an attempt, up to its outcome.
LEMMA TypeAttempt ==
  ASSUME NEW w \in Workers, TypeInv,
         \/ AttemptStart(w) \/ RenewSend(w) \/ RenewExecute(w) \/ RenewConfirmed(w)
         \/ RenewError(w) \/ DropAttempt(w)
  PROVE  TypeInv'
<1> DEFINE me == wk[w]
<1>0. /\ me \in Loop /\ me.giveUp \in 0 .. 2 * Renewal /\ me.renewAge \in 0 .. 2 * Renewal
      /\ Renewal \in Nat
  BY ConstantsAssumption DEF TypeInv, TypeOK, Loop, ConstantsAssumption
<1>1. CASE AttemptStart(w)
  <2> DEFINE l == [me EXCEPT !.pc = "run", !.replyIn = 0, !.giveUp = 2 * Renewal,
                             !.wake = Renewal, !.timeout = AttemptTimeout]
  <2>1. l \in Loop /\ l.renew = me.renew /\ l.renewAge = me.renewAge /\ l.giveUp = 2 * Renewal
    BY <1>0, LoopValues DEF Loop
  <2>2. wk' = [wk EXCEPT ![w] = l] /\ me.pc = "reply"
    BY <1>1 DEF AttemptStart
  <2>3. me.renew = "none" /\ me.renewAge = 0
    BY <2>2 DEF TypeInv, TimersAgree
  <2> HIDE DEF l
  <2> QED
    BY <1>0, <1>1, <2>1, <2>2, <2>3
    DEF AttemptStart, TypeInv, TypeOK, TimersAgree, RunningCounted
<1>2. CASE RenewSend(w)
  <2> DEFINE l == [me EXCEPT !.renew = "sent", !.renewAge = 0]
  <2>1. l \in Loop /\ l.pc = me.pc /\ l.renew = "sent" /\ l.renewAge = 0 /\ l.giveUp = me.giveUp
    BY <1>0, LoopValues DEF Loop
  <2>2. wk' = [wk EXCEPT ![w] = l] /\ me.pc = "run"
    BY <1>2 DEF RenewSend
  <2> HIDE DEF l
  <2> QED
    BY <1>0, <1>2, <2>1, <2>2 DEF RenewSend, TypeInv, TypeOK, TimersAgree, RunningCounted
<1>3. CASE RenewExecute(w)
  <2> DEFINE r == Renewed(rows[me.job])
             l(s) == [me EXCEPT !.renew = s]
  <2>1. \A s \in {"kept", "lost"} :
          /\ l(s) \in Loop /\ l(s).pc = me.pc /\ l(s).renew = s
          /\ l(s).renewAge = me.renewAge /\ l(s).giveUp = me.giveUp
    BY <1>0, LoopValues DEF Loop
  <2>2. /\ \E s \in {"kept", "lost"} : wk' = [wk EXCEPT ![w] = l(s)]
        /\ me.pc = "run"
        /\ rows' = rows \/ (me.job \in JobIds /\ rows' = [rows EXCEPT ![me.job] = r])
    BY <1>3 DEF RenewExecute, Holds
  <2>3. me.job \in JobIds =>
          r \in Row /\ r.attempts = rows[me.job].attempts /\ r.status = rows[me.job].status
    BY RenewedType DEF TypeInv, TypeOK
  <2> HIDE DEF l, r
  <2>4. rows' \in [JobIds -> Row] /\ RunningCounted'
    BY <2>2, <2>3 DEF TypeInv, TypeOK, RunningCounted
  <2>5. wk' \in [Workers -> Loop] /\ TimersAgree'
    BY <1>0, <2>1, <2>2 DEF TypeInv, TypeOK, TimersAgree
  <2> QED
    BY <1>3, <2>4, <2>5 DEF RenewExecute, TypeInv, TypeOK
<1>4. CASE RenewConfirmed(w)
  <2> DEFINE left == 2 * Renewal - me.renewAge
             l == [me EXCEPT !.renew = "none", !.renewAge = 0, !.giveUp = left,
                             !.wake = Lesser(left, Renewal)]
  <2>1. left \in 0 .. 2 * Renewal /\ Lesser(left, Renewal) \in 0 .. Renewal
    BY <1>0 DEF Lesser
  <2>2. wk' = [wk EXCEPT ![w] = l] /\ me.pc = "run"
    BY <1>4 DEF RenewConfirmed
  <2> HIDE DEF left
  <2>3. l \in Loop /\ l.pc = me.pc /\ l.renew = "none" /\ l.renewAge = 0 /\ l.giveUp = left
    BY <1>0, <2>1, LoopValues DEF Loop
  <2> HIDE DEF l
  <2> QED
    BY <1>0, <1>4, <2>1, <2>2, <2>3
    DEF RenewConfirmed, TypeInv, TypeOK, TimersAgree, RunningCounted
<1>5. CASE RenewError(w)
  <2> DEFINE wake == Lesser(me.giveUp, Renewal)
             l == [me EXCEPT !.renew = "none", !.renewAge = 0, !.wake = wake]
  <2>1. wake \in 0 .. Renewal
    BY <1>0 DEF Lesser
  <2>2. wk' = [wk EXCEPT ![w] = l] /\ me.pc = "run"
    BY <1>5 DEF RenewError
  <2> HIDE DEF wake
  <2>3. l \in Loop /\ l.pc = me.pc /\ l.renew = "none" /\ l.renewAge = 0 /\ l.giveUp = me.giveUp
    BY <1>0, <2>1, LoopValues DEF Loop
  <2> HIDE DEF l
  <2> QED
    BY <1>0, <1>5, <2>2, <2>3, LateType
    DEF RenewError, TypeInv, TypeOK, TimersAgree, RunningCounted
<1>6. CASE DropAttempt(w)
  BY <1>6, Release, LateType, LoopValues DEF DropAttempt, TypeInv, TypeOK, RunningCounted
<1> QED
  BY <1>1, <1>2, <1>3, <1>4, <1>5, <1>6

\* The end of an attempt, and of the process.
LEMMA TypeOutcome ==
  ASSUME NEW w \in Workers, TypeInv,
         \/ HandlerOk(w) \/ HandlerFails(w) \/ HandlerTimesOut(w)
         \/ Acknowledge(w) \/ AcknowledgeError(w) \/ Crash(w) \/ Restart(w)
  PROVE  TypeInv'
<1> DEFINE me == wk[w]
<1>0. me \in Loop
  BY DEF TypeInv, TypeOK
<1>1. ASSUME NEW o \in {"ok", "failed"}, NEW d \in RetryAfters \cup {0}, HandlerEnds(w, o, d)
      PROVE  TypeInv'
  <2> DEFINE l == [me EXCEPT !.pc = "ack", !.outcome = o, !.retry = d, !.renew = "none",
                             !.renewAge = 0, !.giveUp = 0, !.wake = 0, !.timeout = 0]
  <2>1. l \in Loop /\ l.pc = "ack" /\ l.renew = "none" /\ l.renewAge = 0
    <3>1. {"ack"} \subseteq Phase /\ {"none"} \subseteq RenewState
      BY LoopValues
    <3>2. 0 \in 0 .. 2 * Renewal /\ 0 \in 0 .. Renewal /\ 0 \in 0 .. AttemptTimeout
      BY LoopValues
    <3> HIDE DEF me
    <3> QED
      BY <1>0, <3>1, <3>2 DEF Loop
  <2>2. wk' = [wk EXCEPT ![w] = l]
    BY <1>1 DEF HandlerEnds
  <2> HIDE DEF l
  <2> QED
    BY <1>1, <2>1, <2>2, LateType
    DEF HandlerEnds, TypeInv, TypeOK, TimersAgree, RunningCounted
<1>2. CASE Acknowledge(w)
  <2>1. wk' \in [Workers -> Loop] /\ TimersAgree'
    BY <1>2, Release, LoopValues DEF Acknowledge
  <2>2. ASSUME NEW row \in Row, row.attempts >= 1
        PROVE  /\ Completed(row) \in Row /\ Completed(row).status = "completed"
               /\ NotCompleted(row, me.retry) \in Row
               /\ NotCompleted(row, me.retry).status # "running"
    <3>1. Completed(row) \in Row /\ Completed(row).status = "completed"
      BY RowValues DEF Completed, Row
    <3>2. CASE row.attempts >= MaxAttempts
      BY <3>1, <3>2, RowValues DEF NotCompleted, Row
    <3>3. CASE ~(row.attempts >= MaxAttempts)
      <4>1. row.attempts \in 1 .. MaxAttempts
        BY <2>2, <3>3, ConstantsAssumption DEF ConstantsAssumption, Row
      <4>2. Backoff[row.attempts] \in Nat
        BY <4>1, ConstantsAssumption DEF ConstantsAssumption
      <4>3. me.retry \in Nat
        <5>1. me.retry \in RetryAfters \cup {0}
          BY <1>0 DEF Loop
        <5>2. RetryAfters \cup {0} \subseteq Nat
          BY ConstantsAssumption DEF ConstantsAssumption
        <5> QED
          BY <5>1, <5>2
      <4>4. Greater(me.retry, Backoff[row.attempts]) \in Int
        BY <4>2, <4>3 DEF Greater
      <4> QED
        BY <3>1, <3>3, <4>4, RowValues DEF NotCompleted, Row
    <3> QED
      BY <3>1, <3>2, <3>3
  <2>3. Holds(w) => me.job \in JobIds /\ rows[me.job] \in Row /\ rows[me.job].attempts >= 1
    BY DEF Holds, TypeInv, TypeOK, RunningCounted
  <2>4. \/ rows' = rows
        \/ /\ Holds(w)
           /\ \/ rows' = [rows EXCEPT ![me.job] = Completed(rows[me.job])]
              \/ rows' = [rows EXCEPT ![me.job] = NotCompleted(rows[me.job], me.retry)]
    BY <1>2 DEF Acknowledge
  <2>5. rows' \in [JobIds -> Row] /\ RunningCounted'
    BY <2>2, <2>3, <2>4 DEF TypeInv, TypeOK, RunningCounted
  <2> QED
    BY <1>2, <2>1, <2>5 DEF Acknowledge, TypeInv, TypeOK
<1>3. CASE AcknowledgeError(w) \/ Restart(w)
  <2>1. wk' = [wk EXCEPT ![w] = At("poll")]
    BY <1>3 DEF AcknowledgeError, Restart
  <2>2. wk' \in [Workers -> Loop] /\ TimersAgree'
    BY <2>1, Release, LoopValues
  <2> QED
    BY <1>3, <2>2 DEF AcknowledgeError, Restart, TypeInv, TypeOK, RunningCounted
<1>4. CASE Crash(w)
  <2>1. wk' \in [Workers -> Loop] /\ TimersAgree'
    BY <1>4, Release, LoopValues DEF Crash
  <2> QED
    BY <1>4, <2>1, LateType DEF Crash, TypeInv, TypeOK, RunningCounted
<1> QED
  BY <1>1, <1>2, <1>3, <1>4 DEF HandlerOk, HandlerFails, HandlerTimesOut

\* Time passes over a row ...
LEMMA RowTickType ==
  ASSUME NEW row \in Row
  PROVE  /\ RowTick(row) \in Row
         /\ RowTick(row).status = row.status /\ RowTick(row).attempts = row.attempts
         /\ RowTick(row).token = row.token
         /\ row.status = "running" => RowTick(row).leaseLeft >= row.leaseLeft - 1
         /\ row.status = "failed" => RowTick(row) = [row EXCEPT !.age = RowTick(row).age]
         /\ RowTick(row).age >= row.age
<1> DEFINE runIn == CountDown(row.runIn, row.status \in {"pending", "running"}
                                          /\ row.runIn > -Horizon)
           leaseLeft == CountDown(row.leaseLeft, row.status = "running"
                                                  /\ row.leaseLeft > Expired)
           age == IF Ageing(row) /\ row.age < AgeLimit THEN row.age + 1 ELSE row.age
<1>1. /\ row.runIn \in Int /\ row.leaseLeft \in Expired .. Lease /\ row.age \in 0 .. AgeLimit
      /\ AgeLimit \in Nat /\ Lease \in Nat
  BY RowValues, ConstantsAssumption DEF Row, ConstantsAssumption
<1>2. runIn \in Int
  BY <1>1 DEF CountDown
<1>3. leaseLeft \in Expired .. Lease /\ leaseLeft >= row.leaseLeft - 1
  BY <1>1 DEF CountDown, Expired
<1>4. age \in 0 .. AgeLimit /\ age >= row.age
  BY <1>1
<1>5. RowTick(row) = [row EXCEPT !.runIn = runIn, !.leaseLeft = leaseLeft, !.age = age]
  BY DEF RowTick
<1>6. row.status = "failed" => runIn = row.runIn /\ leaseLeft = row.leaseLeft
  BY DEF CountDown
<1> HIDE DEF runIn, leaseLeft, age
<1>7. RowTick(row).age = age
  BY <1>5 DEF Row
<1>8. row.status = "failed" => RowTick(row) = [row EXCEPT !.age = RowTick(row).age]
  <2>1. [row EXCEPT !.runIn = row.runIn, !.leaseLeft = row.leaseLeft, !.age = age]
          = [row EXCEPT !.age = age]
    BY DEF Row
  <2> QED
    BY <1>5, <1>6, <1>7, <2>1
<1> QED
  BY <1>2, <1>3, <1>4, <1>5, <1>7, <1>8 DEF Row

\* ... and over a worker loop none of whose timers is due.
LEMMA LoopTickType ==
  ASSUME NEW w \in Workers, TypeInv, ~Due(w)
  PROVE  LET l == LoopTick(wk[w])
         IN  /\ l \in Loop
             /\ l.pc = wk[w].pc /\ l.renew = wk[w].renew
             /\ l.job = wk[w].job /\ l.token = wk[w].token
             /\ l.renewAge = IF wk[w].renew # "none" THEN wk[w].renewAge + 1 ELSE wk[w].renewAge
             /\ l.pc = "run" => l.giveUp = wk[w].giveUp - 1
             /\ l.pc = "reply" => l.replyIn = wk[w].replyIn - 1
<1> DEFINE me == wk[w]
           replyIn == CountDown(me.replyIn, me.pc = "reply")
           giveUp == CountDown(me.giveUp, me.pc = "run")
           timeout == CountDown(me.timeout, me.pc = "run")
           wake == CountDown(me.wake, me.pc = "run" /\ me.renew = "none")
           renewAge == IF me.renew # "none" THEN me.renewAge + 1 ELSE me.renewAge
<1>1. /\ me \in Loop
      /\ me.replyIn \in 0 .. ReplyDelay /\ me.giveUp \in 0 .. 2 * Renewal
      /\ me.timeout \in 0 .. AttemptTimeout /\ me.wake \in 0 .. Renewal
      /\ me.renewAge \in 0 .. 2 * Renewal
  BY DEF TypeInv, TypeOK, Loop
<1>2. Renewal \in Nat /\ ReplyDelay \in Nat /\ AttemptTimeout \in Nat
  BY ConstantsAssumption DEF ConstantsAssumption
<1>3. replyIn \in 0 .. ReplyDelay /\ (me.pc = "reply" => replyIn = me.replyIn - 1)
  BY <1>1, <1>2 DEF CountDown, Due
<1>4. giveUp \in 0 .. 2 * Renewal /\ (me.pc = "run" => giveUp = me.giveUp - 1)
  BY <1>1, <1>2 DEF CountDown, Due
<1>5. timeout \in 0 .. AttemptTimeout /\ wake \in 0 .. Renewal
  BY <1>1, <1>2 DEF CountDown, Due
<1>6. renewAge \in 0 .. 2 * Renewal
  <2>1. me.renew # "none" => me.renewAge + me.giveUp <= 2 * Renewal /\ me.giveUp # 0
    BY DEF TypeInv, TimersAgree, Due
  <2> QED
    BY <1>1, <1>2, <2>1
<1>7. LoopTick(me) = [me EXCEPT !.replyIn = replyIn, !.giveUp = giveUp, !.timeout = timeout,
                                !.wake = wake, !.renewAge = renewAge]
  BY DEF LoopTick
<1>8. renewAge = IF me.renew # "none" THEN me.renewAge + 1 ELSE me.renewAge
  OBVIOUS
<1>9. me \in Loop
  BY <1>1
<1> DEFINE l == [me EXCEPT !.replyIn = replyIn, !.giveUp = giveUp, !.timeout = timeout,
                           !.wake = wake, !.renewAge = renewAge]
<1> HIDE DEF me, replyIn, giveUp, timeout, wake, renewAge
<1>10. l \in Loop
  <2>1. replyIn \in 0 .. ReplyDelay /\ giveUp \in 0 .. 2 * Renewal
    BY <1>3, <1>4
  <2> QED
    BY <1>5, <1>6, <1>9, <2>1 DEF Loop
<1>11. /\ l.pc = me.pc /\ l.renew = me.renew /\ l.job = me.job /\ l.token = me.token
       /\ l.replyIn = replyIn /\ l.giveUp = giveUp /\ l.renewAge = renewAge
  BY <1>9 DEF Loop
<1> HIDE DEF l
<1> QED
  BY <1>3, <1>4, <1>7, <1>8, <1>10, <1>11 DEF l, me

\* Renewals on the wire and the clock.
LEMMA TypeRest ==
  ASSUME TypeInv, Tick \/ \E t \in late : LateRenew(t) \/ LateLost(t)
  PROVE  TypeInv'
<1>1. CASE Tick
  <2>1. rows' \in [JobIds -> Row] /\ RunningCounted'
    BY <1>1, RowTickType DEF Tick, TypeInv, TypeOK, RunningCounted
  <2>2. \A w \in Workers : wk'[w] = LoopTick(wk[w]) /\ ~Due(w)
    BY <1>1 DEF Tick
  <2>3. wk' \in [Workers -> Loop]
    BY <1>1, <2>2, LoopTickType DEF Tick
  <2>4. ASSUME NEW w \in Workers
        PROVE  /\ wk'[w].pc # "run" => wk'[w].renew = "none"
               /\ wk'[w].renew = "none" => wk'[w].renewAge = 0
               /\ wk'[w].pc = "run" => wk'[w].renewAge + wk'[w].giveUp <= 2 * Renewal
    <3>1. /\ wk[w].pc # "run" => wk[w].renew = "none"
          /\ wk[w].renew = "none" => wk[w].renewAge = 0
          /\ wk[w].pc = "run" => wk[w].renewAge + wk[w].giveUp <= 2 * Renewal
          /\ wk[w].renewAge \in Nat /\ wk[w].giveUp \in Nat /\ Renewal \in Nat
      BY ConstantsAssumption DEF TypeInv, TypeOK, TimersAgree, Loop, ConstantsAssumption
    <3> QED
      BY <2>2, <3>1, LoopTickType
  <2> QED
    BY <1>1, <2>1, <2>3, <2>4 DEF Tick, TypeInv, TypeOK, TimersAgree
<1>2. ASSUME NEW t \in late, LateRenew(t) PROVE TypeInv'
  <2>1. \A j \in JobIds : /\ Renewed(rows[j]) \in Row
                          /\ Renewed(rows[j]).attempts = rows[j].attempts
                          /\ Renewed(rows[j]).status = rows[j].status
    BY RenewedType DEF TypeInv, TypeOK
  <2>2. rows' \in [JobIds -> Row] /\ RunningCounted'
    BY <1>2, <2>1 DEF LateRenew, TypeInv, TypeOK, RunningCounted
  <2> QED
    BY <1>2, <2>2 DEF LateRenew, TypeInv, TypeOK, TimersAgree
<1>3. ASSUME NEW t \in late, LateLost(t) PROVE TypeInv'
  BY <1>3 DEF LateLost, TypeInv, TypeOK, TimersAgree, RunningCounted
<1> QED
  BY <1>1, <1>2, <1>3

\* Every step keeps the invariant.
LEMMA TypeStep == TypeInv /\ [Next]_vars => TypeInv'
<1>1. CASE UNCHANGED vars
  BY <1>1 DEF vars, TypeInv, TypeOK, TimersAgree, RunningCounted
<1>2. ASSUME TypeInv, Next PROVE TypeInv'
  BY <1>2, TypeHost, TypeClaim, TypeAttempt, TypeOutcome, TypeRest DEF Next, Worker
<1> QED
  BY <1>1, <1>2

\* Every row of background_jobs and every worker loop stays in its type:
\* attempts never pass max_attempts, no deadline of keep_lease is negative.
THEOREM TypeCorrect == Spec => []TypeOK
<1>1. TypeInv => TypeOK
  BY DEF TypeInv
<1> QED
  BY <1>1, TypeInit, TypeStep, PTL DEF Spec

-----------------------------------------------------------------------------
(* One attempt at a time.                                                     *)

\* The numbers the lease argument compares are integers.
LEMMA Numbers ==
  ASSUME TypeOK
  PROVE  /\ \A w \in Workers : /\ wk[w].replyIn \in Nat /\ wk[w].giveUp \in Nat
                               /\ wk[w].renewAge \in Nat
         /\ \A j \in JobIds : rows[j].leaseLeft \in Int
         /\ Renewal \in Nat /\ Lease \in Nat /\ ReplyDelay \in Nat
<1>1. Renewal \in Nat /\ Lease \in Nat /\ ReplyDelay \in Nat
  BY ConstantsAssumption DEF ConstantsAssumption
<1>2. \A w \in Workers : wk[w] \in Loop
  BY DEF TypeOK
<1>3. \A l \in Loop : l.replyIn \in Nat /\ l.giveUp \in Nat /\ l.renewAge \in Nat
  BY <1>1 DEF Loop
<1>4. \A row \in Row : row.leaseLeft \in Int
  BY <1>1 DEF Row, Expired
<1>5. \A j \in JobIds : rows[j] \in Row
  BY DEF TypeOK
<1> QED
  BY <1>1, <1>2, <1>3, <1>4, <1>5

\* A trusted lease is live in the table.
LEMMA TrustedIsLive ==
  ASSUME TypeInv, TrustJustified, NEW w \in Workers, Trusts(w)
  PROVE  /\ wk[w].job \in JobIds
         /\ rows[wk[w].job].status = "running"
         /\ rows[wk[w].job].token = wk[w].token
         /\ ~Lapsed(wk[w].job)
<1>1. Justified(w) /\ (wk[w].pc = "reply" \/ wk[w].pc = "run")
  BY DEF TrustJustified, Trusts
<1>2. wk[w].job \in JobIds /\ rows[wk[w].job].status = "running"
      /\ rows[wk[w].job].token = wk[w].token
  BY <1>1 DEF Justified, Holds
<1>3. /\ wk[w].replyIn \in Nat /\ wk[w].giveUp \in Nat
      /\ rows[wk[w].job].leaseLeft \in Int /\ Renewal \in Nat
  BY <1>2, Numbers DEF TypeInv
<1>4. rows[wk[w].job].leaseLeft >= 0
  BY <1>1, <1>3 DEF Justified
<1> QED
  BY <1>2, <1>3, <1>4 DEF Lapsed, Expired

\* A step that leaves a worker alone, and its row running with its token and a
\* lease no shorter, leaves it justified.
LEMMA Undisturbed ==
  ASSUME TypeInv, TypeInv', TrustJustified, NEW w \in Workers, wk'[w] = wk[w], Trusts(w)',
         Trusts(w) => /\ rows'[wk[w].job].status = rows[wk[w].job].status
                      /\ rows'[wk[w].job].token = rows[wk[w].job].token
                      /\ rows'[wk[w].job].leaseLeft >= rows[wk[w].job].leaseLeft
  PROVE  Justified(w)'
<1>1. Trusts(w) /\ Justified(w)
  BY DEF Trusts, TrustJustified
<1>2. wk[w].job \in JobIds
  BY <1>1 DEF Justified, Holds
<1>3. /\ wk[w].replyIn \in Nat /\ wk[w].giveUp \in Nat /\ wk[w].renewAge \in Nat
      /\ rows[wk[w].job].leaseLeft \in Int /\ Renewal \in Nat
      /\ rows'[wk[w].job].leaseLeft \in Int
  <2>1. \A j \in JobIds : rows'[j].leaseLeft \in Int
    BY ConstantsAssumption DEF TypeInv, TypeOK, Row, ConstantsAssumption, Expired
  <2> QED
    BY <1>2, <2>1, Numbers DEF TypeInv
<1> QED
  BY <1>1, <1>3 DEF Justified, Holds

\* Init satisfies the invariant.
LEMMA LeaseInit == Init => LeaseInv
<1>1. Init => TrustJustified /\ TokensDiffer
  BY DEF Init, FreshLoop, TrustJustified, TokensDiffer, Trusts, NoToken
<1> QED
  BY <1>1, TypeInit DEF LeaseInv

\* A worker that lets go of its lease, the table unchanged but for rows that
\* nobody trusts.
LEMMA LeaseRelease ==
  ASSUME LeaseInv, TypeInv', NEW w \in Workers,
         NEW place \in Phase \ {"reply", "run", "ack"},
         wk' = [wk EXCEPT ![w] = At(place)], minted' = minted,
         \A u \in Workers \ {w} : Trusts(u) => rows'[wk[u].job] = rows[wk[u].job]
  PROVE  LeaseInv'
<1>1. ~Trusts(w)' /\ ~Carries(w)' /\ wk'[w].token = NoToken
  BY DEF Trusts, Carries, At, FreshLoop, LeaseInv, TypeInv, TypeOK
<1>2. \A u \in Workers \ {w} : wk'[u] = wk[u]
  BY DEF LeaseInv, TypeInv, TypeOK
<1>3. TrustJustified'
  <2> SUFFICES ASSUME NEW u \in Workers, Trusts(u)' PROVE Justified(u)'
    BY DEF TrustJustified
  <2>1. u # w /\ wk'[u] = wk[u]
    BY <1>1, <1>2
  <2>2. Trusts(u) => /\ rows'[wk[u].job] = rows[wk[u].job]
                     /\ rows[wk[u].job].leaseLeft \in Int
    BY <2>1, TrustedIsLive DEF LeaseInv, TypeInv, TypeOK, Row, Expired
  <2>3. Trusts(u) => rows'[wk[u].job].leaseLeft >= rows[wk[u].job].leaseLeft
    BY <2>2
  <2> QED
    BY <2>1, <2>2, <2>3, Undisturbed DEF LeaseInv
<1>4. TokensDiffer'
  BY <1>1, <1>2 DEF LeaseInv, TypeInv, TypeOK, TokensDiffer, Trusts, Carries, NoToken
<1> QED
  BY <1>3, <1>4 DEF LeaseInv

\* A step of one worker that keeps its token and its row running, with a lease
\* that justifies it.
LEMMA LeaseOfOne ==
  ASSUME LeaseInv, TypeInv', NEW w \in Workers, NEW l,
         wk' = [wk EXCEPT ![w] = l], l.token = wk[w].token, minted' = minted,
         Carries(w), Trusts(w)' => Trusts(w) /\ Justified(w)',
         \A u \in Workers \ {w} : Trusts(u) =>
            /\ rows'[wk[u].job].status = rows[wk[u].job].status
            /\ rows'[wk[u].job].token = rows[wk[u].job].token
            /\ rows'[wk[u].job].leaseLeft >= rows[wk[u].job].leaseLeft
  PROVE  LeaseInv'
<1>1. wk'[w] = l /\ \A u \in Workers \ {w} : wk'[u] = wk[u]
  BY DEF LeaseInv, TypeInv, TypeOK
<1>2. TrustJustified'
  <2> SUFFICES ASSUME NEW u \in Workers, Trusts(u)' PROVE Justified(u)'
    BY DEF TrustJustified
  <2>1. CASE u = w
    BY <2>1
  <2>2. CASE u # w
    BY <1>1, <2>2, Undisturbed DEF LeaseInv
  <2> QED
    BY <2>1, <2>2
<1>3. TokensDiffer'
  BY <1>1 DEF LeaseInv, TokensDiffer, Trusts, Carries
<1> QED
  BY <1>2, <1>3 DEF LeaseInv

\* Every trusted row is unchanged when the rows are.
LEMMA RowsUnchanged ==
  ASSUME LeaseInv, rows' = rows
  PROVE  \A u \in Workers : Trusts(u) =>
            /\ rows'[wk[u].job] = rows[wk[u].job]
            /\ rows'[wk[u].job].status = rows[wk[u].job].status
            /\ rows'[wk[u].job].token = rows[wk[u].job].token
            /\ rows'[wk[u].job].leaseLeft >= rows[wk[u].job].leaseLeft
  BY TrustedIsLive, Numbers DEF LeaseInv, TypeInv

\* The host touches no running row.
LEMMA LeaseHost == LeaseInv /\ TypeInv' /\ Host => LeaseInv'
<1> SUFFICES ASSUME LeaseInv, TypeInv', Host PROVE LeaseInv'
  OBVIOUS
<1>1. wk' = wk /\ minted' = minted
  BY DEF Host, Enqueue, Prune, Stop
<1>2. \A j \in JobIds : rows[j].status = "running" => rows'[j] = rows[j]
  <2>1. ASSUME NEW j \in JobIds, NEW k \in Keys \cup {NoKey}, NEW p \in Priorities,
               NEW d \in RunDelays, Enqueue(j, k, p, d)
        PROVE  \A i \in JobIds : rows[i].status = "running" => rows'[i] = rows[i]
    BY <2>1 DEF Enqueue, LeaseInv, TypeInv, TypeOK
  <2>2. CASE Prune
    BY <2>2 DEF Prune, Prunable
  <2>3. CASE Stop("stop") \/ Stop("dropped")
    BY <2>3 DEF Stop
  <2> QED
    BY <2>1, <2>2, <2>3 DEF Host
<1>3. TrustJustified'
  <2> SUFFICES ASSUME NEW u \in Workers, Trusts(u)' PROVE Justified(u)'
    BY DEF TrustJustified
  <2>1. Trusts(u) => rows'[wk[u].job] = rows[wk[u].job] /\ rows[wk[u].job].leaseLeft \in Int
    BY <1>2, TrustedIsLive, Numbers DEF LeaseInv, TypeInv
  <2>2. Trusts(u) => rows'[wk[u].job].leaseLeft >= rows[wk[u].job].leaseLeft
    BY <2>1
  <2> QED
    BY <1>1, <2>1, <2>2, Undisturbed DEF LeaseInv
<1> QED
  BY <1>1, <1>3 DEF LeaseInv, TokensDiffer, Trusts, Carries

\* A claim takes a row that nobody trusts, under a token that nobody carries.
LEMMA LeaseClaim ==
  ASSUME ReplyInTime, NEW w \in Workers, LeaseInv, TypeInv',
         \/ LoopHead(w) \/ ClaimSweep(w) \/ ClaimTake(w) \/ ClaimNone(w) \/ ClaimError(w)
         \/ IdleStop(w) \/ IdleWake(w)
  PROVE  LeaseInv'
<1>1. CASE LoopHead(w) \/ ClaimNone(w) \/ ClaimError(w) \/ IdleStop(w) \/ IdleWake(w)
  <2>1. \E place \in Phase \ {"reply", "run", "ack"} : wk' = [wk EXCEPT ![w] = At(place)]
    BY <1>1, LoopValues DEF LoopHead, ClaimNone, ClaimError, IdleStop, IdleWake
  <2>2. rows' = rows /\ minted' = minted
    BY <1>1 DEF LoopHead, ClaimNone, ClaimError, IdleStop, IdleWake
  <2> QED
    BY <2>1, <2>2, LeaseRelease
<1>2. CASE ClaimSweep(w)
  <2>1. \A u \in Workers : Trusts(u) => rows'[wk[u].job] = rows[wk[u].job]
    BY <1>2, TrustedIsLive DEF ClaimSweep, LeaseInv
  <2>2. /\ wk' = [wk EXCEPT ![w] = At("take")] /\ minted' = minted
        /\ "take" \in Phase \ {"reply", "run", "ack"}
    BY <1>2, LoopValues DEF ClaimSweep
  <2> QED
    BY <2>1, <2>2, LeaseRelease
<1>3. CASE ClaimTake(w)
  <2> DEFINE t == minted + 1
  <2>1. PICK j \in Claimable :
          /\ rows' = [rows EXCEPT ![j] = Claimed(rows[j], t)]
          /\ wk' = [wk EXCEPT ![w] = Claimant(j, t, rows[j].attempts + 1)]
    BY <1>3 DEF ClaimTake
  <2>2. /\ j \in JobIds /\ rows[j] \in Row /\ rows[j].attempts < MaxAttempts
        /\ \/ rows[j].status = "pending"
           \/ Lapsed(j)
    <3>1. j \in JobIds /\ (rows[j].status = "pending" \/ Lapsed(j))
      BY <2>1 DEF Claimable
    <3>2. rows[j] \in Row /\ ~(rows[j].attempts >= MaxAttempts)
      BY <2>1, <3>1 DEF Claimable, Exhausted, LeaseInv, TypeInv, TypeOK
    <3>3. rows[j].attempts < MaxAttempts
      <4>1. MaxAttempts \in Nat
        BY ConstantsAssumption DEF ConstantsAssumption
      <4>2. rows[j].attempts \in 0 .. MaxAttempts
        BY <3>2 DEF Row
      <4> QED
        BY <3>2, <4>1, <4>2
    <3> QED
      BY <3>1, <3>2, <3>3
  <2>3. minted \in Nat /\ t \in Nat /\ t > minted /\ minted' = t
    BY <1>3 DEF LeaseInv, TypeInv, TypeOK, ClaimTake
  <2> HIDE DEF t
  <2>4. rows[j].attempts + 1 \in 0 .. MaxAttempts
    BY <2>2, <2>3, ClaimedType
  <2>5. /\ rows'[j].status = "running" /\ rows'[j].token = t /\ rows'[j].leaseLeft = Lease
        /\ \A i \in JobIds \ {j} : rows'[i] = rows[i]
    BY <2>1, <2>2, <2>3, ClaimedType DEF LeaseInv, TypeInv, TypeOK
  <2>6. /\ wk'[w].pc = "reply" /\ wk'[w].job = j /\ wk'[w].token = t
        /\ wk'[w].replyIn = ReplyDelay /\ wk'[w].renew = "none"
        /\ \A u \in Workers \ {w} : wk'[u] = wk[u]
    BY <2>1, <2>2, <2>3, <2>4, ClaimantType DEF LeaseInv, TypeInv, TypeOK
  <2>7. TrustJustified'
    <3> SUFFICES ASSUME NEW u \in Workers, Trusts(u)' PROVE Justified(u)'
      BY DEF TrustJustified
    <3>1. CASE u = w
      BY <2>2, <2>5, <2>6, <3>1, Numbers
      DEF Justified, Holds, ReplyInTime, LeaseInv, TypeInv
    <3>2. CASE u # w
      <4>1. Trusts(u) => wk[u].job \in JobIds \ {j} /\ rows[wk[u].job].leaseLeft \in Int
        BY <2>2, TrustedIsLive, Numbers DEF LeaseInv, TypeInv
      <4>2. Trusts(u) => /\ rows'[wk[u].job] = rows[wk[u].job]
                         /\ rows'[wk[u].job].leaseLeft >= rows[wk[u].job].leaseLeft
        BY <2>5, <4>1
      <4> QED
        BY <2>6, <3>2, <4>2, Undisturbed DEF LeaseInv
    <3> QED
      BY <3>1, <3>2
  <2>8. TokensDiffer'
    <3>1. \A u \in Workers : wk[u].token \in Nat /\ wk[u].token <= minted
      BY DEF LeaseInv, TypeInv, TypeOK, TokensDiffer, Loop
    <3>2. \A u \in Workers \ {w} : wk'[u].token # t /\ wk'[u].token <= minted'
      BY <2>3, <2>6, <3>1
    <3>3. wk'[w].token <= minted'
      BY <2>3, <2>6
    <3> QED
      BY <2>6, <3>2, <3>3 DEF LeaseInv, TokensDiffer, Trusts, Carries
  <2> QED
    BY <2>7, <2>8 DEF LeaseInv
<1> QED
  BY <1>1, <1>2, <1>3

\* An attempt moves its own deadlines only as far as its lease reaches.
LEMMA LeaseAttempt ==
  ASSUME ReplyInTime, NEW w \in Workers, LeaseInv, TypeInv',
         \/ AttemptStart(w) \/ RenewSend(w) \/ RenewExecute(w) \/ RenewConfirmed(w)
         \/ RenewError(w)
  PROVE  LeaseInv'
<1> DEFINE me == wk[w]
<1>0. /\ me \in Loop /\ me.replyIn \in Nat /\ me.giveUp \in Nat /\ me.renewAge \in Nat
      /\ Renewal \in Nat /\ Lease \in Nat
      /\ \A j \in JobIds : rows[j].leaseLeft \in Int
  BY Numbers DEF LeaseInv, TypeInv, TypeOK
<1>1. Trusts(w) /\ Carries(w) /\ Justified(w) /\ me.job \in JobIds
  BY DEF AttemptStart, RenewSend, RenewExecute, RenewConfirmed, RenewError, Trusts, Carries,
         LeaseInv, TrustJustified, Justified, Holds
<1>2. minted' = minted
  BY DEF AttemptStart, RenewSend, RenewExecute, RenewConfirmed, RenewError
<1>3. CASE AttemptStart(w)
  <2> DEFINE l == [me EXCEPT !.pc = "run", !.replyIn = 0, !.giveUp = 2 * Renewal,
                             !.wake = Renewal, !.timeout = AttemptTimeout]
  <2>1. wk' = [wk EXCEPT ![w] = l] /\ rows' = rows /\ me.pc = "reply"
    BY <1>3 DEF AttemptStart
  <2>2. /\ l.pc = "run" /\ l.job = me.job /\ l.token = me.token
        /\ l.giveUp = 2 * Renewal /\ l.renew = me.renew
    BY <1>0 DEF Loop
  <2>3. me.renew = "none"
    BY <2>1 DEF LeaseInv, TypeInv, TimersAgree
  <2> HIDE DEF l
  <2>4. wk'[w] = l
    BY <2>1 DEF LeaseInv, TypeInv, TypeOK
  <2>5. Justified(w)'
    BY <1>0, <1>1, <2>1, <2>2, <2>3, <2>4 DEF Justified, Holds
  <2> QED
    BY <1>1, <1>2, <2>1, <2>2, <2>5, RowsUnchanged, LeaseOfOne
<1>4. CASE RenewSend(w)
  <2> DEFINE l == [me EXCEPT !.renew = "sent", !.renewAge = 0]
  <2>1. wk' = [wk EXCEPT ![w] = l] /\ rows' = rows /\ me.pc = "run"
    BY <1>4 DEF RenewSend
  <2>2. /\ l.pc = "run" /\ l.job = me.job /\ l.token = me.token
        /\ l.giveUp = me.giveUp /\ l.renew = "sent"
    BY <1>0, <2>1 DEF Loop
  <2> HIDE DEF l
  <2>3. wk'[w] = l
    BY <2>1 DEF LeaseInv, TypeInv, TypeOK
  <2>4. Justified(w)'
    BY <1>0, <1>1, <2>1, <2>2, <2>3 DEF Justified, Holds
  <2> QED
    BY <1>1, <1>2, <2>1, <2>2, <2>4, RowsUnchanged, LeaseOfOne
<1>5. CASE RenewExecute(w)
  <2> DEFINE l == [me EXCEPT !.renew = "kept"]
             r == Renewed(rows[me.job])
  <2>1. /\ wk' = [wk EXCEPT ![w] = l] /\ rows' = [rows EXCEPT ![me.job] = r] /\ me.pc = "run"
        /\ Holds(w)
    BY <1>1, <1>5 DEF RenewExecute, Justified
  <2>2. /\ l.pc = "run" /\ l.job = me.job /\ l.token = me.token
        /\ l.giveUp = me.giveUp /\ l.renew = "kept" /\ l.renewAge = me.renewAge
    BY <1>0, <2>1 DEF Loop
  <2>3. /\ r.status = rows[me.job].status /\ r.token = rows[me.job].token /\ r.leaseLeft = Lease
        /\ rows[me.job].leaseLeft <= Lease
    BY <1>0, <1>1, <2>1, RenewedType DEF Holds, LeaseInv, TypeInv, TypeOK
  <2> HIDE DEF l, r
  <2>4. wk'[w] = l /\ rows'[me.job] = r /\ \A j \in JobIds \ {me.job} : rows'[j] = rows[j]
    BY <1>1, <2>1 DEF LeaseInv, TypeInv, TypeOK
  <2>5. me.giveUp <= 2 * Renewal /\ 2 * Renewal <= Lease
    <3>1. me.giveUp \in 0 .. 2 * Renewal
      BY <1>0 DEF Loop
    <3>2. ReplyDelay \in Nat
      BY ConstantsAssumption DEF ConstantsAssumption
    <3> QED
      BY <1>0, <3>1, <3>2 DEF ReplyInTime
  <2>6. Justified(w)'
    BY <1>0, <1>1, <2>1, <2>2, <2>3, <2>4, <2>5 DEF Justified, Holds
  <2>7. \A j \in JobIds : /\ rows'[j].status = rows[j].status
                          /\ rows'[j].token = rows[j].token
                          /\ rows'[j].leaseLeft >= rows[j].leaseLeft
    BY <1>0, <2>3, <2>4
  <2>8. \A u \in Workers : Trusts(u) => wk[u].job \in JobIds
    BY TrustedIsLive DEF LeaseInv
  <2> QED
    BY <1>1, <1>2, <2>1, <2>2, <2>6, <2>7, <2>8, LeaseOfOne
<1>6. CASE RenewConfirmed(w)
  <2> DEFINE left == 2 * Renewal - me.renewAge
             l == [me EXCEPT !.renew = "none", !.renewAge = 0, !.giveUp = left,
                             !.wake = Lesser(left, Renewal)]
  <2>1. /\ wk' = [wk EXCEPT ![w] = l] /\ rows' = rows
        /\ me.pc = "run" /\ me.renew = "kept"
    BY <1>6 DEF RenewConfirmed
  <2>2. /\ l.pc = "run" /\ l.job = me.job /\ l.token = me.token
        /\ l.giveUp = left /\ l.renew = "none"
    BY <1>0, <2>1 DEF Loop
  <2>3. rows[me.job].leaseLeft >= left
    BY <1>1, <2>1 DEF Justified
  <2> HIDE DEF l, left
  <2>4. wk'[w] = l
    BY <2>1 DEF LeaseInv, TypeInv, TypeOK
  <2>5. Justified(w)'
    BY <1>0, <1>1, <2>1, <2>2, <2>3, <2>4 DEF Justified, Holds
  <2> QED
    BY <1>1, <1>2, <2>1, <2>2, <2>5, RowsUnchanged, LeaseOfOne
<1>7. CASE RenewError(w)
  <2> DEFINE l == [me EXCEPT !.renew = "none", !.renewAge = 0,
                             !.wake = Lesser(me.giveUp, Renewal)]
  <2>1. wk' = [wk EXCEPT ![w] = l] /\ rows' = rows /\ me.pc = "run"
    BY <1>7 DEF RenewError
  <2>2. /\ l.pc = "run" /\ l.job = me.job /\ l.token = me.token
        /\ l.giveUp = me.giveUp /\ l.renew = "none"
    BY <1>0, <2>1 DEF Loop
  <2> HIDE DEF l
  <2>3. wk'[w] = l
    BY <2>1 DEF LeaseInv, TypeInv, TypeOK
  <2>4. Justified(w)'
    BY <1>0, <1>1, <2>1, <2>2, <2>3 DEF Justified, Holds
  <2> QED
    BY <1>1, <1>2, <2>1, <2>2, <2>4, RowsUnchanged, LeaseOfOne
<1> QED
  BY <1>3, <1>4, <1>5, <1>6, <1>7

\* The end of an attempt; an acknowledgement writes to no row that another
\* worker trusts, because the tokens differ.
LEMMA LeaseOutcome ==
  ASSUME NEW w \in Workers, LeaseInv, TypeInv',
         \/ DropAttempt(w)
         \/ HandlerOk(w) \/ HandlerFails(w) \/ HandlerTimesOut(w)
         \/ Acknowledge(w) \/ AcknowledgeError(w) \/ Crash(w) \/ Restart(w)
  PROVE  LeaseInv'
<1> DEFINE me == wk[w]
<1>1. ASSUME NEW o, NEW d, HandlerEnds(w, o, d)
      PROVE  LeaseInv'
  <2> DEFINE l == [me EXCEPT !.pc = "ack", !.outcome = o, !.retry = d, !.renew = "none",
                             !.renewAge = 0, !.giveUp = 0, !.wake = 0, !.timeout = 0]
  <2>1. me \in Loop
    BY DEF LeaseInv, TypeInv, TypeOK
  <2>2. l.pc = "ack" /\ l.token = me.token
    BY <2>1 DEF Loop
  <2>3. /\ wk' = [wk EXCEPT ![w] = l] /\ rows' = rows /\ minted' = minted
        /\ me.pc = "run"
    BY <1>1 DEF HandlerEnds
  <2> HIDE DEF l
  <2>4. wk'[w] = l
    BY <2>3 DEF LeaseInv, TypeInv, TypeOK
  <2>5. Carries(w) /\ ~Trusts(w)'
    BY <2>2, <2>3, <2>4 DEF Carries, Trusts
  <2> QED
    BY <2>2, <2>3, <2>5, RowsUnchanged, LeaseOfOne
<1>2. CASE DropAttempt(w) \/ AcknowledgeError(w) \/ Crash(w) \/ Restart(w)
  <2>1. \E place \in Phase \ {"reply", "run", "ack"} : wk' = [wk EXCEPT ![w] = At(place)]
    BY <1>2, LoopValues DEF DropAttempt, AcknowledgeError, Crash, Restart
  <2>2. rows' = rows /\ minted' = minted
    BY <1>2 DEF DropAttempt, AcknowledgeError, Crash, Restart
  <2> QED
    BY <2>1, <2>2, LeaseRelease
<1>3. CASE Acknowledge(w)
  <2>1. /\ wk' = [wk EXCEPT ![w] = At("poll")] /\ minted' = minted
        /\ "poll" \in Phase \ {"reply", "run", "ack"} /\ Carries(w)
    BY <1>3, LoopValues DEF Acknowledge, Carries
  <2>2. \A j \in JobIds : ~(Holds(w) /\ j = me.job) => rows'[j] = rows[j]
    BY <1>3 DEF Acknowledge, LeaseInv, TypeInv, TypeOK
  <2>3. ASSUME NEW u \in Workers \ {w}, Trusts(u)
        PROVE  rows'[wk[u].job] = rows[wk[u].job]
    <3>1. wk[u].job \in JobIds /\ rows[wk[u].job].token = wk[u].token
      BY <2>3, TrustedIsLive DEF LeaseInv
    <3>2. wk[u].token # me.token
      BY <2>1, <2>3 DEF LeaseInv, TokensDiffer
    <3> QED
      BY <2>2, <3>1, <3>2 DEF Holds
  <2> QED
    BY <2>1, <2>3, LeaseRelease
<1> QED
  BY <1>1, <1>2, <1>3 DEF HandlerOk, HandlerFails, HandlerTimesOut

\* A renewal that arrives late only lengthens a lease; time shortens the lease
\* and the deadlines of its holder alike.
LEMMA LeaseRest ==
  ASSUME LeaseInv, TypeInv', Tick \/ \E t \in late : LateRenew(t) \/ LateLost(t)
  PROVE  LeaseInv'
<1>0. TypeInv /\ TypeOK /\ TrustJustified /\ TokensDiffer
  BY DEF LeaseInv, TypeInv
<1>1. CASE Tick
  <2>1. \A u \in Workers : wk'[u] = LoopTick(wk[u]) /\ ~Due(u)
    BY <1>1 DEF Tick
  <2>2. \A j \in JobIds : rows'[j] = RowTick(rows[j]) /\ rows[j] \in Row
    BY <1>0, <1>1 DEF Tick, TypeOK
  <2>3. ASSUME NEW u \in Workers
        PROVE  /\ wk'[u].pc = wk[u].pc /\ wk'[u].renew = wk[u].renew
               /\ wk'[u].job = wk[u].job /\ wk'[u].token = wk[u].token
               /\ wk'[u].renewAge = IF wk[u].renew # "none" THEN wk[u].renewAge + 1
                                    ELSE wk[u].renewAge
               /\ wk[u].pc = "run" => wk'[u].giveUp = wk[u].giveUp - 1
               /\ wk[u].pc = "reply" => wk'[u].replyIn = wk[u].replyIn - 1
    BY <1>0, <2>1, LoopTickType
  <2>4. TrustJustified'
    <3> SUFFICES ASSUME NEW u \in Workers, Trusts(u)' PROVE Justified(u)'
      BY DEF TrustJustified
    <3> DEFINE j == wk[u].job
    <3>1. Trusts(u) /\ Justified(u)
      BY <1>0, <2>3 DEF Trusts, TrustJustified
    <3>2. j \in JobIds /\ rows[j].status = "running" /\ rows[j].token = wk[u].token
      BY <3>1 DEF Justified, Holds
    <3>3. /\ rows'[j].status = "running" /\ rows'[j].token = wk[u].token
          /\ rows'[j].leaseLeft >= rows[j].leaseLeft - 1
      BY <2>2, <3>2, RowTickType
    <3>4. /\ rows[j].leaseLeft \in Int /\ wk[u].replyIn \in Nat /\ wk[u].giveUp \in Nat
          /\ wk[u].renewAge \in Nat /\ Renewal \in Nat
      BY <1>0, <3>2, Numbers
    <3>5. rows'[j].leaseLeft \in Int
      BY <3>2 DEF TypeInv, TypeOK, Row, Expired
    <3> QED
      BY <2>3, <3>1, <3>2, <3>3, <3>4, <3>5 DEF Justified, Holds
  <2>5. TokensDiffer'
    BY <1>0, <1>1, <2>3 DEF Tick, TokensDiffer, Trusts, Carries
  <2> QED
    BY <2>4, <2>5 DEF LeaseInv
<1>2. ASSUME NEW t \in late, LateRenew(t) \/ LateLost(t) PROVE LeaseInv'
  <2>1. wk' = wk /\ minted' = minted
    BY <1>2 DEF LateRenew, LateLost
  <2>2. \A row \in Row : /\ Renewed(row).status = row.status
                         /\ Renewed(row).token = row.token
                         /\ Renewed(row).leaseLeft = Lease
                         /\ row.leaseLeft <= Lease /\ row.leaseLeft \in Int
    BY RenewedType
  <2>3. ASSUME NEW j \in JobIds
        PROVE  /\ rows'[j].status = rows[j].status /\ rows'[j].token = rows[j].token
               /\ rows'[j].leaseLeft >= rows[j].leaseLeft
    <3>1. \/ rows'[j] = rows[j]
          \/ rows'[j] = Renewed(rows[j])
      BY <1>2 DEF LateRenew, LateLost
    <3>2. rows[j] \in Row /\ rows[j].leaseLeft \in Int /\ Lease \in Nat
      BY <1>0, Numbers DEF TypeOK
    <3>3. CASE rows'[j] = rows[j]
      BY <3>2, <3>3
    <3>4. CASE rows'[j] = Renewed(rows[j])
      BY <2>2, <3>2, <3>4
    <3> QED
      BY <3>1, <3>3, <3>4
  <2>4. TrustJustified'
    <3> SUFFICES ASSUME NEW u \in Workers, Trusts(u)' PROVE Justified(u)'
      BY DEF TrustJustified
    <3>1. Trusts(u) => wk[u].job \in JobIds
      BY <1>0, TrustedIsLive
    <3> QED
      BY <1>0, <2>1, <2>3, <3>1, Undisturbed
  <2> QED
    BY <1>0, <2>1, <2>4 DEF LeaseInv, TokensDiffer, Trusts, Carries
<1> QED
  BY <1>1, <1>2

\* Every step keeps the invariant.
LEMMA LeaseStep ==
  ASSUME ReplyInTime
  PROVE  LeaseInv /\ [Next]_vars => LeaseInv'
<1> SUFFICES ASSUME LeaseInv, [Next]_vars PROVE LeaseInv'
  OBVIOUS
<1>1. TypeInv'
  BY TypeStep DEF LeaseInv
<1>2. CASE UNCHANGED vars
  BY <1>1, <1>2 DEF vars, LeaseInv, TrustJustified, TokensDiffer, Trusts, Carries, Justified, Holds
<1>3. CASE Next
  BY <1>1, <1>3, LeaseHost, LeaseClaim, LeaseAttempt, LeaseOutcome, LeaseRest DEF Next, Worker
<1> QED
  BY <1>2, <1>3

\* A running attempt owns its row and drops itself before the lease in the
\* table ends, if the answer to a claim never takes longer than the lease
\* without the two silent periods of keep_lease.
THEOREM LeaseHeld ==
  ASSUME ReplyInTime
  PROVE  Spec => []LeaseOutlivesAttempt
<1>1. LeaseInv => LeaseOutlivesAttempt
  BY DEF LeaseInv, TrustJustified, Trusts, Justified, LeaseOutlivesAttempt
<1>2. LeaseInv /\ [Next]_vars => LeaseInv'
  BY LeaseStep
<1> QED
  BY <1>1, <1>2, LeaseInit, PTL DEF Spec

\* Two workers never run the same job at the same time, under the same
\* condition.
THEOREM MutualExclusion ==
  ASSUME ReplyInTime
  PROVE  Spec => []NoOverlap
<1>1. LeaseInv => NoOverlap
  BY TrustedIsLive DEF LeaseInv, TokensDiffer, Trusts, Carries, NoOverlap
<1>2. LeaseInv /\ [Next]_vars => LeaseInv'
  BY LeaseStep
<1> QED
  BY <1>1, <1>2, LeaseInit, PTL DEF Spec

-----------------------------------------------------------------------------
(* What a step does to a row, and what to a worker.                           *)

\* Time, a renewal or nothing.
Stays(j) ==
    /\ rows'[j].status = rows[j].status
    /\ rows'[j].attempts = rows[j].attempts
    /\ rows'[j].token = rows[j].token
    /\ rows[j].status = "failed" => rows'[j] = rows[j] \/ rows'[j] = RowTick(rows[j])

Accepted(j) ==
    /\ rows[j].status = "absent"
    /\ rows'[j].status = "pending"
    /\ rows'[j].attempts = 0
    /\ rows'[j].token = NoToken

Forgotten(j) ==
    /\ Prunable(j)
    /\ rows'[j].status = "pruned"
    /\ rows'[j].token = rows[j].token

\* A sweep or an acknowledgement ends the lease.
Ended(j) ==
    /\ rows[j].status = "running"
    /\ rows'[j].status \in {"pending", "completed", "failed"}
    /\ rows'[j].status = "pending" => rows'[j].attempts < MaxAttempts
    /\ rows'[j].token = NoToken

\* A claim.
Taken(j) ==
    /\ rows[j].status \in {"pending", "running"}
    /\ rows'[j].status = "running"
    /\ rows'[j].token = minted'
    /\ minted' = minted + 1

RowMoves(j) == Stays(j) \/ Accepted(j) \/ Forgotten(j) \/ Ended(j) \/ Taken(j)

\* A loop lets go of what it held, or carries what it carried.
LoopMoves(w) ==
    \/ /\ ~Carries(w)'
       /\ wk'[w].token \in {wk[w].token, NoToken}
    \/ /\ Carries(w) /\ Carries(w)'
       /\ wk'[w].job = wk[w].job
       /\ wk'[w].token = wk[w].token
       /\ wk'[w].attempts = wk[w].attempts

LEMMA UnchangedStays == ASSUME NEW j \in JobIds, rows' = rows PROVE Stays(j)
  BY DEF Stays

LEMMA HostMovesRows ==
  ASSUME TypeInv, Host, NEW i \in JobIds
  PROVE  RowMoves(i)
<1> rows \in [JobIds -> Row]
  BY DEF TypeInv, TypeOK
<1>1. ASSUME NEW j \in JobIds, NEW k \in Keys \cup {NoKey}, NEW p \in Priorities,
             NEW d \in RunDelays, Enqueue(j, k, p, d)
      PROVE  RowMoves(i)
  <2> DEFINE r == [AbsentRow EXCEPT !.status = "pending", !.key = k,
                                    !.priority = p, !.runIn = d]
  <2>1. r.status = "pending" /\ r.attempts = 0 /\ r.token = NoToken
    BY DEF AbsentRow
  <2>2. rows' = [rows EXCEPT ![j] = r] /\ rows[j].status = "absent"
    BY <1>1 DEF Enqueue
  <2> HIDE DEF r
  <2> QED
    BY <2>1, <2>2 DEF RowMoves, Accepted, Stays
<1>2. CASE Prune
  <2>1. /\ [rows[i] EXCEPT !.status = "pruned"].status = "pruned"
        /\ [rows[i] EXCEPT !.status = "pruned"].token = rows[i].token
    BY DEF Row
  <2> QED
    BY <1>2, <2>1 DEF Prune, RowMoves, Forgotten, Stays
<1>3. CASE Stop("stop") \/ Stop("dropped")
  BY <1>3, UnchangedStays DEF Stop, RowMoves
<1> QED
  BY <1>1, <1>2, <1>3 DEF Host

\* A claim, a renewal or a step that changes no row: who waited, waits.
LEMMA KeepsWaiting ==
  ASSUME TypeInv, NEW w \in Workers, Worker(w), ~ClaimSweep(w), ~Acknowledge(w),
         NEW i \in JobIds
  PROVE  Stays(i) \/ Taken(i)
<1>0. rows \in [JobIds -> Row]
  BY DEF TypeInv, TypeOK
<1>1. CASE ClaimTake(w)
  <2>1. PICK j \in Claimable : rows' = [rows EXCEPT ![j] = Claimed(rows[j], minted + 1)]
    BY <1>1 DEF ClaimTake
  <2>2. /\ j \in JobIds /\ rows[j] \in Row /\ minted' = minted + 1
        /\ rows[j].status \in {"pending", "running"}
    BY <1>0, <1>1, <2>1 DEF Claimable, Lapsed, ClaimTake
  <2>3. /\ Claimed(rows[j], minted + 1).status = "running"
        /\ Claimed(rows[j], minted + 1).token = minted + 1
    BY <2>2 DEF Claimed, Row
  <2> QED
    BY <1>0, <2>1, <2>2, <2>3 DEF Taken, Stays
<1>2. CASE RenewExecute(w) /\ Holds(w)
  <2> DEFINE j == wk[w].job
             r == Renewed(rows[j])
  <2>1. rows' = [rows EXCEPT ![j] = r] /\ rows[j].status = "running" /\ j \in JobIds
    BY <1>2 DEF RenewExecute, Holds
  <2>2. r.status = rows[j].status /\ r.attempts = rows[j].attempts /\ r.token = rows[j].token
    BY <1>0, <2>1, RenewedType DEF TypeInv, TypeOK
  <2> HIDE DEF r, j
  <2> QED
    BY <1>0, <2>1, <2>2 DEF Stays
<1>3. CASE ~ClaimTake(w) /\ ~ (RenewExecute(w) /\ Holds(w))
  <2>1. rows' = rows
    BY <1>3
    DEF Worker, LoopHead, ClaimNone, ClaimError, IdleStop, IdleWake, AttemptStart, RenewSend,
        RenewExecute, RenewConfirmed, RenewError, DropAttempt, HandlerOk, HandlerFails,
        HandlerTimesOut, HandlerEnds, AcknowledgeError, Crash, Restart
  <2> QED
    BY <2>1, UnchangedStays
<1> QED
  BY <1>1, <1>2, <1>3

\* An acknowledgement ends the lease of the one who holds it.
LEMMA AcknowledgeMoves ==
  ASSUME TypeInv, NEW w \in Workers, Acknowledge(w), NEW i \in JobIds
  PROVE  IF Holds(w) /\ wk[w].job = i THEN Ended(i) ELSE rows'[i] = rows[i]
<1>1. CASE ~ (Holds(w) /\ wk[w].job = i)
  BY <1>1 DEF Acknowledge, TypeInv, TypeOK
<1>2. CASE Holds(w) /\ wk[w].job = i
  <2> DEFINE r == IF wk[w].outcome = "ok" THEN Completed(rows[i])
                  ELSE NotCompleted(rows[i], wk[w].retry)
             n == NotCompleted(rows[i], wk[w].retry)
  <2>1. rows'[i] = r /\ rows[i].status = "running" /\ rows[i] \in Row
    BY <1>2 DEF Acknowledge, Holds, TypeInv, TypeOK
  <2>2. Completed(rows[i]).token = NoToken /\ Completed(rows[i]).status = "completed"
    BY <2>1 DEF Completed, Row
  <2>3. CASE rows[i].attempts >= MaxAttempts
    BY <1>2, <2>1, <2>2, <2>3 DEF NotCompleted, Row, Ended
  <2>4. CASE ~ (rows[i].attempts >= MaxAttempts)
    <3>1. n.token = NoToken /\ n.status = "pending" /\ n.attempts = rows[i].attempts
      BY <2>1, <2>4 DEF NotCompleted, Row
    <3>2. rows[i].attempts < MaxAttempts
      BY <2>1, <2>4, ConstantsAssumption DEF Row, ConstantsAssumption
    <3>3. r = Completed(rows[i]) \/ r = n
      OBVIOUS
    <3> HIDE DEF n, r
    <3> QED
      BY <1>2, <2>1, <2>2, <3>1, <3>2, <3>3 DEF Ended
  <2> QED
    BY <2>3, <2>4
<1> QED
  BY <1>1, <1>2

LEMMA WorkerMovesRows ==
  ASSUME TypeInv, NEW w \in Workers, Worker(w), NEW i \in JobIds
  PROVE  RowMoves(i)
<1>1. CASE ClaimSweep(w)
  <2> DEFINE r == [rows[i] EXCEPT !.status = "failed", !.token = NoToken, !.leaseLeft = 0]
  <2>1. r.status = "failed" /\ r.token = NoToken
    BY DEF Row, TypeInv, TypeOK
  <2>2. rows'[i] = IF Lapsed(i) /\ Exhausted(i) THEN r ELSE rows[i]
    BY <1>1 DEF ClaimSweep
  <2> HIDE DEF r
  <2> QED
    BY <2>1, <2>2 DEF RowMoves, Ended, Stays, Lapsed
<1>2. CASE Acknowledge(w)
  BY <1>2, AcknowledgeMoves DEF RowMoves, Stays
<1> QED
  BY <1>1, <1>2, KeepsWaiting DEF RowMoves

\* Time and the renewals on the wire leave every row where it is.
LEMMA RestMovesRows ==
  ASSUME TypeInv, Tick \/ \E t \in late : LateRenew(t) \/ LateLost(t), NEW i \in JobIds
  PROVE  Stays(i)
<1>0. rows[i] \in Row
  BY DEF TypeInv, TypeOK
<1>1. CASE Tick
  <2>1. rows'[i] = RowTick(rows[i])
    BY <1>1 DEF Tick
  <2> QED
    BY <1>0, <2>1, RowTickType DEF Stays
<1>2. ASSUME NEW t \in late, LateRenew(t) PROVE Stays(i)
  <2> DEFINE r == Renewed(rows[i])
  <2>1. rows'[i] = IF rows[i].status = "running" /\ rows[i].token = t THEN r ELSE rows[i]
    BY <1>2 DEF LateRenew
  <2>2. r.status = rows[i].status /\ r.attempts = rows[i].attempts /\ r.token = rows[i].token
    BY <1>0, RenewedType
  <2> HIDE DEF r
  <2> QED
    BY <2>1, <2>2 DEF Stays
<1>3. ASSUME NEW t \in late, LateLost(t) PROVE Stays(i)
  BY <1>3, UnchangedStays DEF LateLost
<1> QED
  BY <1>1, <1>2, <1>3

\* Every step.
LEMMA NextMovesRows == ASSUME TypeInv, Next, NEW i \in JobIds PROVE RowMoves(i)
  BY HostMovesRows, WorkerMovesRows, RestMovesRows DEF Next, RowMoves

\* No job leaves a final status but by Prune.
Final ==
    \A j \in JobIds :
        /\ rows[j].status = "failed" =>
              /\ rows'[j] = [rows[j] EXCEPT !.age = rows'[j].age]
              /\ rows'[j].age >= rows[j].age
        /\ rows[j].status = "completed" /\ rows'[j].status # "completed" =>
              rows'[j].status = "pruned" /\ rows[j].age > PruneAge

LEMMA FinalStep == TypeInv /\ [Next]_vars => Final
<1> SUFFICES ASSUME TypeInv, [Next]_vars, NEW j \in JobIds
             PROVE  /\ rows[j].status = "failed" =>
                          /\ rows'[j] = [rows[j] EXCEPT !.age = rows'[j].age]
                          /\ rows'[j].age >= rows[j].age
                    /\ rows[j].status = "completed" /\ rows'[j].status # "completed" =>
                          rows'[j].status = "pruned" /\ rows[j].age > PruneAge
  BY DEF Final
<1>1. rows[j] \in Row /\ rows[j].age \in Int
  <2>1. rows[j] \in Row
    BY DEF TypeInv, TypeOK
  <2> QED
    BY <2>1, RowValues DEF Row
<1>2. RowMoves(j)
  BY NextMovesRows, UnchangedStays DEF vars, RowMoves
<1>3. ASSUME rows[j].status = "failed"
      PROVE  rows'[j] = [rows[j] EXCEPT !.age = rows'[j].age] /\ rows'[j].age >= rows[j].age
  <2>1. rows'[j] = rows[j] \/ rows'[j] = RowTick(rows[j])
    BY <1>2, <1>3 DEF RowMoves, Stays, Accepted, Forgotten, Ended, Taken, Prunable
  <2>2. CASE rows'[j] = rows[j]
    BY <1>1, <2>2 DEF Row
  <2>3. CASE rows'[j] = RowTick(rows[j])
    BY <1>1, <1>3, <2>3, RowTickType
  <2> QED
    BY <2>1, <2>2, <2>3
<1>4. ASSUME rows[j].status = "completed", rows'[j].status # "completed"
      PROVE  rows'[j].status = "pruned" /\ rows[j].age > PruneAge
  BY <1>2, <1>4 DEF RowMoves, Stays, Accepted, Forgotten, Ended, Taken, Prunable
<1> QED
  BY <1>3, <1>4

\* A failed job stays as it is, its end included, and a completed one until it
\* is pruned, whatever renewals, acknowledgements and claims are still on the
\* wire (claim, acknowledge, prune).
THEOREM FinalIsFinal == Spec => FinalStaysFinal
<1>1. TypeInv /\ [Next]_vars => [Final]_vars
  BY FinalStep
<1>2. Spec => [][Final]_vars
  BY <1>1, TypeInit, TypeStep, PTL DEF Spec
<1> QED
  BY <1>2 DEF FinalStaysFinal, Final

-----------------------------------------------------------------------------
(* The fence of the lease token.                                              *)

\* A job that waits for a claim has attempts left.
PendingHasAttempts ==
    \A j \in JobIds : rows[j].status = "pending" => rows[j].attempts < MaxAttempts

\* Every token in use was handed out.
TokensMinted ==
    /\ \A j \in JobIds : rows[j].token <= minted
    /\ \A w \in Workers : wk[w].token <= minted

\* A token names one attempt: who presents the one in the table was counted last.
TokenNamesAttempt ==
    \A w \in Workers : Carries(w) /\ Holds(w) => rows[wk[w].job].attempts = wk[w].attempts

FenceInv == TypeInv /\ PendingHasAttempts /\ TokensMinted /\ TokenNamesAttempt

LEMMA FenceInit == Init => FenceInv
<1>1. ASSUME Init PROVE PendingHasAttempts /\ TokensMinted /\ TokenNamesAttempt
  BY <1>1 DEF Init, AbsentRow, FreshLoop, NoToken, PendingHasAttempts, TokensMinted,
              TokenNamesAttempt, Carries
<1> QED
  BY <1>1, TypeInit DEF FenceInv

\* What a worker's step does to the loops, unless it is a claim.
LEMMA WorkerMoves ==
  ASSUME TypeInv, NEW w \in Workers, Worker(w), ~ClaimTake(w)
  PROVE  minted' = minted /\ \A u \in Workers : LoopMoves(u)
<1>0. wk \in [Workers -> Loop] /\ wk[w] \in Loop
  BY DEF TypeInv, TypeOK
<1>1. minted' = minted
  BY DEF Worker, LoopHead, ClaimSweep, ClaimNone, ClaimError, IdleStop, IdleWake, AttemptStart,
         RenewSend, RenewExecute, RenewConfirmed, RenewError, DropAttempt, HandlerOk, HandlerFails,
         HandlerTimesOut, HandlerEnds, Acknowledge, AcknowledgeError, Crash, Restart
<1>2. \A u \in Workers : wk'[u] = wk[u] => LoopMoves(u)
  BY DEF LoopMoves, Carries
<1>3. CASE \/ LoopHead(w) \/ ClaimSweep(w) \/ ClaimNone(w) \/ ClaimError(w) \/ IdleStop(w)
           \/ IdleWake(w) \/ DropAttempt(w) \/ Acknowledge(w) \/ AcknowledgeError(w)
           \/ Crash(w) \/ Restart(w)
  <2>1. \E place \in Phase \ {"reply", "run", "ack"} : wk' = [wk EXCEPT ![w] = At(place)]
    BY <1>3, LoopValues
    DEF LoopHead, ClaimSweep, ClaimNone, ClaimError, IdleStop, IdleWake, DropAttempt, Acknowledge,
        AcknowledgeError, Crash, Restart
  <2>2. \A place \in Phase : At(place).pc = place /\ At(place).token = NoToken
    BY DEF At, FreshLoop
  <2> QED
    BY <1>0, <1>1, <1>2, <2>1, <2>2 DEF LoopMoves, Carries
<1>4. ASSUME NEW l, wk' = [wk EXCEPT ![w] = l], Carries(w), l.pc \in {"run", "ack"},
             l.job = wk[w].job, l.token = wk[w].token, l.attempts = wk[w].attempts
      PROVE  \A u \in Workers : LoopMoves(u)
  BY <1>0, <1>2, <1>4 DEF LoopMoves, Carries
<1>5. CASE AttemptStart(w)
  <2> DEFINE l == [wk[w] EXCEPT !.pc = "run", !.replyIn = 0, !.giveUp = 2 * Renewal,
                                !.wake = Renewal, !.timeout = AttemptTimeout]
  <2>1. l.pc = "run" /\ l.job = wk[w].job /\ l.token = wk[w].token /\ l.attempts = wk[w].attempts
    BY <1>0 DEF Loop
  <2>2. wk' = [wk EXCEPT ![w] = l] /\ Carries(w)
    BY <1>5 DEF AttemptStart, Carries
  <2> HIDE DEF l
  <2> QED
    BY <1>1, <1>4, <2>1, <2>2
<1>6. CASE RenewSend(w)
  <2> DEFINE l == [wk[w] EXCEPT !.renew = "sent", !.renewAge = 0]
  <2>1. /\ l.pc = wk[w].pc /\ l.job = wk[w].job /\ l.token = wk[w].token
        /\ l.attempts = wk[w].attempts
    BY <1>0 DEF Loop
  <2>2. wk' = [wk EXCEPT ![w] = l] /\ Carries(w) /\ wk[w].pc = "run"
    BY <1>6 DEF RenewSend, Carries
  <2> HIDE DEF l
  <2> QED
    BY <1>1, <1>4, <2>1, <2>2
<1>7. CASE RenewExecute(w)
  <2> DEFINE l(s) == [wk[w] EXCEPT !.renew = s]
  <2>1. \A s : /\ l(s).pc = wk[w].pc /\ l(s).job = wk[w].job /\ l(s).token = wk[w].token
               /\ l(s).attempts = wk[w].attempts
    BY <1>0 DEF Loop
  <2>2. (\E s : wk' = [wk EXCEPT ![w] = l(s)]) /\ Carries(w) /\ wk[w].pc = "run"
    BY <1>7 DEF RenewExecute, Carries
  <2> HIDE DEF l
  <2> QED
    BY <1>1, <1>4, <2>1, <2>2
<1>8. CASE RenewConfirmed(w)
  <2> DEFINE left == 2 * Renewal - wk[w].renewAge
             l == [wk[w] EXCEPT !.renew = "none", !.renewAge = 0, !.giveUp = left,
                                !.wake = Lesser(left, Renewal)]
  <2>1. /\ l.pc = wk[w].pc /\ l.job = wk[w].job /\ l.token = wk[w].token
        /\ l.attempts = wk[w].attempts
    BY <1>0 DEF Loop
  <2>2. wk' = [wk EXCEPT ![w] = l] /\ Carries(w) /\ wk[w].pc = "run"
    BY <1>8 DEF RenewConfirmed, Carries
  <2> HIDE DEF l, left
  <2> QED
    BY <1>1, <1>4, <2>1, <2>2
<1>9. CASE RenewError(w)
  <2> DEFINE l == [wk[w] EXCEPT !.renew = "none", !.renewAge = 0,
                                !.wake = Lesser(wk[w].giveUp, Renewal)]
  <2>1. /\ l.pc = wk[w].pc /\ l.job = wk[w].job /\ l.token = wk[w].token
        /\ l.attempts = wk[w].attempts
    BY <1>0 DEF Loop
  <2>2. wk' = [wk EXCEPT ![w] = l] /\ Carries(w) /\ wk[w].pc = "run"
    BY <1>9 DEF RenewError, Carries
  <2> HIDE DEF l
  <2> QED
    BY <1>1, <1>4, <2>1, <2>2
<1>10. ASSUME NEW o, NEW d, HandlerEnds(w, o, d) PROVE \A u \in Workers : LoopMoves(u)
  <2> DEFINE l == [wk[w] EXCEPT !.pc = "ack", !.outcome = o, !.retry = d, !.renew = "none",
                                !.renewAge = 0, !.giveUp = 0, !.wake = 0, !.timeout = 0]
  <2>1. l.pc = "ack" /\ l.job = wk[w].job /\ l.token = wk[w].token /\ l.attempts = wk[w].attempts
    BY <1>0 DEF Loop
  <2>2. wk' = [wk EXCEPT ![w] = l] /\ Carries(w)
    BY <1>10 DEF HandlerEnds, Carries
  <2> HIDE DEF l
  <2> QED
    BY <1>4, <2>1, <2>2
<1> QED
  BY <1>1, <1>3, <1>5, <1>6, <1>7, <1>8, <1>9, <1>10
  DEF Worker, HandlerOk, HandlerFails, HandlerTimesOut

LEMMA RestMoves ==
  ASSUME TypeInv, Host \/ Tick \/ \E t \in late : LateRenew(t) \/ LateLost(t)
  PROVE  minted' = minted /\ \A u \in Workers : LoopMoves(u)
<1>1. CASE Tick
  <2>1. \A u \in Workers : wk'[u] = LoopTick(wk[u]) /\ wk[u] \in Loop
    BY <1>1 DEF Tick, TypeInv, TypeOK
  <2>2. \A l \in Loop : /\ LoopTick(l).pc = l.pc /\ LoopTick(l).job = l.job
                        /\ LoopTick(l).token = l.token /\ LoopTick(l).attempts = l.attempts
    BY DEF Loop, LoopTick
  <2>3. \A u \in Workers : wk[u].token = wk'[u].token
    BY <2>1, <2>2
  <2> QED
    BY <1>1, <2>1, <2>2 DEF Tick, LoopMoves, Carries
<1>2. ASSUME wk' = wk, minted' = minted PROVE minted' = minted /\ \A u \in Workers : LoopMoves(u)
  BY <1>2 DEF LoopMoves, Carries
<1>3. CASE Host
  BY <1>2, <1>3 DEF Host, Enqueue, Prune, Stop
<1>4. ASSUME NEW t \in late, LateRenew(t) \/ LateLost(t)
      PROVE  minted' = minted /\ \A u \in Workers : LoopMoves(u)
  BY <1>2, <1>4 DEF LateRenew, LateLost
<1> QED
  BY <1>1, <1>3, <1>4

\* A step but a claim keeps the fence.
LEMMA MovesKeepFence ==
  ASSUME FenceInv, TypeInv', minted' = minted,
         \A j \in JobIds : RowMoves(j), \A w \in Workers : LoopMoves(w)
  PROVE  FenceInv'
<1>1. /\ MaxAttempts \in Nat /\ MaxAttempts > 0 /\ minted \in Nat
      /\ \A j \in JobIds : ~Taken(j)
  BY ConstantsAssumption DEF ConstantsAssumption, FenceInv, TypeInv, TypeOK, Taken
<1>2. PendingHasAttempts'
  BY <1>1 DEF FenceInv, PendingHasAttempts, RowMoves, Stays, Accepted, Forgotten, Ended
<1>3. TokensMinted'
  <2>1. ASSUME NEW j \in JobIds PROVE rows'[j].token <= minted
    <3>1. rows'[j].token \in {rows[j].token, NoToken}
      BY <1>1 DEF RowMoves, Stays, Accepted, Forgotten, Ended
    <3> QED
      BY <1>1, <3>1 DEF FenceInv, TokensMinted, NoToken
  <2>2. ASSUME NEW w \in Workers PROVE wk'[w].token <= minted
    <3>1. wk'[w].token \in {wk[w].token, NoToken}
      BY DEF LoopMoves
    <3> QED
      BY <1>1, <3>1 DEF FenceInv, TokensMinted, NoToken
  <2> QED
    BY <2>1, <2>2 DEF TokensMinted
<1>4. TokenNamesAttempt'
  <2> SUFFICES ASSUME NEW w \in Workers, Carries(w)', Holds(w)'
               PROVE  rows'[wk'[w].job].attempts = wk'[w].attempts
    BY DEF TokenNamesAttempt
  <2> DEFINE j == wk[w].job
  <2>1. /\ Carries(w) /\ wk'[w].job = j /\ wk'[w].token = wk[w].token
        /\ wk'[w].attempts = wk[w].attempts
    BY DEF LoopMoves
  <2>2. j \in JobIds /\ rows'[j].status = "running" /\ rows'[j].token = wk[w].token
    BY <2>1 DEF Holds
  <2>3. Stays(j)
    BY <1>1, <2>2 DEF RowMoves, Accepted, Forgotten, Ended
  <2>4. Holds(w)
    BY <2>2, <2>3 DEF Holds, Stays
  <2> QED
    BY <2>1, <2>3, <2>4 DEF FenceInv, TokenNamesAttempt, Stays
<1> QED
  BY <1>2, <1>3, <1>4 DEF FenceInv

\* A claim keeps it: its token is new.
LEMMA ClaimKeepsFence ==
  ASSUME FenceInv, TypeInv', NEW w \in Workers, ClaimTake(w)
  PROVE  FenceInv'
<1> DEFINE t == minted + 1
<1>1. PICK j \in Claimable :
        /\ rows' = [rows EXCEPT ![j] = Claimed(rows[j], t)]
        /\ wk' = [wk EXCEPT ![w] = Claimant(j, t, rows[j].attempts + 1)]
  BY DEF ClaimTake
<1>2. j \in JobIds /\ rows[j] \in Row /\ rows[j].attempts < MaxAttempts
  <2>1. j \in JobIds /\ rows[j] \in Row /\ ~ (rows[j].attempts >= MaxAttempts)
    BY <1>1 DEF Claimable, Exhausted, FenceInv, TypeInv, TypeOK
  <2> QED
    BY <2>1, ConstantsAssumption DEF ConstantsAssumption, Row
<1>3. minted \in Nat /\ t \in Nat /\ t > minted /\ minted' = t
  BY DEF FenceInv, TypeInv, TypeOK, ClaimTake
<1> HIDE DEF t
<1>4. /\ rows'[j].status = "running" /\ rows'[j].token = t
      /\ rows'[j].attempts = rows[j].attempts + 1
      /\ \A i \in JobIds \ {j} : rows'[i] = rows[i]
  BY <1>1, <1>2, <1>3, ClaimedType DEF FenceInv, TypeInv, TypeOK
<1>5. /\ wk'[w].job = j /\ wk'[w].token = t /\ wk'[w].attempts = rows[j].attempts + 1
      /\ \A u \in Workers \ {w} : wk'[u] = wk[u]
  BY <1>1 DEF Claimant, At, FreshLoop, FenceInv, TypeInv, TypeOK
<1>6. \A u \in Workers : wk[u].token \in Nat /\ wk[u].token <= minted
  BY DEF FenceInv, TokensMinted, TypeInv, TypeOK, Loop
<1>7. \A i \in JobIds : rows[i].token \in Nat /\ rows[i].token <= minted
  BY DEF FenceInv, TokensMinted, TypeInv, TypeOK, Row
<1>8. PendingHasAttempts'
  BY <1>4 DEF FenceInv, PendingHasAttempts
<1>9. TokensMinted'
  BY <1>3, <1>4, <1>5, <1>6, <1>7 DEF TokensMinted
<1>10. TokenNamesAttempt'
  <2> SUFFICES ASSUME NEW u \in Workers, Carries(u)', Holds(u)'
               PROVE  rows'[wk'[u].job].attempts = wk'[u].attempts
    BY DEF TokenNamesAttempt
  <2>1. CASE u = w
    BY <1>4, <1>5, <2>1
  <2>2. CASE u # w
    <3>1. wk'[u] = wk[u] /\ wk[u].token # t
      BY <1>3, <1>5, <1>6, <2>2
    <3>2. wk[u].job \in JobIds \ {j} /\ Holds(u) /\ Carries(u)
      BY <1>4, <3>1 DEF Holds, Carries
    <3> QED
      BY <1>4, <3>1, <3>2 DEF FenceInv, TokenNamesAttempt
  <2> QED
    BY <2>1, <2>2
<1> QED
  BY <1>8, <1>9, <1>10 DEF FenceInv

LEMMA FenceStep == FenceInv /\ [Next]_vars => FenceInv'
<1> SUFFICES ASSUME FenceInv, [Next]_vars PROVE FenceInv'
  OBVIOUS
<1>1. TypeInv /\ TypeInv'
  BY TypeStep DEF FenceInv
<1>2. CASE UNCHANGED vars
  BY <1>1, <1>2
  DEF vars, FenceInv, PendingHasAttempts, TokensMinted, TokenNamesAttempt, Carries, Holds
<1>3. ASSUME NEW w \in Workers, ClaimTake(w) PROVE FenceInv'
  BY <1>1, <1>3, ClaimKeepsFence
<1>4. CASE Next /\ \A w \in Workers : ~ClaimTake(w)
  <2>1. minted' = minted /\ \A u \in Workers : LoopMoves(u)
    BY <1>1, <1>4, WorkerMoves, RestMoves DEF Next
  <2>2. \A j \in JobIds : RowMoves(j)
    BY <1>1, <1>4, NextMovesRows
  <2> QED
    BY <1>1, <2>1, <2>2, MovesKeepFence
<1> QED
  BY <1>2, <1>3, <1>4

\* The fence holds in every state, with slow replies too: no assumption is made on
\* the durations (claim, acknowledge).
THEOREM Fenced == Spec => []FenceInv
  BY FenceInit, FenceStep, PTL DEF Spec

\* A worker whose loop moved on moved it itself.
LEMMA MovesAlone ==
  ASSUME TypeInv, [Next]_vars, NEW w \in Workers, wk'[w].pc # wk[w].pc
  PROVE  Worker(w)
<1>1. wk \in [Workers -> Loop] /\ wk' # wk
  BY DEF TypeInv, TypeOK
<1>2. ~Host /\ ~ (\E t \in late : LateRenew(t) \/ LateLost(t)) /\ ~UNCHANGED vars
  BY <1>1 DEF Host, Enqueue, Prune, Stop, LateRenew, LateLost, vars
<1>3. ~Tick
  <2> SUFFICES ASSUME Tick PROVE FALSE
    OBVIOUS
  <2>1. wk'[w] = LoopTick(wk[w]) /\ ~Due(w)
    BY DEF Tick
  <2> QED
    BY <1>1, <2>1, LoopTickType
<1>4. PICK u \in Workers : Worker(u)
  BY <1>2, <1>3 DEF Next
<1>5. u = w
  <2>1. \E l : wk' = [wk EXCEPT ![u] = l]
    BY <1>4
    DEF Worker, LoopHead, ClaimSweep, ClaimTake, ClaimNone, ClaimError, IdleStop, IdleWake,
        AttemptStart, RenewSend, RenewExecute, RenewConfirmed, RenewError, DropAttempt, HandlerOk,
        HandlerFails, HandlerTimesOut, HandlerEnds, Acknowledge, AcknowledgeError, Crash, Restart
  <2> QED
    BY <1>1, <2>1
<1> QED
  BY <1>4, <1>5

\* Only the attempt that was counted last writes its outcome.
LEMMA AckStep ==
  FenceInv /\ [Next]_vars =>
      \A w \in Workers :
          wk[w].pc = "ack" /\ wk'[w].pc = "poll" /\ rows' # rows
            => rows[wk[w].job].attempts = wk[w].attempts
<1> SUFFICES ASSUME FenceInv, [Next]_vars, NEW w \in Workers,
                    wk[w].pc = "ack", wk'[w].pc = "poll", rows' # rows
             PROVE  rows[wk[w].job].attempts = wk[w].attempts
  OBVIOUS
<1>1. Carries(w) /\ TypeInv /\ wk \in [Workers -> Loop] /\ wk' # wk
  BY DEF Carries, FenceInv, TypeInv, TypeOK
<1>2. Acknowledge(w) \/ rows' = rows
  <2>1. Worker(w)
    BY <1>1, MovesAlone
  <2> QED
    BY <2>1
    DEF Worker, LoopHead, ClaimSweep, ClaimTake, ClaimNone, ClaimError, IdleStop, IdleWake,
        AttemptStart, RenewSend, RenewExecute, RenewConfirmed, RenewError, DropAttempt, HandlerOk,
        HandlerFails, HandlerTimesOut, HandlerEnds, AcknowledgeError, Crash, Restart
<1>3. Holds(w)
  BY <1>2 DEF Acknowledge
<1> QED
  BY <1>1, <1>3 DEF FenceInv, TokenNamesAttempt

\* An acknowledgement changes a row only for the attempt that claimed it last,
\* however slow the database and however long the worker was away (acknowledge).
THEOREM StaleAckIsFenced == Spec => StaleAckRecordsNothing
<1> DEFINE Fence == \A w \in Workers :
                      wk[w].pc = "ack" /\ wk'[w].pc = "poll" /\ rows' # rows
                        => rows[wk[w].job].attempts = wk[w].attempts
<1>1. FenceInv /\ [Next]_vars => [Fence]_vars
  BY AckStep
<1> HIDE DEF Fence
<1>2. Spec => [][Fence]_vars
  BY <1>1, Fenced, PTL DEF Spec
<1> QED
  BY <1>2 DEF StaleAckRecordsNothing, Fence

\* stats counts as due exactly what claim would take, every pending, running or
\* recently failed job once, and none whose failure lies before the window of
\* failed_24h (stats, claim).
THEOREM StatsMatchClaim == Spec => []StatsAgreeWithClaim
<1>1. ASSUME FenceInv PROVE StatsDue = Claimable
  <2>1. \A j \in JobIds : rows[j] \in Row /\ MaxAttempts \in Nat
    BY <1>1, ConstantsAssumption DEF FenceInv, TypeInv, TypeOK, ConstantsAssumption
  <2>2. \A j \in JobIds : rows[j].status = "pending" => ~Exhausted(j)
    BY <1>1, <2>1 DEF FenceInv, PendingHasAttempts, Exhausted, Row
  <2> QED
    BY <2>2 DEF StatsDue, Claimable
<1>2. ASSUME FenceInv, NEW j \in JobIds, rows[j].status \in {"pending", "running", "failed"}
      PROVE  Cardinality({s \in {"due", "scheduled", "running", "failed"} :
                            j \in CASE s = "due" -> StatsDue
                                    [] s = "scheduled" -> StatsScheduled
                                    [] s = "running" -> StatsRunning
                                    [] s = "failed" -> StatsFailed})
               = IF GivenUp(j) /\ rows[j].age >= FailedWindow THEN 0 ELSE 1
  <2> DEFINE C(s) == CASE s = "due" -> StatsDue
                       [] s = "scheduled" -> StatsScheduled
                       [] s = "running" -> StatsRunning
                       [] s = "failed" -> StatsFailed
             Counts == {"due", "scheduled", "running", "failed"}
             S == {s \in Counts : j \in C(s)}
  <2>1. /\ C("due") = StatsDue /\ C("scheduled") = StatsScheduled
        /\ C("running") = StatsRunning /\ C("failed") = StatsFailed
    OBVIOUS
  <2>2. ~ (rows[j].age >= FailedWindow) <=> rows[j].age < FailedWindow
    <3>1. rows[j] \in Row /\ FailedWindow \in Int
      BY <1>2, ConstantsAssumption DEF FenceInv, TypeInv, TypeOK, ConstantsAssumption
    <3> QED
      BY <3>1, RowValues DEF Row
  <2> HIDE DEF C
  <2>3. CASE GivenUp(j) /\ rows[j].age >= FailedWindow
    <3>1. \A s \in Counts : j \notin C(s)
      BY <1>2, <2>1, <2>2, <2>3
      DEF StatsDue, StatsScheduled, StatsRunning, StatsFailed, GivenUp, Lapsed
    <3>2. S = {}
      BY <3>1
    <3> QED
      BY <2>3, <3>2, FS_EmptySet DEF C
  <2>4. CASE ~ (GivenUp(j) /\ rows[j].age >= FailedWindow)
    <3>1. \E s \in Counts : j \in C(s) /\ \A t \in Counts : j \in C(t) => t = s
      BY <1>2, <2>1, <2>2, <2>4
      DEF StatsDue, StatsScheduled, StatsRunning, StatsFailed, GivenUp, Lapsed
    <3>2. \E s : S = {s}
      BY <3>1
    <3>3. Cardinality(S) = 1
      BY <3>2, FS_Singleton
    <3> QED
      BY <2>4, <3>3 DEF C
  <2> QED
    BY <2>3, <2>4
<1>3. FenceInv => StatsAgreeWithClaim
  BY <1>1, <1>2 DEF StatsAgreeWithClaim
<1> QED
  BY <1>3, Fenced, PTL

\* What a poll's first statement leaves of the counts of stats: all of them.
SameCounts ==
    \A w \in Workers :
        wk[w].pc = "sweep" /\ wk'[w].pc = "take" =>
            /\ StatsDue' = StatsDue /\ StatsScheduled' = StatsScheduled
            /\ StatsRunning' = StatsRunning /\ StatsFailed' = StatsFailed

LEMMA SweepStep == TypeInv /\ [Next]_vars => SameCounts
<1> SUFFICES ASSUME TypeInv, [Next]_vars, NEW w \in Workers,
                    wk[w].pc = "sweep", wk'[w].pc = "take"
             PROVE  /\ StatsDue' = StatsDue /\ StatsScheduled' = StatsScheduled
                    /\ StatsRunning' = StatsRunning /\ StatsFailed' = StatsFailed
  BY DEF SameCounts
<1>1. ClaimSweep(w)
  <2>1. Worker(w)
    BY MovesAlone
  <2>2. \A place : At(place).pc = place
    BY DEF At, FreshLoop
  <2>3. wk \in [Workers -> Loop]
    BY DEF TypeInv, TypeOK
  <2> QED
    BY <2>1, <2>2, <2>3
    DEF Worker, LoopHead, ClaimTake, ClaimNone, ClaimError, IdleStop, IdleWake, AttemptStart,
        RenewSend, RenewExecute, RenewConfirmed, RenewError, DropAttempt, HandlerOk, HandlerFails,
        HandlerTimesOut, HandlerEnds, Acknowledge, AcknowledgeError, Crash, Restart
<1>2. ASSUME NEW j \in JobIds
      PROVE  /\ j \in StatsDue' <=> j \in StatsDue
             /\ j \in StatsScheduled' <=> j \in StatsScheduled
             /\ j \in StatsRunning' <=> j \in StatsRunning
             /\ j \in StatsFailed' <=> j \in StatsFailed
  <2>1. CASE Lapsed(j) /\ Exhausted(j)
    <3> DEFINE r == [rows[j] EXCEPT !.status = "failed", !.token = NoToken, !.leaseLeft = 0]
    <3>1. rows'[j] = r /\ rows[j] \in Row
      BY <1>1, <2>1 DEF ClaimSweep, TypeInv, TypeOK
    <3>2. r.status = "failed" /\ r.age = rows[j].age
      BY <3>1 DEF Row
    <3> HIDE DEF r
    <3>3. rows'[j].status = "failed" /\ rows'[j].age = rows[j].age
      BY <3>1, <3>2
    <3> QED
      BY <2>1, <3>3
      DEF StatsDue, StatsScheduled, StatsRunning, StatsFailed, GivenUp, Lapsed
  <2>2. CASE ~ (Lapsed(j) /\ Exhausted(j))
    <3>1. rows'[j] = rows[j]
      BY <1>1, <2>2 DEF ClaimSweep
    <3> QED
      BY <3>1
      DEF StatsDue, StatsScheduled, StatsRunning, StatsFailed, GivenUp, Lapsed, Exhausted
  <2> QED
    BY <2>1, <2>2
<1> QED
  BY <1>2 DEF StatsDue, StatsScheduled, StatsRunning, StatsFailed

\* A poll that marks a dead job failed reports it as stats did before: at the
\* time its lease ended, in or out of the window (claim, stats).
THEOREM SweepLeavesStats == Spec => SweepKeepsStats
<1>1. TypeInv /\ [Next]_vars => [SameCounts]_vars
  BY SweepStep
<1>2. Spec => [][SameCounts]_vars
  BY <1>1, TypeInit, TypeStep, PTL DEF Spec
<1> QED
  BY <1>2 DEF SweepKeepsStats, SameCounts

-----------------------------------------------------------------------------
(* The contract.                                                              *)

\* The state of a job and who is at it, as the contract sees them.
Where(j) == IF rows[j].status \in {"pending", "running"} THEN "waiting" ELSE rows[j].status
AtWork(j) == {w \in Workers : wk[w].pc = "run" /\ wk[w].job = j}

StateIs == [j \in JobIds |-> Where(j)]
HolderIs == [j \in JobIds |-> AtWork(j)]

\* The steps of the contract in these terms.
LEMMA Stutters ==
  ASSUME StateIs' = StateIs, HolderIs' = HolderIs
  PROVE  UNCHANGED Contract!vars
  BY DEF Contract!vars, StateIs, HolderIs, Where, AtWork

LEMMA Accepts ==
  ASSUME NEW j \in JobIds, StateIs[j] = "absent", HolderIs' = HolderIs,
         StateIs' = [StateIs EXCEPT ![j] = "waiting"]
  PROVE  Contract!Next
<1>1. Contract!Accept(j)
  BY DEF Contract!Accept, StateIs, HolderIs, Where, AtWork
<1> QED
  BY <1>1 DEF Contract!Next

LEMMA Begins ==
  ASSUME NEW j \in JobIds, NEW w \in Workers, StateIs[j] = "waiting", HolderIs[j] = {},
         HolderIs' = [HolderIs EXCEPT ![j] = {w}], StateIs' = StateIs
  PROVE  Contract!Next
<1>1. Contract!Begin(w, j)
  BY DEF Contract!Begin, StateIs, HolderIs, Where, AtWork
<1> QED
  BY <1>1 DEF Contract!Next

LEMMA Ends ==
  ASSUME NEW j \in JobIds, HolderIs[j] # {}, HolderIs' = [HolderIs EXCEPT ![j] = {}],
         StateIs' = StateIs
  PROVE  Contract!Next
<1>1. Contract!End(j)
  BY DEF Contract!End, StateIs, HolderIs, Where, AtWork
<1> QED
  BY <1>1 DEF Contract!Next

LEMMA Settles ==
  ASSUME NEW J \in SUBSET JobIds, NEW final \in {"completed", "failed"},
         \A j \in J : StateIs[j] = "waiting" /\ HolderIs[j] = {}, HolderIs' = HolderIs,
         StateIs' = [j \in JobIds |-> IF j \in J THEN final ELSE StateIs[j]]
  PROVE  Contract!Next
<1>1. Contract!Settle(J, final)
  BY DEF Contract!Settle, StateIs, HolderIs, Where, AtWork
<1> QED
  BY <1>1 DEF Contract!Next

LEMMA Forgets ==
  ASSUME NEW J \in SUBSET JobIds,
         \A j \in J : StateIs[j] = "completed" /\ HolderIs[j] = {}, HolderIs' = HolderIs,
         StateIs' = [j \in JobIds |-> IF j \in J THEN "pruned" ELSE StateIs[j]]
  PROVE  Contract!Next
<1>1. Contract!Forget(J)
  BY DEF Contract!Forget, StateIs, HolderIs, Where, AtWork
<1> QED
  BY <1>1 DEF Contract!Next

\* A job that a worker is at is running, under a live lease, and the worker's
\* alone.
LEMMA AtWorkAlone ==
  ASSUME LeaseInv, NEW j \in JobIds, NEW w \in AtWork(j)
  PROVE  /\ w \in Workers /\ Trusts(w) /\ wk[w].job = j
         /\ rows[j].status = "running" /\ ~Lapsed(j) /\ rows[j].token = wk[w].token
         /\ AtWork(j) = {w}
<1>1. w \in Workers /\ Trusts(w) /\ wk[w].job = j
  BY DEF AtWork, Trusts
<1>2. rows[j].status = "running" /\ ~Lapsed(j) /\ rows[j].token = wk[w].token
  BY <1>1, TrustedIsLive DEF LeaseInv
<1>3. ASSUME NEW u \in AtWork(j) PROVE u = w
  <2>1. u \in Workers /\ Trusts(u) /\ Carries(w) /\ wk[u].job = j
    BY <1>1, <1>3 DEF AtWork, Trusts, Carries
  <2>2. wk[u].token = rows[j].token
    BY <2>1, TrustedIsLive DEF LeaseInv
  <2> QED
    BY <1>1, <1>2, <2>1, <2>2 DEF LeaseInv, TokensDiffer
<1> QED
  BY <1>1, <1>2, <1>3

\* A row that the step leaves where it was, and the workers at it.
LEMMA StateStays == ASSUME \A j \in JobIds : Stays(j) \/ Taken(j) PROVE StateIs' = StateIs
<1>1. \A j \in JobIds : Where(j)' = Where(j)
  BY DEF Stays, Taken, Where
<1> QED
  BY <1>1 DEF StateIs

LEMMA HolderStays ==
  ASSUME \A u \in Workers : wk'[u].pc = "run" <=> wk[u].pc = "run",
         \A u \in Workers : wk[u].pc = "run" => wk'[u].job = wk[u].job
  PROVE  HolderIs' = HolderIs
<1>1. \A j \in JobIds : AtWork(j)' = AtWork(j)
  BY DEF AtWork
<1> QED
  BY <1>1 DEF HolderIs

LEMMA OneMoves ==
  ASSUME TypeInv, NEW w \in Workers, NEW l, wk' = [wk EXCEPT ![w] = l],
         l.pc = "run" <=> wk[w].pc = "run", l.pc = "run" => l.job = wk[w].job
  PROVE  HolderIs' = HolderIs
<1>1. wk'[w] = l /\ \A u \in Workers \ {w} : wk'[u] = wk[u]
  BY DEF TypeInv, TypeOK
<1> QED
  BY <1>1, HolderStays

LEMMA MapInit == Init => Contract!Init
<1> SUFFICES ASSUME Init PROVE Contract!Init
  OBVIOUS
<1>1. \A j \in JobIds : Where(j) = "absent" /\ AtWork(j) = {}
  BY DEF Init, AbsentRow, FreshLoop, Where, AtWork
<1> QED
  BY <1>1 DEF Contract!Init, Where, AtWork

LEMMA MapHost == ASSUME LeaseInv, Host PROVE [Contract!Next]_(Contract!vars)
<1>0. TypeInv /\ HolderIs' = HolderIs /\ rows \in [JobIds -> Row]
  BY HolderStays DEF Host, Enqueue, Prune, Stop, LeaseInv, TypeInv, TypeOK
<1>1. ASSUME NEW j \in JobIds, NEW k \in Keys \cup {NoKey}, NEW p \in Priorities,
             NEW d \in RunDelays, Enqueue(j, k, p, d)
      PROVE  Contract!Next
  <2> DEFINE r == [AbsentRow EXCEPT !.status = "pending", !.key = k,
                                    !.priority = p, !.runIn = d]
  <2>1. r.status = "pending"
    BY DEF AbsentRow
  <2>2. rows' = [rows EXCEPT ![j] = r] /\ rows[j].status = "absent"
    BY <1>1 DEF Enqueue
  <2> HIDE DEF r
  <2>3. /\ Where(j) = "absent" /\ Where(j)' = "waiting"
        /\ \A i \in JobIds \ {j} : Where(i)' = Where(i)
    BY <1>0, <2>1, <2>2 DEF Where
  <2>4. StateIs[j] = "absent" /\ StateIs' = [StateIs EXCEPT ![j] = "waiting"]
    BY <2>3 DEF StateIs
  <2> QED
    BY <1>0, <2>4, Accepts
<1>2. CASE Prune
  <2> DEFINE J == {j \in JobIds : Prunable(j)}
  <2>1. ASSUME NEW j \in J PROVE StateIs[j] = "completed" /\ HolderIs[j] = {}
    <3>1. AtWork(j) = {}
      BY AtWorkAlone DEF Prunable
    <3> QED
      BY <3>1 DEF StateIs, HolderIs, Where, Prunable
  <2>2. \A j \in JobIds : Where(j)' = IF j \in J THEN "pruned" ELSE StateIs[j]
    <3>1. \A j \in JobIds : [rows[j] EXCEPT !.status = "pruned"].status = "pruned"
      BY <1>0 DEF Row
    <3> QED
      BY <1>2, <3>1 DEF Prune, Where, StateIs
  <2>3. StateIs' = [j \in JobIds |-> IF j \in J THEN "pruned" ELSE StateIs[j]]
    BY <2>2 DEF StateIs
  <2> HIDE DEF J
  <2>4. J \in SUBSET JobIds
    BY DEF J
  <2> QED
    BY <1>0, <2>1, <2>3, <2>4, Forgets
<1>3. CASE Stop("stop") \/ Stop("dropped")
  <2>1. StateIs' = StateIs
    BY <1>3 DEF Stop, StateIs, Where
  <2> QED
    BY <1>0, <2>1, Stutters
<1> QED
  BY <1>1, <1>2, <1>3 DEF Host

LEMMA MapRest ==
  ASSUME LeaseInv, Tick \/ \E t \in late : LateRenew(t) \/ LateLost(t)
  PROVE  UNCHANGED Contract!vars
<1>1. StateIs' = StateIs
  BY RestMovesRows, StateStays DEF LeaseInv
<1>2. HolderIs' = HolderIs
  <2>1. CASE Tick
    <3>1. \A u \in Workers : wk'[u] = LoopTick(wk[u]) /\ ~Due(u)
      BY <2>1 DEF Tick
    <3>2. \A u \in Workers : wk'[u].pc = wk[u].pc /\ wk'[u].job = wk[u].job
      BY <3>1, LoopTickType DEF LeaseInv
    <3> QED
      BY <3>2, HolderStays
  <2>2. ASSUME NEW t \in late, LateRenew(t) \/ LateLost(t) PROVE HolderIs' = HolderIs
    BY <2>2, HolderStays DEF LateRenew, LateLost
  <2> QED
    BY <2>1, <2>2
<1> QED
  BY <1>1, <1>2, Stutters

\* The loop up to a claimed job: only a sweep shows.
LEMMA MapClaim ==
  ASSUME NEW w \in Workers, LeaseInv,
         \/ LoopHead(w) \/ ClaimSweep(w) \/ ClaimTake(w) \/ ClaimNone(w) \/ ClaimError(w)
         \/ IdleStop(w) \/ IdleWake(w)
  PROVE  [Contract!Next]_(Contract!vars)
<1>0. TypeInv /\ rows \in [JobIds -> Row]
  BY DEF LeaseInv, TypeInv, TypeOK
<1>1. HolderIs' = HolderIs
  <2>1. \E l : wk' = [wk EXCEPT ![w] = l] /\ l.pc # "run"
    <3>1. \A place : At(place).pc = place
      BY DEF At, FreshLoop
    <3>2. \A j, t, n : Claimant(j, t, n).pc = "reply"
      BY DEF Claimant, At, FreshLoop
    <3>3. CASE ClaimTake(w)
      BY <3>2, <3>3 DEF ClaimTake
    <3>4. CASE LoopHead(w)
      BY <3>1, <3>4 DEF LoopHead
    <3>5. CASE ClaimSweep(w) \/ ClaimNone(w) \/ ClaimError(w) \/ IdleStop(w) \/ IdleWake(w)
      BY <3>1, <3>5 DEF ClaimSweep, ClaimNone, ClaimError, IdleStop, IdleWake
    <3> QED
      BY <3>3, <3>4, <3>5
  <2>2. wk[w].pc # "run"
    BY DEF LoopHead, ClaimSweep, ClaimTake, ClaimNone, ClaimError, IdleStop, IdleWake
  <2> QED
    BY <1>0, <2>1, <2>2, OneMoves
<1>2. CASE ClaimSweep(w)
  <2> DEFINE J == {j \in JobIds : Lapsed(j) /\ Exhausted(j)}
             r(j) == [rows[j] EXCEPT !.status = "failed", !.token = NoToken, !.leaseLeft = 0]
  <2>1. ASSUME NEW j \in J PROVE StateIs[j] = "waiting" /\ HolderIs[j] = {}
    <3>1. AtWork(j) = {}
      BY AtWorkAlone
    <3> QED
      BY <3>1 DEF StateIs, HolderIs, Where, Lapsed
  <2>2. \A j \in JobIds : r(j).status = "failed"
    BY <1>0 DEF Row
  <2>3. \A j \in JobIds : rows'[j] = IF j \in J THEN r(j) ELSE rows[j]
    BY <1>2 DEF ClaimSweep
  <2> HIDE DEF r
  <2>4. \A j \in JobIds : Where(j)' = IF j \in J THEN "failed" ELSE StateIs[j]
    BY <2>2, <2>3 DEF Where, StateIs
  <2>5. StateIs' = [j \in JobIds |-> IF j \in J THEN "failed" ELSE StateIs[j]]
    BY <2>4 DEF StateIs
  <2> HIDE DEF J
  <2>6. J \in SUBSET JobIds
    BY DEF J
  <2> QED
    BY <1>1, <2>1, <2>5, <2>6, Settles
<1>3. CASE ~ClaimSweep(w)
  <2>1. ~Acknowledge(w) /\ Worker(w)
    BY DEF LoopHead, ClaimSweep, ClaimTake, ClaimNone, ClaimError, IdleStop, IdleWake, Acknowledge,
           Worker
  <2> QED
    BY <1>0, <1>1, <1>3, <2>1, KeepsWaiting, StateStays, Stutters
<1> QED
  BY <1>2, <1>3

\* The start of an attempt: nobody else is at the job.
LEMMA MapStart ==
  ASSUME NEW w \in Workers, LeaseInv, AttemptStart(w)
  PROVE  Contract!Next
<1>1. /\ Trusts(w) /\ Carries(w) /\ wk[w].pc = "reply"
      /\ wk[w] \in Loop /\ wk \in [Workers -> Loop]
  BY DEF AttemptStart, Trusts, Carries, LeaseInv, TypeInv, TypeOK
<1>2. PICK j \in JobIds :
        j = wk[w].job /\ rows[j].status = "running" /\ rows[j].token = wk[w].token
  BY <1>1, TrustedIsLive DEF LeaseInv
<1>3. wk'[w].pc = "run" /\ wk'[w].job = j /\ \A u \in Workers \ {w} : wk'[u] = wk[u]
  BY <1>1, <1>2 DEF AttemptStart, Loop
<1>4. AtWork(j) = {}
  <2> SUFFICES ASSUME NEW u \in AtWork(j) PROVE FALSE
    OBVIOUS
  <2>1. u \in Workers /\ u # w /\ Trusts(u) /\ wk[u].token = wk[w].token
    BY <1>1, <1>2, AtWorkAlone DEF AtWork
  <2> QED
    BY <1>1, <2>1 DEF LeaseInv, TokensDiffer
<1>5. AtWork(j)' = {w} /\ \A i \in JobIds \ {j} : AtWork(i)' = AtWork(i)
  BY <1>1, <1>3, <1>4 DEF AtWork
<1>6. StateIs' = StateIs
  BY DEF AttemptStart, StateIs, Where
<1>7. HolderIs' = [HolderIs EXCEPT ![j] = {w}] /\ HolderIs[j] = {}
  BY <1>2, <1>4, <1>5 DEF HolderIs
<1>8. StateIs[j] = "waiting"
  BY <1>2 DEF StateIs, Where
<1> QED
  BY <1>2, <1>6, <1>7, <1>8, Begins

\* A worker that was at a job and is not.
LEMMA MapEnd ==
  ASSUME NEW w \in Workers, LeaseInv, wk[w].pc = "run", NEW l, wk' = [wk EXCEPT ![w] = l],
         l.pc # "run", rows' = rows
  PROVE  Contract!Next
<1>1. wk \in [Workers -> Loop] /\ wk'[w] = l /\ \A u \in Workers \ {w} : wk'[u] = wk[u]
  BY DEF LeaseInv, TypeInv, TypeOK
<1>2. PICK j \in JobIds : j = wk[w].job /\ w \in AtWork(j)
  BY TrustedIsLive DEF AtWork, Trusts, LeaseInv
<1>3. AtWork(j) = {w} /\ \A i \in JobIds \ {j} : w \notin AtWork(i)
  BY <1>2, AtWorkAlone DEF AtWork
<1>4. AtWork(j)' = {} /\ \A i \in JobIds \ {j} : AtWork(i)' = AtWork(i)
  BY <1>1, <1>3 DEF AtWork
<1>5. HolderIs' = [HolderIs EXCEPT ![j] = {}] /\ HolderIs[j] # {}
  BY <1>2, <1>3, <1>4 DEF HolderIs
<1>6. StateIs' = StateIs
  BY DEF StateIs, Where
<1> QED
  BY <1>2, <1>5, <1>6, Ends

LEMMA MapAttempt ==
  ASSUME NEW w \in Workers, LeaseInv,
         \/ AttemptStart(w) \/ RenewSend(w) \/ RenewExecute(w) \/ RenewConfirmed(w)
         \/ RenewError(w) \/ DropAttempt(w)
  PROVE  [Contract!Next]_(Contract!vars)
<1>0. TypeInv /\ wk[w] \in Loop
  BY DEF LeaseInv, TypeInv, TypeOK
<1>1. CASE DropAttempt(w)
  <2>1. /\ wk[w].pc = "run" /\ wk' = [wk EXCEPT ![w] = At("poll")] /\ rows' = rows
        /\ At("poll").pc # "run"
    BY <1>1 DEF DropAttempt, At, FreshLoop
  <2> QED
    BY <2>1, MapEnd
<1>2. CASE RenewSend(w) \/ RenewExecute(w) \/ RenewConfirmed(w) \/ RenewError(w)
  <2>1. wk[w].pc = "run" /\ \E l : wk' = [wk EXCEPT ![w] = l] /\ l.pc = "run" /\ l.job = wk[w].job
    <3>1. CASE RenewSend(w)
      <4> DEFINE l == [wk[w] EXCEPT !.renew = "sent", !.renewAge = 0]
      <4>1. l.pc = wk[w].pc /\ l.job = wk[w].job
        BY <1>0 DEF Loop
      <4>2. wk[w].pc = "run" /\ wk' = [wk EXCEPT ![w] = l]
        BY <3>1 DEF RenewSend
      <4> HIDE DEF l
      <4> QED
        BY <4>1, <4>2
    <3>2. CASE RenewExecute(w)
      <4> DEFINE l(r) == [wk[w] EXCEPT !.renew = r]
      <4>1. \A r : l(r).pc = wk[w].pc /\ l(r).job = wk[w].job
        BY <1>0 DEF Loop
      <4>2. wk[w].pc = "run" /\ \E r : wk' = [wk EXCEPT ![w] = l(r)]
        BY <3>2 DEF RenewExecute
      <4> HIDE DEF l
      <4> QED
        BY <4>1, <4>2
    <3>3. CASE RenewConfirmed(w)
      <4> DEFINE l == [wk[w] EXCEPT !.renew = "none", !.renewAge = 0,
                                  !.giveUp = 2 * Renewal - wk[w].renewAge,
                                  !.wake = Lesser(2 * Renewal - wk[w].renewAge, Renewal)]
      <4>1. l.pc = wk[w].pc /\ l.job = wk[w].job
        BY <1>0 DEF Loop
      <4>2. wk[w].pc = "run" /\ wk' = [wk EXCEPT ![w] = l]
        BY <3>3 DEF RenewConfirmed
      <4> HIDE DEF l
      <4> QED
        BY <4>1, <4>2
    <3>4. CASE RenewError(w)
      <4> DEFINE l == [wk[w] EXCEPT !.renew = "none", !.renewAge = 0,
                                  !.wake = Lesser(wk[w].giveUp, Renewal)]
      <4>1. l.pc = wk[w].pc /\ l.job = wk[w].job
        BY <1>0 DEF Loop
      <4>2. wk[w].pc = "run" /\ wk' = [wk EXCEPT ![w] = l]
        BY <3>4 DEF RenewError
      <4> HIDE DEF l
      <4> QED
        BY <4>1, <4>2
    <3> QED
      BY <1>2, <3>1, <3>2, <3>3, <3>4
  <2>2. HolderIs' = HolderIs
    BY <1>0, <2>1, OneMoves
  <2>3. ~ClaimSweep(w) /\ ~Acknowledge(w) /\ Worker(w)
    BY <1>2, <2>1 DEF ClaimSweep, Acknowledge, Worker
  <2> QED
    BY <1>0, <2>2, <2>3, KeepsWaiting, StateStays, Stutters
<1> QED
  BY <1>1, <1>2, MapStart

\* An acknowledgement settles a job that nobody is at, or leaves it waiting.
LEMMA MapAcknowledge ==
  ASSUME NEW w \in Workers, LeaseInv, Acknowledge(w)
  PROVE  [Contract!Next]_(Contract!vars)
<1> DEFINE j == wk[w].job
<1>0. TypeInv /\ rows \in [JobIds -> Row] /\ wk[w].pc = "ack" /\ Carries(w)
  BY DEF LeaseInv, TypeInv, TypeOK, Acknowledge, Carries
<1>1. HolderIs' = HolderIs
  <2>1. wk' = [wk EXCEPT ![w] = At("poll")] /\ At("poll").pc = "poll"
    BY DEF Acknowledge, At, FreshLoop
  <2> QED
    BY <1>0, <2>1, OneMoves
<1>2. CASE ~Holds(w)
  BY <1>1, <1>2, UnchangedStays, StateStays, Stutters DEF Acknowledge
<1>3. CASE Holds(w)
  <2>1. j \in JobIds /\ rows[j].status = "running" /\ rows[j].token = wk[w].token
    BY <1>3 DEF Holds
  <2>2. AtWork(j) = {}
    <3> SUFFICES ASSUME NEW u \in AtWork(j) PROVE FALSE
      OBVIOUS
    <3>1. u \in Workers /\ u # w /\ Trusts(u) /\ wk[u].token = wk[w].token
      BY <1>0, <2>1, AtWorkAlone DEF AtWork
    <3> QED
      BY <1>0, <3>1 DEF LeaseInv, TokensDiffer
  <2>3. rows'[j].status \in {"pending", "completed", "failed"}
    BY <1>0, <1>3, <2>1, AcknowledgeMoves DEF Ended
  <2>4. \A i \in JobIds \ {j} : rows'[i] = rows[i]
    BY <1>0, <1>3, AcknowledgeMoves
  <2> HIDE DEF j
  <2>5. StateIs[j] = "waiting" /\ HolderIs[j] = {}
    BY <2>1, <2>2 DEF StateIs, HolderIs, Where
  <2>6. CASE rows'[j].status = "pending"
    <3>1. \A i \in JobIds : Where(i)' = Where(i)
      BY <2>1, <2>4, <2>6 DEF Where
    <3>2. StateIs' = StateIs
      BY <3>1 DEF StateIs
    <3> QED
      BY <1>1, <3>2, Stutters
  <2>7. ASSUME NEW final \in {"completed", "failed"}, rows'[j].status = final
        PROVE  Contract!Next
    <3>1. \A i \in JobIds : Where(i)' = IF i \in {j} THEN final ELSE StateIs[i]
      BY <2>4, <2>7 DEF Where, StateIs
    <3>2. StateIs' = [i \in JobIds |-> IF i \in {j} THEN final ELSE StateIs[i]]
      BY <3>1 DEF StateIs
    <3>3. {j} \in SUBSET JobIds /\ \A i \in {j} : StateIs[i] = "waiting" /\ HolderIs[i] = {}
      BY <2>1, <2>5
    <3> QED
      BY <1>1, <3>2, <3>3, Settles
  <2> QED
    BY <2>3, <2>6, <2>7
<1> QED
  BY <1>2, <1>3

LEMMA MapOutcome ==
  ASSUME NEW w \in Workers, LeaseInv,
         \/ HandlerOk(w) \/ HandlerFails(w) \/ HandlerTimesOut(w)
         \/ AcknowledgeError(w) \/ Crash(w) \/ Restart(w)
  PROVE  [Contract!Next]_(Contract!vars)
<1>0. TypeInv /\ wk[w] \in Loop
  BY DEF LeaseInv, TypeInv, TypeOK
<1>1. rows' = rows /\ StateIs' = StateIs
  BY DEF HandlerOk, HandlerFails, HandlerTimesOut, HandlerEnds, AcknowledgeError, Crash, Restart,
         StateIs, Where
<1>2. PICK l : wk' = [wk EXCEPT ![w] = l] /\ l.pc # "run"
  <2>1. ASSUME NEW o, NEW d, HandlerEnds(w, o, d)
        PROVE  \E l : wk' = [wk EXCEPT ![w] = l] /\ l.pc # "run"
    <3> DEFINE l == [wk[w] EXCEPT !.pc = "ack", !.outcome = o, !.retry = d, !.renew = "none",
                                  !.renewAge = 0, !.giveUp = 0, !.wake = 0, !.timeout = 0]
    <3>1. l.pc = "ack"
      BY <1>0 DEF Loop
    <3>2. wk' = [wk EXCEPT ![w] = l]
      BY <2>1 DEF HandlerEnds
    <3> QED
      BY <3>1, <3>2
  <2>2. \A place \in Phase : At(place).pc = place
    BY AtType
  <2>3. CASE AcknowledgeError(w) \/ Crash(w) \/ Restart(w)
    BY <2>2, <2>3, LoopValues DEF AcknowledgeError, Crash, Restart
  <2> QED
    BY <2>1, <2>3 DEF HandlerOk, HandlerFails, HandlerTimesOut
<1>3. CASE wk[w].pc = "run"
  BY <1>1, <1>2, <1>3, MapEnd
<1>4. CASE wk[w].pc # "run"
  BY <1>0, <1>1, <1>2, <1>4, OneMoves, Stutters
<1> QED
  BY <1>3, <1>4

LEMMA MapStep == LeaseInv /\ [Next]_vars => [Contract!Next]_(Contract!vars)
<1>1. ASSUME LeaseInv, NEW w \in Workers, Worker(w) PROVE [Contract!Next]_(Contract!vars)
  BY <1>1, MapClaim, MapAttempt, MapAcknowledge, MapOutcome DEF Worker
<1>2. CASE UNCHANGED vars
  BY <1>2, Stutters DEF vars, StateIs, HolderIs, Where, AtWork
<1> QED
  BY <1>1, <1>2, MapHost, MapRest DEF Next

\* The worker's traffic with the table implements the contract of JobContract: a
\* job is at most one worker's at a time, is settled while nobody is at it and
\* never worked on again, if the answer to a claim never takes longer than the
\* lease without the two silent periods of keep_lease.
THEOREM Refinement ==
  ASSUME ReplyInTime
  PROVE  Spec => ImplementsContract
<1>1. LeaseInv /\ [Next]_vars => LeaseInv'
  BY LeaseStep
<1> QED
  BY <1>1, LeaseInit, MapInit, MapStep, PTL DEF Spec, ImplementsContract, Contract!Spec

=============================================================================
