-------------------------------- MODULE Jobs --------------------------------
(***************************************************************************)
(* oxidt-jobs: the durable, at-least-once queue kept in the Postgres table  *)
(* background_jobs, and the worker loops that claim, renew and acknowledge   *)
(* jobs.  Every SQL statement is one atomic step; between the statements of  *)
(* a worker any other worker, the host, and time may move.                   *)
(*                                                                           *)
(* Time is a common Tick over countdown timers: run_at, lease_until and the  *)
(* worker's deadlines are kept as "time left", so no absolute clock grows.   *)
(* One tick is the unit in which Lease, Renewal and the other durations are  *)
(* given.                                                                    *)
(***************************************************************************)
EXTENDS Integers, FiniteSets

CONSTANTS
    JobIds,          \* ids of rows that may be inserted
    Workers,         \* worker loops
    Keys,            \* dedupe keys
    NoKey,           \* an enqueue without a dedupe key
    NoJob,           \* the job of a worker that holds none
    Priorities,      \* priorities used by enqueue
    RunDelays,       \* how far in the future enqueue may put run_at
    RetryAfters,     \* delays a handler asks for; 0 stands for JobFailure::Safe
    Backoff,         \* delay after the given number of attempts
    MaxAttempts,     \* column max_attempts
    Lease,           \* LEASE_SECS
    Renewal,         \* LEASE_RENEWAL
    ReplyDelay,      \* longest time between the claim and its answer
    AttemptTimeout,  \* Handler::attempt_timeout
    PruneAge,        \* the age the host passes to prune
    FailedWindow,    \* the 24 hours of failed_24h
    Horizon,         \* run_at further in the past than this is not told apart
    MaxCrashes       \* bound: worker crashes

ASSUME ConstantsAssumption ==
    /\ NoKey \notin Keys
    /\ NoJob \notin JobIds
    /\ Priorities \subseteq Int
    /\ RunDelays \subseteq Nat
    /\ RetryAfters \subseteq Nat
    /\ MaxAttempts \in Nat \ {0}
    /\ Backoff \in [1 .. MaxAttempts -> Nat]
    /\ Lease \in Nat \ {0}
    /\ Renewal \in Nat \ {0}
    /\ ReplyDelay \in Nat
    /\ AttemptTimeout \in Nat
    /\ PruneAge \in Nat
    /\ FailedWindow \in Nat \ {0}
    /\ Horizon \in Nat
    /\ MaxCrashes \in Nat

VARIABLES
    rows,     \* the table: one record per id
    wk,       \* the state of each worker loop
    late,     \* tokens of renewals still on the wire after their sender gave up
    minted,   \* lease tokens handed out so far; the next one is fresh
    signal,   \* the watch channel of spawn: "none", "stop" (true sent), "dropped"
    crashes   \* worker crashes so far

vars == <<rows, wk, late, minted, signal, crashes>>

-----------------------------------------------------------------------------
(* Rows and worker states.                                                   *)

NoToken == 0
Expired == -1            \* lease_until < NOW()

Status == {"absent", "pending", "running", "completed", "failed", "pruned"}

\* "reply": the claim committed, its answer is on the way.  "run": the handler
\* future is being polled.  "ack": the handler is over, its outcome unrecorded.
Phase == {"poll", "sweep", "take", "reply", "run", "ack", "idle", "stopped", "down"}

\* State of the renewal inside keep_lease: none under way, sent but not yet
\* executed, executed and confirmed, executed without finding the lease.
RenewState == {"none", "sent", "kept", "lost"}

Lesser(a, b)  == IF a <= b THEN a ELSE b
Greater(a, b) == IF a >= b THEN a ELSE b

\* The longest time since a row's end that prune or stats tells apart.
AgeLimit == Greater(PruneAge, FailedWindow) + 1

\* age is the time since finished_at, or since lease_until while the row is
\* still running.
Row == [status    : Status,
        attempts  : 0 .. MaxAttempts,
        runIn     : Int,
        leaseLeft : Expired .. Lease,
        token     : Nat,
        key       : Keys \cup {NoKey},
        priority  : Int,
        age       : 0 .. AgeLimit]

Loop == [pc       : Phase,
         job      : JobIds \cup {NoJob},
         token    : Nat,
         attempts : 0 .. MaxAttempts,
         replyIn  : 0 .. ReplyDelay,
         giveUp   : 0 .. 2 * Renewal,
         wake     : 0 .. Renewal,
         timeout  : 0 .. AttemptTimeout,
         renew    : RenewState,
         renewAge : 0 .. 2 * Renewal,
         outcome  : {"ok", "failed"},
         retry    : RetryAfters \cup {0}]

AbsentRow == [status |-> "absent", attempts |-> 0, runIn |-> 0, leaseLeft |-> 0,
              token |-> NoToken, key |-> NoKey, priority |-> 0, age |-> 0]

FreshLoop == [pc |-> "poll", job |-> NoJob, token |-> NoToken, attempts |-> 0,
              replyIn |-> 0, giveUp |-> 0, wake |-> 0, timeout |-> 0,
              renew |-> "none", renewAge |-> 0, outcome |-> "ok", retry |-> 0]

\* A loop that holds nothing, at the given place.
At(place) == [FreshLoop EXCEPT !.pc = place]

\* Mutant of Exhausted: one attempt too many.
ExhaustedOneLater(j) == rows[j].attempts > MaxAttempts

Lapsed(j)    == rows[j].status = "running" /\ rows[j].leaseLeft = Expired
Exhausted(j) == rows[j].attempts >= MaxAttempts

\* Mutant of Holds: any live lease will do, whoever holds it.
HoldsAnyLease(w) == wk[w].job \in JobIds /\ rows[wk[w].job].status = "running"

\* The lease in the table is the one worker w was given.
Holds(w) == /\ wk[w].job \in JobIds
            /\ rows[wk[w].job].status = "running"
            /\ rows[wk[w].job].token = wk[w].token

-----------------------------------------------------------------------------
(* The host: enqueue, prune and the stop signal.                             *)

\* INSERT ... ON CONFLICT (dedupe_key) DO NOTHING: a key held by any row left
\* in the table makes this a no-op.
KeyTaken(k) == /\ k # NoKey
               /\ \E j \in JobIds : /\ rows[j].status \notin {"absent", "pruned"}
                                    /\ rows[j].key = k

Enqueue(j, k, p, d) ==
    /\ rows[j].status = "absent"
    /\ ~KeyTaken(k)
    /\ rows' = [rows EXCEPT ![j] = [AbsentRow EXCEPT !.status = "pending", !.key = k,
                                                     !.priority = p, !.runIn = d]]
    /\ UNCHANGED <<wk, late, minted, signal, crashes>>

Prunable(j) == rows[j].status = "completed" /\ rows[j].age > PruneAge

Prune ==
    /\ \E j \in JobIds : Prunable(j)
    /\ rows' = [j \in JobIds |->
                  IF Prunable(j) THEN [rows[j] EXCEPT !.status = "pruned"] ELSE rows[j]]
    /\ UNCHANGED <<wk, late, minted, signal, crashes>>

\* true sent on the sender of spawn, or the sender dropped by the host.
Stop(how) ==
    /\ signal = "none"
    /\ signal' = how
    /\ UNCHANGED <<rows, wk, late, minted, crashes>>

-----------------------------------------------------------------------------
(* The worker loop up to a claimed job.                                      *)

\* Mutant of LoopHead: the signal is only looked at between polls.
LoopHeadBlind(w) ==
    /\ wk[w].pc = "poll"
    /\ wk' = [wk EXCEPT ![w] = At("sweep")]
    /\ UNCHANGED <<rows, late, minted, signal, crashes>>

\* Only a sent true ends the loop here; a dropped sender does not.
LoopHead(w) ==
    /\ wk[w].pc = "poll"
    /\ wk' = [wk EXCEPT ![w] = At(IF signal = "stop" THEN "stopped" ELSE "sweep")]
    /\ UNCHANGED <<rows, late, minted, signal, crashes>>

\* Mutant of ClaimSweep: a last attempt is failed without waiting for its lease.
ClaimSweepEager(w) ==
    /\ wk[w].pc = "sweep"
    /\ rows' = [j \in JobIds |->
                  IF rows[j].status = "running" /\ Exhausted(j)
                  THEN [rows[j] EXCEPT !.status = "failed", !.token = NoToken, !.leaseLeft = 0]
                  ELSE rows[j]]
    /\ wk' = [wk EXCEPT ![w] = At("take")]
    /\ UNCHANGED <<late, minted, signal, crashes>>

\* Mutant of ClaimSweep: the job counts as failed from the sweep on.
ClaimSweepNow(w) ==
    /\ wk[w].pc = "sweep"
    /\ rows' = [j \in JobIds |->
                  IF Lapsed(j) /\ Exhausted(j)
                  THEN [rows[j] EXCEPT !.status = "failed", !.token = NoToken, !.leaseLeft = 0,
                                       !.age = 0]
                  ELSE rows[j]]
    /\ wk' = [wk EXCEPT ![w] = At("take")]
    /\ UNCHANGED <<late, minted, signal, crashes>>

\* The first statement of claim: out of attempts and lease lapsed is failed.
\* It failed when the lease ended (finished_at = lease_until), so its age stays.
ClaimSweep(w) ==
    /\ wk[w].pc = "sweep"
    /\ rows' = [j \in JobIds |->
                  IF Lapsed(j) /\ Exhausted(j)
                  THEN [rows[j] EXCEPT !.status = "failed", !.token = NoToken, !.leaseLeft = 0]
                  ELSE rows[j]]
    /\ wk' = [wk EXCEPT ![w] = At("take")]
    /\ UNCHANGED <<late, minted, signal, crashes>>

\* Mutant of Claimable: a lapsed lease is not taken over.
ClaimablePending == {j \in JobIds : /\ ~Exhausted(j)
                                    /\ rows[j].status = "pending" /\ rows[j].runIn <= 0}

Claimable == {j \in JobIds : /\ ~Exhausted(j)
                             /\ \/ rows[j].status = "pending" /\ rows[j].runIn <= 0
                                \/ Lapsed(j)}

\* ORDER BY priority DESC, run_at; created_at breaks the ties left.
Before(i, j) == \/ rows[i].priority > rows[j].priority
                \/ /\ rows[i].priority = rows[j].priority
                   /\ rows[i].runIn < rows[j].runIn

\* The row and the worker after a claim with token t.
Claimed(row, t) == [row EXCEPT !.status = "running", !.attempts = @ + 1,
                               !.leaseLeft = Lease, !.token = t, !.age = 0]

Claimant(j, t, n) == [At("reply") EXCEPT !.job = j, !.token = t, !.attempts = n,
                                         !.replyIn = ReplyDelay]

\* The second statement of claim.  The lease runs from the commit; the worker
\* learns of it up to ReplyDelay later.
ClaimTake(w) ==
    /\ wk[w].pc = "take"
    /\ \E j \in Claimable :
         /\ \A i \in Claimable : ~Before(i, j)
         /\ rows' = [rows EXCEPT ![j] = Claimed(rows[j], minted + 1)]
         /\ wk' = [wk EXCEPT ![w] = Claimant(j, minted + 1, rows[j].attempts + 1)]
    /\ minted' = minted + 1
    /\ UNCHANGED <<late, signal, crashes>>

ClaimNone(w) ==
    /\ wk[w].pc = "take"
    /\ Claimable = {}
    /\ wk' = [wk EXCEPT ![w] = At("idle")]
    /\ UNCHANGED <<rows, late, minted, signal, crashes>>

\* Either statement may fail, and the answer to a committed claim may be lost.
ClaimError(w) ==
    /\ wk[w].pc \in {"sweep", "take", "reply"}
    /\ wk' = [wk EXCEPT ![w] = At("idle")]
    /\ UNCHANGED <<rows, late, minted, signal, crashes>>

\* The select between polls: any change of the channel ends the loop, a
\* dropped sender included.
IdleStop(w) ==
    /\ wk[w].pc = "idle"
    /\ signal # "none"
    /\ wk' = [wk EXCEPT ![w] = At("stopped")]
    /\ UNCHANGED <<rows, late, minted, signal, crashes>>

IdleWake(w) ==
    /\ wk[w].pc = "idle"
    /\ wk' = [wk EXCEPT ![w] = At("poll")]
    /\ UNCHANGED <<rows, late, minted, signal, crashes>>

-----------------------------------------------------------------------------
(* One attempt: the handler raced against keep_lease.                        *)

\* Mutant of AttemptStart: the attempt trusts its lease to the end.
AttemptStartFullLease(w) ==
    /\ wk[w].pc = "reply"
    /\ wk' = [wk EXCEPT ![w] = [@ EXCEPT !.pc = "run", !.replyIn = 0,
                                         !.giveUp = Lease, !.wake = Renewal,
                                         !.timeout = AttemptTimeout]]
    /\ UNCHANGED <<rows, late, minted, signal, crashes>>

\* give_up_at counts from here, not from the claim.
AttemptStart(w) ==
    /\ wk[w].pc = "reply"
    /\ wk' = [wk EXCEPT ![w] = [@ EXCEPT !.pc = "run", !.replyIn = 0,
                                         !.giveUp = 2 * Renewal, !.wake = Renewal,
                                         !.timeout = AttemptTimeout]]
    /\ UNCHANGED <<rows, late, minted, signal, crashes>>

\* A renewal dropped before the server ran it may still reach the server.
MayArriveLate(w) ==
    IF wk[w].renew = "sent"
    THEN late' \in {late, late \cup {wk[w].token}}
    ELSE late' = late

RenewSend(w) ==
    /\ wk[w].pc = "run"
    /\ wk[w].renew = "none"
    /\ wk[w].wake = 0
    /\ wk[w].giveUp > 0
    /\ wk' = [wk EXCEPT ![w] = [@ EXCEPT !.renew = "sent", !.renewAge = 0]]
    /\ UNCHANGED <<rows, late, minted, signal, crashes>>

\* The row after a renewal: it ends later than it did, lapsed or not.
Renewed(row) == [row EXCEPT !.leaseLeft = Lease, !.age = 0]

\* The UPDATE of renew.
RenewExecute(w) ==
    /\ wk[w].pc = "run"
    /\ wk[w].renew = "sent"
    /\ IF Holds(w)
       THEN /\ rows' = [rows EXCEPT ![wk[w].job] = Renewed(@)]
            /\ wk' = [wk EXCEPT ![w] = [@ EXCEPT !.renew = "kept"]]
       ELSE /\ rows' = rows
            /\ wk' = [wk EXCEPT ![w] = [@ EXCEPT !.renew = "lost"]]
    /\ UNCHANGED <<late, minted, signal, crashes>>

\* A confirmed renewal moves give_up_at to two periods after it was started.
RenewConfirmed(w) ==
    /\ wk[w].pc = "run"
    /\ wk[w].renew = "kept"
    /\ LET left == 2 * Renewal - wk[w].renewAge
       IN  wk' = [wk EXCEPT ![w] = [@ EXCEPT !.renew = "none", !.renewAge = 0,
                                             !.giveUp = left,
                                             !.wake = Lesser(left, Renewal)]]
    /\ UNCHANGED <<rows, late, minted, signal, crashes>>

\* Mutant of RenewError: an error answer moves give_up_at as a confirmation does.
RenewErrorConfirms(w) ==
    /\ wk[w].pc = "run"
    /\ wk[w].renew # "none"
    /\ MayArriveLate(w)
    /\ wk' = [wk EXCEPT ![w] = [@ EXCEPT !.renew = "none", !.renewAge = 0,
                                         !.giveUp = 2 * Renewal - wk[w].renewAge,
                                         !.wake = Renewal]]
    /\ UNCHANGED <<rows, minted, signal, crashes>>

\* An error answer keeps the old give_up_at and tries again a period later.
RenewError(w) ==
    /\ wk[w].pc = "run"
    /\ wk[w].renew # "none"
    /\ MayArriveLate(w)
    /\ wk' = [wk EXCEPT ![w] = [@ EXCEPT !.renew = "none", !.renewAge = 0,
                                         !.wake = Lesser(wk[w].giveUp, Renewal)]]
    /\ UNCHANGED <<rows, minted, signal, crashes>>

\* keep_lease ends the select: the lease is not ours, or not confirmed in time.
DropAttempt(w) ==
    /\ wk[w].pc = "run"
    /\ wk[w].renew = "lost" \/ wk[w].giveUp = 0
    /\ MayArriveLate(w)
    /\ wk' = [wk EXCEPT ![w] = At("poll")]
    /\ UNCHANGED <<rows, minted, signal, crashes>>

\* The handler returns, fails or panics.
HandlerEnds(w, outcome, retry) ==
    /\ wk[w].pc = "run"
    /\ MayArriveLate(w)
    /\ wk' = [wk EXCEPT ![w] = [@ EXCEPT !.pc = "ack", !.outcome = outcome, !.retry = retry,
                                         !.renew = "none", !.renewAge = 0, !.giveUp = 0,
                                         !.wake = 0, !.timeout = 0]]
    /\ UNCHANGED <<rows, minted, signal, crashes>>

HandlerOk(w)     == HandlerEnds(w, "ok", 0)
HandlerFails(w)  == \E r \in RetryAfters : HandlerEnds(w, "failed", r)
HandlerTimesOut(w) == wk[w].timeout = 0 /\ HandlerEnds(w, "failed", 0)

\* A delayed renewal reaches the server after its worker moved on.
LateRenew(t) ==
    /\ t \in late
    /\ late' = late \ {t}
    /\ rows' = [j \in JobIds |->
                  IF rows[j].status = "running" /\ rows[j].token = t
                  THEN Renewed(rows[j])
                  ELSE rows[j]]
    /\ UNCHANGED <<wk, minted, signal, crashes>>

LateLost(t) ==
    /\ t \in late
    /\ late' = late \ {t}
    /\ UNCHANGED <<rows, wk, minted, signal, crashes>>

-----------------------------------------------------------------------------
(* The acknowledgement.                                                      *)

Completed(row) == [row EXCEPT !.status = "completed", !.leaseLeft = 0, !.token = NoToken,
                              !.age = 0]

NotCompleted(row, retry) ==
    IF row.attempts >= MaxAttempts
    THEN [row EXCEPT !.status = "failed", !.leaseLeft = 0, !.token = NoToken, !.age = 0]
    ELSE [row EXCEPT !.status = "pending", !.leaseLeft = 0, !.token = NoToken, !.age = 0,
                     !.runIn = Greater(retry, Backoff[row.attempts])]

\* Mutant of Acknowledge: no fence.
AcknowledgeUnfenced(w) ==
    /\ wk[w].pc = "ack"
    /\ rows' = [rows EXCEPT ![wk[w].job] = IF wk[w].outcome = "ok"
                                           THEN Completed(@)
                                           ELSE NotCompleted(@, wk[w].retry)]
    /\ wk' = [wk EXCEPT ![w] = At("poll")]
    /\ UNCHANGED <<late, minted, signal, crashes>>

\* The UPDATE of acknowledge, fenced by the lease token.
Acknowledge(w) ==
    /\ wk[w].pc = "ack"
    /\ rows' = IF Holds(w)
               THEN [rows EXCEPT ![wk[w].job] = IF wk[w].outcome = "ok"
                                                THEN Completed(@)
                                                ELSE NotCompleted(@, wk[w].retry)]
               ELSE rows
    /\ wk' = [wk EXCEPT ![w] = At("poll")]
    /\ UNCHANGED <<late, minted, signal, crashes>>

\* The statement never reached the server: the job stays running until its
\* lease lapses.
AcknowledgeError(w) ==
    /\ wk[w].pc = "ack"
    /\ wk' = [wk EXCEPT ![w] = At("poll")]
    /\ UNCHANGED <<rows, late, minted, signal, crashes>>

-----------------------------------------------------------------------------
(* Crashes and time.                                                         *)

Crash(w) ==
    /\ crashes < MaxCrashes
    /\ wk[w].pc \notin {"down", "stopped"}
    /\ MayArriveLate(w)
    /\ wk' = [wk EXCEPT ![w] = At("down")]
    /\ crashes' = crashes + 1
    /\ UNCHANGED <<rows, minted, signal>>

Restart(w) ==
    /\ wk[w].pc = "down"
    /\ signal = "none"
    /\ wk' = [wk EXCEPT ![w] = At("poll")]
    /\ UNCHANGED <<rows, late, minted, signal, crashes>>

\* A timer that has run out fires before time moves on.
Due(w) == \/ wk[w].pc = "reply" /\ wk[w].replyIn = 0
          \/ /\ wk[w].pc = "run"
             /\ \/ wk[w].giveUp = 0
                \/ wk[w].timeout = 0
                \/ wk[w].renew = "none" /\ wk[w].wake = 0

CountDown(n, running) == IF running THEN n - 1 ELSE n

\* The row has ended, or its lease has.
Ageing(row) == \/ row.status \in {"completed", "failed"}
               \/ row.status = "running" /\ row.leaseLeft <= 0

RowTick(row) ==
    [row EXCEPT
       !.runIn = CountDown(@, row.status \in {"pending", "running"} /\ @ > -Horizon),
       !.leaseLeft = CountDown(@, row.status = "running" /\ @ > Expired),
       !.age = IF Ageing(row) /\ @ < AgeLimit THEN @ + 1 ELSE @]

LoopTick(l) ==
    [l EXCEPT
       !.replyIn = CountDown(@, l.pc = "reply"),
       !.giveUp = CountDown(@, l.pc = "run"),
       !.timeout = CountDown(@, l.pc = "run"),
       !.wake = CountDown(@, l.pc = "run" /\ l.renew = "none"),
       !.renewAge = IF l.renew # "none" THEN @ + 1 ELSE @]

Tick ==
    /\ \A w \in Workers : ~Due(w)
    /\ rows' = [j \in JobIds |-> RowTick(rows[j])]
    /\ wk' = [w \in Workers |-> LoopTick(wk[w])]
    /\ UNCHANGED <<late, minted, signal, crashes>>

-----------------------------------------------------------------------------

Init ==
    /\ rows = [j \in JobIds |-> AbsentRow]
    /\ wk = [w \in Workers |-> FreshLoop]
    /\ late = {}
    /\ minted = 0
    /\ signal = "none"
    /\ crashes = 0

Host == \/ \E j \in JobIds, k \in Keys \cup {NoKey}, p \in Priorities, d \in RunDelays :
             Enqueue(j, k, p, d)
        \/ Prune
        \/ Stop("stop")
        \/ Stop("dropped")

Worker(w) == \/ LoopHead(w) \/ ClaimSweep(w) \/ ClaimTake(w) \/ ClaimNone(w) \/ ClaimError(w)
             \/ IdleStop(w) \/ IdleWake(w)
             \/ AttemptStart(w)
             \/ RenewSend(w) \/ RenewExecute(w) \/ RenewConfirmed(w) \/ RenewError(w)
             \/ DropAttempt(w) \/ HandlerOk(w) \/ HandlerFails(w) \/ HandlerTimesOut(w)
             \/ Acknowledge(w) \/ AcknowledgeError(w)
             \/ Crash(w) \/ Restart(w)

Next == \/ Host
        \/ \E w \in Workers : Worker(w)
        \/ \E t \in late : LateRenew(t) \/ LateLost(t)
        \/ Tick

Spec == Init /\ [][Next]_vars

\* The clock runs, statements on the wire are answered, an idle loop wakes and
\* a crashed process is restarted.  The database may refuse a statement any
\* number of times but not for ever: the claim and the acknowledgement get
\* strong fairness.
Fairness ==
    /\ WF_vars(Tick)
    /\ \A w \in Workers :
         /\ WF_vars(LoopHead(w)) /\ WF_vars(IdleStop(w)) /\ WF_vars(IdleWake(w))
         /\ WF_vars(Restart(w))
         /\ SF_vars(ClaimSweep(w)) /\ SF_vars(ClaimTake(w)) /\ WF_vars(ClaimNone(w))
         /\ WF_vars(AttemptStart(w))
         /\ WF_vars(DropAttempt(w)) /\ WF_vars(HandlerTimesOut(w))
         /\ WF_vars(RenewSend(w)) /\ WF_vars(RenewExecute(w)) /\ WF_vars(RenewConfirmed(w))
         /\ WF_vars(Acknowledge(w))

FairSpec == Spec /\ Fairness

-----------------------------------------------------------------------------
(* What stats reports.                                                       *)

\* Mutant of StatsDue: a lapsed last attempt still counts as due.
StatsDueExhausted == {j \in JobIds : \/ rows[j].status = "pending" /\ rows[j].runIn <= 0
                                     \/ Lapsed(j)}

StatsDue       == {j \in JobIds : \/ rows[j].status = "pending" /\ rows[j].runIn <= 0
                                  \/ Lapsed(j) /\ ~Exhausted(j)}
StatsScheduled == {j \in JobIds : rows[j].status = "pending"} \ StatsDue
StatsRunning   == {j \in JobIds : rows[j].status = "running" /\ ~Lapsed(j)}
\* Failed, or dead on its last attempt with no worker to mark it failed yet.
GivenUp(j) == rows[j].status = "failed" \/ (Lapsed(j) /\ Exhausted(j))

\* finished_at, or lease_until, lies within the window.
StatsFailed == {j \in JobIds : GivenUp(j) /\ rows[j].age < FailedWindow}

-----------------------------------------------------------------------------
(* Properties.                                                               *)

\* Every row and every worker loop stays in its type.
TypeOK ==
    /\ rows \in [JobIds -> Row]
    /\ wk \in [Workers -> Loop]
    /\ late \subseteq Nat
    /\ minted \in Nat
    /\ signal \in {"none", "stop", "dropped"}
    /\ crashes \in Nat

\* Two workers never run the same job at the same time: the attempt that lost
\* touch with the database is dropped before its lease can be claimed again.
\* This is what keep_lease in attempt is for.
NoOverlap ==
    \A v, w \in Workers :
        v # w /\ wk[v].pc = "run" /\ wk[w].pc = "run" => wk[v].job # wk[w].job

\* A running attempt still owns the row it was given, and the lease reaches at
\* least to the worker's give_up_at: the local deadline never outlives the
\* lease in the table.
LeaseOutlivesAttempt ==
    \A w \in Workers :
        wk[w].pc = "run" => Holds(w) /\ rows[wk[w].job].leaseLeft >= wk[w].giveUp

\* stats and claim, two queries written apart, agree on what is due; every
\* pending, running or failed job is in exactly one of the counts of stats,
\* save one that failed, or died on its last attempt, longer ago than the
\* window of failed_24h: that one is in none.
StatsAgreeWithClaim ==
    /\ StatsDue = Claimable
    /\ \A j \in JobIds :
         rows[j].status \in {"pending", "running", "failed"} =>
             Cardinality({s \in {"due", "scheduled", "running", "failed"} :
                            j \in CASE s = "due" -> StatsDue
                                    [] s = "scheduled" -> StatsScheduled
                                    [] s = "running" -> StatsRunning
                                    [] s = "failed" -> StatsFailed})
               = IF GivenUp(j) /\ rows[j].age >= FailedWindow THEN 0 ELSE 1

\* Polling changes no count of stats: that a job died on its last attempt, and
\* when, reads the same before a worker marks it failed and after, so a job
\* dead for longer than the window does not come back as a fresh failure.
SweepKeepsStats ==
    [][\A w \in Workers :
         wk[w].pc = "sweep" /\ wk'[w].pc = "take" =>
             /\ StatsDue' = StatsDue /\ StatsScheduled' = StatsScheduled
             /\ StatsRunning' = StatsRunning /\ StatsFailed' = StatsFailed]_vars

\* An acknowledgement changes a row only for the attempt that claimed it last:
\* a worker that came back from a lapsed lease records nothing, whatever its
\* handler returned.
StaleAckRecordsNothing ==
    [][\A w \in Workers :
         wk[w].pc = "ack" /\ wk'[w].pc = "poll" /\ rows' # rows
           => rows[wk[w].job].attempts = wk[w].attempts]_vars

\* A late renewal, an old acknowledgement or another claim never moves a job
\* out of a final status, nor a failed one's end to a later time; only prune
\* removes a completed one, and only after PruneAge.
FinalStaysFinal ==
    [][\A j \in JobIds :
         /\ rows[j].status = "failed" =>
              /\ rows'[j] = [rows[j] EXCEPT !.age = rows'[j].age]
              /\ rows'[j].age >= rows[j].age
         /\ rows[j].status = "completed" /\ rows'[j].status # "completed" =>
              rows'[j].status = "pruned" /\ rows[j].age > PruneAge]_vars

\* A due job is never forgotten: unless the loops are told to stop, every
\* enqueued job ends completed or failed, crashes and refused statements
\* notwithstanding.
EveryJobSettles ==
    \A j \in JobIds :
        rows[j].status = "pending" ~>
            rows[j].status \in {"completed", "failed", "pruned"} \/ signal # "none"

\* The whole of a worker's traffic with the table implements the contract: one
\* worker at a time, settled while nobody works on it, never worked on again.
Contract == INSTANCE JobContract WITH
    state  <- [j \in JobIds |-> IF rows[j].status \in {"pending", "running"}
                                THEN "waiting" ELSE rows[j].status],
    holder <- [j \in JobIds |-> {w \in Workers : wk[w].pc = "run" /\ wk[w].job = j}]

ImplementsContract == Contract!Spec

\* After true is sent every loop ends, a running attempt included, without
\* waiting for the queue to drain.
StopEndsEveryLoop ==
    signal = "stop" ~> \A w \in Workers : wk[w].pc \in {"stopped", "down"}

=============================================================================
