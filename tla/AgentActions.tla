---------------------------- MODULE AgentActions ----------------------------
(***************************************************************************)
(* Durable actions of oxidt-agent: MCP submissions that a human approves    *)
(* once or for a while, and that a worker of oxidt-jobs then runs in the     *)
(* transaction that also records the result.                                 *)
(*                                                                           *)
(* A Postgres transaction is cut into steps where another transaction can    *)
(* come between: after a read that takes no lock, and while a row lock is     *)
(* held.  A step that needs a row lock held by another transaction waits.     *)
(* The queue appears through its statements, without its clock: a lease may   *)
(* lapse whenever it is held, so attempts may overlap.                        *)
(*                                                                           *)
(* There is one user and one capability; a version stands for a definition   *)
(* (schemas, policy, permission), the arguments of a request never change.    *)
(***************************************************************************)
EXTENDS Integers, FiniteSets

CONSTANTS
    Ids,           \* request ids
    Grants,        \* authorization grants of the user's clients
    Versions,      \* definitions of the capability
    Required,      \* the versions with Approval::Required
    Allowing,      \* the versions registered with_allowances
    Allowances,    \* ids of allowance rows
    Submitters, Reviewers, Workers,
    MaxAttempts,   \* max_attempts of a job
    MayForget,     \* whether the host prunes finished action records
    None

ASSUME ConstantsAssumption ==
    /\ Required \subseteq Versions
    /\ Allowing \subseteq Versions
    /\ None \notin Ids \cup Grants \cup Versions \cup Allowances \cup Workers
    /\ MaxAttempts \in Nat \ {0}
    /\ MayForget \in BOOLEAN

VARIABLES
    act,        \* agent_actions
    allowed,    \* agent_allowances
    job,        \* the row of background_jobs under each action's dedupe key
    sub,        \* submissions in progress
    rev,        \* decisions in progress
    wk,         \* workers
    access,     \* the grants that ResolveIdentity still resolves
    deployed,   \* versions served by some replica
    effects,    \* committed handler effects of each record
    decided     \* records the user approved one by one

vars == <<act, allowed, job, sub, rev, wk, access, deployed, effects, decided>>

-----------------------------------------------------------------------------

Terminal == {"completed", "rejected", "expired", "invalidated", "failed"}
ActionStatus == {"absent", "pending", "queued"} \cup Terminal

NoAction == [status |-> "absent", grant |-> None, ver |-> None, reviewed |-> FALSE,
             allowance |-> None, stale |-> FALSE]
NoAllowance == [state |-> "absent", grant |-> None, ver |-> None, stale |-> FALSE]
\* The holder stands for the lease token: a worker is at one attempt at a time.
NoJob == [status |-> "absent", attempts |-> 0, holder |-> None]
NoSubmission == [pc |-> "idle", id |-> None, grant |-> None, ver |-> None, allowance |-> None]
\* "settling": the action's row is locked; "allowed": the allowance's too.
NoDecision == [pc |-> "idle", id |-> None, status |-> "absent", allows |-> FALSE,
               allowance |-> None]
\* "locked": the action's row is locked and read; "handler": the allowance is
\* shared too.  expired is what the attempt read; inTime is a history variable,
\* whether the action was in fact unexpired then.
NoAttempt == [pc |-> "idle", id |-> None, attempt |-> 0, ver |-> None, outcome |-> "ok",
              expired |-> FALSE, inTime |-> FALSE]

\* Mutant of Locked: an attempt reads its row without FOR UPDATE.
LockedByDecisions(id) == \E r \in Reviewers : rev[r].pc # "idle" /\ rev[r].id = id

\* The row lock of an action is held by an attempt from its first statement to
\* its commit, and by a decision.
Locked(id) == \/ \E w \in Workers : wk[w].pc \in {"locked", "handler"} /\ wk[w].id = id
              \/ \E r \in Reviewers : rev[r].pc # "idle" /\ rev[r].id = id

\* Mutant of Shared: the allowance is read without FOR SHARE.
SharedByNobody(a) == FALSE

\* FOR SHARE locks on an allowance, held by the attempts that run under it.
Shared(a) == \E w \in Workers : wk[w].pc = "handler" /\ act[wk[w].id].allowance = a

\* The lock of an upsert on its allowance, held until the decision commits.
Held(a) == \E r \in Reviewers : rev[r].pc = "allowed" /\ rev[r].allowance = a

\* What resolve and visible_to say of a request under version v of the registry.
Current(id, v) == act[id].ver = v /\ act[id].grant \in access

\* oxidt_jobs::enqueue under the dedupe key of the action.
Enqueued(id) ==
    IF job[id].status = "absent"
    THEN [job EXCEPT ![id] = [NoJob EXCEPT !.status = "pending"]]
    ELSE job

-----------------------------------------------------------------------------
(* submit.                                                                   *)

\* The allowance an unlocked read finds for a grant and a definition.
Covering(g, v) == {a \in Allowances : /\ allowed[a].state = "active" /\ ~allowed[a].stale
                                      /\ allowed[a].grant = g /\ allowed[a].ver = v}

SubmitBegin(s, id, g, v) ==
    /\ sub[s].pc = "idle"
    /\ g \in access
    /\ v \in deployed
    /\ \E a \in IF v \in Required \cap Allowing /\ Covering(g, v) # {}
                THEN Covering(g, v) ELSE {None} :
         sub' = [sub EXCEPT ![s] = [pc |-> "insert", id |-> id, grant |-> g, ver |-> v,
                                    allowance |-> a]]
    /\ UNCHANGED <<act, allowed, job, rev, wk, access, deployed, effects, decided>>

\* INSERT ... ON CONFLICT DO NOTHING, enqueue and commit.
SubmitInsert(s) ==
    LET id == sub[s].id
        queue == sub[s].ver \notin Required \/ sub[s].allowance # None
    IN  /\ sub[s].pc = "insert"
        /\ act[id].status = "absent"
        /\ act' = [act EXCEPT ![id] = [status |-> IF queue THEN "queued" ELSE "pending",
                                       grant |-> sub[s].grant, ver |-> sub[s].ver,
                                       reviewed |-> sub[s].allowance # None,
                                       allowance |-> sub[s].allowance, stale |-> FALSE]]
        /\ job' = IF queue THEN Enqueued(id) ELSE job
        /\ effects' = [effects EXCEPT ![id] = 0]
        /\ decided' = decided \ {id}
        /\ sub' = [sub EXCEPT ![s] = NoSubmission]
        /\ UNCHANGED <<allowed, rev, wk, access, deployed>>

\* The id is taken: a receipt for the same request, else Unavailable or
\* Conflict; nothing is written.  SELECT FOR UPDATE waits for the row.
SubmitRepeat(s) ==
    /\ sub[s].pc = "insert"
    /\ act[sub[s].id].status # "absent"
    /\ ~Locked(sub[s].id)
    /\ sub' = [sub EXCEPT ![s] = NoSubmission]
    /\ UNCHANGED <<act, allowed, job, rev, wk, access, deployed, effects, decided>>

\* The connection, the statement or the client goes away: rolled back.
SubmitLost(s) ==
    /\ sub[s].pc = "insert"
    /\ sub' = [sub EXCEPT ![s] = NoSubmission]
    /\ UNCHANGED <<act, allowed, job, rev, wk, access, deployed, effects, decided>>

-----------------------------------------------------------------------------
(* settle: decide and approve_and_allow.                                     *)

Verdict(id, approve, v) ==
    IF act[id].stale THEN "expired"
    ELSE IF ~approve THEN "rejected"
    ELSE IF Current(id, v) THEN "queued" ELSE "invalidated"

\* Locks the row and settles what it will become.  A repeated decision and a
\* conflicting one end here with nothing written, and are no step.
SettleBegin(r, id, approve, allows, v) ==
    /\ rev[r].pc = "idle"
    /\ ~Locked(id)
    /\ act[id].status = "pending"
    /\ v \in deployed
    /\ allows => approve /\ v \in Allowing
    /\ rev' = [rev EXCEPT ![r] = [pc |-> "settling", id |-> id, status |-> Verdict(id, approve, v),
                                  allows |-> allows, allowance |-> None]]
    /\ UNCHANGED <<act, allowed, job, sub, wk, access, deployed, effects, decided>>

\* INSERT ... ON CONFLICT DO UPDATE on the active row of the grant, or a new row.
ActiveOf(g) == {a \in Allowances : allowed[a].state = "active" /\ allowed[a].grant = g}
AllowTargets(g) == IF ActiveOf(g) # {} THEN ActiveOf(g)
                   ELSE {a \in Allowances : allowed[a].state = "absent" /\ ~Held(a)}

\* Another decision has upserted for the grant and not committed yet.
Upserting(g) == \E r \in Reviewers : rev[r].pc = "allowed" /\ act[rev[r].id].grant = g

Allows(r) == rev[r].allows /\ rev[r].status = "queued"

\* The upsert waits for attempts that hold the allowance FOR SHARE and for the
\* upsert of another decision, with the action's row locked meanwhile.
SettleAllow(r) ==
    LET g == act[rev[r].id].grant
    IN  /\ rev[r].pc = "settling"
        /\ Allows(r)
        /\ ~Upserting(g)
        /\ \E a \in AllowTargets(g) :
             /\ ~Shared(a)
             /\ rev' = [rev EXCEPT ![r].pc = "allowed", ![r].allowance = a]
        /\ UNCHANGED <<act, allowed, job, sub, wk, access, deployed, effects, decided>>

SettleWrite(r) ==
    LET id == rev[r].id
        a == rev[r].allowance
    IN  /\ allowed' = IF a = None THEN allowed
                      ELSE [allowed EXCEPT ![a] = [state |-> "active", grant |-> act[id].grant,
                                                   ver |-> act[id].ver, stale |-> FALSE]]
        /\ act' = [act EXCEPT ![id].status = rev[r].status, ![id].reviewed = TRUE,
                              ![id].allowance = a]
        /\ job' = IF rev[r].status = "queued" THEN Enqueued(id) ELSE job
        /\ decided' = IF rev[r].status = "queued" THEN decided \cup {id} ELSE decided
        /\ rev' = [rev EXCEPT ![r] = NoDecision]
        /\ UNCHANGED <<sub, wk, access, deployed, effects>>

\* Mutant of SettleCommit: the decision goes on to the other actions under the
\* allowance it holds, and waits for their rows.
SettleCommitOthers(r) ==
    /\ rev[r].pc = "allowed" \/ (rev[r].pc = "settling" /\ ~Allows(r))
    /\ \A id \in Ids :
         rev[r].allowance # None /\ act[id].allowance = rev[r].allowance => ~Locked(id)
    /\ SettleWrite(r)

SettleCommit(r) ==
    /\ rev[r].pc = "allowed" \/ (rev[r].pc = "settling" /\ ~Allows(r))
    /\ SettleWrite(r)

SettleLost(r) ==
    /\ rev[r].pc # "idle"
    /\ rev' = [rev EXCEPT ![r] = NoDecision]
    /\ UNCHANGED <<act, allowed, job, sub, wk, access, deployed, effects, decided>>

\* The UPDATE waits for every attempt under the allowance, and for an upsert.
\* Bound: one id stays unused, for a later upsert to have one.
RevokeAllowance(a) ==
    /\ allowed[a].state = "active"
    /\ \E b \in Allowances : allowed[b].state = "absent"
    /\ ~Shared(a)
    /\ ~Held(a)
    /\ allowed' = [allowed EXCEPT ![a].state = "revoked"]
    /\ UNCHANGED <<act, job, sub, rev, wk, access, deployed, effects, decided>>

-----------------------------------------------------------------------------
(* execute, from the claim of its job to the acknowledgement.                 *)

\* Mutant of Claim: claims past max_attempts.
ClaimUnbounded(w, id) ==
    /\ wk[w].pc = "idle"
    /\ job[id].status \in {"pending", "running"}
    /\ job' = [job EXCEPT ![id] = [status |-> "running", attempts |-> job[id].attempts + 1,
                                   holder |-> w]]
    /\ wk' = [wk EXCEPT ![w] = [NoAttempt EXCEPT !.pc = "claimed", !.id = id,
                                                 !.attempt = job[id].attempts + 1]]
    /\ UNCHANGED <<act, allowed, sub, rev, access, deployed, effects, decided>>

\* Mutant of Claim: a running job whose lease has lapsed is left where it is.
ClaimPending(w, id) ==
    /\ wk[w].pc = "idle"
    /\ job[id].status = "pending"
    /\ job[id].attempts < MaxAttempts
    /\ job' = [job EXCEPT ![id] = [status |-> "running", attempts |-> job[id].attempts + 1,
                                   holder |-> w]]
    /\ wk' = [wk EXCEPT ![w] = [NoAttempt EXCEPT !.pc = "claimed", !.id = id,
                                                 !.attempt = job[id].attempts + 1]]
    /\ UNCHANGED <<act, allowed, sub, rev, access, deployed, effects, decided>>

\* A pending job, or one whose lease has lapsed.
Claim(w, id) ==
    /\ wk[w].pc = "idle"
    /\ job[id].status \in {"pending", "running"}
    /\ job[id].attempts < MaxAttempts
    /\ job' = [job EXCEPT ![id] = [status |-> "running", attempts |-> job[id].attempts + 1,
                                   holder |-> w]]
    /\ wk' = [wk EXCEPT ![w] = [NoAttempt EXCEPT !.pc = "claimed", !.id = id,
                                                 !.attempt = job[id].attempts + 1]]
    /\ UNCHANGED <<act, allowed, sub, rev, access, deployed, effects, decided>>

\* The sweep of a claim: the lease of the last attempt has lapsed.
Sweep(id) ==
    /\ job[id].status = "running"
    /\ job[id].attempts >= MaxAttempts
    /\ job' = [job EXCEPT ![id].status = "failed", ![id].holder = None]
    /\ UNCHANGED <<act, allowed, sub, rev, wk, access, deployed, effects, decided>>

Ends(w, outcome) == wk' = [wk EXCEPT ![w].pc = "ack", ![w].outcome = outcome]

AllowanceGone(id) == /\ act[id].allowance # None
                     /\ allowed[act[id].allowance].state # "active"

\* The record is gone or already settled: Ok without running the handler.
ExecuteNothing(w) ==
    /\ wk[w].pc = "claimed"
    /\ ~Locked(wk[w].id)
    /\ act[wk[w].id].status # "queued"
    /\ Ends(w, "ok")
    /\ UNCHANGED <<act, allowed, job, sub, rev, access, deployed, effects, decided>>

\* The row as the attempt found it.
LockedRow(w, expired) == wk' = [wk EXCEPT ![w].pc = "locked", ![w].expired = expired,
                                         ![w].inTime = ~act[wk[w].id].stale]

\* Mutant of ExecuteLock: expires_at is not read.
ExecuteLockUnread(w) ==
    /\ wk[w].pc = "claimed"
    /\ ~Locked(wk[w].id)
    /\ act[wk[w].id].status = "queued"
    /\ LockedRow(w, FALSE)
    /\ UNCHANGED <<act, allowed, job, sub, rev, access, deployed, effects, decided>>

\* SELECT ... FOR UPDATE of the action, and whether it has expired.
ExecuteLock(w) ==
    /\ wk[w].pc = "claimed"
    /\ ~Locked(wk[w].id)
    /\ act[wk[w].id].status = "queued"
    /\ LockedRow(w, act[wk[w].id].stale)
    /\ UNCHANGED <<act, allowed, job, sub, rev, access, deployed, effects, decided>>

\* FOR SHARE of the action's allowance, if it has one, waits for an upsert.
MayShare(id) == act[id].allowance = None \/ ~Held(act[id].allowance)

\* Mutant of ExecuteInvalid: neither the row's lock nor its status comes first.
ExecuteInvalidAnyStatus(w, v) ==
    LET id == wk[w].id
    IN  /\ wk[w].pc \in {"claimed", "locked"}
        /\ act[id].status # "absent"
        /\ v \in deployed
        /\ act[id].stale \/ AllowanceGone(id) \/ ~Current(id, v)
        /\ act' = [act EXCEPT ![id].status = IF act[id].stale THEN "expired" ELSE "invalidated"]
        /\ Ends(w, "ok")
        /\ UNCHANGED <<allowed, job, sub, rev, access, deployed, effects, decided>>

\* Expired, revoked, of another definition, or no longer accessible.
ExecuteInvalid(w, v) ==
    LET id == wk[w].id
    IN  /\ wk[w].pc = "locked"
        /\ MayShare(id)
        /\ v \in deployed
        /\ wk[w].expired \/ AllowanceGone(id) \/ ~Current(id, v)
        /\ act' = [act EXCEPT ![id].status = IF wk[w].expired THEN "expired" ELSE "invalidated"]
        /\ Ends(w, "ok")
        /\ UNCHANGED <<allowed, job, sub, rev, access, deployed, effects, decided>>

\* The handler starts, holding the action row and its allowance.
ExecuteBegin(w, v) ==
    LET id == wk[w].id
    IN  /\ wk[w].pc = "locked"
        /\ MayShare(id)
        /\ v \in deployed
        /\ ~wk[w].expired
        /\ ~AllowanceGone(id)
        /\ Current(id, v)
        /\ v \in Required => act[id].reviewed
        /\ wk' = [wk EXCEPT ![w].pc = "handler", ![w].ver = v]
        /\ UNCHANGED <<act, allowed, job, sub, rev, access, deployed, effects, decided>>

Last(w) == wk[w].attempt >= MaxAttempts

\* The commit of the handler's mutations together with the result.
Commit(w, status) ==
    /\ act' = [act EXCEPT ![wk[w].id].status = status]
    /\ effects' = IF status = "completed" THEN [effects EXCEPT ![wk[w].id] = @ + 1] ELSE effects
    /\ UNCHANGED <<allowed, job, sub, rev, access, deployed, decided>>

Completes(w) == /\ wk[w].pc = "handler"
                /\ Commit(w, "completed")
                /\ Ends(w, "ok")

FailsForGood(w) == /\ wk[w].pc = "handler"
                   /\ Commit(w, "failed")
                   /\ Ends(w, "ok")

FailsOnLast(w) == /\ wk[w].pc = "handler"
                  /\ Last(w)
                  /\ Commit(w, "failed")
                  /\ Ends(w, "error")

\* Mutant of RollsBack: the error is swallowed and the job acknowledged.
RollsBackOk(w) ==
    /\ wk[w].pc \in {"claimed", "locked", "handler"}
    /\ Ends(w, "ok")
    /\ UNCHANGED <<act, allowed, job, sub, rev, access, deployed, effects, decided>>

\* A retryable error, a lost connection, a timeout or a panic: all of it rolled
\* back.
RollsBack(w) ==
    /\ wk[w].pc \in {"claimed", "locked", "handler"}
    /\ Ends(w, "error")
    /\ UNCHANGED <<act, allowed, job, sub, rev, access, deployed, effects, decided>>

\* The commit went through but its answer was lost.
CommitUnseen(w, status) ==
    /\ wk[w].pc = "handler"
    /\ status = "failed" => Last(w)
    /\ Commit(w, status)
    /\ Ends(w, "error")

\* A crash, or keep_lease drops the attempt: nothing is acknowledged.
Dropped(w) ==
    /\ wk[w].pc # "idle"
    /\ wk' = [wk EXCEPT ![w] = NoAttempt]
    /\ UNCHANGED <<act, allowed, job, sub, rev, access, deployed, effects, decided>>

\* acknowledge, fenced by the lease token.
Acknowledge(w) ==
    LET id == wk[w].id
    IN  /\ wk[w].pc = "ack"
        /\ job' = IF job[id].status = "running" /\ job[id].holder = w
                  THEN [job EXCEPT ![id].holder = None,
                                   ![id].status =
                                      IF wk[w].outcome = "ok" THEN "completed"
                                      ELSE IF job[id].attempts >= MaxAttempts THEN "failed"
                                      ELSE "pending"]
                  ELSE job
        /\ wk' = [wk EXCEPT ![w] = NoAttempt]
        /\ UNCHANGED <<act, allowed, sub, rev, access, deployed, effects, decided>>

-----------------------------------------------------------------------------
(* The host and time.                                                        *)

PruneJob(id) ==
    /\ job[id].status = "completed"
    /\ job' = [job EXCEPT ![id] = NoJob]
    /\ UNCHANGED <<act, allowed, sub, rev, wk, access, deployed, effects, decided>>

\* The host sweeps stale pending records and prunes finished ones.
Forget(id) ==
    /\ MayForget
    /\ act[id].status \in Terminal \/ (act[id].status = "pending" /\ act[id].stale)
    /\ ~Locked(id)
    /\ act' = [act EXCEPT ![id] = NoAction]
    /\ UNCHANGED <<allowed, job, sub, rev, wk, access, deployed, effects, decided>>

RevokeGrant(g) ==
    /\ g \in access
    /\ access' = access \ {g}
    /\ UNCHANGED <<act, allowed, job, sub, rev, wk, deployed, effects, decided>>

\* A replica with another version of the registry joins, or the last one with a
\* version leaves.
Deploy(v) ==
    /\ v \notin deployed
    /\ deployed' = deployed \cup {v}
    /\ UNCHANGED <<act, allowed, job, sub, rev, wk, access, effects, decided>>

Retire(v) ==
    /\ v \in deployed
    /\ deployed # {v}
    /\ deployed' = deployed \ {v}
    /\ UNCHANGED <<act, allowed, job, sub, rev, wk, access, effects, decided>>

ExpireAction(id) ==
    /\ act[id].status \in {"pending", "queued"}
    /\ ~act[id].stale
    /\ act' = [act EXCEPT ![id].stale = TRUE]
    /\ UNCHANGED <<allowed, job, sub, rev, wk, access, deployed, effects, decided>>

ExpireAllowance(a) ==
    /\ allowed[a].state = "active"
    /\ ~allowed[a].stale
    /\ allowed' = [allowed EXCEPT ![a].stale = TRUE]
    /\ UNCHANGED <<act, job, sub, rev, wk, access, deployed, effects, decided>>

-----------------------------------------------------------------------------

Init ==
    /\ act = [id \in Ids |-> NoAction]
    /\ allowed = [a \in Allowances |-> NoAllowance]
    /\ job = [id \in Ids |-> NoJob]
    /\ sub = [s \in Submitters |-> NoSubmission]
    /\ rev = [r \in Reviewers |-> NoDecision]
    /\ wk = [w \in Workers |-> NoAttempt]
    /\ access = Grants
    /\ \E v \in Versions : deployed = {v}
    /\ effects = [id \in Ids |-> 0]
    /\ decided = {}

Submit(s) == \/ \E id \in Ids, g \in Grants, v \in Versions : SubmitBegin(s, id, g, v)
             \/ SubmitInsert(s) \/ SubmitRepeat(s) \/ SubmitLost(s)

Settle(r) == \/ \E id \in Ids, approve, allows \in BOOLEAN, v \in Versions :
                  SettleBegin(r, id, approve, allows, v)
             \/ SettleCommit(r) \/ SettleAllow(r) \/ SettleLost(r)

Execute(w) == \/ ExecuteNothing(w) \/ ExecuteLock(w)
              \/ \E v \in Versions : ExecuteInvalid(w, v) \/ ExecuteBegin(w, v)
              \/ Completes(w) \/ FailsForGood(w) \/ FailsOnLast(w) \/ RollsBack(w)
              \/ \E status \in {"completed", "failed"} : CommitUnseen(w, status)
              \/ Dropped(w) \/ Acknowledge(w)

Host == \/ \E id \in Ids : PruneJob(id) \/ Forget(id) \/ ExpireAction(id) \/ Sweep(id)
        \/ \E g \in Grants : RevokeGrant(g)
        \/ \E v \in Versions : Deploy(v) \/ Retire(v)
        \/ \E a \in Allowances : ExpireAllowance(a) \/ RevokeAllowance(a)

Next == \/ \E s \in Submitters : Submit(s)
        \/ \E r \in Reviewers : Settle(r)
        \/ \E w \in Workers, id \in Ids : Claim(w, id)
        \/ \E w \in Workers : Execute(w)
        \/ Host

Spec == Init /\ [][Next]_vars

\* Running attempts end (the job runner bounds them), statements are answered,
\* some worker claims; nothing that fails is forced to happen.  Who waits for a
\* row that is released again and again gets it in the end, since Postgres
\* queues lock waiters; nobody is granted a row that is never released.
Fairness ==
    /\ \A w \in Workers :
         /\ \A id \in Ids : WF_vars(Claim(w, id))
         /\ SF_vars(ExecuteNothing(w)) /\ SF_vars(ExecuteLock(w))
         /\ SF_vars(\E v \in Versions : ExecuteInvalid(w, v) \/ ExecuteBegin(w, v))
         /\ WF_vars(Completes(w) \/ FailsForGood(w) \/ FailsOnLast(w) \/ RollsBack(w))
         /\ WF_vars(Acknowledge(w))
    /\ \A id \in Ids : WF_vars(Sweep(id))
    /\ \A r \in Reviewers : WF_vars(SettleCommit(r)) /\ SF_vars(SettleAllow(r))
    /\ \A s \in Submitters : WF_vars(SubmitInsert(s)) /\ SF_vars(SubmitRepeat(s))

FairSpec == Spec /\ Fairness

-----------------------------------------------------------------------------
(* What record reports to get_action and to the reviewer.                    *)

Reported(id) ==
    IF act[id].status = "pending" /\ act[id].stale THEN "expired"
    ELSE IF act[id].status = "queued" /\ job[id].status \in {"running", "failed"}
         THEN job[id].status
         ELSE act[id].status

-----------------------------------------------------------------------------
(* Properties.                                                               *)

\* Every row and every transaction in progress stays in its type.
TypeOK ==
    /\ act \in [Ids -> [status : ActionStatus, grant : Grants \cup {None},
                        ver : Versions \cup {None}, reviewed : BOOLEAN,
                        allowance : Allowances \cup {None}, stale : BOOLEAN]]
    /\ allowed \in [Allowances -> [state : {"absent", "active", "revoked"},
                                   grant : Grants \cup {None}, ver : Versions \cup {None},
                                   stale : BOOLEAN]]
    /\ job \in [Ids -> [status : {"absent", "pending", "running", "completed", "failed"},
                        attempts : 0 .. MaxAttempts, holder : Workers \cup {None}]]
    /\ sub \in [Submitters -> [pc : {"idle", "insert"}, id : Ids \cup {None},
                               grant : Grants \cup {None}, ver : Versions \cup {None},
                               allowance : Allowances \cup {None}]]
    /\ rev \in [Reviewers -> [pc : {"idle", "settling", "allowed"}, id : Ids \cup {None},
                              status : ActionStatus, allows : BOOLEAN,
                              allowance : Allowances \cup {None}]]
    /\ wk \in [Workers -> [pc : {"idle", "claimed", "locked", "handler", "ack"},
                           id : Ids \cup {None}, attempt : 0 .. MaxAttempts,
                           ver : Versions \cup {None}, outcome : {"ok", "error"},
                           expired : BOOLEAN, inTime : BOOLEAN]]
    /\ access \subseteq Grants
    /\ deployed \subseteq Versions /\ deployed # {}
    /\ effects \in [Ids -> Nat]
    /\ decided \subseteq Ids

\* The row lock serialises overlapping attempts, retries after a lost commit
\* and re-claims after a lapsed lease: a record's handler takes effect exactly
\* once when the record says completed, and never otherwise, whatever the queue
\* adds to the report.
EffectIffCompleted ==
    \A id \in Ids :
        act[id].status # "absent" =>
            effects[id] = IF Reported(id) = "completed" THEN 1 ELSE 0

\* Nothing takes effect that the user did not authorise: the record was
\* approved by itself or came under an allowance of the same grant, it runs
\* under the definition it was submitted with, and it was not expired when its
\* attempt took its row.
OnlyAuthorisedEffects ==
    [][\A id \in Ids : effects'[id] > effects[id] =>
         /\ \E w \in Workers : /\ wk[w].pc = "handler" /\ wk[w].id = id
                               /\ wk[w].ver = act[id].ver /\ wk[w].inTime
         /\ act[id].ver \in Required =>
              \/ id \in decided
              \/ /\ act[id].allowance # None
                 /\ allowed[act[id].allowance].grant = act[id].grant]_vars

\* Once revoke_allowance returns nothing takes effect under the allowance, a
\* submission that read it before and an attempt already claimed included.
RevocationStops ==
    [][\A id \in Ids : effects'[id] > effects[id] /\ act[id].allowance # None =>
         allowed[act[id].allowance].state = "active"]_vars

\* A settled record is only ever deleted, and a queued one never returns to
\* review: a decision and an attempt never overwrite each other.
SettledStands ==
    [][\A id \in Ids :
         /\ act[id].status \in Terminal => act'[id].status \in {act[id].status, "absent"}
         /\ act[id].status = "queued" => act'[id].status \notin {"pending", "rejected"}]_vars

\* A queued action is never lost: its job is waiting, running, or visibly
\* failed, since the record and the job are written in one transaction and the
\* job is completed only after the record is settled.
QueuedHasJob ==
    \A id \in Ids :
        act[id].status = "queued" => job[id].status \in {"pending", "running", "failed"}

\* A queued action is settled or reported failed: an attempt that crashes, or
\* whose lease lapses, is followed by another claim, and the last by the sweep.
QueuedSettles ==
    \A id \in Ids : act[id].status = "queued" ~> Reported(id) \in Terminal

\* Transactions that hold row locks never all wait for one another: a decision
\* holds its action while it waits for an allowance that attempts share, an
\* attempt holds its action while it waits for an allowance that a decision has
\* upserted, and whatever waits, one of the holders can go on without an error.
\* A cycle among some of them would show too, once the others have ended.
NoLockCycle ==
    \/ (\A r \in Reviewers : rev[r].pc = "idle") /\ (\A w \in Workers : wk[w].pc # "locked")
    \/ \E r \in Reviewers : ENABLED (SettleAllow(r) \/ SettleCommit(r))
    \/ \E w \in Workers : \/ wk[w].pc = "handler"
                          \/ ENABLED (\E v \in Versions : ExecuteInvalid(w, v) \/ ExecuteBegin(w, v))

=============================================================================
