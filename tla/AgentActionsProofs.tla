------------------------- MODULE AgentActionsProofs -------------------------
(***************************************************************************)
(* The safety properties of AgentActions, for any number of actions, grants, *)
(* versions, allowances, submissions, decisions and workers.                 *)
(***************************************************************************)
EXTENDS AgentActions, TLAPS

\* The records of TypeOK.
ActionRow == [status : ActionStatus, grant : Grants \cup {None}, ver : Versions \cup {None},
              reviewed : BOOLEAN, allowance : Allowances \cup {None}, stale : BOOLEAN]
AllowanceRow == [state : {"absent", "active", "revoked"}, grant : Grants \cup {None},
                 ver : Versions \cup {None}, stale : BOOLEAN]
JobRow == [status : {"absent", "pending", "running", "completed", "failed"},
           attempts : 0 .. MaxAttempts, holder : Workers \cup {None}]
Submission == [pc : {"idle", "insert"}, id : Ids \cup {None}, grant : Grants \cup {None},
               ver : Versions \cup {None}, allowance : Allowances \cup {None}]
Decision == [pc : {"idle", "settling", "allowed"}, id : Ids \cup {None}, status : ActionStatus,
             allows : BOOLEAN, allowance : Allowances \cup {None}]
Attempt == [pc : {"idle", "claimed", "locked", "handler", "ack"}, id : Ids \cup {None},
            attempt : 0 .. MaxAttempts, ver : Versions \cup {None}, outcome : {"ok", "error"},
            expired : BOOLEAN, inTime : BOOLEAN]

-----------------------------------------------------------------------------
(* The inductive invariant.                                                  *)

\* Row a of the allowances is one of grant g.
Granted(a, g) == allowed[a].state # "absent" /\ allowed[a].grant = g

\* What a submission read is still there, revoked perhaps.
SubmissionsRead ==
    \A s \in Submitters : sub[s].pc = "insert" =>
        /\ sub[s].id \in Ids
        /\ sub[s].grant \in Grants
        /\ sub[s].ver \in Versions
        /\ sub[s].allowance # None => Granted(sub[s].allowance, sub[s].grant)

\* The row an upsert for grant g holds: a new one, or the grant's active one.
Target(a, g) == /\ a \in Allowances
                /\ \/ allowed[a].state = "absent"
                   \/ allowed[a].state = "active" /\ allowed[a].grant = g

\* A decision holds a pending action, alone, and after its upsert an allowance, alone.
DecisionsLock ==
    \A r \in Reviewers :
        /\ rev[r].pc # "idle" =>
              /\ rev[r].id \in Ids
              /\ act[rev[r].id].status = "pending"
              /\ rev[r].status \in {"expired", "rejected", "queued", "invalidated"}
              /\ \A q \in Reviewers : q # r /\ rev[q].pc # "idle" => rev[q].id # rev[r].id
        /\ rev[r].pc = "settling" => rev[r].allowance = None
        /\ rev[r].pc = "allowed" =>
              /\ Target(rev[r].allowance, act[rev[r].id].grant)
              /\ \A q \in Reviewers :
                    q # r /\ rev[q].pc = "allowed" => rev[q].allowance # rev[r].allowance

\* A worker that holds the row of an action.
Holding(w) == wk[w].pc \in {"locked", "handler"}

\* An attempt holds a queued action, alone, that was unexpired unless it read
\* otherwise; in a handler, what it checked still holds.
AttemptsLock ==
    \A w \in Workers :
        /\ wk[w].pc # "idle" => wk[w].id \in Ids
        /\ Holding(w) =>
              /\ act[wk[w].id].status = "queued"
              /\ ~wk[w].expired => wk[w].inTime
              /\ \A u \in Workers : u # w /\ Holding(u) => wk[u].id # wk[w].id
        /\ wk[w].pc = "handler" =>
              LET a == act[wk[w].id]
              IN  /\ wk[w].inTime
                  /\ a.ver = wk[w].ver
                  /\ a.ver \in Required => a.reviewed
                  /\ a.allowance # None => allowed[a.allowance].state = "active"

\* An action refers to an allowance of its own grant.
AllowancesMatch ==
    \A id \in Ids : act[id].allowance # None => Granted(act[id].allowance, act[id].grant)

\* A reviewed action in the queue was decided, or came under an allowance.
ReviewsStand ==
    \A id \in Ids : act[id].status = "queued" /\ act[id].reviewed =>
        id \in decided \/ act[id].allowance # None

\* The handler of a record took effect once if it is completed, and not otherwise.
EffectsCounted ==
    \A id \in Ids : act[id].status # "absent" =>
        effects[id] = IF act[id].status = "completed" THEN 1 ELSE 0

IInv == /\ TypeOK /\ SubmissionsRead /\ DecisionsLock /\ AttemptsLock
        /\ AllowancesMatch /\ ReviewsStand /\ EffectsCounted

\* Without pruned records, a job is that of an action which is queued or settled,
\* and an attempt that ended well left it settled.
JobsFollow ==
    /\ \A id \in Ids : job[id].status # "absent" => act[id].status \notin {"absent", "pending"}
    /\ \A w \in Workers :
          /\ wk[w].pc # "idle" => act[wk[w].id].status \notin {"absent", "pending"}
          /\ wk[w].pc = "ack" /\ wk[w].outcome = "ok" => act[wk[w].id].status \in Terminal

JobInv == QueuedHasJob /\ JobsFollow

-----------------------------------------------------------------------------
(* Types.                                                                    *)

\* TypeOK with its records named, of a state and of the next one.
LEMMA Types ==
  /\ TypeOK <=> /\ act \in [Ids -> ActionRow]
                /\ allowed \in [Allowances -> AllowanceRow]
                /\ job \in [Ids -> JobRow]
                /\ sub \in [Submitters -> Submission]
                /\ rev \in [Reviewers -> Decision]
                /\ wk \in [Workers -> Attempt]
                /\ access \subseteq Grants
                /\ deployed \subseteq Versions /\ deployed # {}
                /\ effects \in [Ids -> Nat]
                /\ decided \subseteq Ids
  /\ TypeOK' <=> /\ act' \in [Ids -> ActionRow]
                 /\ allowed' \in [Allowances -> AllowanceRow]
                 /\ job' \in [Ids -> JobRow]
                 /\ sub' \in [Submitters -> Submission]
                 /\ rev' \in [Reviewers -> Decision]
                 /\ wk' \in [Workers -> Attempt]
                 /\ access' \subseteq Grants
                 /\ deployed' \subseteq Versions /\ deployed' # {}
                 /\ effects' \in [Ids -> Nat]
                 /\ decided' \subseteq Ids
  BY DEF TypeOK, ActionRow, AllowanceRow, JobRow, Submission, Decision, Attempt

\* The rows and transactions there are at first, and the bounds of attempts.
LEMMA Nothing == /\ NoAction \in ActionRow /\ NoAllowance \in AllowanceRow /\ NoJob \in JobRow
                 /\ NoSubmission \in Submission /\ NoDecision \in Decision
                 /\ NoAttempt \in Attempt
                 /\ 0 \in 0 .. MaxAttempts /\ MaxAttempts \in Nat
<1>1. 0 \in 0 .. MaxAttempts /\ MaxAttempts \in Nat
  BY ConstantsAssumption DEF ConstantsAssumption
<1> QED
  BY <1>1
  DEF NoAction, NoAllowance, NoJob, NoSubmission, NoDecision, NoAttempt, ActionRow, ActionStatus,
      AllowanceRow, JobRow, Submission, Decision, Attempt

\* enqueue adds a pending row, or nothing.
LEMMA EnqueuedRow ==
  ASSUME TypeOK, NEW id \in Ids
  PROVE  /\ Enqueued(id) \in [Ids -> JobRow]
         /\ \A other \in Ids : other # id => Enqueued(id)[other] = job[other]
         /\ job[id].status = "absent" => Enqueued(id)[id].status = "pending"
         /\ job[id].status # "absent" => Enqueued(id)[id] = job[id]
<1> DEFINE row == [NoJob EXCEPT !.status = "pending"]
<1>1. row \in JobRow /\ row.status = "pending"
  BY Nothing DEF NoJob, JobRow
<1>2. job \in [Ids -> JobRow]
  BY Types
<1>3. Enqueued(id) = IF job[id].status = "absent" THEN [job EXCEPT ![id] = row] ELSE job
  BY DEF Enqueued
<1> HIDE DEF row
<1> QED
  BY <1>1, <1>2, <1>3

\* Init is well typed.
LEMMA TypeInit == Init => TypeOK
<1> SUFFICES ASSUME Init PROVE TypeOK
  OBVIOUS
<1>1. deployed \subseteq Versions /\ deployed # {}
  BY DEF Init
<1> QED
  BY <1>1, Nothing, Types DEF Init

\* The steps of a submission keep every row in its type.
LEMMA TypeSubmit ==
  ASSUME TypeOK, NEW s \in Submitters, Submit(s)
  PROVE  TypeOK'
<1>0. sub[s] \in Submission
  BY Types
<1>1. ASSUME NEW id \in Ids, NEW g \in Grants, NEW v \in Versions, SubmitBegin(s, id, g, v)
      PROVE  TypeOK'
  <2>1. PICK a \in Allowances \cup {None} :
          sub' = [sub EXCEPT ![s] = [pc |-> "insert", id |-> id, grant |-> g, ver |-> v,
                                     allowance |-> a]]
    BY <1>1 DEF SubmitBegin, Covering
  <2>2. [pc |-> "insert", id |-> id, grant |-> g, ver |-> v, allowance |-> a] \in Submission
    BY DEF Submission
  <2> QED
    BY <1>1, <2>1, <2>2, Types DEF SubmitBegin
<1>2. CASE SubmitRepeat(s) \/ SubmitLost(s)
  BY <1>2, Nothing, Types DEF SubmitRepeat, SubmitLost
<1>3. CASE SubmitInsert(s)
  <2> DEFINE id == sub[s].id
             row(q) == [status |-> IF q THEN "queued" ELSE "pending", grant |-> sub[s].grant,
                        ver |-> sub[s].ver, reviewed |-> sub[s].allowance # None,
                        allowance |-> sub[s].allowance, stale |-> FALSE]
  <2>1. \A q \in BOOLEAN : row(q) \in ActionRow
    BY <1>0 DEF ActionRow, ActionStatus, Submission
  <2>2. PICK q \in BOOLEAN : /\ act' = [act EXCEPT ![id] = row(q)]
                             /\ job' = IF q THEN Enqueued(id) ELSE job
    BY <1>3 DEF SubmitInsert
  <2>3. job' \in [Ids -> JobRow]
    <3>1. CASE id \in Ids
      BY <2>2, <3>1, EnqueuedRow, Types
    <3>2. CASE id \notin Ids
      BY <2>2, <3>2, Types DEF Enqueued
    <3> QED
      BY <3>1, <3>2
  <2>4. act' \in [Ids -> ActionRow]
    BY <2>1, <2>2, Types
  <2> QED
    BY <1>3, <2>3, <2>4, Nothing, Types DEF SubmitInsert
<1> QED
  BY <1>1, <1>2, <1>3 DEF Submit

\* ... of a decision ...
LEMMA TypeSettle ==
  ASSUME TypeOK, NEW r \in Reviewers, Settle(r), rev[r].pc # "idle" => rev[r].id \in Ids
  PROVE  TypeOK'
<1>0. rev[r] \in Decision
  BY Types
<1>1. ASSUME NEW id \in Ids, NEW approve \in BOOLEAN, NEW allows \in BOOLEAN,
             NEW v \in Versions, SettleBegin(r, id, approve, allows, v)
      PROVE  TypeOK'
  <2>1. [pc |-> "settling", id |-> id, status |-> Verdict(id, approve, v), allows |-> allows,
         allowance |-> None] \in Decision
    BY DEF Decision, Verdict, ActionStatus, Terminal
  <2> QED
    BY <1>1, <2>1, Types DEF SettleBegin
<1>2. CASE SettleLost(r)
  BY <1>2, Nothing, Types DEF SettleLost
<1>3. ASSUME rev[r].pc # "idle", SettleWrite(r) PROVE TypeOK'
  <2> DEFINE id == rev[r].id
             a == rev[r].allowance
             row == [act[id] EXCEPT !.status = rev[r].status, !.reviewed = TRUE, !.allowance = a]
             grant == [state |-> "active", grant |-> act[id].grant, ver |-> act[id].ver,
                       stale |-> FALSE]
  <2>1. id \in Ids /\ act[id] \in ActionRow /\ a \in Allowances \cup {None}
    BY <1>0, <1>3, Types DEF Decision
  <2>2. row \in ActionRow /\ grant \in AllowanceRow
    BY <1>0, <2>1 DEF ActionRow, AllowanceRow, Decision
  <2>3. act' = [act EXCEPT ![id] = row]
    BY <1>3 DEF SettleWrite
  <2>4. allowed' = IF a = None THEN allowed ELSE [allowed EXCEPT ![a] = grant]
    BY <1>3 DEF SettleWrite
  <2>5. job' \in [Ids -> JobRow]
    BY <1>3, <2>1, EnqueuedRow, Types DEF SettleWrite
  <2> HIDE DEF row, grant, a
  <2>6. allowed' \in [Allowances -> AllowanceRow] /\ act' \in [Ids -> ActionRow]
    BY <2>2, <2>3, <2>4, Types
  <2> QED
    BY <1>3, <2>1, <2>5, <2>6, Nothing, Types DEF SettleWrite
<1>4. CASE SettleAllow(r)
  <2>1. PICK a \in Allowances :
          rev' = [rev EXCEPT ![r] = [rev[r] EXCEPT !.pc = "allowed", !.allowance = a]]
    BY <1>4 DEF SettleAllow, AllowTargets, ActiveOf
  <2>2. [rev[r] EXCEPT !.pc = "allowed", !.allowance = a] \in Decision
    BY <1>0 DEF Decision
  <2> QED
    BY <1>4, <2>1, <2>2, Types DEF SettleAllow
<1> QED
  BY <1>1, <1>2, <1>3, <1>4 DEF Settle, SettleCommit

\* ... of an attempt ...
LEMMA TypeExecute ==
  ASSUME TypeOK, NEW w \in Workers, Execute(w), wk[w].pc # "idle" => wk[w].id \in Ids
  PROVE  TypeOK'
<1>0. /\ wk[w] \in Attempt
      /\ \A id \in Ids : act[id] \in ActionRow /\ job[id] \in JobRow /\ effects[id] \in Nat
  BY Types
<1>1. \A o \in {"ok", "error"}, v \in Versions :
         /\ [wk[w] EXCEPT !.pc = "ack", !.outcome = o] \in Attempt
         /\ [wk[w] EXCEPT !.pc = "handler", !.ver = v] \in Attempt
  BY <1>0 DEF Attempt
<1>2. \A o \in {"ok", "error"} : Ends(w, o) => wk' \in [Workers -> Attempt]
  BY <1>1, Types DEF Ends
<1>3. \A id \in Ids, st \in ActionStatus : [act[id] EXCEPT !.status = st] \in ActionRow
  BY <1>0 DEF ActionRow
<1>4. CASE ExecuteNothing(w) \/ RollsBack(w)
  BY <1>2, <1>4, Types DEF ExecuteNothing, RollsBack
<1>5. ASSUME NEW v \in Versions, ExecuteInvalid(w, v) PROVE TypeOK'
  <2>1. \E st \in ActionStatus : act' = [act EXCEPT ![wk[w].id].status = st]
    BY <1>5 DEF ExecuteInvalid, ActionStatus, Terminal
  <2>2. wk[w].id \in Ids
    BY <1>5 DEF ExecuteInvalid
  <2>3. act' \in [Ids -> ActionRow]
    BY <1>3, <2>1, <2>2, Types
  <2> QED
    BY <1>2, <1>5, <2>3, Types DEF ExecuteInvalid
<1>6. ASSUME NEW v \in Versions, ExecuteBegin(w, v) PROVE TypeOK'
  BY <1>1, <1>6, Types DEF ExecuteBegin
<1>10. CASE ExecuteLock(w)
  <2> DEFINE stale == act[wk[w].id].stale
             row == [wk[w] EXCEPT !.pc = "locked", !.expired = stale, !.inTime = ~stale]
  <2>1. stale \in BOOLEAN
    BY <1>0, <1>10 DEF ExecuteLock, ActionRow
  <2>2. wk' = [wk EXCEPT ![w] = row] /\ UNCHANGED <<act, allowed, job, sub, rev, access, deployed, effects, decided>>
    BY <1>10 DEF ExecuteLock, LockedRow
  <2> HIDE DEF stale
  <2>3. row \in Attempt
    BY <1>0, <2>1 DEF Attempt
  <2> HIDE DEF row
  <2> QED
    BY <2>2, <2>3, Types
<1>7. ASSUME NEW st \in {"completed", "failed"}, NEW o \in {"ok", "error"},
             wk[w].pc = "handler", Commit(w, st), Ends(w, o)
      PROVE  TypeOK'
  <2>1. act' \in [Ids -> ActionRow]
    BY <1>3, <1>7, Types DEF Commit, ActionStatus, Terminal
  <2>2. effects' \in [Ids -> Nat]
    BY <1>0, <1>7, Types DEF Commit
  <2> QED
    BY <1>2, <1>7, <2>1, <2>2, Types DEF Commit
<1>8. CASE Dropped(w)
  BY <1>8, Nothing, Types DEF Dropped
<1>9. CASE Acknowledge(w)
  <2> DEFINE row(st) == [job[wk[w].id] EXCEPT !.holder = None, !.status = st]
  <2>1. wk[w].id \in Ids => \A st \in {"completed", "failed", "pending"} : row(st) \in JobRow
    BY <1>0 DEF JobRow
  <2>2. job' = job \/ \E st \in {"completed", "failed", "pending"} :
                       job' = [job EXCEPT ![wk[w].id] = row(st)]
    BY <1>9 DEF Acknowledge
  <2> HIDE DEF row
  <2>3. job' \in [Ids -> JobRow]
    BY <2>1, <2>2, Types
  <2> QED
    BY <1>9, <2>3, Nothing, Types DEF Acknowledge
<1> QED
  BY <1>4, <1>5, <1>6, <1>7, <1>8, <1>9, <1>10
  DEF Execute, Completes, FailsForGood, FailsOnLast, CommitUnseen

\* ... of a claim, the host and time.
LEMMA TypeRest ==
  ASSUME TypeOK, Host \/ \E w \in Workers, id \in Ids : Claim(w, id)
  PROVE  TypeOK'
<1>0. /\ \A id \in Ids : act[id] \in ActionRow /\ job[id] \in JobRow
      /\ \A a \in Allowances : allowed[a] \in AllowanceRow
  BY Types
<1>1. ASSUME NEW w \in Workers, NEW id \in Ids, Claim(w, id) PROVE TypeOK'
  <2> DEFINE n == job[id].attempts + 1
             row == [status |-> "running", attempts |-> n, holder |-> w]
             mine == [NoAttempt EXCEPT !.pc = "claimed", !.id = id, !.attempt = n]
  <2>1. n \in 0 .. MaxAttempts
    <3>1. job[id].attempts \in 0 .. MaxAttempts
      BY <1>0 DEF JobRow
    <3>2. job[id].attempts < MaxAttempts
      BY <1>1 DEF Claim
    <3> QED
      BY <3>1, <3>2, Nothing
  <2>2. /\ job' = [job EXCEPT ![id] = row] /\ wk' = [wk EXCEPT ![w] = mine]
        /\ UNCHANGED <<act, allowed, sub, rev, access, deployed, effects, decided>>
    BY <1>1 DEF Claim
  <2> HIDE DEF n
  <2>3. row \in JobRow /\ mine \in Attempt
    BY <2>1 DEF JobRow, Attempt, NoAttempt
  <2> HIDE DEF row, mine
  <2> QED
    BY <2>2, <2>3, Types
<1>2. ASSUME NEW id \in Ids, PruneJob(id) \/ Forget(id) PROVE TypeOK'
  BY <1>2, Nothing, Types DEF PruneJob, Forget
<1>3. ASSUME NEW id \in Ids, ExpireAction(id) PROVE TypeOK'
  <2>1. [act[id] EXCEPT !.stale = TRUE] \in ActionRow
    BY <1>0 DEF ActionRow
  <2> QED
    BY <1>3, <2>1, Types DEF ExpireAction
<1>4. ASSUME NEW id \in Ids, Sweep(id) PROVE TypeOK'
  <2>1. [job[id] EXCEPT !.status = "failed", !.holder = None] \in JobRow
    BY <1>0 DEF JobRow
  <2> QED
    BY <1>4, <2>1, Types DEF Sweep
<1>5. ASSUME NEW g \in Grants, RevokeGrant(g) PROVE TypeOK'
  BY <1>5, Types DEF RevokeGrant
<1>6. ASSUME NEW v \in Versions, Deploy(v) \/ Retire(v) PROVE TypeOK'
  BY <1>6, Types DEF Deploy, Retire
<1>7. ASSUME NEW a \in Allowances, ExpireAllowance(a) \/ RevokeAllowance(a) PROVE TypeOK'
  <2>1. /\ [allowed[a] EXCEPT !.stale = TRUE] \in AllowanceRow
        /\ [allowed[a] EXCEPT !.state = "revoked"] \in AllowanceRow
    BY <1>0 DEF AllowanceRow
  <2> QED
    BY <1>7, <2>1, Types DEF ExpireAllowance, RevokeAllowance
<1> QED
  BY <1>1, <1>2, <1>3, <1>4, <1>5, <1>6, <1>7 DEF Host

-----------------------------------------------------------------------------
(* Every step keeps the rest of the invariant.                               *)

Rest == /\ SubmissionsRead /\ DecisionsLock /\ AttemptsLock
        /\ AllowancesMatch /\ ReviewsStand /\ EffectsCounted

\* What is in the tables, one by one.
LEMMA InTables ==
  ASSUME IInv
  PROVE  /\ \A id \in Ids : /\ act[id] \in ActionRow
                            /\ act[id].allowance \in Allowances \cup {None}
                            /\ effects[id] \in Nat
         /\ \A a \in Allowances : allowed[a] \in AllowanceRow
         /\ \A s \in Submitters : /\ sub[s] \in Submission
                                  /\ sub[s].allowance \in Allowances \cup {None}
         /\ \A r \in Reviewers : rev[r] \in Decision
         /\ \A w \in Workers : wk[w] \in Attempt
<1>1. /\ \A id \in Ids : act[id] \in ActionRow /\ effects[id] \in Nat
      /\ \A a \in Allowances : allowed[a] \in AllowanceRow
      /\ \A s \in Submitters : sub[s] \in Submission
      /\ \A r \in Reviewers : rev[r] \in Decision
      /\ \A w \in Workers : wk[w] \in Attempt
  BY Types DEF IInv
<1> QED
  BY <1>1 DEF ActionRow, Submission

\* Init satisfies the invariant.
LEMMA RestInit == Init => Rest
  BY DEF Init, Rest, SubmissionsRead, DecisionsLock, AttemptsLock, Holding, AllowancesMatch,
         ReviewsStand, EffectsCounted, NoSubmission, NoDecision, NoAttempt, NoAction

\* Steps of the queue, of the registry and of access leave the tables alone.
LEMMA RestSame ==
  ASSUME IInv, UNCHANGED <<act, allowed, sub, rev, wk, effects, decided>>
  PROVE  Rest'
  BY DEF IInv, Rest, SubmissionsRead, DecisionsLock, AttemptsLock, AllowancesMatch, ReviewsStand,
         EffectsCounted, Granted, Target, Holding

\* A worker moves to a place where it holds no row.
LEMMA RestOfWorker ==
  ASSUME IInv, NEW w \in Workers, NEW l, wk' = [wk EXCEPT ![w] = l],
         l.pc \notin {"locked", "handler"}, l.pc # "idle" => l.id \in Ids,
         UNCHANGED <<act, allowed, sub, rev, effects, decided>>
  PROVE  Rest'
<1>1. AttemptsLock'
  <2>1. wk'[w] = l /\ \A u \in Workers : u # w => wk'[u] = wk[u]
    BY Types DEF IInv
  <2> QED
    BY <2>1 DEF IInv, AttemptsLock, Holding
<1> QED
  BY <1>1 DEF IInv, Rest, SubmissionsRead, DecisionsLock, AllowancesMatch, ReviewsStand,
              EffectsCounted, Granted, Target

\* The steps of a submission.
LEMMA RestSubmit ==
  ASSUME IInv, NEW s \in Submitters, Submit(s)
  PROVE  Rest'
<1>1. ASSUME NEW l, sub' = [sub EXCEPT ![s] = l],
             l.pc = "insert" =>
               /\ l.id \in Ids /\ l.grant \in Grants /\ l.ver \in Versions
               /\ l.allowance # None => Granted(l.allowance, l.grant),
             UNCHANGED <<act, allowed, rev, wk, effects, decided>>
      PROVE  Rest'
  <2>1. sub'[s] = l /\ \A t \in Submitters : t # s => sub'[t] = sub[t]
    BY <1>1, Types DEF IInv
  <2>2. SubmissionsRead'
    BY <1>1, <2>1 DEF IInv, SubmissionsRead, Granted
  <2> QED
    BY <1>1, <2>2 DEF IInv, Rest, DecisionsLock, AttemptsLock, AllowancesMatch, ReviewsStand,
                      EffectsCounted, Granted, Target, Holding
<1>2. CASE SubmitRepeat(s) \/ SubmitLost(s)
  BY <1>1, <1>2 DEF SubmitRepeat, SubmitLost, NoSubmission
<1>3. ASSUME NEW id \in Ids, NEW g \in Grants, NEW v \in Versions, SubmitBegin(s, id, g, v)
      PROVE  Rest'
  <2>1. PICK a \in Covering(g, v) \cup {None} :
          sub' = [sub EXCEPT ![s] = [pc |-> "insert", id |-> id, grant |-> g, ver |-> v,
                                     allowance |-> a]]
    BY <1>3 DEF SubmitBegin
  <2>2. a # None => Granted(a, g)
    BY DEF Covering, Granted
  <2> QED
    BY <1>1, <1>3, <2>1, <2>2 DEF SubmitBegin
<1>4. CASE SubmitInsert(s)
  <2> DEFINE id == sub[s].id
  <2>1. /\ id \in Ids /\ act[id].status = "absent"
        /\ sub[s].allowance # None => Granted(sub[s].allowance, sub[s].grant)
    BY <1>4 DEF SubmitInsert, IInv, SubmissionsRead
  <2>2. /\ act'[id].status \in {"queued", "pending"}
        /\ act'[id].allowance = sub[s].allowance /\ act'[id].grant = sub[s].grant
        /\ act'[id].reviewed => sub[s].allowance # None
        /\ \A other \in Ids : other # id => act'[other] = act[other]
    BY <1>4, <2>1, Types DEF SubmitInsert, IInv
  <2>3. /\ effects'[id] = 0 /\ \A other \in Ids : other # id => effects'[other] = effects[other]
        /\ \A other \in Ids : other # id /\ other \in decided => other \in decided'
    BY <1>4, <2>1, Types DEF SubmitInsert, IInv
  <2>4. /\ sub'[s].pc = "idle" /\ \A t \in Submitters : t # s => sub'[t] = sub[t]
        /\ UNCHANGED <<allowed, rev, wk>>
    BY <1>4, Types DEF SubmitInsert, NoSubmission, IInv
  <2> HIDE DEF id
  <2>5. SubmissionsRead'
    BY <2>4 DEF IInv, SubmissionsRead, Granted
  <2>6. DecisionsLock'
    <3>1. \A r \in Reviewers : rev[r].pc # "idle" => act'[rev[r].id] = act[rev[r].id]
      BY <2>1, <2>2 DEF IInv, DecisionsLock
    <3> QED
      BY <2>4, <3>1 DEF IInv, DecisionsLock, Target
  <2>7. AttemptsLock'
    BY <2>1, <2>2, <2>4 DEF IInv, AttemptsLock, Holding
  <2>8. AllowancesMatch'
    BY <2>1, <2>2, <2>4 DEF IInv, AllowancesMatch, Granted
  <2>9. ReviewsStand'
    BY <2>2, <2>3 DEF IInv, ReviewsStand
  <2>10. EffectsCounted'
    BY <2>2, <2>3 DEF IInv, EffectsCounted
  <2> QED
    BY <2>5, <2>6, <2>7, <2>8, <2>9, <2>10 DEF Rest
<1> QED
  BY <1>2, <1>3, <1>4 DEF Submit

\* The steps of a decision.
LEMMA RestSettle ==
  ASSUME IInv, NEW r \in Reviewers, Settle(r)
  PROVE  Rest'
<1>1. ASSUME UNCHANGED <<act, allowed, sub, wk, effects, decided>>, DecisionsLock'
      PROVE  Rest'
  BY <1>1 DEF IInv, Rest, SubmissionsRead, AttemptsLock, AllowancesMatch, ReviewsStand,
              EffectsCounted, Granted, Holding
<1>2. CASE SettleLost(r)
  <2>1. rev'[r].pc = "idle" /\ \A q \in Reviewers : q # r => rev'[q] = rev[q]
    BY <1>2, Types DEF IInv, SettleLost, NoDecision
  <2>2. DecisionsLock'
    BY <1>2, <2>1 DEF IInv, SettleLost, DecisionsLock, Target
  <2> QED
    BY <1>1, <1>2, <2>2 DEF SettleLost
<1>3. ASSUME NEW id \in Ids, NEW approve \in BOOLEAN, NEW allows \in BOOLEAN,
             NEW v \in Versions, SettleBegin(r, id, approve, allows, v)
      PROVE  Rest'
  <2>1. /\ rev'[r].pc = "settling" /\ rev'[r].id = id /\ rev'[r].allowance = None
        /\ rev'[r].status = Verdict(id, approve, v)
        /\ \A q \in Reviewers : q # r => rev'[q] = rev[q]
    BY <1>3, Types DEF IInv, SettleBegin
  <2>2. Verdict(id, approve, v) \in {"expired", "rejected", "queued", "invalidated"}
    BY DEF Verdict
  <2>3. act[id].status = "pending" /\ \A q \in Reviewers : rev[q].pc # "idle" => rev[q].id # id
    BY <1>3 DEF SettleBegin, Locked
  <2>4. UNCHANGED <<act, allowed>>
    BY <1>3 DEF SettleBegin
  <2>5. DecisionsLock'
    BY <2>1, <2>2, <2>3, <2>4 DEF IInv, DecisionsLock, Target
  <2> QED
    BY <1>1, <1>3, <2>5 DEF SettleBegin
<1>4. CASE SettleAllow(r)
  <2> DEFINE g == act[rev[r].id].grant
  <2>1. PICK a \in AllowTargets(g) :
          rev' = [rev EXCEPT ![r] = [rev[r] EXCEPT !.pc = "allowed", !.allowance = a]]
    BY <1>4 DEF SettleAllow
  <2>2. /\ rev'[r].pc = "allowed" /\ rev'[r].id = rev[r].id /\ rev'[r].allowance = a
        /\ rev'[r].status = rev[r].status
        /\ \A q \in Reviewers : q # r => rev'[q] = rev[q]
    <3>1. rev \in [Reviewers -> Decision] /\ rev[r] \in Decision
      BY Types DEF IInv
    <3> QED
      BY <2>1, <3>1 DEF Decision
  <2>3. Target(a, g)
    BY DEF AllowTargets, ActiveOf, Target
  <2>4. ASSUME NEW q \in Reviewers, rev[q].pc = "allowed" PROVE rev[q].allowance # a
    <3>1. act[rev[q].id].grant # g
      BY <1>4, <2>4 DEF SettleAllow, Upserting
    <3>2. Target(rev[q].allowance, act[rev[q].id].grant)
      BY <2>4 DEF IInv, DecisionsLock
    <3>3. CASE a \in ActiveOf(g)
      BY <3>1, <3>2, <3>3 DEF ActiveOf, Target
    <3>4. CASE ~Held(a)
      BY <2>4, <3>4 DEF Held
    <3> QED
      BY <3>3, <3>4 DEF AllowTargets
  <2>5. UNCHANGED <<act, allowed>> /\ rev[r].pc = "settling"
    BY <1>4 DEF SettleAllow
  <2> HIDE DEF g
  <2>6. DecisionsLock'
    BY <2>2, <2>3, <2>4, <2>5 DEF IInv, DecisionsLock, Target, g
  <2> QED
    BY <1>1, <1>4, <2>6 DEF SettleAllow
<1>5. ASSUME rev[r].pc # "idle", SettleWrite(r)
      PROVE  Rest'
  <2> DEFINE id == rev[r].id
             a == rev[r].allowance
  <2>1. /\ id \in Ids /\ act[id].status = "pending"
        /\ rev[r].status \in {"expired", "rejected", "queued", "invalidated"}
        /\ \A q \in Reviewers : q # r /\ rev[q].pc # "idle" => rev[q].id # id
    BY <1>5 DEF IInv, DecisionsLock
  <2>2. /\ a \in Allowances \cup {None} /\ None \notin Allowances
        /\ a # None => Target(a, act[id].grant)
        /\ \A q \in Reviewers : q # r /\ rev[q].pc = "allowed" => rev[q].allowance # a
    <3>1. rev[r].pc = "settling" \/ rev[r].pc = "allowed"
      BY <1>5, InTables DEF Decision
    <3>2. None \notin Allowances
      BY ConstantsAssumption DEF ConstantsAssumption
    <3>3. CASE rev[r].pc = "settling"
      BY <3>2, <3>3 DEF IInv, DecisionsLock, Target
    <3>4. CASE rev[r].pc = "allowed"
      BY <3>2, <3>4 DEF IInv, DecisionsLock, Target
    <3> QED
      BY <3>1, <3>3, <3>4
  <2>3. act' = [act EXCEPT ![id] = [act[id] EXCEPT !.status = rev[r].status, !.reviewed = TRUE,
                                                   !.allowance = a]]
    BY <1>5 DEF SettleWrite
  <2>4. /\ act'[id].status = rev[r].status /\ act'[id].grant = act[id].grant
        /\ act'[id].allowance = a
        /\ \A other \in Ids : other # id => act'[other] = act[other]
    <3>1. act \in [Ids -> ActionRow] /\ act[id] \in ActionRow
      BY <2>1, Types DEF IInv
    <3> QED
      BY <2>1, <2>3, <3>1 DEF ActionRow
  <2>5. /\ UNCHANGED <<sub, wk, effects>>
        /\ rev'[r].pc = "idle" /\ \A q \in Reviewers : q # r => rev'[q] = rev[q]
        /\ decided \subseteq decided' /\ (rev[r].status = "queued" => id \in decided')
    BY <1>5, Types DEF IInv, SettleWrite, NoDecision
  <2>6. /\ \A b \in Allowances : b # a => allowed'[b] = allowed[b]
        /\ a # None => allowed'[a].state = "active" /\ allowed'[a].grant = act[id].grant
    <3>1. allowed \in [Allowances -> AllowanceRow]
      BY Types DEF IInv
    <3>2. allowed' = IF a = None THEN allowed
                     ELSE [allowed EXCEPT ![a] = [state |-> "active", grant |-> act[id].grant,
                                                  ver |-> act[id].ver, stale |-> FALSE]]
      BY <1>5 DEF SettleWrite
    <3> HIDE DEF id, a
    <3> QED
      BY <2>2, <3>1, <3>2
  <2> HIDE DEF a
  <2>7. \A b \in Allowances : \A g : Granted(b, g) =>
          allowed'[b].state # "absent" /\ allowed'[b].grant = g
    BY <2>2, <2>6 DEF Granted, Target
  <2> HIDE DEF id
  <2>8. SubmissionsRead'
    BY <2>5, <2>7, InTables DEF IInv, SubmissionsRead, Granted
  <2>9. DecisionsLock'
    <3>1. ASSUME NEW q \in Reviewers, q # r, rev[q].pc # "idle"
          PROVE  act'[rev[q].id] = act[rev[q].id]
      BY <2>1, <2>4, <3>1 DEF IInv, DecisionsLock
    <3>2. ASSUME NEW q \in Reviewers, q # r, rev[q].pc = "allowed"
          PROVE  allowed'[rev[q].allowance] = allowed[rev[q].allowance]
      BY <2>2, <2>6, <3>2 DEF IInv, DecisionsLock, Target
    <3> QED
      BY <2>5, <3>1, <3>2 DEF IInv, DecisionsLock, Target
  <2>10. AttemptsLock'
    <3>1. \A w \in Workers : Holding(w) => wk[w].id \in Ids /\ wk[w].id # id
      BY <2>1 DEF IInv, AttemptsLock, Holding
    <3>2. \A b \in Allowances : allowed[b].state = "active" => allowed'[b].state = "active"
      BY <2>2, <2>6
    <3> QED
      BY <2>4, <2>5, <3>1, <3>2, InTables DEF IInv, AttemptsLock, Holding
  <2>11. AllowancesMatch'
    BY <2>2, <2>4, <2>6, <2>7, InTables DEF IInv, AllowancesMatch, Granted
  <2>12. ReviewsStand'
    BY <2>4, <2>5 DEF IInv, ReviewsStand
  <2>13. EffectsCounted'
    BY <2>1, <2>4, <2>5 DEF IInv, EffectsCounted
  <2> QED
    BY <2>8, <2>9, <2>10, <2>11, <2>12, <2>13 DEF Rest
<1> QED
  BY <1>2, <1>3, <1>4, <1>5 DEF Settle, SettleCommit

\* An action that nothing holds is forgotten, or settled by the attempt that
\* holds it and ends.
Leaves(id) ==
  /\ \A r \in Reviewers : rev[r].pc # "idle" => rev[r].id # id
  /\ \A w \in Workers : Holding(w) /\ wk[w].id = id => wk'[w].pc = "ack"
  /\ \/ act'[id] = NoAction
     \/ /\ act'[id].status \in Terminal \ {"completed"} /\ act[id].status = "queued"
        /\ act'[id].allowance = act[id].allowance /\ act'[id].grant = act[id].grant
  /\ \A other \in Ids : other # id => act'[other] = act[other]
  /\ \A w \in Workers : \/ wk'[w] = wk[w]
                        \/ wk'[w].pc = "ack" /\ wk[w].pc # "idle" /\ wk'[w].id = wk[w].id
  /\ UNCHANGED <<allowed, sub, rev, effects, decided>>

\* ... which keeps the invariant.
LEMMA RestOfAction ==
  ASSUME IInv, NEW id \in Ids, Leaves(id)
  PROVE  Rest'
<1> USE DEF Leaves
<1>1. SubmissionsRead'
  BY DEF IInv, SubmissionsRead, Granted
<1>2. DecisionsLock'
  <2>1. \A r \in Reviewers : rev[r].pc # "idle" => act'[rev[r].id] = act[rev[r].id]
    BY DEF IInv, DecisionsLock
  <2> QED
    BY <2>1 DEF IInv, DecisionsLock, Target
<1>3. AttemptsLock'
  <2>1. ASSUME NEW w \in Workers, wk'[w].pc \in {"locked", "handler"}
        PROVE  wk'[w] = wk[w] /\ Holding(w) /\ act'[wk[w].id] = act[wk[w].id]
    BY <2>1 DEF IInv, AttemptsLock, Holding
  <2> QED
    BY <2>1 DEF IInv, AttemptsLock, Holding
<1>4. AllowancesMatch'
  BY DEF IInv, AllowancesMatch, Granted, NoAction
<1>5. act'[id].status \notin {"queued", "completed"}
      /\ (act'[id].status # "absent" => act[id].status = "queued")
  BY DEF Terminal, NoAction
<1>6. ReviewsStand' /\ EffectsCounted'
  BY <1>5 DEF IInv, ReviewsStand, EffectsCounted
<1> QED
  BY <1>1, <1>2, <1>3, <1>4, <1>6 DEF Rest

\* Time passes for an action.
LEMMA RestOfExpiry ==
  ASSUME IInv, NEW id \in Ids, ExpireAction(id)
  PROVE  Rest'
<1>1. \A i \in Ids : /\ act'[i].status = act[i].status /\ act'[i].grant = act[i].grant
                     /\ act'[i].ver = act[i].ver /\ act'[i].reviewed = act[i].reviewed
                     /\ act'[i].allowance = act[i].allowance
  <2>1. act \in [Ids -> ActionRow] /\ \A i \in Ids : act[i] \in ActionRow
    BY Types DEF IInv
  <2> QED
    BY <2>1 DEF ExpireAction, ActionRow
<1>2. UNCHANGED <<allowed, sub, rev, wk, effects, decided>>
  BY DEF ExpireAction
<1>3. SubmissionsRead'
  BY <1>2 DEF IInv, SubmissionsRead, Granted
<1>4. DecisionsLock' /\ AttemptsLock'
  BY <1>1, <1>2 DEF IInv, DecisionsLock, AttemptsLock, Target, Holding
<1>5. AllowancesMatch' /\ ReviewsStand' /\ EffectsCounted'
  BY <1>1, <1>2 DEF IInv, AllowancesMatch, Granted, ReviewsStand, EffectsCounted
<1> QED
  BY <1>3, <1>4, <1>5 DEF Rest

\* Time passes for an allowance that may be held, or one that nobody holds is revoked.
LEMMA RestOfAllowance ==
  ASSUME IInv, NEW a \in Allowances, ExpireAllowance(a) \/ RevokeAllowance(a)
  PROVE  Rest'
<1>1. UNCHANGED <<act, sub, rev, wk, effects, decided>>
  BY DEF ExpireAllowance, RevokeAllowance
<1>2. \A b \in Allowances : \/ allowed'[b].state = allowed[b].state
                            \/ b = a /\ ~Shared(a) /\ ~Held(a) /\ allowed'[b].state = "revoked"
  BY Types DEF IInv, AllowanceRow, ExpireAllowance, RevokeAllowance
<1>3. \A b \in Allowances : allowed'[b].grant = allowed[b].grant
  <2>1. allowed \in [Allowances -> AllowanceRow] /\ allowed[a] \in AllowanceRow
    BY Types DEF IInv
  <2> QED
    BY <2>1 DEF AllowanceRow, ExpireAllowance, RevokeAllowance
<1>4. \A b \in Allowances : \A g : Granted(b, g) =>
         allowed'[b].state # "absent" /\ allowed'[b].grant = g
  BY <1>2, <1>3 DEF Granted
<1>5. SubmissionsRead'
  BY <1>1, <1>4, InTables DEF IInv, SubmissionsRead, Granted
<1>6. AttemptsLock'
  BY <1>1, <1>2, InTables DEF IInv, AttemptsLock, Holding, Shared
<1>7. AllowancesMatch'
  BY <1>1, <1>4, InTables DEF IInv, AllowancesMatch, Granted
<1>8. DecisionsLock'
  BY <1>1, <1>2, <1>3 DEF IInv, DecisionsLock, Target, Held
<1>9. ReviewsStand' /\ EffectsCounted'
  BY <1>1 DEF IInv, ReviewsStand, EffectsCounted
<1> QED
  BY <1>5, <1>6, <1>7, <1>8, <1>9 DEF Rest

\* A handler commits the action it holds.
LEMMA RestOfCommit ==
  ASSUME IInv, NEW w \in Workers, NEW st \in {"completed", "failed"}, NEW o,
         wk[w].pc = "handler", Commit(w, st), Ends(w, o)
  PROVE  Rest'
<1> DEFINE id == wk[w].id
<1>1. /\ id \in Ids /\ act[id].status = "queued"
      /\ \A u \in Workers : u # w /\ Holding(u) => wk[u].id # id
      /\ effects[id] = 0
  BY DEF IInv, AttemptsLock, Holding, EffectsCounted
<1>2. /\ act'[id].status = st /\ act'[id].allowance = act[id].allowance
      /\ act'[id].grant = act[id].grant
      /\ \A other \in Ids : other # id => act'[other] = act[other]
  <2>1. act \in [Ids -> ActionRow] /\ act[id] \in ActionRow
    BY <1>1, Types DEF IInv
  <2> QED
    BY <1>1, <2>1 DEF Commit, ActionRow
<1>3. /\ effects'[id] = (IF st = "completed" THEN 1 ELSE 0)
      /\ \A other \in Ids : other # id => effects'[other] = effects[other]
  BY <1>1, Types DEF IInv, Commit
<1>4. UNCHANGED <<allowed, sub, rev, decided>>
  BY DEF Commit
<1>5. /\ wk'[w].pc = "ack" /\ wk'[w].id = id
      /\ \A u \in Workers : u # w => wk'[u] = wk[u]
  <2>1. wk \in [Workers -> Attempt] /\ wk[w] \in Attempt
    BY Types DEF IInv
  <2> QED
    BY <2>1 DEF Ends, Attempt
<1> HIDE DEF id
<1>6. SubmissionsRead'
  BY <1>4 DEF IInv, SubmissionsRead, Granted
<1>7. DecisionsLock'
  <2>1. \A r \in Reviewers : rev[r].pc # "idle" => act'[rev[r].id] = act[rev[r].id]
    BY <1>1, <1>2 DEF IInv, DecisionsLock
  <2> QED
    BY <1>4, <2>1 DEF IInv, DecisionsLock, Target
<1>8. AttemptsLock'
  BY <1>1, <1>2, <1>4, <1>5 DEF IInv, AttemptsLock, Holding
<1>9. AllowancesMatch'
  BY <1>2, <1>4 DEF IInv, AllowancesMatch, Granted
<1>10. ReviewsStand' /\ EffectsCounted'
  BY <1>2, <1>3, <1>4 DEF IInv, ReviewsStand, EffectsCounted
<1> QED
  BY <1>6, <1>7, <1>8, <1>9, <1>10 DEF Rest

\* An attempt takes its row, or its handler starts.
LEMMA RestOfHolder ==
  ASSUME IInv, NEW w \in Workers, ExecuteLock(w) \/ \E v \in Versions : ExecuteBegin(w, v)
  PROVE  Rest'
<1> DEFINE id == wk[w].id
<1>1. UNCHANGED <<act, allowed, sub, rev, effects, decided>> /\ wk[w].pc # "idle"
  BY DEF ExecuteBegin, ExecuteLock
<1>2. wk \in [Workers -> Attempt] /\ wk[w] \in Attempt /\ id \in Ids
  BY <1>1, Types DEF IInv, AttemptsLock
<1>3. ASSUME AttemptsLock' PROVE Rest'
  BY <1>1, <1>3 DEF IInv, Rest, SubmissionsRead, DecisionsLock, AllowancesMatch, ReviewsStand,
                   EffectsCounted, Granted, Target
<1>4. CASE ExecuteLock(w)
  <2>1. /\ wk'[w].pc = "locked" /\ wk'[w].id = id
        /\ ~wk'[w].expired => wk'[w].inTime
        /\ \A u \in Workers : u # w => wk'[u] = wk[u]
    BY <1>2, <1>4 DEF ExecuteLock, LockedRow, Attempt
  <2>2. act[id].status = "queued" /\ \A u \in Workers : Holding(u) => wk[u].id # id
    BY <1>4 DEF ExecuteLock, Locked, Holding
  <2> HIDE DEF id
  <2> QED
    BY <1>1, <1>2, <1>3, <2>1, <2>2 DEF IInv, AttemptsLock, Holding
<1>5. ASSUME NEW v \in Versions, ExecuteBegin(w, v) PROVE Rest'
  <2>1. /\ wk'[w].pc = "handler" /\ wk'[w].id = id /\ wk'[w].ver = v
        /\ wk[w].inTime => wk'[w].inTime
        /\ \A u \in Workers : u # w => wk'[u] = wk[u]
    BY <1>2, <1>5 DEF ExecuteBegin, Attempt
  <2>2. /\ act[id].status = "queued" /\ wk'[w].inTime
        /\ \A u \in Workers : u # w /\ Holding(u) => wk[u].id # id
    BY <1>5, <2>1 DEF ExecuteBegin, IInv, AttemptsLock, Holding
  <2>3. /\ act[id].ver = v /\ (v \in Required => act[id].reviewed)
        /\ act[id].allowance # None => allowed[act[id].allowance].state = "active"
    BY <1>5 DEF ExecuteBegin, AllowanceGone, Current
  <2> HIDE DEF id
  <2>4. ASSUME NEW u \in Workers, Holding(u)'
        PROVE  /\ act[wk'[u].id].status = "queued"
               /\ ~wk'[u].expired => wk'[u].inTime
               /\ \A x \in Workers : x # u /\ Holding(x)' => wk'[x].id # wk'[u].id
    BY <2>1, <2>2, <2>4 DEF IInv, AttemptsLock, Holding
  <2>5. ASSUME NEW u \in Workers, wk'[u].pc = "handler"
        PROVE  LET a == act[wk'[u].id]
               IN  /\ wk'[u].inTime
                   /\ a.ver = wk'[u].ver
                   /\ a.ver \in Required => a.reviewed
                   /\ a.allowance # None => allowed[a.allowance].state = "active"
    BY <2>1, <2>2, <2>3, <2>5 DEF IInv, AttemptsLock
  <2> QED
    BY <1>1, <1>2, <1>3, <2>1, <2>4, <2>5 DEF IInv, AttemptsLock
<1> HIDE DEF id
<1> QED
  BY <1>4, <1>5

\* The steps of an attempt.
LEMMA RestExecute ==
  ASSUME IInv, NEW w \in Workers, Execute(w)
  PROVE  Rest'
<1>1. \A o : /\ [wk[w] EXCEPT !.pc = "ack", !.outcome = o].pc = "ack"
             /\ [wk[w] EXCEPT !.pc = "ack", !.outcome = o].id = wk[w].id
  BY InTables DEF Attempt
<1>2. wk[w].pc # "idle" => wk[w].id \in Ids
  BY DEF IInv, AttemptsLock
<1>3. CASE ExecuteNothing(w) \/ RollsBack(w)
  <2>1. PICK o \in {"ok", "error"} : wk' = [wk EXCEPT ![w] = [wk[w] EXCEPT !.pc = "ack", !.outcome = o]]
    BY <1>3 DEF ExecuteNothing, RollsBack, Ends
  <2> DEFINE l == [wk[w] EXCEPT !.pc = "ack", !.outcome = o]
  <2>2. l.pc = "ack" /\ l.id \in Ids
    BY <1>1, <1>2, <1>3 DEF ExecuteNothing, RollsBack
  <2>3. UNCHANGED <<act, allowed, sub, rev, effects, decided>>
    BY <1>3 DEF ExecuteNothing, RollsBack
  <2>4. wk' = [wk EXCEPT ![w] = l]
    BY <2>1
  <2> HIDE DEF l
  <2> QED
    BY <2>2, <2>3, <2>4, RestOfWorker
<1>4. CASE Dropped(w) \/ Acknowledge(w)
  <2>1. NoAttempt.pc = "idle"
    BY DEF NoAttempt
  <2> QED
    BY <1>4, <2>1, RestOfWorker DEF Dropped, Acknowledge
<1>5. ASSUME NEW v \in Versions, ExecuteInvalid(w, v) PROVE Rest'
  <2> DEFINE id == wk[w].id
  <2>1. /\ id \in Ids /\ act[id].status = "queued" /\ wk[w].pc # "idle"
        /\ \A u \in Workers : u # w /\ Holding(u) => wk[u].id # id
        /\ \A r \in Reviewers : rev[r].pc # "idle" => rev[r].id # id
    BY <1>5 DEF ExecuteInvalid, IInv, AttemptsLock, DecisionsLock, Holding
  <2>2. PICK st \in {"expired", "invalidated"} : act' = [act EXCEPT ![id].status = st]
    BY <1>5 DEF ExecuteInvalid
  <2>3. /\ act'[id].status = st /\ act'[id].allowance = act[id].allowance
        /\ act'[id].grant = act[id].grant
        /\ \A other \in Ids : other # id => act'[other] = act[other]
    <3>1. act \in [Ids -> ActionRow] /\ act[id] \in ActionRow
      BY <2>1, Types DEF IInv
    <3> QED
      BY <2>1, <2>2, <3>1 DEF ActionRow
  <2>4. act'[id].status \in Terminal \ {"completed"}
    BY <2>3 DEF Terminal
  <2>5. /\ wk'[w].pc = "ack" /\ wk'[w].id = id
        /\ \A u \in Workers : u # w => wk'[u] = wk[u]
    BY <1>1, <1>5, Types DEF IInv, ExecuteInvalid, Ends
  <2>6. UNCHANGED <<allowed, sub, rev, effects, decided>>
    BY <1>5 DEF ExecuteInvalid
  <2> HIDE DEF id
  <2>7. \A u \in Workers : \/ wk'[u] = wk[u]
                           \/ wk'[u].pc = "ack" /\ wk[u].pc # "idle" /\ wk'[u].id = wk[u].id
    BY <2>1, <2>5 DEF id
  <2>8. \A u \in Workers : Holding(u) /\ wk[u].id = id => wk'[u].pc = "ack"
    BY <2>1, <2>5
  <2>9. Leaves(id)
    BY <2>1, <2>3, <2>4, <2>6, <2>7, <2>8 DEF Leaves
  <2> QED
    BY <2>1, <2>9, RestOfAction
<1>6. CASE ExecuteLock(w) \/ \E v \in Versions : ExecuteBegin(w, v)
  BY <1>6, RestOfHolder
<1>7. CASE \/ Completes(w) \/ FailsForGood(w) \/ FailsOnLast(w)
           \/ \E st \in {"completed", "failed"} : CommitUnseen(w, st)
  BY <1>7, RestOfCommit DEF Completes, FailsForGood, FailsOnLast, CommitUnseen
<1> QED
  BY <1>3, <1>4, <1>5, <1>6, <1>7 DEF Execute

\* The invariant is inductive.
LEMMA Inductive == IInv /\ [Next]_vars => IInv'
<1> SUFFICES ASSUME IInv, [Next]_vars PROVE IInv'
  OBVIOUS
<1>0. TypeOK' /\ Rest' => IInv'
  BY DEF IInv, Rest
<1>1. ASSUME NEW s \in Submitters, Submit(s) PROVE IInv'
  BY <1>0, <1>1, TypeSubmit, RestSubmit DEF IInv
<1>2. ASSUME NEW r \in Reviewers, Settle(r) PROVE IInv'
  BY <1>0, <1>2, TypeSettle, RestSettle DEF IInv, DecisionsLock
<1>3. ASSUME NEW w \in Workers, Execute(w) PROVE IInv'
  BY <1>0, <1>3, TypeExecute, RestExecute DEF IInv, AttemptsLock
<1>4. ASSUME NEW w \in Workers, NEW id \in Ids, Claim(w, id) PROVE IInv'
  <2> DEFINE l == [NoAttempt EXCEPT !.pc = "claimed", !.id = id, !.attempt = job[id].attempts + 1]
  <2>1. l.pc = "claimed" /\ l.id = id
    BY DEF NoAttempt
  <2>2. wk' = [wk EXCEPT ![w] = l] /\ UNCHANGED <<act, allowed, sub, rev, effects, decided>>
    BY <1>4 DEF Claim
  <2> HIDE DEF l
  <2> QED
    BY <1>0, <1>4, <2>1, <2>2, TypeRest, RestOfWorker DEF IInv
<1>5. CASE Host
  <2>1. ASSUME NEW id \in Ids, PruneJob(id) \/ Sweep(id) PROVE Rest'
    BY <2>1, RestSame DEF PruneJob, Sweep
  <2>2. ASSUME NEW id \in Ids, Forget(id) PROVE Rest'
    <3>1. act'[id] = NoAction /\ \A other \in Ids : other # id => act'[other] = act[other]
      BY <2>2, Types DEF IInv, Forget
    <3>2. /\ wk' = wk /\ UNCHANGED <<allowed, sub, rev, effects, decided>>
          /\ \A r \in Reviewers : rev[r].pc # "idle" => rev[r].id # id
          /\ \A w \in Workers : Holding(w) => wk[w].id # id
      BY <2>2 DEF Forget, Locked, Holding
    <3> QED
      BY <3>1, <3>2, RestOfAction DEF Leaves
  <2>3. ASSUME NEW id \in Ids, ExpireAction(id) PROVE Rest'
    BY <2>3, RestOfExpiry
  <2>4. ASSUME NEW g \in Grants, RevokeGrant(g) PROVE Rest'
    BY <2>4, RestSame DEF RevokeGrant
  <2>5. ASSUME NEW v \in Versions, Deploy(v) \/ Retire(v) PROVE Rest'
    BY <2>5, RestSame DEF Deploy, Retire
  <2>6. ASSUME NEW a \in Allowances, ExpireAllowance(a) \/ RevokeAllowance(a) PROVE Rest'
    BY <2>6, RestOfAllowance
  <2> QED
    BY <1>0, <1>5, <2>1, <2>2, <2>3, <2>4, <2>5, <2>6, TypeRest DEF Host, IInv
<1>6. CASE UNCHANGED vars
  BY <1>0, <1>6, Types, RestSame DEF vars, IInv
<1> QED
  BY <1>1, <1>2, <1>3, <1>4, <1>5, <1>6 DEF Next

-----------------------------------------------------------------------------
(* What a step does to the status of an action.                              *)

\* Whatever a step does elsewhere, a status only moves forward, or the record goes.
LEMMA StatusMoves ==
  ASSUME IInv, Next, NEW id \in Ids
  PROVE  \/ act'[id].status = act[id].status
         \/ act[id].status = "absent" /\ act'[id].status \in {"pending", "queued"}
         \/ act[id].status = "pending"
              /\ act'[id].status \in {"expired", "rejected", "queued", "invalidated"}
         \/ act[id].status = "queued"
              /\ act'[id].status \in {"expired", "invalidated", "completed", "failed"}
         \/ MayForget /\ act[id].status \in Terminal \cup {"pending"} /\ act'[id].status = "absent"
<1> DEFINE Moves == act'[id].status = act[id].status
<1>0. act \in [Ids -> ActionRow] /\ \A i \in Ids : act[i] \in ActionRow
  BY Types DEF IInv
<1>1. ASSUME NEW s \in Submitters, Submit(s), ~Moves
      PROVE  act[id].status = "absent" /\ act'[id].status \in {"pending", "queued"}
  BY <1>0, <1>1 DEF Submit, SubmitBegin, SubmitInsert, SubmitRepeat, SubmitLost
<1>2. ASSUME NEW r \in Reviewers, Settle(r), ~Moves
      PROVE  /\ act[id].status = "pending"
             /\ act'[id].status \in {"expired", "rejected", "queued", "invalidated"}
  <2>1. SettleWrite(r) /\ rev[r].pc # "idle"
    BY <1>2 DEF Settle, SettleBegin, SettleCommit, SettleAllow, SettleLost
  <2>2. act' = [act EXCEPT ![rev[r].id] = [act[rev[r].id] EXCEPT !.status = rev[r].status,
                                             !.reviewed = TRUE, !.allowance = rev[r].allowance]]
    BY <2>1 DEF SettleWrite
  <2>3. rev[r].id = id
    BY <1>0, <1>2, <2>2
  <2>4. act'[id].status = rev[r].status
    BY <1>0, <2>2, <2>3 DEF ActionRow
  <2> QED
    BY <2>1, <2>3, <2>4 DEF IInv, DecisionsLock
<1>3. ASSUME NEW w \in Workers, Execute(w), ~Moves
      PROVE  /\ act[id].status = "queued"
             /\ act'[id].status \in {"expired", "invalidated", "completed", "failed"}
  <2>1. PICK st \in {"expired", "invalidated", "completed", "failed"} :
           /\ act' = [act EXCEPT ![wk[w].id].status = st]
           /\ Holding(w)
    BY <1>3
    DEF Execute, ExecuteNothing, ExecuteLock, ExecuteInvalid, ExecuteBegin, Completes, FailsForGood,
        FailsOnLast, CommitUnseen, Commit, RollsBack, Dropped, Acknowledge, Holding
  <2>2. wk[w].id = id
    BY <1>0, <1>3, <2>1
  <2>3. act'[id].status = st
    BY <1>0, <2>1, <2>2 DEF ActionRow
  <2> QED
    BY <2>1, <2>2, <2>3 DEF IInv, AttemptsLock
<1>4. ASSUME Host, ~Moves
      PROVE  /\ MayForget /\ act[id].status \in Terminal \cup {"pending"}
             /\ act'[id].status = "absent"
  <2>1. ASSUME NEW i \in Ids, ExpireAction(i) PROVE FALSE
    BY <1>0, <1>4, <2>1 DEF ExpireAction, ActionRow
  <2>2. PICK i \in Ids : Forget(i)
    BY <1>4, <2>1
    DEF Host, PruneJob, Sweep, RevokeGrant, Deploy, Retire, ExpireAllowance, RevokeAllowance
  <2> QED
    BY <1>0, <1>4, <2>2 DEF Forget, NoAction
<1>5. ASSUME NEW w \in Workers, NEW i \in Ids, Claim(w, i) PROVE Moves
  BY <1>5 DEF Claim
<1> QED
  BY <1>1, <1>2, <1>3, <1>4, <1>5 DEF Next

\* Only the commit of a handler that completed adds an effect.
LEMMA EffectMoves ==
  ASSUME IInv, Next, NEW id \in Ids, effects'[id] > effects[id]
  PROVE  \E w \in Workers : wk[w].pc = "handler" /\ wk[w].id = id
<1>0. effects \in [Ids -> Nat] /\ effects[id] \in Nat /\ ~(effects[id] > effects[id])
      /\ ~(0 > effects[id])
  BY Types DEF IInv
<1>1. ASSUME NEW s \in Submitters, Submit(s) PROVE FALSE
  <2>1. effects' = effects \/ effects' = [effects EXCEPT ![sub[s].id] = 0]
    BY <1>1 DEF Submit, SubmitBegin, SubmitInsert, SubmitRepeat, SubmitLost
  <2> QED
    BY <1>0, <2>1
<1>2. ASSUME NEW r \in Reviewers, Settle(r) PROVE FALSE
  BY <1>0, <1>2 DEF Settle, SettleBegin, SettleCommit, SettleAllow, SettleWrite, SettleLost
<1>3. ASSUME Host PROVE FALSE
  BY <1>0, <1>3 DEF Host, PruneJob, Sweep, Forget, ExpireAction, RevokeGrant, Deploy, Retire,
                    ExpireAllowance, RevokeAllowance
<1>4. ASSUME NEW w \in Workers, NEW i \in Ids, Claim(w, i) PROVE FALSE
  BY <1>0, <1>4 DEF Claim
<1>5. ASSUME NEW w \in Workers, Execute(w) PROVE wk[w].pc = "handler" /\ wk[w].id = id
  <2>1. wk[w].pc = "handler" /\ \E st : Commit(w, st)
    BY <1>0, <1>5
    DEF Execute, ExecuteNothing, ExecuteLock, ExecuteInvalid, ExecuteBegin, Completes, FailsForGood,
        FailsOnLast, CommitUnseen, RollsBack, Dropped, Acknowledge
  <2>2. wk[w].id = id
    BY <1>0, <2>1 DEF Commit
  <2> QED
    BY <2>1, <2>2
<1> QED
  BY <1>1, <1>2, <1>3, <1>4, <1>5 DEF Next

\* The invariant holds throughout.
LEMMA Invariant == Spec => []IInv
<1>1. Init => IInv
  BY TypeInit, RestInit DEF Rest, IInv
<1> QED
  BY <1>1, Inductive, PTL DEF Spec

-----------------------------------------------------------------------------
(* The properties.                                                           *)

\* Every row of the tables and every transaction in progress has its type.
THEOREM TypeCorrect == Spec => []TypeOK
BY Invariant, PTL DEF IInv

\* Overlapping attempts, retries after a lost commit and re-claims after a lapsed
\* lease included, the handler of a record took effect exactly once when it is
\* reported completed, and never otherwise (execute, record).
THEOREM ExactlyOnce == Spec => []EffectIffCompleted
<1>1. IInv => EffectIffCompleted
  BY DEF IInv, EffectsCounted, EffectIffCompleted, Reported
<1> QED
  BY <1>1, Invariant, PTL

\* A handler takes effect only under the definition the record was submitted
\* with, after the user's decision on it or under an allowance of its grant, in
\* an attempt that found the record unexpired (submit, settle, execute).
THEOREM Authorised == Spec => OnlyAuthorisedEffects
<1> DEFINE A == \A id \in Ids : effects'[id] > effects[id] =>
                 /\ \E w \in Workers : /\ wk[w].pc = "handler" /\ wk[w].id = id
                                       /\ wk[w].ver = act[id].ver /\ wk[w].inTime
                 /\ act[id].ver \in Required =>
                      \/ id \in decided
                      \/ /\ act[id].allowance # None
                         /\ allowed[act[id].allowance].grant = act[id].grant
<1>1. IInv /\ [Next]_vars => [A]_vars
  <2> SUFFICES ASSUME IInv, Next, NEW id \in Ids, effects'[id] > effects[id]
               PROVE  /\ \E w \in Workers : /\ wk[w].pc = "handler" /\ wk[w].id = id
                                            /\ wk[w].ver = act[id].ver /\ wk[w].inTime
                      /\ act[id].ver \in Required =>
                           \/ id \in decided
                           \/ /\ act[id].allowance # None
                              /\ allowed[act[id].allowance].grant = act[id].grant
    OBVIOUS
  <2>1. PICK w \in Workers : wk[w].pc = "handler" /\ wk[w].id = id
    BY EffectMoves
  <2>2. /\ act[id].status = "queued" /\ act[id].ver = wk[w].ver /\ wk[w].inTime
        /\ act[id].ver \in Required => act[id].reviewed
    BY <2>1 DEF IInv, AttemptsLock, Holding
  <2>3. act[id].ver \in Required => id \in decided \/ act[id].allowance # None
    BY <2>2 DEF IInv, ReviewsStand
  <2>4. act[id].allowance # None => allowed[act[id].allowance].grant = act[id].grant
    BY DEF IInv, AllowancesMatch, Granted
  <2> QED
    BY <2>1, <2>2, <2>3, <2>4
<1> QED
  BY <1>1, Invariant, PTL DEF Spec, OnlyAuthorisedEffects

\* Nothing takes effect under an allowance once revoke_allowance has returned.
THEOREM Revoked == Spec => RevocationStops
<1> DEFINE A == \A id \in Ids : effects'[id] > effects[id] /\ act[id].allowance # None =>
                 allowed[act[id].allowance].state = "active"
<1>1. IInv /\ [Next]_vars => [A]_vars
  <2> SUFFICES ASSUME IInv, Next, NEW id \in Ids, effects'[id] > effects[id],
                      act[id].allowance # None
               PROVE  allowed[act[id].allowance].state = "active"
    OBVIOUS
  <2>1. PICK w \in Workers : wk[w].pc = "handler" /\ wk[w].id = id
    BY EffectMoves
  <2> QED
    BY <2>1 DEF IInv, AttemptsLock
<1> QED
  BY <1>1, Invariant, PTL DEF Spec, RevocationStops

\* A settled record is only ever deleted, and a queued one never returns to review.
THEOREM Settled == Spec => SettledStands
<1> DEFINE A == \A id \in Ids :
                 /\ act[id].status \in Terminal => act'[id].status \in {act[id].status, "absent"}
                 /\ act[id].status = "queued" => act'[id].status \notin {"pending", "rejected"}
<1>1. IInv /\ [Next]_vars => [A]_vars
  <2> SUFFICES ASSUME IInv, Next, NEW id \in Ids
               PROVE  /\ act[id].status \in Terminal =>
                            act'[id].status \in {act[id].status, "absent"}
                      /\ act[id].status = "queued" => act'[id].status \notin {"pending", "rejected"}
    OBVIOUS
  <2> QED
    BY StatusMoves DEF Terminal
<1> QED
  BY <1>1, Invariant, PTL DEF Spec, SettledStands

-----------------------------------------------------------------------------
(* Jobs of records that are kept.                                            *)

\* The status of a record that is not past its review.
Unstarted == {"absent", "pending"}

\* While records are kept, what is started stays so, and what is settled too.
LEMMA KeptMoves ==
  ASSUME ~MayForget, IInv, [Next]_vars, NEW id \in Ids
  PROVE  /\ act[id].status \notin Unstarted => act'[id].status \notin Unstarted
         /\ act[id].status \in Terminal => act'[id].status \in Terminal
         /\ act[id].status \notin Unstarted /\ act'[id].status = "queued" => act[id].status = "queued"
<1>1. CASE UNCHANGED vars
  BY <1>1 DEF vars, Unstarted
<1>2. CASE Next
  BY <1>2, StatusMoves DEF Unstarted, Terminal
<1> QED
  BY <1>1, <1>2

\* A step that adds no job and starts no record: the attempts decide.
LEMMA JobsOfAttempts ==
  ASSUME ~MayForget, IInv, JobInv, [Next]_vars,
         \A id \in Ids : /\ job'[id].status # "absent" => act[id].status \notin Unstarted
                         /\ act'[id].status = "queued" =>
                              /\ act[id].status \notin Unstarted
                              /\ job'[id].status \in {"pending", "running", "failed"},
         \A w \in Workers : wk'[w].pc # "idle" =>
            /\ wk'[w].id \in Ids /\ act[wk'[w].id].status \notin Unstarted
            /\ wk'[w].pc = "ack" /\ wk'[w].outcome = "ok" => act'[wk'[w].id].status \in Terminal
  PROVE  JobInv'
<1>1. \A id \in Ids : act[id].status \notin Unstarted => act'[id].status \notin Unstarted
  BY KeptMoves
<1>2. QueuedHasJob'
  BY DEF QueuedHasJob
<1>3. JobsFollow'
  BY <1>1 DEF JobsFollow, Unstarted
<1> QED
  BY <1>2, <1>3 DEF JobInv

\* Every transaction leaves each queued action a job.
LEMMA JobInductive == ~MayForget /\ IInv /\ JobInv /\ [Next]_vars => JobInv'
<1> SUFFICES ASSUME ~MayForget, IInv, JobInv, [Next]_vars PROVE JobInv'
  OBVIOUS
<1>0. /\ job \in [Ids -> JobRow] /\ act \in [Ids -> ActionRow]
      /\ wk \in [Workers -> Attempt] /\ \A w \in Workers : wk[w] \in Attempt
  BY Types DEF IInv
<1>1. \A id \in Ids :
         /\ job[id].status # "absent" => act[id].status \notin Unstarted
         /\ act[id].status = "queued" => /\ act[id].status \notin Unstarted
                                         /\ job[id].status \in {"pending", "running", "failed"}
  BY DEF JobInv, JobsFollow, QueuedHasJob, Unstarted
<1>2. \A w \in Workers : wk[w].pc # "idle" =>
         /\ wk[w].id \in Ids /\ act[wk[w].id].status \notin Unstarted
         /\ wk[w].pc = "ack" /\ wk[w].outcome = "ok" => act[wk[w].id].status \in Terminal
  BY DEF IInv, AttemptsLock, JobInv, JobsFollow, Unstarted
<1>3. \A id \in Ids :
         /\ act[id].status \notin Unstarted => act'[id].status \notin Unstarted
         /\ act[id].status \in Terminal => act'[id].status \in Terminal
         /\ act[id].status \notin Unstarted /\ act'[id].status = "queued" =>
               act[id].status = "queued"
  BY KeptMoves
<1>4. ASSUME UNCHANGED <<job, wk>>,
             \A id \in Ids : act'[id].status = "queued" => act[id].status \notin Unstarted
      PROVE  JobInv'
  BY <1>1, <1>2, <1>3, <1>4, JobsOfAttempts
\* enqueue, in the transaction that queues the action.
<1>5. ASSUME NEW id \in Ids, act[id].status \in Unstarted,
             \/ job' = job /\ act'[id].status # "queued"
             \/ job' = Enqueued(id) /\ act'[id].status = "queued",
             \A other \in Ids : other # id => act'[other] = act[other],
             wk' = wk
      PROVE  JobInv'
  <2>1. job[id].status = "absent"
    BY <1>1, <1>5
  <2>2. /\ \A other \in Ids : other # id => job'[other] = job[other]
        /\ job'[id].status \in {"absent", "pending"}
        /\ job'[id].status = "pending" <=> act'[id].status = "queued"
    BY <1>0, <1>5, <2>1, EnqueuedRow DEF IInv
  <2>3. QueuedHasJob'
    BY <1>1, <1>5, <2>2 DEF QueuedHasJob
  <2>4. \A i \in Ids : job'[i].status # "absent" => act'[i].status \notin Unstarted
    BY <1>1, <1>3, <2>2 DEF Unstarted
  <2>5. \A w \in Workers : wk[w].pc # "idle" => act'[wk[w].id].status \notin Unstarted
    BY <1>2, <1>3
  <2>6. JobsFollow'
    BY <1>2, <1>3, <1>5, <2>4, <2>5 DEF JobsFollow, Unstarted
  <2> QED
    BY <2>3, <2>6 DEF JobInv
<1>6. ASSUME NEW s \in Submitters, Submit(s) PROVE JobInv'
  <2>1. CASE SubmitInsert(s)
    <3> DEFINE id == sub[s].id
    <3>1. id \in Ids /\ act[id].status = "absent" /\ wk' = wk
      BY <2>1 DEF SubmitInsert, IInv, SubmissionsRead
    <3>2. /\ \/ job' = job /\ act'[id].status # "queued"
             \/ job' = Enqueued(id) /\ act'[id].status = "queued"
          /\ \A other \in Ids : other # id => act'[other] = act[other]
      BY <1>0, <2>1, <3>1 DEF SubmitInsert
    <3> HIDE DEF id
    <3> QED
      BY <1>5, <3>1, <3>2 DEF Unstarted
  <2>2. CASE ~SubmitInsert(s)
    BY <1>1, <1>4, <1>6, <2>2 DEF Submit, SubmitBegin, SubmitRepeat, SubmitLost
  <2> QED
    BY <2>1, <2>2
<1>7. ASSUME NEW r \in Reviewers, Settle(r) PROVE JobInv'
  <2>1. ASSUME SettleWrite(r), rev[r].pc # "idle" PROVE JobInv'
    <3> DEFINE id == rev[r].id
    <3>1. id \in Ids /\ act[id].status = "pending" /\ wk' = wk
      BY <2>1 DEF SettleWrite, IInv, DecisionsLock
    <3>2. act' = [act EXCEPT ![id] = [act[id] EXCEPT !.status = rev[r].status, !.reviewed = TRUE,
                                                     !.allowance = rev[r].allowance]]
      BY <2>1 DEF SettleWrite
    <3>3. act'[id].status = rev[r].status
      <4>1. act[id] \in ActionRow
        BY <1>0, <3>1
      <4> QED
        BY <1>0, <3>1, <3>2, <4>1 DEF ActionRow
    <3>4. job' = IF rev[r].status = "queued" THEN Enqueued(id) ELSE job
      BY <2>1 DEF SettleWrite
    <3>5. \A other \in Ids : other # id => act'[other] = act[other]
      BY <1>0, <3>2
    <3> HIDE DEF id
    <3> QED
      BY <1>5, <3>1, <3>3, <3>4, <3>5 DEF Unstarted
  <2>2. ASSUME UNCHANGED <<act, job, wk>> PROVE JobInv'
    BY <1>1, <1>4, <2>2
  <2> QED
    BY <1>7, <2>1, <2>2 DEF Settle, SettleBegin, SettleCommit, SettleAllow, SettleLost
<1>8. ASSUME NEW w \in Workers, NEW id \in Ids, Claim(w, id) PROVE JobInv'
  <2>1. /\ job'[id].status = "running" /\ job[id].status # "absent"
        /\ \A other \in Ids : other # id => job'[other] = job[other]
        /\ wk'[w].pc = "claimed" /\ wk'[w].id = id
        /\ \A u \in Workers : u # w => wk'[u] = wk[u]
        /\ act' = act
    BY <1>0, <1>8 DEF Claim, NoAttempt
  <2> QED
    BY <1>1, <1>2, <2>1, JobsOfAttempts
<1>9. ASSUME NEW w \in Workers, Execute(w) PROVE JobInv'
  <2> DEFINE id == wk[w].id
  <2>1. \A i \in Ids : act'[i].status = "queued" => act[i].status \notin Unstarted
    <3>1. PICK st : act' = act \/ (st \in Terminal /\ act' = [act EXCEPT ![id].status = st])
      BY <1>9
      DEF Execute, ExecuteNothing, ExecuteLock, ExecuteInvalid, ExecuteBegin, Completes, FailsForGood,
          FailsOnLast, CommitUnseen, Commit, RollsBack, Dropped, Acknowledge, Terminal
    <3>2. \A i \in Ids : act[i] \in ActionRow
      BY <1>0
    <3>3. \A i \in Ids : act'[i].status = "queued" => act[i].status = "queued"
      BY <1>0, <3>1, <3>2 DEF ActionRow, Terminal
    <3> QED
      BY <1>1, <3>3
  <2>2. ASSUME NEW o \in {"ok", "error"}, Ends(w, o), wk[w].pc # "idle", job' = job,
               o = "ok" => act'[id].status \in Terminal
        PROVE  JobInv'
    <3>1. /\ wk'[w].id = id /\ wk'[w].outcome = o
          /\ \A u \in Workers : u # w => wk'[u] = wk[u]
      BY <1>0, <2>2 DEF Ends, Attempt
    <3>2. \A u \in Workers : wk'[u].pc # "idle" =>
            /\ wk'[u].id \in Ids /\ act[wk'[u].id].status \notin Unstarted
            /\ wk'[u].pc = "ack" /\ wk'[u].outcome = "ok" => act'[wk'[u].id].status \in Terminal
      <4>1. CASE \A u \in Workers : u = w
        BY <1>2, <2>2, <3>1, <4>1
      <4>2. ASSUME NEW u \in Workers, u # w
            PROVE  wk'[u].pc # "idle" =>
                   /\ wk'[u].id \in Ids /\ act[wk'[u].id].status \notin Unstarted
                   /\ wk'[u].pc = "ack" /\ wk'[u].outcome = "ok" =>
                         act'[wk'[u].id].status \in Terminal
        BY <1>2, <1>3, <3>1, <4>2
      <4> QED
        BY <1>2, <2>2, <3>1, <4>2
    <3> QED
      BY <1>1, <1>3, <2>1, <2>2, <3>2, JobsOfAttempts
  <2>3. CASE ExecuteNothing(w)
    <3>1. act[id].status \in Terminal
      <4>1. id \in Ids /\ act[id].status \in ActionStatus
        BY <1>0, <1>2, <2>3 DEF ExecuteNothing, ActionRow
      <4> QED
        BY <1>2, <2>3, <4>1 DEF ExecuteNothing, Unstarted, ActionStatus
    <3> QED
      BY <2>2, <2>3, <3>1 DEF ExecuteNothing
  <2>4. ASSUME NEW v \in Versions, ExecuteInvalid(w, v) PROVE JobInv'
    <3>1. id \in Ids /\ act[id] \in ActionRow
      BY <1>0, <1>2, <2>4 DEF ExecuteInvalid
    <3>2. act'[id].status \in Terminal
      BY <1>0, <2>4, <3>1 DEF ExecuteInvalid, Terminal, ActionRow
    <3> QED
      BY <2>2, <2>4, <3>2 DEF ExecuteInvalid
  <2>5. CASE ExecuteLock(w) \/ \E v \in Versions : ExecuteBegin(w, v)
    <3>1. /\ wk'[w].pc # "ack" /\ wk'[w].id = id /\ wk[w].pc # "idle"
          /\ \A u \in Workers : u # w => wk'[u] = wk[u]
          /\ UNCHANGED <<act, job>>
      BY <1>0, <2>5 DEF ExecuteLock, LockedRow, ExecuteBegin, Attempt
    <3> QED
      BY <1>1, <1>2, <3>1, JobsOfAttempts
  <2>6. ASSUME NEW st \in {"completed", "failed"}, NEW o \in {"ok", "error"},
               wk[w].pc = "handler", Commit(w, st), Ends(w, o)
        PROVE  JobInv'
    <3>1. id \in Ids /\ act[id] \in ActionRow
      BY <1>0, <1>2, <2>6
    <3>2. act'[id].status \in Terminal
      BY <1>0, <2>6, <3>1 DEF Commit, Terminal, ActionRow
    <3> QED
      BY <2>2, <2>6, <3>2 DEF Commit
  <2>7. CASE RollsBack(w)
    BY <2>2, <2>7 DEF RollsBack
  <2>8. CASE Dropped(w) \/ Acknowledge(w)
    <3>1. wk'[w].pc = "idle" /\ act' = act /\ \A u \in Workers : u # w => wk'[u] = wk[u]
      BY <1>0, <2>8 DEF Dropped, Acknowledge, NoAttempt
    <3>2. ASSUME NEW i \in Ids
          PROVE  /\ job'[i].status # "absent" => job[i].status # "absent"
                 /\ job[i].status \in {"pending", "running", "failed"}
                      /\ act[i].status = "queued" =>
                          job'[i].status \in {"pending", "running", "failed"}
      <4>1. CASE job' = job
        BY <4>1
      <4>2. CASE job' # job
        <5>1. Acknowledge(w) /\ job[id].status = "running"
          BY <2>8, <4>2 DEF Dropped, Acknowledge
        <5>2. PICK st \in {"completed", "failed", "pending"} :
                /\ job' = [job EXCEPT ![id].holder = None, ![id].status = st]
                /\ st = "completed" => wk[w].outcome = "ok"
          BY <4>2, <5>1 DEF Acknowledge
        <5>3. id \in Ids /\ wk[w].pc = "ack" /\ (st = "completed" => act[id].status \in Terminal)
          BY <1>2, <5>1, <5>2 DEF Acknowledge
        <5>4. job[id] \in JobRow
          BY <1>0, <5>3
        <5>5. job'[id].status = st /\ \A other \in Ids : other # id => job'[other] = job[other]
          BY <1>0, <5>2, <5>3, <5>4 DEF JobRow
        <5> QED
          BY <5>1, <5>3, <5>5 DEF Terminal
      <4> QED
        BY <4>1, <4>2
    <3> QED
      BY <1>1, <1>2, <3>1, <3>2, JobsOfAttempts
  <2> QED
    BY <1>9, <2>3, <2>4, <2>5, <2>6, <2>7, <2>8
    DEF Execute, Completes, FailsForGood, FailsOnLast, CommitUnseen
<1>10. CASE Host
  <2>1. ASSUME NEW id \in Ids, PruneJob(id) PROVE JobInv'
    <3>1. /\ job'[id].status = "absent" /\ job[id].status = "completed"
          /\ \A other \in Ids : other # id => job'[other] = job[other]
          /\ UNCHANGED <<act, wk>>
      BY <1>0, <2>1 DEF PruneJob, NoJob
    <3> QED
      BY <1>1, <1>2, <3>1, JobsOfAttempts
  <2>2. ASSUME NEW id \in Ids, Sweep(id) PROVE JobInv'
    <3>1. /\ job'[id].status = "failed" /\ job[id].status = "running"
          /\ \A other \in Ids : other # id => job'[other] = job[other]
          /\ UNCHANGED <<act, wk>>
      <4>1. job[id] \in JobRow
        BY <1>0
      <4> QED
        BY <1>0, <2>2, <4>1 DEF Sweep, JobRow
    <3> QED
      BY <1>1, <1>2, <3>1, JobsOfAttempts
  <2>3. ASSUME NEW id \in Ids, ExpireAction(id) PROVE JobInv'
    <3>1. \A i \in Ids : act'[i].status = act[i].status
      <4>1. act[id] \in ActionRow
        BY <1>0
      <4> QED
        BY <1>0, <2>3, <4>1 DEF ExpireAction, ActionRow
    <3> QED
      BY <1>1, <1>4, <2>3, <3>1 DEF ExpireAction
  <2>4. ASSUME UNCHANGED <<act, job, wk>> PROVE JobInv'
    BY <1>1, <1>4, <2>4
  <2> QED
    BY <1>10, <2>1, <2>2, <2>3, <2>4
    DEF Host, Forget, RevokeGrant, Deploy, Retire, ExpireAllowance, RevokeAllowance
<1>11. CASE UNCHANGED vars
  BY <1>1, <1>4, <1>11 DEF vars
<1> QED
  BY <1>6, <1>7, <1>8, <1>9, <1>10, <1>11 DEF Next

\* While the host keeps its records, a queued action has a job that is waiting,
\* running or visibly failed (submit, settle, execute, acknowledge).
THEOREM QueuedKeepsJob ==
  ASSUME MayForget = FALSE
  PROVE  Spec => []QueuedHasJob
<1>1. Init => JobInv
  BY DEF Init, JobInv, QueuedHasJob, JobsFollow, NoAction, NoJob, NoAttempt
<1>2. IInv /\ JobInv /\ [Next]_vars => JobInv'
  BY JobInductive
<1>3. JobInv => QueuedHasJob
  BY DEF JobInv
<1> QED
  BY <1>1, <1>2, <1>3, Invariant, PTL DEF Spec

=============================================================================
