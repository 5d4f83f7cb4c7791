# A verification project for oxidt-kit

oxidt-kit is a workspace of Rust crates for small web products: login, durable
jobs, agent access over MCP, billing and mail.  Most crates are clients and
parsers without state.  This directory models the ones whose correctness rests
on several actors moving at once, and the scripts of the browser side, checks
the models with TLC, and proves with TLAPS every safety property that the
passing runs check, but for one whose statement is about enabled steps.

## 1. Inventory

| component | state | operations | interacts through | hard behaviour |
|---|---|---|---|---|
| `oxidt-jobs` | table `background_jobs`; one loop per worker with its lease token, timers and handler future | `enqueue`, `claim`, `renew`, `finish`/`acknowledge`, `prune`, `stats`, `spawn`/`work`/`run`/`attempt` | Postgres statements, a watch channel for stop, the app's `Handler` | lapsed leases, late answers, crashes, lost acknowledgements, clocks of two machines |
| `oxidt-agent` durable | tables `agent_actions`, `agent_allowances`, the job behind each action | `submit`, `decide`, `approve_and_allow`, `revoke_allowance`, `execute_job`, `record` | row locks, `oxidt_jobs::enqueue` in its transactions, `execute_job` as the job's handler | overlapping attempts, decisions against executions, unlocked reads, lost commit answers, rolling deployments, revoked grants |
| `oxidt-agent` MCP, `oxidt-agent-core` | none between calls | dispatch, `visible_to`, `authorize` | called by `durable` | the permission may have changed since submission |
| `oxidt-auth` action proof | one pending proof for each action, user and session, counters, all in the app's storage | `request`, `confirm` over `ActionProofBackend` | the app's storage, mail and users | parallel guesses, resends, late mail failures, stale ownership |
| `oxidt-auth` login handlers | the session record, user rows, an in-process lock and lockout map | password, code and passkey sign-in, resend, captcha | tower-sessions copies, `AuthUserStore`, mail | every request holds its own copy of the session; locks are per process |
| `oxidt-auth` login pages (`topcoat/*.js`) | the step that shows, the attempt counter, the WebAuthn slot, the functions in flight, the captcha token | forms and buttons, answers, passkey ceremonies with and without autofill | the login endpoints, `navigator.credentials`, timers, microtasks | an answer or a ceremony that comes after the user has left it, two WebAuthn requests, buttons that stay disabled |
| `oxidt-markdown-editor` | a textarea, a CodeMirror view, mutation observers, a reset timer, the previews | mount, destroy, `setValue`, `insert`, value property, reset, slash commands, decorations | the application's script, the framework that re-renders, the form, the user | mutations seen a microtask later, resets a timer later, re-renders against edits, moves in the document |
| `oxidt-auth` FerrisKey, SSO | pending flow in the session | redirect, callback, steps of the hosted flow | an identity provider | out-of-order callbacks |
| `oxidt-auth` passkeys | credentials, challenge in the session | enrol, assert | the browser, the user store | challenge reuse, sign counts |
| `oxidt-auth` rate limit, CSRF, router | counters by window | check and increment | middleware | window boundaries |
| `oxidt-mcp-oauth` | none: codes and clients are the app's | validation rules of each endpoint | the app's storage | single use of a code |
| `oxidt-billing`, `-stripe`, `-polar`, `-creem` | none | access rules, clients, webhook verification | providers | freshness windows, paging |
| `oxidt-egress`, `-caldav`, `-s3`, `-smtp`, `-umami` | connection pools | guarded and retried requests | the network | redirects, retries of what was done |
| `oxidt-crypto`, `-monitor`, `-mcp-card` | none that the server relies on | primitives, read-only endpoints | | |

What makes each correct:

- **Queue.** One worker at a time has an attempt running; a result is recorded
  only under the lease that was given; a settled job stays settled; every job
  is settled; a stop ends every loop.
- **Durable actions.** The handler's effect happens once and exactly when the
  record says completed; only what a person approved, or an allowance that is
  still active covers, takes effect; a decision is never overwritten; a queued
  action always has its job.
- **Action proof.** At most `MAX_ATTEMPTS` comparisons for one code, one
  action for one code, the newest code wins, a delivered code is not lost.
- **Login.** A session signs in only as the address a credential was issued
  for; guesses are bounded; a challenge is used once.
- **Login pages.** The browser has one passkey request at a time; a prompt
  belongs to the step that shows; what the user has left never moves the page;
  no captcha token is sent twice; no wait disables the page for good.
- **Markdown editor.** The textarea, the view and what the application was told
  agree once nothing is due; a re-render never takes an edit away; a locked field
  stays as it is; the previews follow the cursor.
- **The stateless crates.** Their rules agree with a declarative statement of
  them (access, freshness, address policy, retries).

`PROJECT.json` lists the hazards line by line, with the property that covers
each or the reason none does yet.

## 2. Modules

| module | models | checked by | proved in |
|---|---|---|---|
| `JobContract` | what the queue promises, without leases, clocks or statements | as a property of `Jobs` | `JobsProofs` |
| `Jobs` | `oxidt-jobs/src/lib.rs`, `schema.sql` | `MCJobs` | `JobsProofs` |
| `AgentActions` | `oxidt-agent/src/durable.rs`, its `schema.sql`, and the queue's statements it meets | `MCAgentActions` | `AgentActionsProofs` |
| `ActionProof` | `oxidt-auth/src/action_proof.rs` | `MCActionProof` | `ActionProofProofs` |
| `LoginPage` | what the two login pages' scripts share | by the two below | with the two below |
| `LocalLoginPage` | `oxidt-auth/src/topcoat/local_login.js` | `MCLoginPages` | `LocalLoginPageProofs` |
| `FerrisKeyPage` | `oxidt-auth/src/topcoat/ferriskey_login.js` | `MCLoginPages` | `FerrisKeyPageProofs` |
| `LivePreview` | the decorations of `oxidt-markdown-editor/scripts/markdown-editor.js` | with `MarkdownEditor` | `MarkdownEditorProofs` |
| `MarkdownEditor` | `mountEditor` and the custom element of that file, `slash-commands.js` | `MCMarkdownEditor` | `MarkdownEditorProofs` |
| `LocalLogin` | codes and passkeys of `oxidt-auth/src/handlers/local_login.rs`, `otp.rs` | `MCLocalLogin` | `LocalLoginProofs` |
| `MCLoginPages` | the two pages side by side | itself | `MCLoginPagesProofs` |

Some definitions stand beside a variant called "mutant of" them: the same
definition with a plausible bug.  With the variant in its place the property it
is written for fails, which shows that the property speaks about the code.

### Jobs

`rows` is the table, `wk` the loops, `late` the renewals still on the wire after
their sender gave up, `signal` the watch channel.  One SQL statement is one
step.  `claim` is two statements, so `ClaimSweep` and `ClaimTake` are two
steps; its answer arrives later (`AttemptStart`).  `attempt` is the phase
"run": `RenewSend`, `RenewExecute`, `RenewConfirmed` and `RenewError` are the
renewals of `keep_lease`, `DropAttempt` its end, `HandlerOk`, `HandlerFails`
and `HandlerTimesOut` the handler's (a panic is a failure).  `Acknowledge` and
`AcknowledgeError` are `acknowledge`; `Crash` and `Restart` are the process.

Time is a common `Tick` over countdowns, which makes the state finite and lets
the proofs speak of differences of clocks only.  A timer that has run out fires
before time moves, except that nothing forces a statement to be answered: a
renewal may stay on the wire until `give_up_at`.  `ReplyDelay` bounds the time
between a claim's commit and its answer.  Nothing in the code bounds it; the
model keeps it as a constant so that what depends on it can be said.

A row's `age` is the time since its end, `finished_at` or the end of a lapsed
lease: `prune` compares it with `PruneAge`, and `stats` counts a failure while it
is below `FailedWindow`, the 24 hours of `failed_24h`.

### AgentActions

A transaction is cut where another one can come between: after a read without a
lock, and while a row lock is held.  `SubmitBegin` is the identity check and the
unlocked read of the allowance; `SubmitInsert` the insert, the enqueue and the
commit.  `SettleBegin` takes the row's lock and computes the verdict;
`SettleAllow` is the upsert of `approve_and_allow`, which waits for whoever
shares the allowance and for another decision's upsert, and then holds it
("allowed"); `SettleCommit` writes the verdict with the job.  `ExecuteLock`
takes the action `FOR UPDATE` and reads whether it has expired ("locked");
`ExecuteInvalid` and `ExecuteBegin` then wait for the allowance `FOR SHARE`, and
`ExecuteBegin` holds both while the handler runs ("handler").  `Completes`,
`FailsForGood`, `FailsOnLast` and `RollsBack` end the transaction,
`CommitUnseen` commits it and loses the answer, `Dropped` is an attempt that the
queue gives up.  `Acknowledge` gives the result to the queue. A lease may lapse
at any time here, so attempts overlap: `Jobs` says how long that takes, this
module what happens then.

The host may revoke a grant, deploy and retire versions, and, if `MayForget`,
delete finished records.  `effects` counts the handler's committed effects,
`decided` remembers what was approved by itself, and `inTime` of an attempt that
the action had not expired when its row was taken: history no action reads.

### ActionProof

Each method of `ActionProofBackend` is one atomic step, as the trait demands of
the application; between two methods anything may happen.  A code is named by
the issuance that minted it, which stands for its salted hash.  `RequestUnsent`
is a mail reported as failed: the code may have arrived, and the request goes on
to `RequestDiscard`.  `ConfirmAttempt` is `charge_attempt` and the comparison;
`ConfirmConsume` the transaction of `consume_and_perform`.  `RequestLost` and
`ConfirmLost` are a backend error or a dropped handler.  `newest`, `tries`,
`spent` and `undelivered` are history.

### LocalLogin

`store` is the session record, and each request in `rq` holds the copy it loaded
at its first read; `Save` writes that copy back whole when the response
completes, as the session layer does, so requests that overlap overwrite each
other.  `StartLoad` and `StartLookup` are `start_session` before and after its
lookup of the account; `Resend`, `Fallback`, `CaptchaLoad` and `CaptchaPass`
the other handlers that mail a code; `ConditionalOptions` and `VerifyPasskey`
those of the passkeys.  Only `VerifyLoad` takes the session lock: it is held
until `VerifyRefuse`, `VerifyWrong` or `VerifyRight` has saved the copy
explicitly.  That save leaves the copy marked as modified, so a verification that
does not sign in is not over: in "respond" it still holds its copy, which `Save`
writes back a second time, after the unlock.  `Resolve`, `Create` and `Finalize`
are the sign-in that follows a right code.  `Lost` is a server error or a client
that went away, after which nothing is written.  Whether a code has expired,
whether the resend throttle stops a request and whether `password_login` defers
the mail are choices.

So two kinds of request may bring an older record back, with a code that was used
or attempts that were counted: one that takes no lock, and a verification whose
response completes after another's.  `tries` and `used` count from the last such
write; the second kind is the finding `local_respond` of section 6.

### The login pages

A browser runs one handler at a time, so an action is one run of a handler: from
the event, the answer or the microtask that starts it to its next `await`.
`task` holds a record for each asynchronous function in flight, with the place
where it waits (`pc`), whether `attempt` has moved since it began (`fresh`, the
comparisons `id !== attempt` of the scripts) and whether its `get()` was told to
abort.  `step` and `loading` are `show` and `setLoading`; a form or button works
when its step shows and nothing loads (`Press`).  What the server answers is a
choice among the branches of the handler.

In `LocalLoginPage`, `ceremony` is the slot of `runCeremony`.  A function that
finds it taken aborts its holder and waits (`Cancel`); when the `get()` settles
the waiters are released in order, each in a microtask (`Continue`) that comes
before the next event (`Quiet`), or their wait gives up after 2 seconds
(`Timeout`).  `Armed` is `armConditional`, which each call of `show` and
`setLoading` makes.  `left` and `late` remember, for the properties only, which
ceremonies the user has left, and that a wait gave up or "Back" came over a call.

`FerrisKeyPage` has no autofill and does not wait: `Cancel` aborts, `Trigger`
requests at once.  `token` is the captcha widget's token in the form, "spent"
once it was sent.

`MCLoginPages` joins both pages: a behaviour is one of them.

### MarkdownEditor and LivePreview

`LivePreview` is the view: text, selection, focus, and the previews, which each
transaction computes again if one of their inputs changed (`Transaction`).  A
text is a name with its lines, its syntax nodes and, for the field, its length.
The browser's focus (`focus`) and the state's (`focusState`) differ until
CodeMirror reports it; the syntax tree may cover the first line only (`parsed`).

`MarkdownEditor` adds the textarea: `raw` is its value, `default` the text of
its children and `dirty` whether the value was set by itself.  A script's step
(a write, an insertion, a re-render, a lock, a move in the document, a reset)
may come while microtasks are due, since a script runs to its end first: `micro`
is their queue, `records` what the observers have not seen, `timer` the number
of timers that resets have started for this editor and that have not fired.
`destroy` clears the last one only; the others go on as `stray` and act on a
view that is destroyed, which changes nothing (`StrayTimer`).  The user's steps
and the timer wait until the queue is empty (`Quiet`).  `Update` is the update
listener; when it notifies, the application's listener may write another text at
once.  `author` and `told` are history: who wrote the text, and the value the
application last wrote, rendered or was told.

## 3. Runs

| run | instance | shows |
|---|---|---|
| `jobs` | 1 job, 2 workers, 3 attempts, 1 crash | mutual exclusion, fencing, agreement of `stats` with `claim`, counts that a sweep leaves alone, refinement of `JobContract`; every job settles, a stop ends every loop |
| `jobs_slow_reply` | claim answers up to 2 units late | `NoOverlap` fails: see section 6 |
| `agent_effects` | 1 action, 2 workers, 2 attempts, 2 versions, 1 allowance, pruning | one authorised effect for each completed record; settled records stand |
| `agent_allowances` | 2 actions, 1 worker, 2 allowances, 2 attempts | revocation stops what it covered; a queued action has its job; the waits for row locks form no cycle |
| `agent_liveness` | 1 action, 2 workers, 1 allowance, 2 attempts | queued actions settle, over attempts that crash or lose their lease |
| `agent_forgotten` | 1 action, pruning of finished records | `QueuedHasJob` fails: see section 6 |
| `action_proof` | 1 session, 2 targets, 2 addresses, 2 requests, 2 confirmations | guesses, single use, newest proof, discards |
| `local_login` | 1 session, 2 requests in flight, 2 addresses, 2 codes, 2 attempts | recipients, attempts that do not mix, gated accounts, parallel guesses, codes used once |
| `local_respond` | the same, 1 code | `GuessesStay` fails: see section 6 |
| `login_pages` | two functions in flight, and the autofill | one request at a time, what was left stays inert, prompts on their step, tokens sent once, waits end |
| `editor` | two texts, one over the length limit, two reset timers | synchronisation, edits kept, locks, previews |
| `editor_rerender` | the same | `FollowsRerender` fails: see section 6 |

Why the bounds are enough:

- *Jobs.* Durations are in units of `LEASE_RENEWAL` (30 s): the lease of 90 s is
  3, the two silent periods 2.  Jobs do not share rows or timers, so overlap and
  fencing need one job and two workers; the third attempt lets a lapsed lease be
  followed by another and by the sweep.  `AttemptTimeout` 4 lets an attempt
  outlast the lease.  `FailedWindow` 2 lets a failure leave the window, and a dead
  job be swept after it has.  `Horizon` 0 merges run times in the past, which only the
  order among due jobs tells apart.  `Backoff` of one unit is `5 * 2^attempts`
  seconds, capped, for the first attempts.
- *AgentActions.* One action and two workers give every overlap of attempts and
  a decision; two actions and one worker give the submissions, the decision and
  the attempt that meet over an allowance, and there two allowances let one be
  revoked and another granted.  Two attempts let a crash or a lapsed lease be
  followed by another claim, and that one by the sweep.
- *ActionProof.* Two requests and two confirmations give each race the trait's
  comments name; `MaxAttempts` 2 and `GuessLimit` 3 let both limits bite.  The
  proofs cover the rest: any number of everything.
- *LocalLogin.* An address with an account and one that may register, with and
  without a passkey and a captcha; a session's requests follow each other without
  bound, two at a time.  The second code is a resend, a fallback or another
  attempt's; two attempts for each code let an older copy take one of them back.
  Three requests (one address, 2,980,254 states) keep `GuessesCapped` and
  `CodeAdmitsOnce` too.
- *Login pages.* The buttons are disabled while a call runs, so the functions
  that overlap are one call, the ceremonies that were left, and the waits for
  their release; two and the autofill give each of these meetings once.  Three
  (`Pool = {1, 2, 3}`, 2,468,245 states) do not fit in the run with its liveness
  property, but the safety properties hold there too.  That instance is where
  the exception of `OneCeremony` for a late "Back" was met: see section 6.
- *Editor.* A text is a slash command alone on its line, longer than the limit;
  the other has a link above a table with an emphasis in a cell, which is the
  nesting, the nodes that hide together and the blocks.  Two texts tell apart
  what the view, the field, the children and `pristine` hold in all but one way
  (three that all differ), which the proofs cover: any texts, syntax and lengths.
  Two timers (`ResetLimit`) are the one that `destroy` clears and one that it does
  not.

Deadlock is not checked: jobs and submissions come to an end, limits are spent,
and a stopped pool stays stopped.  A login page ends when it has sent the browser
on.  The editor never stops, since its application may always write.

Symmetry is used in safety runs only, over model values that no definition
orders.

### Fairness

`Jobs`: the clock runs; statements on the wire are answered; a crashed process
is restarted.  A claim and its sweep are strongly fair, because the
database may refuse a statement any number of times but not for ever; the
acknowledgement is weakly fair and may still be lost, which costs an attempt.
The handler is not fair: its timeout ends it, as in `attempt`.

`AgentActions`: attempts that run come to an end, since `attempt_timeout`
bounds them; some worker claims what is due.  No outcome is forced, so every
attempt may fail.  The waits for a row lock (`ExecuteNothing`, `ExecuteLock`, the
share of `ExecuteInvalid` and `ExecuteBegin`, `SettleAllow`, `SubmitRepeat`) are
strongly fair: Postgres queues the waiters of a lock.

The login pages: a call is answered or fails, a wait for a release gives up
after its 2 seconds, and microtasks run.  Nothing is assumed of the user or of
an open `get()`, which may stay open for ever.

`ActionProof`, `LocalLogin` and `MarkdownEditor` have no liveness property:
nothing there must happen.

## 4. Proofs

Every invariant and every action property of a passing run but `NoLockCycle` is a
theorem, for all values of the constants that the named `ASSUME` of each module
admits (TLC evaluates them in each run).  Two theorems say more of the constants, as a
hypothesis of their own:

- `ReplyInTime`, `ReplyDelay + 2 * Renewal <= Lease`, in `LeaseHeld`,
  `MutualExclusion` and `Refinement` of `JobsProofs`.  With the code's 90 s and
  30 s it allows a claim's answer 30 s; without it the claim is false, as
  `jobs_slow_reply` shows.
- `MayForget = FALSE` in `QueuedKeepsJob` of `AgentActionsProofs`: the host keeps
  its records.  Without it the claim is false, as `agent_forgotten` shows.

A property is seldom inductive as it stands.  Each module proves a stronger
invariant first, one lemma for each step or group of steps, and derives the
properties from it; the strengthened invariants were checked with TLC before
they were proved.

### JobsProofs

- `TypeCorrect`.  `TypeOK` alone is not inductive: it needs that a renewal is
  under way only while an attempt runs, no longer than `give_up_at` leaves it
  (`TimersAgree`), and that a running job was counted (`RunningCounted`).
- `LeaseHeld` and `MutualExclusion`, under `ReplyInTime`.  `LeaseInv` adds what
  each worker believes of the table (`Justified`: its token is in the row, and
  the lease reaches at least its own deadline, also for an answer still on its
  way and a renewal executed but not confirmed) and that tokens differ
  (`TokensDiffer`).  The belief survives each step because another worker can
  claim only a lapsed row, and `Justified` says that the row has not lapsed.
- `FinalIsFinal`, from the types: every `UPDATE` of the crate asks for a running
  or a due row, renewals left on the wire included.
- `Fenced`, `StaleAckIsFenced` and `StatsMatchClaim` need no assumption on the
  durations: workers may overlap, and the fence still holds.  `FenceInv` says that
  a token in use was handed out (`TokensMinted`), so that a claim's is new; that
  whoever presents the token in the row was the attempt counted last
  (`TokenNamesAttempt`), which a claim keeps because it changes token and count
  together; and that a pending job has attempts left (`PendingHasAttempts`),
  without which `stats` would count as due a row that `claim` passes over.
- `SweepLeavesStats`, from the types: a swept row keeps its age, so it is in or out
  of the window of `failed_24h` as it was while only its lease had lapsed.
- `Refinement`: `Spec => ImplementsContract`, under `ReplyInTime`.  The mapping
  takes pending and running rows to "waiting" and the workers in an attempt to
  the holders.  One lemma for each step of `JobContract` says when a step of
  `Jobs` is one of it, and every action of `Jobs` maps to one of these or to a
  stutter.  `AtWorkAlone` is what `LeaseInv` gives: whoever is at a job is alone
  there and its lease is live, so a job that is swept, or claimed again, has
  nobody at it, and an acknowledgement that writes a row comes when its own
  worker has left the job and, by its token, no other has taken it.

### AgentActionsProofs

`TypeCorrect`, `ExactlyOnce`, `Authorised`, `Revoked` and `Settled` rest on `IInv`.
What a transaction read before its lock, and what it checked under the lock,
is what makes them hold: an allowance that a submission read without a lock is
still there and of its grant, revoked perhaps (`SubmissionsRead`); a decision
holds a pending action alone (`DecisionsLock`); a handler holds a queued action
alone, of the version its attempt runs, that had not expired when its row was
taken, and while it runs the allowance it relied on is active (`AttemptsLock`),
which is why a revocation waits for it.  What an attempt read of its row's expiry
is true of it when it reads it, which is all that `Authorised` says.
`EffectsCounted` then says that the effects of a record are those its status
reports: an attempt commits only with the row it holds, and after a commit whose
answer was lost the next attempt finds the action settled.  `QueuedKeepsJob` has
an invariant of its own, `JobInv`: a job belongs to an action that was started,
and an attempt that ended well has settled it, so acknowledging one never takes
the job from an action that is still queued.

### ActionProofProofs

`TypeCorrect`, `GuessBound`, `SingleUse`, `NewestWins` and `DeliveredStays`.  The
invariant `IInv` says that a code that is not stored yet was never compared, spent
or stored (`Minted`), that a pending proof counts at least the comparisons made
with its code, is unspent and is its session's newest, with a code no other
session has (`Pending`), that a handler in flight has a binding (`Bound`), and that
a request that discards was told so (`Failed`).  A code is spent only from a
pending proof, which is unspent by `Pending` and vanishes in the same step.

### LocalLoginProofs

`TypeCorrect`, `SignsInProven`, `OneAttempt`, `Gated`, `GuessBound` and
`AdmitsOnce`, for any number of requests.  As every request writes its own copy
of the session back, the invariant says of each copy what it says of the record:
its pieces are of one attempt (`Sound`), and an address that may register but has
no account is kept for a captcha (`Known`).  What is counted is true of the record
only (`Counted`), and of a copy only between its load under the lock and its
comparison; that is why the two bounds restart when an older copy is written, of a
request without the lock or of a guess whose response was slow.  A
code its request has not stored yet is nowhere else (`FreshCodes`), since two
requests may mint codes for one session at once; `Ledger` remembers which codes a
captcha paid for.  Most actions are instances of four patterns (`Quietly`, `Mint`,
`Verdict`, `Ends`), and the invariant is proved of the patterns.

### Login pages

`LocalLoginPageProofs` proves `OneRequest` and `LeftIsOver` for any number of
functions in flight.  `Kept` holds whatever happens: a ceremony that was left is of
an attempt gone by (`Shaped`), which is `LeftIsOver`.  `Calm` holds until a wait
gives up or "Back" comes over a call (`late`), since afterwards two calls may
overlap: at most one ceremony may act on the page (`OneActs`), one call is made,
with the buttons disabled (`OneCalls`), the page shows the step of the ceremony
that may act (`Placed`), who waits, waits for the slot, and who has a request has
the slot (`OnSlot`).  `Microtasks` is the heart of it: a release releases all that
wait, and only the ceremony that may act takes the slot before they have gone on,
so of the functions that one release lets past `cancelCeremony` one alone begins a
request.

`FerrisKeyPageProofs` proves `TypeCorrect`, `PromptHasItsStep` and `TokenGoesOnce`
for any number of functions in flight.  The last two need what the disabled
buttons give: one call at a time, with no ceremony under way beside it
(`OneCall`), one verified ceremony, which shows (`VerifyingShows`), and a spent
token only while its verification is in flight (`SpentInFlight`), so that
`resetCaptcha` runs before anyone can poll again.

`MCLoginPagesProofs` carries these theorems over to the composition that the
run checks.  The pages' proofs are about their own instances of the page modules;
its first lemmas say that those and the instances of `MCLoginPages` are the same
formulas, and its invariant that the page of a behaviour stays the one it began
with.

### MarkdownEditorProofs

`TypeCorrect`, `StaysInSync`, `PreviewFollows`, `EditsSurvive` and `LocksHold`,
for all texts, syntax trees, lengths and limits.  `InSync` speaks of a quiet
field only, so its invariant says what is still due when it does not hold: a
moved element has its microtask (`ElementDue`), unseen mutations have theirs
(`RecordsDue`), the view's configuration is right or about to be (`Configured`).
`FieldText` says which of view, value and application agree in each state of
`dirty`, `timer` (is a reset still due?) and `pristine`; `UserText` and
`ChildText` what a value set by itself, or never set, is.  `Computed` says that
the previews are those of the state, so that one step cannot leave them behind.

### Model-checked only

Liveness: `EveryJobSettles`, `StopEndsEveryLoop`, `QueuedSettles` and
`EveryWaitEnds`.  They rest on fairness, whose proofs need `ENABLED` and
induction over the steps that remain, which are out of the prover's reach.
`NoLockCycle` says that one of the waiting transactions can go on, which is
`ENABLED` again.  The counterexamples of the four runs of section 6 are TLC's too.

## 5. What is left out

- Payload, kind and error columns, logging, metrics, and the read-only
  queries (`kpis`, `list`, review pages).
- JSON: schemas, the comparison of arguments after a round trip, pointers.
  A request that fails validation is one nondeterministic outcome.
- Transaction isolation below row locks: Postgres' read-committed statements
  are taken as atomic.
- The application's side of `ActionProofBackend`: the model takes the trait's
  contract, so it shows what the protocol guarantees over it, not that an
  application keeps it.
- The password step with its lockout map, the resend counters, replicas and
  what follows sign-in on the new session id; changes of the registration
  policy, and deletions of accounts, during a login.
- Hashing and signatures: a hash stands for its secret; an assertion that
  verifies is one by a key the account has.
- *Pages.* The Rust that renders them, which keeps no state, and the Dioxus
  pages, which repeat the scripts in another framework; messages, focus, the
  terms check box; a browser without WebAuthn.  Awaits that nothing happens
  between are one (the poll for a token and its verification on the local page,
  the three calls of an enrollment).
- *Editor.* How widgets and diagrams are drawn, what each slash command inserts,
  the selection mirrored into the textarea, a field moved into a fieldset that is
  already disabled (`markdown-editor.js:384` watches attributes, not moves), and
  the undo of an edit made before the limit was lowered.  The bundle in
  `assets/` is generated from `scripts/`; the build script and the test server
  are tools.
- The components `PROJECT.json` marks `not_modelled`, each with its reason.

## 6. Where code and documentation differ

- `jobs_slow_reply`.  `attempt` measures its deadline from the claim's answer
  (`oxidt-jobs/src/lib.rs:345`), the lease runs from the claim's commit
  (`lib.rs:94`).  The comment at `lib.rs:25` and `README.md:53` promise that two
  workers do not overlap.  With an answer later than the slack of one renewal
  period they do.  `MutualExclusion` states the exact condition.
- `agent_forgotten`.  `oxidt-agent/schema.sql:24` tells the host to prune
  finished records.  If the job row outlives the record, a resubmission of the
  id is accepted as queued while its `enqueue` inserts nothing
  (`durable.rs:657`, `oxidt-jobs/src/lib.rs:44`), so it never runs.
- `editor_rerender`.  When the observer follows a re-render, its write into the
  view comes back as `value` (`markdown-editor.js:358`), which makes the textarea
  dirty: the next re-render changes its children and not its value, and the
  editor no longer follows, although the user has edited nothing.
  `README.md:78` of the crate promises that it does; the test at
  `tests/editor.spec.js:308` re-renders once.  A reset that finds the view on the
  text it goes back to leaves the field following its children while the view of
  it may not, which is the exception `InSync` states.
- `local_respond`.  The session layer writes every modified copy back when its
  response completes, and an explicit save does not unmark it: the copy of a wrong
  guess is written once more after the lock is released, and puts `attempts` back
  over the guesses counted since.  `otp.rs:38` says that lock and save close that
  window in-process; the test at `otp.rs:361` drops its sessions without a response.
  `GuessesCapped` and `CodeAdmitsOnce` hold until such a write.

Smaller observations, which no run states:

- `local_login.js:362` calls the autofill re-armed by `show` and `setLoading`.  It
  is not when the one that runs is stale and ends later: nothing calls
  `armConditional` after it (`:366`, `:372`, `:390`).
- A stale autofill that is past `isConditionalMediationAvailable` aborts whatever
  holds the slot before `runCeremony` notices that it is stale
  (`local_login.js:150`, `:198`): it can end the prompt of the flow that replaced
  it, whose page then offers to retry.
- "Back" from the passkey step waits for the release without disabling the buttons
  and without comparing `attempt` afterwards (`local_login.js:569`): it may come
  to the email step over a later call and enable the buttons, so that two calls
  overlap.  The later one may start a passkey ceremony and the answer of the other
  show the email step, which arms the autofill of the same `attempt`.  One release
  then lets both past `cancelCeremony` (`:150`), which looks at the slot once, and
  the browser refuses the second as pending, against the comment at `:33`.
  `OneCeremony` leaves out what follows such a "Back" (`late`).
- When the call that verifies an autofilled passkey fails, the page of
  `local_login.js` stays on "verifying", which has no button
  (the exception in `EveryWaitEnds`).
- `ferriskey_login.js:192` resets the captcha once its token was sent;
  `completeCaptcha` of `local_login.js` does so only when it was refused or failed.
- A keystroke between a form's reset and the reset's timer
  (`markdown-editor.js:423`) is written over the reset.
- Each reset starts a timer and keeps the handle of the last one only
  (`markdown-editor.js:425`): earlier ones outlive `destroy` (`:408`).  They find
  the view destroyed and leave the field alone.

## 7. Plan

1. *Core* (done): `Jobs` under `JobContract`, `AgentActions`, `ActionProof`, the
   codes and passkeys of `LocalLogin`.
2. *Browser side* (done): `LocalLoginPage` and `FerrisKeyPage`, `MarkdownEditor`
   over `LivePreview`.
3. *Depth* (done): a proof module for each component, with the refinement of
   `JobContract` and the composition of the login pages.
4. *Contracts*: an abstract specification of the durable actions (a record that is
   reviewed, settled and takes effect once, without locks, jobs or attempts) and of
   the action proof (one code, one action), each with the refinement that
   `AgentActions` and `ActionProof` implement; their invariants above are what such
   a proof needs.
5. *Breadth*: `PasswordLogin` (the attempt counters of session and account, the
   lockout map at its capacity, replicas), `Passkeys`, `FerrisKeyLogin` and SSO;
   `OAuthFlow` over an external code store; `Policies`, the pure rules of billing,
   egress, retries and webhooks against declarative statements of them;
   `Recurring`, schedules and their buckets against `prune`.
6. *Revision*: bounds, shallow properties, and the hazards still open.
