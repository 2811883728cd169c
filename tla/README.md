# ExpenseFlow in TLA+

Formal models of ExpenseFlow: the approval workflow and the delivery of its mails,
idempotency keys, refresh sessions, the browser's side of a session, sign-in through
an OpenID Connect provider, receipt uploads, tenant isolation and the rate limiter.
TLC checks the models on small instances; TLAPS proves every safety property and every
refinement of the passing runs for every value of the constants.

Paths below are relative to `src/`, the repository.  `PROJECT.json` has, in
machine-readable form, the lines that every definition models, the runs, the
mutants that show each property can fail, the hazards, and the theorems.

    tlasany M.tla                     parse a module
    tlc -workers 2 -config X.cfg M    model-check module M
    tlapm M.tla                       check the proofs of module M

## 1. The system

ExpenseFlow is a NestJS API over PostgreSQL (`apps/api`) and a React
application (`apps/web`).  Several API processes may serve one database.

| component | state | operations | interacts with |
|---|---|---|---|
| Directory and permissions (`User` table, `ROLE_PERMISSIONS`) | users, their roles and managers; no code changes them | permission guard, approver lookups | every route; `submit` |
| Policies (`policies.service.ts`) | the `Policy` table | create, remove, evaluate | `submit` evaluates them |
| Expenses (`expenses.service.ts`) | the `Expense` table | create, prepare and complete a receipt upload, submit | policies, approvals, storage, audit, queue |
| Approvals (`approvals.service.ts`) | the `Approval` table | decide; inbox | expenses, audit, queue |
| Audit log (`audit.service.ts`) | the `AuditLog` table | write, list | called after every commit |
| Idempotency (`common/idempotency`) | the `IdempotencyRecord` table | claim, complete, release | wraps the handlers of mutating routes |
| Refresh sessions (`auth.service.ts`) | the `Session` table | login, refresh, logout, logoutAll | the refresh cookie |
| Rate limiter (`common/rate-limit`) | a `Map` of buckets for each process | consume, removeExpired | in front of all routes but the probes |
| Browser session (`lib/api.ts`, `AuthContext.tsx`, `AppShell.tsx`) | cookie jar, local storage, `refreshRequest`, the view of each tab | mount, request, refresh, sign in, sign out | `AuthController` |
| Receipts page and storage (`pages/Expenses.tsx`, `storage.service.ts`) | the form, the cached list, objects in a bucket | save, upload, submit | expenses; storage, directly |
| Notification queue and worker (`notifications/`) | jobs in Redis | enqueue, process, retry; SES or console | submit and decide enqueue |
| Tenant context (`prisma.service.ts`, row level security) | a setting on a pooled connection | withTenant | every database access |
| OpenID Connect sign-in (`oidc.service.ts`) | a signed flow cookie | start, callback | identity provider, sessions |
| Reports, operations, users, audit list | none | reads | database, queue counters |
| Observability, health probes | counters | | |
| Other pages, seed, regression script | query cache of a library | | REST interface |

### What is hard about it

- **Interleaving.** Every handler reads in one transaction, awaits, and writes in
  another.  There is no lock between the two; each write is an `updateMany`
  whose `where` repeats the status and the version that were read.  Any two
  handlers, in one process or in two, may interleave at every await.
- **Work after the commit.** Audit entries and mails are written after the
  transaction, in steps that may fail or be overtaken.
- **Retries.** Clients repeat lost requests; a key must make the repetition
  harmless, although the record, the effect and the answer are three separate
  writes, and although processes die and records expire.
- **Rotation.** A refresh token is good for one use, while tabs share it and
  answers that would replace it get lost or overtaken.
- **Delivery.** The queue hands a job out again after a failed attempt or a stall,
  while the provider may have taken the mail.
- **Shared cookies.** One flow cookie and one refresh cookie serve all tabs of a
  browser; a pooled connection serves one organization after another.
- **Stale reads.** Policies change during a submission; a page submits from a
  list that another page has made old; a window of the limiter ends between two
  requests.

### What makes each component correct

- *Workflow*: an expense and its approvals tell one story; an expense is approved
  by exactly the levels demanded of it; decisions are final; the reviewed receipt
  is the submitted one; approvers are eligible; mails and audit entries are
  truthful although late, no change has two entries, and the log has no gaps as long as no handler fails; every handler
  ends.
- *Policies*: a policy only adds demands, and only for its organization.
- *Idempotency*: one handler at a time for a key; replays only of the same
  committed request; one fresh answer; every request answered.
- *Refresh sessions*: rotation replaces and never multiplies; a sign-out is not
  undone by a refresh that is in flight.
- *Browser*: the cookie left over after any storm of answers is usable; a tab does
  not invalidate its own session; no call waits for ever.
- *Receipts*: what is submitted is what was shown; what reviewers open is what was
  uploaded with that expense.
- *Rate limiter*: bursts are bounded, refusals are deserved, and whose request cleans the map is
  never noticed.
- *Mail delivery*: no mail vanishes; a mail is sent twice only for a lost answer or a
  stall; the news of a review and of an outcome gets out in the end.
- *Tenant context*: a connection forgets its tenant; a transaction sees all the rows of
  its tenant and no others; a dashboard assembled from several moments is
  still right about what did not move.
- *Sign-in*: a browser is signed in as the one the provider authenticated in that browser,
  in the configured organization; a sign-in is refused for a reason of its own.

## 2. The modules

    Directory <- Policies <- ExpenseWorkflow  --implements-->  ExpenseLifecycle
                                  ^
                             ReviewMails  --instance of-->  MailDelivery
    RefreshSessions  --implements-->  SessionStore
    IdempotencyKeys  --implements-->  KeyedAnswers
    RateLimiter      --implements-->  FixedWindows
    TenantContext    --implements-->  TenantTables
    BrowserSessions   SsoSignIn   Receipts

An arrow `<-` is EXTENDS.  `ExpenseWorkflow` composes the policies and the directory
with the handlers of expenses and approvals, and `ReviewMails` composes those handlers
with the queue, the workers and the provider.  The others are separate
because their components share no state with it: `IdempotencyKeys` sees the handler
it wraps as "commits, then may still fail", `BrowserSessions` sees a
refresh as one step, and `Receipts` sees each endpoint as one step.  In each
case the finer steps are the matter of another module, which the comment at the head
of the module names.

### Directory, Policies

Constants `User`, `OrgOf`, `RoleOf`, `ManagerOf`, `CreatedAt` are the `User` table; no
operation of the API writes it.  `DirectoryAssumption` says what the schema
guarantees and no more: a `managerId` names some user, perhaps of another
organization, perhaps no manager.  `ManagerApprovers` and `FinanceApprovers` are the
two lookups; `findFirst` with equal `createdAt` is a choice.  `Policies` has
the table as a variable, `Matches` and `Demanded` for the filter of `evaluate`,
and `SubmissionStatus` for `resolveSubmissionStatus`.

### ExpenseWorkflow

| code | actions |
|---|---|
| `ExpensesService.create` | `CreateExpense` |
| `completeReceiptUpload` | `StartReceipt`, `AttachReceipt` |
| `submit` | `StartSubmit`, `EvaluatePolicies`, `SubmitExpense` |
| `ApprovalsService.decide` | `StartDecide`, `DecideApproval`, `DecideFinance`, `DecideExpense` |
| `audit.write`, `notifications.enqueue` | `WriteAudit`, `EnqueueMail` |
| `notifyNextFinanceApprover` | `LookupFinance`, `ReportMissingRoute`, `EnqueueMail` |
| `PoliciesService.create`, `remove` | `ChangePolicies` |
| an exception, a timeout, a crash | `Fail` |

`req[r]` is what a handler remembers across awaits; its `pc` names the await it
stands at.  Each database statement after the first read is an action.  `decide`
has three statements in one transaction; its writes take effect when it commits
(`DecideExpense`), and until then `Locked` is the row lock that makes another
update of the row wait and then look again, which is what PostgreSQL does
under READ COMMITTED.  `route` is a history variable: the evaluation an expense was
submitted under.

`audit` is the `AuditLog` table as a bag of entries, since every `audit.write` inserts a row of
its own: two handlers that log the same are two rows.  An entry has its action, the expense and
its version, and for a decision (`DecisionEntry`) the level and the version of the approval, which
the code does not read back but computes from the version the client sent.

A request that a handler refuses before its first write changes nothing, so it
is a request that never starts.  A refusal after that, by a compare-and-set that
misses or by a lookup that finds no approver, is a step back to `Idle`.

`ExpenseLifecycle` is the abstract specification: stages and outstanding levels,
without requests, versions or tables.  `ImplementsLifecycle` is the refinement, with
`StageOf` and `Outstanding` as the mapping.

### MailDelivery, ReviewMails

A row of `job` is a BullMQ job: its status, the attempts made, how often it stalled, and
the worker that holds its lock.  `Add` is `enqueue`; `Take`, `Deliver`, `LoseAnswer`,
`Refuse`, `Complete` and `FailAttempt` are a worker running `process` and the provider's
`send`, with SES as a provider whose answer may be lost or unreadable after it took the
mail; the console provider cannot fail.  `Promote` is the end of a backoff, `Die` a process that is
killed, `Stall` a lock that has expired, whether its worker is dead or slow: a
slow worker goes on and finds, when it reports, that it no longer holds the lock.
`Attempts` is the option of `enqueue`; `MaxStalls` is BullMQ's default.  `copies` and `lost` are
history.  BullMQ itself is not in the repository and is modelled from how the code uses it.

`ReviewMails` joins this to `ExpenseWorkflow`: the step of a handler that puts the
followed mail in `outbox` adds its job (`Enqueues`).  One mail is followed, because
jobs share only the workers, and which one is a choice of the initial state.

### IdempotencyKeys

`Create`, `Find` and `DeleteExpired` are the three database calls of `claim`, which
starts again from the first after a deletion or a row that has vanished.  `Commit`,
`Return` and `Throw` are the wrapped handler, whose transaction commits before its
last calls.  `Complete` and `Release` are the interceptor's `mergeMap` and `catchError`.
`DatabaseError`, `Crash` and `Expire` are what goes wrong; a record cannot expire
under a running handler, since the record lives for 24 hours.

`KeyedAnswers` is the abstract specification: a key belongs to nobody or to one request, from
the step in which that request is let through until it gives the key up, or the key of an
answered request is forgotten.  `ImplementsAnswers` maps to it the records that have not
expired.  The three calls of a claim then amount to one step each, or to none: an expired
record, and whoever deletes it when, is never noticed.

### RefreshSessions

`Login`, `StartRefresh`/`RevokeRotated`/`CreateSuccessor` (the transaction of `refresh`,
with its row lock), `Logout`, and `StartLogoutAll`/`RevokeAll`/`AnswerLogoutAll`:
the statement of `logoutAll` works on the rows its snapshot shows as active.
`parent` and `root` of a row are history.

`SessionStore` is the abstract specification: a set of good tokens, in which a refresh
exchanges one for another in one step and a sign-out withdraws some.  `ImplementsStore` maps
to it the sessions that are active, with `root` as the login; the two statements of a
rotation take effect together, at the commit.  That is what lets `BrowserSessions` take a
refresh for one step.

### BrowserSessions

The tabs of one browser over a shared jar and local storage.  `StartCall`,
`Unauthorized`, `CallAnswered`, `QueryFailed` are `request` in `lib/api.ts` and the
current-user query of `AppShell`; `Refresh` and `Settle` are `refreshSession` with the promise
the calls of a tab share; `Mount`, `SignIn`, `SignOut` are `AuthProvider`, `Login` and
`endSession`.  `Handle...` is the API handling a request, `...Arrives` the browser
applying the answer, `Lose...` a request or an answer lost.  A session whose
token nobody holds any more gives its name back (`Recycled`), so that the model
has no end although it has few names.

### SsoSignIn

`StartSso` is `createAuthorizationRequest`, `StartArrives` its answer in the browser, which
stores the flow cookie, `Authenticate` the provider, and `SendCallback` the browser that
comes back, perhaps again, with whatever flow cookie it has by then.  `CheckState`,
`ExchangeCode`, `VerifyIdToken` and `LinkAccount` are the awaits of `completeSso`; `Fault`
is an error of the provider or the database, and `AnswerArrives` sets one cookie and clears
the other.  The random values of a flow are one model value, `Flow`.  `disturbed` and
`reloaded` are history: the answer to another tab took the cookie, the callback was sent
before.

### TenantContext

`Begin`, `SetTenant`, then `Query` or `Write`, then `Commit` or `Rollback` are one call of
`withTenant` on a connection of the pool; `TimeOut` is Prisma rolling back a
transaction whose callback goes on, and `LateStatement` that callback's next statement.
`setting` is `app.current_organization_id` of each connection, `RowPolicy` the row
policies that read it.  The statements of a report are the queries of `dashboard`, in
any order, and `Write` is any change of an expense that may fall between them.

`TenantTables` is the abstract specification: a table for each organization, which only its own
clients read and change.  `ImplementsTables` maps to it the rows by their organization, and of
a transaction what its client is being told; connections, settings, policies and locks have
no counterpart, and a transaction that is given up leaves nothing behind.

### Receipts

The mutation `createExpense` of the expenses page is a chain of up to four calls:
`Save`, `Create`, `PrepareUpload`, `Upload`, `CompleteUpload`, any of which may be the last
(`Goes`, `Break`).  `Refetch`, `PressSubmit`, `Submit`, `SubmitFails` are the list and the
button in its rows.  `chosen` and `seen` are history variables.

### RateLimiter

`Consume` is one uninterrupted call of `consume` with its cleanup and the
middleware's verdict; `Tick` is the clock.  `log` is the history of admissions.

`FixedWindows` is the abstract specification: a window of its own for each client, with no map
and nothing to clean.  `ImplementsWindows` takes a live bucket for the open window of its client;
a bucket that has expired, and one that was never there, are both no window.

## 3. The runs

Every property of a passing run has a mutant in `PROJECT.json`: a plausible bug in
the mapped code under which the run fails.  Deadlock is checked except where
the system may stop: when all requests are answered (`idempotency`), when every handler is
idle, every expense decided and every job ended (`review_mails`), when the session names
are used up (`refresh_sessions`) and when the clock has reached its bound (`rate_limiter`).

| run | properties | instance | distinct states |
|---|---|---|---|
| `workflow` | `RouteConsistent`, `ApprovedThroughRoute`, `InnerUpdatesNeverFail`, `AuditVersionsUnique`, `AuditTellsDecisions`, `ApproversEligible`, `MailsTruthful`, `DecisionsFinal`, `ReceiptFrozen`, `PoliciesOnlyAdd`, `TenantsApart`, `ImplementsLifecycle` | 1 expense, 2 handlers, 2 organizations, at most 3 of 4 policies, 1 receipt, failures; one employee whose manager belongs to another organization, so that the admin of his own is asked (the same fallback for finance is not in the run; the proof covers it) | 540 thousand |
| `review_mails` | `LogHasNoGaps`, `NoMailVanishes`, `CopiesAccountedFor`, `RequestsFinish`, `ReviewersAreMailed`, `OwnersAreMailed` under fairness | 1 expense, 2 handlers, none of which fails; 1 worker, whose attempts fail, whose answers are lost and which dies | 118 thousand |
| `finance_route` | `FinanceRouteNeverMissing` is violated | 1 expense, 2 handlers, 2 policies | stops at the counterexample |
| `idempotency` | `HandlersExclusive`, `ReplayFaithful`, `AnsweredOnce`, `ImplementsAnswers`, `RequestsAnswered` under fairness | 3 requests, 1 key, 2 fingerprints, expiry, errors, crashes | 150 thousand |
| `idempotency_replay` | `EffectOnce` is violated | 2 requests | stops at the counterexample |
| `refresh_sessions` | `OneSessionPerLogin`, `SignedOutForGood`, `ImplementsStore` | 2 users, 4 sessions, 3 requests | 110 thousand |
| `logout_all` | `SignedOutEverywhere` is violated | 1 user, 2 sessions, 2 requests | stops at the counterexample |
| `browser_sessions` | `QuietJarUsable`, `RefusedByOthers`, `NobodyWaitsInVain` | 2 tabs, 3 calls, 4 sessions known at once | 654 thousand |
| `sso_sign_in` | `SignedInWhoAuthenticated`, `RefusedForAReason` | 2 browsers, 2 flows, 3 callbacks, 4 identities | 528 thousand |
| `receipts` | `SubmittedAsSeen`, `ReceiptStored` | 2 pages, 2 expenses, 2 objects, 2 files | 181 thousand |
| `tenant_context` | `ConnectionsForget`, `TenantSeesItsOwn`, `DashboardHonest`, `ImplementsTables` | 2 organizations, 2 connections, 2 transactions, 2 expenses | 1.3 million |
| `rate_limiter` | `BurstsBounded`, `RefusedOnlyAtLimit`, `ImplementsWindows` | 3 clients of 2 scopes, limits 1 and 2, windows of 2, 5 ticks, threshold 1, one refusal in a row | 389 thousand |

The type invariants are proved for every instance (`TypeCorrect`, section 4, and
`Delivery!TypeOK` in `MailInv`) and left out of the runs.

### Why the bounds are enough

- *One expense*: no handler reads or writes two expenses, and the queue, the audit log
  and the approvals are keyed by the expense; two expenses interact only through the
  handlers that are free.
- *Two handlers*: every conflict is between one compare-and-set and the
  writer that overtakes it.  The proofs say the same of any number.
- *Four policies*: one of each action of the first organization, and one of another; with
  any three of them, present or not, every evaluation the code can compute arises, and they
  may change between any two steps.
- *One receipt key, `MaxReceipts = 1`*: a receipt attached before, during or after a
  submission; `MaxReceipts = 0` where receipts play no part.
- *One worker*: a job has one holder, and after a stall the one worker takes it again, which is as
  another worker would.  What it leaves out is the slow worker that reports after another
  has taken the job; the proof of `CopiesAccountedFor` is for any number of workers.
- *Two followed mails* (`Followable`): the one that hands an expense over to finance, which
  is enqueued last and after most awaits, and the final news to the owner.
- *Three requests, one key*: keys do not touch each other; the third request is needed
  for a record that is expired, deleted by one claim and inserted again by
  another, when a slow claim comes back to delete it.
- *Four sessions*: a login, its successor, and a second login with its successor, or
  a chain of three rotations; three requests on them include two refreshes of one token
  and a `logoutAll`.
- *Two tabs, three calls*: two calls share the refresh of one tab while the other tab
  refreshes, signs in or signs out; at most one name for the jar, one for each
  refresh and one for each visit in flight matter at a time.
- *Two flows, three callbacks*: two sign-ins in one browser replace each other's cookie, or run
  in two browsers; the third callback is a reload while both are handled.  The identities are
  one of each kind that the checks tell apart.
- *Two connections, two transactions*: each connection serves both organizations in
  turn and at the same time as the other; two expenses of one organization, or one of each.
- *Receipts*: a second page to be stale, and a second expense, object and file for
  chains to be mixed up with.
- *Limits 1 and 2, windows of 2, 5 ticks*: two windows end within the run, and a client may use
  a limit on both sides of either end; the threshold of 1 (5000 in the code) is crossed by
  the second and third client.  `MaxExcess` bounds the refused requests that are counted.

### Fairness

Only `review_mails` and `idempotency` are about liveness.  A handler that can take its
next step takes it (weak fairness of `Continue`): the event loop runs
every continuation, and database and queue calls answer or throw.  `DecideApproval` has strong
fairness, because PostgreSQL queues the waiters of a row lock, so that an update
is not passed over for ever.  Workers take jobs and end their attempts, backoffs end, and a job
that nobody holds is found by the check for stalled jobs.  `Arrive`, `Expire`, `Crash`, `Die`
and `Fail` are never forced to happen, and which way an attempt goes is never forced either.

The handlers of `review_mails` do not fail: after a failure that follows the commit the
mails are lost, and nothing in the code sends them later.  The workers and the provider do fail, so
`ReviewersAreMailed` and `OwnersAreMailed` promise a mail sent or given up after its last
attempt.  `RequestsAnswered` holds with crashes and errors included.

### Disagreements the runs show

- **`finance_route`** (`approvals.service.ts:223`).  After its commit a manager's decision reads the
  pending finance approval in order to mail its approver, and throws `Finance approval route is
  missing` when it finds none.  The finance approver may have decided by then.  The manager
  is told that the request failed, though it is committed, and the key of the
  request is released.
- **`idempotency_replay`** (`idempotency.interceptor.ts:101`).  `README.md:262` says
  `Replaying the same request returns the original result`.  A handler that has committed and
  then throws releases its key, and the same request executes again; for
  `POST /expenses` that is a second expense.
- **`logout_all`** (`auth.service.ts:129`).  `README.md:223` says `the API can revoke all active sessions
  for a user`.  A refresh whose transaction is open while `logoutAll` runs creates a
  successor that the statement does not see; it outlives the answer.

## 4. The proofs

Eight modules of proofs, checked by `tlapm` from nothing, with the assumptions that the
modules name and no others.  `NoneAssumption`, `SessionAssumption`, `BrowserAssumption`,
`ReceiptsAssumption`, `WorkerAssumption`, `TenantAssumption` and `SsoAssumption` say that the
null values are no members of the sets they stand beside (and that an account is a user, and
that every call is one of a tab); `RateLimitAssumption`
that limits and windows are positive.  `DirectoryAssumption`, what the schema guarantees of
the `User` table, is used for `ApproversEligible` alone: the other proofs about the
workflow need no assumption about the directory or the policies.

**ExpenseWorkflowProofs**, about the handlers — `TypeCorrect`, `RoutesConsistent`,
`ApprovalsFollowRoute`, `DecisionsNeverHalfway`, `DecisionsAreFinal`, `ReceiptsAreFrozen`,
`AuditIsOrdered`, `AuditTellsTruth`, for every directory, policy table and number of expenses, levels
and handlers.  `RouteConsistent` is not inductive: a decision in flight could have
seen anything.  `RouteInv` adds

- `RouteRecorded`: the approval rows are those that the evaluation in `route` asks for;
- `DecisionsSound`: as long as the approval row of a decision is as the handler saw it, so are
  the expense and the finance approval; and once the handler has updated that row,
  it stays as seen until the transaction ends;
- `LocksExclusive`: at most one decision of an expense is past its first statement.

The second is the reason why a compare-and-set on the approval row alone protects
the expense and the finance approval too.  `AuditIsOrdered` has an invariant of its
own: a handler claims its entry when it commits and writes it later, so `AuditInv` bounds
the versions of the entries written and claimed (`Claimed`) by the version of the row, and each
commit claims a version that no other has (`Records`, `FreshEntry`).  That tells entries apart;
that one of them has one row only is `ClaimedOnce`: an entry is in the log once or claimed by one
handler, never both.  `AuditTellsTruth` needs `RouteInv`: at the commit of a decision the approval
is still as it was read, so that the version computed is the version made, and an approval that
has a verdict is never written again.  `ReceiptsAreFrozen` needs only that an expense
that does not exist has no receipt (`AbsentEmpty`).

`ApproversAreEligible` rests on `EligibleInv`: an owner may create expenses, and a
submission that has found its approvers has found eligible ones for an expense of that
owner (`SubmissionSound`), which the owner keeps.  `MailsAreTruthful` extends the claim from
the mails in the queue to those a handler is about to enqueue (`Told`), for only then is it
inductive: a mail is true at the commit that gives rise to it (`CommitsTellTruth`) and stays
true whatever is committed later (`TruthStays`), which needs `RouteInv`.
`PoliciesAreAdditive` and `TenantsStayApart` follow from what one row more or less does to the
demands (`DemandsGrow`, `OthersDemandNothing`).

`HandlersImplementLifecycle`: under the mapping of `ExpenseWorkflow`, every step
of a handler is a step of `ExpenseLifecycle` or a stutter.  `OutstandingFacts` reads the levels
that still have to decide off the rows with `RouteInv`; `OneMoves` says that a writer moves one
expense; then there is one lemma for each writer (`CreateFollows`, `AttachFollows`,
`SubmitFollows`, `DecideFollows`).  In `DecideFollows`, `DecisionsSound` is what makes a decision
made on old reads the decision of the level whose turn it is now.

The same module, about the mail that `ReviewMails` follows — `MailsDoNotVanish`, `CopiesAreAccountedFor`, `LogIsComplete`.  `MailInv`: a job is
held only while it is active and attempts and stalls keep within their limits (`QueueSound`), a
worker that reports success has delivered (`ReportsTrue`), and copies are balanced by lost
answers, stalls and the delivery in progress (`CopiesBalanced`), also those of workers that have
lost the lock.  `LogIsComplete` rests on two facts: the entry of a commit carries the version
that the expense then has (`Records`), and a handler that goes on
and does not fail loses no entry (`ClaimsKept`).

**IdempotencyKeysProofs** — `TypeCorrect`, `HandlersAreExclusive`, `ReplaysAreFaithful`, `KeysAnswerOnce`.
`KeysInv` says that a running request owns the record of its key, unexpired and pending
(`RequestInv`), and that a completed record is of a request that has committed and asked
for the same thing (`RecordInv`).  `OnceInv` adds that the record of an answered request stays
its own until it expires (`Kept`).

`HandlersImplementAnswers`: under the mapping of `IdempotencyKeys`, every step is a step of
`KeyedAnswers` or a stutter, with one lemma for each action.  `KeysInv` tells who holds a key; it
does not tell who has been answered, and `AnswerInv` adds that a request has its answer exactly
when it is done, that nobody takes effect before its turn, and that a record is of a request
that has been let through.  Then a claim that finds a record finds it of another request, a
deletion finds the record expired, hence a key that is nobody's, and an expired key was that of
a request that has been answered.

**RefreshSessionsProofs** — `TypeCorrect`, `RotationIsLinear`, `SignOutIsFinal`.  `SessionInv`: the
session a refresh has locked is active and locked by no other (`LockSound`), roots are in
use (`RootsKnown`), what was signed out stays revoked (`SignedOutRevoked`), and parents are
revoked (`ParentsRevoked`).  `HandlersImplementStore` maps every step to a step of `SessionStore` or a
stutter; `SessionInv` gives it that the session a rotation replaces is the one good
token of its login, and that owners are known.

**RateLimiterProofs** — `TypeCorrect`, `FixedWindowsBoundBursts`, `RefusalsAreDeserved`,
for every limit, window and threshold.  `LimiterInv` relates a bucket to the history: admissions fall
into their windows, windows of a client do not overlap and hold at most a limit,
a live bucket counts the latest admissions, and without one every window has ended, so
that nothing is forgotten by a cleanup that should not be.  The bound of twice
the limit follows from three windows not fitting into one span.

`MapImplementsWindows` maps every request to the request of that client in `FixedWindows`, and
every tick to its passing of time.  It rests on `ConsumeFacts`, which says that a cleanup changes no live
bucket, and on `UsedTells`: a live bucket has counted something, so that no client takes an
open window for none.

**BrowserSessionsProofs** — `TypeCorrect`, `QuietJarsAreUsable`, `TabsSpareThemselves`,
`CallsWaitForSomething`, for any number of tabs, calls and sessions.  The first two properties
are not inductive: whether the jar will be usable depends on answers in any order.  `TokensInv`
follows the tokens on their way.  The session of an answer that has been granted is accepted by
the API, and no jar and no other answer has it (`AnswersNew`), so that whoever overtakes it
cannot have spent it; if the session in the jar was rotated or signed out, the answer that
replaces the cookie is still on its way (`JarSound`); and no tab has sent a session that it has
rotated itself (`NotSpoiled`).  `CallsWaitForSomething` needs that every way in which a refresh
ends settles all the calls of its tab.

**ReceiptsProofs** — `TypeCorrect`, `OwnersSubmitWhatTheySee`, `ReceiptsAreStored`.  `ReceiptsInv`: a row
that was read earlier and has the current version has the current receipt (`ReadsOld`),
a draft is at version 0 until its receipt is attached (`Versions`), chains have keys of
their own (`OwnKeys`) and know where they are (`Linked`).

**TenantContextProofs** — `TypeCorrect`, `ConnectionsAreForgetful`, `TenantsSeeTheirOwn`,
`DashboardsAreHonest`.  `TenantInv`: a connection has one transaction (`ConnectionsExclusive`), its
setting is that of the transaction or blank (`SettingsRight`), rows that exist have an
organization (`RowsOwned`), and a write that waits for its commit still replaces the status it
read (`WritesSound`).  The dashboard needs, besides, that an expense never comes back to
a sum it has left.

`ConnectionsImplementTables` maps every step to a step of `TenantTables` or a stutter.
`FoundInTable` says that the row policy and the filter together find what the table of the
organization has, which needs `SettingsRight` and `RowsOwned`; `CommitChanges`, that the row
a commit replaces was absent or the organization's own and still has the status that was
read, which is `WritesSound`, so that no other table moves.

**SsoSignInProofs** — `TypeCorrect`, `AuthenticatedOnly`, `RefusalsHaveReasons`.  `SsoInv`: a
flow whose cookie is no longer in the jar was disturbed or its callback sent (`CookieKept`), a
used code was sent (`SentFirst`), a callback that passed a check still has what the check
saw, or a reason to be refused (`VisitSound`), two callbacks of one flow mean a reload
(`VisitsAlone`), and who is signed in was authenticated (`JarSound`).

Only model-checked: what needs fairness (`RequestsAnswered`, `RequestsFinish`,
`ReviewersAreMailed`, `OwnersAreMailed`), which is beyond this prover.  What the three violation
runs refute is not provable.

## 5. Abstractions and omissions

- PostgreSQL: READ COMMITTED and row locks, as Prisma's transactions use them.  A transaction
  whose updates touch one row is one action; its loss is `Fail`.  A commit whose
  acknowledgement is lost is not distinguished from a handler that fails after it.
- Money, dates, descriptions and texts are left out; a claim is an amount and a category.
- The rate limiter is the process-local one of the code: with several processes every bound
  is for each of them.
- In the browser a refresh is one step on the API, and a tab has one sign-in or sign-out on its
  way at a time.  The button of the sign-in form is disabled while one is pending; that of the
  sign-out is not, so a second click on it is left out by this bound.
- Receipts: `completeReceiptUpload` checks that the key belongs to the expense and takes the
  page's word for the upload, so `ReceiptStored` is about the page and the API together.
  Content type and size are properties of a file that the form has accepted already; the
  conditions of an upload target and its expiry are a link that breaks.
- Sign-in: a token is the provider's, so that the checks of signature, issuer and
  audience succeed; nonce and state are the flow they were made for.  A callback comes
  from the browser that started its flow; links opened in another browser are left out.
- Tenant context: that a statement on a transaction that has timed out throws is what Prisma does,
  and taken from there.  The callback of `withTenant` is a dashboard or one write.
- Mails: contents, templates and request signing are left out; a job that BullMQ removes
  after completion keeps its row.

### Not modelled

Operations, user and audit lists are single reads without effect.  Logging and metrics
have no effect on another component, and the health probes keep no state.  The pages for approvals,
policies, operations and the dashboard are forms and tables over the REST interface,
whose state is the cache of a library; what is particular to a page, the chain of calls of
`Expenses.tsx` and the sessions of `AppShell.tsx`, is modelled.  Seed data and the
test runner are tools.

### Left open

- Behaviour that no property claims, listed with the hazards: a second tab that refreshes with
  the same cookie is refused and signs the browser out; a refresh in flight while another tab
  signs out puts a cookie back; a form saved again after a broken chain creates a second
  draft; a policy created between evaluation and commit is not applied; a handler that fails
  after its commit leaves no audit entry and sends no mail.
- `rate-limit.service.ts:31` says that the cleanup `keeps this process-local implementation
  bounded`.  It removes expired buckets only: with more clients in open windows than the threshold,
  the map grows with their number.  No property claims the bound.

## 6. Plan

The modules were written in the order of what a mistake costs: the workflow with its
directory and policies, and the lifecycle it implements; idempotency keys; refresh sessions and
the store they implement; the rate limiter; the browser; receipts; tenant isolation; the
delivery of mails and its composition with the workflow; sign-in.

What would come next, in this order:

1. What a sign-in amounts to, as an abstract specification that `SsoSignIn` implements, and what
   the queue does, as one that `MailDelivery` does.
2. `BrowserSessions` over `SessionStore` instead of its own step for a refresh, which would
   bring the sign-out in one tab and the refresh in another into one model
   (`README.md:223`).
3. A slow worker next to another one in `review_mails`: its run has one worker.
