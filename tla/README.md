# Verification of MarketMind

TLA+ models of the parts of MarketMind where processes meet: the weekly content
cycle with its review and its handover to publishing, the publication lifecycle,
the confirmation-mail outbox and the prepaid points wallet. TLC checks them on
small instances; TLAPS proves, for every instance, each safety invariant and action
property that the passing runs check, and that the publication lifecycle implements
an abstract dispatch.
Paths below are relative to the repository; the API modules are under
`apps/api/src/modules/`.

- [1. The system](#1-the-system)
- [2. What is hard](#2-what-is-hard)
- [3. The models](#3-the-models)
- [4. What is assumed](#4-what-is-assumed)
- [5. The runs](#5-the-runs)
- [6. The proofs](#6-the-proofs)
- [7. What the checks found](#7-what-the-checks-found)
- [8. Not modelled](#8-not-modelled)
- [9. Plan](#9-plan)

## 1. The system

MarketMind takes a small business from a discovery interview to a marketing
strategy, to weekly content packs, to posts on a Facebook page, and measures
them. A NestJS API (`apps/api`) holds all state in PostgreSQL through Prisma,
moves background work through BullMQ queues on Redis, and calls a Python AI
service (`services/ai`); `apps/web` is the user interface and
`packages/contracts` the shared schemas. Publishing goes through an n8n runner,
which calls an executor endpoint of the API, which calls Meta; the outcome
returns as a signed callback. Paymob takes payments and reports them by webhook.

| Component | State it keeps | Operations | Talks to | What makes it correct |
|---|---|---|---|---|
| publishing: intents (`publishing/intents`) | `publishing_intents`, `publishing_approvals` | create, schedule, approve, reject, reschedule, cancel, retry | adds and prunes `publishing-dispatch` jobs | one post per candidate; nothing sent without approval of exactly that version and plan; cancelled is final |
| publishing: dispatch (`publishing/dispatch`) | `publishing_attempts`, BullMQ jobs | revalidate and claim, asset check, claim the attempt, POST, record the answer | n8n; the callback writes the same rows | one POST per attempt; an ambiguous delivery is UNKNOWN, never FAILED |
| publishing: executor and callback (`dispatch/meta-provider.executor.ts`, `callbacks`) | `publishing_results` | execute, receive the callback | Meta, n8n | first result wins; a result tells the truth |
| publishing: reconciliation and admin (`scheduling`, `admin`) | none of their own | recover missed jobs, flag stuck attempts, remove orphans, resync, resolve UNKNOWN | every table and the queue | every approved intent is served, every attempt settles, a settled result is final |
| publishing: candidates and targets (`candidates`, `targets`) | `publishing_candidates`, `publishing_targets`, the vault | ingest candidate events, connect, disconnect, expire | content outbox, Meta | revoked content is never dispatched |
| billing: wallet (`billing/billing.service.ts`, `billing-entitlements.service.ts`, `admin/admin-billing.service.ts`) | account, balance, `billing_point_ledger`, checkouts, provider events, transactions | ensure, check, spend, refund, checkout, webhook, manual top-up | content and strategy charge it; Paymob | never overdrawn; balance = sum of the ledger; each payment credited once |
| billing: outbox (`billing/billing-outbox.*`) | `billing_outbox` rows and leases | claim due rows, enqueue, release, mail, mark, retry | mail provider, queue `billing-outbox` | mailed in the end, twice only in doubt |
| billing: provider (`billing/paymob-payment.provider.ts`) | none | parse and verify webhooks, create checkouts | Paymob | pure mapping, used by the wallet's model |
| content: cycles and packs (`content/v2`, `content.processor.ts`, `repositories/content-cycle`, `content-pack`) | cycles, week plans, packs, `content_job_outbox` | plan, generate, retry, pause, advance the week, generate and charge | AI service, wallet, queue `content-generation` | one worker per pack; a generation ends; the cursor skips no week; what can be reviewed is paid |
| content: review (`content.service.ts`, `repositories/content-decision`, `v2/content-version-edit`) | item versions, decisions, candidates | decide, bulk decide, edit, revise | the revision worker, the event outbox | a candidate is the approved, current version; the pack says what its items say |
| content: handover (`outbox-dispatcher.ts`, `repositories/publication-candidate`) | `publication_candidate_outbox` | approve, claim, enqueue, deliver, mark, release | queue `content-outbox`, `publishing/candidates` | marked dispatched only when stored; every candidate arrives |
| strategy (`strategy`) | runs, revisions, approvals | request, generate, approve | queue `strategy-generation`, wallet | one active run; points reserved are spent or released |
| discovery (`discovery`) | sessions, messages, findings, research jobs | converse, research, confirm | its own queue, AI service | one turn at a time |
| performance (`performance`) | refresh runs, snapshots, optimization proposals | reconcile, fetch metrics, propose, decide | Meta, its own queue | one refresh per post and window |
| auth, users, rbac | users, refresh tokens, action tokens, OAuth state | register, login, rotate, reset | mail, Google | a token is used once |
| facebook | page connection | OAuth, select page | Meta, targets | - |
| orchestration | runs, checkpoints | create, advance | AI service | - |
| journey, audit, mail, admin, health, redis, marketing-knowledge | read models and adapters | - | - | - |
| `services/ai` | LangGraph state, vectors | generate, retrieve | model providers | - |
| `apps/web`, `infra`, `scripts` | - | presentation, deployment | - | - |

The parts interact in four ways: by **rows** read in one transaction and written
in another; by **queues**, whose jobs are delivered at least once, in any order,
and deduplicated by a retained job id; by **remote calls** whose answer may be
lost while a callback or webhook about the same thing is already being handled;
and by **cron sweeps** that repair what the other three lost, concurrently with
them.

## 2. What is hard

`PROJECT.json` lists the hazards one by one with their lines. In short:

- Owner requests run at READ COMMITTED and check a row they later update **by
  id**; dispatch, callbacks and sweeps write the same row under predicates.
- The dispatch worker makes an external side effect. A job is redelivered when
  its worker stalls (while that worker is still alive), and an answer may be lost
  after the runner accepted. A retry must be certain that nothing was posted.
- The callback of a fast runner overtakes the acknowledgement of the dispatch.
- The API can die between the commit of an approval and its `queue.add`; a job
  that failed or completed keeps its id and swallows every later add.
- The outbox sweep enqueues a row that it still leases; all deliveries of a job
  share one lease owner; two retry limits (3 tries, 5 attempts) meet.
- Webhooks are repeated and overlap, and check before they lock; entitlements
  are checked long before they are charged.
- A content pack has several jobs (first, retried, regenerated), each delivered
  more than once; its worker can die between the claim, the items and the charge;
  its catch blocks write status by id.
- Two decisions on one pack each derive its status from items the other is
  changing; a revision worker writes an item the owner is deciding or editing.
- The event outbox of content repeats the lease protocol of the billing outbox,
  with its race between `queue.add` and the release of the lease.

## 3. The models

Twelve modules model code, in three groups; `PublicationDispatch` is an abstract
specification, eight modules hold proofs, and `MCPublishing` adds the symmetry TLC
uses. Every definition's source lines are in `PROJECT.json` under `map`.

### Publishing

`PublishingTables` declares the state of one candidate and all its intents.
The five modules that extend it each hold the actions of one kind of process,
and `PublishingIntents` composes them, adds fairness, and states the properties.

| Module | Code | Correspondence |
|---|---|---|
| `PublishingTables` | `prisma/schema.prisma`, the two partial unique indexes, `packages/contracts/src/publishing` | One function per column (`status`, `version`, `plan`, `attempt`, `keyOf`, `body`, `result`), the set of approval rows, the BullMQ jobs by id, and a program counter for each request, worker, sweep and admin. `SlotFree` and `PublishedSlotFree` are the unique indexes, `PredicatedStatus` the `updateMany` with version and status in its WHERE, `AddJob` a `queue.add` under a retained id. |
| `PublishingRequests` | `intents/intents.service.ts` | Each request is `Begin...` (what the transaction reads and checks) and `Commit...` (what it writes, by id, whatever the row has become), then `Enqueue` or `Prune` on the queue. `Abort` is a rolled-back commit or a crash. |
| `PublishingWorker` | `dispatch/dispatch.processor.ts`, `n8n-client.service.ts` | `Take`, then one action per outcome of the revalidation transaction (`RecordedNoOp`, `Refuse`, `ClaimIntent`, `RecoverQueued`), `MarkIntentFailed`, `AssetFails`, `ClaimAttempt`, `Post`, `Acknowledge` or `AcknowledgeFails` (its transaction throws), `RecordError`; `JobFails` (a statement throws out of the job), `WorkerCrash`, `Stall` (redelivered once, then failed), `LoseJob`. |
| `PublishingRunner` | `dispatch/meta-provider.executor.ts`, `callbacks/callbacks.controller.ts` | `Execute` is n8n with the executor and Meta; `Callback` the signed callback. |
| `PublishingRecovery` | `scheduling/reconciliation.service.ts`, `admin/admin.controller.ts` | Each sweep reads in one step and acts on each row in a later one; so does an admin. |
| `PublishingEnvironment` | `targets`, `candidates/candidates.service.ts` | The target's connection and the revocation of the candidate. |
| `PublishingIntents` | - | `Next`, `Spec`, `FairSpec`, properties. |
| `PublicationDispatch` | abstract | What a dispatch promises, attempt by attempt: reserved, claimed by one sender, sent once or never; posted once and only if sent; an outcome on record that is what happened, unless the acceptance was forgotten, until an admin resolves it. |

The refinement (`Dispatch == INSTANCE PublicationDispatch WITH ...` in
`PublishingIntents`) maps `phase` to `Phase(a)`, computed from the attempt's row, its
POSTs and the workers about to send; `posted` to the attempts with a post; `outcome`
to the recorded result; `resolved` to the results an admin settled; `forgotten` to the
attempts whose acknowledgement failed. Claims, POSTs, failed acknowledgements,
executions, callbacks, errors, sweeps and admins are steps of one attempt there;
everything an owner does is a stutter.

### Content

| Module | Code | Correspondence |
|---|---|---|
| `ContentWeeks` | `v2/content-v2.service.ts`, `v2/content-week-plan.repository.ts`, `repositories/content-cycle`, `content-pack`, `content.processor.ts`, `content-job-outbox.*`, `content-scheduler.service.ts` | One cycle. Requests to generate or retry read (`BeginGenerate`, `BeginRetry`) and write later (`ClaimQueuedPack`, `CommitRetry`), then `AddDirectly`. Planning requests are not numbered: any of them may read a draft plan (`ReadPlan`) and any of those may replace it later (`CommitPlan`), by id, whatever it has become; `replacing` holds the weeks read so, and a plan frozen in between is a draft again while its `frozenInput` and its pack stay. The job outbox is leased, enqueued and marked by `ClaimDueJobs`, `DispatchJob`; a worker goes through `ClaimPack`, `Announce`, `Generate`, `Persist`, `Charge`, `RecordCost`, or `Fail`. A scheduler tick reads a cursor (`ReadTick`) and compares it when it writes (`AdvanceToNextWeek`). |
| `ContentReviews` | `content.service.ts` (decide, bulk decide, request revision), `v2` direct edit, `repositories/content-decision`, `content-pack`, the revision half of `content.processor.ts` | One delivered pack. A decision writes its items and derives the pack's status in one step (`DecideWrites`) and commits in another (`DecideCommits`), for row locks let two open transactions overlap; `CommitEdit`, `CommitRevision`; the worker's `StartRevision`, `AskForRevision`, `AppendRevision`, `ChargeRevision`, `FailRevision`. A candidate is the version it froze. |
| `ContentHandover` | `repositories/publication-candidate`, `outbox-dispatcher.ts`, `publishing/candidates/candidates.service.ts` (intake) | One row per approved candidate: committed with the approval, queued by the request and by the sweep (`ClaimDueOutboxEvents`, `SweepAdds`, `SweepReleases`), delivered by `ClaimEvent`, `FindCandidate`, `CreateCandidate`, `MarkOutboxDispatched`. |

The three meet at rows: a delivered pack of `ContentWeeks` is where `ContentReviews`
starts, a candidate of `ContentReviews` is a row of `ContentHandover`, and a stored
candidate of `ContentHandover` is the candidate of `PublishingTables`. They are checked
one by one: a part hands its rows over once and reads no row back, except that a
decision needs an active cycle, in which `ContentReviews` takes place.

### Billing

| Module | Code | Correspondence |
|---|---|---|
| `BillingOutbox` | `billing-outbox.repository.ts`, `.reconciler.ts`, `.processor.ts` | Rows with state, lease owner and attempts; `backedOff` and `lapsed` say which clocks have run out. One action per repository call made by the sweep and by the worker, each with the exception it may throw. |
| `PointsWallet` | `billing.service.ts`, `billing-entitlements.service.ts`, `admin-billing.service.ts`, event mapping of `paymob-payment.provider.ts` | A wallet transaction holds the account's row lock, so `Open`, `Spend`, `Refund` and `Grant` are one step each. The webhook is a process with a program counter (`Receive`, `ReceiveAgain`, `CreateEvent`, `ApplyPaid`, `ApplyUnpaid`, `Grant`, `Close`, `Throw`, `Die`), and the manual top-up reads and writes in two steps. |

### History variables and slips

Some variables record what the code does not store, so that a property can speak
of it: `sends`, `posts` and `mails` count external effects; `adminSettled` marks
results an admin decided; `unacked` the attempts that the runner accepted and whose
acknowledgement failed; `blind` marks the intents written by a step that had not
seen what it replaced (below); `unsure` marks a mail that was accepted without
its row learning it, or a lease taken over under a live worker; `interrupted`,
`overwritten` and `raced` mark a generation or a revision a fault cut short, an item
whose status a worker wrote after it had changed, and two decisions open at once. No
action reads them.

An intent becomes `blind` by one of these steps, and by no other: a request commits
by id after the row's status or version changed since it was read; a retry is
committed although the newest attempt (`Newest`) has not failed; the worker's asset
failure or error, or the stuck sweep, writes by id an attempt that changed since it was
read; an admin settles a result that is no longer UNKNOWN; an acknowledgement turns a
SCHEDULED intent into DISPATCHING.

A definition whose comment begins with "Slip" is the next definition as it would
be with a plausible mistake (a predicate dropped, a check forgotten). No action
uses it. Each property is known to fail when one slip is put in the place of the
definition it follows, so no property holds by the shape of the model alone.

## 4. What is assumed

- An owner's transaction takes effect at two instants, its reads and its writes;
  this is what READ COMMITTED allows when the write is by primary key. A
  transaction that begins with a compare-and-swap on the row it protects (the
  worker's claim), or runs Serializable with locks (the callback), or holds the
  account's lock (the wallet), is one step. The worker's claim locks the intent
  (`dispatch.processor.ts:393`) before it reads the candidate (`:426`), and a
  revocation updates the candidate before it cancels intents
  (`candidates.service.ts:133`, `:145`): one that runs in between waits for the
  claimed row and finds it DISPATCHING, so the claim is ordered before it.
- A transaction that throws changed nothing (`db`). A commit whose answer is lost is
  modelled where a line below says so. Elsewhere it leaves what a crash after the
  commit leaves, except after the acknowledgement of a dispatch, where the error
  is then recorded too; that differs from `AcknowledgeFails` only if the
  acknowledgement had something to write, and then the intent is `blind`.
- A post exists if and only if Meta accepted it; an error answer of Meta means
  that nothing was posted, which is what the code assumes; no answer may mean
  either.
- The client mints a fresh idempotency key for each retry it asks.
- Time is abstract: a due intent, an old attempt or an expired lease may be
  noticed at any moment after it exists. That is more than the code does, so it
  is safe for safety properties, and liveness does not depend on durations.
- BullMQ: a job id is taken as long as any job with it is retained; a lock that
  expires leads to one redelivery (`maxStalledCount` 1), then to a failed job; a
  worker that lost its lock completes nothing.
- Outbox: the batch limit of 50, the `created_at` order and SKIP LOCKED only
  decide which due rows a sweep takes. `releaseForRetry` reads and writes in one
  step. A statement that throws changed nothing, except `claimEventById`, whose
  update may have committed before the read after it throws.
- Wallet: one owner; every artifact costs the same; a transaction is reported
  pending any time, then paid or failed once, and its reports share one event id
  (`paymob-payment.provider.ts:237`). The service's refund operations are
  available for every charged claim, although at present only the release of a
  strategy cycle calls them.
- Content: the pack costs `Price` points, of which the check before the AI call asks
  for `Checked`; other work of the owner may spend points at any time. The AI service
  answers or fails (`provider`); `circuit` is the cost circuit of
  `recordProviderCost`, `points` a refused charge, `sink` a failing intake, `slow` a
  lease that runs out under a live worker. A bulk request carries one kind of
  decision. `ContentReviews` takes for granted that a committed revision is queued:
  the durable outbox that queues it is the one of `ContentWeeks`.
- Plans, messages, amounts in currency, signatures and wording are abstract.

**Deadlock** is not checked: each lifecycle ends, with every intent settled, every
mail sent, every payment credited, every pack delivered or failed and every
candidate handed over, and nothing left to do.

## 5. The runs

Publishing runs use one candidate. Bounds: `MaxVersion` is the highest intent
version, `MaxSeq` the highest attempt of one version. `Asked`, `Sweeps` and
`Faults` select the requests, sweeps and faults a run includes; together the runs
include all of them, and each action fires in at least one passing run.

| Run | Instance | What it shows |
|---|---|---|
| `PubDelivery` | 1 intent, 1 owner, 2 workers, version 2, 2 attempts; stalls, bad assets, lost answers, failing statements; create, schedule, approve, retry; stuck sweep | At-most-once delivery: the lifecycle implements `PublicationDispatch`; one POST per attempt; no second post without a blind write or a failed acknowledgement; results tell the truth unless an acknowledgement failed; attempt and result agree, and a DISPATCHING intent has an attempt in flight, unless a blind write parted them |
| `PubOwners` | 2 owners, 2 plans, 1 worker, version 3, reschedule; failing syncs | Approvals under crossing owners: what is sent was approved, with the approved plan unless a blind write happened; one live attempt |
| `PubSlot` | 2 intents, 2 owners, 1 worker, cancel; lost answers and lost jobs | The candidate's slot: no second post through another intent, and a cancelled one stays cancelled, unless by a blind write |
| `PubRecovery` | 1 intent, 1 owner, 1 worker, 2 admins, all four sweeps, crashes, failing statements, lost answers, disconnection, revocation; fairness | A cancellation, a revocation's included, stays unless a blind write replaced it; a settled result stays unless two admins resolve it; every attempt settles; every scheduled version is served unless its job is over |
| `OutDelivery` | 1 event, 2 sweeps, 2 workers, 5 attempts, 3 tries, all eight faults, at most 5 of them in one behaviour; fairness | The mail: sent means mailed; a second mail needs doubt; at most 4 mails; terminal rows are final; every row settles or its only job is over |
| `WalletPayments` | 2 claims, 1 checkout with 1 transaction, 2 webhook requests, 1 operator, at most 2 faults; fairness | No overdraft; balance and ledger agree unless a blind top-up; one credit per transaction; processed paid events were granted; paid checkouts stay succeeded; payments are credited in the end |
| `ContentDelivery` | 2 weeks of which 1 is planned, any number of planning requests, 1 request at a time to generate or retry, 2 workers, 2 ticks, 1 retry, 2 tries, 2 outbox attempts, a wallet of 1 point for one pack, one fault of any of six kinds; fairness | One worker per pack; the cursor passes no week without content; what can be reviewed is paid unless its worker died; a queued pack ends delivered or failed, unless a fault cut it short |
| `ContentReview` | 2 items, 1 of them reworked, 2 versions, 2 requests, 1 worker, 2 tries, one fault of any of five kinds; fairness | A candidate is the version that was approved and still stands; the pack says what its items say; a revision ends; each with its one named exception |
| `ContentHandover` | 2 candidates, 2 workers, 1 sweep, 3 tries, two faults of any of six kinds; fairness | A row marked dispatched is stored; every candidate arrives or the one job of its event is over |
| `PubRescheduleDuplicate`, `PubRetryOlder`, `ContentRollback` | the smallest instance of each | Counterexamples, section 7 |

**Why the bounds are enough.** Races here are between two actors on one row, so
two workers, two owners, two sweeps or two requests show each of them; a third
can only repeat the role of one of the two, and the proofs cover any number.
Version 3 lets an approval, a reschedule and a further approval coexist; two
attempts of a version let a retry meet a late answer to the first. With one
owner, one intent and version 1 used as the draft, version 2 is the first that
can be dispatched. Five outbox faults allow each attempt of the row's limit to
fail, and 3 tries with 5 attempts are the code's constants. The wallet's trial
(3) pays for one artifact (2) and not for two, so two checks compete; the bundle
(5) and the gift (7) are chosen so that sums of different ledgers differ.
`PubDelivery` has no worker crash, for a stalled worker that never goes on does what a
dead one does; `PubRecovery` has them, for liveness. `ContentDelivery` has one request
at a time to generate or retry, to check invariants and liveness on one state space;
overlapping ones are covered by the proofs, which are for any number of them.
In the content runs one fault is enough to enter each recovery path; the first job
and one retried job are two jobs of a pack; two tries of a job show a last try and
one before it. Budget 1 with price 1 lets other spending empty the wallet between the
check and the charge. With one planned week the cursor can leave week 1 and wait at
week 2, but the last week is not generated: that a cycle is completed only with its
last week is covered by the proof of `CursorPassedGenerated`. `ContentHandover` needs
two faults for a redelivered worker to meet a failing one, and two candidates for a
sweep that fails between them. `ContentReview` leaves one item unreworked, for the
pack's status to depend on two items while only one grows versions.
`PubDelivery`, `PubOwners`, `PubSlot` use symmetry over interchangeable owners,
workers and plans; runs with liveness use none.

**Fairness.** `FairSpec` asks only what the code schedules itself:

- a worker that is free takes a waiting job, and one that has a job goes on with
  it (BullMQ workers loop);
- BullMQ notices a lock that nobody renews, and promotes delayed jobs;
- a committed request reaches its `queue.add`, unless the API dies;
- the cron sweeps keep running, and clocks advance (`backedOff`, abandoned
  leases);
- a webhook request that is running goes on, and the provider repeats a notice
  until it is acknowledged. This last one is strong fairness: the server is not
  free all the time, but among unboundedly many repetitions one finds it free;
- a transaction of a decision that is open ends.

Owners, admins, the runner, payments, the weekly scheduler and faults owe nothing:
no property relies on the callback arriving. `EveryAttemptSettles` holds because the
stuck sweep exists, `ScheduledIsServedUnlessJobIsOver` because the recovery sweep does,
`GenerationEndsUnlessInterrupted` because the job outbox does, and
`CandidateArrivesUnlessJobIsOver` because the sweep of the event outbox does.

## 6. The proofs

All proofs are for arbitrary constants: any number of intents, owners, workers, admins,
plans, versions, events, sweeps, claims, checkouts, weeks, ticks, candidates, requests
and faults. The only assumptions are those stated as `ASSUME` in the models: bounds are
natural numbers, named sets are among the known kinds, and no worker or lease owner has
the name of another kind of process or of a state.

**Dispatch** (`PublishingProofs`: `DispatchInvHolds`, `EveryAttemptIsSentOnce`,
`OnlyApprovedIsSent`). That an attempt is sent once is not inductive: a state in
which two workers are both about to send satisfies it, and the next step breaks
it. `DispatchInv` adds why that state is unreachable. An attempt that is absent or
QUEUED was never sent and nobody is about to send it (`UnsentUntilClaimed`); at
most one worker is about to send an attempt, which is then unsent (`OneSender`).
`ClaimAttempt` needs QUEUED and leaves DISPATCHING, and no step leads back to
QUEUED: `ClaimIntent` inserts only a row that did not exist, and every write by id
writes to an attempt that exists (`HeldExist`, for workers and for the sweep's
reading). `ExistingApproved` carries the approval: a claim needs one, and approval
rows are never deleted.

**Types** (`PublishingProofs`: `TypeCorrect`) uses `DispatchInv` as a lemma,
for a worker past its claim writes to the attempt it holds.

**Outcomes** (`PublishingOutcomeProofs`: `OutcomesAreTruthful`, `SettledIsFinal`). That
a result is true is not inductive: it must be known why the writer may write it.
`OutcomeInv` adds that an execution exists only for what was sent and makes one post
(`PostsFollowRuns`); that a worker past the call has sent, and one that was refused
started no execution (`CallersHaveSent`); that a failure was one of a sent attempt, so
no later POST can make it false (`FailuresWereSent`, with `OneSender`); that what failed
posted nothing unless its acknowledgement failed, which `unacked` remembers; and that an
admin about to resolve read UNKNOWN (`ResolvedWereUnknown`). A result changes only from
"none" or by an admin, from which finality follows.

**Refinement** (`PublishingOutcomeProofs`: `DispatchIsImplemented`). Under the three
invariants above, each action moves the phase of at most one attempt, or records the
outcome of at most one, or adds one post; a lemma per kind of action shows which
abstract step that is, and `NextImplements` joins them. That nobody sends twice is
here the absence of an abstract step out of "sent".

**Intents** (`PublishingIntentProofs`: `IntentInvHolds`, `OneLiveAttempt`,
`SentPlanWasApproved`, `AttemptAgreesWithResult`, `DispatchingHasAttempt`,
`OnePostUnlessBlindOrUnacked`, `CancelledStays`). None of these invariants is inductive:
that a retry posts nothing a second time depends on why its intent is FAILED.
`IntentInv` says of an intent that is not blind what its row, its attempts and the open
requests know of one another. Every attempt but the newest has FAILED, posted nothing
unless its acknowledgement failed, and will be sent by nobody; the newest may have been
posted only while the status is one after the claim; a live attempt belongs to the
current version, with the approved plan; an attempt and its result agree; DISPATCHING
has a live attempt (`AttemptOK`, `IntentOK`). An open request remembers a version not
above the current one and, while that is the version, the plan it read
(`RequestRemembers`). `SlotInv` is the partial unique index of the candidate, from which
one post per intent becomes one per candidate. A lemma per action keeps it, over facts
about steps that leave the attempts, the binding or the status of an intent alone. While
`IntentInv` was being made inductive it was false in two reachable states, (a) and (b)
in section 7; the meaning of `blind` names them since.

**Outbox** (`BillingOutboxProofs`: `OutboxTypeCorrect`, `SentRowsWereMailed`,
`TerminalRowsAreFinal`, `SecondMailsNeedDoubt`, `MailsAreBounded`). The type invariant
carries the lease discipline (a lease if and only if processing, `attempts` below the
limit unless failed), from which finality follows: each write to a row needs pending, or
a lease. `SentWasMailed` includes the worker between sending and marking. For the second
mail, `CertainUnlessUnsure` says of every event that is not in doubt: at most one worker
is mailing, under the lease; one about to send has no mail before it; and a mail is
either on the row (sent) or in the hands of the worker about to mark it. For the bound,
`MailsPaced` counts deliveries instead of mails: `Deliveries` is what the tries, the one
redelivery and the delivery in hand of the event's job allow for, and covers the mails
accepted and those that up to two workers may still send, one of which the job has left
behind by stalling. The job's id is taken once, so deliveries never start anew.

**Wallet** (`PointsWalletProofs`). `Sound` joins types and `NeverOverdrawn`: neither
is inductive without the other, because a top-up writes what it read, which is
typed as a natural number only if balances were. From `EventInv` follow
`ProcessedEventsWereGranted` and `PaidCheckoutsStaySucceeded`: a request past the
look-up agrees with the event's stored kind, so a request that shares a row with
a paid event is itself about the payment, and marks it processed only when the
transaction exists. `Books` says that the ledger's rows and the transactions agree,
that both are finite (they grow by one row at a time, so no bound on the constants
is needed), and that the totals are their weighted sums; `PaymentsGrantedOnce` and
`BalanceMatchesLedger` follow.

**Content weeks** (`ContentWeeksProofs`: `CycleTypeCorrect`, `OneWorkerPerPack`,
`CursorNeverSkips`, `ReviewablePacksArePaid`). Types and ownership are proved together:
a worker past its claim has a pack in flight or delivered because no other worker has
it, and no other has it because the claim needs a pack that is up for one.
`RowsHavePacks` ties the job outbox to the packs. The cursor needs that what a tick
read is compared when it writes; payment needs that a delivered pack without a charge
is in the hands of its worker, which only a death takes away.

**Reviews** (`ContentReviewsProofs`: `ReviewInvHolds`, `ReviewTypeCorrect`,
`CandidatesStand`, `PackFollowsItems`). That a candidate stands is broken by a decision
that commits on a version it did not look at; `ReviewInv` says why none does. What an
open transaction has written stays the current, undecided version until it commits, and
no two have written one item (`WritesInv`: the row locks). Only the approval of the
current version makes an item approved (`StatusInv`), and a revision job exists exactly
for a version sent back (`JobsFollowDecisions`), so the revising worker appends to a
version that no candidate froze. `PackFollowsItems` adds that approvals accumulate while
nothing races, so the status a decision derives is one the table of transitions admits.

**Handover** (`ContentHandoverProofs`: `HandoverTypeCorrect`,
`DispatchedCandidatesAreStored`). A worker about to mark has seen the intake store its
candidate, and the intake never forgets, so it does not matter that deliveries of one
job share a lease owner and mark under each other's lease.

**Only model-checked**: the liveness properties `EveryAttemptSettles`,
`ScheduledIsServedUnlessJobIsOver`, `SettledUnlessJobIsOver`,
`PaidIsCreditedUnlessPendingCameFirst`, `GenerationEndsUnlessInterrupted`,
`RevisionEndsUnlessInterrupted` and `CandidateArrivesUnlessJobIsOver`, for TLAPS has no
ENABLED and no fairness reasoning here. Every other property of a passing run is a
theorem. No model uses a RECURSIVE operator, so every module can be proved about.

## 7. What the checks found

Each of these runs ends in a counterexample against a statement of the repository.

| Run | What happens | Against |
|---|---|---|
| `PubRescheduleDuplicate` | A reschedule reads SCHEDULED, the worker claims and posts, the reschedule commits AWAITING_APPROVAL by id (`intents.service.ts:554`); the new version is approved and posted again | `intents.service.ts:53` |
| `PubRetryOlder` | The attempt of version 1 fails and is retried, but before the claim the owner reschedules; the attempt of version 2, whose sequence is 1 again, ends UNKNOWN and an admin resolves it as failed; the next retry is accepted because `retryIntent` orders attempts by sequence alone (`intents.service.ts:581`) and looks at the failure of version 1 | `intents.service.ts:590-594` |
| `ContentRollback` | The items of a pack are stored and the pack is a draft; other work has used the points since the check, so the spend is refused inside the same try block, and `safeFail` writes failed by id (`content-pack.repository.ts:1377`). The items remain, so the pack can never be generated again | `content-cycle.ts:129`, `content.processor.ts:333-335` |

The properties named `...UnlessBlind`, `...UnlessUnacked`, `...NeedsBlindOrUnacked`,
`...NeedsDoubt`, `...UnlessJobIsOver`, `...UnlessInterrupted`, `...UnlessOverwritten`,
`...UnlessRaced` and `...UnlessResolved` are the other half of these results: each names
the one way in which a promise is broken, and shows that nothing *else* in the model
breaks it. A predicate on version and status in the owner's updates, a `try` of its own
for the acknowledgement, and a predicate on status in the catch blocks of the content
worker, would remove most of the exceptions. The properties named
`...UnlessJobIsOver` cannot catch a job that ended in vain and keeps its id, for that is
their exception; the items below on retained jobs say where the code lets it happen.

Two more were met while proving that nothing else breaks these promises, and are part
of `blind` since:

- (a) The acknowledgement that "can never regress" a settled intent
  (`dispatch.processor.ts:201-203`) may come after the callback reported a failure and
  the owner retried: the intent is SCHEDULED again, in the same version, so the
  predicate holds and the intent becomes DISPATCHING with nothing in flight. The job of
  the retry takes it for another worker's claim and does nothing, no callback comes, and
  the sweep looks for live attempts only: the intent is DISPATCHING for ever.
- (b) The retry that looks at an older version, as in `PubRetryOlder`. Where nobody has
  resolved the unknown outcome, the intent's status (ACTION_REQUIRED) refuses the retry
  for another reason.

Further disagreements met while modelling, which the qualified properties allow
for and no run singles out:

- The transaction of the acknowledgement is inside the `try` of the dispatch. When it
  throws after the runner's 202, its error has no transport code, so it counts as a
  proven failure (`safe-http.util.ts:113-142`): attempt, result and intent become
  FAILED, `retryable` (`dispatch.processor.ts:238-295`), while the post is on its way,
  and the owner's retry posts again without any blind write. That is against
  `dispatch.processor.ts:230-237`, FAILED only when nothing can have been published,
  and `:283-286`, retryable "because n8n rejected the request before any provider
  call". `unacked` marks it; `DuplicatePostNeedsBlindOrUnacked` and
  `ResultsAreTruthfulUnlessUnacked` except it and nothing else.
- `createOrReplaceWeekPlan` reads the plan's status without a lock and then writes
  "draft" by id (`content-week-plan.repository.ts:79-96`): a plan frozen by a claim in
  between is thawed beside its pack, against `:30-33`, "plan replacement is rejected
  after freezing". The pack keeps the frozen input, but if its generation fails it can no
  longer be regenerated (`content-v2.service.ts:921`), and the plan can be replaced
  again. In `ContentWeeks` this is a reachable state, in which every checked property
  of the packs holds.
- A retry whose `queue.add` is lost is not recovered: the sweep passes over a version
  that has an attempt (`reconciliation.service.ts:57`), and the admin's resync adds
  under the id of the version's first job, which is retained.
- A confirmation whose mails are refused three times stays pending beside its
  retained failed job (`billing-outbox.repository.ts:134`): the row allows five.
- An asset check of a redelivered job fails by id an attempt that its first worker
  already sent (`dispatch.processor.ts:165`), against
  `PUBLISHING_AUTOMATION_ARCHITECTURE.md:692`, "duplicate queue delivery does not
  create a second external call".
- The acknowledgement and the error of a dispatch can be recorded after the callback
  (`dispatch.processor.ts:212`, `:255`); the error sets the attempt by id, so attempt
  and result may differ.
- Two schedules of one version compute the same next version from their own reads
  (`intents.service.ts:334`).
- A cancel that read SCHEDULED commits over DISPATCHING (`intents.service.ts:519`), and
  the callback moves CANCELLED to SUCCEEDED, against `publication-intent.ts:100`.
- A job that stalled twice is retained as failed; the recovery finds it by its id and
  never enqueues (`reconciliation.service.ts:60`, against `:16`).
- Two admins who read the same UNKNOWN may settle it differently
  (`admin.controller.ts:103-120`); the second write is not predicated.
- The worker of the billing outbox takes the job before the sweep releases its lease
  (`billing-outbox.reconciler.ts:40`), finds the row not claimable and completes the
  job, whose id is then taken for ever, against `:13-14`. The event outbox of content
  does the same (`outbox-dispatcher.ts:132`), against
  `CONTENT_AGENT_AND_AUTOMATION_HANDOFF_ARCHITECTURE.md:673`, "Delivery is at least
  once".
- A top-up reads the balance, a charge commits, the top-up writes the sum of what it
  read (`admin-billing.service.ts:153`): the ledger keeps the charge, the balance does
  not, against `schema.prisma:201-203`.
- A worker that dies after claiming a pack, or whose progress event throws before the
  try block, leaves it generating; no retry may claim it again
  (`content.processor.ts:431`).
- The catch block of a revision writes the item's status by id
  (`content-pack.repository.ts:1466-1475`), also over an approval, which the handoff
  document calls immutable and terminal (`:488`).
- Two overlapping decisions each miss the other's approval and may leave a pack
  partially approved whose items are all approved.
- Persisting the last week completes the cycle, and the policy refuses decisions
  unless the cycle is active (`content-policy.ts:109-125`): the drafts of the last week
  cannot be approved.
- The frozen snapshot of a week is read outside the transaction that claims it
  (`content-v2.service.ts:652`, against `:610`, "transactionally frozen").
- After an admin resolves to FAILED the attempt remains UNKNOWN, so `retryIntent`
  refuses (`admin.controller.ts:135`, `intents.service.ts:77-80`).
- A refused revalidation leaves FAILED without an attempt
  (`dispatch.processor.ts:136`), which can be neither retried nor resolved;
  `PUBLISHING_AUTOMATION_ARCHITECTURE.md:600` asks for action required.
- A "pending" report handled first fixes the event's fingerprint, so the later
  "paid" report of the same Paymob transaction is answered as a duplicate or refused
  (`billing.service.ts:579`, `:602`) and never credited
  (`Docs/planning/sprint-7/billing-plan.md:219`). The liveness property of the wallet
  names exactly this exception.
- The development-mode confirmation reads the checkout's status outside the lock
  (`billing.service.ts:728`).
- A claim refunded and charged again is a free no-op: the ledger's claim key is taken.

## 8. Not modelled

- MANUAL_EXPORT and SIMULATION intents (`runLocalAction`): they call no provider and
  do not take the candidate's slot.
- Export archives, signed media URLs, encryption and the credential vault, and the
  payment provider's HTTP calls and signatures: data transformations without steps
  of their own.
- Meta and n8n are external: they appear as the answers the code must handle.
- Of content: the first version of the generation path, the setup, media and asset
  jobs, the consumption of optimization instructions, the read workspaces, and the
  events that supersede or revoke a candidate after its handover.
- The cost telemetry with its circuit breaker, strategy, discovery, performance, auth,
  orchestration: protocols worth modelling, in the plan below.
- Journey, audit, mail, health, rbac, marketing-knowledge, `apps/web`, the Python
  service and infrastructure: read models, adapters, presentation and data work.

## 9. Plan

Done, in this order: tables and dispatch of publishing; owners, runner, sweeps,
admin, environment; the billing outbox; the wallet; their proofs; the abstract
dispatch and its refinement; content cycles, reviews and the handover; their proofs.

Next, most important first:

1. **Later candidate events**: supersession and revocation through the outbox, with
   the ordering and version checks of `candidates.service.ts`, composed with
   `ContentHandover` and `PublishingEnvironment`.
2. **Strategy runs** with the reserve and release of points, composed with
   `PointsWallet`.
3. **Asset jobs** of content items and their effect on approval.
4. **Tokens** (`auth`): refresh rotation, action tokens, OAuth state as single use.
5. **Performance refreshes**, the provider-cost circuit breaker, targets with their
   OAuth selection.
6. **More proofs**: the abstract specifications of the billing outbox (mailed, in
   doubt, settled) and of the content handover, with their refinements; and, where a
   component above is modelled, its inductive invariant.

Bounds to keep: runs of a few minutes with two workers; two actors per race, two
versions or attempts of each thing.

To repeat the checks: `tlc -workers 2 -config PubDelivery.cfg MCPublishing`,
`tlc -workers 2 -config ContentReview.cfg ContentReviews` (and so on, with the module
and file `PROJECT.json` names), `tlapm PublishingIntentProofs.tla`.
