# A verification project for the video studio

TLA+ specifications of the API of this repository (`src/apps/api/app`, FastAPI on
PostgreSQL or SQLite), with TLC configurations that check them on small instances and
theorems that TLAPS proves for every value of the constants. The modules are
written from the source; `PROJECT.json` names, for every definition, the lines it
stands for. Paths below are relative to `src/apps/api/app` unless they say otherwise.

1. [The system](#1-the-system)
2. [The modules and the code](#2-the-modules-and-the-code)
3. [What is left out of the models](#3-what-is-left-out-of-the-models)
4. [Runs](#4-runs)
5. [What does not hold](#5-what-does-not-hold)
6. [Fairness](#6-fairness)
7. [Proofs](#7-proofs)
8. [Plan](#8-plan)

## 1. The system

Customers order videos. A *generation job* is one row of the table `resources`
(`models.py`, `repository.py`): a status, a version and a JSON column `data` with the
eleven stages, their outputs, the current stage, timestamps and counters. An asyncio
task, the *executor* (`WorkflowManager`, `workflow.py`), takes the job through research,
editorial, script, fact and policy gate, storyboard, scenes (paid Veo takes), voice,
render, QA and scoring. Money is a *wallet* per organisation and an append-only *ledger*
(`billing.py`). Scenes of a finished video can be replaced, the video can be published, the
published video is measured, and what is learnt becomes the next version of the project's
strategy. Feeds and research propose topics, from which people or the automation start
new jobs. Several instances of the API may run on one database; each has one event
loop, a thread pool for the synchronous handlers, and its own dictionary of executors.

| component | state | operations | interacts with |
|---|---|---|---|
| Billing (`billing.py`) | wallet balance, ledger rows keyed `led_…`, monthly budget of a project | quote, charge, refund, settle, deposit, budget check | every paid handler and executor |
| Generation job (`workflow.py`, job routes of `routes.py`, `main.py`) | job row; scene, attempt and asset rows; `WorkflowManager.tasks` | create, start scenes, cancel, retry, retry stage, regenerate script; claim, run, interrupt, resume | billing, storage, providers, events, publishing |
| Scene regeneration and reassembly (`workflow.py`, `reassembly.py`) | regeneration row, `active_regeneration_id`, reassembly row with its claim | request, run, cascade, reassemble, approve | the job's row, billing, renderer |
| Publication (`publishing.py`, `social_browser.py`) | publication row, kill switches | prepare, confirm, upload, poll, retry, cancel, export | jobs, connections, metric checkpoints |
| PayPal and promo codes (`billing_routes.py`, `paypal.py`) | payment order, webhook event, redemption | create, capture, webhook, redeem | billing, PayPal |
| Metrics and strategy (`metrics.py`) | checkpoints, snapshots, strategy versions | collect, review, propose, activate | publications, projects |
| Research and automation (`routes.py`) | research profiles, runs, candidates, automation settings | run due profiles, replenish, produce, activate | ideas, jobs, billing |
| Source ingestion (`routes.py`, `source_ingestion.py`) | sources, source items, poll records | poll, ingest, pause, delete | research, jobs |
| Ideas and calendar (`idea_lifecycle.py`, `content_planning.py`) | candidate and idea rows | select, reject, mute, phase, quotas | jobs, publications |
| Idempotency (`repository.py`) | idempotency record | look up, store | create handlers |
| Sessions (`auth.py`, `auth_routes.py`) | session row with token hashes, replacement link | log in, rotate, replay detection, revoke, reset | every request |
| Webhooks and events (`events.py`) | deliveries with attempts and next time | enqueue, attempt, back off, replay; emit to sinks | all handlers and executors |
| The rest | – | characters, connections, administration, rendering, providers, scoring, MCP server, token broker, e-mail, web UI | see `components` in `PROJECT.json` |

### What is hard here

* **Interleaving.** Handlers declared `async def` and executors share an event loop and
  interleave at awaits only; handlers declared `def` (cancel, approve, download, activate,
  edit) run on pool threads and interleave with the loop at every commit. Two instances
  interleave at every database statement. Most code works on the copy of a row it has loaded:
  sessions do not expire on commit, and `repo.update` writes the whole `data` column.
* **Failure.** Providers raise; an exception becomes an automatic retry, a failed job
  with a refund, or (for errors that a deployment repairs) a job that the next start
  queues again. An upload may fail after the video has been posted. An instance may die
  between any two commits, or stop in order and cancel its tasks, each at the await where
  it stands.
* **Ordering.** The charge is taken before the work, settled before the render, and
  returned after a failure has been written; each part is a commit of its own. A capture's
  answer and PayPal's notification arrive in any order, any number of times.
* **Time.** A resume waits for a grace time, a retry for its delay, provider calls
  end in a timeout, the scheduler asks again.

### What makes each component correct

* *Billing*: the balance equals the ledger; only an overage overdraws it; a row is
  returned once; the budget is respected by charges that race; transactions never wait
  for each other in a circle.
* *Generation job*: one executor works on it; nothing is filmed before the policy gate,
  before a requested review has been approved, or without money; a resume finds its
  checkpoints and keeps paid scenes; a failure is refunded; a finished video has paid for
  its takes; a finished job stays finished; an accepted job comes to an end.
* *Scene regeneration*: one operation changes the video at a time; takes are paid before they
  are bought, a finished regeneration pays what it bought and a failed one nothing; the
  version shows the accepted takes; the production is given back.
* *Publication*: a video is posted once; what is reported as published names a post that the
  provider has finished with; an attempt ends.
* *PayPal*: one credit per captured order, however often capture and webhook arrive, only
  for what was paid, and in the end; a promo code keeps to its limit.
* *Metrics*: every due checkpoint is measured; the project always has an active strategy.
* *Planning*: one item per feed entry; repeated requests get one job; the automation keeps to
  the videos of the week; a short backlog is filled; a paid job is produced.
* *Sessions*: a refresh token rotates once; a replay revokes the family. *Webhooks*: attempts
  are counted, and a delivery ends. Neither is modelled.

The hazards of the code, each at its line, are listed in `PROJECT.json` with the
properties that watch them or the reason why none does.

## 2. The modules and the code

| module | role |
|---|---|
| `CreditBook` | the ledger of one billing reference as a record, and what charge, refund and settlement do to it; used by all modules that pay |
| `WalletSpec` | what billing promises: a wallet and one book per reference, changed in single steps |
| `Billing` | `billing.py` one SQL statement at a time, with row locks; implements `WalletSpec` |
| `GenerationJob` | the job row, its executors, request handlers, cancel thread and instances |
| `SceneRegeneration` | regenerations, reassemblies and approvals of one finished production |
| `Deposits` | PayPal top-ups and promo codes: capture requests, webhooks, row locks |
| `Publication` | publications, their handlers, the providers and metric checkpoints |
| `Measurement` | collections of checkpoints and the versions of the strategy |
| `Planning` | feeds, content items, research runs, candidates, automation, idempotent requests |
| `CreditBook_proofs` | lemmas about the ledger's operators, used by three of the next |
| `Billing_proofs`, `GenerationJob_proofs`, `SceneRegeneration_proofs`, `Deposits_proofs`, `Publication_proofs`, `Measurement_proofs`, `Planning_proofs` | theorems about these modules |
| `MC…` | the modules that the configurations instantiate |

How they meet: `GenerationJob` and `SceneRegeneration` pay through `CreditBook`, whose
operators are the steps of `WalletSpec`, which `Billing` implements. The ledger step of
`Deposits` is `WalletSpec`'s deposit. The rule of a commit (`Stored`: a writer's whole data
column, its status only if it changed it) is the same in `GenerationJob`, `SceneRegeneration`
and `Publication`. A publication creates the checkpoints (`AddCheckpoint`) that `Measurement`
collects; when it is cancelled or rejected, `Measurement` sees `Unpublish`. The automatic
productions of `Planning` are queued jobs whose life is `GenerationJob`.

### CreditBook, WalletSpec, Billing

A *book* has the cents of `ai_usage` rows that have not been returned (`open`) and that
have (`closed`), the settlement refund `led_set_…` (`setl`) and whether the overage row
`led_over_…` exists (`over`). `Outstanding` is `outstanding_charge_cents`.

`Billing` keeps the rows themselves. A transaction of a process is a sequence of steps:
a charge (`BeginCharge`) locks the project row and compares the budget (`LockProject`),
locks and reads the wallet row (`LockWallet`), and writes or is refused (`WriteCharge`,
`Insufficient`); a refund reads the charges before it locks the wallet (`BeginRefund`)
and returns those that have no `led_ref_` row by then (`WriteRefund`); a settlement
reads what is outstanding (`BeginSettle`), looks for its own row (`CheckSettled`), locks,
and writes, or meets the primary key (`WriteSettlement`, `DuplicateSettlement`). `Abort`
ends a transaction anywhere (the process dies, the connection is cut).

Processes in `OnLoop` are coroutines of one event loop: none of them begins while another
is inside a transaction, because `billing.py` never awaits. The others are synchronous
handlers on pool threads. A refusal is an `HTTPException` raised with the locks held
(`Refused`): `create_generation` catches it and commits, the others let it pass, and the
locks stay until `get_db` closes the session, which takes a turn of the loop (`Close`). A
plain `SELECT` sees what is committed when it runs, as under PostgreSQL's READ COMMITTED.
Reading a wallet object that the session has loaded before is not modelled as stale: no
caller keeps a `Wallet` across a lock.

The refinement maps the rows to books (`BookOf`); every commit is one step of `WalletSpec`,
everything before it is invisible.
A wallet step computes the new balance from the book,
so the refinement says that no interleaving of the transactions loses or makes a cent.

### GenerationJob

| variable | in the code |
|---|---|
| `row` | the `resources` row of the job: `status` and, in `data`, stage statuses, outputs, `storyboard_id`, `current_stage`, `interrupted_at`, `script_approved_at`, `generation_start_mode`, automatic retries per stage, the kind of the last error and whether its one-time repair was used |
| `gen`, `boards`, `takes` | scene rows by storyboard and whether they are `generated`; `scene_attempt` rows |
| `wallet`, `book` | billing, each operation one step (`Billing` shows that it acts like one) |
| `ex[i]` | the executor task of the job on instance i: where it is, its copy of the row, the scenes left, a pending `task.cancel()` |
| `req[i]` | the request handler on the event loop of i; a handler that has begun holds the loop |
| `can` | the cancel request on a pool thread |
| `up[i]`, `timer[i]` | the instance; the `call_later` of `resume_pending` |
| `used` | how much of each bound is spent |

`Stored` is what `repo.update` and SQLAlchemy write: the whole `data` of the writer's
copy, and the `status` only when it differs from the writer's copy. Therefore a stale
executor overwrites the data of a newer writer but may keep its status; several of the
cases of section 5 depend on it.

The executor is a program counter `ex[i].pc` through `run`, `_run_pipeline`,
`_resume_from_render`, `_resume_from_scene_generation`, `_generate_scene_with_qa` and
`_complete_from_render`:

* `Claim`, `Load`, `Delivered` – `_claim_generation_job`, the reading of the row, and
  the start event.
* `Dispatch` – where a job starts or resumes: `ResumeRender`, `ResumeScenes`, `FromTheTop`
  with the completed stages before the storyboard skipped (`Skipped`, `NextStage`).
* `BeginStage`, `Worked`, `CompleteStage`, `CompleteLast`, `ScriptRejected` – the stage
  loop. Stages that wait for a provider, the renderer or the storage have an await between
  begin and end. Rejected scripts put the job on review.
* `PolicyBlocks`, `Blocked`, `CompleteStoryboard`, `Review` – the gates.
* `NextScene`, `TakePasses`, `TakeRejected`, `AcceptScene`, `Fetched` – scenes: generated
  ones are fetched, others are bought; native speech QA may reject a take.
* `ReadAuthorized`, `Settle`, `SaveCosts`, `Finish`, `Published` – `_complete_from_render`.
* `Raise`, `FailStage`, `ScheduleRetry`, `Wake`, `FailJob`, `RefundFailure` – exceptions.
* `Interrupt`, `SaveInterrupt` – `task.cancel()` at an await inside or outside the `try`.

Requests (`BeginRequest`, `BeginCreate`, `ChargeReserve`, `ChargeRefused`, `SaveRequest`)
are create, start scenes, retry, retry stage and regenerate script; each reads the row,
charges unless a reserve is outstanding, writes `queued` and schedules. `BeginCancel`,
`SaveCancel`, `RefundCancelled` are the cancel handler. `Crash`, `Shutdown`, `Exit`,
`Boot` and `TimerFires` are the instances (`lifespan`, `resume_pending`).

### SceneRegeneration

| variable | in the code |
|---|---|
| `job` | the job row: `status`, `active_regeneration_id`, `active_reassembly_id`, the takes that its scene checkpoints name, `automatic_publish` |
| `scene` | scene rows: `status`, the regeneration that made the accepted take, whether the scene continues the one before it, whether an approval has locked it |
| `latest` | the takes that the newest version shows |
| `op` | regeneration and reassembly rows |
| `takes`, `book`, `wallet` | attempts that are billed; billing by `CreditBook` |
| `ex[o]` | the task of an operation: where it is, its copy of the job, the scenes left, the takes rejected so far |
| `copy[o]` | the scenes that the session of the operation's request or task holds |
| `req`, `appr` | the request that has claimed the job and pays; the approval that runs, with the scene it is at and its copy of it |
| `accepted`, `lost` | history: whose take of a scene was accepted last; the scenes in which an approval has put an older take back |
| `host`, `timer` | the instance; tasks that `resume_pending` will start |

A request claims by an `UPDATE` that matches the status and `updated_at` it has read
(`BeginRequest`), pays (`ChargeRegeneration`; `ChargeRefused` restores the job), writes the rows
and schedules (`QueueRegeneration`); `Reassemble` needs no money. The task replaces the scene,
or it and every continuation behind it (`Cascades`): `StartRegeneration`, `TakePasses`,
`TakeRejected` and its paid retake (`ChargeRetake`), `AcceptTake`, `SaveCheckpoints`, `Voiced`,
`Fetched`, one `Settle` per reference that `_settle_completed_job_charges` visits, `SaveCosts`,
`Rendered`, then the tail of events and automatic publication (`Told`), `Release`. A reassembly
is `StartReassembly`, `Fetched`, `Rendered`, `Complete`. `Raise`, `FailOperation`, `FailJob` and
`RefundFailure` are its `except` blocks, `Shutdown`, `Interrupt`, `Exit`, `Boot` and `TimerFires`
the orderly stop and `resume_pending`. `BeginApprove`, `ReadScene` and `LockScene` are
`approve_video_version` on a pool thread: it reads a scene, then writes it back, one after the other.

Scenes are written as rows are: `Writes` puts the whole data column of what the writer has `Seen`
into the row, and the status only where it changes it. A session sees the scenes that it holds as
it read or last wrote them (`Holds`, `Refreshes`, `HoldsAll`), the others as they are; a task loads
its scenes when it starts, all of them when it puts the checkpoints together. So an approval that
locks a scene may overwrite the take that a task has accepted since, and the task may overwrite the lock.

### Deposits

| variable | in the code |
|---|---|
| `topup`, `rows` | status of `paypal_topups` rows; their `led_…` rows |
| `order` | the order at PayPal (external): state and amount |
| `events` | notifications PayPal has not been answered 2xx for |
| `promo`, `redeemed` | the promo code's `active`, limit and count; `promo_redemptions` |
| `wallet`, `overdraft` | the balance, and what overages may still take it below zero |
| `lock` | `SELECT .. FOR UPDATE` on top-ups and on the promo code |
| `proc` | the handlers: where they are, what they are about, what PayPal told them |

`BeginTopup`, `CreateOrder`, `SaveOrder` are the creation; `Approve`, `Completes` the customer and
PayPal; `BeginCapture`, `BeginWebhook`, `Verify`, `LockTopup`, `CaptureOrder`, `GetOrder`,
`NotCompleted`, `Mismatch`, `PaidPending`, `Credit`, `StillOverdrawn` the two that finish a
top-up (`_finalize_topup`); `BeginRedeem`, `LockPromo`, `Redeem` the promo code, `PatchPromo` its
administrator, `AdjustCredits` and `Overage` what else moves the wallet. A call may fail before
or after PayPal has acted on it (`Fault`), a handler may die (`Die`), and one that leaves with an
exception holds its locks until its session is closed (`Close`).

### Publication

| variable | in the code |
|---|---|
| `pub` | the row: platform, status, `failure_phase`, `external_post_id` |
| `remote` | the posts at the provider (external) and their state |
| `points` | metric checkpoints of the publication |
| `paused` | the kill switch |
| `h` | handlers on the event loop: confirm, refresh, retry; each with its copy of the row while a thread uploads or asks |
| `cancel`, `pack` | cancel and download requests on pool threads; a download keeps its copy of the data column |
| `again`, `stale`, `clicked` | history: confirmed again after a failure; data put back by a download; posted by a click that raised |

`Prepare`, `Confirm`, `ConfirmExport`, `ConfirmFails`, `SessionUnavailable`; `Post` is the moment
at which the provider has the video, `SavePosted` and `SaveFailure` what the handler stores;
`BeginRefresh`, `Answer`, `SaveAnswer` the status check, `AddCheckpoint` each checkpoint row it
creates; `Retry`, `BeginCancel`, `SaveCancel`, `BeginDownload`, `StorePackage`, `Pause`, `Crash`.
An attempt that failed is `preflight` (the media was missing, or the composer gave up) or `unknown`
(nobody knows). `ClickRaises` is the case in which the composer gives up although it has posted:
the click on Share or Post was dispatched and raised, `_click` (`social_browser.py:130-146`) tries its
other selectors and reports a changed page.

### Measurement

`check`, `delayed` are the status and failure count of checkpoints, `public` the videos that can
be seen, `col` the collections (the scheduler's collect-due and single requests), `strategy` the
status of each version, `edit` the activations. `BeginDueRun`, `NextOfRun`, `EndRun`,
`BeginManual` ask the provider in a thread; `Measured` stores snapshot, review and proposal in one
stretch of the loop; `RunFails` gives the checkpoint back to the schedule, `RequestFails` does not.
`BeginActivate`, `Supersede`, `Activate` are `activate_strategy`, a commit per strategy.

### Planning

`setting` is the project; `feed` is the outside world's feed, `source` the source's status, `due`
whether its next poll is due, `taker` the polls and content-items requests at their awaits, `item`
and `record` the items and poll records; `jobs`, `saved`, `told` the jobs made for a key, the idempotency record and what clients
were answered; `run`, `topic`, `muted`, `auto`, `taken` research runs, candidates, muted topics,
automatic productions and those a workflow task has. `PollBegins`, `PollAnswers`, `PollFails`,
`ComesDue`, `PostBegins`, `PostAnswers`, `ItemEnds`, `PostEnds` are the ingestion. A poll takes the first
entries of the feed (`Listed`) in order, and stops at one whose link is refused (`Links`) or whose
record stands for another version. `RunDue` is `run_due_automation` in its order: the polls of the
scheduler (`PollBegins`, `Polling`), then `Enqueue`, the profiles and the backlog; a poll that raises ends
the call, and `Enqueue` is not reached. `Generate` and
`GenerationRequest` are requests with a key, `ProfileRun` (also in `RunDueResearch`), `BacklogRun`,
`ManualRun` what starts research, `RunBegins` … `RunEnds` `execute_research`, where `Selections` keeps to content-type
shares, the autonomy mode and the week's target. `Select`, `Reject`, `Mute`, `CancelJob`,
`RetryJob`, `PatchSource`, `DeleteSource` are editors, `ActivateAutomation` the activation after a
deposit, `Crash` the instance.

## 3. What is left out of the models

*Everywhere*: texts, prompts, prices, wording, logging. Amounts are small numbers; no property
depends on more than which is larger. A commit and the refresh of the written object are one
step. Where the modules have one instance, a second one would need a lock or a claim that the
code does not have (section 5 says what happens then).

* *Billing*: prices and quotes, the provider-cost columns; one project and one calendar month;
  two inserts of a wallet that does not exist yet do not race.
* *Generation job*: jobs in test mode (free, no provider). Errors have a kind: `transient`
  (`retryable_generation_error`), `repairable` (`generation_deployment_repair_field`) or
  `permanent`; the one-time repair fields are one flag. A refund, a charge and a settlement
  are one step each; a settlement still reads what is outstanding in a step before. Two
  commits with no await between them that write the same row are one. The scan of
  `resume_pending` is one step; its grace timer outlasts a create request that is running. One
  cancel request at a time. Edits of scene prompts (`routes.py:4066-4135`), which write data
  columns from a pool thread, are not modelled.
* *Scene regeneration*: a second instance, crashes between two commits, the take-over of a
  reassembly after fifteen minutes, aspect ratios, edits of prompts.
* *Publication*: dry runs, a YouTube connection that is missing when a status is refreshed
  (the row asks for a new authorisation), the choice of accounts, quota and metadata, the privacy of
  a video; a final click whose second selector posts once more; a second instance.
* *Deposits*: reads, lists, and administrators' creation of codes (a code exists).
* *Measurement*: metrics typed in for other platforms, the simulated mode, reading reports.
* *Planning*: budgets and provider prices, the cadence clock (a profile is due whenever it has no
  run), pausing a project, patches of settings, several sources and several projects (the scheduler
  polls those of all projects in one call; here there is one source), fetching and parsing of pages, the phase of an idea (a pure function), the calendar view; two instances that
  use one key at once; the hash of a request's body (a repetition has the same body).
* *Not modelled at all*: sessions and webhooks (plan, section 8); characters (a task without
  retries or a money protocol of its own); connections, rendering, providers, e-mail and the
  token broker (input and output); scoring and price estimates (pure arithmetic that unit tests
  reach); the MCP server (forwards to the same handlers); schemas; the web user interface.

*Bounds*. Counters are bounded in the guards by constants of these names:

| module | bounds |
|---|---|
| `Billing` | `MaxRows`, `MaxCents`, `MaxActual`, `MaxDeposits` |
| `GenerationJob` | `MaxOps`, `MaxCancels`, `MaxFaults`, `MaxCrashes`, `MaxStops`, `MaxSpends`, `MaxStoryboards` |
| `SceneRegeneration` | `MaxFaults`, `MaxStops` and `MaxTurns` (stops; stops and approvals together; each one number for productions that are published by themselves, one for the others) |
| `Deposits` | `MaxOverdraft`, `MaxFaults`, `MaxPatches` |
| `Publication` | `MaxFaults`, `MaxMishaps` (cancels, downloads and crashes together); what has failed is confirmed once more |
| `Measurement` | `MaxFailed`, `MaxEdits`; one manual request fails |
| `Planning` | `MaxFaults`, `MaxCrashes`, `MaxManual`, `MaxEdits`, `MaxJobs`, `Runs` |

When these are spent a system may rest for ever because nobody asks for anything: the runs have
`CHECK_DEADLOCK FALSE`, except `billing_wallet`. `MaxStoryboards` is large enough for the other bounds
in `job_ends` and `job_money`; in the other runs it only cuts the longest behaviours.

## 4. Runs

| run | instance | properties |
|---|---|---|
| `job_restart` | one instance, start, retry and regenerate (3), two exceptions, a crash, a stop; event sinks, automatic publication | `TypeOK`, `ScenesAreKept` |
| `job_money` | one instance, all operations (5), three exceptions or rejected takes, one native retake, other work that spends from the wallet | `NoUnpaidTake`, `FailureIsRefunded`, `ReadyPaysItsTakes` |
| `job_ends` | one instance, all operations (4), two exceptions, two stops, fair | `ReviewGate`, `PolicyGate`, `ResumeHasCheckpoints`, `JobsEnd` |
| `job_instances` | two instances, create and start, a cancel at either, an exception, a crash, a stop | `SingleExecutor` |
| `billing_wallet` | two handlers on pool threads, one reference charged twice, prices of a cent, fair | `TypeOK`, `LocksHeld`, `BudgetRespected`, the refinement `ImplementsWallet`, `TransactionsEnd` |
| `deposits` | one top-up, two accounts and a code, two handlers and the webhook, overages up to the price, a fault, a patch, fair | `TypeOK`, `CreditedOnce`, `CreditIsPaid`, `RedeemedWithinLimit`, `PaidIsCredited` |
| `regeneration` | two regenerations and a reassembly of two scenes, a rejected take each, money for three takes, an exception, fair; published by itself, or not and either stopped or approved once | `TypeOK`, `OneOperation`, `TakesAreReserved`, `PaysItsTakes`, `NoSceneWaitsForever`, `ShowsAcceptedTakes`, `JobIsGivenBack` |
| `publication` | one publication of any platform, two handlers, two failures, one mishap, fair | `TypeOK`, `PostedOnce`, `PublishedNamesItsPost`, `AttemptsEnd` |
| `publication_download` | one handler, two failures, a download | `RetryIsBlocked` is violated |
| `measurement` | two checkpoints, collect-due and a request, a failure of each, two activations, fair | `TypeOK`, `StrategyIsActive`, `DueIsMeasured` |
| `planning` | nine projects (below), a fault, a crash, a manual run, an edit, fair | `TypeOK`, `OneItemPerEntry`, `AnsweredOnce`, `AutomaticWithinTarget`, `BacklogIsFilled`, `FeedIsIngested` |
| `planning_activate` | a blocked production and a deposit, fair | `FundedJobsAreTaken` is violated |

*What they show.*

* `job_restart`: what was paid for survives failures, crashes and stops. `job_money` follows
  the reserve through charge, refund, recharge and settlement: no take is bought on a returned
  reserve, no failed job keeps one, and a finished job has paid exactly its takes, also when
  earlier takes were rejected or belong to an attempt that failed. `job_ends`: no sequence of
  operations, exceptions and stops films a script whose gate or review has not passed, no
  resume meets a missing checkpoint, interrupted jobs are found again and automatic retries
  stop. `job_instances`: the row lock of the claim and `interrupted_at` are enough for
  instances that come and go.
* `billing_wallet` covers every overlap of two transactions of the four kinds, refused ones
  included, and every one of them ends.
* `deposits`: whichever of capture request and webhook comes first, after lost answers, repeated
  notifications, reviews and dying handlers, a paid top-up is credited exactly once, only with
  the amount that was asked for, and in the end; the last redemption of a code goes to one account.
* `regeneration`: the claim by status and `updated_at` keeps requests apart; retakes are
  reserved before they are bought; settlements that later operations repeat return nothing
  twice; the video shows every accepted take, whatever copies of scenes and job are written back
  (unless an approval has put an older take back, section 5), and is given back after a stop. What
  begins, is refused or fails while a version is being published changes none of this, except
  that the production may then not be given back (section 5).
* `publication`: no failure, retry, refresh, cancel, crash or late answer makes the code post what
  may be public already, except after a final click that posted and raised (section 5), and what it
  reports as published the provider has processed, under the id that the row names.
* `measurement`: overlapping collections and failed calls leave no due checkpoint behind, and
  activations that overlap leave a strategy active.
* `planning` has nine projects (`MCSettings`): a feed that revises an entry while it is polled by the
  scheduler and by hand and its articles arrive as content items; a feed whose source is paused and
  deleted; one with a private link behind another entry; one that is longer than a poll takes;
  entries and articles that start research; articles beside generation requests; a backlog beside a feed
  whose only link is private and whose source may be paused or deleted, after which the backlog is
  filled again; a team that takes, hides and mutes candidates of a backlog of two; and a profile
  with a backlog and a content type that gets no share.

*Why the bounds are enough.* Two scenes are the least for which some are paid and some are
not, and for which one continues the other. The reserve (3) exceeds two takes and falls below
four, so settlements return something and overages happen. A deposit of two reserves lets a
job be charged again after an overage; in `job_money` it is one reserve, which the
organisation's other work may take (`SpendElsewhere`), so that charges are also refused. One
automatic retry separates the first failure from the last. Three to five client operations
reach create, start, a failure and two kinds of retry after it. With two processes every pair
of transactions overlaps in every order; a third can only wait for a lock. A price of one cent, a
budget of one, payments of two and settlements of up to two make every comparison come out both
ways. Two regenerations and a reassembly overlap in every pair, and money for three takes refuses
some requests and retakes. Top-ups and publications of different rows share only handlers and
the wallet, which none of the properties relates; two handlers and the webhook meet on one row in
every order. Two failures let a publication fail, be retried, and fail again. Two checkpoints
separate the one being asked for from the one that waits. In `planning` the week has one video and
the backlog up to two, so one topic too many is always there. Spending one fault and one crash
anywhere reaches each failure path once; a second of the same kind repeats it from a state that is
reached already. The price of a top-up covers the greatest overdraft, the bonus of a promo code
does not, so that a redemption is refused.

The largest runs have 3.2 million states (`job_instances`), 825,000 (`measurement`), 783,000
(`publication`), 623,000 (`planning`), 561,000 (`regeneration`) and 344,000 (`job_ends`).

Each property has a mutant, an operator that changes one definition the way a plausible
mistake in the code would (marked *Mistake* in the modules); the run with that operator
violates the property.

## 5. What does not hold

### Two disagreements between code and documentation, each with a run

* **A download lets a blocked retry through** (`publication_download`).
  `_create_publication_export` reads the row, fetches the media on a pool thread and then writes
  its whole data column (`routes.py:5503`). If an attempt has failed meanwhile, `failure_phase` goes
  back from `remote_unknown` to `preflight`, and `retry_publication`, whose message says that
  such a retry is blocked, posts the video again.
* **Activation does not start what was paid for** (`planning_activate`).
  `activate_project_automation` is a `def` handler. It charges the blocked jobs, stores them as
  queued and calls `workflow.schedule`, whose `asyncio.create_task` raises on a thread without an
  event loop. The jobs wait until an instance starts.

### Properties of `GenerationJob` and `Billing` outside their runs

The passing runs state their conditions. Outside of them the following fail. Each instance is
that of `MCGenerationJob_restart.cfg` with `MaxFaults`, `MaxCrashes` and `MaxStops` 0,
`MaxStoryboards` 2, `MaxOps` 1, `Offered` empty, and the changes that are named.

* **Stage retry of a failed render loses the scenes**: `ScenesAreKept`; `Offered`
  `{"retryStage"}`, `MaxOps` 2, `MaxFaults` 1. The stage retry sets the render stage to pending and
  `current_stage` to render; `_run_pipeline` resumes the render only from running or failed and
  the scenes only from storyboard, scene generation or voice. The job falls through to a new
  storyboard and buys every scene again.
* **A late cancel loses the scenes**: `ScenesAreKept`; `Offered` `{"start", "retry"}`, `MaxOps` 3,
  `MaxCancels` 1. The cancel reads the job while it waits for its author; the author starts it and it is
  filmed; then the cancel writes the data column that it has read, and a retry begins at the top.
* **A crash leaves a job running**: `JobsEnd` under `FairSpec`; `MaxCrashes` 1, `EventSinks`
  FALSE. Only an executor that can still run its `except` block writes `interrupted_at`; after a
  crash the row is `running` without it, is scheduled at every start and refused by every claim.
  A retry refuses a running job.
* **A refund after a settlement returns too much**: `NeverReturnsMore`; `MaxFaults` 1. The
  settlement gives back the unused part before the render; if the render fails for good the
  whole reserve is returned on top.
* **A cancel before the review skips it**: `ReviewGate`; `Offered` `{"retry"}`, `MaxOps` 2,
  `MaxCancels` 1. Storyboard completed is committed before the job waits for review; a cancel in
  between and a retry take the scene branch, which does not look at `script_approved_at`.
* **A stop before the author sees the script skips the review**: `ReviewGate`; `Offered`
  `{"retry"}`, `MaxOps` 2, `MaxFaults` 1, `MaxStops` 1 and `EventSinks` TRUE. A stop during the last event
  of a job that has begun to wait for its author writes `running` and `interrupted_at`; the next instance
  begins the storyboard stage again, and if it fails there for good, a retry finds the storyboard and takes
  the scene branch.
* **A stop turns a finished job into an interrupted one**: `FinishedStays`; `MaxStops` 1. While a
  finished job publishes or emits its last event, a `CancelledError` writes `running` and
  `interrupted_at`; the next instance produces it again.
* **A retry during the last events does nothing**: `JobsEnd` under `FairSpec`; `Offered`
  `{"retry"}`, `MaxOps` 2, `MaxFaults` 1. `schedule` returns while the previous executor is still
  emitting (with `EventSinks` TRUE); the job stays queued.
* **Refusals can stop the event loop**: `RefusalsAnswered` of `Billing` (and `TransactionsEnd`)
  under `FairSpec` with `Procs` and `OnLoop` both `{p1, p2}`, `MaxCents` 1, `MaxActual` 2,
  `BudgetCents` 1, `MaxRows` 2, `MaxDeposits` 1. A 402 in start, retry or stage retry leaves the
  handler with the project row and the wallet row locked. FastAPI runs the end of `get_db` on a
  pool thread, started by the loop. If another coroutine asks for the row first, it waits inside
  the loop's thread: nothing closes the session, and everything on that instance stands still.
  `SELECT .. FOR UPDATE` has no timeout in the code.
* `SingleExecutor` fails when client operations on two instances overlap (two starts, two
  retries: the second write of `queued` releases the first claim), when a retry on
  one instance comes between the commits of `failed` or `blocked` of the other, when a cancel
  at another instance than the executor's is followed by a retry, when a stopped executor writes in
  its tail with event sinks, and with automatic retries on two instances (the job is queued while
  its executor sleeps). Hence one client operation after create, no sinks and `MaxAutomatic` 0 in
  `job_instances`; section 7 proves it for whatever avoids these cases.
* `ReadyPaysItsTakes` excludes jobs in which an overage exists and a refund has been made:
  `led_over_` is written once, so a refunded overage is not charged again.
* `FailureIsRefunded` and `NoUnpaidTake` fail with crashes: between the commit of
  `failed` and the refund, and between the insert of a new job and its charge.
* `NoUnpaidTake` and `ReadyPaysItsTakes` fail in `MCGenerationJob_money.cfg` with `MaxCancels` 1 or
  `MaxStops` 1. A cancel that looked for the executor before there was one, or during the
  last stage, returns the reserve of a job whose executor goes on and finishes. A stop during the last event of a job that
  has failed and been refunded, or has been settled and finished, makes it interrupted: the next
  instance films again on a reserve that is gone or too small.
* `NoUnpaidTake` fails on two instances without any fault of an instance: with
  `Instances = {i1, i2}`, `Deposit = 6`, retries only, `MaxOps = 2`, `MaxFaults = 1`, no cancels, crashes, stops,
  automatic retries or sinks, a retry at the second instance between the first one's commit of `failed`
  and its refund pays a reserve, the refund returns it, and the second instance films.
* Stages of a cancelled job begin when another instance than the executor's serves the
  cancel request.

### The other modules

* *Scene regeneration.* **The tail of a regeneration strands a reassembly**: `JobIsGivenBack`
  fails for a production that is published when ready (`job.publish`, which the property
  exempts), and with `EventSinks` TRUE. A second regeneration that is refused 402 or fails during the tail clears
  `active_regeneration_id` (`routes.py:4747`, `workflow.py:1271`), a reassembly is accepted, the
  tail's `Release` (`workflow.py:1251`) writes its old data column over `active_reassembly_id`, and
  `run_reassembly` (`reassembly.py:44-48`) gives up: the job stays queued. `OneOperation` fails
  with `EventSinks` TRUE and a stop: in the tail of a reassembly a regeneration is accepted, and
  the next start runs both. Hence no sinks in the run, and no stops of productions that are
  published by themselves. `PaysItsTakes` and `TakesAreReserved` exempt restarts, since an
  operation that was stopped and resumes buys its takes again on the same reserve.
* *Deposits.* A paid top-up that is smaller than the overdraft is refused like a charge (`StillOverdrawn`,
  `billing.py:157`): it is completed at PayPal and never credited. `PaidIsCredited` fails in
  `MCDeposits.cfg` with `MaxOverdraft` 3, one cent more than a top-up.
  **An approval can undo an accepted take**: `ShowsAcceptedTakes` exempts the scenes in `lost`, and
  fails in the `regeneration` run without that. `approve_video_version` runs on a pool thread and
  writes the whole data column of each scene that it has read (`routes.py:4575-4578`). It begins
  while the production is ready and reads a scene, a regeneration then accepts a take of it, and the approval writes the
  older take back. That regeneration still renders what it accepted; the next one, of another scene, shows the
  older take. In the other direction a task may write an approval's lock away.
* *Publication.* **A failed last click may post twice**: `PostedOnce` and `RetryIsBlocked` exempt
  `clicked`, and `PostedOnce` fails in the `publication` run without that. `_click`
  (`social_browser.py:130-146`) drops whatever `locator.click` raises, a timeout after the click was
  dispatched too, and then raises `provider_ui_changed`, whose `remote_state_unknown` is False. For the
  click on Share or Post (`social_browser.py:533-541`, `627-631`) the video may be public by then; the
  route stores `preflight` (`routes.py:5845`), which a retry takes for *nothing was sent*: `Prepare`,
  `Confirm`, `ClickRaises`, `SaveFailure`, `Retry`, `Confirm`, `Post`.
  *Published* means processed, not visible: a video is private unless the client asks for another
  privacy (`routes.py:5905`), `get_youtube_video_status` passes the privacy on and does not look at it
  (`publishing.py:262`, `314-324`), and `tests/test_publication_safety.py:250-272` expects a processed
  private video to be reported as published. No property here says that anybody can see it.
  The scheduled refresh (`routes.py:2448`) comes after the feed polls of the same call and is not
  reached while one of them raises (below); `AttemptsEnd` assumes that it is reached again and again.
  A publication that is confirmed again after a failure is posted again (`again`
  in `PostedOnce`). Two instances that confirm at once both upload. A crash during an upload
  leaves the row uploading: the refresh skips it (`AttemptsEnd` excludes it).
* *Measurement.* A manual request whose provider call raises leaves its checkpoint collecting, where
  no run of collect-due looks for it (`DueIsMeasured` excludes it).
* *Planning.* **One private link stops the automation**: for an entry whose link is private or does not
  resolve, `validate_public_url` raises a `ValueError` inside the loop of the poll (`routes.py:2144`).
  `poll_due_rss_sources` catches `HTTPException` only (`routes.py:2433`). The poll ends there, the source is not
  marked and stays due, and `run_due_automation` (`routes.py:2445-2448`) ends before the profiles, the
  backlog and the publication refresh, at every call, as long as the entry stands among those that a
  poll takes. In the code this holds for all projects at once; the model has one. `BacklogIsFilled`
  and `FeedIsIngested` exclude it (`FeedRaises`; an entry with a private link before this one). A name that
  fails to resolve for a while only delays.
  Entries beyond `max_items_per_poll` (`routes.py:2136`) are dropped for as long as they stand there
  (`Listed` in `FeedIsIngested`).
  A crash leaves a research run queued or running, and a running one blocks the
  replenishment of the backlog for good (`BacklogIsFilled` excludes it). A feed entry that is
  revised after it was ingested is refused 409 and stops the entries behind it (`FeedIsIngested`
  excludes it). A source that is paused or deleted while it is polled is written back by the poll
  (`routes.py:2127`, `2207` against `1769`). The research run of a content item that is
  answered 402 is never executed.

## 6. Fairness

Exceptions, gates, client requests, cancels, crashes and stops are never fair. Where a call
may raise or answer, the two are alternatives at the same place: fairness forces an end, not
success.

* `GenerationJob!FairSpec`: weak fairness for each executor, for the handler that holds a
  loop, for the cancel thread and for the host. Provider calls have timeouts, and asyncio runs
  what is ready. `Wake`, the end of the retry delay, and `TimerFires` are timers. `Boot`: a stopped
  instance is started again by its platform; without an instance nothing runs.
* `Billing!FairSpec`: strong fairness for taking a row lock (the database queues waiters,
  so a lock that becomes free again and again is got) and for `Close` (the loop's task queue:
  what is ready runs when the loop is free again and again), weak fairness for the steps of a
  transaction that holds its locks. New transactions need not begin.
* `Deposits!FairSpec`: the same for locks (`Take`), `Close` and the handlers' steps (`Work`), and weak
  fairness for `Notify`: PayPal repeats a notification until it is answered with 2xx. The
  customer need not come back.
* `SceneRegeneration!FairSpec`: weak fairness for the request that has begun, the task of each
  operation and the host, as in `GenerationJob`.
* `Publication!FairSpec`: strong fairness for each handler that has begun (uploads and status
  calls end by a timeout; the loop is free again and again), weak for the provider's decision and
  the cancel thread's commit, strong for the refresh of processing rows, which the scheduler
  calls for ever; that is more than the code gives while a feed raises (section 5).
* `Measurement!FairSpec`: weak fairness for collect-due, which the scheduler repeats, and for
  collections that have begun.
* `Planning!FairSpec`: weak fairness for `RunDue` as a whole, that is for whatever step the scheduler's
  call of run-due has next, and for time (`ComesDue`); for polls, items and runs that have begun.
  Nothing is assumed of the backlog's replenishment: the call reaches it or does not.

## 7. Proofs

Eight modules hold the proofs. Each theorem is for every value of the constants that the named
assumption of its module allows, and for bounds of any size; hypotheses beyond that are stated in
the theorem and explained here. Every component's proof has the same shape: an inductive invariant
as a conjunction of named parts, a lemma per action or group of actions, one lemma that joins them
for `[Next]_vars`, and a temporal last step. The sets that the invariants sum or count over
(`Refs`, `Checks`, `DueRuns`, `Manual`, `Entries`, `Runs`, `Topics`) are assumed finite, as rows of
a database are.

| module | theorems | hypotheses |
|---|---|---|
| `Billing_proofs` | `LocksAreHeld`, `TypeCorrect`, `WalletImplemented`, `BudgetIsRespected` | none |
| `GenerationJob_proofs` | `TypeCorrect`, `PolicyGateHolds` | none |
| | `SingleExecutorHolds` | several instances whose steps are orderly |
| | `ResumeHasCheckpointsHolds` | one instance, or several that are orderly |
| | `FailureIsRefundedHolds` | one instance, or several that are orderly; no crashes |
| | `NoUnpaidTakeHolds`, `ReadyPaysItsTakesHolds` | one instance, no cancels, crashes or stops, takes cost something |
| | `ReviewGateHolds` | one instance, or several that are orderly; no cancels, no stops if there are event sinks |
| | `ScenesAreKeptHolds` | one instance, or several that are orderly; no cancels, no stage retries |
| `SceneRegeneration_proofs` | `TypeCorrect`, `NoSceneWaitsForeverHolds`, `TakesAreReservedHolds`, `PaysItsTakesHolds` | none |
| | `OneOperationHolds`, `ShowsAcceptedTakesHolds` | no stop finds an operation in its tail |
| `Deposits_proofs` | `TypeCorrect`, `CreditedOnceHolds`, `CreditIsPaidHolds`, `RedeemedWithinLimitHolds` | none |
| `Publication_proofs` | `TypeCorrect`, `PostedOnceHolds`, `PublishedNamesItsPostHolds` | none |
| `Measurement_proofs` | `TypeCorrect`, `StrategyIsActiveHolds` | none |
| `Planning_proofs` | `TypeCorrect`, `OneItemPerEntryHolds`, `AnsweredOnceHolds`, `AutomaticWithinTargetHolds` | none |
| `CreditBook_proofs` | lemmas on the ledger's operators, for the modules that pay | none |

### CreditBook

`BookTypes` (each operation of the ledger keeps the type of a book), `BookNets` (by how many cents
it changes what is charged in all) and `SettledExact` (after a settlement of at most what was
authorised, exactly the actual price is outstanding). Billing, the generation job and regenerations
use the same three.

### Billing

`LocksAreHeld` is `Spec => []LocksHeld`: a transaction past its `FOR UPDATE` holds that row and
its balance is the committed one, and whoever holds a row is at a place where it goes on to
release it. This is why the wallet cannot lose an update. The inductive invariant `Inv` is `Shape /\
LocksHeld`: `Shape` says what kind of value `proc` and the locks are, without which an `EXCEPT` has
no known value.

`TypeCorrect` needs `Books`: besides `TypeOK`, every ledger row is worth a cent at least
(`RowsCount`), and what a transaction has read still holds where it uses it (`Sound`): a settlement
that has found charges still finds some, and what it took for authorised is no more than the rows
now sum up to. This is what keeps a settlement refund from being negative although the wallet is
locked only after the reading.

`WalletImplemented` is `Spec => ImplementsWallet`: under the mapping `TheBook`, each commit of a
charge, a refund, a settlement or a deposit is one step of `WalletSpec` and every other step none.
Four lemmas say what the commits do to the rows and the book of their reference (`ChargeTaken`,
`RefundGiven`, `SurplusGiven`, `OverageTaken`), each in the form `Written(r, b, cents)`: the rows
of other references stay, the book of `r` becomes `b`, its overages grow by `cents`. `WalletSpec` has
no bounds: how many cents a step moves is what its book says, since charges that run side by side
may pass any bound on the rows.

`BudgetIsRespected` follows from `Budgeted`: what is left of the month (`Room`) is not negative, and
who is between the check of the budget and the write of the charge fits into it. Room shrinks by
charges only, and the project's row lock admits one charge at a time to that stretch.

The sums over rows and references are folds of the community modules, that is recursive functions on
the subsets of a finite set. They are reasoned about by the least counterexample (`LeastNatural`,
`NaturalSteps`, `SubsetSteps`): `TotalExists` and `SumIsTotal` turn the fold into a function with the
recursion one wants, and `SumAgrees`, `SumWithout`, `SumSplit` and `SumChange` are what the rest
cites.

### GenerationJob

`TypeCorrect` and `PolicyGateHolds` hold for any number of instances, scenes, operations, faults,
crashes and stops. `PolicyGate` is not inductive: it speaks of an executor that is already at Veo,
whereas the decision to go there is made from stage statuses, outputs and `current_stage`, which
resets, resumes and stale copies change long before. The inductive invariant `Inv` adds, for
the row and for every copy of it (`ex[i].mem`, `req[i].mem`, `can.mem`), `Gated`: data that
hold a storyboard output have `PolicyPassed`, and data whose current stage is the policy stage
hold no storyboard (so a failure there cannot leave one behind); and for each executor `Placed`:
where it stands in the stage loop agrees with its copy, and whoever is at the storyboard or
the scenes has `PolicyPassed`. `Gated` has to hold for all copies because each of
them may be written back at any later time. The proof has a lemma per action (`ClaimKeepsInv` …
`TimerFiresKeepsInv`); most of them rest on `CommitKeepsInv` (a commit of gated data keeps `Inv`),
`StepKeepsInv` (an executor moves without a commit), and on lemmas about the operators on data:
`SetStageGated`, `CompletedGated`, `ResetGated` (a reset drops what would otherwise pass the gate),
`PreparedGated` (what each handler writes), `NextStagePlaced` (the next stage to run lies behind
skipped ones only; this is where completed stages are allowed to stand for the gate).
`MinInSet` takes the least element from the well-foundedness of `<` on the naturals.

The deployment starts a second instance under load (`infra/terraform/main.tf:596`), and then a stale executor may
write its copy under a job that another instance has taken up, in the ways section 5 lists for
`SingleExecutor`. The claim alone does not prevent them; `Orderly` is what has to be true of the
steps besides, a hypothesis on behaviours (`[][Orderly]_vars`) and not a part of the model:

1. a client operation begins when no other is being served and no executor works on the job or
   still writes its end (it may have its refund or its last event left), and a new job is not
   created while a task of the previous one (refused for want of credits) is still to claim;
2. an instance that starts repairs a failed job (`Repairs`) only when no client operation is being
   served;
3. nobody claims a job that is queued for the automatic retry of an executor that is still there.

Nothing is asked of cancels, crashes, stops, sinks, timers, restarts or of how many instances there
are. Each clause is needed: without any one of them TLC finds two executors. Every behaviour of
`job_instances` is orderly (`[][Orderly]_vars` holds in its 3.2 million states), so the theorem
covers that run and goes beyond it: any number of operations one after another, event sinks,
automatic retries on their own instance.

* `SingleExecutorHolds` is `Spec /\ [][Orderly]_vars => []SingleExecutor`. `HolderInv` says that one
  executor at most is between its claim and its last write of the row (`Holder`), and what the row
  and its copy then look like at each place (`Engaged`): a running job is not marked interrupted, a
  queued one waits for the retry of its holder, a failed one is being failed by it. So whoever finds
  a job that may be claimed finds no holder (`ClaimFindsNobody`): this is the argument that the
  conditional claim is a lock although it is not released by whoever took it. Handlers work on a job
  without holder (`Undivided`), and no cancellable job has a failure that a start repairs.
* `Apart` is `OneInstance \/ Orderly`. `ApartSteps` draws from `HolderInv` what the next four need: a
  step of one instance leaves row and scenes alone, or the others are at rest and serve nobody
  (`Sole`, `Spares`). `ResumeHasCheckpointsHolds`, `FailureIsRefundedHolds`, `ReviewGateHolds` and
  `ScenesAreKeptHolds` are stated under `[][Apart]_vars`, which a single instance always satisfies
  (`OneIsApart`). Their runs have one.

The other two, `NoUnpaidTakeHolds` and `ReadyPaysItsTakesHolds`, concern one instance (`OneInstance`):
with several, even orderly ones, the first is false. A retry at another instance, between the commit of
`failed` and the refund, pays a reserve that this refund then returns (section 5).
Cancels, crashes and stops are excluded only where section 5 shows that the property fails with
them.

* `ResumeHasCheckpointsHolds`. `SeqInv` says of the row and all copies that stages are completed in
  order (`Ordered`: a completed stage has its output, who has a storyboard has completed what comes
  before it, who has begun the render has completed storyboard, scenes and voice); of an
  executor that its stage may begin or end with its data (`Stood`); of a job that waits for its author
  that its render has not begun (`Calm`) and that nobody but a task about to end is with it. Crashes,
  stops, cancels and every operation are allowed.
* `FailureIsRefundedHolds`. `RefundInv`: while the job is failed, either nothing of the reserve is
  outstanding, or somebody is `Owing`: an executor between the failure and the refund, or a retry that
  has just paid a new reserve. Without the last case the invariant would be false while a handler
  stands between its charge and its save. `OthersRefund` says what a step at one instance leaves of this
  at the others.
* `NoUnpaidTakeHolds` and `ReadyPaysItsTakesHolds` come from one invariant, `MoneyInv`. `BookInv`
  gives the shapes of the ledger: one reserve or none, or an overage that the takes billed so far
  account for. `Kept` relates it to the executor: its copy is the row; whoever is in the pipeline has
  paid or is still before the review (`Covered`); the ledger is exact to the cent from the settlement
  to the end of the job (`Squared`); completed scenes have takes (`Shown`, which is where a take has
  to cost something); a job that waits for its executor has been paid (`Awaited`), and so has one that
  a handler is about to queue (`Asks`). The hypothesis `Uninterrupted` is the condition of the
  run.
* `ReviewGateHolds`. `ReviewInv` says for each place of the executor which status the row has
  (`Matched`) and that a job that is taken up or would be taken up as it is has no storyboard, needs no
  review, or has been approved (`Cleared` in `Decided`); a handler works on a job that rests
  (`Alone`). `ReviewUndisturbed` excludes cancels, and stops if there are event sinks: section 5 has
  the counterexamples. Crashes, failures, retries and stage retries are allowed.
* `ScenesAreKeptHolds` (an action property). `KeepInv` relates the scenes of the row's storyboard to
  its data (`Saved`): there are none, or the render is completed, or the job resumes at the scenes or
  at the render (`RenderPending`, `ScenesPending`). `Holds` says what an executor knows besides at each
  place: up to the storyboard there is nothing to lose (`Replaceable`); at the scenes it works on the
  storyboard that the row names; past the render the render is completed; before the review no
  scene is there. The critical step is a failure (`FailedSaved`): it must not turn a job that resumes
  into one that starts from the top. `ScenesUndisturbed` excludes cancels and stage retries, which do
  lose scenes (section 5); exceptions, crashes, stops with event sinks, retries and new scripts are
  allowed.

### SceneRegeneration

`Base` joins the types with what a task and its row say of each other (`Fits`, `RequestIsOff`,
`TimerIsOff`, `DownIsOff`): which statuses an operation has at each place, and that one which a
request is still paying for, or a timer will start, has no task. It comes in three parts, so that
an action that touches one leaves the others alone: `Core`, the copies of the sessions (`Copies`) and
the two history variables (`History`). What a write of copies does to a row is stated once
(`WritesDoes`, `HoldsDoes`, `RefreshesDoes`, `HoldsAllDoes`).

* `NoSceneWaitsForeverHolds`: a scene that is shown as regenerating has an operation that is on its
  way to it or will fail it (`WaitsFor`), through refusals, stops, restarts and approvals; and its
  session, if it holds the scene, sees it as regenerating too, since a failure marks what it sees.
* `OneOperationHolds`: an operation owns the production from its claim to its release (`Owns`), there is one
  owner (`OneOwner`), and the production is then queued or running (`OwnersClaim`), which is what the
  claim of the next one asks for. The statement is `[](Undisturbed \/ StopsFindNoTail =>
  OneOperation)`: a stop during the tail of events and publication marks a finished operation to run
  again, after its production has been given to another (section 5). `StopsFindNoTail` says that such
  stops do not happen: productions that are stopped have neither sinks nor automatic publication, as
  in the run; `Undisturbed` covers the others up to their first stop.
* `ShowsAcceptedTakesHolds` (an action property, under `StopsFindNoTail`). `Versions` says that the take
  accepted last of a scene that is not `lost` is what its row names (`TakesKept`), what the owner's
  copy of the scene names (`CopiesKept`), and, past the checkpoints, what the owner's copy of the job
  names (`ShotsKept`). Its copies stay good because it is the one owner meanwhile; `VersionsStep` says
  which writes keep the three.
* `TakesAreReservedHolds` and `PaysItsTakesHolds`: `BookFits` says what a regeneration has paid at
  each place, namely the takes bought and those still to buy; `Refs`, that a settlement visits its own
  charges and those of regenerations that are done, so that repeating it moves nothing
  (`SettledExact`). Both properties exempt restarts.

### Deposits

`TypeCorrect`, `CreditedOnceHolds` (`Spec => []CreditedOnce`) and `CreditIsPaidHolds`
(`Spec => []CreditIsPaid`) hold for any top-ups, accounts, handlers, webhooks, prices and faults. The
inductive invariant adds to the two: `Named` (a busy handler's top-up is one), `LiveFirst` (a row
is live before its order can be approved, notified or finished), `CreatorAlone` (until then only
the request that has made it changes it) and `FinisherHoldsRow` (whoever finishes a top-up
holds its row lock, the row is not captured, and what it has been told of a completed order is
still so). The last is the heart: the check of the status and the credit are separate steps, and
the lock carries the one over to the other; that PayPal never takes a completion back carries the
amount. One lemma per group of actions (`BeginTopupInv` … `FinalizeInv`), joined in `InvNext`.

`RedeemedWithinLimitHolds` is an action property: no step redeems a code past its limit or after it
was switched off. Its invariant is `RedeemerHoldsCode` (who is between the check and the
redemption holds the code's lock, and what the check saw is still so) and `RedemptionsCounted` (the
counter is not behind the redemptions).

### Publication

`PostedOnce` needs `WaitingIsUnposted` (a publication that may still be confirmed or retried, and a
handler about to post, have nothing at the provider, unless it is exempt) and `UploaderAlone` (one
uploading handler per publication, because the status is set in the same stretch of the loop as
the check). `PublishedNamesItsPost` needs `ReportsWhatIsSeen` (an answer that a handler still carries
was true when it was given, and the provider does not take it back), from which
`PublishedIsProcessed`, and `PublishedHasId`: the row of a published video has kept its id, which by
`IdsNamePosts` names a post, and by `PostedOnce` the only one. The two are stated for publications
that are `Fresh`, neither confirmed again, nor put back by a download, nor posted by a click that
raised; what is processed is processed for all. `IdsNamePosts`, `AsksOfPosts`
and `NoneIsNew` say that ids in rows, handlers and packages name posts that exist, which also
types the indexing of `remote`. Types and the invariant hold together, because a busy handler's
publication is known to be one only from `Named`.

### Measurement and Planning

`StrategyIsActive` needs `Numbered` (versions are numbered without a gap, so that the version a
collection adds is new and does not overwrite the active one) and `EditsKnown` (an activation between
its two commits supersedes and activates versions that exist); `AsksOfChecks` types the answers.

`OneItemPerEntryHolds` rests on `PostsName` and on the look-up and the insert being one stretch of
the loop; `AnsweredOnceHolds` on `ToldIsSaved` (clients are told of the job that the record of their
key names, and the record is never rewritten). `AutomaticWithinTargetHolds` is an action property;
`ShareBound` and `SelectionsBound` bound what a run may select by what the week has left, and
`ProducedCount` relates the cardinalities before and after.

### What stays with TLC

* Liveness (`JobsEnd`, `TransactionsEnd`, `PaidIsCredited`, `JobIsGivenBack`, `AttemptsEnd`,
  `DueIsMeasured`, `BacklogIsFilled`, `FeedIsIngested`): it needs fairness and ENABLED, which the
  provers do not have.
* `NoUnpaidTake` and `ReadyPaysItsTakes` for several instances: the first is false there (section 5), the
  second is not claimed.

## 8. Plan

Done: billing and its refinement, the generation job, regenerations, deposits, publication,
measurement, planning; eight modules of proofs. Left, in this order:

1. **`AuthSession`**: rotation, replay detection, logout, reset. `create_session` commits, which
   releases the lock of the old session before `revoked_at` is set (`auth.py:165`).
2. **`WebhookDelivery`**: attempts, back-off and replays under two scheduler runs
   (`routes.py:6672`).
3. **Two instances** for regenerations and publications, crashes between their commits, and the
   take-over of a reassembly after fifteen minutes; **edits of prompts** beside a production
   (`routes.py:4066-4135`).
4. **More theorems**: the two about takes for several instances that are orderly and on which no
   retry is served between a failure and its refund, with an invariant that tells the reserve of an
   attempt from the refund of the one before.
5. **Pure algorithms** as operators against reference definitions over bounded inputs: scene
   splits and take durations, budget assessment, idea phases, quotas, scores; recursion only in
   modules that TLC alone uses.
