--------------------------- MODULE GenerationJob ---------------------------
(***************************************************************************)
(* The life of one generation job (apps/api/app/workflow.py, WorkflowManager, and  *)
(* the generation-job routes of apps/api/app/routes.py): a row of the      *)
(* resources table, at most one executor task per API instance, request    *)
(* handlers that change the row and schedule the task, a cancel request    *)
(* on a pool thread, and instances that crash, stop and start again.       *)
(*                                                                         *)
(* A step is one commit of the row or of the ledger, or one await of the   *)
(* executor. Between two awaits an executor shares its event loop with     *)
(* nobody, but a pool thread, another instance or a crash can come between *)
(* any two steps. An executor works on a copy of the row (mem): a commit   *)
(* writes the whole data column from the copy, and the status column only  *)
(* where the copy's status changes (repository.py update, SQLAlchemy).     *)
(***************************************************************************)
EXTENDS CreditBook, FiniteSets, FiniteSetsExt

CONSTANTS
  Instances,     \* the API instances that share the database
  NumScenes,     \* scenes of a storyboard
  Reserve,       \* cents charged for the most expensive scene split
  TakeCents,     \* cents of one Veo take of one scene
  Deposit,       \* cents in the wallet at the start
  EventSinks,    \* emitting an event waits for ClickHouse or Pub/Sub
  AutoPublish,   \* automatic_publish: publish as soon as the video is ready
  NativeRetries, \* takes added when native speech QA rejects one
  MaxAutomatic,  \* MAX_AUTOMATIC_STAGE_RETRIES
  Offered,       \* the operations that clients request for the job
  MaxOps,        \* bound: requests that change the job
  MaxCancels,    \* bound: cancel requests
  MaxFaults,     \* bound: exceptions of providers, storage and renderer
  MaxCrashes,    \* bound: instances that die
  MaxStops,      \* bound: instances that shut down in order
  MaxSpends,     \* bound: charges of the organisation's other work
  MaxStoryboards \* bound: storyboards written for the job

ASSUME GenerationJobAssumption ==
  /\ Instances /= {}
  /\ NumScenes \in Nat \ {0}
  /\ Reserve \in Nat \ {0}
  /\ TakeCents \in Nat
  /\ Deposit \in Nat
  /\ EventSinks \in BOOLEAN
  /\ AutoPublish \in BOOLEAN
  /\ NativeRetries \in Nat
  /\ MaxAutomatic \in Nat
  /\ Offered \subseteq {"start", "retry", "retryStage", "regenerate"}
  /\ MaxStoryboards \in Nat

VARIABLES
  row,    \* the job's row: its status and its data
  gen,    \* gen[b]: scenes of storyboard b whose row is "generated"
  boards, \* storyboards written
  takes,  \* scene_attempt rows, each billed at settlement
  wallet, \* the balance of the organisation
  book,   \* the ledger of the job
  ex,     \* ex[i]: the executor task of the job on instance i
  req,    \* req[i]: the request handler that runs on the event loop of i
  can,    \* the cancel request, on a pool thread of instance can.at
  up,     \* up[i]: "up", "stopping" or "down"
  timer,  \* timer[i]: resume_pending has called call_later for the job
  used    \* used[b]: how much of the bound b is spent

jobVars  == <<row, gen, boards, takes>>
money    == <<wallet, book>>
hostVars == <<up, timer, used>>
vars     == <<row, gen, boards, takes, wallet, book, ex, req, can, up, timer, used>>

(***************************************************************************)
(* The row.                                                                *)
(***************************************************************************)
Intake == 1       Research == 2     Editorial == 3    Script == 4
Policy == 5       Storyboard == 6   Scenes == 7       Voice == 8
Render == 9       QA == 10          Scoring == 11

STAGES == 1..11

\* current_stage is also "queued", "script_review" and "completed".
Queued == 0       ScriptReview == 12      Completed == 13
Places == 0..13

StageStatus == {"pending", "running", "completed", "failed", "blocked"}
JobStatus == {"none", "queued", "running", "awaiting_script_review", "ready",
              "failed", "blocked", "cancelled"}
Errors == {"none", "transient", "permanent", "repairable"}
Boards == 0..MaxStoryboards

Data == [stage : [STAGES -> StageStatus], out : SUBSET STAGES, board : Boards,
         cur : Places, interrupted : BOOLEAN, approved : BOOLEAN,
         review : BOOLEAN, retries : [Places -> 0..MaxAutomatic],
         error : Errors, repaired : BOOLEAN]

Job == [status : JobStatus, data : Data]

\* create_generation; review is generation_start_mode = "review_script".
NewData(review) ==
  [stage |-> [s \in STAGES |-> "pending"], out |-> {}, board |-> 0,
   cur |-> Queued, interrupted |-> FALSE, approved |-> FALSE, review |-> review,
   retries |-> [p \in Places |-> 0], error |-> "none", repaired |-> FALSE]

NoJob == [status |-> "none", data |-> NewData(FALSE)]

\* repo.update: data from the copy, status only where it differs from the copy.
Stored(mem, data, status) ==
  [status |-> IF status /= mem.status THEN status ELSE row.status,
   data |-> data]

\* _set_stage; a current_stage that is no stage leaves the stages alone.
SetStage(data, s, status) ==
  [data EXCEPT !.stage = [t \in STAGES |-> IF t = s THEN status ELSE data.stage[t]],
               !.cur = s]

StageJobStatus(status) ==
  IF status \in {"failed", "blocked"} THEN status ELSE "running"

WithOutput(data, s) == [data EXCEPT !.out = @ \cup {s}]

\* Mistake: the storyboard of the old script stays.
ResetKeepsStoryboard(data, s, lost) ==
  [data EXCEPT !.stage = [t \in STAGES |-> IF t >= s THEN "pending" ELSE data.stage[t]],
               !.out = @ \ (lost \ {Storyboard}), !.cur = s, !.error = "none"]

\* Stage s and those after it are reset; the outputs in lost are dropped.
Reset(data, s, lost) ==
  [data EXCEPT !.stage = [t \in STAGES |-> IF t >= s THEN "pending" ELSE data.stage[t]],
               !.out = @ \ lost, !.cur = s, !.error = "none"]

CompletedWithOutput(data, stages) ==
  \A s \in stages : data.stage[s] = "completed" /\ s \in data.out

(***************************************************************************)
(* Executors.                                                              *)
(***************************************************************************)
\* Awaits outside the try block of run(), and inside it.
OuterAwaits == {"claim", "started", "failTail", "retryTail", "sleep"}
InnerAwaits == {"work", "note", "veo", "fetch", "publish", "tail"}
Awaits == OuterAwaits \cup InnerAwaits

ExPCs == Awaits \cup
  {"off", "load", "dispatch", "stage", "done", "blocked", "review", "scene",
   "accept", "settle", "settled", "costs", "finish", "failing", "failed",
   "refund", "interrupt"}

Task == [pc : ExPCs, at : 0..Scoring, mem : Job, board : Boards,
         todo : SUBSET (1..NumScenes), tries : 0..NativeRetries, fault : Errors,
         authorized : Nat, stop : BOOLEAN]

NoTask == [pc |-> "off", at |-> 0, mem |-> NoJob, board |-> 0, todo |-> {},
           tries |-> 0, fault |-> "none", authorized |-> 0, stop |-> FALSE]

\* An event that waits for nothing is no await: the code runs on.
Emitted == [started |-> "dispatch", note |-> "done", retryTail |-> "sleep",
            failTail |-> "off", tail |-> "off"]
EmitOr(pc) == IF EventSinks THEN pc ELSE Emitted[pc]
Goto(e, pc) == IF pc = "off" THEN NoTask ELSE [e EXCEPT !.pc = pc]

LoopIsFree(i) == ex[i].pc \in Awaits \cup {"off"} /\ req[i].pc = "idle"

\* The executor of i may run: its loop is up and no handler holds it. A task
\* that was cancelled runs no further than the await it is at.
Runs(i) ==
  /\ up[i] /= "down"
  /\ req[i].pc = "idle"
  /\ ex[i].pc \in Awaits => ~ex[i].stop

Step(i, e) == ex' = [ex EXCEPT ![i] = e]

\* The executor of i, now e, commits the job from its copy, which is refreshed.
Commit(i, e, pc, data, status) ==
  /\ row' = Stored(ex[i].mem, data, status)
  /\ Step(i, Goto([e EXCEPT !.mem = row'], pc))

Spend(bound) == used' = [used EXCEPT ![bound] = @ + 1]

\* schedule: an executor that has not ended, not even its last event, stays.
Scheduled(e) == IF e.pc = "off" THEN [NoTask EXCEPT !.pc = "claim"] ELSE e

Raised(e, kind) == [e EXCEPT !.pc = "failing", !.fault = kind]

(***************************************************************************)
(* run: claim, load, start.                                                *)
(***************************************************************************)
\* Mistake: any instance that finds a running job takes it over.
ClaimableRunning(job) == job.status \in {"queued", "running"}

Claimable(job) ==
  \/ job.status = "queued"
  \/ job.status = "running" /\ job.data.interrupted

\* _claim_generation_job: the row is locked while it is read and written.
Claim(i) ==
  /\ Runs(i)
  /\ ex[i].pc = "claim"
  /\ IF Claimable(row)
       THEN /\ row' = [status |-> "running", data |-> [row.data EXCEPT !.interrupted = FALSE]]
            /\ Step(i, Goto(ex[i], "load"))
       ELSE Step(i, NoTask) /\ UNCHANGED row
  /\ UNCHANGED <<gen, boards, takes, money, req, can, hostVars>>

Load(i) ==
  /\ Runs(i)
  /\ ex[i].pc = "load"
  /\ IF row.status \in {"ready", "cancelled", "blocked", "failed"}
       THEN Step(i, NoTask)
       ELSE Step(i, [ex[i] EXCEPT !.pc = EmitOr("started"), !.mem = row])
  /\ UNCHANGED <<jobVars, money, req, can, hostVars>>

\* An event has been delivered.
Delivered(i) ==
  /\ Runs(i)
  /\ ex[i].pc \in DOMAIN Emitted
  /\ Step(i, Goto(ex[i], Emitted[ex[i].pc]))
  /\ UNCHANGED <<jobVars, money, req, can, hostVars>>

(***************************************************************************)
(* _run_pipeline: where to start.                                          *)
(***************************************************************************)
RenderPending(data) ==
  data.stage[Render] \in {"running", "failed"} /\ data.stage[Voice] = "completed"

\* Mistake: a job interrupted in the voice stage starts again at the storyboard.
ScenesPendingNotVoice(data) ==
  /\ Storyboard \in data.out
  /\ data.stage[Scenes] /= "blocked"
  /\ data.cur \in {Storyboard, Scenes}

ScenesPending(data) ==
  /\ Storyboard \in data.out
  /\ data.stage[Scenes] /= "blocked"
  /\ data.cur \in {Storyboard, Scenes, Voice}

\* The checkpoints that _resume_from_render and _resume_from_scene_generation
\* read; without one they raise "Cannot resume".
RenderCheckpoints(data) ==
  CompletedWithOutput(data, {Intake, Research, Script, Policy, Storyboard, Scenes, Voice})

\* Mistake: the storyboard must be completed, not only written.
SceneCheckpointsCompleted(data) ==
  CompletedWithOutput(data, {Intake, Research, Script, Policy, Storyboard})

SceneCheckpoints(data) == {Intake, Research, Script, Policy, Storyboard} \subseteq data.out

ResumeRender(i, data) ==
  /\ RenderPending(data)
  /\ IF RenderCheckpoints(data)
       THEN Step(i, [ex[i] EXCEPT !.pc = "fetch", !.at = Render])
       ELSE Step(i, Raised(ex[i], "permanent"))
  /\ UNCHANGED row

ResumeScenes(i, data) ==
  /\ ~RenderPending(data)
  /\ ScenesPending(data)
  /\ IF SceneCheckpoints(data)
       THEN Commit(i, [ex[i] EXCEPT !.at = Scenes, !.board = data.board], "stage",
                   WithOutput(SetStage(data, Storyboard, "completed"), Storyboard),
                   "running")
       ELSE Step(i, Raised(ex[i], "permanent")) /\ UNCHANGED row

\* Mistake: a stage that has left an output is not run again.
SkippedWithOutput(data, s) ==
  s < Storyboard /\ s \in data.out

\* A completed stage before the storyboard is taken from its output.
Skipped(data, s) ==
  s < Storyboard /\ data.stage[s] = "completed" /\ (s = Intake \/ s \in data.out)

NextStage(data, s) == Min({t \in s..Scoring : ~Skipped(data, t)})

\* The whole pipeline; its first commit writes data only.
FromTheTop(i, data) ==
  /\ ~RenderPending(data)
  /\ ~ScenesPending(data)
  /\ Commit(i, [ex[i] EXCEPT !.at = NextStage(data, Intake)], "stage",
            data, ex[i].mem.status)

Dispatch(i) ==
  /\ Runs(i)
  /\ ex[i].pc = "dispatch"
  /\ LET data == ex[i].mem.data
     IN  ResumeRender(i, data) \/ ResumeScenes(i, data) \/ FromTheTop(i, data)
  /\ UNCHANGED <<gen, boards, takes, money, req, can, hostVars>>

(***************************************************************************)
(* Stages.                                                                 *)
(***************************************************************************)
\* Stages that wait for a provider, the renderer or the storage; the others
\* run to their next commit.
Waits == {Research, Editorial, Voice, Render}

BeginStage(i) ==
  /\ Runs(i)
  /\ ex[i].pc = "stage"
  /\ LET at == ex[i].at
         todo == IF at = Scenes THEN 1..NumScenes ELSE {}
         pc == IF at = Scenes THEN "scene" ELSE IF at \in Waits THEN "work" ELSE "done"
     IN  Commit(i, [ex[i] EXCEPT !.todo = todo, !.tries = 0], pc,
                SetStage(ex[i].mem.data, at, "running"), "running")
  /\ UNCHANGED <<gen, boards, takes, money, req, can, hostVars>>

Worked(i) ==
  /\ Runs(i)
  /\ ex[i].pc = "work"
  /\ Step(i, Goto(ex[i], "done"))
  /\ UNCHANGED <<jobVars, money, req, can, hostVars>>

\* Three scripts rejected: the author decides before Veo is paid.
ScriptRejected(i) ==
  /\ Runs(i)
  /\ ex[i].pc = "work" /\ ex[i].at = Editorial
  /\ Commit(i, ex[i], EmitOr("note"), [ex[i].mem.data EXCEPT !.review = TRUE],
            ex[i].mem.status)
  /\ UNCHANGED <<gen, boards, takes, money, req, can, hostVars>>

CompleteStage(i) ==
  /\ Runs(i)
  /\ ex[i].pc = "done" /\ ex[i].at \notin {Storyboard, Scoring, Voice}
  /\ LET at == ex[i].at
         data == WithOutput(SetStage(ex[i].mem.data, at, "completed"), at)
     IN  Commit(i, [ex[i] EXCEPT !.at = NextStage(data, at + 1)], "stage", data, "running")
  /\ UNCHANGED <<gen, boards, takes, money, req, can, hostVars>>

\* The last stages before and after the render leave the stage loop.
CompleteLast(i) ==
  /\ Runs(i)
  /\ ex[i].pc = "done" /\ ex[i].at \in {Voice, Scoring}
  /\ Commit(i, ex[i], IF ex[i].at = Voice THEN "settle" ELSE "finish",
            WithOutput(SetStage(ex[i].mem.data, ex[i].at, "completed"), ex[i].at),
            "running")
  /\ UNCHANGED <<gen, boards, takes, money, req, can, hostVars>>

\* fact_policy finds an unsupported claim or no evidence.
PolicyBlocks(i) ==
  /\ Runs(i)
  /\ ex[i].pc = "done" /\ ex[i].at = Policy
  /\ Commit(i, ex[i], "blocked",
            WithOutput(SetStage(ex[i].mem.data, Policy, "blocked"), Policy), "blocked")
  /\ UNCHANGED <<gen, boards, takes, money, req, can, hostVars>>

Blocked(i) ==
  /\ Runs(i)
  /\ ex[i].pc = "blocked"
  /\ Commit(i, ex[i], EmitOr("tail"), ex[i].mem.data, "blocked")
  /\ UNCHANGED <<gen, boards, takes, money, req, can, hostVars>>

\* A new storyboard with new scenes; then the script review, if one is due.
CompleteStoryboard(i) ==
  /\ Runs(i)
  /\ ex[i].pc = "done" /\ ex[i].at = Storyboard
  /\ boards < MaxStoryboards
  /\ boards' = boards + 1
  /\ gen' = [gen EXCEPT ![boards'] = {}]
  /\ LET done == WithOutput(SetStage(ex[i].mem.data, Storyboard, "completed"), Storyboard)
         data == [done EXCEPT !.board = boards']
         pc == IF data.review /\ ~data.approved THEN "review" ELSE "stage"
     IN  Commit(i, [ex[i] EXCEPT !.at = Scenes, !.board = boards'], pc, data, "running")
  /\ UNCHANGED <<takes, money, req, can, hostVars>>

Review(i) ==
  /\ Runs(i)
  /\ ex[i].pc = "review"
  /\ Commit(i, ex[i], EmitOr("tail"), [ex[i].mem.data EXCEPT !.cur = ScriptReview],
            "awaiting_script_review")
  /\ UNCHANGED <<gen, boards, takes, money, req, can, hostVars>>

(***************************************************************************)
(* Scenes: _generate_scene_with_qa, in storyboard order.                   *)
(***************************************************************************)
Scene(e) == Min(e.todo)

\* A generated scene is fetched from storage, any other one is bought.
NextScene(i) ==
  /\ Runs(i)
  /\ ex[i].pc = "scene"
  /\ Step(i, Goto(ex[i], IF ex[i].todo = {} THEN "done"
                         ELSE IF Scene(ex[i]) \in gen[ex[i].board] THEN "fetch" ELSE "veo"))
  /\ UNCHANGED <<jobVars, money, req, can, hostVars>>

\* The take is stored as a scene_attempt and passes QA.
TakePasses(i) ==
  /\ Runs(i)
  /\ ex[i].pc = "veo"
  /\ takes' = takes + 1
  /\ Step(i, Goto(ex[i], "accept"))
  /\ UNCHANGED <<row, gen, boards, money, req, can, hostVars>>

\* The take is stored and rejected: another one, or the scene has failed.
TakeRejected(i) ==
  /\ Runs(i)
  /\ ex[i].pc = "veo"
  /\ used.faults < MaxFaults
  /\ Spend("faults")
  /\ takes' = takes + 1
  /\ Step(i, IF ex[i].tries < NativeRetries
             THEN [ex[i] EXCEPT !.tries = @ + 1]
             ELSE Raised(ex[i], "permanent"))
  /\ UNCHANGED <<row, gen, boards, money, req, can, up, timer>>

SceneGenerated(e) == [e EXCEPT !.todo = @ \ {Scene(e)}, !.tries = 0, !.pc = "scene"]

AcceptScene(i) ==
  /\ Runs(i)
  /\ ex[i].pc = "accept"
  /\ gen' = [gen EXCEPT ![ex[i].board] = @ \cup {Scene(ex[i])}]
  /\ Step(i, SceneGenerated(ex[i]))
  /\ UNCHANGED <<row, boards, takes, money, req, can, hostVars>>

\* storage.materialize of one scene, or of everything the render needs.
Fetched(i) ==
  /\ Runs(i)
  /\ ex[i].pc = "fetch"
  /\ Step(i, IF ex[i].at = Render THEN Goto(ex[i], "settle") ELSE SceneGenerated(ex[i]))
  /\ UNCHANGED <<jobVars, money, req, can, hostVars>>

(***************************************************************************)
(* _complete_from_render: settle the reserve, render, complete the job.    *)
(***************************************************************************)
ReadAuthorized(i) ==
  /\ Runs(i)
  /\ ex[i].pc = "settle"
  /\ Step(i, [ex[i] EXCEPT !.pc = "settled", !.authorized = Outstanding(book)])
  /\ UNCHANGED <<jobVars, money, req, can, hostVars>>

\* Mistake: the takes that QA rejected are not settled.
SettleScenes(i) ==
  /\ Runs(i)
  /\ ex[i].pc = "settled"
  /\ book' = Settled(book, ex[i].authorized,
                     Cardinality(gen[ex[i].mem.data.board]) * TakeCents)
  /\ wallet' = wallet + Net(book') - Net(book)
  /\ Step(i, [ex[i] EXCEPT !.pc = "costs", !.authorized = 0])
  /\ UNCHANGED <<jobVars, req, can, hostVars>>

Settle(i) ==
  /\ Runs(i)
  /\ ex[i].pc = "settled"
  /\ book' = Settled(book, ex[i].authorized, takes * TakeCents)
  /\ wallet' = wallet + Net(book') - Net(book)
  /\ Step(i, [ex[i] EXCEPT !.pc = "costs", !.authorized = 0])
  /\ UNCHANGED <<jobVars, req, can, hostVars>>

\* The actual costs are written, data only; then the render stage begins.
SaveCosts(i) ==
  /\ Runs(i)
  /\ ex[i].pc = "costs"
  /\ Commit(i, [ex[i] EXCEPT !.at = Render], "stage", ex[i].mem.data, ex[i].mem.status)
  /\ UNCHANGED <<gen, boards, takes, money, req, can, hostVars>>

Finish(i) ==
  /\ Runs(i)
  /\ ex[i].pc = "finish"
  /\ Commit(i, ex[i], IF AutoPublish THEN "publish" ELSE EmitOr("tail"),
            [ex[i].mem.data EXCEPT !.cur = Completed], "ready")
  /\ UNCHANGED <<gen, boards, takes, money, req, can, hostVars>>

\* _complete_automatic_publications: provider failures are caught.
Published(i) ==
  /\ Runs(i)
  /\ ex[i].pc = "publish"
  /\ Commit(i, ex[i], EmitOr("tail"), ex[i].mem.data, ex[i].mem.status)
  /\ UNCHANGED <<gen, boards, takes, money, req, can, hostVars>>

(***************************************************************************)
(* run: exceptions, automatic retries and interruption.                    *)
(***************************************************************************)
\* Where an exception can be raised besides the steps above: at an await of
\* somebody else's service, and, for good, where a row that the pipeline needs
\* is missing or the package has no scene.
MayRaise(e, kind) ==
  \/ e.pc \in {"work", "veo", "fetch"}
  \/ kind = "permanent" /\ (e.pc = "dispatch" \/ (e.pc = "done" /\ e.at = Storyboard))

\* generation_deployment_repair_field knows errors of these stages only.
Repairable == {Editorial, Scenes, Render}

Raise(i, kind) ==
  /\ Runs(i)
  /\ MayRaise(ex[i], kind)
  /\ kind = "repairable" => ex[i].mem.data.cur \in Repairable
  /\ used.faults < MaxFaults
  /\ Spend("faults")
  /\ Step(i, Raised(ex[i], kind))
  /\ UNCHANGED <<jobVars, money, req, can, up, timer>>

FailStage(i) ==
  /\ Runs(i)
  /\ ex[i].pc = "failing"
  /\ LET data == ex[i].mem.data
     IN  Commit(i, ex[i], "failed", SetStage(data, data.cur, "failed"), "failed")
  /\ UNCHANGED <<gen, boards, takes, money, req, can, hostVars>>

\* Mistake: nobody counts the automatic retries.
RetryableForever(e) == e.fault = "transient"

Retryable(e) ==
  e.fault = "transient" /\ e.mem.data.retries[e.mem.data.cur] < MaxAutomatic

\* The job is queued while its executor waits for the delay to pass.
ScheduleRetry(i) ==
  /\ Runs(i)
  /\ ex[i].pc = "failed" /\ Retryable(ex[i])
  /\ LET data == ex[i].mem.data
     IN  Commit(i, [ex[i] EXCEPT !.fault = "none"], EmitOr("retryTail"),
                [data EXCEPT !.retries[data.cur] = @ + 1, !.error = "transient"],
                "queued")
  /\ UNCHANGED <<gen, boards, takes, money, req, can, hostVars>>

\* The loop of run goes on with the copy it has, without another claim.
Wake(i) ==
  /\ Runs(i)
  /\ ex[i].pc = "sleep"
  /\ Step(i, Goto(ex[i], "dispatch"))
  /\ UNCHANGED <<jobVars, money, req, can, hostVars>>

\* Mistake: a failed job keeps its reserve.
FailJobKeepsReserve(i) ==
  /\ Runs(i)
  /\ ex[i].pc = "failed" /\ ~Retryable(ex[i])
  /\ Commit(i, ex[i], EmitOr("failTail"), [ex[i].mem.data EXCEPT !.error = ex[i].fault],
            "failed")
  /\ UNCHANGED <<gen, boards, takes, money, req, can, hostVars>>

FailJob(i) ==
  /\ Runs(i)
  /\ ex[i].pc = "failed" /\ ~Retryable(ex[i])
  /\ Commit(i, ex[i], "refund", [ex[i].mem.data EXCEPT !.error = ex[i].fault], "failed")
  /\ UNCHANGED <<gen, boards, takes, money, req, can, hostVars>>

Refund ==
  /\ book' = Refunded(book)
  /\ wallet' = wallet + Net(book') - Net(book)

RefundFailure(i) ==
  /\ Runs(i)
  /\ ex[i].pc = "refund"
  /\ Refund
  /\ Step(i, Goto(ex[i], EmitOr("failTail")))
  /\ UNCHANGED <<jobVars, req, can, hostVars>>

\* task.cancel() takes effect where the task waits: outside the try block the
\* task just ends, inside it the job is read again and marked as interrupted.
Interrupt(i) ==
  /\ up[i] /= "down" /\ req[i].pc = "idle"
  /\ ex[i].stop /\ ex[i].pc \in Awaits
  /\ Step(i, IF ex[i].pc \in OuterAwaits THEN NoTask
             ELSE [ex[i] EXCEPT !.pc = "interrupt", !.mem = row])
  /\ UNCHANGED <<jobVars, money, req, can, hostVars>>

SaveInterrupt(i) ==
  /\ Runs(i)
  /\ ex[i].pc = "interrupt"
  /\ IF ex[i].mem.status = "cancelled"
       THEN Step(i, NoTask) /\ UNCHANGED row
       ELSE Commit(i, ex[i], "off", [ex[i].mem.data EXCEPT !.interrupted = TRUE], "running")
  /\ UNCHANGED <<gen, boards, takes, money, req, can, hostVars>>

(***************************************************************************)
(* Requests: handlers on the event loop.                                   *)
(***************************************************************************)
Operations == {"create", "start", "retry", "retryStage", "regenerate"}

Handler == [pc : {"idle", "charge", "save"}, op : Operations, stage : STAGES, mem : Job]

NoRequest == [pc |-> "idle", op |-> "create", stage |-> Intake, mem |-> NoJob]

\* What the handler writes with status "queued".
Prepared(op, s, data) ==
  CASE op = "create" -> data
    [] op = "retry" -> [data EXCEPT !.error = "none"]
    [] op = "start" -> [data EXCEPT !.approved = TRUE, !.cur = Scenes, !.error = "none"]
    [] op = "retryStage" -> Reset(data, s, (s + 1)..Scoring)
    [] op = "regenerate" -> [Reset(data, Editorial, Editorial..Scoring) EXCEPT !.approved = FALSE]

Permitted(op, s, job) ==
  CASE op = "create" -> FALSE
    [] op \in {"start", "regenerate"} -> job.status = "awaiting_script_review"
    [] op = "retry" -> job.status \in {"failed", "blocked", "cancelled"}
    [] op = "retryStage" ->
         /\ job.status \in {"failed", "blocked"}
         /\ job.data.stage[s] \in {"failed", "blocked"}
         /\ \A t \in (s + 1)..Scoring : job.data.stage[t] /= "completed"

\* Mistake: a retry runs on the reserve that the failure has returned.
ChargesStart(op) == op = "start" /\ Outstanding(book) = 0

\* A paid operation charges the reserve unless one is outstanding.
Charges(op) == op \in {"start", "retry", "retryStage"} /\ Outstanding(book) = 0

BeginRequest(i, op, s) ==
  /\ up[i] = "up" /\ LoopIsFree(i)
  /\ used.ops < MaxOps
  /\ op /= "retryStage" => s = Intake
  /\ Permitted(op, s, row)
  /\ Spend("ops")
  /\ req' = [req EXCEPT ![i] = [pc |-> IF Charges(op) THEN "charge" ELSE "save",
                                op |-> op, stage |-> s, mem |-> row]]
  /\ UNCHANGED <<jobVars, money, ex, can, up, timer>>

\* The row is there before it is paid for; a reviewed job pays when it starts
\* its scenes.
BeginCreate(i, review) ==
  /\ up[i] = "up" /\ LoopIsFree(i)
  /\ used.ops < MaxOps
  /\ row.status = "none"
  /\ Spend("ops")
  /\ row' = [status |-> "queued", data |-> NewData(review)]
  /\ req' = [req EXCEPT ![i] = [pc |-> IF review THEN "save" ELSE "charge",
                                op |-> "create", stage |-> Intake, mem |-> row']]
  /\ UNCHANGED <<gen, boards, takes, money, ex, can, up, timer>>

ChargeReserve(i) ==
  /\ req[i].pc = "charge"
  /\ wallet >= Reserve
  /\ wallet' = wallet - Reserve
  /\ book' = Charged(book, Reserve)
  /\ req' = [req EXCEPT ![i].pc = "save"]
  /\ UNCHANGED <<jobVars, ex, can, hostVars>>

\* 402: a job that was just created is deleted, any other one stays as it is.
ChargeRefused(i) ==
  /\ req[i].pc = "charge"
  /\ wallet < Reserve
  /\ row' = IF req[i].op = "create" THEN NoJob ELSE row
  /\ req' = [req EXCEPT ![i] = NoRequest]
  /\ UNCHANGED <<gen, boards, takes, money, ex, can, hostVars>>

SaveRequest(i) ==
  /\ req[i].pc = "save"
  /\ LET r == req[i]
     IN  row' = Stored(r.mem, Prepared(r.op, r.stage, r.mem.data), "queued")
  /\ req' = [req EXCEPT ![i] = NoRequest]
  /\ ex' = [ex EXCEPT ![i] = Scheduled(@)]
  /\ UNCHANGED <<gen, boards, takes, money, can, hostVars>>

(***************************************************************************)
(* cancel_generation runs on a pool thread: it reads the job and cancels   *)
(* the task of its own instance, then writes the status and the refund.    *)
(***************************************************************************)
CancelHandler == [pc : {"idle", "save", "refund"}, at : Instances, mem : Job]

NoCancel == [pc |-> "idle", at |-> CHOOSE i \in Instances : TRUE, mem |-> NoJob]

Cancellable == {"queued", "running", "awaiting_script_review"}

BeginCancel(i) ==
  /\ up[i] = "up"
  /\ can.pc = "idle"
  /\ used.cancels < MaxCancels
  /\ row.status \in Cancellable
  /\ Spend("cancels")
  /\ can' = [pc |-> "save", at |-> i, mem |-> row]
  /\ ex' = [ex EXCEPT ![i].stop = (ex[i].pc /= "off")]
  /\ UNCHANGED <<jobVars, money, req, up, timer>>

SaveCancel ==
  /\ can.pc = "save"
  /\ row' = Stored(can.mem, can.mem.data, "cancelled")
  /\ can' = [can EXCEPT !.pc = "refund", !.mem = NoJob]
  /\ UNCHANGED <<gen, boards, takes, money, ex, req, hostVars>>

RefundCancelled ==
  /\ can.pc = "refund"
  /\ Refund
  /\ can' = NoCancel
  /\ UNCHANGED <<jobVars, ex, req, hostVars>>

(***************************************************************************)
(* Instances.                                                              *)
(***************************************************************************)
\* Everything on the instance ends between two commits.
Stopped(i) ==
  /\ ex' = [ex EXCEPT ![i] = NoTask]
  /\ req' = [req EXCEPT ![i] = NoRequest]
  /\ can' = IF can.at = i THEN NoCancel ELSE can
  /\ timer' = [timer EXCEPT ![i] = FALSE]
  /\ up' = [up EXCEPT ![i] = "down"]

Crash(i) ==
  /\ up[i] /= "down"
  /\ used.crashes < MaxCrashes
  /\ Spend("crashes")
  /\ Stopped(i)
  /\ UNCHANGED <<jobVars, money>>

\* lifespan: requests have ended, then every task is cancelled.
Shutdown(i) ==
  /\ up[i] = "up" /\ LoopIsFree(i)
  /\ ~(can.pc /= "idle" /\ can.at = i)
  /\ used.stops < MaxStops
  /\ Spend("stops")
  /\ up' = [up EXCEPT ![i] = "stopping"]
  /\ timer' = [timer EXCEPT ![i] = FALSE]
  /\ ex' = [ex EXCEPT ![i].stop = (ex[i].pc /= "off")]
  /\ UNCHANGED <<jobVars, money, req, can>>

Exit(i) ==
  /\ up[i] = "stopping"
  /\ ex[i].pc = "off"
  /\ Stopped(i)
  /\ UNCHANGED <<jobVars, money, used>>

\* A failure that this deployment repairs is queued again, once.
Repairs(job) ==
  /\ job.status = "failed"
  /\ job.data.error = "repairable" /\ job.data.cur \in Repairable
  /\ ~job.data.repaired

\* Mistake: resume_pending looks for queued jobs only.
ResumableQueued(job) == job.status = "queued"

Resumable(job) == job.status \in {"queued", "running"}

\* resume_pending: what was queued or running is scheduled after a grace time.
Boot(i) ==
  /\ up[i] = "down"
  /\ up' = [up EXCEPT ![i] = "up"]
  /\ row' = IF Repairs(row)
            THEN [status |-> "queued",
                  data |-> [row.data EXCEPT !.retries[row.data.cur] = 0,
                                            !.error = "none", !.repaired = TRUE]]
            ELSE row
  /\ timer' = [timer EXCEPT ![i] = Resumable(row')]
  /\ UNCHANGED <<gen, boards, takes, money, ex, req, can, used>>

\* The grace time outlasts the request that creates the job.
TimerFires(i) ==
  /\ timer[i] /\ up[i] = "up" /\ LoopIsFree(i)
  /\ \A j \in Instances : req[j].pc /= "idle" => req[j].op /= "create"
  /\ timer' = [timer EXCEPT ![i] = FALSE]
  /\ ex' = [ex EXCEPT ![i] = Scheduled(@)]
  /\ UNCHANGED <<jobVars, money, req, can, up, used>>

(***************************************************************************)
(* The organisation's other jobs are paid from the same wallet.            *)
(***************************************************************************)
SpendElsewhere ==
  /\ used.spends < MaxSpends
  /\ wallet >= Reserve
  /\ Spend("spends")
  /\ wallet' = wallet - Reserve
  /\ UNCHANGED <<jobVars, book, ex, req, can, up, timer>>

(***************************************************************************)
(* The system.                                                             *)
(***************************************************************************)
Bounds == {"ops", "cancels", "faults", "crashes", "stops", "spends"}

Init ==
  /\ row = NoJob
  /\ gen = [b \in Boards |-> {}]
  /\ boards = 0
  /\ takes = 0
  /\ wallet = Deposit
  /\ book = NoCharges
  /\ ex = [i \in Instances |-> NoTask]
  /\ req = [i \in Instances |-> NoRequest]
  /\ can = NoCancel
  /\ up = [i \in Instances |-> "up"]
  /\ timer = [i \in Instances |-> FALSE]
  /\ used = [b \in Bounds |-> 0]

Executor(i) ==
  \/ Claim(i) \/ Load(i) \/ Delivered(i) \/ Dispatch(i)
  \/ BeginStage(i) \/ Worked(i) \/ CompleteStage(i) \/ CompleteLast(i)
  \/ Blocked(i) \/ CompleteStoryboard(i) \/ Review(i)
  \/ NextScene(i) \/ TakePasses(i) \/ AcceptScene(i) \/ Fetched(i)
  \/ ReadAuthorized(i) \/ Settle(i) \/ SaveCosts(i) \/ Finish(i) \/ Published(i)
  \/ FailStage(i) \/ ScheduleRetry(i) \/ Wake(i) \/ FailJob(i) \/ RefundFailure(i)
  \/ Interrupt(i) \/ SaveInterrupt(i)

\* What providers, reviewers and the policy gate may do.
Trouble(i) ==
  \/ ScriptRejected(i) \/ PolicyBlocks(i) \/ TakeRejected(i)
  \/ \E kind \in Errors \ {"none"} : Raise(i, kind)

Request(i) ==
  \/ \E op \in Offered, s \in STAGES : BeginRequest(i, op, s)
  \/ \E review \in BOOLEAN : BeginCreate(i, review)

Serve(i) == ChargeReserve(i) \/ ChargeRefused(i) \/ SaveRequest(i)

ServeCancel == SaveCancel \/ RefundCancelled

Host(i) == Exit(i) \/ Boot(i) \/ TimerFires(i)

Next ==
  \/ ServeCancel
  \/ SpendElsewhere
  \/ \E i \in Instances :
       \/ Executor(i) \/ Trouble(i)
       \/ Request(i) \/ Serve(i)
       \/ BeginCancel(i) \/ Crash(i) \/ Shutdown(i) \/ Host(i)

Spec == Init /\ [][Next]_vars

\* Providers answer or time out, the event loop runs what is ready, the pool
\* thread goes on, and a stopped instance is started again.
Fairness ==
  /\ WF_vars(ServeCancel)
  /\ \A i \in Instances : WF_vars(Executor(i)) /\ WF_vars(Serve(i)) /\ WF_vars(Host(i))

FairSpec == Spec /\ Fairness

(***************************************************************************)
(* Properties.                                                             *)
(***************************************************************************)
\* Types of all variables.
TypeOK ==
  /\ row \in Job
  /\ gen \in [Boards -> SUBSET (1..NumScenes)]
  /\ boards \in Boards
  /\ takes \in Nat
  /\ wallet \in Int
  /\ book \in Book
  /\ ex \in [Instances -> Task]
  /\ req \in [Instances -> Handler]
  /\ can \in CancelHandler
  /\ up \in [Instances -> {"up", "stopping", "down"}]
  /\ timer \in [Instances -> BOOLEAN]
  /\ used \in [Bounds -> Nat]

\* Executors between the claim and the end of the work.
Working(i) ==
  ex[i].pc \notin {"off", "claim", "load", "failed", "refund", "failTail", "tail"}

\* At most one instance works on the job (_claim_generation_job).
SingleExecutor == \A i, j \in Instances : Working(i) /\ Working(j) => i = j

\* No take is bought before the fact and policy gate of this script has passed
\* (the hard gate of _run_pipeline, across resumes, stage retries and
\* regenerated scripts).
PolicyGate ==
  \A i \in Instances : ex[i].pc = "veo" =>
    CompletedWithOutput(ex[i].mem.data, {Policy})

\* A pipeline that resumes finds every checkpoint it reads: no stage retry,
\* regenerated script or interruption leaves a job that can only raise
\* "Cannot resume".
ResumeHasCheckpoints ==
  \A i \in Instances : ex[i].pc = "dispatch" =>
    LET data == ex[i].mem.data
    IN  IF RenderPending(data) THEN RenderCheckpoints(data)
        ELSE ScenesPending(data) => SceneCheckpoints(data)

\* A new storyboard replaces one with paid scenes only after a new script was
\* asked for or after the render had been completed.
ScenesAreKept ==
  [][\A i \in Instances :
       CompleteStoryboard(i) /\ gen[ex[i].mem.data.board] /= {}
         => ex[i].mem.data.stage[Render] = "completed"]_vars

\* A take is bought from money that the organisation has paid.
NoUnpaidTake == \A i \in Instances : ex[i].pc = "veo" => Outstanding(book) > 0

\* A reviewed script is filmed only when somebody has approved it.
ReviewGate ==
  \A i \in Instances : ex[i].pc = "veo" /\ ex[i].mem.data.review => ex[i].mem.data.approved

\* A failed job keeps no reserve once its executor has ended (the refund of run).
FailureIsRefunded ==
  /\ row.status = "failed"
  /\ \A i \in Instances : ex[i].pc = "off" /\ req[i].pc = "idle"
  => Outstanding(book) = 0

\* A finished video has been paid with what its takes cost, whatever was
\* reserved, returned and reserved again before (settle_feature_charge:
\* "charged only for the provider calls that actually ran"). Once an overage
\* and a refund have met this may fail: led_over_ is never written twice, so
\* an overage that a failed render has refunded is not charged again.
ReadyPaysItsTakes ==
  row.status = "ready" /\ ~(book.over /\ book.closed > 0)
    => Outstanding(book) = takes * TakeCents

\* Refunds return reserved cents: a job never gives back more than it was
\* charged (refund_feature_charges, settle_feature_charge).
NeverReturnsMore == Net(book) <= 0

\* A finished job stays finished: recovery is for unfinished work (README.md,
\* "recovery targets unfinished work"; SaveInterrupt and resume_pending).
FinishedStays == [][row.status = "ready" => row'.status = "ready"]_vars

\* A job that has been accepted does not stay queued or running for ever:
\* the executor, the automatic retries and resume_pending bring it to an end
\* or to its author. (A job that cannot be paid is deleted.)
JobsEnd ==
  row.status \in {"queued", "running"} ~> row.status \notin {"queued", "running"}
=============================================================================
