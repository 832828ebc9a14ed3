------------------------ MODULE GenerationJob_proofs ------------------------
(***************************************************************************)
(* Theorems about GenerationJob for any number of instances, scenes,       *)
(* requests, faults, crashes and restarts, checked by TLAPS.               *)
(***************************************************************************)
EXTENDS GenerationJob, CreditBook_proofs, WellFoundedInduction

USE GenerationJobAssumption

(***************************************************************************)
(* Operators on the data of a job.                                         *)
(***************************************************************************)
\* The least element of a set of naturals belongs to it (Scene and NextStage
\* take the least one).
LEMMA MinInSet ==
  ASSUME NEW S \in SUBSET Nat, S /= {}
  PROVE  Min(S) \in S /\ \A x \in S : Min(S) <= x
<1> DEFINE R == {ss \in Nat \X Nat : ss[1] < ss[2]}
<1>1. IsWellFoundedOn(R, Nat)
  BY NatLessThanWellFounded DEF OpToRel
<1>2. PICK m \in S : \A x \in S : ~ (<<x, m>> \in R)
  <2> HIDE DEF R
  <2> QED BY <1>1, WFMin
<1>3. ASSUME NEW x \in S PROVE m <= x
  <2>1. x \in Nat /\ m \in Nat /\ <<x, m>> \in Nat \X Nat
    OBVIOUS
  <2>2. x < m => <<x, m>> \in R
    BY <2>1
  <2>3. QED
    BY <1>2, <2>1, <2>2
<1>4. QED
  BY <1>3 DEF Min

\* The data of a new job.
LEMMA NewDataType == \A review \in BOOLEAN : NewData(review) \in Data
  BY DEF NewData, Data, Places, STAGES, StageStatus, Queued, Boards, Errors

\* The absence of a job is a job of status "none".
LEMMA NoJobType == NoJob \in Job
  BY NewDataType DEF NoJob, Job, JobStatus

\* A stage changes its status; every other field keeps its type.
LEMMA SetStageType ==
  ASSUME NEW data \in Data, NEW s \in Places, NEW status \in StageStatus
  PROVE  SetStage(data, s, status) \in Data
  BY DEF SetStage, Data

\* A stage leaves an output; the data keeps its type.
LEMMA WithOutputType ==
  ASSUME NEW data \in Data, NEW s \in STAGES
  PROVE  WithOutput(data, s) \in Data
  BY DEF WithOutput, Data

\* Stages from s on are reset; the data keeps its type.
LEMMA ResetType ==
  ASSUME NEW data \in Data, NEW s \in STAGES, NEW lost \in SUBSET STAGES
  PROVE  Reset(data, s, lost) \in Data
<1>1. s \in Places /\ "pending" \in StageStatus /\ "none" \in Errors
  BY DEF Places, STAGES, StageStatus, Errors
<1>2. [t \in STAGES |-> IF t >= s THEN "pending" ELSE data.stage[t]] \in [STAGES -> StageStatus]
  BY <1>1 DEF Data
<1>3. QED
  BY <1>1, <1>2 DEF Reset, Data

\* What repo.update writes is a job.
LEMMA StoredType ==
  ASSUME row \in Job, NEW mem \in Job, NEW data \in Data, NEW status \in JobStatus
  PROVE  Stored(mem, data, status) \in Job
  BY DEF Stored, Job

\* The next stage to run lies behind the stages that were skipped.
LEMMA NextStageType ==
  ASSUME NEW data \in Data, NEW s \in STAGES
  PROVE  /\ NextStage(data, s) \in s..Scoring
         /\ ~Skipped(data, NextStage(data, s))
         /\ \A t \in s..(NextStage(data, s) - 1) : Skipped(data, t)
<1> DEFINE S == {t \in s..Scoring : ~Skipped(data, t)}
<1>1. S \in SUBSET Nat
  BY DEF STAGES
<1>2. Scoring \in S
  BY DEF Skipped, STAGES, Scoring, Storyboard
<1>3. Min(S) \in S /\ \A x \in S : Min(S) <= x
  <2> HIDE DEF S
  <2> QED BY <1>1, <1>2, MinInSet
<1>4. NextStage(data, s) = Min(S)
  BY DEF NextStage
<1>5. QED
  BY <1>3, <1>4 DEF STAGES, Scoring

(***************************************************************************)
(* Executors.                                                              *)
(***************************************************************************)
\* The absence of a task is a task.
LEMMA NoTaskType == NoTask \in Task
  BY NoJobType DEF NoTask, Task, ExPCs, Boards, Errors, Scoring

\* A task that goes on, or ends, is a task.
LEMMA GotoType ==
  ASSUME NEW e \in Task, NEW pc \in ExPCs
  PROVE  Goto(e, pc) \in Task
  BY NoTaskType DEF Goto, Task

\* Where a task goes on to when its events wait for nothing.
LEMMA EmitOrType == \A pc \in DOMAIN Emitted : EmitOr(pc) \in ExPCs /\ Emitted[pc] \in ExPCs
  BY DEF EmitOr, Emitted, ExPCs, Awaits, OuterAwaits, InnerAwaits

\* One executor changes, the others stay.
LEMMA StepType ==
  ASSUME ex \in [Instances -> Task], NEW i \in Instances, NEW e \in Task, Step(i, e)
  PROVE  ex' \in [Instances -> Task]
  BY DEF Step

\* A commit of an executor keeps the types of the row and of the tasks.
LEMMA CommitType ==
  ASSUME TypeOK, NEW i \in Instances, NEW e \in Task, NEW pc \in ExPCs,
         NEW data \in Data, NEW status \in JobStatus, Commit(i, e, pc, data, status)
  PROVE  row' \in Job /\ ex' \in [Instances -> Task]
<1>1. ex[i] \in Task /\ ex[i].mem \in Job
  BY DEF TypeOK, Task
<1>2. row' \in Job
  BY <1>1, StoredType DEF Commit, TypeOK
<1>3. [e EXCEPT !.mem = row'] \in Task
  BY <1>2 DEF Task
<1>4. QED
  BY <1>2, <1>3, GotoType, StepType DEF Commit, TypeOK

\* The fields of a task and of the job it works on.
LEMMA TaskFields ==
  ASSUME TypeOK, NEW i \in Instances
  PROVE  /\ ex[i] \in Task
         /\ ex[i].pc \in ExPCs /\ ex[i].at \in 0..Scoring
         /\ ex[i].mem \in Job /\ ex[i].mem.data \in Data
         /\ ex[i].mem.status \in JobStatus
         /\ ex[i].mem.data.cur \in Places
         /\ ex[i].todo \in SUBSET (1..NumScenes)
         /\ ex[i].board \in Boards /\ ex[i].fault \in Errors
         /\ ex[i].tries \in 0..NativeRetries /\ ex[i].authorized \in Nat
  BY DEF TypeOK, Task, Job, Data

(***************************************************************************)
(* The invariant behind PolicyGate. A storyboard is written only after the *)
(* policy gate of the same data has passed, every copy of the data (of the *)
(* row, of an executor, of a handler, of a cancel request) keeps it so,    *)
(* and an executor films only where its copy holds a storyboard's policy.  *)
(***************************************************************************)
PolicyPassed(data) == Policy \in data.out /\ data.stage[Policy] = "completed"

Gated(data) ==
  /\ Storyboard \in data.out => PolicyPassed(data)
  /\ data.cur = Policy => Storyboard \notin data.out

Staged == {"stage", "work", "done"}
Filming == Staged \cup {"scene", "veo", "accept", "fetch"}

\* An executor at pc of stage at, with these scenes to do and this data.
Placed(pc, at, todo, data) ==
  /\ pc \in Staged => at \in STAGES
  /\ pc \in {"scene", "veo", "accept"} => at = Scenes
  /\ pc = "fetch" => at \in {Scenes, Render}
  /\ pc = "note" => at = Editorial
  /\ pc \in {"veo", "accept"} \/ (pc = "fetch" /\ at = Scenes) => todo /= {}
  /\ pc \in Staged /\ at = Policy => Storyboard \notin data.out
  /\ pc \in Filming /\ at \in {Storyboard, Scenes} => PolicyPassed(data)

TaskGated(e) == Gated(e.mem.data) /\ Placed(e.pc, e.at, e.todo, e.mem.data)

Inv ==
  /\ TypeOK
  /\ Gated(row.data)
  /\ \A i \in Instances : TaskGated(ex[i])
  /\ \A i \in Instances : Gated(req[i].mem.data)
  /\ Gated(can.mem.data)

\* Nothing has been gated in a new job, an idle task or an idle request.
LEMMA NewDataGated ==
  /\ \A review \in BOOLEAN : Gated(NewData(review))
  /\ Gated(NoJob.data) /\ TaskGated(NoTask) /\ Gated(NoRequest.mem.data)
  /\ Gated(NoCancel.mem.data)
  BY DEF NewData, NoJob, NoTask, NoRequest, NoCancel, Gated, TaskGated, Placed,
     Queued, Policy, Staged, Filming

\* A stage changes its status and leaves the gate of a storyboard alone.
LEMMA SetStageGated ==
  ASSUME NEW data \in Data, Gated(data), NEW s \in Places, NEW status \in StageStatus,
         s = Policy => Storyboard \notin data.out
  PROVE  /\ Gated(SetStage(data, s, status))
         /\ SetStage(data, s, status).out = data.out
         /\ s /= Policy => SetStage(data, s, status).stage[Policy] = data.stage[Policy]
  BY DEF SetStage, Data, Gated, PolicyPassed, STAGES, Policy, Storyboard

\* A stage is completed and leaves its output.
LEMMA CompletedGated ==
  ASSUME NEW data \in Data, Gated(data), NEW s \in STAGES, NEW status \in StageStatus,
         s = Policy => Storyboard \notin data.out,
         s = Storyboard => PolicyPassed(data)
  PROVE  /\ Gated(WithOutput(SetStage(data, s, status), s))
         /\ WithOutput(SetStage(data, s, status), s).out = data.out \cup {s}
         /\ WithOutput(SetStage(data, s, status), s).stage[Policy] =
              IF s = Policy THEN status ELSE data.stage[Policy]
  BY DEF SetStage, WithOutput, Data, Gated, PolicyPassed, STAGES, Policy, Storyboard

\* Who resets the policy stage or drops its output drops the storyboard.
LEMMA ResetGated ==
  ASSUME NEW data \in Data, Gated(data), NEW s \in STAGES, NEW lost \in SUBSET STAGES,
         s <= Policy \/ Policy \in lost => Storyboard \in lost
  PROVE  Gated(Reset(data, s, lost))
  BY DEF Reset, Data, Gated, PolicyPassed, STAGES, Policy, Storyboard

(***************************************************************************)
(* Two shapes of executor steps: a commit, and a step within the process.  *)
(***************************************************************************)
\* A commit of gated data by a task that is placed for it.
LEMMA CommitKeepsInv ==
  ASSUME Inv, NEW i \in Instances, NEW e \in Task, NEW pc \in ExPCs,
         NEW data \in Data, NEW status \in JobStatus,
         Commit(i, e, pc, data, status),
         gen' \in [Boards -> SUBSET (1..NumScenes)], boards' \in Boards,
         Gated(data), pc = "off" \/ Placed(pc, e.at, e.todo, data),
         UNCHANGED <<takes, money, req, can, hostVars>>
  PROVE  Inv'
<1> USE DEF Inv
<1>1. row' \in Job /\ ex' \in [Instances -> Task]
  BY CommitType
<1>2. TypeOK'
  BY <1>1 DEF TypeOK, money, hostVars
<1>3. row'.data = data
  BY DEF Commit, Stored
<1>4. TaskGated(ex'[i])
  <2>1. ex'[i] = Goto([e EXCEPT !.mem = row'], pc)
    BY DEF Commit, Step, TypeOK
  <2>2. CASE pc = "off"
    BY <2>1, <2>2, NewDataGated DEF Goto
  <2>3. CASE pc /= "off"
    <3>1. ex'[i] = [[e EXCEPT !.mem = row'] EXCEPT !.pc = pc]
      BY <2>1, <2>3 DEF Goto
    <3>2. /\ ex'[i].mem = row' /\ ex'[i].pc = pc
          /\ ex'[i].at = e.at /\ ex'[i].todo = e.todo
      BY <3>1 DEF Task
    <3>3. QED
      BY <3>2, <2>3, <1>3 DEF TaskGated
  <2>4. QED
    BY <2>2, <2>3
<1>5. \A j \in Instances : j /= i => ex'[j] = ex[j]
  BY DEF Commit, Step, TypeOK
<1>6. QED
  BY <1>2, <1>3, <1>4, <1>5 DEF TaskGated

\* A step of a task that is placed and keeps the data of the row gated.
LEMMA StepKeepsInv ==
  ASSUME Inv, NEW i \in Instances, NEW e \in Task, Step(i, e), TaskGated(e),
         gen' \in [Boards -> SUBSET (1..NumScenes)], takes' \in Nat,
         wallet' \in Int, book' \in Book, used' \in [Bounds -> Nat],
         row' \in Job, Gated(row'.data), UNCHANGED <<boards, req, can, up, timer>>
  PROVE  Inv'
<1> USE DEF Inv
<1>1. ex' \in [Instances -> Task]
  BY StepType DEF TypeOK
<1>2. TypeOK'
  BY <1>1 DEF TypeOK
<1>3. \A j \in Instances : ex'[j] = IF j = i THEN e ELSE ex[j]
  BY DEF Step, TypeOK
<1>4. QED
  BY <1>2, <1>3

\* Spending from a bound.
LEMMA SpendType ==
  ASSUME TypeOK, NEW bound \in Bounds, Spend(bound)
  PROVE  used' \in [Bounds -> Nat]
<1>1. used[bound] + 1 \in Nat
  BY DEF TypeOK
<1>2. QED
  BY <1>1 DEF TypeOK, Spend

\* A task may go on where its stage and data allow it.
LEMMA GotoGated ==
  ASSUME NEW e \in Task, NEW pc \in ExPCs, Gated(e.mem.data),
         pc = "off" \/ Placed(pc, e.at, e.todo, e.mem.data)
  PROVE  Goto(e, pc) \in Task /\ TaskGated(Goto(e, pc))
<1>1. Goto(e, pc) \in Task
  BY GotoType
<1>2. CASE pc = "off"
  BY <1>1, <1>2, NewDataGated DEF Goto
<1>3. CASE pc /= "off"
  <2>1. Goto(e, pc) = [e EXCEPT !.pc = pc]
    BY <1>3 DEF Goto
  <2>2. /\ Goto(e, pc).mem = e.mem /\ Goto(e, pc).pc = pc
        /\ Goto(e, pc).at = e.at /\ Goto(e, pc).todo = e.todo
    BY <2>1 DEF Task
  <2>3. QED
    BY <1>1, <1>3, <2>2 DEF TaskGated
<1>4. QED
  BY <1>2, <1>3

(***************************************************************************)
(* The steps of run before and after the pipeline.                         *)
(***************************************************************************)
\* The claim leaves stages and outputs alone.
LEMMA ClaimKeepsInv ==
  ASSUME Inv, NEW i \in Instances, Claim(i) PROVE Inv'
<1> USE DEF Inv
<1>1. ex[i] \in Task /\ Gated(ex[i].mem.data)
  BY TaskFields DEF TaskGated
<1>2. CASE Claimable(row)
  <2>1. row' = [status |-> "running", data |-> [row.data EXCEPT !.interrupted = FALSE]]
    BY <1>2 DEF Claim
  <2>2. row.data \in Data
    BY DEF TypeOK, Job
  <2>3. row' \in Job /\ Gated(row'.data)
    BY <2>1, <2>2 DEF Job, JobStatus, Data, Gated, PolicyPassed
  <2>4. Goto(ex[i], "load") \in Task /\ TaskGated(Goto(ex[i], "load"))
    BY <1>1, GotoGated DEF ExPCs, Placed, Staged, Filming
  <2>5. Step(i, Goto(ex[i], "load"))
    BY <1>2 DEF Claim
  <2>6. QED
    BY <2>3, <2>4, <2>5, StepKeepsInv DEF Claim, TypeOK, money, hostVars
<1>3. CASE ~Claimable(row)
  <2>1. Step(i, NoTask) /\ row' = row
    BY <1>3 DEF Claim
  <2>2. QED
    BY <2>1, NoTaskType, NewDataGated, StepKeepsInv DEF Claim, TypeOK, money, hostVars
<1>4. QED
  BY <1>2, <1>3

\* The executor takes its copy of the row.
LEMMA LoadKeepsInv ==
  ASSUME Inv, NEW i \in Instances, Load(i) PROVE Inv'
<1> USE DEF Inv
<1> DEFINE e == [ex[i] EXCEPT !.pc = EmitOr("started"), !.mem = row]
<1>1. ex[i] \in Task /\ row \in Job
  BY TaskFields DEF TypeOK
<1>2. EmitOr("started") \in {"started", "dispatch"}
  BY DEF EmitOr, Emitted
<1>3. e \in Task /\ TaskGated(e)
  BY <1>1, <1>2 DEF Task, ExPCs, Awaits, OuterAwaits, TaskGated, Placed, Staged, Filming
<1>4. Step(i, e) \/ Step(i, NoTask)
  BY DEF Load
<1>5. QED
  BY <1>3, <1>4, NoTaskType, NewDataGated, StepKeepsInv
  DEF Load, TypeOK, jobVars, money, hostVars

\* After an event the executor goes on where it stopped.
LEMMA DeliveredKeepsInv ==
  ASSUME Inv, NEW i \in Instances, Delivered(i) PROVE Inv'
<1> USE DEF Inv
<1>1. ex[i] \in Task /\ TaskGated(ex[i])
  BY TaskFields
<1>2. ex[i].pc \in {"started", "note", "retryTail", "failTail", "tail"}
  BY DEF Delivered, Emitted
<1>3. Emitted[ex[i].pc] \in ExPCs
  BY <1>2, EmitOrType DEF Emitted
<1>4. \/ Emitted[ex[i].pc] \in {"dispatch", "sleep", "off"}
      \/ Emitted[ex[i].pc] = "done" /\ ex[i].pc = "note"
  BY <1>2 DEF Emitted
<1>5. /\ Goto(ex[i], Emitted[ex[i].pc]) \in Task
      /\ TaskGated(Goto(ex[i], Emitted[ex[i].pc]))
  BY <1>1, <1>3, <1>4, GotoGated
  DEF TaskGated, Placed, Staged, Filming, STAGES, Editorial, Policy, Storyboard, Scenes
<1>6. QED
  BY <1>5, StepKeepsInv DEF Delivered, TypeOK, jobVars, money, hostVars

(***************************************************************************)
(* The steps of the pipeline.                                              *)
(***************************************************************************)
\* A stage to run next, after a stage that was completed or at the top.
LEMMA NextStagePlaced ==
  ASSUME NEW data \in Data, Gated(data), NEW s \in STAGES, NEW todo,
         s <= Policy \/ (s = Storyboard /\ PolicyPassed(data)) \/ s > Scenes
  PROVE  /\ NextStage(data, s) \in STAGES
         /\ Placed("stage", NextStage(data, s), todo, data)
<1>1. /\ NextStage(data, s) \in s..Scoring
      /\ ~Skipped(data, NextStage(data, s))
      /\ \A t \in s..(NextStage(data, s) - 1) : Skipped(data, t)
  BY NextStageType
<1>2. NextStage(data, s) \in STAGES
  BY <1>1 DEF STAGES, Scoring
<1>3. NextStage(data, s) = Policy => Storyboard \notin data.out
  BY <1>1 DEF Skipped, Gated, PolicyPassed, Policy, Storyboard
<1>4. NextStage(data, s) \in {Storyboard, Scenes} => PolicyPassed(data)
  <2>1. CASE s <= Policy
    <3>1. NextStage(data, s) \in {Storyboard, Scenes} => Policy \in s..(NextStage(data, s) - 1)
      BY <2>1, <1>2 DEF Policy, Storyboard, Scenes, STAGES
    <3>2. QED
      BY <3>1, <1>1 DEF Skipped, PolicyPassed, Policy, Intake
  <2>2. CASE s > Scenes
    BY <2>2, <1>1 DEF Storyboard, Scenes, Scoring, STAGES
  <2>3. QED
    BY <2>1, <2>2
<1>5. QED
  BY <1>2, <1>3, <1>4 DEF Placed, Staged, Filming

\* Resuming the scenes or the render relies on the policy of the storyboard.
LEMMA DispatchKeepsInv ==
  ASSUME Inv, NEW i \in Instances, Dispatch(i) PROVE Inv'
<1> USE DEF Inv
<1> DEFINE data == ex[i].mem.data
<1>1. /\ ex[i] \in Task /\ TaskGated(ex[i]) /\ ex[i].mem \in Job
      /\ data \in Data /\ ex[i].mem.status \in JobStatus
  BY TaskFields
<1>2. \A kind \in Errors : Raised(ex[i], kind) \in Task /\ TaskGated(Raised(ex[i], kind))
  BY <1>1 DEF Raised, Task, ExPCs, TaskGated, Placed, Staged, Filming
<1>3. CASE ResumeRender(i, data)
  <2> DEFINE e == [ex[i] EXCEPT !.pc = "fetch", !.at = Render]
  <2>1. e \in Task /\ TaskGated(e)
    <3>1. "fetch" \in ExPCs /\ Render \in 0..Scoring
      BY DEF ExPCs, Awaits, InnerAwaits, Scoring, Render
    <3>2. e \in Task /\ e.pc = "fetch" /\ e.at = Render /\ e.mem = ex[i].mem
      BY <1>1, <3>1 DEF Task
    <3>3. QED
      BY <1>1, <3>2 DEF Render, Storyboard, Scenes, TaskGated, Placed, Staged, Filming
  <2>2. "permanent" \in Errors
    BY DEF Errors
  <2>3. QED
    BY <1>2, <1>3, <2>1, <2>2, StepKeepsInv
    DEF ResumeRender, Dispatch, TypeOK, money, hostVars
<1>4. CASE ResumeScenes(i, data)
  <2> DEFINE e == [ex[i] EXCEPT !.at = Scenes, !.board = data.board]
             done == WithOutput(SetStage(data, Storyboard, "completed"), Storyboard)
  <2>1. CASE SceneCheckpoints(data)
    <3>1. data.board \in Boards
      BY <1>1 DEF Data
    <3>2. e \in Task /\ e.at = Scenes /\ e.todo = ex[i].todo
      <4>1. Scenes \in 0..Scoring
        BY DEF Scenes, Scoring
      <4>2. QED
        BY <1>1, <3>1, <4>1 DEF Task
    <3>3. PolicyPassed(data) /\ Gated(data)
      BY <1>1, <1>4 DEF ResumeScenes, ScenesPending, Gated, TaskGated
    <3>4. /\ Storyboard \in STAGES /\ Storyboard \in Places /\ "completed" \in StageStatus
          /\ Storyboard /= Policy
      BY DEF Storyboard, STAGES, Places, StageStatus, Policy
    <3>5. done \in Data
      BY <1>1, <3>4, SetStageType, WithOutputType
    <3>6. Gated(done) /\ PolicyPassed(done)
      BY <1>1, <3>3, <3>4, CompletedGated DEF PolicyPassed
    <3>7. Placed("stage", e.at, e.todo, done)
      BY <3>2, <3>6 DEF Placed, Staged, Filming, STAGES, Scenes, Policy
    <3>8. Commit(i, e, "stage", done, "running")
      BY <1>4, <2>1 DEF ResumeScenes
    <3>9. "stage" \in ExPCs /\ "running" \in JobStatus
      BY DEF ExPCs, JobStatus
    <3> HIDE DEF e, done
    <3>10. QED
      BY <3>2, <3>5, <3>6, <3>7, <3>8, <3>9, CommitKeepsInv
      DEF Dispatch, TypeOK, money
  <2>2. CASE ~SceneCheckpoints(data)
    <3>1. Step(i, Raised(ex[i], "permanent")) /\ row' = row /\ "permanent" \in Errors
      BY <1>4, <2>2 DEF ResumeScenes, Errors
    <3>2. QED
      BY <1>2, <3>1, StepKeepsInv DEF Dispatch, TypeOK, money, hostVars
  <2>3. QED
    BY <2>1, <2>2
<1>5. CASE FromTheTop(i, data)
  <2> DEFINE e == [ex[i] EXCEPT !.at = NextStage(data, Intake)]
  <2>1. Intake \in STAGES /\ Intake <= Policy
    BY DEF Intake, STAGES, Policy
  <2>2. NextStage(data, Intake) \in STAGES /\ Placed("stage", NextStage(data, Intake), ex[i].todo, data)
    BY <1>1, <2>1, NextStagePlaced DEF TaskGated
  <2>3. e \in Task /\ e.at = NextStage(data, Intake) /\ e.todo = ex[i].todo
    BY <1>1, <2>2 DEF Task, STAGES, Scoring
  <2>4. Commit(i, e, "stage", data, ex[i].mem.status)
    BY <1>5 DEF FromTheTop
  <2>5. "stage" \in ExPCs
    BY DEF ExPCs
  <2> HIDE DEF e
  <2>6. QED
    BY <1>1, <2>2, <2>3, <2>4, <2>5, CommitKeepsInv DEF Dispatch, TypeOK, TaskGated, money
<1>6. QED
  BY <1>3, <1>4, <1>5 DEF Dispatch

\* A stage begins: policy only while there is no storyboard.
LEMMA BeginStageKeepsInv ==
  ASSUME Inv, NEW i \in Instances, BeginStage(i) PROVE Inv'
<1> USE DEF Inv
<1> DEFINE at == ex[i].at
           old == ex[i].mem.data
           new == SetStage(old, at, "running")
           todo == IF at = Scenes THEN 1..NumScenes ELSE {}
           pc == IF at = Scenes THEN "scene" ELSE IF at \in Waits THEN "work" ELSE "done"
           e == [ex[i] EXCEPT !.todo = todo, !.tries = 0]
<1>1. ex[i] \in Task /\ TaskGated(ex[i]) /\ old \in Data
  BY TaskFields
<1>2. at \in STAGES /\ (at = Policy => Storyboard \notin old.out)
  BY <1>1 DEF BeginStage, TaskGated, Placed, Staged
<1>3. at \in {Storyboard, Scenes} => PolicyPassed(old)
  BY <1>1 DEF BeginStage, TaskGated, Placed, Filming, Staged
<1>4. at \in Places /\ "running" \in StageStatus /\ "running" \in JobStatus
  BY <1>2 DEF STAGES, Places, StageStatus, JobStatus
<1>5. new \in Data
  BY <1>1, <1>4, SetStageType
<1>6. /\ Gated(new) /\ new.out = old.out
      /\ at /= Policy => new.stage[Policy] = old.stage[Policy]
  BY <1>1, <1>2, <1>4, SetStageGated DEF TaskGated
<1>7. e \in Task /\ e.at = at /\ e.todo = todo
  <2>1. todo \in SUBSET (1..NumScenes) /\ 0 \in 0..NativeRetries
    OBVIOUS
  <2> HIDE DEF todo
  <2>2. QED
    BY <1>1, <2>1 DEF Task
<1>8. pc \in ExPCs
  BY DEF ExPCs, Awaits, InnerAwaits
<1>9. Placed(pc, at, todo, new)
  BY <1>2, <1>3, <1>6
  DEF Placed, Staged, Filming, PolicyPassed, Storyboard, Scenes, Policy
<1>10. Commit(i, e, pc, new, "running")
  BY DEF BeginStage
<1> HIDE DEF e, new, pc, todo
<1>11. QED
  BY <1>4, <1>5, <1>6, <1>7, <1>8, <1>9, <1>10, CommitKeepsInv
  DEF BeginStage, TypeOK, money

\* A provider has answered.
LEMMA WorkedKeepsInv ==
  ASSUME Inv, NEW i \in Instances, Worked(i) PROVE Inv'
<1> USE DEF Inv
<1>1. ex[i] \in Task /\ TaskGated(ex[i]) /\ "done" \in ExPCs
  BY TaskFields DEF ExPCs
<1>2. Placed("done", ex[i].at, ex[i].todo, ex[i].mem.data)
  BY <1>1 DEF Worked, TaskGated, Placed, Staged, Filming
<1>3. Goto(ex[i], "done") \in Task /\ TaskGated(Goto(ex[i], "done"))
  BY <1>1, <1>2, GotoGated DEF TaskGated
<1>4. QED
  BY <1>3, StepKeepsInv DEF Worked, TypeOK, jobVars, money, hostVars

\* A commit of an executor that only changes fields the gate does not read.
LEMMA PlainCommitKeepsInv ==
  ASSUME Inv, NEW i \in Instances, NEW pc \in ExPCs, NEW data \in Data,
         NEW status \in JobStatus, Commit(i, ex[i], pc, data, status), Gated(data),
         pc = "off" \/ Placed(pc, ex[i].at, ex[i].todo, data),
         UNCHANGED <<gen, boards, takes, money, req, can, hostVars>>
  PROVE  Inv'
<1>1. ex[i] \in Task
  BY TaskFields DEF Inv
<1>2. gen' \in [Boards -> SUBSET (1..NumScenes)] /\ boards' \in Boards
  BY DEF Inv, TypeOK
<1>3. QED
  BY <1>1, <1>2, CommitKeepsInv

\* Places of an executor that films nothing.
LEMMA ElsewherePlaced ==
  ASSUME NEW pc \in ExPCs \ (Filming \cup {"note"}), NEW at, NEW todo, NEW data
  PROVE  Placed(pc, at, todo, data)
  BY DEF Placed, Filming, Staged

\* A script that was rejected three times asks for a review.
LEMMA ScriptRejectedKeepsInv ==
  ASSUME Inv, NEW i \in Instances, ScriptRejected(i) PROVE Inv'
<1> USE DEF Inv
<1> DEFINE new == [ex[i].mem.data EXCEPT !.review = TRUE]
<1>1. TaskGated(ex[i]) /\ ex[i].mem.data \in Data /\ ex[i].mem.status \in JobStatus
  BY TaskFields
<1>2. new \in Data /\ Gated(new)
  BY <1>1 DEF Data, TaskGated, Gated, PolicyPassed
<1>3. EmitOr("note") \in {"note", "done"} /\ EmitOr("note") \in ExPCs
  BY EmitOrType DEF EmitOr, Emitted
<1>4. ex[i].at = Editorial
  BY DEF ScriptRejected
<1>5. Placed(EmitOr("note"), ex[i].at, ex[i].todo, new)
  BY <1>3, <1>4
  DEF Placed, Staged, Filming, STAGES, Editorial, Policy, Storyboard, Scenes
<1>6. Commit(i, ex[i], EmitOr("note"), new, ex[i].mem.status)
  BY DEF ScriptRejected
<1> HIDE DEF new
<1>7. QED
  BY <1>1, <1>2, <1>3, <1>5, <1>6, PlainCommitKeepsInv DEF ScriptRejected

\* A stage completes or blocks, and its output is written.
LEMMA StageOutput ==
  ASSUME Inv, NEW i \in Instances, ex[i].pc = "done", NEW status \in StageStatus
  PROVE  LET at  == ex[i].at
             old == ex[i].mem.data
             new == WithOutput(SetStage(old, at, status), at)
         IN  /\ at \in STAGES /\ new \in Data /\ Gated(new) /\ new.out = old.out \cup {at}
             /\ new.stage[Policy] = IF at = Policy THEN status ELSE old.stage[Policy]
<1> USE DEF Inv
<1> DEFINE at == ex[i].at
           old == ex[i].mem.data
           new == WithOutput(SetStage(old, at, status), at)
<1>1. TaskGated(ex[i]) /\ old \in Data
  BY TaskFields
<1>2. /\ at \in STAGES
      /\ at = Policy => Storyboard \notin old.out
      /\ at = Storyboard => PolicyPassed(old)
  BY <1>1 DEF TaskGated, Placed, Staged, Filming
<1>3. at \in Places
  BY <1>2 DEF STAGES, Places
<1>4. new \in Data
  BY <1>1, <1>2, <1>3, SetStageType, WithOutputType
<1>5. QED
  BY <1>1, <1>2, <1>4, CompletedGated DEF TaskGated

\* A stage completes; storyboard and scenes come only behind the policy.
LEMMA CompleteStageKeepsInv ==
  ASSUME Inv, NEW i \in Instances, CompleteStage(i) PROVE Inv'
<1> USE DEF Inv
<1> DEFINE at == ex[i].at
           old == ex[i].mem.data
           new == WithOutput(SetStage(old, at, "completed"), at)
           next == NextStage(new, at + 1)
           e == [ex[i] EXCEPT !.at = next]
<1>1. /\ at \in STAGES /\ new \in Data /\ Gated(new) /\ new.out = old.out \cup {at}
      /\ new.stage[Policy] = IF at = Policy THEN "completed" ELSE old.stage[Policy]
  BY StageOutput DEF CompleteStage, StageStatus
<1>2. ex[i] \in Task /\ at \notin {Storyboard, Scoring, Voice}
  BY TaskFields DEF CompleteStage
<1>3. at + 1 \in STAGES
  BY <1>1, <1>2 DEF STAGES, Scoring
<1>4. at = Policy => PolicyPassed(new)
  BY <1>1 DEF PolicyPassed
<1>5. \/ at + 1 <= Policy
      \/ at + 1 = Storyboard /\ PolicyPassed(new)
      \/ at + 1 > Scenes
  BY <1>1, <1>2, <1>4 DEF STAGES, Policy, Storyboard, Scenes
<1>6. next \in STAGES /\ Placed("stage", next, ex[i].todo, new)
  <2> HIDE DEF new
  <2> QED BY <1>1, <1>3, <1>5, NextStagePlaced
<1>7. e \in Task /\ e.at = next /\ e.todo = ex[i].todo
  <2>1. next \in 0..Scoring
    BY <1>6 DEF STAGES, Scoring
  <2>2. QED
    BY <1>2, <2>1 DEF Task
<1>8. Commit(i, e, "stage", new, "running")
  BY DEF CompleteStage
<1>9. "stage" \in ExPCs /\ "running" \in JobStatus
  BY DEF ExPCs, JobStatus
<1> HIDE DEF e, next, new
<1>10. QED
  BY <1>1, <1>6, <1>7, <1>8, <1>9, CommitKeepsInv DEF CompleteStage, TypeOK

\* Voice and scoring complete.
LEMMA CompleteLastKeepsInv ==
  ASSUME Inv, NEW i \in Instances, CompleteLast(i) PROVE Inv'
<1> USE DEF Inv
<1> DEFINE at == ex[i].at
           new == WithOutput(SetStage(ex[i].mem.data, at, "completed"), at)
           pc == IF at = Voice THEN "settle" ELSE "finish"
<1>1. new \in Data /\ Gated(new)
  BY StageOutput DEF CompleteLast, StageStatus
<1>2. pc \in ExPCs \ (Filming \cup {"note"}) /\ "running" \in JobStatus
  BY DEF ExPCs, Filming, Staged, JobStatus
<1>3. Commit(i, ex[i], pc, new, "running")
  BY DEF CompleteLast
<1> HIDE DEF new, pc
<1>4. QED
  BY <1>1, <1>2, <1>3, ElsewherePlaced, PlainCommitKeepsInv DEF CompleteLast

\* The policy gate blocks: no storyboard is written.
LEMMA PolicyBlocksKeepsInv ==
  ASSUME Inv, NEW i \in Instances, PolicyBlocks(i) PROVE Inv'
<1> DEFINE new == WithOutput(SetStage(ex[i].mem.data, Policy, "blocked"), Policy)
<1>1. new \in Data /\ Gated(new)
  BY StageOutput DEF PolicyBlocks, StageStatus
<1>2. "blocked" \in ExPCs \ (Filming \cup {"note"}) /\ "blocked" \in JobStatus
  BY DEF ExPCs, Filming, Staged, JobStatus
<1>3. Commit(i, ex[i], "blocked", new, "blocked")
  BY DEF PolicyBlocks
<1> HIDE DEF new
<1>4. QED
  BY <1>1, <1>2, <1>3, ElsewherePlaced, PlainCommitKeepsInv DEF PolicyBlocks

\* No stage is under way in the last events of a task.
LEMMA TailPlaced ==
  /\ EmitOr("tail") \in ExPCs \ (Filming \cup {"note"})
  /\ EmitOr("failTail") \in ExPCs \ (Filming \cup {"note"})
  /\ EmitOr("retryTail") \in ExPCs \ (Filming \cup {"note"})
  BY DEF EmitOr, Emitted, ExPCs, Awaits, OuterAwaits, InnerAwaits, Filming, Staged

\* A blocked job ends its task.
LEMMA BlockedKeepsInv ==
  ASSUME Inv, NEW i \in Instances, Blocked(i) PROVE Inv'
<1>1. ex[i].mem.data \in Data /\ Gated(ex[i].mem.data) /\ "blocked" \in JobStatus
  BY TaskFields DEF Inv, TaskGated, JobStatus
<1>2. Commit(i, ex[i], EmitOr("tail"), ex[i].mem.data, "blocked")
  BY DEF Blocked
<1>3. QED
  BY <1>1, <1>2, TailPlaced, ElsewherePlaced, PlainCommitKeepsInv DEF Blocked

\* The storyboard is written from the data that passed the policy.
LEMMA CompleteStoryboardKeepsInv ==
  ASSUME Inv, NEW i \in Instances, CompleteStoryboard(i) PROVE Inv'
<1> USE DEF Inv
<1> DEFINE done == WithOutput(SetStage(ex[i].mem.data, Storyboard, "completed"), Storyboard)
           new == [done EXCEPT !.board = boards']
           pc == IF new.review /\ ~new.approved THEN "review" ELSE "stage"
           e == [ex[i] EXCEPT !.at = Scenes, !.board = boards']
<1>1. ex[i].pc = "done" /\ ex[i].at = Storyboard /\ boards' = boards + 1 /\ boards < MaxStoryboards
  BY DEF CompleteStoryboard
<1>2. boards' \in Boards /\ gen' \in [Boards -> SUBSET (1..NumScenes)]
  <2>1. boards' \in Boards
    BY <1>1 DEF TypeOK, Boards
  <2>2. QED
    BY <2>1 DEF CompleteStoryboard, TypeOK
<1>3. /\ done \in Data /\ Gated(done)
      /\ Storyboard \in done.out
  BY <1>1, StageOutput DEF StageStatus
<1>4. new \in Data /\ Gated(new) /\ PolicyPassed(new)
  <2> HIDE DEF done
  <2> QED BY <1>2, <1>3 DEF Data, Gated, PolicyPassed
<1>5. e \in Task /\ e.at = Scenes /\ e.todo = ex[i].todo
  <2>1. Scenes \in 0..Scoring
    BY DEF Scenes, Scoring
  <2>2. QED
    BY <1>2, <2>1, TaskFields DEF Task
<1>6. pc \in {"review", "stage"} /\ pc \in ExPCs /\ "running" \in JobStatus
  BY DEF ExPCs, JobStatus
<1>7. Placed(pc, Scenes, ex[i].todo, new)
  <2> HIDE DEF new, pc
  <2> QED BY <1>4, <1>6 DEF Placed, Staged, Filming, STAGES, Scenes, Policy, Storyboard
<1>8. Commit(i, e, pc, new, "running")
  BY <1>1 DEF CompleteStoryboard
<1> HIDE DEF e, pc, new
<1>9. QED
  BY <1>2, <1>4, <1>5, <1>6, <1>7, <1>8, CommitKeepsInv DEF CompleteStoryboard

\* The job waits for its author.
LEMMA ReviewKeepsInv ==
  ASSUME Inv, NEW i \in Instances, Review(i) PROVE Inv'
<1> USE DEF Inv
<1> DEFINE new == [ex[i].mem.data EXCEPT !.cur = ScriptReview]
<1>1. ex[i].mem.data \in Data /\ Gated(ex[i].mem.data)
  BY TaskFields DEF TaskGated
<1>2. ScriptReview \in Places /\ ScriptReview /= Policy /\ "awaiting_script_review" \in JobStatus
  BY DEF ScriptReview, Places, Policy, JobStatus
<1>3. new \in Data /\ Gated(new)
  BY <1>1, <1>2 DEF Data, Gated, PolicyPassed
<1>4. Commit(i, ex[i], EmitOr("tail"), new, "awaiting_script_review")
  BY DEF Review
<1> HIDE DEF new
<1>5. QED
  BY <1>2, <1>3, <1>4, TailPlaced, ElsewherePlaced, PlainCommitKeepsInv DEF Review

(***************************************************************************)
(* The steps of the scenes and of the render.                              *)
(***************************************************************************)
\* The next scene is one that is to do.
LEMMA SceneInTodo ==
  ASSUME NEW e \in Task, e.todo /= {}
  PROVE  Scene(e) \in e.todo /\ Scene(e) \in 1..NumScenes
<1>1. e.todo \in SUBSET Nat /\ e.todo \in SUBSET (1..NumScenes)
  BY DEF Task
<1>2. QED
  BY <1>1, MinInSet DEF Scene

\* A scene is bought or fetched, with the policy still passed.
LEMMA NextSceneKeepsInv ==
  ASSUME Inv, NEW i \in Instances, NextScene(i) PROVE Inv'
<1> USE DEF Inv
<1> DEFINE pc == IF ex[i].todo = {} THEN "done"
                 ELSE IF Scene(ex[i]) \in gen[ex[i].board] THEN "fetch" ELSE "veo"
<1>1. ex[i] \in Task /\ TaskGated(ex[i]) /\ ex[i].pc = "scene"
  BY TaskFields DEF NextScene
<1>2. ex[i].at = Scenes /\ PolicyPassed(ex[i].mem.data)
  BY <1>1 DEF TaskGated, Placed, Filming
<1>3. pc \in ExPCs
  BY DEF ExPCs, Awaits, InnerAwaits
<1>4. Placed(pc, ex[i].at, ex[i].todo, ex[i].mem.data)
  BY <1>2 DEF Placed, Staged, Filming, STAGES, Scenes, Policy
<1>5. Step(i, Goto(ex[i], pc))
  BY DEF NextScene
<1> HIDE DEF pc
<1>6. Goto(ex[i], pc) \in Task /\ TaskGated(Goto(ex[i], pc))
  BY <1>1, <1>3, <1>4, GotoGated DEF TaskGated
<1>7. QED
  BY <1>5, <1>6, StepKeepsInv DEF NextScene, TypeOK, jobVars, money, hostVars

\* A take is stored.
LEMMA TakePassesKeepsInv ==
  ASSUME Inv, NEW i \in Instances, TakePasses(i) PROVE Inv'
<1> USE DEF Inv
<1>1. ex[i] \in Task /\ TaskGated(ex[i]) /\ "accept" \in ExPCs
  BY TaskFields DEF ExPCs
<1>2. Placed("accept", ex[i].at, ex[i].todo, ex[i].mem.data)
  BY <1>1 DEF TakePasses, TaskGated, Placed, Filming, Staged
<1>3. Goto(ex[i], "accept") \in Task /\ TaskGated(Goto(ex[i], "accept"))
  BY <1>1, <1>2, GotoGated DEF TaskGated
<1>4. takes' \in Nat
  BY DEF TakePasses, TypeOK
<1>5. QED
  BY <1>3, <1>4, StepKeepsInv DEF TakePasses, TypeOK, money, hostVars

\* A task that has raised is in no stage.
LEMMA RaisedGated ==
  ASSUME NEW e \in Task, Gated(e.mem.data), NEW kind \in Errors
  PROVE  Raised(e, kind) \in Task /\ TaskGated(Raised(e, kind))
<1>1. /\ Raised(e, kind) \in Task
      /\ Raised(e, kind).pc = "failing" /\ Raised(e, kind).mem = e.mem
  BY DEF Raised, Task, ExPCs
<1>2. QED
  BY <1>1 DEF TaskGated, Placed, Staged, Filming

\* A rejected take is bought again or fails the stage.
LEMMA TakeRejectedKeepsInv ==
  ASSUME Inv, NEW i \in Instances, TakeRejected(i) PROVE Inv'
<1> USE DEF Inv
<1>1. ex[i] \in Task /\ TaskGated(ex[i]) /\ ex[i].tries \in 0..NativeRetries
  BY TaskFields
<1>2. takes' \in Nat /\ used' \in [Bounds -> Nat]
  BY SpendType DEF TakeRejected, TypeOK, Bounds
<1>3. CASE ex[i].tries < NativeRetries
  <2> DEFINE e == [ex[i] EXCEPT !.tries = @ + 1]
  <2>1. ex[i].tries + 1 \in 0..NativeRetries
    BY <1>1, <1>3
  <2>2. e \in Task /\ e.pc = ex[i].pc /\ e.at = ex[i].at /\ e.todo = ex[i].todo /\ e.mem = ex[i].mem
    BY <1>1, <2>1 DEF Task
  <2>3. TaskGated(e)
    BY <1>1, <2>2 DEF TaskGated
  <2>4. Step(i, e)
    BY <1>3 DEF TakeRejected
  <2> HIDE DEF e
  <2>5. QED
    BY <1>2, <2>2, <2>3, <2>4, StepKeepsInv DEF TakeRejected, TypeOK, money
<1>4. CASE ~(ex[i].tries < NativeRetries)
  <2>1. Step(i, Raised(ex[i], "permanent")) /\ "permanent" \in Errors
    BY <1>4 DEF TakeRejected, Errors
  <2>2. QED
    BY <1>1, <1>2, <2>1, RaisedGated, StepKeepsInv
    DEF TakeRejected, TypeOK, money, TaskGated
<1>5. QED
  BY <1>3, <1>4

\* A scene that is there is no longer to do.
LEMMA SceneGeneratedGated ==
  ASSUME NEW e \in Task, Gated(e.mem.data), e.at = Scenes, PolicyPassed(e.mem.data)
  PROVE  SceneGenerated(e) \in Task /\ TaskGated(SceneGenerated(e))
<1>1. e.todo \ {Scene(e)} \in SUBSET (1..NumScenes) /\ 0 \in 0..NativeRetries
  BY DEF Task
<1>2. /\ SceneGenerated(e) \in Task
      /\ SceneGenerated(e).pc = "scene" /\ SceneGenerated(e).mem = e.mem
      /\ SceneGenerated(e).at = e.at
  BY <1>1 DEF SceneGenerated, Task, ExPCs
<1>3. QED
  BY <1>2 DEF TaskGated, Placed, Staged, Filming, Scenes, Policy

\* The scene row is "generated".
LEMMA AcceptSceneKeepsInv ==
  ASSUME Inv, NEW i \in Instances, AcceptScene(i) PROVE Inv'
<1> USE DEF Inv
<1>1. ex[i] \in Task /\ TaskGated(ex[i]) /\ ex[i].pc = "accept"
  BY TaskFields DEF AcceptScene
<1>2. ex[i].at = Scenes /\ ex[i].todo /= {} /\ PolicyPassed(ex[i].mem.data)
  BY <1>1 DEF TaskGated, Placed, Filming
<1>3. Scene(ex[i]) \in 1..NumScenes
  BY <1>1, <1>2, SceneInTodo
<1>4. gen' \in [Boards -> SUBSET (1..NumScenes)]
  BY <1>3, TaskFields DEF AcceptScene, TypeOK
<1>5. SceneGenerated(ex[i]) \in Task /\ TaskGated(SceneGenerated(ex[i]))
  BY <1>1, <1>2, SceneGeneratedGated DEF TaskGated
<1>6. QED
  BY <1>4, <1>5, StepKeepsInv DEF AcceptScene, TypeOK, money, hostVars

\* A scene, or the input of the render, has been fetched.
LEMMA FetchedKeepsInv ==
  ASSUME Inv, NEW i \in Instances, Fetched(i) PROVE Inv'
<1> USE DEF Inv
<1>1. ex[i] \in Task /\ TaskGated(ex[i]) /\ ex[i].pc = "fetch" /\ "settle" \in ExPCs
  BY TaskFields DEF Fetched, ExPCs
<1>2. CASE ex[i].at = Render
  <2>1. Goto(ex[i], "settle") \in Task /\ TaskGated(Goto(ex[i], "settle"))
    BY <1>1, GotoGated DEF TaskGated, Placed, Staged, Filming
  <2>2. QED
    BY <1>2, <2>1, StepKeepsInv DEF Fetched, TypeOK, jobVars, money, hostVars
<1>3. CASE ex[i].at /= Render
  <2>1. ex[i].at = Scenes /\ PolicyPassed(ex[i].mem.data)
    BY <1>1, <1>3 DEF TaskGated, Placed, Filming
  <2>2. SceneGenerated(ex[i]) \in Task /\ TaskGated(SceneGenerated(ex[i]))
    BY <1>1, <2>1, SceneGeneratedGated DEF TaskGated
  <2>3. QED
    BY <1>3, <2>2, StepKeepsInv DEF Fetched, TypeOK, jobVars, money, hostVars
<1>4. QED
  BY <1>2, <1>3

\* The outstanding cents are read.
LEMMA ReadAuthorizedKeepsInv ==
  ASSUME Inv, NEW i \in Instances, ReadAuthorized(i) PROVE Inv'
<1> USE DEF Inv
<1> DEFINE e == [ex[i] EXCEPT !.pc = "settled", !.authorized = Outstanding(book)]
<1>1. ex[i] \in Task /\ TaskGated(ex[i]) /\ Outstanding(book) \in Nat
  BY TaskFields, BookTypes DEF TypeOK
<1>2. e \in Task /\ e.pc = "settled" /\ e.mem = ex[i].mem
  BY <1>1 DEF Task, ExPCs
<1>3. TaskGated(e)
  BY <1>1, <1>2 DEF TaskGated, Placed, Staged, Filming
<1>4. Step(i, e)
  BY DEF ReadAuthorized
<1> HIDE DEF e
<1>5. QED
  BY <1>2, <1>3, <1>4, StepKeepsInv DEF ReadAuthorized, TypeOK, jobVars, money, hostVars

\* The charge is settled.
LEMMA SettleKeepsInv ==
  ASSUME Inv, NEW i \in Instances, Settle(i) PROVE Inv'
<1> USE DEF Inv
<1> DEFINE e == [ex[i] EXCEPT !.pc = "costs", !.authorized = 0]
<1>1. ex[i] \in Task /\ TaskGated(ex[i]) /\ ex[i].authorized \in Nat
  BY TaskFields
<1>2. takes * TakeCents \in Nat
  BY DEF TypeOK
<1>3. book' \in Book
  BY <1>1, <1>2, BookTypes DEF Settle, TypeOK
<1>4. wallet' \in Int
  BY <1>3, BookTypes DEF Settle, TypeOK
<1>5. e \in Task /\ e.pc = "costs" /\ e.mem = ex[i].mem
  BY <1>1 DEF Task, ExPCs
<1>6. TaskGated(e)
  BY <1>1, <1>5 DEF TaskGated, Placed, Staged, Filming
<1>7. Step(i, e)
  BY DEF Settle
<1> HIDE DEF e
<1>8. QED
  BY <1>3, <1>4, <1>5, <1>6, <1>7, StepKeepsInv DEF Settle, TypeOK, jobVars, hostVars

\* The costs are written and the render begins.
LEMMA SaveCostsKeepsInv ==
  ASSUME Inv, NEW i \in Instances, SaveCosts(i) PROVE Inv'
<1> USE DEF Inv
<1> DEFINE e == [ex[i] EXCEPT !.at = Render]
<1>1. /\ ex[i] \in Task /\ Gated(ex[i].mem.data)
      /\ ex[i].mem.data \in Data /\ ex[i].mem.status \in JobStatus
  BY TaskFields DEF TaskGated
<1>2. Render \in 0..Scoring /\ "stage" \in ExPCs
  BY DEF Render, Scoring, ExPCs
<1>3. e \in Task /\ e.at = Render /\ e.todo = ex[i].todo
  BY <1>1, <1>2 DEF Task
<1>4. Placed("stage", Render, ex[i].todo, ex[i].mem.data)
  BY DEF Placed, Staged, Filming, STAGES, Render, Policy, Storyboard, Scenes
<1>5. Commit(i, e, "stage", ex[i].mem.data, ex[i].mem.status)
  BY DEF SaveCosts
<1> HIDE DEF e
<1>6. QED
  BY <1>1, <1>2, <1>3, <1>4, <1>5, CommitKeepsInv DEF SaveCosts, TypeOK

\* The job is ready.
LEMMA FinishKeepsInv ==
  ASSUME Inv, NEW i \in Instances, Finish(i) PROVE Inv'
<1> USE DEF Inv
<1> DEFINE new == [ex[i].mem.data EXCEPT !.cur = Completed]
           pc == IF AutoPublish THEN "publish" ELSE EmitOr("tail")
<1>1. ex[i].mem.data \in Data /\ Gated(ex[i].mem.data)
  BY TaskFields DEF TaskGated
<1>2. Completed \in Places /\ Completed /= Policy /\ "ready" \in JobStatus
  BY DEF Completed, Places, Policy, JobStatus
<1>3. new \in Data /\ Gated(new)
  BY <1>1, <1>2 DEF Data, Gated, PolicyPassed
<1>4. pc \in ExPCs \ (Filming \cup {"note"})
  BY TailPlaced DEF ExPCs, Awaits, InnerAwaits, Filming, Staged
<1>5. Commit(i, ex[i], pc, new, "ready")
  BY DEF Finish
<1> HIDE DEF new, pc
<1>6. QED
  BY <1>2, <1>3, <1>4, <1>5, ElsewherePlaced, PlainCommitKeepsInv DEF Finish

\* The automatic publications have ended.
LEMMA PublishedKeepsInv ==
  ASSUME Inv, NEW i \in Instances, Published(i) PROVE Inv'
<1>1. /\ ex[i].mem.data \in Data /\ Gated(ex[i].mem.data)
      /\ ex[i].mem.status \in JobStatus
  BY TaskFields DEF Inv, TaskGated
<1>2. Commit(i, ex[i], EmitOr("tail"), ex[i].mem.data, ex[i].mem.status)
  BY DEF Published
<1>3. QED
  BY <1>1, <1>2, TailPlaced, ElsewherePlaced, PlainCommitKeepsInv DEF Published

(***************************************************************************)
(* Exceptions and interruption.                                            *)
(***************************************************************************)
\* An exception is raised.
LEMMA RaiseKeepsInv ==
  ASSUME Inv, NEW i \in Instances, NEW kind \in Errors, Raise(i, kind) PROVE Inv'
<1> USE DEF Inv
<1>1. Raised(ex[i], kind) \in Task /\ TaskGated(Raised(ex[i], kind))
  BY TaskFields, RaisedGated DEF TaskGated
<1>2. used' \in [Bounds -> Nat]
  BY SpendType DEF Raise, Bounds
<1>3. QED
  BY <1>1, <1>2, StepKeepsInv DEF Raise, TypeOK, jobVars, money

\* The current stage has failed.
LEMMA FailStageKeepsInv ==
  ASSUME Inv, NEW i \in Instances, FailStage(i) PROVE Inv'
<1> USE DEF Inv
<1> DEFINE old == ex[i].mem.data
           new == SetStage(old, old.cur, "failed")
<1>1. old \in Data /\ Gated(old) /\ old.cur \in Places
  BY TaskFields DEF TaskGated
<1>2. /\ "failed" \in StageStatus /\ "failed" \in JobStatus
      /\ "failed" \in ExPCs \ (Filming \cup {"note"})
  BY DEF StageStatus, JobStatus, ExPCs, Filming, Staged
<1>3. new \in Data /\ Gated(new)
  BY <1>1, <1>2, SetStageType, SetStageGated DEF Gated
<1>4. Commit(i, ex[i], "failed", new, "failed")
  BY DEF FailStage
<1> HIDE DEF new
<1>5. QED
  BY <1>2, <1>3, <1>4, ElsewherePlaced, PlainCommitKeepsInv DEF FailStage

\* An automatic retry is counted; the count stays within its limit.
LEMMA ScheduleRetryKeepsInv ==
  ASSUME Inv, NEW i \in Instances, ScheduleRetry(i) PROVE Inv'
<1> USE DEF Inv
<1> DEFINE old == ex[i].mem.data
           new == [old EXCEPT !.retries[old.cur] = @ + 1, !.error = "transient"]
           e == [ex[i] EXCEPT !.fault = "none"]
<1>1. /\ ex[i] \in Task /\ old \in Data /\ Gated(old) /\ old.cur \in Places
      /\ old.retries \in [Places -> 0..MaxAutomatic]
  BY TaskFields DEF TaskGated, Data
<1>2. "queued" \in JobStatus /\ "transient" \in Errors /\ "none" \in Errors
  BY DEF JobStatus, Errors
<1>3. old.retries[old.cur] + 1 \in 0..MaxAutomatic
  BY <1>1 DEF ScheduleRetry, Retryable
<1>4. [old.retries EXCEPT ![old.cur] = @ + 1] \in [Places -> 0..MaxAutomatic]
  BY <1>1, <1>3
<1>5. new \in Data
  BY <1>1, <1>2, <1>4 DEF Data
<1>6. Gated(new)
  BY <1>1 DEF Gated, PolicyPassed, Data
<1>7. e \in Task
  BY <1>1, <1>2 DEF Task
<1>8. Commit(i, e, EmitOr("retryTail"), new, "queued")
  BY DEF ScheduleRetry
<1> HIDE DEF new, e
<1>9. QED
  BY <1>2, <1>5, <1>6, <1>7, <1>8, TailPlaced, ElsewherePlaced, CommitKeepsInv
  DEF ScheduleRetry, TypeOK

\* The delay of an automatic retry has passed.
LEMMA WakeKeepsInv ==
  ASSUME Inv, NEW i \in Instances, Wake(i) PROVE Inv'
<1> USE DEF Inv
<1>1. ex[i] \in Task /\ TaskGated(ex[i]) /\ "dispatch" \in ExPCs
  BY TaskFields DEF ExPCs
<1>2. Goto(ex[i], "dispatch") \in Task /\ TaskGated(Goto(ex[i], "dispatch"))
  BY <1>1, GotoGated DEF TaskGated, Placed, Staged, Filming
<1>3. QED
  BY <1>2, StepKeepsInv DEF Wake, TypeOK, jobVars, money, hostVars

\* The job has failed.
LEMMA FailJobKeepsInv ==
  ASSUME Inv, NEW i \in Instances, FailJob(i) PROVE Inv'
<1> USE DEF Inv
<1> DEFINE new == [ex[i].mem.data EXCEPT !.error = ex[i].fault]
<1>1. ex[i].mem.data \in Data /\ Gated(ex[i].mem.data) /\ ex[i].fault \in Errors
  BY TaskFields DEF TaskGated
<1>2. new \in Data /\ Gated(new)
  BY <1>1 DEF Data, Gated, PolicyPassed
<1>3. "refund" \in ExPCs \ (Filming \cup {"note"}) /\ "failed" \in JobStatus
  BY DEF ExPCs, Filming, Staged, JobStatus
<1>4. Commit(i, ex[i], "refund", new, "failed")
  BY DEF FailJob
<1> HIDE DEF new
<1>5. QED
  BY <1>2, <1>3, <1>4, ElsewherePlaced, PlainCommitKeepsInv DEF FailJob

\* A refund keeps the types of the wallet and the book.
LEMMA RefundType ==
  ASSUME TypeOK, Refund
  PROVE  wallet' \in Int /\ book' \in Book
<1>1. book' \in Book
  BY BookTypes DEF Refund, TypeOK
<1>2. QED
  BY <1>1, BookTypes DEF Refund, TypeOK

\* A failed job is refunded.
LEMMA RefundFailureKeepsInv ==
  ASSUME Inv, NEW i \in Instances, RefundFailure(i) PROVE Inv'
<1> USE DEF Inv
<1>1. ex[i] \in Task /\ TaskGated(ex[i])
  BY TaskFields
<1>2. /\ Goto(ex[i], EmitOr("failTail")) \in Task
      /\ TaskGated(Goto(ex[i], EmitOr("failTail")))
  BY <1>1, TailPlaced, ElsewherePlaced, GotoGated DEF TaskGated
<1>3. QED
  BY <1>2, RefundType, StepKeepsInv DEF RefundFailure, TypeOK, jobVars, hostVars

\* A cancelled task reads the row again, or ends.
LEMMA InterruptKeepsInv ==
  ASSUME Inv, NEW i \in Instances, Interrupt(i) PROVE Inv'
<1> USE DEF Inv
<1> DEFINE e == [ex[i] EXCEPT !.pc = "interrupt", !.mem = row]
<1>1. ex[i] \in Task /\ row \in Job
  BY TaskFields DEF TypeOK
<1>2. e \in Task /\ e.pc = "interrupt" /\ e.mem = row
  BY <1>1 DEF Task, ExPCs
<1>3. TaskGated(e)
  BY <1>2 DEF TaskGated, Placed, Staged, Filming
<1>4. Step(i, e) \/ Step(i, NoTask)
  BY DEF Interrupt
<1> HIDE DEF e
<1>5. QED
  BY <1>2, <1>3, <1>4, NoTaskType, NewDataGated, StepKeepsInv
  DEF Interrupt, TypeOK, jobVars, money, hostVars

\* The job is marked as interrupted.
LEMMA SaveInterruptKeepsInv ==
  ASSUME Inv, NEW i \in Instances, SaveInterrupt(i) PROVE Inv'
<1> USE DEF Inv
<1>1. CASE ex[i].mem.status = "cancelled"
  <2>1. Step(i, NoTask) /\ row' = row
    BY <1>1 DEF SaveInterrupt
  <2>2. QED
    BY <2>1, NoTaskType, NewDataGated, StepKeepsInv
    DEF SaveInterrupt, TypeOK, money, hostVars
<1>2. CASE ex[i].mem.status /= "cancelled"
  <2> DEFINE new == [ex[i].mem.data EXCEPT !.interrupted = TRUE]
  <2>1. ex[i].mem.data \in Data /\ Gated(ex[i].mem.data)
    BY TaskFields DEF TaskGated
  <2>2. new \in Data /\ Gated(new)
    BY <2>1 DEF Data, Gated, PolicyPassed
  <2>3. "off" \in ExPCs /\ "running" \in JobStatus
    BY DEF ExPCs, JobStatus
  <2>4. Commit(i, ex[i], "off", new, "running")
    BY <1>2 DEF SaveInterrupt
  <2> HIDE DEF new
  <2>5. QED
    BY <2>2, <2>3, <2>4, PlainCommitKeepsInv DEF SaveInterrupt
<1>3. QED
  BY <1>1, <1>2

(***************************************************************************)
(* Requests and the cancel request.                                        *)
(***************************************************************************)
\* What a handler writes is data of a job, and its gate holds.
LEMMA PreparedGated ==
  ASSUME NEW op \in Operations, NEW s \in STAGES, NEW data \in Data, Gated(data)
  PROVE  Prepared(op, s, data) \in Data /\ Gated(Prepared(op, s, data))
<1>1. CASE op = "create"
  BY <1>1 DEF Prepared
<1>2. CASE op = "retry"
  <2>1. Prepared(op, s, data) = [data EXCEPT !.error = "none"]
    BY <1>2 DEF Prepared
  <2>2. QED
    BY <2>1 DEF Data, Errors, Gated, PolicyPassed
<1>3. CASE op = "start"
  <2> DEFINE new == [data EXCEPT !.approved = TRUE, !.cur = Scenes, !.error = "none"]
  <2>1. Prepared(op, s, data) = new
    BY <1>3 DEF Prepared
  <2>2. Scenes \in Places /\ "none" \in Errors /\ Scenes /= Policy
    BY DEF Places, Scenes, Errors, Policy
  <2>3. new \in Data
    BY <2>2 DEF Data
  <2>4. new.out = data.out /\ new.stage = data.stage /\ new.cur = Scenes
    BY DEF Data
  <2>5. QED
    BY <2>1, <2>2, <2>3, <2>4 DEF Gated, PolicyPassed
<1>4. CASE op = "retryStage"
  <2>1. Prepared(op, s, data) = Reset(data, s, (s + 1)..Scoring)
    BY <1>4 DEF Prepared
  <2>2. (s + 1)..Scoring \in SUBSET STAGES
    BY DEF STAGES, Scoring
  <2>3. s <= Policy \/ Policy \in (s + 1)..Scoring => Storyboard \in (s + 1)..Scoring
    BY DEF STAGES, Policy, Storyboard, Scoring
  <2>4. QED
    BY <2>1, <2>2, <2>3, ResetType, ResetGated
<1>5. CASE op = "regenerate"
  <2> DEFINE old == Reset(data, Editorial, Editorial..Scoring)
  <2>1. Prepared(op, s, data) = [old EXCEPT !.approved = FALSE]
    BY <1>5 DEF Prepared
  <2>2. /\ Editorial \in STAGES /\ Editorial..Scoring \in SUBSET STAGES
        /\ Storyboard \in Editorial..Scoring
    BY DEF STAGES, Editorial, Scoring, Storyboard
  <2>3. old \in Data /\ Gated(old)
    BY <2>2, ResetType, ResetGated
  <2> HIDE DEF old
  <2>4. QED
    BY <2>1, <2>3 DEF Data, Gated, PolicyPassed
<1>6. QED
  BY <1>1, <1>2, <1>3, <1>4, <1>5 DEF Operations

\* The fields of a handler and of the job it has read.
LEMMA HandlerFields ==
  ASSUME Inv, NEW i \in Instances
  PROVE  /\ req[i] \in Handler /\ req[i].op \in Operations /\ req[i].stage \in STAGES
         /\ req[i].mem \in Job /\ req[i].mem.data \in Data /\ Gated(req[i].mem.data)
  BY DEF Inv, TypeOK, Handler, Job

\* An idle handler is a handler.
LEMMA NoRequestType == NoRequest \in Handler
  BY NoJobType DEF NoRequest, Handler, Operations, Intake, STAGES

\* An idle cancel request is a cancel request.
LEMMA NoCancelType == NoCancel \in CancelHandler
  BY NoJobType DEF NoCancel, CancelHandler

\* A new task waits for its claim.
LEMMA ScheduledGated ==
  ASSUME NEW e \in Task, TaskGated(e)
  PROVE  Scheduled(e) \in Task /\ TaskGated(Scheduled(e))
<1>1. CASE e.pc = "off"
  <2>1. Scheduled(e) = [NoTask EXCEPT !.pc = "claim"] /\ "claim" \in ExPCs
    BY <1>1 DEF Scheduled, ExPCs, Awaits, OuterAwaits
  <2>2. Scheduled(e) \in Task /\ Scheduled(e).pc = "claim" /\ Scheduled(e).mem = NoTask.mem
    BY <2>1, NoTaskType DEF Task
  <2>3. QED
    BY <2>2, NewDataGated DEF TaskGated, Placed, Staged, Filming
<1>2. CASE e.pc /= "off"
  BY <1>2 DEF Scheduled
<1>3. QED
  BY <1>1, <1>2

\* A handler reads the row.
LEMMA BeginRequestKeepsInv ==
  ASSUME Inv, NEW i \in Instances, NEW op \in Operations, NEW s \in STAGES,
         BeginRequest(i, op, s)
  PROVE  Inv'
<1> USE DEF Inv
<1> DEFINE r == [pc |-> IF Charges(op) THEN "charge" ELSE "save",
                 op |-> op, stage |-> s, mem |-> row]
<1>1. r \in Handler /\ Gated(r.mem.data)
  BY DEF Handler, TypeOK
<1>2. req' = [req EXCEPT ![i] = r]
  BY DEF BeginRequest
<1> HIDE DEF r
<1>3. req' \in [Instances -> Handler] /\ \A j \in Instances : Gated(req'[j].mem.data)
  BY <1>1, <1>2 DEF TypeOK
<1>4. used' \in [Bounds -> Nat]
  BY SpendType DEF BeginRequest, Bounds
<1>5. UNCHANGED <<row, gen, boards, takes, wallet, book, ex, can, up, timer>>
  BY DEF BeginRequest, jobVars, money
<1>6. QED
  BY <1>3, <1>4, <1>5 DEF TypeOK

\* The row of a job is inserted.
LEMMA BeginCreateKeepsInv ==
  ASSUME Inv, NEW i \in Instances, NEW review \in BOOLEAN, BeginCreate(i, review)
  PROVE  Inv'
<1> USE DEF Inv
<1>1. row' = [status |-> "queued", data |-> NewData(review)]
  BY DEF BeginCreate
<1>2. row' \in Job /\ Gated(row'.data)
  BY <1>1, NewDataType, NewDataGated DEF Job, JobStatus
<1> DEFINE r == [pc |-> IF review THEN "save" ELSE "charge",
                 op |-> "create", stage |-> Intake, mem |-> row']
<1>3. r \in Handler /\ Gated(r.mem.data)
  BY <1>2 DEF Handler, Operations, Intake, STAGES
<1>4. req' = [req EXCEPT ![i] = r]
  BY DEF BeginCreate
<1> HIDE DEF r
<1>5. req' \in [Instances -> Handler] /\ \A j \in Instances : Gated(req'[j].mem.data)
  BY <1>3, <1>4 DEF TypeOK
<1>6. used' \in [Bounds -> Nat]
  BY SpendType DEF BeginCreate, Bounds
<1>7. UNCHANGED <<gen, boards, takes, wallet, book, ex, can, up, timer>>
  BY DEF BeginCreate, money
<1>8. QED
  BY <1>2, <1>5, <1>6, <1>7 DEF TypeOK

\* The reserve is charged.
LEMMA ChargeReserveKeepsInv ==
  ASSUME Inv, NEW i \in Instances, ChargeReserve(i) PROVE Inv'
<1> USE DEF Inv
<1>1. wallet' \in Int /\ book' \in Book
  <2>1. book \in Book /\ wallet \in Int /\ Reserve \in Nat
    BY DEF TypeOK
  <2>2. Charged(book, Reserve) \in Book
    BY <2>1, BookTypes
  <2>3. QED
    BY <2>1, <2>2 DEF ChargeReserve
<1> DEFINE r == [req[i] EXCEPT !.pc = "save"]
<1>2. r \in Handler /\ r.mem = req[i].mem
  BY HandlerFields DEF Handler
<1>3. req' = [req EXCEPT ![i] = r]
  BY DEF ChargeReserve
<1> HIDE DEF r
<1>4. req' \in [Instances -> Handler] /\ \A j \in Instances : Gated(req'[j].mem.data)
  BY <1>2, <1>3 DEF TypeOK
<1>5. UNCHANGED <<row, gen, boards, takes, ex, can, up, timer, used>>
  BY DEF ChargeReserve, jobVars, hostVars
<1>6. QED
  BY <1>1, <1>4, <1>5 DEF TypeOK

\* The reserve is refused.
LEMMA ChargeRefusedKeepsInv ==
  ASSUME Inv, NEW i \in Instances, ChargeRefused(i) PROVE Inv'
<1> USE DEF Inv
<1>1. row' \in {row, NoJob}
  BY DEF ChargeRefused
<1>2. row' \in Job /\ Gated(row'.data)
  BY <1>1, NoJobType, NewDataGated DEF TypeOK
<1>3. req' \in [Instances -> Handler] /\ \A j \in Instances : Gated(req'[j].mem.data)
  BY NoRequestType, NewDataGated DEF ChargeRefused, TypeOK
<1>4. UNCHANGED <<gen, boards, takes, wallet, book, ex, can, up, timer, used>>
  BY DEF ChargeRefused, money, hostVars
<1>5. QED
  BY <1>2, <1>3, <1>4 DEF TypeOK

\* Tasks on all instances after the one on i has been scheduled.
LEMMA ScheduledTasks ==
  ASSUME Inv, NEW i \in Instances, ex' = [ex EXCEPT ![i] = Scheduled(@)]
  PROVE  ex' \in [Instances -> Task] /\ \A j \in Instances : TaskGated(ex'[j])
<1>1. Scheduled(ex[i]) \in Task /\ TaskGated(Scheduled(ex[i]))
  BY ScheduledGated, TaskFields DEF Inv
<1>2. QED
  BY <1>1 DEF Inv, TypeOK

\* A handler writes what it has prepared and schedules the task.
LEMMA SaveRequestKeepsInv ==
  ASSUME Inv, NEW i \in Instances, SaveRequest(i) PROVE Inv'
<1> USE DEF Inv
<1> DEFINE r == req[i]
           data == Prepared(r.op, r.stage, r.mem.data)
<1>1. data \in Data /\ Gated(data) /\ r.mem \in Job
  BY HandlerFields, PreparedGated
<1>2. row' = Stored(r.mem, data, "queued")
  BY DEF SaveRequest
<1> HIDE DEF data
<1>3. row' \in Job
  BY <1>1, <1>2, StoredType DEF TypeOK, JobStatus
<1>4. Gated(row'.data)
  BY <1>1, <1>2 DEF Stored
<1>5. req' \in [Instances -> Handler] /\ \A j \in Instances : Gated(req'[j].mem.data)
  BY NoRequestType, NewDataGated DEF SaveRequest, TypeOK
<1>6. ex' \in [Instances -> Task] /\ \A j \in Instances : TaskGated(ex'[j])
  BY ScheduledTasks DEF SaveRequest
<1>7. UNCHANGED <<gen, boards, takes, wallet, book, can, up, timer, used>>
  BY DEF SaveRequest, money, hostVars
<1>8. QED
  BY <1>3, <1>4, <1>5, <1>6, <1>7 DEF TypeOK

\* The task of i is told to stop, where it is.
LEMMA StoppingTasks ==
  ASSUME Inv, NEW i \in Instances, ex' = [ex EXCEPT ![i].stop = (ex[i].pc /= "off")]
  PROVE  ex' \in [Instances -> Task] /\ \A j \in Instances : TaskGated(ex'[j])
<1> DEFINE e == [ex[i] EXCEPT !.stop = (ex[i].pc /= "off")]
<1>1. ex[i] \in Task /\ TaskGated(ex[i])
  BY TaskFields DEF Inv
<1>2. e \in Task /\ e.pc = ex[i].pc /\ e.at = ex[i].at /\ e.todo = ex[i].todo /\ e.mem = ex[i].mem
  BY <1>1 DEF Task
<1>3. TaskGated(e)
  BY <1>1, <1>2 DEF TaskGated
<1>4. ex' = [ex EXCEPT ![i] = e]
  OBVIOUS
<1> HIDE DEF e
<1>5. QED
  BY <1>2, <1>3, <1>4 DEF Inv, TypeOK

\* The cancel request reads the row and stops the task of its instance.
LEMMA BeginCancelKeepsInv ==
  ASSUME Inv, NEW i \in Instances, BeginCancel(i) PROVE Inv'
<1> USE DEF Inv
<1>1. can' \in CancelHandler /\ Gated(can'.mem.data)
  BY DEF BeginCancel, CancelHandler, TypeOK
<1>2. ex' \in [Instances -> Task] /\ \A j \in Instances : TaskGated(ex'[j])
  BY StoppingTasks DEF BeginCancel
<1>3. used' \in [Bounds -> Nat]
  BY SpendType DEF BeginCancel, Bounds
<1>4. UNCHANGED <<row, gen, boards, takes, wallet, book, req, up, timer>>
  BY DEF BeginCancel, jobVars, money
<1>5. QED
  BY <1>1, <1>2, <1>3, <1>4 DEF TypeOK

\* The cancel request writes the status.
LEMMA SaveCancelKeepsInv ==
  ASSUME Inv, SaveCancel PROVE Inv'
<1> USE DEF Inv
<1>1. can \in CancelHandler /\ can.mem \in Job /\ can.mem.data \in Data
  BY DEF TypeOK, CancelHandler, Job
<1>2. row' \in Job /\ Gated(row'.data)
  BY <1>1, StoredType DEF SaveCancel, TypeOK, JobStatus, Stored
<1>3. can' \in CancelHandler /\ can'.mem = NoJob
  BY <1>1, NoJobType DEF SaveCancel, CancelHandler
<1>4. UNCHANGED <<gen, boards, takes, wallet, book, ex, req, up, timer, used>>
  BY DEF SaveCancel, money, hostVars
<1>5. QED
  BY <1>2, <1>3, <1>4, NewDataGated DEF TypeOK

\* The cancel request refunds.
LEMMA RefundCancelledKeepsInv ==
  ASSUME Inv, RefundCancelled PROVE Inv'
<1> USE DEF Inv
<1>1. wallet' \in Int /\ book' \in Book
  BY RefundType DEF RefundCancelled
<1>2. can' \in CancelHandler /\ Gated(can'.mem.data)
  BY NoCancelType, NewDataGated DEF RefundCancelled
<1>3. UNCHANGED <<row, gen, boards, takes, ex, req, up, timer, used>>
  BY DEF RefundCancelled, jobVars, hostVars
<1>4. QED
  BY <1>1, <1>2, <1>3 DEF TypeOK

(***************************************************************************)
(* Instances.                                                              *)
(***************************************************************************)
\* Everything on an instance ends.
LEMMA StoppedKeepsInv ==
  ASSUME Inv, NEW i \in Instances, Stopped(i), UNCHANGED <<jobVars, money>>,
         used' \in [Bounds -> Nat]
  PROVE  Inv'
<1> USE DEF Inv
<1>1. ex' \in [Instances -> Task] /\ \A j \in Instances : TaskGated(ex'[j])
  BY NoTaskType, NewDataGated DEF Stopped, TypeOK
<1>2. req' \in [Instances -> Handler] /\ \A j \in Instances : Gated(req'[j].mem.data)
  BY NoRequestType, NewDataGated DEF Stopped, TypeOK
<1>3. can' \in CancelHandler /\ Gated(can'.mem.data)
  BY NoCancelType, NewDataGated DEF Stopped, TypeOK
<1>4. /\ timer' \in [Instances -> BOOLEAN]
      /\ up' \in [Instances -> {"up", "stopping", "down"}]
  BY DEF Stopped, TypeOK
<1>5. QED
  BY <1>1, <1>2, <1>3, <1>4 DEF TypeOK, jobVars, money

\* An instance dies.
LEMMA CrashKeepsInv ==
  ASSUME Inv, NEW i \in Instances, Crash(i) PROVE Inv'
<1>1. used' \in [Bounds -> Nat]
  BY SpendType DEF Inv, Crash, Bounds
<1>2. QED
  BY <1>1, StoppedKeepsInv DEF Crash

\* An instance has ended in order.
LEMMA ExitKeepsInv ==
  ASSUME Inv, NEW i \in Instances, Exit(i) PROVE Inv'
  BY StoppedKeepsInv DEF Inv, TypeOK, Exit

\* An instance cancels its tasks.
LEMMA ShutdownKeepsInv ==
  ASSUME Inv, NEW i \in Instances, Shutdown(i) PROVE Inv'
<1> USE DEF Inv
<1>1. ex' \in [Instances -> Task] /\ \A j \in Instances : TaskGated(ex'[j])
  BY StoppingTasks DEF Shutdown
<1>2. /\ timer' \in [Instances -> BOOLEAN]
      /\ up' \in [Instances -> {"up", "stopping", "down"}]
  BY DEF Shutdown, TypeOK
<1>3. used' \in [Bounds -> Nat]
  BY SpendType DEF Shutdown, Bounds
<1>4. UNCHANGED <<row, gen, boards, takes, wallet, book, req, can>>
  BY DEF Shutdown, jobVars, money
<1>5. QED
  BY <1>1, <1>2, <1>3, <1>4 DEF TypeOK

\* resume_pending repairs and finds the job.
LEMMA BootKeepsInv ==
  ASSUME Inv, NEW i \in Instances, Boot(i) PROVE Inv'
<1> USE DEF Inv
<1> DEFINE old == row.data
           new == [old EXCEPT !.retries[old.cur] = 0, !.error = "none", !.repaired = TRUE]
<1>1. old \in Data /\ Gated(old)
  BY DEF TypeOK, Job
<1>2. new \in Data /\ Gated(new)
  <2>1. [old.retries EXCEPT ![old.cur] = 0] \in [Places -> 0..MaxAutomatic]
    BY <1>1 DEF Data
  <2>2. new \in Data
    BY <1>1, <2>1 DEF Data, Errors
  <2>3. new.out = old.out /\ new.stage = old.stage /\ new.cur = old.cur
    BY <1>1 DEF Data
  <2>4. QED
    BY <1>1, <2>2, <2>3 DEF Gated, PolicyPassed
<1>3. row' = row \/ row' = [status |-> "queued", data |-> new]
  BY DEF Boot
<1> HIDE DEF new
<1>4. row' \in Job /\ Gated(row'.data)
  BY <1>2, <1>3 DEF TypeOK, Job, JobStatus
<1>5. /\ timer' \in [Instances -> BOOLEAN]
      /\ up' \in [Instances -> {"up", "stopping", "down"}]
  BY DEF Boot, TypeOK, Resumable
<1>6. UNCHANGED <<gen, boards, takes, wallet, book, ex, req, can, used>>
  BY DEF Boot, money
<1>7. QED
  BY <1>4, <1>5, <1>6 DEF TypeOK

\* resume_pending schedules the job.
LEMMA TimerFiresKeepsInv ==
  ASSUME Inv, NEW i \in Instances, TimerFires(i) PROVE Inv'
<1> USE DEF Inv
<1>1. ex' \in [Instances -> Task] /\ \A j \in Instances : TaskGated(ex'[j])
  BY ScheduledTasks DEF TimerFires
<1>2. timer' \in [Instances -> BOOLEAN]
  BY DEF TimerFires, TypeOK
<1>3. UNCHANGED <<row, gen, boards, takes, wallet, book, req, can, up, used>>
  BY DEF TimerFires, jobVars, money
<1>4. QED
  BY <1>1, <1>2, <1>3 DEF TypeOK

\* Other work is paid.
LEMMA SpendElsewhereKeepsInv ==
  ASSUME Inv, SpendElsewhere PROVE Inv'
<1> USE DEF Inv
<1>1. wallet' \in Int
  BY DEF SpendElsewhere, TypeOK
<1>2. used' \in [Bounds -> Nat]
  BY SpendType DEF SpendElsewhere, Bounds
<1>3. UNCHANGED <<row, gen, boards, takes, book, ex, req, can, up, timer>>
  BY DEF SpendElsewhere, jobVars
<1>4. QED
  BY <1>1, <1>2, <1>3 DEF TypeOK

(***************************************************************************)
(* The invariant is inductive.                                             *)
(***************************************************************************)
\* Nothing has happened yet.
LEMMA InitInv == Init => Inv
<1> SUFFICES ASSUME Init PROVE Inv
  OBVIOUS
<1>1. TypeOK
  <2>1. NoCharges \in Book
    BY DEF NoCharges, Book
  <2>2. 0 \in Boards
    BY DEF Boards
  <2>3. QED
    BY <2>1, <2>2, NoJobType, NoTaskType, NoRequestType, NoCancelType DEF Init, TypeOK
<1>2. QED
  BY <1>1, NewDataGated DEF Init, Inv

\* Every step of an executor.
LEMMA ExecutorKeepsInv ==
  ASSUME Inv, NEW i \in Instances, Executor(i) \/ Trouble(i) PROVE Inv'
<1>1. CASE Claim(i) \/ Load(i) \/ Delivered(i) \/ Dispatch(i)
  BY <1>1, ClaimKeepsInv, LoadKeepsInv, DeliveredKeepsInv, DispatchKeepsInv
<1>2. CASE BeginStage(i) \/ Worked(i) \/ CompleteStage(i) \/ CompleteLast(i) \/ Blocked(i)
  BY <1>2, BeginStageKeepsInv, WorkedKeepsInv, CompleteStageKeepsInv,
     CompleteLastKeepsInv, BlockedKeepsInv
<1>3. CASE CompleteStoryboard(i) \/ Review(i) \/ NextScene(i) \/ TakePasses(i)
  BY <1>3, CompleteStoryboardKeepsInv, ReviewKeepsInv, NextSceneKeepsInv,
     TakePassesKeepsInv
<1>4. CASE AcceptScene(i) \/ Fetched(i) \/ ReadAuthorized(i) \/ Settle(i) \/ SaveCosts(i)
  BY <1>4, AcceptSceneKeepsInv, FetchedKeepsInv, ReadAuthorizedKeepsInv,
     SettleKeepsInv, SaveCostsKeepsInv
<1>5. CASE Finish(i) \/ Published(i) \/ FailStage(i) \/ ScheduleRetry(i) \/ Wake(i)
  BY <1>5, FinishKeepsInv, PublishedKeepsInv, FailStageKeepsInv,
     ScheduleRetryKeepsInv, WakeKeepsInv
<1>6. CASE FailJob(i) \/ RefundFailure(i) \/ Interrupt(i) \/ SaveInterrupt(i)
  BY <1>6, FailJobKeepsInv, RefundFailureKeepsInv, InterruptKeepsInv,
     SaveInterruptKeepsInv
<1>7. CASE ScriptRejected(i) \/ PolicyBlocks(i) \/ TakeRejected(i)
  BY <1>7, ScriptRejectedKeepsInv, PolicyBlocksKeepsInv, TakeRejectedKeepsInv
<1>8. CASE \E kind \in Errors \ {"none"} : Raise(i, kind)
  BY <1>8, RaiseKeepsInv
<1>9. QED
  BY <1>1, <1>2, <1>3, <1>4, <1>5, <1>6, <1>7, <1>8 DEF Executor, Trouble

\* Every step of a request.
LEMMA RequestKeepsInv ==
  ASSUME Inv, NEW i \in Instances, Request(i) \/ Serve(i) \/ BeginCancel(i)
  PROVE  Inv'
<1>1. CASE \E op \in Offered, s \in STAGES : BeginRequest(i, op, s)
  <2>1. PICK op \in Offered, s \in STAGES : BeginRequest(i, op, s)
    BY <1>1
  <2>2. op \in Operations
    BY DEF Operations
  <2>3. QED
    BY <2>1, <2>2, BeginRequestKeepsInv
<1>2. CASE \E review \in BOOLEAN : BeginCreate(i, review)
  BY <1>2, BeginCreateKeepsInv
<1>3. CASE Serve(i)
  BY <1>3, ChargeReserveKeepsInv, ChargeRefusedKeepsInv, SaveRequestKeepsInv DEF Serve
<1>4. CASE BeginCancel(i)
  BY <1>4, BeginCancelKeepsInv
<1>5. QED
  BY <1>1, <1>2, <1>3, <1>4 DEF Request

\* The invariant is inductive.
LEMMA NextKeepsInv == Inv /\ [Next]_vars => Inv'
<1> SUFFICES ASSUME Inv, [Next]_vars PROVE Inv'
  OBVIOUS
<1>1. CASE ServeCancel \/ SpendElsewhere
  BY <1>1, SaveCancelKeepsInv, RefundCancelledKeepsInv, SpendElsewhereKeepsInv DEF ServeCancel
<1>2. ASSUME NEW i \in Instances, Executor(i) \/ Trouble(i) PROVE Inv'
  BY <1>2, ExecutorKeepsInv
<1>3. ASSUME NEW i \in Instances, Request(i) \/ Serve(i) \/ BeginCancel(i) PROVE Inv'
  BY <1>3, RequestKeepsInv
<1>4. ASSUME NEW i \in Instances, Crash(i) \/ Shutdown(i) \/ Host(i) PROVE Inv'
  BY <1>4, CrashKeepsInv, ShutdownKeepsInv, ExitKeepsInv, BootKeepsInv,
     TimerFiresKeepsInv DEF Host
<1>5. CASE UNCHANGED vars
  BY <1>5 DEF vars, Inv, TypeOK, TaskGated, Gated, PolicyPassed
<1>6. QED
  BY <1>1, <1>2, <1>3, <1>4, <1>5 DEF Next

\* The invariant behind the theorems below holds in every state.
THEOREM InvHolds == Spec => []Inv
  BY InitInv, NextKeepsInv, PTL DEF Spec

\* Type correctness of the job, its ledger, its executors, its requests and
\* its instances.
THEOREM TypeCorrect == Spec => []TypeOK
<1>1. Inv => TypeOK
  BY DEF Inv
<1>2. QED
  BY <1>1, InvHolds, PTL

\* No take is bought before the policy gate of its script has passed, for any
\* number of instances, stage retries, regenerated scripts, interruptions and
\* crashes.
THEOREM PolicyGateHolds == Spec => []PolicyGate
<1>1. Inv => PolicyGate
  BY DEF Inv, TaskGated, Placed, Filming, Staged, PolicyGate, PolicyPassed,
     CompletedWithOutput
<1>2. QED
  BY <1>1, InvHolds, PTL

(***************************************************************************)
(* The invariant behind SingleExecutor. An executor holds the job from its *)
(* claim to its last write of the row. Who may come to hold it besides is  *)
(* found by its row alone: the claim refuses a job that runs.              *)
(***************************************************************************)
\* Before the claim, and after the last write of the row.
AtRest == {"off", "claim", "refund", "failTail"}

Holder(i) == ex[i].pc \notin AtRest

\* From an automatic retry to the stage that it begins, whose job is queued.
Retrying == {"retryTail", "sleep", "dispatch", "fetch", "settle", "settled", "costs",
             "stage", "failing", "interrupt"}

\* What the claim alone does not see to. Clients ask for one change at a time,
\* when no executor works on the job or still writes its end; no instance
\* repairs a job while a retry of it is in progress; and no instance claims a
\* job that its executor is about to retry.
Orderly ==
  /\ \A i \in Instances : Request(i) =>
       \A j \in Instances :
         /\ req[j].pc = "idle" /\ ex[j].pc \in AtRest
         /\ row.status = "none" => ex[j].pc /= "claim"
  /\ \A i \in Instances : Boot(i) /\ Repairs(row) => \A j \in Instances : req[j].pc = "idle"
  /\ \A i \in Instances : Claim(i) /\ row.status = "queued" /\ row.data.error = "transient" =>
       \A j \in Instances : ex[j].pc \notin Retrying

\* An executor at pc of stage at, whose copy is mem, holds this job.
Engaged(pc, at, mem, job) ==
  /\ job.data.error /= "repairable"
  /\ job.status = "running" => ~job.data.interrupted
  /\ job.status = "failed" => pc = "failed"
  /\ pc = "load" => job.status \in {"running", "cancelled"}
  /\ pc = "failed" => job.status \in {"failed", "cancelled"} /\ mem.status = "failed"
  /\ pc \notin {"load", "failed"} => mem.status /= "failed"
  /\ pc /= "load" => mem.data.error /= "repairable"
  /\ pc \notin {"load", "interrupt"} => ~mem.data.interrupted
  /\ job.status = "queued" =>
       /\ pc \in Retrying /\ (pc = "fetch" => at = Render)
       /\ job.data.error = "transient"
       /\ mem.status = "queued" /\ mem.data.error = "transient"

\* A handler works on a job that nobody holds or may claim meanwhile.
Undivided(j) ==
  /\ \A k \in Instances : ex[k].pc \in AtRest /\ (req[k].pc /= "idle" => k = j)
  /\ IF req[j].op = "create"
     THEN req[j].mem.data.error /= "repairable" /\ \A k \in Instances : ex[k].pc /= "claim"
     ELSE ~Claimable(row)

\* A cancel request in progress has read a job that could be cancelled.
Cancelling(c) ==
  c.pc = "save" => c.mem.status /= "cancelled" /\ c.mem.data.error /= "repairable"

HolderInv ==
  /\ \A i, j \in Instances : Holder(i) /\ Holder(j) => i = j
  /\ \A i \in Instances : Holder(i) => Engaged(ex[i].pc, ex[i].at, ex[i].mem, row)
  /\ \A j \in Instances : req[j].pc /= "idle" => Undivided(j)
  /\ row.status \in Cancellable => row.data.error /= "repairable"
  /\ Cancelling(can)

\* What a step of a task within the process does to the task.
LEMMA StepDoes ==
  ASSUME TypeOK, NEW i \in Instances, NEW e, Step(i, e)
  PROVE  ex'[i] = e
  BY DEF Step, TypeOK

\* A task goes on with what it has, or ends.
LEMMA GotoDoes ==
  ASSUME TypeOK, NEW i \in Instances, NEW pc, Step(i, Goto(ex[i], pc))
  PROVE  /\ ex'[i].pc = pc
         /\ pc = "off" => ex'[i] = NoTask
         /\ pc /= "off" =>
              /\ ex'[i].mem = ex[i].mem /\ ex'[i].at = ex[i].at /\ ex'[i].todo = ex[i].todo
              /\ ex'[i].board = ex[i].board /\ ex'[i].stop = ex[i].stop
              /\ ex'[i].authorized = ex[i].authorized
<1>1. ex'[i] = Goto(ex[i], pc) /\ ex[i] \in Task
  BY StepDoes DEF TypeOK
<1>2. CASE pc = "off"
  BY <1>1, <1>2 DEF Goto, NoTask
<1>3. CASE pc /= "off"
  BY <1>1, <1>3 DEF Goto, Task
<1>4. QED
  BY <1>2, <1>3

\* What a commit does to the row and to the task.
LEMMA CommitDoes ==
  ASSUME TypeOK, NEW i \in Instances, NEW e \in Task, NEW pc, NEW data, NEW status,
         Commit(i, e, pc, data, status)
  PROVE  /\ row'.data = data
         /\ row'.status = IF status /= ex[i].mem.status THEN status ELSE row.status
         /\ ex'[i].pc = pc
         /\ pc = "off" => ex'[i] = NoTask
         /\ pc /= "off" =>
              /\ ex'[i].mem = row' /\ ex'[i].at = e.at /\ ex'[i].todo = e.todo
              /\ ex'[i].board = e.board /\ ex'[i].stop = e.stop
              /\ ex'[i].authorized = e.authorized
<1>1. ex'[i] = Goto([e EXCEPT !.mem = row'], pc)
  BY StepDoes DEF Commit
<1>2. row'.data = data /\ row'.status = IF status /= ex[i].mem.status THEN status ELSE row.status
  BY DEF Commit, Stored
<1>3. CASE pc = "off"
  BY <1>1, <1>2, <1>3 DEF Goto, NoTask
<1>4. CASE pc /= "off"
  BY <1>1, <1>2, <1>4 DEF Goto, Task
<1>5. QED
  BY <1>3, <1>4

\* What the invariant says of an executor that holds the job: no other one does,
\* and no handler works.
LEMMA HolderFields ==
  ASSUME TypeOK, HolderInv, NEW i \in Instances, Holder(i)
  PROVE  /\ ex[i] \in Task /\ ex[i].mem \in Job /\ ex[i].mem.data \in Data
         /\ row \in Job /\ row.data \in Data /\ ex \in [Instances -> Task]
         /\ \A j \in Instances : j /= i => ~Holder(j)
         /\ \A j \in Instances : req[j].pc = "idle"
         /\ Engaged(ex[i].pc, ex[i].at, ex[i].mem, row)
<1>1. ex[i] \in Task /\ ex[i].mem \in Job /\ ex[i].mem.data \in Data
      /\ row \in Job /\ row.data \in Data
  BY TaskFields DEF TypeOK, Job
<1>2. \A j \in Instances : req[j].pc = "idle"
  BY DEF HolderInv, Undivided, Holder
<1>3. QED
  BY <1>1, <1>2 DEF HolderInv, TypeOK

\* A step of the executor that holds the job.
LEMMA ExecutorKeepsHolder ==
  ASSUME TypeOK, HolderInv, NEW i \in Instances, Holder(i), NEW e, Step(i, e),
         UNCHANGED <<req, can>>,
         Holder(i)' => Engaged(ex'[i].pc, ex'[i].at, ex'[i].mem, row'),
         row'.status \in Cancellable => row'.data.error /= "repairable"
  PROVE  HolderInv'
<1>1. \A j \in Instances : j /= i => ex'[j] = ex[j]
  BY DEF Step, TypeOK
<1>2. /\ \A j \in Instances : j /= i => ~Holder(j) /\ ~Holder(j)'
      /\ \A j \in Instances : req'[j].pc = "idle"
  BY <1>1, HolderFields DEF Holder
<1>3. Cancelling(can)'
  BY DEF HolderInv, Cancelling
<1>4. QED
  BY <1>2, <1>3 DEF HolderInv

\* A commit of the executor that holds the job, whatever it writes besides: the
\* error and the mark of an interruption come from its copy. It stays queued only
\* where its copy is queued, on its way from a retry to a stage.
LEMMA CommitKeepsHolder ==
  ASSUME TypeOK, HolderInv, NEW i \in Instances, Holder(i),
         ex[i].pc \notin {"load", "failed", "interrupt"},
         NEW e, NEW pc, NEW data, NEW status, Commit(i, e, pc, data, status),
         DOMAIN e = DOMAIN ex[i], UNCHANGED <<req, can>>,
         data.error = ex[i].mem.data.error, data.interrupted = ex[i].mem.data.interrupted,
         pc \notin {"load", "failed", "interrupt", "fetch"},
         \/ status \notin {"failed", "queued"}
         \/ status = ex[i].mem.status /\ (ex[i].pc \in Retrying => pc \in Retrying)
  PROVE  HolderInv'
<1>1. Engaged(ex[i].pc, ex[i].at, ex[i].mem, row) /\ ex[i] \in Task
  BY HolderFields
<1>2. /\ row'.data = data
      /\ row'.status = IF status /= ex[i].mem.status THEN status ELSE row.status
      /\ Step(i, Goto([e EXCEPT !.mem = row'], pc))
  BY DEF Commit, Stored
<1>3. ex'[i] = Goto([e EXCEPT !.mem = row'], pc)
  BY <1>2, StepDoes
<1>4. pc = "off" => ex'[i].pc = "off"
  BY <1>3 DEF Goto, NoTask
<1>5. pc /= "off" => ex'[i].pc = pc /\ ex'[i].mem = row'
  BY <1>1, <1>3 DEF Goto, Task
<1>6. row.status = "queued" => ex[i].mem.status = "queued" /\ ex[i].pc \in Retrying
  BY <1>1 DEF Engaged
<1>7. /\ row'.data.error /= "repairable" /\ ~row'.data.interrupted /\ row'.status /= "failed"
      /\ row'.status = "queued" => pc \in Retrying /\ row'.data.error = "transient"
  BY <1>1, <1>2, <1>6 DEF Engaged
<1>8. Holder(i)' => Engaged(ex'[i].pc, ex'[i].at, ex'[i].mem, row')
  BY <1>4, <1>5, <1>7 DEF Holder, AtRest, Engaged
<1>9. QED
  BY <1>2, <1>7, <1>8, ExecutorKeepsHolder

\* A step of the executor that holds the job from one await to another.
LEMMA MoveKeepsHolder ==
  ASSUME TypeOK, HolderInv, NEW i \in Instances, Holder(i),
         ex[i].pc \notin {"load", "failed", "interrupt"}, NEW e, Step(i, e),
         UNCHANGED <<row, req, can>>,
         ex'[i].pc \notin {"load", "failed"}, ex'[i].pc \in AtRest \/ ex'[i].mem = ex[i].mem,
         row.status = "queued" =>
           ex'[i].pc \in Retrying /\ (ex'[i].pc = "fetch" => ex'[i].at = Render)
  PROVE  HolderInv'
<1>1. Engaged(ex[i].pc, ex[i].at, ex[i].mem, row)
  BY HolderFields
<1>2. row.status \in Cancellable => row.data.error /= "repairable"
  BY DEF HolderInv
<1>3. Holder(i)' => Engaged(ex'[i].pc, ex'[i].at, ex'[i].mem, row')
  BY <1>1 DEF Engaged, Holder
<1>4. QED
  BY <1>2, <1>3, ExecutorKeepsHolder

\* Executors that end or go on as they are, handlers that end, and a cancel
\* request that has read the job.
LEMMA RestKeepsHolder ==
  ASSUME HolderInv, row' = row, Cancelling(can)',
         \A j \in Instances :
           \/ ex'[j].pc = ex[j].pc /\ ex'[j].at = ex[j].at /\ ex'[j].mem = ex[j].mem
           \/ ex'[j].pc \in AtRest /\ (ex'[j].pc = "claim" => ex[j].pc = "claim"),
         \A j \in Instances : req'[j] = req[j] \/ req'[j].pc = "idle"
  PROVE  HolderInv'
<1>1. \A j \in Instances : Holder(j)' =>
        Holder(j) /\ ex'[j].pc = ex[j].pc /\ ex'[j].at = ex[j].at /\ ex'[j].mem = ex[j].mem
  BY DEF Holder
<1>2. ASSUME NEW j \in Instances, req'[j].pc /= "idle" PROVE Undivided(j)'
  <2>1. req'[j] = req[j] /\ Undivided(j)
    BY <1>2 DEF HolderInv
  <2>2. \A k \in Instances : ex'[k].pc \in AtRest /\ (ex'[k].pc = "claim" => ex[k].pc = "claim")
    BY <2>1 DEF Undivided
  <2>3. \A k \in Instances : req'[k].pc /= "idle" => req[k].pc /= "idle"
    OBVIOUS
  <2>4. QED
    BY <2>1, <2>2, <2>3 DEF Undivided
<1>3. \A i, j \in Instances : Holder(i)' /\ Holder(j)' => i = j
  BY <1>1 DEF HolderInv
<1>4. \A j \in Instances : Holder(j)' => Engaged(ex'[j].pc, ex'[j].at, ex'[j].mem, row')
  BY <1>1 DEF HolderInv
<1>5. QED
  BY <1>2, <1>3, <1>4 DEF HolderInv

\* Stages and outputs leave the error and the mark of an interruption alone.
LEMMA StageSpares ==
  ASSUME NEW data \in Data, NEW s, NEW status, NEW t
  PROVE  /\ SetStage(data, s, status).error = data.error
         /\ SetStage(data, s, status).interrupted = data.interrupted
         /\ WithOutput(data, t).error = data.error
         /\ WithOutput(data, t).interrupted = data.interrupted
         /\ WithOutput(SetStage(data, s, status), t).error = data.error
         /\ WithOutput(SetStage(data, s, status), t).interrupted = data.interrupted
  BY DEF SetStage, WithOutput, Data

\* A job that may be claimed is held by nobody, and no handler works on it: this
\* is where a retry in progress must be left alone.
LEMMA ClaimFindsNobody ==
  ASSUME TypeOK, HolderInv, Orderly, NEW i \in Instances, Claim(i), Claimable(row)
  PROVE  \A j \in Instances : ~Holder(j) /\ req[j].pc = "idle"
<1>1. ex[i].pc = "claim"
  BY DEF Claim
<1>2. ASSUME NEW j \in Instances, Holder(j) PROVE FALSE
  <2>1. Engaged(ex[j].pc, ex[j].at, ex[j].mem, row)
    BY <1>2 DEF HolderInv
  <2>2. row.status = "queued"
    BY <2>1 DEF Engaged, Claimable
  <2>3. ex[j].pc \in Retrying /\ row.data.error = "transient"
    BY <2>1, <2>2 DEF Engaged
  <2>4. QED
    BY <2>2, <2>3 DEF Orderly
<1>3. ASSUME NEW j \in Instances, req[j].pc /= "idle" PROVE FALSE
  BY <1>1, <1>3 DEF HolderInv, Undivided
<1>4. QED
  BY <1>2, <1>3

\* The claim: who finds the job claimable comes to hold it alone.
LEMMA ClaimKeepsHolder ==
  ASSUME TypeOK, HolderInv, Orderly, NEW i \in Instances, Claim(i)
  PROVE  HolderInv'
<1>1. /\ ex[i] \in Task /\ ex[i].pc = "claim" /\ row \in Job /\ row.data \in Data
      /\ UNCHANGED <<req, can>>
  BY DEF Claim, TypeOK, Job
<1>2. ~Holder(i) /\ Cancelling(can)'
  BY <1>1 DEF Holder, AtRest, HolderInv, Cancelling
<1>3. CASE Claimable(row)
  <2>1. /\ row' = [status |-> "running", data |-> [row.data EXCEPT !.interrupted = FALSE]]
        /\ Step(i, Goto(ex[i], "load"))
    BY <1>3 DEF Claim
  <2>2. \A j \in Instances : ~Holder(j) /\ req[j].pc = "idle"
    BY <1>3, ClaimFindsNobody
  <2>3. /\ row'.status = "running" /\ ~row'.data.interrupted
        /\ row'.data.error = row.data.error
    BY <1>1, <2>1 DEF Data
  <2>4. row.data.error /= "repairable"
    BY <1>3 DEF HolderInv, Claimable, Cancellable
  <2>5. ex'[i].pc = "load" /\ \A j \in Instances : j /= i => ex'[j] = ex[j]
    BY <2>1, GotoDoes DEF Step, TypeOK
  <2>6. Engaged(ex'[i].pc, ex'[i].at, ex'[i].mem, row')
    BY <2>3, <2>4, <2>5 DEF Engaged
  <2>7. QED
    BY <1>1, <1>2, <2>2, <2>3, <2>4, <2>5, <2>6 DEF HolderInv, Holder
<1>4. CASE ~Claimable(row)
  <2>1. row' = row /\ ex' = [ex EXCEPT ![i] = NoTask]
    BY <1>4 DEF Claim, Step
  <2>2. NoTask.pc = "off"
    BY DEF NoTask
  <2>3. QED
    BY <1>1, <1>2, <2>1, <2>2, RestKeepsHolder DEF AtRest, TypeOK
<1>5. QED
  BY <1>3, <1>4

\* A task that ends, holding the job or not.
LEMMA EndKeepsHolder ==
  ASSUME TypeOK, HolderInv, NEW i \in Instances, NEW e, Step(i, e), e.pc \in AtRest \ {"claim"},
         UNCHANGED <<row, req, can>>
  PROVE  HolderInv'
<1>1. ex'[i] = e /\ \A j \in Instances : j /= i => ex'[j] = ex[j]
  BY DEF Step, TypeOK
<1>2. Cancelling(can)'
  BY DEF HolderInv, Cancelling
<1>3. QED
  BY <1>1, <1>2, RestKeepsHolder

\* Reading the claimed job, events, delays and interruptions.
LEMMA RunKeepsHolder ==
  ASSUME TypeOK, HolderInv, NEW i \in Instances,
         Load(i) \/ Delivered(i) \/ Wake(i) \/ Interrupt(i) \/ SaveInterrupt(i)
  PROVE  HolderInv'
<1>1. ex[i] \in Task /\ UNCHANGED <<req, can>> /\ NoTask.pc = "off" /\ "off" \in AtRest \ {"claim"}
  BY DEF Load, Delivered, Wake, Interrupt, SaveInterrupt, jobVars, TypeOK, NoTask, AtRest
<1>2. row.status \in Cancellable => row.data.error /= "repairable"
  BY DEF HolderInv
<1>3. CASE Load(i)
  <2>1. row' = row /\ ex[i].pc = "load" /\ Holder(i)
    BY <1>3 DEF Load, jobVars, Holder, AtRest
  <2>2. CASE row.status \in {"ready", "cancelled", "blocked", "failed"}
    BY <1>1, <1>3, <2>1, <2>2, EndKeepsHolder DEF Load
  <2>3. CASE row.status \notin {"ready", "cancelled", "blocked", "failed"}
    <3> DEFINE e == [ex[i] EXCEPT !.pc = EmitOr("started"), !.mem = row]
    <3>1. Step(i, e)
      BY <1>3, <2>3 DEF Load
    <3>2. ex'[i] = e
      BY <3>1, StepDoes
    <3>3. ex'[i].pc \in {"started", "dispatch"} /\ ex'[i].mem = row
      BY <1>1, <3>2 DEF Task, EmitOr, Emitted
    <3>4. Engaged("load", ex[i].at, ex[i].mem, row)
      BY <2>1, HolderFields
    <3>5. Engaged(ex'[i].pc, ex'[i].at, ex'[i].mem, row')
      BY <2>1, <2>3, <3>3, <3>4 DEF Engaged
    <3> HIDE DEF e
    <3>6. QED
      BY <1>1, <1>2, <2>1, <3>1, <3>5, ExecutorKeepsHolder
  <2>4. QED
    BY <2>2, <2>3
<1>4. CASE Delivered(i)
  <2>1. /\ row' = row /\ ex[i].pc \in DOMAIN Emitted /\ Step(i, Goto(ex[i], Emitted[ex[i].pc]))
    BY <1>4 DEF Delivered, jobVars
  <2>2. CASE ex[i].pc \in {"failTail", "tail"}
    <3>1. Emitted[ex[i].pc] = "off"
      BY <2>2 DEF Emitted
    <3>2. Step(i, NoTask)
      BY <2>1, <3>1 DEF Goto
    <3>3. QED
      BY <1>1, <2>1, <3>2, EndKeepsHolder
  <2>3. CASE ex[i].pc \in {"started", "note", "retryTail"}
    <3> DEFINE pc == Emitted[ex[i].pc]
    <3>0. pc \in {"dispatch", "done", "sleep"} /\ (ex[i].pc = "retryTail" => pc = "sleep")
      BY <2>3 DEF Emitted
    <3> HIDE DEF pc
    <3>1. /\ ex'[i].pc \in {"dispatch", "done", "sleep"} /\ ex'[i].mem = ex[i].mem
          /\ ex[i].pc = "retryTail" => ex'[i].pc = "sleep"
      <4>1. Step(i, Goto(ex[i], pc)) /\ pc /= "off"
        BY <2>1, <3>0 DEF pc
      <4>2. QED
        BY <3>0, <4>1, GotoDoes
    <3>2. Holder(i)
      BY <2>3 DEF Holder, AtRest
    <3>3. row.status = "queued" => ex[i].pc = "retryTail"
      BY <2>3, <3>2, HolderFields DEF Engaged, Retrying
    <3>4. QED
      BY <1>1, <2>1, <2>3, <3>1, <3>2, <3>3, MoveKeepsHolder DEF Retrying
  <2>4. QED
    BY <2>1, <2>2, <2>3 DEF Emitted
<1>5. CASE Wake(i)
  <2>1. row' = row /\ ex[i].pc = "sleep" /\ Holder(i) /\ Step(i, Goto(ex[i], "dispatch"))
    BY <1>5 DEF Wake, jobVars, Holder, AtRest
  <2>2. ex'[i].pc = "dispatch" /\ ex'[i].mem = ex[i].mem
    BY <2>1, GotoDoes
  <2>3. QED
    BY <1>1, <2>1, <2>2, MoveKeepsHolder DEF Retrying
<1>6. CASE Interrupt(i)
  <2>1. /\ row' = row /\ ex[i].pc \in Awaits
        /\ Step(i, IF ex[i].pc \in OuterAwaits THEN NoTask
                   ELSE [ex[i] EXCEPT !.pc = "interrupt", !.mem = row])
    BY <1>6 DEF Interrupt, jobVars
  <2>2. CASE ex[i].pc \in OuterAwaits
    BY <1>1, <2>1, <2>2, EndKeepsHolder
  <2>3. CASE ex[i].pc \notin OuterAwaits
    <3> DEFINE e == [ex[i] EXCEPT !.pc = "interrupt", !.mem = row]
    <3>1. Step(i, e) /\ ex[i].pc \in InnerAwaits
      BY <2>1, <2>3 DEF Awaits
    <3>2. ex'[i] = e
      BY <3>1, StepDoes
    <3>3. ex'[i].pc = "interrupt" /\ ex'[i].mem = row
      BY <1>1, <3>2 DEF Task
    <3>4. Holder(i)
      BY <3>1 DEF Holder, AtRest, InnerAwaits
    <3>5. Engaged(ex[i].pc, ex[i].at, ex[i].mem, row)
      BY <3>4, HolderFields
    <3>6. Engaged(ex'[i].pc, ex'[i].at, ex'[i].mem, row')
      BY <2>1, <3>1, <3>3, <3>5 DEF Engaged, InnerAwaits, Retrying
    <3> HIDE DEF e
    <3>7. QED
      BY <1>1, <1>2, <2>1, <3>1, <3>4, <3>6, ExecutorKeepsHolder
  <2>4. QED
    BY <2>2, <2>3
<1>7. CASE SaveInterrupt(i)
  <2>1. ex[i].pc = "interrupt" /\ Holder(i)
    BY <1>7 DEF SaveInterrupt, Holder, AtRest
  <2>2. CASE ex[i].mem.status = "cancelled"
    BY <1>1, <1>7, <2>2, EndKeepsHolder DEF SaveInterrupt
  <2>3. CASE ex[i].mem.status /= "cancelled"
    <3> DEFINE new == [ex[i].mem.data EXCEPT !.interrupted = TRUE]
    <3>1. Commit(i, ex[i], "off", new, "running")
      BY <1>7, <2>3 DEF SaveInterrupt
    <3>2. Step(i, NoTask) /\ row'.data = new
      BY <3>1 DEF Commit, Stored, Goto
    <3>3. new.error /= "repairable"
      BY <2>1, HolderFields DEF Engaged, Data
    <3>4. ex'[i] = NoTask
      BY <3>2, StepDoes
    <3> HIDE DEF new
    <3>5. QED
      BY <1>1, <2>1, <3>2, <3>3, <3>4, ExecutorKeepsHolder DEF Holder
  <2>4. QED
    BY <2>2, <2>3
<1>8. QED
  BY <1>3, <1>4, <1>5, <1>6, <1>7

\* Where an executor starts: at the render, at the scenes or at the top.
LEMMA DispatchKeepsHolder ==
  ASSUME TypeOK, HolderInv, NEW i \in Instances, Dispatch(i)
  PROVE  HolderInv'
<1> DEFINE data == ex[i].mem.data
<1>1. ex[i].pc = "dispatch" /\ UNCHANGED <<req, can>> /\ Holder(i)
  BY DEF Dispatch, Holder, AtRest
<1>2. ex[i] \in Task /\ data \in Data
  BY <1>1, HolderFields
<1>3. ASSUME Step(i, Raised(ex[i], "permanent")), row' = row PROVE HolderInv'
  <2>1. ex'[i] = Raised(ex[i], "permanent")
    BY <1>3, StepDoes
  <2>2. ex'[i].pc = "failing" /\ ex'[i].mem = ex[i].mem
    BY <1>2, <2>1 DEF Raised, Task
  <2>3. QED
    BY <1>1, <1>3, <2>2, MoveKeepsHolder DEF Retrying
<1>4. CASE ResumeRender(i, data)
  <2>1. CASE RenderCheckpoints(data)
    <3> DEFINE e == [ex[i] EXCEPT !.pc = "fetch", !.at = Render]
    <3>1. Step(i, e) /\ row' = row
      BY <1>4, <2>1 DEF ResumeRender
    <3>2. ex'[i] = e
      BY <3>1, StepDoes
    <3>3. ex'[i].pc = "fetch" /\ ex'[i].mem = ex[i].mem /\ ex'[i].at = Render
      BY <1>2, <3>2 DEF Task
    <3> HIDE DEF e
    <3>4. QED
      BY <1>1, <3>1, <3>3, MoveKeepsHolder DEF Retrying
  <2>2. QED
    BY <1>3, <1>4, <2>1 DEF ResumeRender
<1>5. CASE ResumeScenes(i, data)
  <2>1. CASE SceneCheckpoints(data)
    <3> DEFINE e == [ex[i] EXCEPT !.at = Scenes, !.board = data.board]
               new == WithOutput(SetStage(data, Storyboard, "completed"), Storyboard)
    <3>1. Commit(i, e, "stage", new, "running")
      BY <1>5, <2>1 DEF ResumeScenes
    <3>2. DOMAIN e = DOMAIN ex[i]
      OBVIOUS
    <3>3. new.error = data.error /\ new.interrupted = data.interrupted
      BY <1>2, StageSpares
    <3> HIDE DEF e, new
    <3>4. QED
      BY <1>1, <3>1, <3>2, <3>3, CommitKeepsHolder
  <2>2. QED
    BY <1>3, <1>5, <2>1 DEF ResumeScenes
<1>6. CASE FromTheTop(i, data)
  <2> DEFINE e == [ex[i] EXCEPT !.at = NextStage(data, Intake)]
  <2>1. Commit(i, e, "stage", data, ex[i].mem.status)
    BY <1>6 DEF FromTheTop
  <2>2. DOMAIN e = DOMAIN ex[i]
    OBVIOUS
  <2> HIDE DEF e
  <2>3. QED
    BY <1>1, <2>1, <2>2, CommitKeepsHolder DEF Retrying
<1>7. QED
  BY <1>4, <1>5, <1>6 DEF Dispatch

\* The commits of the stages.
LEMMA StagesKeepHolder ==
  ASSUME TypeOK, HolderInv, NEW i \in Instances,
         \/ BeginStage(i) \/ CompleteStage(i) \/ CompleteLast(i) \/ PolicyBlocks(i)
         \/ CompleteStoryboard(i)
  PROVE  HolderInv'
<1> DEFINE data == ex[i].mem.data
           at == ex[i].at
<1>1. ex[i].pc \in {"stage", "done"} /\ UNCHANGED <<req, can>> /\ Holder(i)
  BY DEF BeginStage, CompleteStage, CompleteLast, PolicyBlocks, CompleteStoryboard,
         Holder, AtRest
<1>2. ex[i] \in Task /\ data \in Data
  BY <1>1, HolderFields
<1>3. CASE BeginStage(i)
  <2> DEFINE todo == IF at = Scenes THEN 1..NumScenes ELSE {}
             pc == IF at = Scenes THEN "scene" ELSE IF at \in Waits THEN "work" ELSE "done"
             e == [ex[i] EXCEPT !.todo = todo, !.tries = 0]
             new == SetStage(data, at, "running")
  <2>1. Commit(i, e, pc, new, "running")
    BY <1>3 DEF BeginStage
  <2>2. DOMAIN e = DOMAIN ex[i] /\ pc \in {"scene", "work", "done"}
    OBVIOUS
  <2>3. new.error = data.error /\ new.interrupted = data.interrupted
    BY <1>2, StageSpares
  <2> HIDE DEF e, new, pc
  <2>4. QED
    BY <1>1, <2>1, <2>2, <2>3, CommitKeepsHolder
<1>4. CASE CompleteStage(i)
  <2> DEFINE new == WithOutput(SetStage(data, at, "completed"), at)
             e == [ex[i] EXCEPT !.at = NextStage(new, at + 1)]
  <2>1. Commit(i, e, "stage", new, "running")
    BY <1>4 DEF CompleteStage
  <2>2. DOMAIN e = DOMAIN ex[i]
    OBVIOUS
  <2>3. new.error = data.error /\ new.interrupted = data.interrupted
    BY <1>2, StageSpares
  <2> HIDE DEF e, new
  <2>4. QED
    BY <1>1, <2>1, <2>2, <2>3, CommitKeepsHolder
<1>5. CASE CompleteLast(i)
  <2> DEFINE new == WithOutput(SetStage(data, at, "completed"), at)
             pc == IF at = Voice THEN "settle" ELSE "finish"
  <2>1. Commit(i, ex[i], pc, new, "running") /\ pc \in {"settle", "finish"}
    BY <1>5 DEF CompleteLast
  <2>2. new.error = data.error /\ new.interrupted = data.interrupted
    BY <1>2, StageSpares
  <2> HIDE DEF new, pc
  <2>3. QED
    BY <1>1, <2>1, <2>2, CommitKeepsHolder
<1>6. CASE PolicyBlocks(i)
  <2> DEFINE new == WithOutput(SetStage(data, Policy, "blocked"), Policy)
  <2>1. Commit(i, ex[i], "blocked", new, "blocked")
    BY <1>6 DEF PolicyBlocks
  <2>2. new.error = data.error /\ new.interrupted = data.interrupted
    BY <1>2, StageSpares
  <2> HIDE DEF new
  <2>3. QED
    BY <1>1, <2>1, <2>2, CommitKeepsHolder
<1>7. CASE CompleteStoryboard(i)
  <2> DEFINE done == WithOutput(SetStage(data, Storyboard, "completed"), Storyboard)
             new == [done EXCEPT !.board = boards']
             pc == IF new.review /\ ~new.approved THEN "review" ELSE "stage"
             e == [ex[i] EXCEPT !.at = Scenes, !.board = boards']
  <2>1. Commit(i, e, pc, new, "running")
    BY <1>7 DEF CompleteStoryboard
  <2>2. DOMAIN e = DOMAIN ex[i] /\ pc \in {"review", "stage"}
    OBVIOUS
  <2>3. done.error = data.error /\ done.interrupted = data.interrupted
    BY <1>2, StageSpares
  <2> HIDE DEF done
  <2>4. new.error = data.error /\ new.interrupted = data.interrupted
    BY <2>3
  <2> HIDE DEF e, new, pc
  <2>5. QED
    BY <1>1, <2>1, <2>2, <2>4, CommitKeepsHolder
<1>8. QED
  BY <1>3, <1>4, <1>5, <1>6, <1>7

\* The commits at the end of a run, and those of data only.
LEMMA EndingsKeepHolder ==
  ASSUME TypeOK, HolderInv, NEW i \in Instances,
         \/ ScriptRejected(i) \/ Blocked(i) \/ Review(i) \/ SaveCosts(i) \/ Finish(i)
         \/ Published(i)
  PROVE  HolderInv'
<1> DEFINE data == ex[i].mem.data
<1>1. /\ ex[i].pc \in {"work", "blocked", "review", "costs", "finish", "publish"}
      /\ UNCHANGED <<req, can>> /\ Holder(i)
  BY DEF ScriptRejected, Blocked, Review, SaveCosts, Finish, Published, Holder, AtRest
<1>2. ex[i] \in Task /\ data \in Data
  BY <1>1, HolderFields
<1>3. EmitOr("tail") \in {"tail", "off"} /\ EmitOr("note") \in {"note", "done"}
  BY DEF EmitOr, Emitted
<1>4. CASE ScriptRejected(i)
  <2> DEFINE new == [data EXCEPT !.review = TRUE]
  <2>1. Commit(i, ex[i], EmitOr("note"), new, ex[i].mem.status) /\ ex[i].pc \notin Retrying
    BY <1>4 DEF ScriptRejected, Retrying
  <2>2. new.error = data.error /\ new.interrupted = data.interrupted
    BY <1>2 DEF Data
  <2> HIDE DEF new
  <2>3. QED
    BY <1>1, <1>3, <2>1, <2>2, CommitKeepsHolder
<1>5. CASE Blocked(i)
  <2>1. Commit(i, ex[i], EmitOr("tail"), data, "blocked")
    BY <1>5 DEF Blocked
  <2>2. QED
    BY <1>1, <1>3, <2>1, CommitKeepsHolder
<1>6. CASE Review(i)
  <2> DEFINE new == [data EXCEPT !.cur = ScriptReview]
  <2>1. Commit(i, ex[i], EmitOr("tail"), new, "awaiting_script_review")
    BY <1>6 DEF Review
  <2>2. new.error = data.error /\ new.interrupted = data.interrupted
    BY <1>2 DEF Data
  <2> HIDE DEF new
  <2>3. QED
    BY <1>1, <1>3, <2>1, <2>2, CommitKeepsHolder
<1>7. CASE SaveCosts(i)
  <2> DEFINE e == [ex[i] EXCEPT !.at = Render]
  <2>1. Commit(i, e, "stage", data, ex[i].mem.status)
    BY <1>7 DEF SaveCosts
  <2>2. DOMAIN e = DOMAIN ex[i]
    OBVIOUS
  <2> HIDE DEF e
  <2>3. QED
    BY <1>1, <2>1, <2>2, CommitKeepsHolder DEF Retrying
<1>8. CASE Finish(i)
  <2> DEFINE new == [data EXCEPT !.cur = Completed]
             pc == IF AutoPublish THEN "publish" ELSE EmitOr("tail")
  <2>1. Commit(i, ex[i], pc, new, "ready")
    BY <1>8 DEF Finish
  <2>2. new.error = data.error /\ new.interrupted = data.interrupted
    BY <1>2 DEF Data
  <2>3. pc \in {"publish", "tail", "off"}
    BY <1>3
  <2> HIDE DEF new, pc
  <2>4. QED
    BY <1>1, <2>1, <2>2, <2>3, CommitKeepsHolder
<1>9. CASE Published(i)
  <2>1. Commit(i, ex[i], EmitOr("tail"), data, ex[i].mem.status) /\ ex[i].pc \notin Retrying
    BY <1>9 DEF Published, Retrying
  <2>2. QED
    BY <1>1, <1>3, <2>1, CommitKeepsHolder
<1>10. QED
  BY <1>4, <1>5, <1>6, <1>7, <1>8, <1>9

\* Work, scenes, the settlement and exceptions leave the row alone.
LEMMA ScenesKeepHolder ==
  ASSUME TypeOK, HolderInv, NEW i \in Instances,
         \/ Worked(i) \/ NextScene(i) \/ TakePasses(i) \/ TakeRejected(i) \/ AcceptScene(i)
         \/ Fetched(i) \/ ReadAuthorized(i) \/ Settle(i) \/ \E kind \in Errors : Raise(i, kind)
  PROVE  HolderInv'
<1>1. /\ ex[i].pc \in {"work", "scene", "veo", "accept", "fetch", "settle", "settled",
                       "dispatch", "done"}
      /\ UNCHANGED <<row, req, can>>
  BY DEF Worked, NextScene, TakePasses, TakeRejected, AcceptScene, Fetched, ReadAuthorized,
         Settle, Raise, MayRaise, jobVars, hostVars
<1>2. Holder(i) /\ ex[i].pc \notin {"load", "failed", "interrupt"}
  BY <1>1 DEF Holder, AtRest
<1>3. ex[i] \in Task /\ Engaged(ex[i].pc, ex[i].at, ex[i].mem, row)
  BY <1>2, HolderFields
<1>4. row.status = "queued" =>
        /\ ex[i].pc \in {"fetch", "settle", "settled", "dispatch"}
        /\ ex[i].pc = "fetch" => ex[i].at = Render
  BY <1>1, <1>3 DEF Engaged, Retrying
<1>5. ASSUME NEW pc, Step(i, Goto(ex[i], pc)), pc \notin {"load", "failed", "off", "fetch"},
             row.status = "queued" => pc \in Retrying
      PROVE  HolderInv'
  <2>1. ex'[i].pc = pc /\ ex'[i].mem = ex[i].mem
    BY <1>5, GotoDoes
  <2>2. QED
    BY <1>1, <1>2, <1>5, <2>1, MoveKeepsHolder
<1>6. ASSUME NEW kind, Step(i, Raised(ex[i], kind)) PROVE HolderInv'
  <2>1. ex'[i] = Raised(ex[i], kind)
    BY <1>6, StepDoes
  <2>2. ex'[i].pc = "failing" /\ ex'[i].mem = ex[i].mem
    BY <1>3, <2>1 DEF Raised, Task
  <2>3. QED
    BY <1>1, <1>2, <1>6, <2>2, MoveKeepsHolder DEF Retrying
<1>7. ASSUME Step(i, SceneGenerated(ex[i])), row.status /= "queued" PROVE HolderInv'
  <2>1. ex'[i] = SceneGenerated(ex[i])
    BY <1>7, StepDoes
  <2>2. ex'[i].pc = "scene" /\ ex'[i].mem = ex[i].mem
    BY <1>3, <2>1 DEF SceneGenerated, Task
  <2>3. QED
    BY <1>1, <1>2, <1>7, <2>2, MoveKeepsHolder
<1>8. CASE Worked(i)
  BY <1>4, <1>5, <1>8 DEF Worked
<1>9. CASE NextScene(i)
  <2> DEFINE pc == IF ex[i].todo = {} THEN "done"
                   ELSE IF Scene(ex[i]) \in gen[ex[i].board] THEN "fetch" ELSE "veo"
  <2>1. Step(i, Goto(ex[i], pc)) /\ row.status /= "queued" /\ pc \in {"done", "fetch", "veo"}
    BY <1>4, <1>9 DEF NextScene
  <2> HIDE DEF pc
  <2>2. ex'[i].pc = pc /\ ex'[i].mem = ex[i].mem
    BY <2>1, GotoDoes
  <2>3. QED
    BY <1>1, <1>2, <2>1, <2>2, MoveKeepsHolder
<1>10. CASE TakePasses(i)
  BY <1>4, <1>5, <1>10 DEF TakePasses
<1>11. CASE TakeRejected(i)
  <2>1. CASE ex[i].tries < NativeRetries
    <3> DEFINE e == [ex[i] EXCEPT !.tries = @ + 1]
    <3>1. Step(i, e) /\ ex[i].pc = "veo"
      BY <1>11, <2>1 DEF TakeRejected
    <3>2. ex'[i] = e
      BY <3>1, StepDoes
    <3>3. ex'[i].pc = "veo" /\ ex'[i].mem = ex[i].mem
      BY <1>3, <3>1, <3>2 DEF Task
    <3> HIDE DEF e
    <3>4. QED
      BY <1>1, <1>2, <1>4, <3>1, <3>3, MoveKeepsHolder
  <2>2. CASE ~(ex[i].tries < NativeRetries)
    BY <1>6, <1>11, <2>2 DEF TakeRejected
  <2>3. QED
    BY <2>1, <2>2
<1>12. CASE AcceptScene(i)
  BY <1>4, <1>7, <1>12 DEF AcceptScene
<1>13. CASE Fetched(i)
  <2>1. CASE ex[i].at = Render
    BY <1>5, <1>13, <2>1 DEF Fetched, Retrying
  <2>2. CASE ex[i].at /= Render
    BY <1>4, <1>7, <1>13, <2>2 DEF Fetched
  <2>3. QED
    BY <2>1, <2>2
<1>14. CASE ReadAuthorized(i)
  <2> DEFINE e == [ex[i] EXCEPT !.pc = "settled", !.authorized = Outstanding(book)]
  <2>1. Step(i, e)
    BY <1>14 DEF ReadAuthorized
  <2>2. ex'[i] = e
    BY <2>1, StepDoes
  <2>3. ex'[i].pc = "settled" /\ ex'[i].mem = ex[i].mem
    BY <1>3, <2>2 DEF Task
  <2> HIDE DEF e
  <2>4. QED
    BY <1>1, <1>2, <2>1, <2>3, MoveKeepsHolder DEF Retrying
<1>15. CASE Settle(i)
  <2> DEFINE e == [ex[i] EXCEPT !.pc = "costs", !.authorized = 0]
  <2>1. Step(i, e)
    BY <1>15 DEF Settle
  <2>2. ex'[i] = e
    BY <2>1, StepDoes
  <2>3. ex'[i].pc = "costs" /\ ex'[i].mem = ex[i].mem
    BY <1>3, <2>2 DEF Task
  <2> HIDE DEF e
  <2>4. QED
    BY <1>1, <1>2, <2>1, <2>3, MoveKeepsHolder DEF Retrying
<1>16. CASE \E kind \in Errors : Raise(i, kind)
  BY <1>6, <1>16 DEF Raise
<1>17. QED
  BY <1>8, <1>9, <1>10, <1>11, <1>12, <1>13, <1>14, <1>15, <1>16

\* A failure: retried after a while by the executor that still holds the job, or
\* written for good and refunded.
LEMMA FailureKeepsHolder ==
  ASSUME TypeOK, HolderInv, NEW i \in Instances,
         FailStage(i) \/ ScheduleRetry(i) \/ FailJob(i) \/ RefundFailure(i)
  PROVE  HolderInv'
<1> DEFINE data == ex[i].mem.data
<1>1. UNCHANGED <<req, can>> /\ ex[i] \in Task
  BY DEF FailStage, ScheduleRetry, FailJob, RefundFailure, jobVars, TypeOK
<1>2. ASSUME ex[i].pc \in {"failing", "failed"}
      PROVE  Holder(i) /\ Engaged(ex[i].pc, ex[i].at, ex[i].mem, row) /\ data \in Data
  BY <1>2, HolderFields DEF Holder, AtRest
<1>3. CASE FailStage(i)
  <2> DEFINE new == SetStage(data, data.cur, "failed")
  <2>1. Commit(i, ex[i], "failed", new, "failed") /\ ex[i].pc = "failing"
    BY <1>3 DEF FailStage
  <2>2. Holder(i) /\ Engaged("failing", ex[i].at, ex[i].mem, row) /\ data \in Data
    BY <1>2, <2>1
  <2>3. new.error = data.error /\ new.interrupted = data.interrupted
    BY <2>2, StageSpares
  <2> HIDE DEF new
  <2>4. /\ row'.data = new /\ row'.status = "failed"
        /\ ex'[i].pc = "failed" /\ ex'[i].mem = row'
        /\ Step(i, Goto([ex[i] EXCEPT !.mem = row'], "failed"))
    <3>1. ex[i].mem.status /= "failed"
      BY <2>2 DEF Engaged
    <3>2. Step(i, Goto([ex[i] EXCEPT !.mem = row'], "failed"))
      BY <2>1 DEF Commit
    <3>3. QED
      BY <1>1, <2>1, <3>1, <3>2, CommitDoes
  <2>5. Engaged(ex'[i].pc, ex'[i].at, ex'[i].mem, row')
    BY <2>2, <2>3, <2>4 DEF Engaged
  <2>6. QED
    BY <1>1, <2>2, <2>4, <2>5, ExecutorKeepsHolder DEF Cancellable
<1>4. CASE ScheduleRetry(i)
  <2> DEFINE new == [data EXCEPT !.retries[data.cur] = @ + 1, !.error = "transient"]
             e == [ex[i] EXCEPT !.fault = "none"]
             pc == EmitOr("retryTail")
  <2>1. Commit(i, e, pc, new, "queued") /\ ex[i].pc = "failed"
    BY <1>4 DEF ScheduleRetry
  <2>2. e \in Task /\ pc \in {"retryTail", "sleep"}
    BY <1>1 DEF Task, Errors, EmitOr, Emitted
  <2>3. Holder(i) /\ Engaged("failed", ex[i].at, ex[i].mem, row) /\ data \in Data
    BY <1>2, <2>1
  <2>4. new.error = "transient" /\ new.interrupted = data.interrupted
    BY <2>3 DEF Data
  <2> HIDE DEF new, e, pc
  <2>5. /\ row'.data = new /\ row'.status = "queued"
        /\ ex'[i].pc = pc /\ ex'[i].mem = row' /\ Step(i, Goto([e EXCEPT !.mem = row'], pc))
    <3>1. ex[i].mem.status = "failed"
      BY <2>3 DEF Engaged
    <3>2. Step(i, Goto([e EXCEPT !.mem = row'], pc))
      BY <2>1 DEF Commit
    <3>3. QED
      BY <1>1, <2>1, <2>2, <3>1, <3>2, CommitDoes
  <2>6. Engaged(ex'[i].pc, ex'[i].at, ex'[i].mem, row')
    BY <2>2, <2>3, <2>4, <2>5 DEF Engaged, Retrying
  <2>7. QED
    BY <1>1, <2>3, <2>4, <2>5, <2>6, ExecutorKeepsHolder
<1>5. CASE FailJob(i)
  <2> DEFINE new == [data EXCEPT !.error = ex[i].fault]
  <2>1. Commit(i, ex[i], "refund", new, "failed") /\ ex[i].pc = "failed"
    BY <1>5 DEF FailJob
  <2> HIDE DEF new
  <2>2. Holder(i) /\ Engaged("failed", ex[i].at, ex[i].mem, row)
    BY <1>2, <2>1
  <2>3. /\ row'.status \in {"failed", "cancelled"} /\ ex'[i].pc = "refund"
        /\ Step(i, Goto([ex[i] EXCEPT !.mem = row'], "refund"))
    BY <1>1, <2>1, <2>2, CommitDoes DEF Engaged, Commit
  <2>4. QED
    BY <1>1, <2>2, <2>3, ExecutorKeepsHolder DEF Holder, AtRest, Cancellable
<1>6. CASE RefundFailure(i)
  <2> DEFINE e == Goto(ex[i], EmitOr("failTail"))
  <2>1. Step(i, e) /\ row' = row
    BY <1>6 DEF RefundFailure, jobVars
  <2>2. e.pc \in AtRest \ {"claim"}
    BY <1>1 DEF Goto, EmitOr, Emitted, NoTask, Task, AtRest
  <2> HIDE DEF e
  <2>3. QED
    BY <1>1, <2>1, <2>2, EndKeepsHolder
<1>7. QED
  BY <1>3, <1>4, <1>5, <1>6

\* A request that begins while every executor is at rest and no handler works.
LEMMA RequestKeepsHolder ==
  ASSUME TypeOK, HolderInv, Orderly, NEW i \in Instances, Request(i)
  PROVE  HolderInv'
<1>1. \A j \in Instances : req[j].pc = "idle" /\ ex[j].pc \in AtRest
  BY DEF Orderly
<1>2. \A j \in Instances : ~Holder(j)
  BY <1>1 DEF Holder
<1>3. CASE \E op \in Offered, s \in STAGES : BeginRequest(i, op, s)
  <2>1. PICK op \in Offered, s \in STAGES : BeginRequest(i, op, s)
    BY <1>3
  <2> DEFINE pc == IF Charges(op) THEN "charge" ELSE "save"
             r == [pc |-> pc, op |-> op, stage |-> s, mem |-> row]
  <2>2. req' = [req EXCEPT ![i] = r] /\ UNCHANGED <<row, ex, can>> /\ Permitted(op, s, row)
    BY <2>1 DEF BeginRequest, jobVars
  <2>3. op \in {"start", "retry", "retryStage", "regenerate"}
    BY DEF GenerationJobAssumption
  <2>4. ~Claimable(row)
    BY <2>2, <2>3 DEF Permitted, Claimable
  <2>5. req'[i].op = op /\ \A k \in Instances : k /= i => req'[k].pc = "idle"
    BY <1>1, <2>2 DEF TypeOK
  <2> HIDE DEF r
  <2>6. Undivided(i)'
    BY <1>1, <2>2, <2>3, <2>4, <2>5 DEF Undivided, Claimable
  <2>7. QED
    BY <1>2, <2>2, <2>5, <2>6 DEF HolderInv, Holder, Cancelling
<1>4. CASE \E review \in BOOLEAN : BeginCreate(i, review)
  <2>1. PICK review \in BOOLEAN : BeginCreate(i, review)
    BY <1>4
  <2> DEFINE r == [pc |-> IF review THEN "save" ELSE "charge", op |-> "create",
                   stage |-> Intake, mem |-> row']
  <2>2. /\ req' = [req EXCEPT ![i] = r] /\ UNCHANGED <<ex, can>> /\ row.status = "none"
        /\ row' = [status |-> "queued", data |-> NewData(review)]
    BY <2>1 DEF BeginCreate
  <2>3. row'.data.error = "none"
    BY <2>2 DEF NewData
  <2>4. /\ req'[i].op = "create" /\ req'[i].mem = row'
        /\ \A k \in Instances : k /= i => req'[k].pc = "idle"
    BY <1>1, <2>2 DEF TypeOK
  <2> HIDE DEF r
  <2>5. \A k \in Instances : ex[k].pc /= "claim"
    BY <2>2 DEF Orderly
  <2>6. Undivided(i)'
    BY <1>1, <2>2, <2>3, <2>4, <2>5 DEF Undivided
  <2>7. QED
    BY <1>2, <2>2, <2>3, <2>4, <2>6 DEF HolderInv, Holder, Cancelling
<1>5. QED
  BY <1>3, <1>4 DEF Request

\* What a handler writes has failed of nothing that a deployment repairs.
LEMMA PreparedSound ==
  ASSUME NEW op \in Operations, NEW s, NEW data \in Data,
         op = "create" => data.error /= "repairable"
  PROVE  Prepared(op, s, data).error /= "repairable"
<1>1. CASE op = "create"
  BY <1>1 DEF Prepared
<1>2. CASE op \in {"retry", "start"}
  BY <1>2 DEF Prepared, Data
<1>3. CASE op \in {"retryStage", "regenerate"}
  BY <1>3 DEF Prepared, Reset, Data
<1>4. QED
  BY <1>1, <1>2, <1>3 DEF Operations

\* A handler that goes on: it works on a job that nobody holds.
LEMMA ServeKeepsHolder ==
  ASSUME TypeOK, HolderInv, NEW i \in Instances, Serve(i)
  PROVE  HolderInv'
<1>1. Undivided(i) /\ req[i].pc \in {"charge", "save"} /\ can' = can
  BY DEF Serve, ChargeReserve, ChargeRefused, SaveRequest, HolderInv
<1>2. \A j \in Instances : ex[j].pc \in AtRest /\ (j /= i => req[j].pc = "idle")
  BY <1>1 DEF Undivided
<1>3. req[i] \in Handler /\ req[i].mem.data \in Data /\ NoRequest.pc = "idle"
  BY DEF TypeOK, Handler, Job, NoRequest
<1>4. CASE ChargeReserve(i)
  <2>1. row' = row /\ ex' = ex /\ req' = [req EXCEPT ![i].pc = "save"]
    BY <1>4 DEF ChargeReserve, jobVars
  <2>2. req'[i].op = req[i].op /\ req'[i].mem = req[i].mem
        /\ \A k \in Instances : k /= i => req'[k].pc = "idle"
    BY <1>2, <1>3, <2>1 DEF TypeOK, Handler
  <2>3. Undivided(i)'
    BY <1>1, <2>1, <2>2 DEF Undivided, Claimable
  <2>4. QED
    BY <1>1, <1>2, <2>1, <2>2, <2>3 DEF HolderInv, Holder, Cancelling
<1>5. CASE ChargeRefused(i)
  <2>1. /\ row' = IF req[i].op = "create" THEN NoJob ELSE row
        /\ ex' = ex /\ req' = [req EXCEPT ![i] = NoRequest]
    BY <1>5 DEF ChargeRefused
  <2>2. NoJob.data.error = "none"
    BY DEF NoJob, NewData
  <2>3. \A k \in Instances : req'[k].pc = "idle"
    BY <1>2, <1>3, <2>1 DEF TypeOK
  <2>4. QED
    BY <1>1, <1>2, <2>1, <2>2, <2>3 DEF HolderInv, Holder, Cancelling
<1>6. CASE SaveRequest(i)
  <2> DEFINE new == Prepared(req[i].op, req[i].stage, req[i].mem.data)
  <2>1. /\ row' = Stored(req[i].mem, new, "queued")
        /\ ex' = [ex EXCEPT ![i] = Scheduled(ex[i])] /\ req' = [req EXCEPT ![i] = NoRequest]
    BY <1>6 DEF SaveRequest
  <2>2. new.error /= "repairable"
    BY <1>1, <1>3, PreparedSound DEF Undivided, Handler
  <2>3. row'.data.error /= "repairable"
    BY <2>1, <2>2 DEF Stored
  <2> HIDE DEF new
  <2>4. \A k \in Instances : req'[k].pc = "idle"
    BY <1>2, <1>3, <2>1 DEF TypeOK
  <2>5. Scheduled(ex[i]).pc \in AtRest
    BY <1>2 DEF Scheduled, NoTask, AtRest
  <2>6. \A j \in Instances : ex'[j].pc \in AtRest
    BY <1>2, <2>1, <2>5 DEF TypeOK
  <2>7. QED
    BY <1>1, <2>3, <2>4, <2>6 DEF HolderInv, Holder, Cancelling
<1>7. QED
  BY <1>4, <1>5, <1>6 DEF Serve

\* A cancel request: it takes a queued job from its executor, but queues none.
LEMMA CancelKeepsHolder ==
  ASSUME TypeOK, HolderInv,
         ServeCancel \/ \E i \in Instances : BeginCancel(i)
  PROVE  HolderInv'
<1>1. CASE SaveCancel
  <2>1. /\ can.pc = "save" /\ UNCHANGED <<ex, req>> /\ can'.pc = "refund"
        /\ row' = Stored(can.mem, can.mem.data, "cancelled")
    BY <1>1 DEF SaveCancel, TypeOK, CancelHandler
  <2>2. row'.status = "cancelled" /\ row'.data.error /= "repairable"
    BY <2>1 DEF HolderInv, Cancelling, Stored
  <2>3. ASSUME NEW i \in Instances, Holder(i)
        PROVE  Engaged(ex[i].pc, ex[i].at, ex[i].mem, row')
    BY <2>2, <2>3, HolderFields DEF Engaged
  <2>4. ASSUME NEW i \in Instances, req[i].pc /= "idle"
        PROVE  Undivided(i)'
    BY <2>1, <2>2, <2>4 DEF HolderInv, Undivided, Claimable
  <2>5. QED
    BY <2>1, <2>2, <2>3, <2>4 DEF HolderInv, Holder, Cancelling
<1>2. CASE RefundCancelled
  <2>1. UNCHANGED <<row, ex, req>> /\ can'.pc = "idle"
    BY <1>2 DEF RefundCancelled, jobVars, NoCancel
  <2>2. QED
    BY <2>1, RestKeepsHolder DEF Cancelling
<1>3. CASE \E i \in Instances : BeginCancel(i)
  <2>1. PICK i \in Instances : BeginCancel(i)
    BY <1>3
  <2>2. /\ UNCHANGED <<row, req>> /\ row.status \in Cancellable
        /\ can' = [pc |-> "save", at |-> i, mem |-> row]
        /\ ex' = [ex EXCEPT ![i].stop = (ex[i].pc /= "off")]
    BY <2>1 DEF BeginCancel, jobVars
  <2>3. Cancelling(can)'
    BY <2>2 DEF HolderInv, Cancelling, Cancellable
  <2>4. \A j \in Instances :
          ex'[j].pc = ex[j].pc /\ ex'[j].at = ex[j].at /\ ex'[j].mem = ex[j].mem
    BY <2>2 DEF TypeOK, Task
  <2>5. QED
    BY <2>2, <2>3, <2>4, RestKeepsHolder
<1>4. QED
  BY <1>1, <1>2, <1>3 DEF ServeCancel

\* Instances that crash, stop, exit, start and resume what they find.
LEMMA HostKeepsHolder ==
  ASSUME TypeOK, HolderInv, Orderly, NEW i \in Instances, Crash(i) \/ Shutdown(i) \/ Host(i)
  PROVE  HolderInv'
<1>1. NoTask.pc = "off" /\ NoRequest.pc = "idle" /\ NoCancel.pc = "idle" /\ Cancelling(can)
  BY DEF NoTask, NoRequest, NoCancel, HolderInv
<1>2. CASE Crash(i) \/ Exit(i)
  <2>1. Stopped(i) /\ row' = row
    BY <1>2 DEF Crash, Exit, jobVars
  <2>2. Cancelling(can)'
    BY <1>1, <2>1 DEF Stopped, Cancelling
  <2>3. \A j \in Instances : ex'[j] = ex[j] \/ ex'[j].pc = "off"
    BY <1>1, <2>1 DEF Stopped, TypeOK
  <2>4. \A j \in Instances : req'[j] = req[j] \/ req'[j].pc = "idle"
    BY <1>1, <2>1 DEF Stopped, TypeOK
  <2>5. QED
    BY <2>1, <2>2, <2>3, <2>4, RestKeepsHolder DEF AtRest
<1>3. CASE Shutdown(i)
  <2>1. UNCHANGED <<row, req, can>> /\ ex' = [ex EXCEPT ![i].stop = (ex[i].pc /= "off")]
    BY <1>3 DEF Shutdown, jobVars
  <2>2. \A j \in Instances :
          ex'[j].pc = ex[j].pc /\ ex'[j].at = ex[j].at /\ ex'[j].mem = ex[j].mem
    BY <2>1 DEF TypeOK, Task
  <2>3. QED
    BY <1>1, <2>1, <2>2, RestKeepsHolder DEF Cancelling
<1>4. CASE Boot(i)
  <2>1. UNCHANGED <<ex, req, can>>
    BY <1>4 DEF Boot
  <2>2. CASE Repairs(row)
    <3>1. \A j \in Instances : ~Holder(j) /\ req[j].pc = "idle"
      BY <1>4, <2>2 DEF Orderly, HolderInv, Engaged, Repairs
    <3>2. row'.data.error = "none"
      BY <1>4, <2>2 DEF Boot, TypeOK, Job, Data
    <3>3. QED
      BY <1>1, <2>1, <3>1, <3>2 DEF HolderInv, Holder, Cancelling
  <2>3. CASE ~Repairs(row)
    <3>1. row' = row
      BY <1>4, <2>3 DEF Boot
    <3>2. QED
      BY <1>1, <2>1, <3>1, RestKeepsHolder DEF Cancelling
  <2>4. QED
    BY <2>2, <2>3
<1>5. CASE TimerFires(i)
  <2>1. /\ UNCHANGED <<row, req, can>> /\ ex' = [ex EXCEPT ![i] = Scheduled(ex[i])]
        /\ \A j \in Instances : req[j].pc /= "idle" => req[j].op /= "create"
    BY <1>5 DEF TimerFires, jobVars
  <2>2. \A j \in Instances : ex'[j] = ex[j] \/ ex'[j].pc = "claim"
    BY <2>1 DEF Scheduled, NoTask, TypeOK
  <2>3. \A j \in Instances : Holder(j)' => Holder(j) /\ ex'[j] = ex[j]
    BY <2>2 DEF Holder, AtRest
  <2>4. ASSUME NEW j \in Instances, req[j].pc /= "idle" PROVE Undivided(j)'
    BY <2>1, <2>2, <2>4 DEF HolderInv, Undivided, Claimable, AtRest
  <2>5. QED
    BY <1>1, <2>1, <2>3, <2>4 DEF HolderInv, Cancelling
<1>6. QED
  BY <1>2, <1>3, <1>4, <1>5 DEF Host

\* Every orderly step keeps the invariant.
LEMMA NextKeepsHolder ==
  ASSUME TypeOK, HolderInv, [Next]_vars, [Orderly]_vars
  PROVE  HolderInv'
<1>1. CASE UNCHANGED vars
  BY <1>1, RestKeepsHolder DEF vars, HolderInv, Cancelling
<1>2. CASE Orderly /\ Next
  <2>1. ASSUME NEW i \in Instances, Executor(i) \/ Trouble(i) PROVE HolderInv'
    BY <1>2, <2>1, ClaimKeepsHolder, RunKeepsHolder, DispatchKeepsHolder, StagesKeepHolder,
       EndingsKeepHolder, ScenesKeepHolder, FailureKeepsHolder
    DEF Executor, Trouble
  <2>2. CASE SpendElsewhere
    BY <2>2, RestKeepsHolder DEF SpendElsewhere, jobVars, HolderInv, Cancelling
  <2>3. QED
    BY <1>2, <2>1, <2>2, RequestKeepsHolder, ServeKeepsHolder, CancelKeepsHolder,
       HostKeepsHolder
    DEF Next
<1>3. QED
  BY <1>1, <1>2

\* At the start nobody holds the job and no handler works.
LEMMA InitHolder == Init => HolderInv
  BY DEF Init, HolderInv, Holder, AtRest, NoTask, NoRequest, NoCancel, NoJob, NewData,
         Cancellable, Cancelling

\* At most one instance works on the job, through crashes, stops, cancels,
\* failures and automatic retries, where its clients and instances are orderly:
\* without any one conjunct of that hypothesis there are two.
THEOREM SingleExecutorHolds == Spec /\ [][Orderly]_vars => []SingleExecutor
<1>1. HolderInv => SingleExecutor
  BY DEF HolderInv, SingleExecutor, Holder, Working, AtRest
<1>2. Inv => TypeOK
  BY DEF Inv
<1>3. Inv /\ HolderInv /\ [Next]_vars /\ [Orderly]_vars => HolderInv'
  BY <1>2, NextKeepsHolder
<1>4. QED
  BY <1>1, <1>3, InitHolder, InvHolds, PTL DEF Spec

\* The API runs on one instance at a time.
OneInstance == \A i, j \in Instances : i = j

(***************************************************************************)
(* Several instances: whoever writes the row or the scenes is alone.       *)
(***************************************************************************)
Writes(i) ==
  \/ Executor(i) \/ Trouble(i) \/ Request(i) \/ Serve(i)
  \/ BeginCancel(i) \/ Crash(i) \/ Shutdown(i) \/ Host(i)

\* A step of instance i finds the other instances at rest, or leaves the job alone.
Sole(i) ==
  \/ UNCHANGED <<row, gen>>
  \/ \A j \in Instances \ {i} : ex[j].pc \in AtRest /\ req[j].pc = "idle"

\* What the theorems below assume of a system with several instances.
Apart == OneInstance \/ Orderly

ApartInv == OneInstance \/ HolderInv

\* Any step that is apart.
LEMMA ApartSteps ==
  ASSUME TypeOK, ApartInv, [Apart]_vars, NEW i \in Instances, Writes(i)
  PROVE  Sole(i)
<1>1. CASE OneInstance
  BY <1>1 DEF OneInstance, Sole
<1>2. CASE UNCHANGED vars
  BY <1>2 DEF vars, Sole
<1>3. CASE HolderInv /\ Orderly
  <2>1. CASE Holder(i)
    BY <1>3, <2>1, HolderFields DEF Holder, Sole
  <2>2. CASE Request(i)
    BY <1>3, <2>2 DEF Orderly, Sole
  <2>3. CASE Serve(i)
    <3>1. Undivided(i)
      BY <1>3, <2>3 DEF Serve, ChargeReserve, ChargeRefused, SaveRequest, HolderInv
    <3>2. QED
      BY <3>1 DEF Undivided, Sole
  <2>4. CASE Claim(i)
    <3>1. CASE Claimable(row)
      BY <1>3, <2>4, <3>1, ClaimFindsNobody DEF Holder, Sole
    <3>2. CASE ~Claimable(row)
      BY <2>4, <3>2 DEF Claim, Sole
    <3>3. QED
      BY <3>1, <3>2
  <2>5. CASE Boot(i)
    <3>1. CASE Repairs(row)
      <4>1. \A j \in Instances : ~Holder(j) /\ req[j].pc = "idle"
        BY <1>3, <2>5, <3>1 DEF Orderly, HolderInv, Engaged, Repairs
      <4>2. QED
        BY <4>1 DEF Holder, Sole
    <3>2. CASE ~Repairs(row)
      BY <2>5, <3>2 DEF Boot, Sole
    <3>3. QED
      BY <3>1, <3>2
  <2>6. CASE BeginCancel(i) \/ Crash(i) \/ Shutdown(i) \/ Exit(i) \/ TimerFires(i)
    BY <2>6 DEF BeginCancel, Crash, Shutdown, Exit, TimerFires, jobVars, Sole
  <2>7. CASE (Executor(i) \/ Trouble(i)) /\ ~Holder(i) /\ ~Claim(i)
    <3>1. ex[i].pc \in AtRest
      BY <2>7 DEF Holder
    <3>2. Delivered(i) \/ RefundFailure(i) \/ Interrupt(i)
      BY <2>7, <3>1
      DEF Executor, Trouble, AtRest, Load, Dispatch, BeginStage, Worked, CompleteStage,
          CompleteLast, Blocked, CompleteStoryboard, Review, NextScene, TakePasses, AcceptScene,
          Fetched, ReadAuthorized, Settle, SaveCosts, Finish, Published, FailStage,
          ScheduleRetry, Wake, FailJob, SaveInterrupt, ScriptRejected, PolicyBlocks,
          TakeRejected, Raise, MayRaise
    <3>3. QED
      BY <3>2 DEF Delivered, RefundFailure, Interrupt, jobVars, Sole
  <2>8. QED
    BY <2>1, <2>2, <2>3, <2>4, <2>5, <2>6, <2>7 DEF Writes, Host
<1>4. QED
  BY <1>1, <1>2, <1>3 DEF ApartInv, Apart

\* Besides, no step of instance i reaches into what runs on another.
Spares(i) ==
  /\ Sole(i)
  /\ \A j \in Instances \ {i} : ex'[j] = ex[j] /\ req'[j] = req[j] /\ up'[j] = up[j]

\* Any step of an instance that is apart.
LEMMA StepsSpare ==
  ASSUME TypeOK, ApartInv, [Apart]_vars, NEW i \in Instances, Writes(i)
  PROVE  Spares(i)
<1>1. Sole(i)
  BY ApartSteps
<1>2. ASSUME NEW j \in Instances, j /= i
      PROVE  ex'[j] = ex[j] /\ req'[j] = req[j] /\ up'[j] = up[j]
  <2>1. ASSUME ex' = ex \/ (\E e : ex' = [ex EXCEPT ![i] = e]),
               req' = req \/ (\E r : req' = [req EXCEPT ![i] = r]),
               up' = up \/ (\E u : up' = [up EXCEPT ![i] = u])
        PROVE  ex'[j] = ex[j] /\ req'[j] = req[j] /\ up'[j] = up[j]
    BY <1>2, <2>1 DEF TypeOK
  <2>2. CASE Executor(i) \/ Trouble(i)
    <3>1. UNCHANGED <<req, up>> /\ (\E e : ex' = [ex EXCEPT ![i] = e])
      BY <2>2
      DEF Executor, Trouble, Claim, Load, Delivered, Dispatch, BeginStage, Worked, CompleteStage,
          CompleteLast, Blocked, CompleteStoryboard, Review, NextScene, TakePasses, AcceptScene,
          Fetched, ReadAuthorized, Settle, SaveCosts, Finish, Published, FailStage,
          ScheduleRetry, Wake, FailJob, RefundFailure, Interrupt, SaveInterrupt, ScriptRejected,
          PolicyBlocks, TakeRejected, Raise, ResumeRender, ResumeScenes, FromTheTop, Commit,
          Step, hostVars
    <3>2. QED
      BY <2>1, <3>1
  <2>3. CASE Request(i) \/ Serve(i)
    <3>1. /\ up' = up /\ (ex' = ex \/ (\E e : ex' = [ex EXCEPT ![i] = e]))
          /\ \E r : req' = [req EXCEPT ![i] = r]
      BY <2>3
      DEF Request, Serve, BeginRequest, BeginCreate, ChargeReserve, ChargeRefused, SaveRequest,
          hostVars
    <3>2. QED
      BY <2>1, <3>1
  <2>4. CASE BeginCancel(i) \/ Crash(i) \/ Shutdown(i) \/ Host(i)
    BY <1>2, <2>4 DEF BeginCancel, Crash, Shutdown, Host, Exit, Boot, TimerFires, Stopped, TypeOK
  <2>5. QED
    BY <2>2, <2>3, <2>4 DEF Writes
<1>3. QED
  BY <1>1, <1>2 DEF Spares

\* Steps that are apart find the job in one pair of hands.
LEMMA ApartKeeps == ASSUME TypeOK, ApartInv, [Next]_vars, [Apart]_vars PROVE ApartInv'
<1>1. CASE OneInstance
  BY <1>1 DEF ApartInv, OneInstance
<1>2. CASE HolderInv /\ ~OneInstance
  BY <1>2, NextKeepsHolder DEF ApartInv, Apart
<1>3. QED
  BY <1>1, <1>2 DEF ApartInv

\* The steps of a system with one instance are apart.
LEMMA OneIsApart == OneInstance => ApartInv /\ Apart
  BY DEF ApartInv, Apart

\* In a system whose steps are apart the job is in one pair of hands.
LEMMA ApartHolds == Spec /\ [][Apart]_vars => []ApartInv
<1>1. Init => ApartInv
  BY InitHolder DEF ApartInv
<1>2. Inv => TypeOK
  BY DEF Inv
<1>3. Inv /\ ApartInv /\ [Next]_vars /\ [Apart]_vars => ApartInv'
  BY <1>2, ApartKeeps
<1>4. QED
  BY <1>1, <1>3, InvHolds, PTL DEF Spec

(***************************************************************************)
(* The invariant behind ResumeHasCheckpoints. Stages are completed in      *)
(* order: who has a storyboard has completed what comes before it, and who *)
(* has begun the render has completed the storyboard, the scenes and the   *)
(* voice, in every copy of the data.                                       *)
(***************************************************************************)
\* The stages whose outputs a storyboard is written from are completed.
Written(data) == \A s \in 1..Policy : data.stage[s] = "completed"

\* What the render puts together is completed.
Filmed(data) == \A s \in {Storyboard, Scenes, Voice} : data.stage[s] = "completed"

RenderBegun(data) == data.stage[Render] \in {"running", "failed"}

Ordered(data) ==
  /\ \A s \in STAGES : data.stage[s] = "completed" => s \in data.out
  /\ \A s \in STAGES : data.stage[s] = "blocked" => s = Policy
  /\ Storyboard \in data.out => Written(data)
  /\ data.cur \in 1..Policy => Storyboard \notin data.out
  /\ RenderBegun(data) => Filmed(data) /\ data.cur >= Render
  /\ data.cur = Render => Filmed(data)

\* Data with which stage s may begin and end.
AtStage(s, data) ==
  /\ \A t \in 1..Policy : t < s => data.stage[t] = "completed"
  /\ s <= Policy => Storyboard \notin data.out
  /\ s <= Voice => ~RenderBegun(data)
  /\ s \in {Scenes, Voice} => data.stage[Storyboard] = "completed"
  /\ s = Voice => data.stage[Scenes] = "completed"
  /\ s = Render => Filmed(data)

\* An executor at pc of stage at, with this data.
Stood(pc, at, data) ==
  /\ pc \in Filming \cup {"note"} => AtStage(at, data)
  /\ pc \in {"settle", "settled", "costs"} => Filmed(data)
  /\ pc = "review" => ~RenderBegun(data)

\* A job that waits for its author has not begun its render.
Calm(job) == job.status = "awaiting_script_review" => ~RenderBegun(job.data)

\* Where an executor is while the job waits for its author, or comes after it.
Resting == {"off", "claim", "refund", "failTail", "tail", "interrupt"}

Sequenced(i) ==
  /\ Ordered(ex[i].mem.data) /\ Stood(ex[i].pc, ex[i].at, ex[i].mem.data)
  /\ Ordered(req[i].mem.data) /\ Calm(req[i].mem)
  /\ req[i].pc /= "idle" =>
       IF req[i].op = "create" THEN row.status /= "awaiting_script_review"
       ELSE Permitted(req[i].op, req[i].stage, req[i].mem)
  /\ row.status = "awaiting_script_review" =>
       /\ ex[i].pc \in Resting
       /\ ex[i].pc = "interrupt" => ex[i].mem.status = "awaiting_script_review"

SeqInv ==
  /\ Ordered(row.data) /\ Calm(row)
  /\ Ordered(can.mem.data)
  /\ can.pc = "save" => can.mem.status \in Cancellable
  /\ \A i \in Instances : Sequenced(i)

\* The numbers of the stages.
LEMMA StageNumbers ==
  /\ Intake = 1 /\ Research = 2 /\ Editorial = 3 /\ Script = 4 /\ Policy = 5
  /\ Storyboard = 6 /\ Scenes = 7 /\ Voice = 8 /\ Render = 9 /\ QA = 10 /\ Scoring = 11
  /\ STAGES = 1..11 /\ Places = 0..13 /\ ScriptReview = 12 /\ Completed = 13 /\ Queued = 0
  BY DEF Intake, Research, Editorial, Script, Policy, Storyboard, Scenes, Voice, Render, QA,
     Scoring, STAGES, Places, ScriptReview, Completed, Queued

\* The fields of data.
LEMMA DataFields ==
  ASSUME NEW data \in Data
  PROVE  /\ data.stage \in [STAGES -> StageStatus] /\ data.out \in SUBSET STAGES
         /\ data.cur \in Places
  BY DEF Data

\* A new job, an idle task and an idle request have begun nothing.
LEMMA NewDataOrdered ==
  /\ \A review \in BOOLEAN : Ordered(NewData(review))
  /\ Ordered(NoJob.data) /\ NoJob.status = "none"
  /\ Ordered(NoTask.mem.data) /\ NoTask.pc = "off"
  /\ NoRequest.mem = NoJob /\ NoRequest.pc = "idle"
  /\ NoCancel.mem = NoJob /\ NoCancel.pc = "idle"
<1>1. ASSUME NEW review \in BOOLEAN PROVE Ordered(NewData(review))
  BY StageNumbers DEF NewData, Ordered, RenderBegun
<1>2. QED
  BY <1>1 DEF NoJob, NoTask, NoRequest, NoCancel

\* Data with the same stages, outputs and place.
LEMMA SameOrdered ==
  ASSUME NEW old \in Data, NEW data \in Data, Ordered(old),
         data.stage = old.stage, data.out = old.out, data.cur = old.cur
  PROVE  /\ Ordered(data)
         /\ Filmed(old) => Filmed(data)
         /\ RenderBegun(data) <=> RenderBegun(old)
         /\ \A s \in STAGES : AtStage(s, old) => AtStage(s, data)
  BY DEF Ordered, Written, Filmed, RenderBegun, AtStage

\* What SetStage does to the fields.
LEMMA SetStageDoes ==
  ASSUME NEW data \in Data, NEW s \in Places, NEW status
  PROVE  /\ SetStage(data, s, status).out = data.out
         /\ SetStage(data, s, status).cur = s
         /\ \A t \in STAGES : SetStage(data, s, status).stage[t] =
              IF t = s THEN status ELSE data.stage[t]
  BY DEF SetStage, Data

\* A stage begins.
LEMMA BegunOrdered ==
  ASSUME NEW data \in Data, Ordered(data), NEW s \in STAGES, AtStage(s, data)
  PROVE  /\ Ordered(SetStage(data, s, "running"))
         /\ AtStage(s, SetStage(data, s, "running"))
<1> DEFINE new == SetStage(data, s, "running")
<1>1. s \in Places
  BY StageNumbers
<1>2. /\ new.out = data.out /\ new.cur = s
      /\ \A t \in STAGES : new.stage[t] = IF t = s THEN "running" ELSE data.stage[t]
  BY <1>1, SetStageDoes
<1> HIDE DEF new
<1>3. Storyboard \in new.out => Written(new)
  BY <1>2, StageNumbers DEF Ordered, AtStage, Written
<1>4. RenderBegun(new) => Filmed(new) /\ new.cur >= Render
  BY <1>2, StageNumbers DEF Ordered, AtStage, RenderBegun, Filmed
<1>5. new.cur = Render => Filmed(new)
  BY <1>2, StageNumbers DEF AtStage, Filmed
<1>6. Ordered(new)
  BY <1>2, <1>3, <1>4, <1>5, StageNumbers DEF Ordered, AtStage
<1>7. AtStage(s, new)
  BY <1>2, StageNumbers DEF AtStage, RenderBegun, Filmed
<1>8. QED
  BY <1>6, <1>7 DEF new

\* A stage completes, or the policy blocks, and leaves its output.
LEMMA EndedOrdered ==
  ASSUME NEW data \in Data, Ordered(data), NEW s \in STAGES, AtStage(s, data),
         NEW status, status = "completed" \/ (status = "blocked" /\ s = Policy)
  PROVE  LET new == WithOutput(SetStage(data, s, status), s)
         IN  /\ Ordered(new)
             /\ new.out = data.out \cup {s}
             /\ \A t \in STAGES : new.stage[t] = IF t = s THEN status ELSE data.stage[t]
<1> DEFINE mid == SetStage(data, s, status)
           new == WithOutput(mid, s)
<1>1. s \in Places
  BY StageNumbers
<1>2. /\ new.out = data.out \cup {s} /\ new.cur = s
      /\ \A t \in STAGES : new.stage[t] = IF t = s THEN status ELSE data.stage[t]
  BY <1>1 DEF WithOutput, SetStage, Data
<1> HIDE DEF new
<1>3. Storyboard \in new.out => Written(new)
  BY <1>2, StageNumbers DEF Ordered, AtStage, Written
<1>4. RenderBegun(new) => Filmed(new) /\ new.cur >= Render
  BY <1>2, StageNumbers DEF Ordered, AtStage, RenderBegun, Filmed
<1>5. new.cur = Render => Filmed(new)
  BY <1>2, StageNumbers DEF AtStage, Filmed
<1>6. Ordered(new)
  BY <1>2, <1>3, <1>4, <1>5, StageNumbers DEF Ordered, AtStage
<1>7. QED
  BY <1>2, <1>6 DEF new, mid

\* Behind the first stages the next one is the next number.
LEMMA NextStageIs ==
  ASSUME NEW data \in Data, NEW s \in STAGES
  PROVE  /\ s >= Storyboard => NextStage(data, s) = s
         /\ s <= Policy => NextStage(data, s) \in s..Storyboard
         /\ \A t \in 1..Policy : s <= t /\ t < NextStage(data, s) => data.stage[t] = "completed"
         /\ NextStage(data, s) \in 1..Policy =>
              \/ data.stage[NextStage(data, s)] /= "completed"
              \/ NextStage(data, s) \notin data.out
<1> DEFINE n == NextStage(data, s)
<1>1. /\ n \in s..Scoring
      /\ ~Skipped(data, n)
      /\ \A t \in s..(n - 1) : Skipped(data, t)
  BY NextStageType
<1> HIDE DEF n
<1>2. \A t \in s..(n - 1) : t < Storyboard /\ data.stage[t] = "completed"
  BY <1>1 DEF Skipped
<1>3. n \in 1..Policy => data.stage[n] /= "completed" \/ n \notin data.out
  BY <1>1, StageNumbers DEF Skipped
<1>4. s >= Storyboard => n = s
  BY <1>1, <1>2, StageNumbers
<1>5. s <= Policy => n \in s..Storyboard
  <2>1. CASE n > Storyboard /\ s <= Policy
    BY <2>1, <1>1, <1>2, StageNumbers
  <2>2. QED
    BY <2>1, <1>1, StageNumbers
<1>6. \A t \in 1..Policy : s <= t /\ t < n => data.stage[t] = "completed"
  BY <1>1, <1>2, StageNumbers
<1>7. QED
  BY <1>3, <1>4, <1>5, <1>6 DEF n

\* After a stage that has completed the next one may begin.
LEMMA NextAtStage ==
  ASSUME NEW data \in Data, Ordered(data), NEW s \in STAGES, AtStage(s, data), s /= Scoring,
         NEW new \in Data, new.out = data.out \cup {s},
         \A t \in STAGES : new.stage[t] = IF t = s THEN "completed" ELSE data.stage[t]
  PROVE  /\ s \notin {Storyboard, Voice} => AtStage(NextStage(new, s + 1), new)
         /\ s = Storyboard => AtStage(Scenes, new)
         /\ s = Voice => Filmed(new)
<1>1. s + 1 \in STAGES
  BY StageNumbers
<1> DEFINE n == NextStage(new, s + 1)
<1>2. /\ s + 1 >= Storyboard => n = s + 1
      /\ s + 1 <= Policy => n \in (s + 1)..Storyboard
      /\ \A t \in 1..Policy : s + 1 <= t /\ t < n => new.stage[t] = "completed"
  BY <1>1, NextStageIs
<1> HIDE DEF n
<1>3. s = Storyboard => AtStage(Scenes, new)
  BY StageNumbers DEF AtStage, RenderBegun
<1>4. s = Voice => Filmed(new)
  BY StageNumbers DEF AtStage, Filmed
<1>5. CASE s <= Policy
  <2>1. n \in (s + 1)..Storyboard
    BY <1>2, <1>5, StageNumbers
  <2>2. \A t \in 1..Policy : t < n => new.stage[t] = "completed"
    BY <1>2, StageNumbers DEF AtStage
  <2>3. QED
    BY <1>3, <1>4, <1>5, <2>1, <2>2, StageNumbers DEF AtStage, RenderBegun, n
<1>6. CASE s > Policy /\ s \notin {Storyboard, Voice}
  <2>1. n = s + 1 /\ n \in {Voice, QA, Scoring}
    BY <1>2, <1>6, StageNumbers
  <2>2. QED
    BY <1>6, <2>1, StageNumbers DEF AtStage, RenderBegun, n
<1>7. QED
  BY <1>3, <1>4, <1>5, <1>6, StageNumbers

\* From the top, the first stage that is not skipped may begin.
LEMMA TopAtStage ==
  ASSUME NEW data \in Data, Ordered(data), ~RenderBegun(data)
  PROVE  AtStage(NextStage(data, Intake), data)
<1> DEFINE n == NextStage(data, Intake)
<1>1. /\ n \in Intake..Storyboard
      /\ \A t \in 1..Policy : Intake <= t /\ t < n => data.stage[t] = "completed"
      /\ n \in 1..Policy => data.stage[n] /= "completed" \/ n \notin data.out
  BY NextStageIs, StageNumbers
<1> HIDE DEF n
<1>2. n \in 1..Policy => Storyboard \notin data.out
  BY <1>1, StageNumbers DEF Ordered, Written
<1>3. AtStage(n, data)
  BY <1>1, <1>2, StageNumbers DEF AtStage
<1>4. QED
  BY <1>3 DEF n

\* A failure of the stage at which the data stands.
LEMMA FailedOrdered ==
  ASSUME NEW data \in Data, Ordered(data)
  PROVE  Ordered(SetStage(data, data.cur, "failed"))
<1> DEFINE new == SetStage(data, data.cur, "failed")
<1>1. /\ new.out = data.out /\ new.cur = data.cur /\ data.cur \in Places
      /\ \A t \in STAGES : new.stage[t] = IF t = data.cur THEN "failed" ELSE data.stage[t]
  BY SetStageDoes, DataFields
<1> HIDE DEF new
<1>2. Storyboard \in new.out => Written(new)
  BY <1>1, StageNumbers DEF Ordered, Written
<1>3. RenderBegun(new) => Filmed(new) /\ new.cur >= Render
  BY <1>1, StageNumbers DEF Ordered, RenderBegun, Filmed
<1>4. new.cur = Render => Filmed(new)
  BY <1>1, StageNumbers DEF Ordered, Filmed
<1>5. Ordered(new)
  BY <1>1, <1>2, <1>3, <1>4, StageNumbers DEF Ordered
<1>6. QED
  BY <1>5 DEF new

\* What a handler writes is ordered: a stage retry of the render finds the
\* scenes filmed, and a start finds no render that has begun.
LEMMA PreparedOrdered ==
  ASSUME NEW op \in Operations, NEW s \in STAGES, NEW job \in Job,
         Ordered(job.data), Calm(job), op = "create" \/ Permitted(op, s, job)
  PROVE  Ordered(Prepared(op, s, job.data))
<1> DEFINE data == job.data
<1>1. data \in Data
  BY DEF Job
<1>2. CASE op = "create"
  BY <1>2 DEF Prepared
<1>3. CASE op = "retry"
  <2>1. Prepared(op, s, data) = [data EXCEPT !.error = "none"]
    BY <1>3 DEF Prepared
  <2>2. QED
    BY <1>1, <2>1 DEF Data, Ordered, Written, Filmed, RenderBegun
<1>4. CASE op = "start"
  <2> DEFINE new == [data EXCEPT !.approved = TRUE, !.cur = Scenes, !.error = "none"]
  <2>1. Prepared(op, s, data) = new
    BY <1>4 DEF Prepared
  <2>2. new.out = data.out /\ new.stage = data.stage /\ new.cur = Scenes
    BY <1>1 DEF Data
  <2>3. ~RenderBegun(data)
    BY <1>4 DEF Permitted, Calm
  <2> HIDE DEF new
  <2>4. Ordered(new)
    BY <2>2, <2>3, StageNumbers DEF Ordered, Written, Filmed, RenderBegun
  <2>5. QED
    BY <2>1, <2>4
<1>5. CASE op = "retryStage"
  <2> DEFINE new == Reset(data, s, (s + 1)..Scoring)
  <2>1. Prepared(op, s, data) = new
    BY <1>5 DEF Prepared
  <2>2. /\ new.out = data.out \ ((s + 1)..Scoring) /\ new.cur = s
        /\ \A t \in STAGES : new.stage[t] = IF t >= s THEN "pending" ELSE data.stage[t]
    BY <1>1 DEF Reset, Data
  <2>3. data.stage[s] \in {"failed", "blocked"}
    BY <1>5 DEF Permitted
  <2> HIDE DEF new
  <2>4. Storyboard \in new.out => Written(new)
    BY <2>2, StageNumbers DEF Ordered, Written
  <2>5. RenderBegun(new) => Filmed(new) /\ new.cur >= Render
    BY <2>2, StageNumbers DEF Ordered, RenderBegun, Filmed
  <2>6. new.cur = Render => Filmed(new)
    BY <2>2, <2>3, StageNumbers DEF Ordered, RenderBegun, Filmed
  <2>7. new.cur \in 1..Policy => Storyboard \notin new.out
    BY <2>2, StageNumbers
  <2>8. Ordered(new)
    BY <2>2, <2>4, <2>5, <2>6, <2>7, StageNumbers DEF Ordered
  <2>9. QED
    BY <2>1, <2>8
<1>6. CASE op = "regenerate"
  <2> DEFINE old == Reset(data, Editorial, Editorial..Scoring)
             new == [old EXCEPT !.approved = FALSE]
  <2>1. Prepared(op, s, data) = new
    BY <1>6 DEF Prepared
  <2>2. /\ new.out = data.out \ (Editorial..Scoring) /\ new.cur = Editorial
        /\ \A t \in STAGES : new.stage[t] = IF t >= Editorial THEN "pending" ELSE data.stage[t]
    BY <1>1 DEF Reset, Data
  <2> HIDE DEF new
  <2>3. Ordered(new)
    BY <2>2, StageNumbers DEF Ordered, RenderBegun
  <2>4. QED
    BY <2>1, <2>3
<1>7. QED
  BY <1>2, <1>3, <1>4, <1>5, <1>6 DEF Operations

\* What a step of instance i leaves of the others.
LEMMA OthersSequenced ==
  ASSUME SeqInv, NEW i \in Instances, Sole(i), Sequenced(i)',
         \A j \in Instances \ {i} : ex'[j] = ex[j] /\ req'[j] = req[j]
  PROVE  \A j \in Instances : Sequenced(j)'
<1>1. ASSUME NEW j \in Instances, j /= i PROVE Sequenced(j)'
  <2>1. Sequenced(j) /\ ex'[j] = ex[j] /\ req'[j] = req[j]
    BY <1>1 DEF SeqInv
  <2>2. CASE UNCHANGED <<row, gen>>
    BY <2>1, <2>2 DEF Sequenced
  <2>3. CASE ex[j].pc \in AtRest /\ req[j].pc = "idle"
    BY <2>1, <2>3 DEF Sequenced, AtRest, Resting
  <2>4. QED
    BY <1>1, <2>2, <2>3 DEF Sole
<1>2. QED
  BY <1>1

\* With a single instance, a commit of ordered data keeps the invariant.
LEMMA CommitKeepsSeq ==
  ASSUME Inv, SeqInv, NEW i \in Instances, Sole(i), NEW e \in Task, NEW pc \in ExPCs,
         NEW data \in Data, NEW status \in JobStatus, Commit(i, e, pc, data, status),
         Ordered(data), pc = "off" \/ Stood(pc, e.at, data), pc /= "interrupt",
         ex[i].pc \notin Resting \ {"interrupt"}, req[i].pc = "idle",
         status = "awaiting_script_review" =>
           \/ status = ex[i].mem.status /\ ex[i].pc /= "interrupt"
           \/ ~RenderBegun(data) /\ pc \in {"tail", "off"},
         UNCHANGED <<req, can>>
  PROVE  SeqInv'
<1>1. row'.data = data
  BY DEF Commit, Stored
<1>2. row'.status = IF status /= ex[i].mem.status THEN status ELSE row.status
  BY DEF Commit, Stored
<1>3. Sequenced(i)
  BY DEF SeqInv
<1>4. row'.status = "awaiting_script_review" => ~RenderBegun(data) /\ pc \in {"tail", "off"}
  BY <1>2, <1>3 DEF Sequenced
<1>5. \/ pc = "off" /\ ex'[i] = NoTask
      \/ pc /= "off" /\ ex'[i].pc = pc /\ ex'[i].at = e.at /\ ex'[i].mem = row'
  BY DEF Commit, Step, Goto, Inv, TypeOK, Task
<1>6. Ordered(ex'[i].mem.data) /\ Stood(ex'[i].pc, ex'[i].at, ex'[i].mem.data)
  BY <1>1, <1>5, NewDataOrdered DEF Stood, Filming, Staged
<1>7. row'.status = "awaiting_script_review" => ex'[i].pc \in {"tail", "off"}
  BY <1>4, <1>5, NewDataOrdered
<1>8. Sequenced(i)'
  BY <1>3, <1>6, <1>7 DEF Sequenced, Resting
<1>9. \A j \in Instances : Sequenced(j)'
  BY <1>8, OthersSequenced DEF Commit, Step, Inv, TypeOK
<1>10. Ordered(row'.data) /\ Calm(row')
  BY <1>1, <1>4 DEF Calm
<1>11. QED
  BY <1>9, <1>10 DEF SeqInv

\* A step of the executor that does not make the job wait for its author.
LEMMA StepKeepsSeq ==
  ASSUME Inv, SeqInv, NEW i \in Instances, Sole(i), NEW e \in Task, Step(i, e),
         Ordered(e.mem.data), Stood(e.pc, e.at, e.mem.data),
         row' = row \/ (row'.data \in Data /\ Ordered(row'.data) /\ row'.status /= "awaiting_script_review"),
         row'.status = "awaiting_script_review" =>
           e.pc \in Resting /\ (e.pc = "interrupt" => e.mem.status = "awaiting_script_review"),
         UNCHANGED <<req, can>>
  PROVE  SeqInv'
<1>1. ex'[i] = e
  BY DEF Step, Inv, TypeOK
<1>2. Sequenced(i)
  BY DEF SeqInv
<1>3. Sequenced(i)'
  BY <1>1, <1>2 DEF Sequenced
<1>4. \A j \in Instances : Sequenced(j)'
  BY <1>3, OthersSequenced DEF Step, Inv, TypeOK
<1>5. Ordered(row'.data) /\ Calm(row')
  BY DEF SeqInv, Calm
<1>6. QED
  BY <1>4, <1>5 DEF SeqInv

\* An executor moves with the copy it has.
LEMMA MoveKeepsSeq ==
  ASSUME Inv, SeqInv, NEW i \in Instances, Sole(i), NEW e \in Task, Step(i, e),
         e.mem = ex[i].mem, Stood(e.pc, e.at, ex[i].mem.data), ex[i].pc \notin Resting,
         UNCHANGED <<row, req, can>>
  PROVE  SeqInv'
<1>1. Sequenced(i)
  BY DEF SeqInv
<1>2. Ordered(e.mem.data) /\ row'.status /= "awaiting_script_review"
  BY <1>1 DEF Sequenced
<1>3. QED
  BY <1>2, StepKeepsSeq

\* What the invariant says of the executor that takes a step.
LEMMA SeqFields ==
  ASSUME Inv, SeqInv, NEW i \in Instances
  PROVE  /\ ex[i] \in Task /\ ex[i].mem \in Job /\ ex[i].mem.data \in Data
         /\ ex[i].mem.status \in JobStatus
         /\ Ordered(ex[i].mem.data) /\ Stood(ex[i].pc, ex[i].at, ex[i].mem.data)
         /\ Placed(ex[i].pc, ex[i].at, ex[i].todo, ex[i].mem.data)
         /\ Sequenced(i)
  BY TaskFields DEF Inv, SeqInv, Sequenced, TaskGated

(***************************************************************************)
(* The steps of run before and after the pipeline keep the stages in order.*)
(***************************************************************************)
\* The claim takes a queued or an interrupted job.
LEMMA ClaimKeepsSeq ==
  ASSUME Inv, SeqInv, NEW i \in Instances, Sole(i), Claim(i) PROVE SeqInv'
<1>1. /\ ex[i] \in Task /\ Ordered(ex[i].mem.data)
      /\ row.data \in Data /\ Ordered(row.data)
  BY SeqFields DEF SeqInv, Inv, TypeOK, Job
<1>2. CASE Claimable(row)
  <2> DEFINE e == [ex[i] EXCEPT !.pc = "load"]
             new == [row.data EXCEPT !.interrupted = FALSE]
  <2>1. row' = [status |-> "running", data |-> new] /\ Step(i, e)
    BY <1>2 DEF Claim, Goto
  <2>2. e \in Task /\ e.pc = "load" /\ e.mem = ex[i].mem
    BY <1>1 DEF Task, ExPCs
  <2>3. new \in Data /\ new.stage = row.data.stage /\ new.out = row.data.out /\ new.cur = row.data.cur
    BY <1>1 DEF Data
  <2> HIDE DEF e, new
  <2>4. Ordered(new)
    BY <1>1, <2>3, SameOrdered
  <2>5. Stood(e.pc, e.at, e.mem.data)
    BY <2>2 DEF Stood, Filming, Staged
  <2>6. QED
    BY <1>1, <2>1, <2>2, <2>3, <2>4, <2>5, StepKeepsSeq DEF Claim
<1>3. CASE ~Claimable(row)
  <2>1. Step(i, NoTask) /\ row' = row
    BY <1>3 DEF Claim
  <2>2. Stood(NoTask.pc, NoTask.at, NoTask.mem.data)
    BY NewDataOrdered DEF Stood, Filming, Staged
  <2>3. QED
    BY <2>1, <2>2, NoTaskType, NewDataOrdered, StepKeepsSeq DEF Claim, Resting
<1>4. QED
  BY <1>2, <1>3

\* The executor reads the row.
LEMMA LoadKeepsSeq ==
  ASSUME Inv, SeqInv, NEW i \in Instances, Sole(i), Load(i) PROVE SeqInv'
<1>1. ex[i] \in Task /\ row \in Job /\ Ordered(row.data) /\ Sequenced(i) /\ ex[i].pc = "load"
  BY SeqFields DEF SeqInv, Inv, TypeOK, Load
<1>2. row.status /= "awaiting_script_review"
  BY <1>1 DEF Sequenced, Resting
<1> DEFINE e == [ex[i] EXCEPT !.pc = EmitOr("started"), !.mem = row]
<1>3. EmitOr("started") \in {"started", "dispatch"}
  BY DEF EmitOr, Emitted
<1>4. e \in Task /\ e.pc = EmitOr("started") /\ e.mem = row
  BY <1>1, <1>3 DEF Task, ExPCs, Awaits, OuterAwaits
<1>5. Stood(e.pc, e.at, e.mem.data) /\ Stood(NoTask.pc, NoTask.at, NoTask.mem.data)
  BY <1>3, <1>4, NewDataOrdered DEF Stood, Filming, Staged
<1>6. Step(i, e) \/ Step(i, NoTask)
  BY DEF Load
<1>7. row' = row /\ UNCHANGED <<req, can>>
  BY DEF Load, jobVars
<1> HIDE DEF e
<1>8. QED
  BY <1>1, <1>2, <1>4, <1>5, <1>6, <1>7, NoTaskType, NewDataOrdered, StepKeepsSeq

\* After an event the executor goes on where it stopped.
LEMMA DeliveredKeepsSeq ==
  ASSUME Inv, SeqInv, NEW i \in Instances, Sole(i), Delivered(i) PROVE SeqInv'
<1>1. /\ ex[i] \in Task /\ Ordered(ex[i].mem.data) /\ Sequenced(i)
      /\ Stood(ex[i].pc, ex[i].at, ex[i].mem.data)
  BY SeqFields
<1>2. ex[i].pc \in {"started", "note", "retryTail", "failTail", "tail"}
  BY DEF Delivered, Emitted
<1>3. row' = row /\ UNCHANGED <<req, can>>
  BY DEF Delivered, jobVars
<1>4. CASE ex[i].pc \in {"failTail", "tail"}
  <2>1. Step(i, NoTask)
    BY <1>4 DEF Delivered, Emitted, Goto
  <2>2. Stood(NoTask.pc, NoTask.at, NoTask.mem.data)
    BY NewDataOrdered DEF Stood, Filming, Staged
  <2>3. QED
    BY <1>3, <2>1, <2>2, NoTaskType, NewDataOrdered, StepKeepsSeq DEF Resting
<1>5. CASE ex[i].pc \in {"started", "note", "retryTail"}
  <2> DEFINE pc == Emitted[ex[i].pc]
             e == [ex[i] EXCEPT !.pc = pc]
  <2>1. pc \in {"dispatch", "done", "sleep"} /\ (pc = "done" => ex[i].pc = "note")
    BY <1>5 DEF Emitted
  <2>2. Step(i, e)
    BY <2>1 DEF Delivered, Goto
  <2>3. e \in Task /\ e.pc = pc /\ e.mem = ex[i].mem /\ e.at = ex[i].at
    BY <1>1, <2>1 DEF Task, ExPCs, Awaits, OuterAwaits
  <2> HIDE DEF e, pc
  <2>4. Stood(e.pc, e.at, ex[i].mem.data)
    BY <1>1, <2>1, <2>3 DEF Stood, Filming, Staged
  <2>5. QED
    BY <1>3, <1>5, <2>2, <2>3, <2>4, MoveKeepsSeq DEF Resting
<1>6. QED
  BY <1>2, <1>4, <1>5

\* An executor goes on with pc at the same stage and with the same copy.
LEMMA GotoKeepsSeq ==
  ASSUME Inv, SeqInv, NEW i \in Instances, Sole(i), NEW pc \in ExPCs \ {"off"},
         Step(i, Goto(ex[i], pc)), Stood(pc, ex[i].at, ex[i].mem.data),
         ex[i].pc \notin Resting, UNCHANGED <<row, req, can>>
  PROVE  SeqInv'
<1> DEFINE e == [ex[i] EXCEPT !.pc = pc]
<1>1. Step(i, e)
  BY DEF Goto
<1>2. e \in Task /\ e.pc = pc /\ e.mem = ex[i].mem /\ e.at = ex[i].at
  BY SeqFields DEF Task
<1> HIDE DEF e
<1>3. QED
  BY <1>1, <1>2, MoveKeepsSeq

\* An exception leaves the copy alone.
LEMMA RaisedKeepsSeq ==
  ASSUME Inv, SeqInv, NEW i \in Instances, Sole(i), NEW kind \in Errors,
         Step(i, Raised(ex[i], kind)), ex[i].pc \notin Resting, UNCHANGED <<row, req, can>>
  PROVE  SeqInv'
<1> DEFINE e == [ex[i] EXCEPT !.pc = "failing", !.fault = kind]
<1>1. Step(i, e)
  BY DEF Raised
<1>2. e \in Task /\ e.pc = "failing" /\ e.mem = ex[i].mem /\ e.at = ex[i].at
  BY SeqFields DEF Task, ExPCs
<1> HIDE DEF e
<1>3. Stood(e.pc, e.at, ex[i].mem.data)
  BY <1>2 DEF Stood, Filming, Staged
<1>4. QED
  BY <1>1, <1>2, <1>3, MoveKeepsSeq

(***************************************************************************)
(* The steps of the pipeline keep the stages in order.                     *)
(***************************************************************************)
\* Resuming relies on the order, and from the top the first stage may begin.
LEMMA DispatchKeepsSeq ==
  ASSUME Inv, SeqInv, NEW i \in Instances, Sole(i), Dispatch(i) PROVE SeqInv'
<1> DEFINE data == ex[i].mem.data
<1>1. /\ ex[i] \in Task /\ data \in Data /\ Ordered(data) /\ ex[i].mem.status \in JobStatus
      /\ ex[i].pc = "dispatch" /\ req[i].pc = "idle"
  BY SeqFields DEF Dispatch, Runs
<1>2. UNCHANGED <<req, can>> /\ ex[i].pc \notin Resting
  BY <1>1 DEF Dispatch, Resting
<1>3. "stage" \in ExPCs /\ "running" \in JobStatus /\ "permanent" \in Errors
  BY DEF ExPCs, JobStatus, Errors
<1>4. ASSUME Step(i, Raised(ex[i], "permanent")), row' = row PROVE SeqInv'
  BY <1>2, <1>3, <1>4, RaisedKeepsSeq
<1>5. CASE ResumeRender(i, data)
  <2>1. CASE RenderCheckpoints(data)
    <3> DEFINE e == [ex[i] EXCEPT !.pc = "fetch", !.at = Render]
    <3>1. Step(i, e) /\ row' = row
      BY <1>5, <2>1 DEF ResumeRender
    <3>2. e \in Task /\ e.pc = "fetch" /\ e.at = Render /\ e.mem = ex[i].mem
      <4>1. "fetch" \in ExPCs /\ Render \in 0..Scoring
        BY StageNumbers DEF ExPCs, Awaits, InnerAwaits
      <4>2. QED
        BY <1>1, <4>1 DEF Task
    <3> HIDE DEF e
    <3>3. AtStage(Render, data)
      <4>1. Filmed(data) /\ Storyboard \in data.out
        BY <2>1 DEF RenderCheckpoints, CompletedWithOutput, Filmed
      <4>2. Written(data)
        BY <1>1, <4>1 DEF Ordered
      <4>3. QED
        BY <4>1, <4>2, StageNumbers DEF Written, AtStage
    <3>4. Stood(e.pc, e.at, data)
      BY <3>2, <3>3 DEF Stood
    <3>5. QED
      BY <1>2, <3>1, <3>2, <3>4, MoveKeepsSeq
  <2>2. CASE ~RenderCheckpoints(data)
    BY <1>4, <1>5, <2>2 DEF ResumeRender
  <2>3. QED
    BY <2>1, <2>2
<1>6. CASE ResumeScenes(i, data)
  <2>1. CASE SceneCheckpoints(data)
    <3> DEFINE e == [ex[i] EXCEPT !.at = Scenes, !.board = data.board]
               done == WithOutput(SetStage(data, Storyboard, "completed"), Storyboard)
    <3>1. ~RenderBegun(data) /\ Written(data)
      BY <1>1, <1>6, StageNumbers
      DEF ResumeScenes, ScenesPending, RenderPending, Ordered, RenderBegun, Filmed
    <3>2. Storyboard \in STAGES /\ AtStage(Storyboard, data) /\ Storyboard /= Scoring
      BY <3>1, StageNumbers DEF AtStage, Written
    <3>3. done \in Data
      BY <1>1, <3>2, SetStageType, WithOutputType, StageNumbers DEF StageStatus
    <3>4. /\ Ordered(done) /\ done.out = data.out \cup {Storyboard}
          /\ \A t \in STAGES : done.stage[t] = IF t = Storyboard THEN "completed" ELSE data.stage[t]
      BY <1>1, <3>2, EndedOrdered
    <3>5. e \in Task /\ e.at = Scenes
      <4>1. Scenes \in 0..Scoring /\ data.board \in Boards
        BY <1>1, StageNumbers DEF Data
      <4>2. QED
        BY <1>1, <4>1 DEF Task
    <3>6. Commit(i, e, "stage", done, "running")
      BY <1>6, <2>1 DEF ResumeScenes
    <3> HIDE DEF e, done
    <3>7. AtStage(Scenes, done)
      BY <1>1, <3>2, <3>3, <3>4, NextAtStage
    <3>8. Stood("stage", e.at, done)
      BY <3>5, <3>7 DEF Stood
    <3>9. QED
      BY <1>1, <1>2, <1>3, <3>3, <3>4, <3>5, <3>6, <3>8, CommitKeepsSeq
  <2>2. CASE ~SceneCheckpoints(data)
    BY <1>4, <1>6, <2>2 DEF ResumeScenes
  <2>3. QED
    BY <2>1, <2>2
<1>7. CASE FromTheTop(i, data)
  <2> DEFINE n == NextStage(data, Intake)
             e == [ex[i] EXCEPT !.at = n]
  <2>1. ~RenderBegun(data)
    BY <1>1, <1>7, StageNumbers DEF FromTheTop, RenderPending, Ordered, RenderBegun, Filmed
  <2>2. AtStage(n, data) /\ n \in 0..Scoring
    BY <1>1, <2>1, TopAtStage, NextStageType, StageNumbers
  <2> HIDE DEF n
  <2>3. e \in Task /\ e.at = n
    BY <1>1, <2>2 DEF Task
  <2>4. Commit(i, e, "stage", data, ex[i].mem.status)
    BY <1>7 DEF FromTheTop, n
  <2> HIDE DEF e
  <2>5. Stood("stage", e.at, data)
    BY <2>2, <2>3 DEF Stood
  <2>6. QED
    BY <1>1, <1>2, <1>3, <2>3, <2>4, <2>5, CommitKeepsSeq
<1>8. QED
  BY <1>5, <1>6, <1>7 DEF Dispatch

\* A stage begins where it may.
LEMMA BeginStageKeepsSeq ==
  ASSUME Inv, SeqInv, NEW i \in Instances, Sole(i), BeginStage(i) PROVE SeqInv'
<1> DEFINE at == ex[i].at
           old == ex[i].mem.data
           new == SetStage(old, at, "running")
           todo == IF at = Scenes THEN 1..NumScenes ELSE {}
           pc == IF at = Scenes THEN "scene" ELSE IF at \in Waits THEN "work" ELSE "done"
           e == [ex[i] EXCEPT !.todo = todo, !.tries = 0]
<1>1. /\ ex[i] \in Task /\ old \in Data /\ Ordered(old) /\ ex[i].pc = "stage" /\ req[i].pc = "idle"
      /\ at \in STAGES /\ AtStage(at, old)
  BY SeqFields DEF BeginStage, Runs, Stood, Placed, Filming, Staged
<1>2. new \in Data /\ Ordered(new) /\ AtStage(at, new)
  BY <1>1, BegunOrdered, SetStageType, StageNumbers DEF StageStatus
<1>3. e \in Task /\ e.at = at
  <2>1. todo \in SUBSET (1..NumScenes) /\ 0 \in 0..NativeRetries
    OBVIOUS
  <2> HIDE DEF todo
  <2>2. QED
    BY <1>1, <2>1 DEF Task
<1>4. pc \in {"scene", "work", "done"} /\ pc \in ExPCs /\ "running" \in JobStatus
  BY DEF ExPCs, Awaits, InnerAwaits, JobStatus
<1>5. Commit(i, e, pc, new, "running") /\ UNCHANGED <<req, can>>
  BY DEF BeginStage
<1> HIDE DEF e, new, pc, todo
<1>6. Stood(pc, e.at, new)
  BY <1>2, <1>3, <1>4 DEF Stood
<1>7. QED
  BY <1>1, <1>2, <1>3, <1>4, <1>5, <1>6, CommitKeepsSeq DEF Resting

\* A provider has answered.
LEMMA WorkedKeepsSeq ==
  ASSUME Inv, SeqInv, NEW i \in Instances, Sole(i), Worked(i) PROVE SeqInv'
<1>1. ex[i].pc = "work" /\ Stood("done", ex[i].at, ex[i].mem.data) /\ "done" \in ExPCs
  BY SeqFields DEF Worked, Stood, Filming, Staged, ExPCs
<1>2. QED
  BY <1>1, GotoKeepsSeq DEF Worked, Resting, jobVars

\* A commit of the same stages by an executor that stays at its stage.
LEMMA PlainCommitKeepsSeq ==
  ASSUME Inv, SeqInv, NEW i \in Instances, Sole(i), NEW pc \in ExPCs, NEW data \in Data,
         NEW status \in JobStatus, Commit(i, ex[i], pc, data, status), Ordered(data),
         pc = "off" \/ Stood(pc, ex[i].at, data), pc /= "interrupt",
         ex[i].pc \notin Resting \ {"interrupt"}, req[i].pc = "idle",
         status = "awaiting_script_review" =>
           \/ status = ex[i].mem.status /\ ex[i].pc /= "interrupt"
           \/ ~RenderBegun(data) /\ pc \in {"tail", "off"},
         UNCHANGED <<req, can>>
  PROVE  SeqInv'
<1>1. ex[i] \in Task
  BY TaskFields DEF Inv
<1>2. QED
  BY <1>1, CommitKeepsSeq

\* An executor that is neither at a stage nor before the render or the review.
LEMMA ElsewhereStood ==
  ASSUME NEW pc, pc \notin Filming \cup {"note", "settle", "settled", "costs", "review"},
         NEW at, NEW data
  PROVE  Stood(pc, at, data)
  BY DEF Stood

\* Where a task goes on to in its last events.
LEMMA TailStood ==
  /\ EmitOr("tail") \in {"tail", "off"} /\ EmitOr("failTail") \in {"failTail", "off"}
  /\ EmitOr("retryTail") \in {"retryTail", "sleep"} /\ EmitOr("note") \in {"note", "done"}
  /\ {"tail", "off", "failTail", "retryTail", "sleep", "note", "done"} \subseteq ExPCs
  BY DEF EmitOr, Emitted, ExPCs, Awaits, OuterAwaits, InnerAwaits

\* A script that was rejected three times asks for a review.
LEMMA ScriptRejectedKeepsSeq ==
  ASSUME Inv, SeqInv, NEW i \in Instances, Sole(i), ScriptRejected(i) PROVE SeqInv'
<1> DEFINE old == ex[i].mem.data
           new == [old EXCEPT !.review = TRUE]
<1>1. /\ old \in Data /\ Ordered(old) /\ ex[i].mem.status \in JobStatus
      /\ ex[i].pc = "work" /\ ex[i].at = Editorial /\ req[i].pc = "idle"
      /\ AtStage(ex[i].at, old)
  BY SeqFields DEF ScriptRejected, Runs, Stood, Filming, Staged
<1>2. new \in Data /\ new.stage = old.stage /\ new.out = old.out /\ new.cur = old.cur
  BY <1>1 DEF Data
<1>3. Commit(i, ex[i], EmitOr("note"), new, ex[i].mem.status) /\ UNCHANGED <<req, can>>
  BY DEF ScriptRejected
<1> HIDE DEF new
<1>4. Ordered(new) /\ AtStage(ex[i].at, new)
  BY <1>1, <1>2, SameOrdered, StageNumbers
<1>5. Stood(EmitOr("note"), ex[i].at, new)
  BY <1>4, TailStood DEF Stood
<1>6. QED
  BY <1>1, <1>2, <1>3, <1>4, <1>5, TailStood, PlainCommitKeepsSeq DEF Resting

\* What the executor commits at the end of a stage.
LEMMA EndOfStage ==
  ASSUME Inv, SeqInv, NEW i \in Instances, ex[i].pc = "done",
         NEW status \in StageStatus, status = "completed" \/ (status = "blocked" /\ ex[i].at = Policy)
  PROVE  LET at  == ex[i].at
             old == ex[i].mem.data
             new == WithOutput(SetStage(old, at, status), at)
         IN  /\ at \in STAGES /\ old \in Data /\ new \in Data /\ Ordered(old) /\ Ordered(new)
             /\ AtStage(at, old) /\ new.out = old.out \cup {at}
             /\ \A t \in STAGES : new.stage[t] = IF t = at THEN status ELSE old.stage[t]
<1> DEFINE at  == ex[i].at
           old == ex[i].mem.data
<1>1. at \in STAGES /\ old \in Data /\ Ordered(old) /\ AtStage(at, old)
  BY SeqFields DEF Stood, Placed, Filming, Staged
<1>2. WithOutput(SetStage(old, at, status), at) \in Data
  <2>1. at \in Places
    BY <1>1, StageNumbers
  <2>2. SetStage(old, at, status) \in Data
    BY <1>1, <2>1, SetStageType
  <2>3. QED
    BY <1>1, <2>2, WithOutputType
<1>3. QED
  BY <1>1, <1>2, EndedOrdered

\* A stage completes, and the next one may begin.
LEMMA CompleteStageKeepsSeq ==
  ASSUME Inv, SeqInv, NEW i \in Instances, Sole(i), CompleteStage(i) PROVE SeqInv'
<1> DEFINE at == ex[i].at
           old == ex[i].mem.data
           new == WithOutput(SetStage(old, at, "completed"), at)
           next == NextStage(new, at + 1)
           e == [ex[i] EXCEPT !.at = next]
<1>1. ex[i].pc = "done" /\ at \notin {Storyboard, Scoring, Voice} /\ req[i].pc = "idle"
  BY DEF CompleteStage, Runs
<1>2. /\ at \in STAGES /\ old \in Data /\ new \in Data /\ Ordered(old) /\ Ordered(new)
      /\ AtStage(at, old) /\ new.out = old.out \cup {at}
      /\ \A t \in STAGES : new.stage[t] = IF t = at THEN "completed" ELSE old.stage[t]
  BY <1>1, EndOfStage DEF StageStatus
<1> HIDE DEF new
<1>3. AtStage(next, new)
  BY <1>1, <1>2, NextAtStage
<1>4. next \in 0..Scoring
  <2>1. at + 1 \in STAGES
    BY <1>1, <1>2, StageNumbers
  <2>2. QED
    BY <1>2, <2>1, NextStageType, StageNumbers
<1> HIDE DEF next
<1>5. e \in Task /\ e.at = next
  BY <1>4, SeqFields DEF Task
<1>6. Commit(i, e, "stage", new, "running") /\ UNCHANGED <<req, can>>
  BY DEF CompleteStage, new, next
<1>7. "stage" \in ExPCs /\ "running" \in JobStatus
  BY DEF ExPCs, JobStatus
<1> HIDE DEF e
<1>8. Stood("stage", e.at, new)
  BY <1>3, <1>5 DEF Stood
<1>9. QED
  BY <1>1, <1>2, <1>5, <1>6, <1>7, <1>8, CommitKeepsSeq DEF Resting

\* Voice and scoring complete.
LEMMA CompleteLastKeepsSeq ==
  ASSUME Inv, SeqInv, NEW i \in Instances, Sole(i), CompleteLast(i) PROVE SeqInv'
<1> DEFINE at == ex[i].at
           old == ex[i].mem.data
           new == WithOutput(SetStage(old, at, "completed"), at)
           pc == IF at = Voice THEN "settle" ELSE "finish"
<1>1. ex[i].pc = "done" /\ at \in {Scoring, Voice} /\ req[i].pc = "idle"
  BY DEF CompleteLast, Runs
<1>2. /\ at \in STAGES /\ old \in Data /\ new \in Data /\ Ordered(old) /\ Ordered(new)
      /\ AtStage(at, old) /\ new.out = old.out \cup {at}
      /\ \A t \in STAGES : new.stage[t] = IF t = at THEN "completed" ELSE old.stage[t]
  BY <1>1, EndOfStage DEF StageStatus
<1>3. Commit(i, ex[i], pc, new, "running") /\ UNCHANGED <<req, can>>
  BY DEF CompleteLast
<1> HIDE DEF new
<1>4. at = Voice => Filmed(new)
  BY <1>2, NextAtStage, StageNumbers
<1>5. pc \in ExPCs /\ pc /= "interrupt" /\ Stood(pc, at, new) /\ "running" \in JobStatus
  BY <1>4 DEF ExPCs, Stood, Filming, Staged, JobStatus
<1> HIDE DEF pc
<1>6. QED
  BY <1>1, <1>2, <1>3, <1>5, PlainCommitKeepsSeq DEF Resting

\* The policy gate blocks.
LEMMA PolicyBlocksKeepsSeq ==
  ASSUME Inv, SeqInv, NEW i \in Instances, Sole(i), PolicyBlocks(i) PROVE SeqInv'
<1> DEFINE new == WithOutput(SetStage(ex[i].mem.data, Policy, "blocked"), Policy)
<1>1. ex[i].pc = "done" /\ ex[i].at = Policy /\ req[i].pc = "idle"
  BY DEF PolicyBlocks, Runs
<1>2. new \in Data /\ Ordered(new)
  BY <1>1, EndOfStage DEF StageStatus
<1>3. Commit(i, ex[i], "blocked", new, "blocked") /\ UNCHANGED <<req, can>>
  BY DEF PolicyBlocks
<1>4. "blocked" \in ExPCs /\ Stood("blocked", ex[i].at, new) /\ "blocked" \in JobStatus
  BY DEF ExPCs, Stood, Filming, Staged, JobStatus
<1> HIDE DEF new
<1>5. QED
  BY <1>1, <1>2, <1>3, <1>4, PlainCommitKeepsSeq DEF Resting

\* A blocked job ends its task.
LEMMA BlockedKeepsSeq ==
  ASSUME Inv, SeqInv, NEW i \in Instances, Sole(i), Blocked(i) PROVE SeqInv'
<1>1. /\ ex[i].mem.data \in Data /\ Ordered(ex[i].mem.data) /\ "blocked" \in JobStatus
      /\ ex[i].pc = "blocked" /\ req[i].pc = "idle"
  BY SeqFields DEF Blocked, Runs, JobStatus
<1>2. Commit(i, ex[i], EmitOr("tail"), ex[i].mem.data, "blocked") /\ UNCHANGED <<req, can>>
  BY DEF Blocked
<1>3. Stood(EmitOr("tail"), ex[i].at, ex[i].mem.data)
  BY TailStood DEF Stood, Filming, Staged
<1>4. QED
  BY <1>1, <1>2, <1>3, TailStood, PlainCommitKeepsSeq DEF Resting

\* The storyboard is written; scenes come next.
LEMMA CompleteStoryboardKeepsSeq ==
  ASSUME Inv, SeqInv, NEW i \in Instances, Sole(i), CompleteStoryboard(i) PROVE SeqInv'
<1> DEFINE old == ex[i].mem.data
           done == WithOutput(SetStage(old, Storyboard, "completed"), Storyboard)
           new == [done EXCEPT !.board = boards']
           pc == IF new.review /\ ~new.approved THEN "review" ELSE "stage"
           e == [ex[i] EXCEPT !.at = Scenes, !.board = boards']
<1>1. ex[i].pc = "done" /\ ex[i].at = Storyboard /\ req[i].pc = "idle"
      /\ boards' = boards + 1 /\ boards < MaxStoryboards
  BY DEF CompleteStoryboard, Runs
<1>2. boards' \in Boards
  <2>1. boards \in Boards
    BY DEF Inv, TypeOK
  <2>2. QED
    BY <1>1, <2>1 DEF Boards
<1>3. /\ old \in Data /\ done \in Data /\ Ordered(old) /\ Ordered(done)
      /\ AtStage(Storyboard, old) /\ done.out = old.out \cup {Storyboard}
      /\ \A t \in STAGES : done.stage[t] = IF t = Storyboard THEN "completed" ELSE old.stage[t]
  BY <1>1, EndOfStage DEF StageStatus
<1>4. Commit(i, e, pc, new, "running") /\ UNCHANGED <<req, can>>
  BY <1>1 DEF CompleteStoryboard
<1> HIDE DEF done
<1>5. AtStage(Scenes, done) /\ Storyboard \in STAGES /\ Scenes \in STAGES
  BY <1>3, NextAtStage, StageNumbers
<1>6. new \in Data /\ new.stage = done.stage /\ new.out = done.out /\ new.cur = done.cur
  BY <1>2, <1>3 DEF Data
<1>7. e \in Task /\ e.at = Scenes
  <2>1. Scenes \in 0..Scoring /\ ex[i] \in Task
    BY SeqFields, StageNumbers
  <2>2. QED
    BY <1>2, <2>1 DEF Task
<1> HIDE DEF new
<1>8. Ordered(new) /\ AtStage(Scenes, new)
  BY <1>3, <1>5, <1>6, SameOrdered
<1>9. pc \in {"review", "stage"} /\ pc \in ExPCs /\ "running" \in JobStatus
  BY DEF ExPCs, JobStatus
<1> HIDE DEF e, pc
<1>10. Stood(pc, e.at, new)
  BY <1>7, <1>8, <1>9, StageNumbers DEF Stood, AtStage
<1>11. QED
  BY <1>1, <1>4, <1>6, <1>7, <1>8, <1>9, <1>10, CommitKeepsSeq DEF Resting

\* The job waits for its author; its render has not begun.
LEMMA ReviewKeepsSeq ==
  ASSUME Inv, SeqInv, NEW i \in Instances, Sole(i), Review(i) PROVE SeqInv'
<1> DEFINE old == ex[i].mem.data
           new == [old EXCEPT !.cur = ScriptReview]
<1>1. /\ old \in Data /\ Ordered(old) /\ ~RenderBegun(old)
      /\ ex[i].pc = "review" /\ req[i].pc = "idle"
  BY SeqFields DEF Review, Runs, Stood
<1>2. Commit(i, ex[i], EmitOr("tail"), new, "awaiting_script_review") /\ UNCHANGED <<req, can>>
  BY DEF Review
<1>3. new \in Data /\ new.stage = old.stage /\ new.out = old.out /\ new.cur = ScriptReview
  BY <1>1, StageNumbers DEF Data
<1> HIDE DEF new
<1>4. Ordered(new) /\ ~RenderBegun(new)
  BY <1>1, <1>3, StageNumbers DEF Ordered, Written, RenderBegun
<1>5. Stood(EmitOr("tail"), ex[i].at, new) /\ "awaiting_script_review" \in JobStatus
  BY TailStood DEF Stood, Filming, Staged, JobStatus
<1>6. QED
  BY <1>1, <1>2, <1>3, <1>4, <1>5, TailStood, PlainCommitKeepsSeq DEF Resting

(***************************************************************************)
(* The steps of the scenes and of the render keep the stages in order.     *)
(***************************************************************************)
\* The task of an executor ends, or an event does.
LEMMA EndKeepsSeq ==
  ASSUME Inv, SeqInv, NEW i \in Instances, Sole(i), NEW pc \in ExPCs,
         Step(i, Goto(ex[i], pc)), pc \notin Filming \cup {"note", "settle", "settled", "costs", "review"},
         pc = "off" \/ ex[i].pc \notin Resting, UNCHANGED <<row, req, can>>
  PROVE  SeqInv'
<1>1. CASE pc = "off"
  <2>1. Step(i, NoTask) /\ Stood(NoTask.pc, NoTask.at, NoTask.mem.data)
    BY <1>1, NewDataOrdered DEF Goto, Stood, Filming, Staged
  <2>2. QED
    BY <2>1, NoTaskType, NewDataOrdered, StepKeepsSeq DEF Resting
<1>2. CASE pc /= "off"
  <2>1. Stood(pc, ex[i].at, ex[i].mem.data)
    BY ElsewhereStood
  <2>2. QED
    BY <1>2, <2>1, GotoKeepsSeq
<1>3. QED
  BY <1>1, <1>2

\* The next scene of the storyboard.
LEMMA NextSceneKeepsSeq ==
  ASSUME Inv, SeqInv, NEW i \in Instances, Sole(i), NextScene(i) PROVE SeqInv'
<1> DEFINE pc == IF ex[i].todo = {} THEN "done"
                 ELSE IF Scene(ex[i]) \in gen[ex[i].board] THEN "fetch" ELSE "veo"
<1>1. ex[i].pc = "scene" /\ AtStage(ex[i].at, ex[i].mem.data)
  BY SeqFields DEF NextScene, Stood, Filming, Staged
<1>2. pc \in {"done", "fetch", "veo"} /\ pc \in ExPCs
  BY DEF ExPCs, Awaits, InnerAwaits
<1>3. Step(i, Goto(ex[i], pc)) /\ UNCHANGED <<row, req, can>>
  BY DEF NextScene, jobVars
<1> HIDE DEF pc
<1>4. Stood(pc, ex[i].at, ex[i].mem.data)
  BY <1>1, <1>2 DEF Stood
<1>5. QED
  BY <1>1, <1>2, <1>3, <1>4, GotoKeepsSeq DEF Resting

\* A take passes QA.
LEMMA TakePassesKeepsSeq ==
  ASSUME Inv, SeqInv, NEW i \in Instances, Sole(i), TakePasses(i) PROVE SeqInv'
<1>1. ex[i].pc = "veo" /\ AtStage(ex[i].at, ex[i].mem.data) /\ "accept" \in ExPCs
  BY SeqFields DEF TakePasses, Stood, Filming, Staged, ExPCs
<1>2. Stood("accept", ex[i].at, ex[i].mem.data)
  BY <1>1 DEF Stood
<1>3. QED
  BY <1>1, <1>2, GotoKeepsSeq DEF TakePasses, Resting

\* A take is rejected.
LEMMA TakeRejectedKeepsSeq ==
  ASSUME Inv, SeqInv, NEW i \in Instances, Sole(i), TakeRejected(i) PROVE SeqInv'
<1>1. /\ ex[i] \in Task /\ ex[i].pc = "veo" /\ "permanent" \in Errors
      /\ Stood("veo", ex[i].at, ex[i].mem.data)
  BY SeqFields DEF TakeRejected, Errors
<1>2. ex[i].pc \notin Resting /\ UNCHANGED <<row, req, can>>
  BY <1>1 DEF TakeRejected, Resting
<1>3. CASE ex[i].tries < NativeRetries
  <2> DEFINE e == [ex[i] EXCEPT !.tries = @ + 1]
  <2>1. ex[i].tries + 1 \in 0..NativeRetries
    BY <1>1, <1>3 DEF Task
  <2>2. e \in Task /\ e.pc = "veo" /\ e.mem = ex[i].mem /\ e.at = ex[i].at
    BY <1>1, <2>1 DEF Task
  <2>3. Step(i, e)
    BY <1>3 DEF TakeRejected
  <2> HIDE DEF e
  <2>4. QED
    BY <1>1, <1>2, <2>2, <2>3, MoveKeepsSeq
<1>4. CASE ~(ex[i].tries < NativeRetries)
  <2>1. Step(i, Raised(ex[i], "permanent"))
    BY <1>4 DEF TakeRejected
  <2>2. QED
    BY <1>1, <1>2, <2>1, RaisedKeepsSeq
<1>5. QED
  BY <1>3, <1>4

\* A scene is done.
LEMMA SceneGeneratedKeepsSeq ==
  ASSUME Inv, SeqInv, NEW i \in Instances, Sole(i), Step(i, SceneGenerated(ex[i])),
         ex[i].pc \in {"accept", "fetch"}, UNCHANGED <<row, req, can>>
  PROVE  SeqInv'
<1> DEFINE e == SceneGenerated(ex[i])
<1>1. /\ ex[i] \in Task /\ AtStage(ex[i].at, ex[i].mem.data)
      /\ "scene" \in ExPCs /\ 0 \in 0..NativeRetries
  BY SeqFields DEF Stood, Filming, Staged, ExPCs
<1>2. e \in Task /\ e.pc = "scene" /\ e.mem = ex[i].mem /\ e.at = ex[i].at
  BY <1>1 DEF SceneGenerated, Task
<1> HIDE DEF e
<1>3. Stood(e.pc, e.at, ex[i].mem.data)
  BY <1>1, <1>2 DEF Stood, Filming
<1>4. QED
  BY <1>2, <1>3, MoveKeepsSeq DEF Resting, e

\* The files of one scene, or of the render, are there.
LEMMA FetchedKeepsSeq ==
  ASSUME Inv, SeqInv, NEW i \in Instances, Sole(i), Fetched(i) PROVE SeqInv'
<1>1. ex[i].pc = "fetch" /\ UNCHANGED <<row, req, can>>
  BY DEF Fetched, jobVars
<1>2. CASE ex[i].at = Render
  <2>1. Filmed(ex[i].mem.data)
    BY <1>1, <1>2, SeqFields, StageNumbers DEF Stood, Filming, Staged, AtStage
  <2>2. Stood("settle", ex[i].at, ex[i].mem.data) /\ "settle" \in ExPCs
    BY <2>1 DEF Stood, Filming, Staged, ExPCs
  <2>3. Step(i, Goto(ex[i], "settle"))
    BY <1>2 DEF Fetched
  <2>4. QED
    BY <1>1, <2>2, <2>3, GotoKeepsSeq DEF Resting
<1>3. CASE ex[i].at /= Render
  <2>1. Step(i, SceneGenerated(ex[i]))
    BY <1>3 DEF Fetched
  <2>2. QED
    BY <1>1, <2>1, SceneGeneratedKeepsSeq
<1>4. QED
  BY <1>2, <1>3

\* The reserve is read, then settled.
LEMMA SettleKeepsSeq ==
  ASSUME Inv, SeqInv, NEW i \in Instances, Sole(i), ReadAuthorized(i) \/ Settle(i)
  PROVE  SeqInv'
<1>1. /\ ex[i] \in Task /\ ex[i].pc \in {"settle", "settled"} /\ Filmed(ex[i].mem.data)
      /\ UNCHANGED <<row, req, can>>
  BY SeqFields DEF ReadAuthorized, Settle, Stood, jobVars
<1>2. PICK pc \in {"settled", "costs"}, n \in Nat :
        Step(i, [ex[i] EXCEPT !.pc = pc, !.authorized = n])
  <2>1. Outstanding(book) \in Nat
    BY BookTypes DEF Inv, TypeOK
  <2>2. CASE ReadAuthorized(i)
    BY <2>1, <2>2 DEF ReadAuthorized
  <2>3. CASE Settle(i)
    BY <2>3 DEF Settle
  <2>4. QED
    BY <2>2, <2>3
<1> DEFINE e == [ex[i] EXCEPT !.pc = pc, !.authorized = n]
<1>3. e \in Task /\ e.pc \in {"settled", "costs"} /\ e.mem = ex[i].mem /\ e.at = ex[i].at
  BY <1>1 DEF Task, ExPCs
<1> HIDE DEF e
<1>4. Stood(e.pc, e.at, ex[i].mem.data)
  BY <1>1, <1>3 DEF Stood, Filming, Staged
<1>5. QED
  BY <1>1, <1>2, <1>3, <1>4, MoveKeepsSeq DEF Resting, e

\* The render begins with everything it puts together.
LEMMA SaveCostsKeepsSeq ==
  ASSUME Inv, SeqInv, NEW i \in Instances, Sole(i), SaveCosts(i) PROVE SeqInv'
<1> DEFINE data == ex[i].mem.data
           e == [ex[i] EXCEPT !.at = Render]
<1>1. /\ ex[i] \in Task /\ data \in Data /\ Ordered(data) /\ ex[i].mem.status \in JobStatus
      /\ ex[i].pc = "costs" /\ req[i].pc = "idle" /\ Filmed(data)
  BY SeqFields DEF SaveCosts, Runs, Stood
<1>2. e \in Task /\ e.at = Render
  <2>1. Render \in 0..Scoring
    BY StageNumbers
  <2>2. QED
    BY <1>1, <2>1 DEF Task
<1>3. Commit(i, e, "stage", data, ex[i].mem.status) /\ UNCHANGED <<req, can>>
  BY DEF SaveCosts
<1> HIDE DEF e
<1>4. Storyboard \in data.out
  BY <1>1, StageNumbers DEF Filmed, Ordered
<1>5. AtStage(Render, data)
  BY <1>1, <1>4, StageNumbers DEF Ordered, Written, AtStage
<1>6. Stood("stage", e.at, data) /\ "stage" \in ExPCs
  BY <1>2, <1>5 DEF Stood, Filming, Staged, ExPCs
<1>7. QED
  BY <1>1, <1>2, <1>3, <1>6, CommitKeepsSeq DEF Resting

\* The video is ready.
LEMMA FinishKeepsSeq ==
  ASSUME Inv, SeqInv, NEW i \in Instances, Sole(i), Finish(i) PROVE SeqInv'
<1> DEFINE old == ex[i].mem.data
           new == [old EXCEPT !.cur = Completed]
           pc == IF AutoPublish THEN "publish" ELSE EmitOr("tail")
<1>1. old \in Data /\ Ordered(old) /\ ex[i].pc = "finish" /\ req[i].pc = "idle"
  BY SeqFields DEF Finish, Runs
<1>2. new \in Data /\ new.stage = old.stage /\ new.out = old.out /\ new.cur = Completed
  BY <1>1, StageNumbers DEF Data
<1>3. Commit(i, ex[i], pc, new, "ready") /\ UNCHANGED <<req, can>>
  BY DEF Finish
<1>4. pc \in {"publish", "tail", "off"} /\ pc \in ExPCs /\ "ready" \in JobStatus
  BY TailStood DEF ExPCs, Awaits, InnerAwaits, JobStatus
<1> HIDE DEF new, pc
<1>5. Ordered(new)
  BY <1>1, <1>2, StageNumbers DEF Ordered, Written, RenderBegun, Filmed
<1>6. Stood(pc, ex[i].at, new)
  BY <1>4 DEF Stood, Filming, Staged
<1>7. QED
  BY <1>1, <1>2, <1>3, <1>4, <1>5, <1>6, PlainCommitKeepsSeq DEF Resting

\* The video is published.
LEMMA PublishedKeepsSeq ==
  ASSUME Inv, SeqInv, NEW i \in Instances, Sole(i), Published(i) PROVE SeqInv'
<1>1. /\ ex[i].mem.data \in Data /\ Ordered(ex[i].mem.data) /\ ex[i].mem.status \in JobStatus
      /\ ex[i].pc = "publish" /\ req[i].pc = "idle"
  BY SeqFields DEF Published, Runs
<1>2. Commit(i, ex[i], EmitOr("tail"), ex[i].mem.data, ex[i].mem.status) /\ UNCHANGED <<req, can>>
  BY DEF Published
<1>3. Stood(EmitOr("tail"), ex[i].at, ex[i].mem.data)
  BY TailStood DEF Stood, Filming, Staged
<1>4. QED
  BY <1>1, <1>2, <1>3, TailStood, PlainCommitKeepsSeq DEF Resting

(***************************************************************************)
(* Failures, retries and interruption keep the stages in order.            *)
(***************************************************************************)
\* An exception.
LEMMA RaiseKeepsSeq ==
  ASSUME Inv, SeqInv, NEW i \in Instances, Sole(i),
         NEW kind \in Errors \ {"none"}, Raise(i, kind)
  PROVE  SeqInv'
<1>1. ex[i].pc \notin Resting /\ UNCHANGED <<row, req, can>>
  BY DEF Raise, MayRaise, Resting, jobVars
<1>2. Step(i, Raised(ex[i], kind))
  BY DEF Raise
<1>3. QED
  BY <1>1, <1>2, RaisedKeepsSeq

\* The stage of the exception has failed.
LEMMA FailStageKeepsSeq ==
  ASSUME Inv, SeqInv, NEW i \in Instances, Sole(i), FailStage(i) PROVE SeqInv'
<1> DEFINE old == ex[i].mem.data
           new == SetStage(old, old.cur, "failed")
<1>1. /\ old \in Data /\ Ordered(old) /\ ex[i].pc = "failing" /\ req[i].pc = "idle"
      /\ "failed" \in StageStatus /\ "failed" \in JobStatus /\ "failed" \in ExPCs
  BY SeqFields DEF FailStage, Runs, StageStatus, JobStatus, ExPCs
<1>2. new \in Data /\ Ordered(new)
  BY <1>1, FailedOrdered, SetStageType, DataFields
<1>3. Commit(i, ex[i], "failed", new, "failed") /\ UNCHANGED <<req, can>>
  BY DEF FailStage
<1>4. Stood("failed", ex[i].at, new)
  BY DEF Stood, Filming, Staged
<1> HIDE DEF new
<1>5. QED
  BY <1>1, <1>2, <1>3, <1>4, PlainCommitKeepsSeq DEF Resting

\* A retry is scheduled.
LEMMA ScheduleRetryKeepsSeq ==
  ASSUME Inv, SeqInv, NEW i \in Instances, Sole(i), ScheduleRetry(i) PROVE SeqInv'
<1> DEFINE old == ex[i].mem.data
           new == [old EXCEPT !.retries[old.cur] = @ + 1, !.error = "transient"]
           e == [ex[i] EXCEPT !.fault = "none"]
<1>1. /\ ex[i] \in Task /\ old \in Data /\ Ordered(old) /\ ex[i].pc = "failed" /\ req[i].pc = "idle"
      /\ old.cur \in Places /\ "none" \in Errors /\ "transient" \in Errors /\ "queued" \in JobStatus
  BY SeqFields, DataFields DEF ScheduleRetry, Runs, Errors, JobStatus
<1>2. old.retries \in [Places -> 0..MaxAutomatic] /\ old.retries[old.cur] + 1 \in 0..MaxAutomatic
  BY <1>1 DEF ScheduleRetry, Retryable, Data
<1>3. [old.retries EXCEPT ![old.cur] = @ + 1] \in [Places -> 0..MaxAutomatic]
  BY <1>1, <1>2
<1>4. new \in Data /\ new.stage = old.stage /\ new.out = old.out /\ new.cur = old.cur
  BY <1>1, <1>3 DEF Data
<1>5. e \in Task
  BY <1>1 DEF Task
<1>6. Commit(i, e, EmitOr("retryTail"), new, "queued") /\ UNCHANGED <<req, can>>
  BY DEF ScheduleRetry
<1> HIDE DEF e, new
<1>7. Ordered(new)
  BY <1>1, <1>4, SameOrdered
<1>8. Stood(EmitOr("retryTail"), e.at, new)
  BY TailStood DEF Stood, Filming, Staged
<1>9. QED
  BY <1>1, <1>4, <1>5, <1>6, <1>7, <1>8, TailStood, CommitKeepsSeq DEF Resting

\* The retry begins with the copy that failed.
LEMMA WakeKeepsSeq ==
  ASSUME Inv, SeqInv, NEW i \in Instances, Sole(i), Wake(i) PROVE SeqInv'
<1>1. ex[i].pc \notin Resting /\ UNCHANGED <<row, req, can>> /\ "dispatch" \in ExPCs
  BY DEF Wake, Resting, jobVars, ExPCs
<1>2. Step(i, Goto(ex[i], "dispatch"))
  BY DEF Wake
<1>3. QED
  BY <1>1, <1>2, EndKeepsSeq DEF Filming, Staged

\* The job has failed.
LEMMA FailJobKeepsSeq ==
  ASSUME Inv, SeqInv, NEW i \in Instances, Sole(i), FailJob(i) PROVE SeqInv'
<1> DEFINE old == ex[i].mem.data
           new == [old EXCEPT !.error = ex[i].fault]
<1>1. /\ old \in Data /\ Ordered(old) /\ ex[i].pc = "failed" /\ req[i].pc = "idle"
      /\ ex[i].fault \in Errors /\ "failed" \in JobStatus /\ "refund" \in ExPCs
  BY SeqFields, TaskFields DEF FailJob, Runs, JobStatus, ExPCs, Inv
<1>2. new \in Data /\ new.stage = old.stage /\ new.out = old.out /\ new.cur = old.cur
  BY <1>1 DEF Data
<1>3. Commit(i, ex[i], "refund", new, "failed") /\ UNCHANGED <<req, can>>
  BY DEF FailJob
<1> HIDE DEF new
<1>4. Ordered(new) /\ Stood("refund", ex[i].at, new)
  BY <1>1, <1>2, SameOrdered DEF Stood, Filming, Staged
<1>5. QED
  BY <1>1, <1>2, <1>3, <1>4, PlainCommitKeepsSeq DEF Resting

\* The reserve has been returned.
LEMMA RefundFailureKeepsSeq ==
  ASSUME Inv, SeqInv, NEW i \in Instances, Sole(i), RefundFailure(i) PROVE SeqInv'
<1> DEFINE e == [ex[i] EXCEPT !.pc = "failTail"]
<1>1. UNCHANGED <<row, req, can>> /\ (Step(i, e) \/ Step(i, NoTask))
  BY DEF RefundFailure, jobVars, EmitOr, Emitted, Goto
<1>2. e \in Task /\ e.pc = "failTail" /\ e.mem = ex[i].mem
  BY SeqFields DEF Task, ExPCs, Awaits, OuterAwaits
<1>3. Stood(e.pc, e.at, e.mem.data) /\ Stood(NoTask.pc, NoTask.at, NoTask.mem.data)
  BY <1>2, NewDataOrdered DEF Stood, Filming, Staged
<1> HIDE DEF e
<1>4. QED
  BY <1>1, <1>2, <1>3, SeqFields, NoTaskType, NewDataOrdered, StepKeepsSeq DEF Resting

\* A task is cancelled at an await: it ends, or takes a new copy of the row.
LEMMA InterruptKeepsSeq ==
  ASSUME Inv, SeqInv, NEW i \in Instances, Sole(i), Interrupt(i) PROVE SeqInv'
<1>1. ex[i] \in Task /\ row \in Job /\ Ordered(row.data) /\ UNCHANGED <<row, req, can>>
  BY SeqFields DEF SeqInv, Inv, TypeOK, Interrupt, jobVars
<1> DEFINE e == [ex[i] EXCEPT !.pc = "interrupt", !.mem = row]
<1>2. e \in Task /\ e.pc = "interrupt" /\ e.mem = row
  BY <1>1 DEF Task, ExPCs
<1>3. Stood(e.pc, e.at, e.mem.data) /\ Stood(NoTask.pc, NoTask.at, NoTask.mem.data)
  BY <1>2, NewDataOrdered DEF Stood, Filming, Staged
<1>4. Step(i, e) \/ Step(i, NoTask)
  BY DEF Interrupt
<1> HIDE DEF e
<1>5. QED
  BY <1>1, <1>2, <1>3, <1>4, NoTaskType, NewDataOrdered, StepKeepsSeq DEF Resting

\* The interrupted job is marked, unless it was cancelled.
LEMMA SaveInterruptKeepsSeq ==
  ASSUME Inv, SeqInv, NEW i \in Instances, Sole(i), SaveInterrupt(i) PROVE SeqInv'
<1> DEFINE old == ex[i].mem.data
           new == [old EXCEPT !.interrupted = TRUE]
<1>1. /\ old \in Data /\ Ordered(old) /\ ex[i].pc = "interrupt" /\ req[i].pc = "idle"
      /\ "off" \in ExPCs /\ "running" \in JobStatus /\ UNCHANGED <<req, can>>
  BY SeqFields DEF SaveInterrupt, Runs, ExPCs, JobStatus
<1>2. CASE ex[i].mem.status = "cancelled"
  <2>1. Step(i, Goto(ex[i], "off")) /\ row' = row
    BY <1>2 DEF SaveInterrupt, Goto
  <2>2. QED
    BY <1>1, <2>1, EndKeepsSeq DEF Filming, Staged
<1>3. CASE ex[i].mem.status /= "cancelled"
  <2>1. Commit(i, ex[i], "off", new, "running")
    BY <1>3 DEF SaveInterrupt
  <2>2. new \in Data /\ new.stage = old.stage /\ new.out = old.out /\ new.cur = old.cur
    BY <1>1 DEF Data
  <2> HIDE DEF new
  <2>3. Ordered(new)
    BY <1>1, <2>2, SameOrdered
  <2>4. QED
    BY <1>1, <2>1, <2>2, <2>3, PlainCommitKeepsSeq DEF Resting
<1>4. QED
  BY <1>2, <1>3

(***************************************************************************)
(* Requests, cancels and instances keep the stages in order.               *)
(***************************************************************************)
\* What is known of the rows and handlers that a step of a handler reads.
LEMMA SeqRequest ==
  ASSUME Inv, SeqInv, NEW i \in Instances
  PROVE  /\ row \in Job /\ row.data \in Data /\ row.status \in JobStatus
         /\ Ordered(row.data) /\ Calm(row)
         /\ req[i] \in Handler /\ req[i].mem \in Job /\ req[i].mem.data \in Data
         /\ req[i].op \in Operations /\ req[i].stage \in STAGES
         /\ Sequenced(i)
<1>1. row \in Job /\ req[i] \in Handler
  BY DEF Inv, TypeOK
<1>2. Ordered(row.data) /\ Calm(row) /\ Sequenced(i)
  BY DEF SeqInv
<1>3. row.data \in Data /\ row.status \in JobStatus
  BY <1>1 DEF Job
<1>4. /\ req[i].mem \in Job /\ req[i].op \in Operations /\ req[i].stage \in STAGES
  BY <1>1 DEF Handler
<1>5. req[i].mem.data \in Data
  BY <1>4 DEF Job
<1>6. QED
  BY <1>1, <1>2, <1>3, <1>4, <1>5

\* A step of a handler that leaves the tasks alone.
LEMMA RequestKeepsSeq ==
  ASSUME Inv, SeqInv, NEW i \in Instances, Sole(i),
         Ordered(row'.data), Calm(row'),
         row'.status = "awaiting_script_review" => row.status = "awaiting_script_review",
         Ordered(req'[i].mem.data), Calm(req'[i].mem),
         req'[i].pc /= "idle" =>
           IF req'[i].op = "create" THEN row'.status /= "awaiting_script_review"
           ELSE Permitted(req'[i].op, req'[i].stage, req'[i].mem),
         UNCHANGED <<ex, can>>, \A j \in Instances \ {i} : req'[j] = req[j]
  PROVE  SeqInv'
<1>1. Sequenced(i)
  BY DEF SeqInv
<1>2. Sequenced(i)'
  BY <1>1 DEF Sequenced
<1>3. \A j \in Instances : Sequenced(j)'
  BY <1>2, OthersSequenced
<1>4. QED
  BY <1>3 DEF SeqInv

\* A handler takes its copy of the row that permits it.
LEMMA BeginRequestKeepsSeq ==
  ASSUME Inv, SeqInv, NEW i \in Instances, Sole(i), NEW op \in Offered, NEW s \in STAGES,
         BeginRequest(i, op, s)
  PROVE  SeqInv'
<1>1. /\ req'[i].pc /= "idle" /\ req'[i].op = op /\ req'[i].stage = s /\ req'[i].mem = row
      /\ row' = row /\ UNCHANGED <<ex, can>>
      /\ \A j \in Instances \ {i} : req'[j] = req[j]
      /\ Permitted(op, s, row)
  BY DEF BeginRequest, Inv, TypeOK, jobVars
<1>2. op /= "create"
  BY <1>1 DEF Permitted
<1>3. QED
  BY <1>1, <1>2, SeqRequest, RequestKeepsSeq

\* A new job is queued.
LEMMA BeginCreateKeepsSeq ==
  ASSUME Inv, SeqInv, NEW i \in Instances, Sole(i), NEW review \in BOOLEAN,
         BeginCreate(i, review)
  PROVE  SeqInv'
<1>1. /\ row' = [status |-> "queued", data |-> NewData(review)]
      /\ req'[i].op = "create" /\ req'[i].mem = row' /\ UNCHANGED <<ex, can>>
      /\ \A j \in Instances \ {i} : req'[j] = req[j]
  BY DEF BeginCreate, Inv, TypeOK
<1>2. Ordered(row'.data) /\ row'.status = "queued"
  BY <1>1, NewDataOrdered
<1>3. QED
  BY <1>1, <1>2, RequestKeepsSeq DEF Calm

\* The reserve is charged.
LEMMA ChargeReserveKeepsSeq ==
  ASSUME Inv, SeqInv, NEW i \in Instances, Sole(i), ChargeReserve(i) PROVE SeqInv'
<1>1. /\ req'[i].op = req[i].op /\ req'[i].stage = req[i].stage /\ req'[i].mem = req[i].mem
      /\ req[i].pc /= "idle" /\ row' = row /\ UNCHANGED <<ex, can>>
      /\ \A j \in Instances \ {i} : req'[j] = req[j]
  BY DEF ChargeReserve, Inv, TypeOK, Handler, jobVars
<1>2. QED
  BY <1>1, SeqRequest, RequestKeepsSeq DEF Sequenced

\* The reserve cannot be charged.
LEMMA ChargeRefusedKeepsSeq ==
  ASSUME Inv, SeqInv, NEW i \in Instances, Sole(i), ChargeRefused(i) PROVE SeqInv'
<1>1. (row' = NoJob \/ row' = row) /\ UNCHANGED <<ex, can>>
  BY DEF ChargeRefused, Inv, TypeOK
<1>2. req'[i] = NoRequest /\ \A j \in Instances \ {i} : req'[j] = req[j]
  BY DEF ChargeRefused, Inv, TypeOK
<1>3. QED
  BY <1>1, <1>2, SeqRequest, NewDataOrdered, RequestKeepsSeq DEF Calm

\* The job is queued with what the handler has prepared.
LEMMA SaveRequestKeepsSeq ==
  ASSUME Inv, SeqInv, NEW i \in Instances, Sole(i), SaveRequest(i) PROVE SeqInv'
<1> DEFINE r == req[i]
<1>1. /\ Ordered(r.mem.data) /\ Calm(r.mem) /\ r.mem \in Job /\ r.op \in Operations
      /\ r.stage \in STAGES /\ r.pc = "save"
      /\ IF r.op = "create" THEN row.status /= "awaiting_script_review"
         ELSE Permitted(r.op, r.stage, r.mem)
  BY SeqRequest DEF SaveRequest, Sequenced
<1>2. /\ row'.data = Prepared(r.op, r.stage, r.mem.data)
      /\ row'.status = IF r.mem.status /= "queued" THEN "queued" ELSE row.status
  BY DEF SaveRequest, Stored
<1>3. Ordered(row'.data)
  BY <1>1, <1>2, PreparedOrdered
<1>4. row'.status /= "awaiting_script_review"
  BY <1>1, <1>2 DEF Permitted, Operations
<1>5. /\ req'[i] = NoRequest /\ UNCHANGED can
      /\ ex'[i] = ex[i] \/ (ex'[i].pc = "claim" /\ ex'[i].mem = NoJob)
  BY DEF SaveRequest, Scheduled, NoTask, Inv, TypeOK
<1>6. Ordered(ex'[i].mem.data) /\ Stood(ex'[i].pc, ex'[i].at, ex'[i].mem.data)
  BY <1>5, SeqFields, NewDataOrdered DEF Stood, Filming, Staged
<1>7. Sequenced(i)'
  BY <1>4, <1>5, <1>6, NewDataOrdered DEF Sequenced, Calm
<1>8. \A j \in Instances : Sequenced(j)'
  BY <1>7, OthersSequenced DEF SaveRequest, Inv, TypeOK
<1>9. QED
  BY <1>3, <1>4, <1>5, <1>8 DEF SeqInv, Calm

\* A task is told to stop; what it holds and where it is stay.
LEMMA StopKeepsSeq ==
  ASSUME Inv, SeqInv, NEW i \in Instances, Sole(i),
         ex' = [ex EXCEPT ![i].stop = (ex[i].pc /= "off")], UNCHANGED <<row, req>>,
         Ordered(can'.mem.data), can'.pc = "save" => can'.mem.status \in Cancellable
  PROVE  SeqInv'
<1>1. ex'[i].pc = ex[i].pc /\ ex'[i].at = ex[i].at /\ ex'[i].mem = ex[i].mem
  BY DEF Inv, TypeOK, Task
<1>2. Sequenced(i)
  BY DEF SeqInv
<1>3. Sequenced(i)'
  BY <1>1, <1>2 DEF Sequenced
<1>4. \A j \in Instances : Sequenced(j)'
  BY <1>3, OthersSequenced DEF Inv, TypeOK
<1>5. QED
  BY <1>4 DEF SeqInv

\* A cancel request reads the job and tells the task of its instance to stop.
LEMMA BeginCancelKeepsSeq ==
  ASSUME Inv, SeqInv, NEW i \in Instances, Sole(i), BeginCancel(i) PROVE SeqInv'
<1>1. /\ can' = [pc |-> "save", at |-> i, mem |-> row] /\ row.status \in Cancellable
      /\ UNCHANGED <<row, req>>
  BY DEF BeginCancel, jobVars
<1>2. Ordered(can'.mem.data) /\ can'.mem.status \in Cancellable
  BY <1>1 DEF SeqInv
<1>3. QED
  BY <1>1, <1>2, StopKeepsSeq DEF BeginCancel

\* The cancel request writes its copy and the status.
LEMMA SaveCancelKeepsSeq ==
  ASSUME Inv, SeqInv, SaveCancel PROVE SeqInv'
<1>1. /\ row'.data = can.mem.data
      /\ row'.status = IF "cancelled" /= can.mem.status THEN "cancelled" ELSE row.status
      /\ can.pc = "save" /\ can'.pc = "refund" /\ can'.mem = NoJob /\ UNCHANGED <<ex, req>>
  BY DEF SaveCancel, Stored, Inv, TypeOK, CancelHandler
<1>2. row'.status = "cancelled"
  BY <1>1 DEF SeqInv, Cancellable
<1>3. Ordered(row'.data) /\ Calm(row') /\ Ordered(can'.mem.data)
  BY <1>1, <1>2, NewDataOrdered DEF SeqInv, Calm
<1>4. ASSUME NEW i \in Instances PROVE Sequenced(i)'
  BY <1>1, <1>2 DEF SeqInv, Sequenced
<1>5. QED
  BY <1>1, <1>3, <1>4 DEF SeqInv

\* Everything on an instance ends.
LEMMA StoppedKeepsSeq ==
  ASSUME Inv, SeqInv, NEW i \in Instances, Sole(i), Stopped(i), UNCHANGED row
  PROVE  SeqInv'
<1>1. ex'[i] = NoTask /\ req'[i] = NoRequest /\ (can' = NoCancel \/ can' = can)
  BY DEF Stopped, Inv, TypeOK
<1>2. Sequenced(i)'
  BY <1>1, NewDataOrdered DEF Sequenced, Stood, Filming, Staged, Resting, Calm
<1>3. \A j \in Instances : Sequenced(j)'
  BY <1>2, OthersSequenced DEF Stopped, Inv, TypeOK
<1>4. QED
  BY <1>1, <1>3, NewDataOrdered DEF SeqInv

\* A failure that the deployment repairs is queued with the same stages.
LEMMA BootKeepsSeq ==
  ASSUME Inv, SeqInv, NEW i \in Instances, Sole(i), Boot(i) PROVE SeqInv'
<1> DEFINE old == row.data
           new == [old EXCEPT !.retries[old.cur] = 0, !.error = "none", !.repaired = TRUE]
<1>1. old \in Data /\ Ordered(old) /\ Sequenced(i) /\ UNCHANGED <<ex, req, can>>
  BY SeqRequest DEF Boot
<1>2. row' = [status |-> "queued", data |-> new] \/ row' = row
  BY DEF Boot
<1>3. new \in Data /\ new.stage = old.stage /\ new.out = old.out /\ new.cur = old.cur
  <2>1. [old.retries EXCEPT ![old.cur] = 0] \in [Places -> 0..MaxAutomatic]
    BY <1>1 DEF Data
  <2>2. QED
    BY <1>1, <2>1 DEF Data, Errors
<1> HIDE DEF new
<1>4. Ordered(new)
  BY <1>1, <1>3, SameOrdered
<1>5. Ordered(row'.data) /\ Calm(row')
      /\ (row'.status = "awaiting_script_review" => row.status = "awaiting_script_review")
  BY <1>1, <1>2, <1>4, SeqRequest DEF Calm
<1>6. QED
  BY <1>1, <1>5, SeqRequest, RequestKeepsSeq DEF Sequenced

\* resume_pending schedules the task.
LEMMA TimerFiresKeepsSeq ==
  ASSUME Inv, SeqInv, NEW i \in Instances, Sole(i), TimerFires(i) PROVE SeqInv'
<1>1. /\ UNCHANGED <<row, req, can>>
      /\ ex'[i] = ex[i] \/ (ex'[i].pc = "claim" /\ ex'[i].mem = NoJob)
  BY DEF TimerFires, Scheduled, NoTask, Inv, TypeOK, jobVars
<1>2. Sequenced(i)'
  BY <1>1, SeqFields, NewDataOrdered DEF Sequenced, Stood, Filming, Staged, Resting
<1>3. \A j \in Instances : Sequenced(j)'
  BY <1>2, OthersSequenced DEF TimerFires, Inv, TypeOK
<1>4. QED
  BY <1>1, <1>3 DEF SeqInv

\* Nothing has begun at the start.
LEMMA InitSeq == Init => SeqInv
<1> SUFFICES ASSUME Init PROVE SeqInv
  OBVIOUS
<1>1. row = NoJob /\ can = NoCancel
  BY DEF Init
<1>2. ASSUME NEW i \in Instances PROVE Sequenced(i)
  BY NewDataOrdered DEF Init, Sequenced, Stood, Filming, Staged, Resting, Calm
<1>3. QED
  BY <1>1, <1>2, NewDataOrdered DEF SeqInv, Calm

\* Every step of an executor keeps the stages in order.
LEMMA ExecutorKeepsSeq ==
  ASSUME Inv, SeqInv, NEW i \in Instances, Sole(i), Executor(i) \/ Trouble(i)
  PROVE  SeqInv'
<1>1. CASE Claim(i) \/ Load(i) \/ Delivered(i) \/ Dispatch(i)
  BY <1>1, ClaimKeepsSeq, LoadKeepsSeq, DeliveredKeepsSeq, DispatchKeepsSeq
<1>2. CASE \/ BeginStage(i) \/ Worked(i) \/ CompleteStage(i) \/ CompleteLast(i)
           \/ Blocked(i) \/ CompleteStoryboard(i) \/ Review(i)
  BY <1>2, BeginStageKeepsSeq, WorkedKeepsSeq, CompleteStageKeepsSeq, CompleteLastKeepsSeq,
     BlockedKeepsSeq, CompleteStoryboardKeepsSeq, ReviewKeepsSeq
<1>3. CASE \/ NextScene(i) \/ TakePasses(i) \/ AcceptScene(i) \/ Fetched(i)
           \/ ReadAuthorized(i) \/ Settle(i) \/ SaveCosts(i) \/ Finish(i) \/ Published(i)
  <2>1. CASE AcceptScene(i)
    BY <2>1, SceneGeneratedKeepsSeq DEF AcceptScene
  <2>2. QED
    BY <1>3, <2>1, NextSceneKeepsSeq, TakePassesKeepsSeq, FetchedKeepsSeq, SettleKeepsSeq,
       SaveCostsKeepsSeq, FinishKeepsSeq, PublishedKeepsSeq
<1>4. CASE \/ FailStage(i) \/ ScheduleRetry(i) \/ Wake(i) \/ FailJob(i) \/ RefundFailure(i)
           \/ Interrupt(i) \/ SaveInterrupt(i)
  BY <1>4, FailStageKeepsSeq, ScheduleRetryKeepsSeq, WakeKeepsSeq, FailJobKeepsSeq,
     RefundFailureKeepsSeq, InterruptKeepsSeq, SaveInterruptKeepsSeq
<1>5. CASE Trouble(i)
  BY <1>5, ScriptRejectedKeepsSeq, PolicyBlocksKeepsSeq, TakeRejectedKeepsSeq, RaiseKeepsSeq
  DEF Trouble
<1>6. QED
  BY <1>1, <1>2, <1>3, <1>4, <1>5 DEF Executor

\* Every step keeps the stages in order.
LEMMA NextKeepsSeq ==
  ASSUME Inv, SeqInv, ApartInv, [Next]_vars, [Apart]_vars
  PROVE  SeqInv'
<1>0. TypeOK
  BY DEF Inv
<1>1. ASSUME UNCHANGED <<row, ex, req>>, can' = can \/ can' = NoCancel PROVE SeqInv'
  BY <1>1, NewDataOrdered DEF SeqInv, Sequenced
<1>2. CASE ServeCancel \/ SpendElsewhere
  BY <1>1, <1>2, SaveCancelKeepsSeq DEF ServeCancel, RefundCancelled, SpendElsewhere, jobVars
<1>3. ASSUME NEW i \in Instances, Executor(i) \/ Trouble(i) PROVE SeqInv'
  BY <1>0, <1>3, ApartSteps, ExecutorKeepsSeq DEF Writes
<1>4. ASSUME NEW i \in Instances, Request(i) \/ Serve(i) PROVE SeqInv'
  BY <1>0, <1>4, ApartSteps, BeginRequestKeepsSeq, BeginCreateKeepsSeq, ChargeReserveKeepsSeq,
     ChargeRefusedKeepsSeq, SaveRequestKeepsSeq
  DEF Request, Serve, Writes
<1>5. ASSUME NEW i \in Instances, BeginCancel(i) \/ Shutdown(i) PROVE SeqInv'
  <2>1. CASE Shutdown(i)
    BY <1>0, <2>1, ApartSteps, StopKeepsSeq DEF Shutdown, SeqInv, jobVars, Writes
  <2>2. QED
    BY <1>0, <1>5, <2>1, ApartSteps, BeginCancelKeepsSeq DEF Writes
<1>6. ASSUME NEW i \in Instances, Crash(i) \/ Host(i) PROVE SeqInv'
  BY <1>0, <1>6, ApartSteps, StoppedKeepsSeq, BootKeepsSeq, TimerFiresKeepsSeq
  DEF Crash, Exit, Host, jobVars, Writes
<1>7. CASE UNCHANGED vars
  BY <1>1, <1>7 DEF vars
<1>8. QED
  BY <1>2, <1>3, <1>4, <1>5, <1>6, <1>7 DEF Next

\* Ordered data holds the checkpoints that a resumed pipeline reads.
LEMMA OrderedResumes ==
  ASSUME NEW data \in Data, Ordered(data)
  PROVE  /\ RenderPending(data) => RenderCheckpoints(data)
         /\ ScenesPending(data) => SceneCheckpoints(data)
<1>1. Storyboard \in data.out => {Intake, Research, Script, Policy} \subseteq data.out /\ Written(data)
  BY StageNumbers DEF Ordered, Written
<1>2. ScenesPending(data) => SceneCheckpoints(data)
  BY <1>1 DEF ScenesPending, SceneCheckpoints
<1>3. ASSUME RenderPending(data) PROVE RenderCheckpoints(data)
  <2>1. Filmed(data)
    BY <1>3 DEF RenderPending, RenderBegun, Ordered
  <2>2. {Storyboard, Scenes, Voice} \subseteq data.out
    BY <2>1, StageNumbers DEF Filmed, Ordered
  <2>3. QED
    BY <1>1, <2>1, <2>2, StageNumbers
    DEF Filmed, Written, RenderCheckpoints, CompletedWithOutput
<1>4. QED
  BY <1>2, <1>3

\* A pipeline that resumes finds every checkpoint it reads, whatever was
\* retried, regenerated, cancelled, interrupted or lost before: where the API
\* runs on one instance, or on several that are orderly, no job can only raise
\* "Cannot resume".
THEOREM ResumeHasCheckpointsHolds == Spec /\ [][Apart]_vars => []ResumeHasCheckpoints
<1>1. Inv /\ SeqInv => ResumeHasCheckpoints
  BY SeqFields, OrderedResumes DEF ResumeHasCheckpoints
<1>2. Inv /\ SeqInv /\ ApartInv /\ [Next]_vars /\ [Apart]_vars => SeqInv'
  BY NextKeepsSeq
<1>3. QED
  BY <1>1, <1>2, InitSeq, ApartHolds, InvHolds, PTL DEF Spec

(***************************************************************************)
(* The invariant behind FailureIsRefunded: from the commit of "failed" the *)
(* executor goes straight to the refund, and afterwards only a request     *)
(* that queues the job charges it again.                                   *)
(***************************************************************************)
\* Where an executor is while the job has failed.
FailedRests == {"failed", "refund", "failTail", "off", "claim"}

Refunding(i) ==
  /\ up[i] = "stopping" => req[i].pc = "idle"
  /\ ex[i].pc = "failed" => ex[i].mem.status = "failed"
  /\ ex[i].mem.status = "failed" => ex[i].pc \in {"failed", "refund", "failTail"}
  /\ req[i].pc /= "idle" /\ req[i].op = "create" => row.status /= "failed"
  /\ row.status = "failed" => ex[i].pc \in FailedRests

\* Whoever failed the job will refund it, or a retry has paid for it again.
Owing(i) == ex[i].pc \in {"failed", "refund"} \/ req[i].pc = "save"

RefundInv ==
  /\ \A i \in Instances : Refunding(i)
  /\ row.status = "failed" => Outstanding(book) = 0 \/ \E i \in Instances : Owing(i)

\* A refund leaves nothing outstanding.
LEMMA RefundedOwesNothing == ASSUME NEW b \in Book PROVE Outstanding(Refunded(b)) = 0
  BY BookNets, BookTypes DEF Outstanding

\* What a step of instance i leaves of the others.
LEMMA OthersRefund ==
  ASSUME RefundInv, NEW i \in Instances, Spares(i), Refunding(i)',
         \/ row'.status /= "failed" \/ Outstanding(book') = 0 \/ Owing(i)'
         \/ row'.status = row.status /\ book' = book /\ ~Owing(i)
  PROVE  RefundInv'
<1>1. ASSUME NEW j \in Instances, j /= i
      PROVE  Refunding(j) /\ ex'[j] = ex[j] /\ req'[j] = req[j] /\ up'[j] = up[j]
  BY <1>1 DEF RefundInv, Spares
<1>2. ASSUME NEW j \in Instances, j /= i PROVE Refunding(j)'
  <2>1. CASE UNCHANGED <<row, gen>>
    BY <1>1, <1>2, <2>1 DEF Refunding
  <2>2. CASE ex[j].pc \in AtRest /\ req[j].pc = "idle"
    BY <1>1, <1>2, <2>2 DEF Refunding, AtRest, FailedRests
  <2>3. QED
    BY <1>2, <2>1, <2>2 DEF Spares, Sole
<1>3. row'.status = "failed" => Outstanding(book') = 0 \/ \E j \in Instances : Owing(j)'
  <2>1. CASE row'.status /= "failed" \/ Outstanding(book') = 0 \/ Owing(i)'
    BY <2>1
  <2>2. CASE row'.status = "failed" /\ row.status = "failed" /\ book' = book /\ ~Owing(i)
    <3>1. CASE Outstanding(book) = 0
      BY <2>2, <3>1
    <3>2. CASE \E j \in Instances : Owing(j)
      <4>1. PICK j \in Instances : Owing(j)
        BY <3>2
      <4>2. j /= i
        BY <2>2, <4>1
      <4>3. Owing(j)'
        BY <1>1, <4>1, <4>2 DEF Owing
      <4>4. QED
        BY <4>3
    <3>3. QED
      BY <2>2, <3>1, <3>2 DEF RefundInv
  <2>3. QED
    BY <2>1, <2>2
<1>4. QED
  BY <1>2, <1>3 DEF RefundInv

\* A commit of anything but a failure.
LEMMA CommitKeepsRefund ==
  ASSUME TypeOK, RefundInv, NEW i \in Instances, Spares(i), NEW e \in Task, NEW pc,
         NEW data, NEW status, Commit(i, e, pc, data, status),
         status /= "failed" \/ (status = ex[i].mem.status /\ ex[i].pc /= "failed"),
         ex[i].pc \notin FailedRests \ {"failed"}, pc /= "failed",
         UNCHANGED <<req, up>>
  PROVE  RefundInv'
<1>1. Refunding(i)
  BY DEF RefundInv
<1>2. row'.status /= "failed"
  BY <1>1, CommitDoes DEF Refunding, FailedRests
<1>3. ex'[i].pc /= "failed" /\ ex'[i].mem.status /= "failed"
  BY <1>2, CommitDoes, NewDataOrdered DEF NoTask
<1>4. Refunding(i)'
  BY <1>1, <1>2, <1>3 DEF Refunding
<1>5. QED
  BY <1>2, <1>4, OthersRefund

\* A step of an executor within the process, while the job has not failed.
LEMMA MoveKeepsRefund ==
  ASSUME RefundInv, NEW i \in Instances, Spares(i), ex[i].pc \notin FailedRests,
         ex'[i].pc /= "failed", ex'[i].mem \in {ex[i].mem, row, NoJob},
         UNCHANGED <<row, req, up>>
  PROVE  RefundInv'
<1>1. Refunding(i)
  BY DEF RefundInv
<1>2. row.status /= "failed" /\ ex'[i].mem.status /= "failed"
  BY <1>1, NewDataOrdered DEF Refunding, FailedRests
<1>3. Refunding(i)'
  BY <1>1, <1>2 DEF Refunding
<1>4. QED
  BY <1>2, <1>3, OthersRefund

\* A task that has nothing to refund ends.
LEMMA EndKeepsRefund ==
  ASSUME TypeOK, RefundInv, NEW i \in Instances, Spares(i), Step(i, NoTask),
         ex[i].pc \notin {"failed", "refund"}, UNCHANGED <<row, book, req, up>>
  PROVE  RefundInv'
<1>1. Refunding(i) /\ ex'[i] = NoTask
  BY StepDoes DEF RefundInv
<1>2. ex'[i].pc = "off" /\ ex'[i].mem.status = "none"
  BY <1>1, NewDataOrdered DEF NoTask
<1>3. Refunding(i)'
  BY <1>1, <1>2 DEF Refunding, FailedRests
<1>4. ~Owing(i) \/ Owing(i)'
  BY DEF Owing
<1>5. QED
  BY <1>3, <1>4, OthersRefund

\* Steps of run before and after the pipeline.
LEMMA RunKeepsRefund ==
  ASSUME TypeOK, RefundInv, NEW i \in Instances, Spares(i),
         Claim(i) \/ Load(i) \/ Delivered(i) \/ Interrupt(i) \/ SaveInterrupt(i)
  PROVE  RefundInv'
<1>1. Refunding(i) /\ ex[i] \in Task
  BY DEF RefundInv, TypeOK
<1>2. CASE Claim(i)
  <2>1. CASE Claimable(row)
    <3>1. /\ row'.status = "running" /\ Step(i, Goto(ex[i], "load")) /\ UNCHANGED <<req, up>>
          /\ ex[i].pc = "claim"
      BY <1>2, <2>1 DEF Claim, hostVars
    <3>2. ex'[i].pc = "load" /\ ex'[i].mem = ex[i].mem
      BY <3>1, GotoDoes
    <3>3. Refunding(i)'
      BY <1>1, <3>1, <3>2 DEF Refunding
    <3>4. QED
      BY <3>1, <3>3, OthersRefund
  <2>2. CASE ~Claimable(row)
    BY <1>2, <2>2, EndKeepsRefund DEF Claim, money, hostVars
  <2>3. QED
    BY <2>1, <2>2
<1>3. CASE Load(i)
  <2>1. ex[i].pc = "load" /\ UNCHANGED <<row, req, up>>
    BY <1>3 DEF Load, jobVars, hostVars
  <2>2. ex'[i].mem \in {row, NoJob} /\ ex'[i].pc /= "failed"
    <3>1. ex'[i] = NoTask \/ ex'[i] = [ex[i] EXCEPT !.pc = EmitOr("started"), !.mem = row]
      BY <1>3, StepDoes DEF Load
    <3>2. EmitOr("started") /= "failed"
      BY DEF EmitOr, Emitted
    <3>3. NoTask.pc = "off" /\ NoTask.mem = NoJob
      BY DEF NoTask
    <3>4. QED
      BY <1>1, <3>1, <3>2, <3>3 DEF Task
  <2>3. QED
    BY <2>1, <2>2, MoveKeepsRefund DEF FailedRests
<1>4. CASE Delivered(i)
  <2>1. /\ ex[i].pc \in {"started", "note", "retryTail", "failTail", "tail"}
        /\ Step(i, Goto(ex[i], Emitted[ex[i].pc])) /\ UNCHANGED <<row, book, req, up>>
    BY <1>4 DEF Delivered, Emitted, jobVars, money, hostVars
  <2>2. CASE ex[i].pc \in {"failTail", "tail"}
    BY <2>1, <2>2, EndKeepsRefund DEF Emitted, Goto
  <2>3. CASE ex[i].pc \in {"started", "note", "retryTail"}
    <3>1. Emitted[ex[i].pc] \in {"dispatch", "done", "sleep"}
      BY <2>3 DEF Emitted
    <3>2. ex'[i].pc /= "failed" /\ ex'[i].mem = ex[i].mem
      BY <2>1, <3>1, GotoDoes
    <3>3. QED
      BY <2>1, <2>3, <3>2, MoveKeepsRefund DEF FailedRests
  <2>4. QED
    BY <2>1, <2>2, <2>3
<1>5. CASE Interrupt(i)
  <2>1. UNCHANGED <<row, book, req, up>> /\ ex[i].pc \in Awaits
    BY <1>5 DEF Interrupt, jobVars, money, hostVars
  <2>2. CASE ex[i].pc \in OuterAwaits
    BY <1>5, <2>1, <2>2, EndKeepsRefund DEF Interrupt, OuterAwaits
  <2>3. CASE ex[i].pc \notin OuterAwaits
    <3>1. ex'[i] = [ex[i] EXCEPT !.pc = "interrupt", !.mem = row]
      BY <1>5, <2>3, StepDoes DEF Interrupt
    <3>2. ex'[i].pc = "interrupt" /\ ex'[i].mem = row
      BY <1>1, <3>1 DEF Task
    <3>3. ex[i].pc \notin FailedRests
      BY <2>1, <2>3 DEF Awaits, OuterAwaits, InnerAwaits, FailedRests
    <3>4. QED
      BY <2>1, <3>2, <3>3, MoveKeepsRefund
  <2>4. QED
    BY <2>2, <2>3
<1>6. CASE SaveInterrupt(i)
  <2>1. ex[i].pc = "interrupt" /\ UNCHANGED <<book, req, up>>
    BY <1>6 DEF SaveInterrupt, money, hostVars
  <2>2. CASE ex[i].mem.status = "cancelled"
    BY <1>6, <2>1, <2>2, EndKeepsRefund DEF SaveInterrupt
  <2>3. CASE ex[i].mem.status /= "cancelled"
    <3>1. Commit(i, ex[i], "off", [ex[i].mem.data EXCEPT !.interrupted = TRUE], "running")
      BY <1>6, <2>3 DEF SaveInterrupt
    <3>2. QED
      BY <1>1, <2>1, <3>1, CommitKeepsRefund DEF FailedRests
  <2>4. QED
    BY <2>2, <2>3
<1>7. QED
  BY <1>2, <1>3, <1>4, <1>5, <1>6

\* The task that goes on to the next stage is a task.
LEMMA CompleteStageTask ==
  ASSUME Inv, NEW i \in Instances, CompleteStage(i)
  PROVE  LET data == WithOutput(SetStage(ex[i].mem.data, ex[i].at, "completed"), ex[i].at)
             next == NextStage(data, ex[i].at + 1)
         IN  next \in STAGES /\ [ex[i] EXCEPT !.at = next] \in Task
<1> DEFINE at == ex[i].at
           data == WithOutput(SetStage(ex[i].mem.data, at, "completed"), at)
           next == NextStage(data, at + 1)
<1>1. ex[i] \in Task /\ ex[i].mem.data \in Data /\ at \in STAGES /\ at /= Scoring
  BY TaskFields DEF Inv, TaskGated, Placed, Staged, CompleteStage
<1>2. at \in Places /\ "completed" \in StageStatus /\ at + 1 \in STAGES
  BY <1>1, StageNumbers DEF StageStatus
<1>3. data \in Data
  BY <1>1, <1>2, SetStageType, WithOutputType
<1> HIDE DEF data
<1>4. next \in STAGES /\ next \in 0..Scoring
  BY <1>2, <1>3, NextStageType, StageNumbers
<1> HIDE DEF next
<1>5. [ex[i] EXCEPT !.at = next] \in Task
  BY <1>1, <1>4 DEF Task
<1>6. QED
  BY <1>4, <1>5 DEF data, next

\* The steps of the pipeline.
LEMMA PipelineKeepsRefund ==
  ASSUME Inv, RefundInv, NEW i \in Instances, Spares(i),
         \/ Dispatch(i) \/ BeginStage(i) \/ Worked(i) \/ ScriptRejected(i) \/ CompleteStage(i)
         \/ CompleteLast(i) \/ PolicyBlocks(i) \/ Blocked(i) \/ CompleteStoryboard(i) \/ Review(i)
         \/ SaveCosts(i) \/ Finish(i) \/ Published(i)
  PROVE  RefundInv'
<1>1. TypeOK /\ ex[i] \in Task
  BY TaskFields DEF Inv
<1>2. UNCHANGED <<req, up>>
  BY DEF Dispatch, BeginStage, Worked, ScriptRejected, CompleteStage, CompleteLast, PolicyBlocks,
     Blocked, CompleteStoryboard, Review, SaveCosts, Finish, Published, hostVars
<1>3. ex[i].pc \notin FailedRests
  BY DEF Dispatch, BeginStage, Worked, ScriptRejected, CompleteStage, CompleteLast, PolicyBlocks,
     Blocked, CompleteStoryboard, Review, SaveCosts, Finish, Published, FailedRests
<1>4. ASSUME NEW e \in Task, NEW pc, pc /= "failed", NEW data, NEW status,
             status /= "failed" \/ status = ex[i].mem.status, Commit(i, e, pc, data, status)
      PROVE  RefundInv'
  BY <1>1, <1>2, <1>3, <1>4, CommitKeepsRefund DEF FailedRests
<1>5. ASSUME NEW pc, pc \notin {"failed", "off"}, Step(i, Goto(ex[i], pc)), UNCHANGED row
      PROVE  RefundInv'
  <2>1. ex'[i].pc = pc /\ ex'[i].mem = ex[i].mem
    BY <1>1, <1>5, GotoDoes
  <2>2. QED
    BY <1>2, <1>3, <1>5, <2>1, MoveKeepsRefund
<1>6. CASE Dispatch(i)
  <2>1. ASSUME Step(i, Raised(ex[i], "permanent")), UNCHANGED row PROVE RefundInv'
    <3>1. ex'[i].pc = "failing" /\ ex'[i].mem = ex[i].mem
      BY <1>1, <2>1, StepDoes DEF Raised, Task
    <3>2. QED
      BY <1>2, <1>3, <2>1, <3>1, MoveKeepsRefund
  <2> DEFINE data == ex[i].mem.data
  <2>2. CASE ResumeRender(i, data)
    <3>1. CASE RenderCheckpoints(data)
      <4>1. ex'[i] = [ex[i] EXCEPT !.pc = "fetch", !.at = Render] /\ row' = row
        BY <1>1, <2>2, <3>1, StepDoes DEF ResumeRender
      <4>2. ex'[i].pc = "fetch" /\ ex'[i].mem = ex[i].mem
        BY <1>1, <4>1 DEF Task
      <4>3. QED
        BY <1>2, <1>3, <4>1, <4>2, MoveKeepsRefund
    <3>2. QED
      BY <2>1, <2>2, <3>1 DEF ResumeRender
  <2>3. CASE ResumeScenes(i, data)
    <3>1. CASE SceneCheckpoints(data)
      <4> DEFINE e == [ex[i] EXCEPT !.at = Scenes, !.board = data.board]
      <4>1. Scenes \in 0..Scoring /\ data.board \in Boards
        BY TaskFields, StageNumbers DEF Inv, Data
      <4>2. e \in Task
        BY <1>1, <4>1 DEF Task
      <4>3. Commit(i, e, "stage", WithOutput(SetStage(data, Storyboard, "completed"), Storyboard),
                   "running")
        BY <2>3, <3>1 DEF ResumeScenes
      <4> HIDE DEF e
      <4>4. QED
        BY <1>4, <4>2, <4>3
    <3>2. QED
      BY <2>1, <2>3, <3>1 DEF ResumeScenes
  <2>4. CASE FromTheTop(i, data)
    <3> DEFINE e == [ex[i] EXCEPT !.at = NextStage(data, Intake)]
    <3>1. NextStage(data, Intake) \in 0..Scoring
      BY TaskFields, NextStageType, StageNumbers DEF Inv
    <3>2. e \in Task
      BY <1>1, <3>1 DEF Task
    <3>3. Commit(i, e, "stage", data, ex[i].mem.status)
      BY <2>4 DEF FromTheTop
    <3> HIDE DEF e
    <3>4. QED
      BY <1>4, <3>2, <3>3
  <2>5. QED
    BY <1>6, <2>2, <2>3, <2>4 DEF Dispatch
<1>7. CASE Worked(i)
  BY <1>5, <1>7 DEF Worked, jobVars
<1>8. CASE BeginStage(i)
  <2> DEFINE todo == IF ex[i].at = Scenes THEN 1..NumScenes ELSE {}
             e == [ex[i] EXCEPT !.todo = todo, !.tries = 0]
             pc == IF ex[i].at = Scenes THEN "scene" ELSE IF ex[i].at \in Waits THEN "work" ELSE "done"
  <2>1. Commit(i, e, pc, SetStage(ex[i].mem.data, ex[i].at, "running"), "running")
    BY <1>8 DEF BeginStage
  <2>2. todo \in SUBSET (1..NumScenes) /\ 0 \in 0..NativeRetries /\ pc /= "failed"
    OBVIOUS
  <2> HIDE DEF todo, pc
  <2>3. e \in Task
    BY <1>1, <2>2 DEF Task
  <2> HIDE DEF e
  <2>4. QED
    BY <1>4, <2>1, <2>2, <2>3
<1>9. CASE CompleteStage(i)
  <2> DEFINE data == WithOutput(SetStage(ex[i].mem.data, ex[i].at, "completed"), ex[i].at)
             e == [ex[i] EXCEPT !.at = NextStage(data, ex[i].at + 1)]
  <2>1. Commit(i, e, "stage", data, "running")
    BY <1>9 DEF CompleteStage
  <2>2. e \in Task
    BY <1>9, CompleteStageTask
  <2> HIDE DEF e, data
  <2>3. QED
    BY <1>4, <2>1, <2>2
<1>10. CASE CompleteStoryboard(i)
  <2> DEFINE e == [ex[i] EXCEPT !.at = Scenes, !.board = boards']
  <2>1. PICK pc, data : pc \in {"review", "stage"} /\ Commit(i, e, pc, data, "running")
    BY <1>10 DEF CompleteStoryboard
  <2>2. boards' \in Boards /\ Scenes \in 0..Scoring
    <3>1. boards \in Boards /\ boards < MaxStoryboards /\ boards' = boards + 1
      BY <1>1, <1>10 DEF TypeOK, CompleteStoryboard
    <3>2. QED
      BY <3>1, StageNumbers DEF Boards
  <2>3. e \in Task
    BY <1>1, <2>2 DEF Task
  <2> HIDE DEF e
  <2>4. QED
    BY <1>4, <2>1, <2>3
<1>11. CASE SaveCosts(i)
  <2> DEFINE e == [ex[i] EXCEPT !.at = Render]
  <2>1. Commit(i, e, "stage", ex[i].mem.data, ex[i].mem.status)
    BY <1>11 DEF SaveCosts
  <2>2. Render \in 0..Scoring
    BY StageNumbers
  <2>3. e \in Task
    BY <1>1, <2>2 DEF Task
  <2> HIDE DEF e
  <2>4. QED
    BY <1>4, <2>1, <2>3
<1>12. CASE \/ ScriptRejected(i) \/ CompleteLast(i) \/ PolicyBlocks(i) \/ Blocked(i) \/ Review(i)
            \/ Finish(i) \/ Published(i)
  <2>1. EmitOr("tail") /= "failed" /\ EmitOr("note") /= "failed"
    BY TailStood
  <2>2. PICK pc, data, status : /\ Commit(i, ex[i], pc, data, status) /\ pc /= "failed"
                                /\ status /= "failed" \/ status = ex[i].mem.status
    BY <1>12, <2>1 DEF ScriptRejected, CompleteLast, PolicyBlocks, Blocked, Review, Finish, Published
  <2>3. QED
    BY <1>1, <1>4, <2>2
<1>13. QED
  BY <1>6, <1>7, <1>8, <1>9, <1>10, <1>11, <1>12

\* The steps of the scenes and of the settlement, and exceptions.
LEMMA ScenesKeepRefund ==
  ASSUME Inv, RefundInv, NEW i \in Instances, Spares(i),
         \/ NextScene(i) \/ TakePasses(i) \/ TakeRejected(i) \/ AcceptScene(i) \/ Fetched(i)
         \/ ReadAuthorized(i) \/ Settle(i) \/ Wake(i)
         \/ \E kind \in Errors \ {"none"} : Raise(i, kind)
  PROVE  RefundInv'
<1>1. TypeOK /\ ex[i] \in Task
  BY TaskFields DEF Inv
<1>2. UNCHANGED <<row, req, up>>
  BY DEF NextScene, TakePasses, TakeRejected, AcceptScene, Fetched, ReadAuthorized, Settle,
     Wake, Raise, jobVars, hostVars
<1>3. ex[i].pc \notin FailedRests
  BY DEF NextScene, TakePasses, TakeRejected, AcceptScene, Fetched, ReadAuthorized, Settle,
     Wake, Raise, MayRaise, FailedRests
<1>4. ASSUME NEW pc, pc \notin {"failed", "off"}, Step(i, Goto(ex[i], pc)) PROVE RefundInv'
  <2>1. ex'[i].pc = pc /\ ex'[i].mem = ex[i].mem
    BY <1>1, <1>4, GotoDoes
  <2>2. QED
    BY <1>2, <1>3, <1>4, <2>1, MoveKeepsRefund
<1>5. ASSUME NEW kind, Step(i, Raised(ex[i], kind)) PROVE RefundInv'
  <2>1. ex'[i].pc = "failing" /\ ex'[i].mem = ex[i].mem
    BY <1>1, <1>5, StepDoes DEF Raised, Task
  <2>2. QED
    BY <1>2, <1>3, <2>1, MoveKeepsRefund
<1>6. ASSUME Step(i, SceneGenerated(ex[i])) PROVE RefundInv'
  <2>1. ex'[i].pc = "scene" /\ ex'[i].mem = ex[i].mem
    <3>1. ex'[i] = SceneGenerated(ex[i])
      BY <1>1, <1>6, StepDoes
    <3>2. SceneGenerated(ex[i]).pc = "scene" /\ SceneGenerated(ex[i]).mem = ex[i].mem
      BY <1>1 DEF SceneGenerated, Task
    <3>3. QED
      BY <3>1, <3>2
  <2>2. QED
    BY <1>2, <1>3, <2>1, MoveKeepsRefund
<1>7. CASE NextScene(i) \/ TakePasses(i) \/ Wake(i)
  BY <1>4, <1>7 DEF NextScene, TakePasses, Wake
<1>8. CASE AcceptScene(i) \/ Fetched(i)
  BY <1>4, <1>6, <1>8 DEF AcceptScene, Fetched
<1>9. CASE \E kind \in Errors \ {"none"} : Raise(i, kind)
  BY <1>5, <1>9 DEF Raise
<1>10. CASE TakeRejected(i)
  <2>1. CASE ex[i].tries < NativeRetries
    <3>1. ex'[i] = [ex[i] EXCEPT !.tries = @ + 1]
      BY <1>1, <1>10, <2>1, StepDoes DEF TakeRejected
    <3>2. ex'[i].pc = ex[i].pc /\ ex'[i].mem = ex[i].mem
      BY <1>1, <3>1 DEF Task
    <3>3. QED
      BY <1>2, <1>3, <3>2, MoveKeepsRefund DEF FailedRests
  <2>2. QED
    BY <1>5, <1>10, <2>1 DEF TakeRejected
<1>11. CASE ReadAuthorized(i) \/ Settle(i)
  <2>1. \/ ex'[i] = [ex[i] EXCEPT !.pc = "settled", !.authorized = Outstanding(book)]
        \/ ex'[i] = [ex[i] EXCEPT !.pc = "costs", !.authorized = 0]
    BY <1>1, <1>11, StepDoes DEF ReadAuthorized, Settle
  <2>2. ex'[i].pc /= "failed" /\ ex'[i].mem = ex[i].mem
    BY <1>1, <2>1 DEF Task
  <2>3. QED
    BY <1>2, <1>3, <2>2, MoveKeepsRefund
<1>12. QED
  BY <1>7, <1>8, <1>9, <1>10, <1>11

\* From a failure to the refund.
LEMMA FailureKeepsRefund ==
  ASSUME Inv, RefundInv, NEW i \in Instances, Spares(i),
         FailStage(i) \/ ScheduleRetry(i) \/ FailJob(i) \/ RefundFailure(i)
  PROVE  RefundInv'
<1>1. TypeOK /\ ex[i] \in Task /\ Refunding(i) /\ book \in Book
  BY TaskFields DEF Inv, RefundInv, TypeOK
<1>2. UNCHANGED <<req, up>> /\ req[i].pc = "idle"
  BY DEF FailStage, ScheduleRetry, FailJob, RefundFailure, Runs, hostVars
<1>3. ASSUME Refunding(i)', Outstanding(book') = 0 \/ Owing(i)' PROVE RefundInv'
  BY <1>3, OthersRefund
<1>4. CASE FailStage(i)
  <2>1. /\ ex[i].pc = "failing"
        /\ Commit(i, ex[i], "failed", SetStage(ex[i].mem.data, ex[i].mem.data.cur, "failed"), "failed")
    BY <1>4 DEF FailStage
  <2>2. ex[i].mem.status /= "failed"
    BY <1>1, <2>1 DEF Refunding
  <2>3. row'.status = "failed" /\ ex'[i].pc = "failed" /\ ex'[i].mem = row'
    BY <1>1, <2>1, <2>2, CommitDoes
  <2>4. Refunding(i)'
    BY <1>1, <1>2, <2>3 DEF Refunding, FailedRests
  <2>5. QED
    BY <1>3, <2>3, <2>4 DEF Owing
<1>5. CASE ScheduleRetry(i)
  <2> DEFINE e == [ex[i] EXCEPT !.fault = "none"]
  <2>1. PICK data : Commit(i, e, EmitOr("retryTail"), data, "queued")
    BY <1>5 DEF ScheduleRetry
  <2>2. e \in Task
    BY <1>1 DEF Task, Errors
  <2>3. ex[i].pc = "failed" /\ EmitOr("retryTail") /= "failed"
    BY <1>5, TailStood DEF ScheduleRetry
  <2> HIDE DEF e
  <2>4. QED
    BY <1>1, <1>2, <2>1, <2>2, <2>3, CommitKeepsRefund
<1>6. CASE FailJob(i)
  <2>1. /\ ex[i].pc = "failed"
        /\ Commit(i, ex[i], "refund", [ex[i].mem.data EXCEPT !.error = ex[i].fault], "failed")
    BY <1>6 DEF FailJob
  <2>2. ex'[i].pc = "refund" /\ ex'[i].mem = row' /\ row'.status = row.status
    BY <1>1, <2>1, CommitDoes DEF Refunding
  <2>3. Refunding(i)'
    BY <1>1, <1>2, <2>2 DEF Refunding, FailedRests
  <2>4. QED
    BY <1>3, <2>2, <2>3 DEF Owing
<1>7. CASE RefundFailure(i)
  <2>1. /\ ex[i].pc = "refund" /\ book' = Refunded(book) /\ row' = row
        /\ Step(i, Goto(ex[i], EmitOr("failTail")))
    BY <1>7 DEF RefundFailure, Refund, jobVars
  <2>2. Outstanding(book') = 0
    BY <1>1, <2>1, RefundedOwesNothing
  <2>3. ex'[i].pc \in {"failTail", "off"}
    BY <1>1, <2>1, GotoDoes, TailStood
  <2>4. ex'[i].pc = "off" => ex'[i].mem.status = "none"
    <3>1. ex'[i].pc = "off" => ex'[i] = NoTask
      BY <1>1, <2>1, GotoDoes
    <3>2. NoTask.mem.status = "none"
      BY NewDataOrdered DEF NoTask
    <3>3. QED
      BY <3>1, <3>2
  <2>5. Refunding(i)'
    BY <1>1, <1>2, <2>1, <2>2, <2>3, <2>4 DEF Refunding, FailedRests
  <2>6. QED
    BY <1>3, <2>2, <2>5
<1>8. QED
  BY <1>4, <1>5, <1>6, <1>7

\* Requests.
LEMMA ServeKeepsRefund ==
  ASSUME Inv, SeqInv, RefundInv, NEW i \in Instances, Spares(i), Request(i) \/ Serve(i)
  PROVE  RefundInv'
<1>1. /\ TypeOK /\ ex[i] \in Task /\ Refunding(i) /\ book \in Book /\ Sequenced(i)
      /\ req \in [Instances -> Handler] /\ can \in CancelHandler
  BY TaskFields DEF Inv, RefundInv, TypeOK, SeqInv
<1>2. ASSUME Refunding(i)',
             row'.status /= "failed" \/ Owing(i)' \/ (row' = row /\ book' = book /\ ~Owing(i))
      PROVE  RefundInv'
  BY <1>2, OthersRefund
<1>3. ASSUME NEW op \in Offered, NEW s \in STAGES, BeginRequest(i, op, s) PROVE RefundInv'
  <2>1. /\ up[i] = "up" /\ req[i].pc = "idle" /\ Permitted(op, s, row)
        /\ UNCHANGED <<row, book, ex, up>> /\ ex[i].pc \in Awaits \cup {"off"}
    BY <1>3 DEF BeginRequest, LoopIsFree, jobVars, money
  <2>2. req'[i].op = op /\ req'[i].pc \in {"charge", "save"} /\ op /= "create"
    BY <1>1, <1>3, <2>1 DEF BeginRequest, Permitted
  <2>3. Refunding(i)'
    BY <1>1, <2>1, <2>2 DEF Refunding, Awaits, OuterAwaits, InnerAwaits, FailedRests
  <2>4. ~Owing(i) \/ Owing(i)'
    BY <2>1 DEF Owing
  <2>5. QED
    BY <1>2, <2>1, <2>3, <2>4
<1>4. ASSUME NEW review \in BOOLEAN, BeginCreate(i, review) PROVE RefundInv'
  <2>1. up[i] = "up" /\ row'.status = "queued" /\ UNCHANGED <<book, ex, up>>
    BY <1>4 DEF BeginCreate, money
  <2>2. Refunding(i)'
    BY <1>1, <2>1 DEF Refunding
  <2>3. QED
    BY <1>2, <2>1, <2>2
<1>5. CASE ChargeReserve(i)
  <2>1. /\ UNCHANGED <<row, ex, up>> /\ req[i].pc = "charge"
        /\ req'[i].pc = "save" /\ req'[i].op = req[i].op
    BY <1>1, <1>5 DEF ChargeReserve, jobVars, hostVars, Handler
  <2>2. Refunding(i)'
    BY <1>1, <2>1 DEF Refunding
  <2>3. QED
    BY <1>2, <2>1, <2>2 DEF Owing
<1>6. CASE ChargeRefused(i)
  <2>1. /\ UNCHANGED <<book, ex, up>> /\ req[i].pc = "charge" /\ req'[i].pc = "idle"
        /\ row' = NoJob \/ row' = row
    BY <1>1, <1>6, NewDataOrdered DEF ChargeRefused, money, hostVars
  <2>2. Refunding(i)'
    BY <1>1, <2>1, NewDataOrdered DEF Refunding
  <2>3. ~Owing(i) \/ Owing(i)'
    BY <2>1 DEF Owing
  <2>4. NoJob.status /= "failed"
    BY NewDataOrdered
  <2>5. QED
    BY <1>2, <2>1, <2>2, <2>3, <2>4
<1>7. CASE SaveRequest(i)
  <2>1. row'.status = IF req[i].mem.status /= "queued" THEN "queued" ELSE row.status
    BY <1>7 DEF SaveRequest, Stored
  <2>2. req[i].pc = "save" /\ UNCHANGED up /\ req'[i].pc = "idle"
    BY <1>1, <1>7, NewDataOrdered DEF SaveRequest, hostVars
  <2>3. row'.status /= "failed"
    BY <1>1, <2>1, <2>2 DEF Refunding, Sequenced, Permitted, Handler, Operations
  <2>4. ex'[i] = ex[i] \/ (ex'[i].pc = "claim" /\ ex'[i].mem.status = "none")
    BY <1>1, <1>7, NewDataOrdered DEF SaveRequest, Scheduled, NoTask, TypeOK
  <2>5. Refunding(i)'
    BY <1>1, <2>2, <2>3, <2>4 DEF Refunding
  <2>6. QED
    BY <1>2, <2>3, <2>5
<1>8. QED
  BY <1>3, <1>4, <1>5, <1>6, <1>7 DEF Request, Serve

\* Cancels leave a job that has not failed, or nothing outstanding.
LEMMA CancelKeepsRefund == ASSUME Inv, SeqInv, RefundInv, ServeCancel PROVE RefundInv'
<1>1. book \in Book /\ can \in CancelHandler
  BY DEF Inv, TypeOK
<1>2. CASE SaveCancel
  <2>1. row'.status = "cancelled" /\ UNCHANGED <<book, ex, req, up>>
    BY <1>1, <1>2 DEF SaveCancel, Stored, SeqInv, Cancellable, money, hostVars
  <2>2. QED
    BY <2>1 DEF RefundInv, Refunding
<1>3. CASE RefundCancelled
  <2>1. book' = Refunded(book) /\ UNCHANGED <<row, ex, req, up>>
    BY <1>3 DEF RefundCancelled, Refund, jobVars, hostVars
  <2>2. QED
    BY <1>1, <2>1, RefundedOwesNothing DEF RefundInv, Refunding
<1>4. QED
  BY <1>2, <1>3 DEF ServeCancel

\* Instances that stop and start.
LEMMA HostKeepsRefund ==
  ASSUME Inv, RefundInv, NEW i \in Instances, Spares(i),
         BeginCancel(i) \/ Shutdown(i) \/ Host(i)
  PROVE  RefundInv'
<1>1. /\ TypeOK /\ ex[i] \in Task /\ Refunding(i) /\ up \in [Instances -> {"up", "stopping", "down"}]
  BY TaskFields DEF Inv, RefundInv, TypeOK
<1>2. ASSUME Refunding(i)', row'.status \in {"queued", row.status}, book' = book,
             Owing(i) => Owing(i)'
      PROVE  RefundInv'
  BY <1>2, OthersRefund
<1>3. CASE BeginCancel(i) \/ Shutdown(i)
  <2>1. UNCHANGED <<row, book, req>> /\ (up'[i] = up[i] \/ req[i].pc = "idle")
    BY <1>3 DEF BeginCancel, Shutdown, LoopIsFree, jobVars, money
  <2>2. ex' = [ex EXCEPT ![i].stop = (ex[i].pc /= "off")]
    BY <1>3 DEF BeginCancel, Shutdown
  <2>3. ex'[i].pc = ex[i].pc /\ ex'[i].mem = ex[i].mem
    BY <1>1, <2>2 DEF TypeOK, Task
  <2>4. Refunding(i)'
    BY <1>1, <2>1, <2>3 DEF Refunding
  <2>5. QED
    BY <1>2, <2>1, <2>3, <2>4 DEF Owing
<1>4. CASE Exit(i)
  <2>1. /\ up[i] = "stopping" /\ req[i].pc = "idle" /\ ex[i].pc = "off" /\ UNCHANGED <<row, book>>
        /\ up'[i] = "down" /\ ex'[i] = NoTask /\ req'[i] = NoRequest
    BY <1>1, <1>4 DEF Exit, Stopped, Refunding, TypeOK, jobVars, money
  <2>2. ex'[i].pc = "off" /\ ex'[i].mem.status = "none" /\ req'[i].pc = "idle"
    BY <2>1, NewDataOrdered DEF NoTask
  <2>3. Refunding(i)'
    BY <1>1, <2>1, <2>2 DEF Refunding
  <2>4. QED
    BY <1>2, <2>1, <2>3 DEF Owing
<1>5. CASE Boot(i)
  <2>1. /\ UNCHANGED <<book, ex, req>> /\ up'[i] = "up"
        /\ row'.status = "queued" \/ row'.status = row.status
    BY <1>1, <1>5 DEF Boot, money
  <2>2. Refunding(i)'
    BY <1>1, <2>1 DEF Refunding
  <2>3. QED
    BY <1>2, <2>1, <2>2 DEF Owing
<1>6. CASE TimerFires(i)
  <2>1. UNCHANGED <<row, book, req, up>>
    BY <1>6 DEF TimerFires, jobVars, money
  <2>2. ex'[i] = ex[i] \/ (ex[i].pc = "off" /\ ex'[i].pc = "claim" /\ ex'[i].mem.status = "none")
    BY <1>1, <1>6, NewDataOrdered DEF TimerFires, Scheduled, NoTask, TypeOK
  <2>3. Refunding(i)'
    BY <1>1, <2>1, <2>2 DEF Refunding, FailedRests
  <2>4. QED
    BY <1>2, <2>1, <2>2, <2>3 DEF Owing
<1>7. QED
  BY <1>3, <1>4, <1>5, <1>6 DEF Host

\* Where no instance dies, every step keeps the way from a failure to its refund.
LEMMA NextKeepsRefund ==
  ASSUME MaxCrashes = 0, ApartInv, [Apart]_vars, Inv, SeqInv, RefundInv, [Next]_vars
  PROVE  RefundInv'
<1>1. ASSUME NEW i \in Instances, Writes(i) PROVE Spares(i)
  BY <1>1, StepsSpare DEF Inv
<1>2. ASSUME NEW i \in Instances, Executor(i) \/ Trouble(i) PROVE RefundInv'
  BY <1>1, <1>2, RunKeepsRefund, PipelineKeepsRefund, ScenesKeepRefund, FailureKeepsRefund
  DEF Executor, Trouble, Writes, Inv
<1>3. ASSUME NEW i \in Instances, Request(i) \/ Serve(i) PROVE RefundInv'
  BY <1>1, <1>3, ServeKeepsRefund DEF Writes
<1>4. ASSUME NEW i \in Instances, BeginCancel(i) \/ Shutdown(i) \/ Host(i) PROVE RefundInv'
  BY <1>1, <1>4, HostKeepsRefund DEF Writes
<1>5. CASE ServeCancel \/ SpendElsewhere
  BY <1>5, CancelKeepsRefund DEF SpendElsewhere, RefundInv, Refunding, Owing, jobVars
<1>6. ASSUME NEW i \in Instances PROVE ~Crash(i)
  <2>1. used["crashes"] \in Nat
    BY DEF Inv, TypeOK, Bounds
  <2>2. QED
    BY <2>1 DEF Crash
<1>7. CASE UNCHANGED vars
  BY <1>7 DEF vars, RefundInv, Refunding, Owing
<1>8. QED
  BY <1>2, <1>3, <1>4, <1>5, <1>6, <1>7 DEF Next

\* At the start nothing has failed.
LEMMA InitRefund == Init => RefundInv
  BY NewDataOrdered DEF Init, RefundInv, Refunding, NoTask

\* A failed job keeps no reserve once its executor has ended: where no instance
\* dies, whatever was cancelled, stopped, started again, retried and charged
\* again before, on one instance or on several whose steps are apart.
THEOREM FailureIsRefundedHolds ==
  ASSUME MaxCrashes = 0 PROVE Spec /\ [][Apart]_vars => []FailureIsRefunded
<1>1. RefundInv => FailureIsRefunded
  BY DEF RefundInv, Owing, FailureIsRefunded
<1>2. Inv /\ SeqInv /\ RefundInv /\ ApartInv /\ [Next]_vars /\ [Apart]_vars => RefundInv'
  BY NextKeepsRefund
<1>3. Inv /\ SeqInv /\ ApartInv /\ [Next]_vars /\ [Apart]_vars => SeqInv'
  BY NextKeepsSeq
<1>4. QED
  BY <1>1, <1>2, <1>3, InitSeq, InitRefund, InvHolds, ApartHolds, PTL DEF Spec

(***************************************************************************)
(* The invariant behind NoUnpaidTake and ReadyPaysItsTakes: where nobody   *)
(* cancels the job and the instance stays up, the copy of the executor is  *)
(* the row, whoever works has paid or has no storyboard yet, and the book  *)
(* is settled to the cent from the settlement to the end of the job.       *)
(***************************************************************************)
\* Nobody cancels, and no instance dies or shuts down.
Uninterrupted == MaxCancels = 0 /\ MaxCrashes = 0 /\ MaxStops = 0

\* A job that stops for its author before it films, and need not have paid.
Unfilmed(data) == data.review /\ ~data.approved /\ Storyboard \notin data.out

\* Executors in the pipeline and its retries, and those whose copy is the row.
Busy == {"started", "dispatch", "stage", "work", "note", "done", "scene", "veo", "accept",
         "fetch", "settle", "settled", "costs", "finish", "failing", "retryTail", "sleep"}
Owning == Busy \cup {"failed", "refund", "blocked", "review", "publish"}

Billed == takes * TakeCents
Paid   == Outstanding(book) > 0

\* An overage that no refund has met, and a job that its takes have settled.
Extra == book.over /\ book.closed = 0
Exact == (book.over /\ book.closed > 0) \/ Outstanding(book) = Billed

\* One reserve, or an overage that the takes billed so far account for.
BookInv ==
  /\ \/ book.open \in {0, Reserve}
     \/ book.over /\ book.open > Reserve /\ book.open - book.setl <= Billed
  /\ book.setl < Reserve
  /\ book.setl > 0 => Reserve - book.setl <= Billed
  /\ Extra => Outstanding(book) = Billed
  /\ book.over => HasCharges(book)

\* The status at each place of the executor, and who has paid there.
Covered(pc, status, data, paid) ==
  /\ pc \in Busy \cup {"review"} => status \in {"queued", "running"}
  /\ pc = "load" => status = "running"
  /\ pc \in {"failed", "refund"} => status = "failed"
  /\ pc = "blocked" => status = "blocked"
  /\ pc = "publish" => status = "ready"
  /\ pc = "review" => data.review /\ ~data.approved
  /\ status = "awaiting_script_review" => data.review
  /\ pc \in Busy \cup {"failed"} => paid \/ Unfilmed(data)

\* So has a job that waits for its executor.
Awaited(pc, status, data, paid) ==
  pc \notin Owning /\ status \in {"queued", "running"} => paid \/ Unfilmed(data)

\* Places from the settlement to the end of the job or to its refund.
Late(pc, at, data) ==
  \/ pc \in {"settle", "settled", "costs", "finish", "publish", "refund"}
  \/ pc \in Staged \cup {"fetch"} /\ at >= Render
  \/ pc \in {"dispatch", "failing", "failed", "retryTail", "sleep"} /\ RenderBegun(data)

Squared(pc, at, status, data, exact, extra) ==
  /\ pc \in {"costs", "finish"} => exact
  /\ pc \in Staged /\ at >= Render => exact
  /\ status = "ready" => exact
  /\ pc \in {"work", "fetch"} /\ at >= Render => RenderBegun(data)
  /\ extra => status = "ready" \/ Late(pc, at, data)

\* Scenes are completed with takes.
Shown(pc, at, todo, data, shot) ==
  /\ data.stage[Scenes] = "completed" => shot
  /\ pc = "accept" => shot
  /\ pc \in {"work", "fetch", "done"} /\ at = Scenes => shot
  /\ pc \in {"scene", "veo"} /\ todo /= 1..NumScenes => shot

Fits(e, job, paid, exact, extra, shot) ==
  /\ Covered(e.pc, job.status, job.data, paid)
  /\ Squared(e.pc, e.at, job.status, job.data, exact, extra)
  /\ Shown(e.pc, e.at, e.todo, job.data, shot)

\* A request works on a job that rests, with the row as it is.
Asks(i) ==
  /\ req[i].pc /= "idle" =>
       req[i].mem = row /\ ex[i].pc \notin Owning /\ row.status \notin {"none", "ready"}
  /\ req[i].pc = "charge" => ~Paid
  /\ req[i].pc = "save" /\ req[i].op \in {"start", "retry", "retryStage"} => Paid
  /\ req[i].pc = "save" /\ req[i].op = "create" => Paid \/ Unfilmed(row.data)
  /\ req[i].pc /= "idle" /\ req[i].op = "create" => row.status = "queued"

Kept(i) ==
  /\ up[i] = "up" /\ ~ex[i].stop /\ ex[i].pc /= "interrupt"
  /\ ex[i].pc \in Owning => ex[i].mem = row
  /\ ex[i].pc = "settled" => ex[i].authorized = Outstanding(book)
  /\ Fits(ex[i], row, Paid, Exact, Extra, takes > 0)
  /\ req[i].pc = "idle" \/ req[i].op /= "create" => Awaited(ex[i].pc, row.status, row.data, Paid)
  /\ Asks(i)

MoneyInv ==
  /\ BookInv
  /\ can.pc = "idle"
  /\ row.status = "none" => ~Paid
  /\ takes = 0 => \A b \in Boards : gen[b] = {}
  /\ \A i \in Instances : Kept(i)

\* What the invariants say where an executor or a handler takes a step.
LEMMA MoneyFields ==
  ASSUME Inv, SeqInv, MoneyInv, NEW i \in Instances
  PROVE  /\ TypeOK /\ ex[i] \in Task /\ row \in Job /\ row.data \in Data /\ book \in Book
         /\ takes \in Nat /\ req[i] \in Handler /\ ex[i].mem.data \in Data
         /\ Placed(ex[i].pc, ex[i].at, ex[i].todo, ex[i].mem.data)
         /\ Stood(ex[i].pc, ex[i].at, ex[i].mem.data)
         /\ Ordered(row.data) /\ Sequenced(i) /\ Kept(i)
         /\ Covered(ex[i].pc, row.status, row.data, Paid)
         /\ Squared(ex[i].pc, ex[i].at, row.status, row.data, Exact, Extra)
         /\ Shown(ex[i].pc, ex[i].at, ex[i].todo, row.data, takes > 0)
         /\ ex[i].pc \in Owning => ex[i].mem = row
         /\ req[i].pc = "idle" => Awaited(ex[i].pc, row.status, row.data, Paid)
<1>1. Kept(i) /\ Sequenced(i) /\ Ordered(row.data)
  BY DEF MoneyInv, SeqInv
<1>2. TypeOK /\ row \in Job /\ book \in Book /\ takes \in Nat /\ req[i] \in Handler
  BY DEF Inv, TypeOK
<1>3. /\ Covered(ex[i].pc, row.status, row.data, Paid)
      /\ Squared(ex[i].pc, ex[i].at, row.status, row.data, Exact, Extra)
      /\ Shown(ex[i].pc, ex[i].at, ex[i].todo, row.data, takes > 0)
      /\ ex[i].pc \in Owning => ex[i].mem = row
      /\ req[i].pc = "idle" => Awaited(ex[i].pc, row.status, row.data, Paid)
  BY <1>1 DEF Kept, Fits
<1>4. row.data \in Data
  BY <1>2 DEF Job
<1>5. QED
  BY <1>1, <1>2, <1>3, <1>4, SeqFields

\* A step of the executor keeps the invariant where its task fits the row and
\* the book.
LEMMA ExecutorKeepsMoney ==
  ASSUME MoneyInv, OneInstance, NEW i \in Instances, req[i].pc = "idle",
         UNCHANGED <<req, can, up>>, BookInv', row'.status = "none" => ~Paid',
         takes' = 0 => \A b \in Boards : gen'[b] = {},
         ~ex'[i].stop, ex'[i].pc /= "interrupt",
         ex'[i].pc \in Owning => ex'[i].mem = row',
         ex'[i].pc = "settled" => ex'[i].authorized = Outstanding(book'),
         Covered(ex'[i].pc, row'.status, row'.data, Paid'),
         Squared(ex'[i].pc, ex'[i].at, row'.status, row'.data, Exact', Extra'),
         Shown(ex'[i].pc, ex'[i].at, ex'[i].todo, row'.data, takes' > 0),
         Awaited(ex'[i].pc, row'.status, row'.data, Paid')
  PROVE  MoneyInv'
<1>1. up'[i] = "up" /\ can'.pc = "idle" /\ req'[i].pc = "idle"
  BY DEF MoneyInv, Kept
<1>2. Fits(ex'[i], row', Paid', Exact', Extra', takes' > 0)
  BY DEF Fits
<1>3. Asks(i)'
  BY <1>1 DEF Asks
<1>4. Kept(i)'
  BY <1>1, <1>2, <1>3 DEF Kept
<1>5. QED
  BY <1>1, <1>4 DEF MoneyInv, OneInstance

\* The ledger and the takes stay as they are.
LEMMA SameMoney ==
  ASSUME UNCHANGED <<takes, book>>
  PROVE  (Paid' <=> Paid) /\ (Exact' <=> Exact) /\ (Extra' <=> Extra) /\ (BookInv' <=> BookInv)
<1>1. Billed' = Billed /\ (Extra' <=> Extra)
  BY DEF Billed, Extra
<1>2. (Paid' <=> Paid) /\ (Exact' <=> Exact)
  BY <1>1 DEF Paid, Exact
<1>3. BookInv' <=> BookInv
  BY <1>1 DEF BookInv
<1>4. QED
  BY <1>1, <1>2, <1>3

\* A task fits the row whichever way the same facts about money are written.
LEMMA SameFits ==
  ASSUME NEW pc, NEW at, NEW todo, NEW status, NEW data, UNCHANGED <<takes, book>>
  PROVE  /\ Covered(pc, status, data, Paid) <=> Covered(pc, status, data, Paid')
         /\ Awaited(pc, status, data, Paid) <=> Awaited(pc, status, data, Paid')
         /\ Squared(pc, at, status, data, Exact, Extra) <=> Squared(pc, at, status, data, Exact', Extra')
         /\ Shown(pc, at, todo, data, takes > 0) <=> Shown(pc, at, todo, data, takes' > 0)
<1>1. (Paid' <=> Paid) /\ (Exact' <=> Exact) /\ (Extra' <=> Extra)
  BY SameMoney
<1>2. QED
  BY <1>1 DEF Covered, Awaited, Squared, Shown

\* A commit of an executor that owns the row.
LEMMA CommitKeepsMoney ==
  ASSUME Inv, SeqInv, MoneyInv, OneInstance, NEW i \in Instances, NEW e \in Task, NEW pc, NEW data,
         NEW status, Commit(i, e, pc, data, status), e.stop = ex[i].stop,
         req[i].pc = "idle", ex[i].pc \in Owning, pc \notin {"settled", "interrupt"},
         status /= "none",
         Covered(pc, status, data, Paid), Awaited(pc, status, data, Paid),
         Squared(pc, e.at, status, data, Exact, Extra), Shown(pc, e.at, e.todo, data, takes > 0),
         takes = 0 => \A b \in Boards : gen'[b] = {},
         UNCHANGED <<takes, book, req, can, up>>
  PROVE  MoneyInv'
<1>1. TypeOK /\ ex[i].mem = row /\ Kept(i)
  BY MoneyFields
<1>2. /\ row'.data = data /\ row'.status = status /\ ex'[i].pc = pc
      /\ pc = "off" => ex'[i] = NoTask
      /\ pc /= "off" =>
           ex'[i].mem = row' /\ ex'[i].at = e.at /\ ex'[i].todo = e.todo /\ ex'[i].stop = e.stop
  BY <1>1, CommitDoes
<1>3. ~ex'[i].stop
  <2>1. ~NoTask.stop
    BY DEF NoTask
  <2>2. QED
    BY <1>1, <1>2, <2>1 DEF Kept
<1>4. "off" \notin Owning
  BY DEF Owning, Busy
<1>5. /\ Squared(pc, ex'[i].at, status, data, Exact, Extra)
      /\ Shown(pc, ex'[i].at, ex'[i].todo, data, takes > 0)
  <2>1. CASE pc = "off"
    BY <2>1 DEF Squared, Shown, Late, Staged
  <2>2. CASE pc /= "off"
    BY <1>2, <2>2
  <2>3. QED
    BY <2>1, <2>2
<1>6. /\ Covered(ex'[i].pc, row'.status, row'.data, Paid')
      /\ Squared(ex'[i].pc, ex'[i].at, row'.status, row'.data, Exact', Extra')
      /\ Shown(ex'[i].pc, ex'[i].at, ex'[i].todo, row'.data, takes' > 0)
      /\ Awaited(ex'[i].pc, row'.status, row'.data, Paid')
  BY <1>2, <1>5, SameFits
<1>7. BookInv'
  BY SameMoney DEF MoneyInv
<1>8. QED
  BY <1>2, <1>3, <1>4, <1>6, <1>7, ExecutorKeepsMoney

\* A step of an executor with the copy it has, while row and ledger stay.
LEMMA MoveKeepsMoney ==
  ASSUME Inv, SeqInv, MoneyInv, OneInstance, NEW i \in Instances, NEW e, Step(i, e),
         e.stop = ex[i].stop, e.pc \in Owning => e.mem = row, req[i].pc = "idle",
         e.pc \notin {"settled", "interrupt"},
         Covered(e.pc, row.status, row.data, Paid), Awaited(e.pc, row.status, row.data, Paid),
         Squared(e.pc, e.at, row.status, row.data, Exact, Extra),
         Shown(e.pc, e.at, e.todo, row.data, takes > 0),
         takes = 0 => \A b \in Boards : gen'[b] = {},
         UNCHANGED <<row, takes, book, req, can, up>>
  PROVE  MoneyInv'
<1>1. TypeOK /\ Kept(i) /\ ex'[i] = e
  BY MoneyFields, StepDoes
<1>2. /\ Covered(ex'[i].pc, row'.status, row'.data, Paid')
      /\ Squared(ex'[i].pc, ex'[i].at, row'.status, row'.data, Exact', Extra')
      /\ Shown(ex'[i].pc, ex'[i].at, ex'[i].todo, row'.data, takes' > 0)
      /\ Awaited(ex'[i].pc, row'.status, row'.data, Paid')
  BY <1>1, SameFits
<1>3. BookInv' /\ (row'.status = "none" => ~Paid')
  BY SameMoney DEF MoneyInv
<1>4. ~ex'[i].stop
  BY <1>1 DEF Kept
<1>5. QED
  BY <1>1, <1>2, <1>3, <1>4, ExecutorKeepsMoney

\* A task that owns nothing ends.
LEMMA EndKeepsMoney ==
  ASSUME Inv, SeqInv, MoneyInv, OneInstance, NEW i \in Instances, Step(i, NoTask), req[i].pc = "idle",
         ex[i].pc \notin Owning, UNCHANGED <<row, gen, takes, book, req, can, up>>
  PROVE  MoneyInv'
<1>1. /\ Covered(ex[i].pc, row.status, row.data, Paid) /\ Awaited(ex[i].pc, row.status, row.data, Paid)
      /\ Squared(ex[i].pc, ex[i].at, row.status, row.data, Exact, Extra)
      /\ Shown(ex[i].pc, ex[i].at, ex[i].todo, row.data, takes > 0)
      /\ ~ex[i].stop
  BY MoneyFields DEF Kept
<1>2. NoTask.pc = "off" /\ ~NoTask.stop
  BY DEF NoTask
<1>3. /\ Covered("off", row.status, row.data, Paid)
      /\ Awaited("off", row.status, row.data, Paid)
  BY <1>1 DEF Covered, Awaited, Owning, Busy
<1>4. Squared("off", NoTask.at, row.status, row.data, Exact, Extra)
  BY <1>1 DEF Squared, Late, Owning, Busy, Staged
<1>5. Shown("off", NoTask.at, NoTask.todo, row.data, takes > 0)
  BY <1>1 DEF Shown
<1>6. "off" \notin Owning
  BY DEF Owning, Busy
<1>7. takes = 0 => \A b \in Boards : gen'[b] = {}
  BY DEF MoneyInv
<1>8. ex'[i] = NoTask
  BY MoneyFields, StepDoes
<1>9. /\ Covered(ex'[i].pc, row'.status, row'.data, Paid')
      /\ Squared(ex'[i].pc, ex'[i].at, row'.status, row'.data, Exact', Extra')
      /\ Shown(ex'[i].pc, ex'[i].at, ex'[i].todo, row'.data, takes' > 0)
      /\ Awaited(ex'[i].pc, row'.status, row'.data, Paid')
  BY <1>2, <1>3, <1>4, <1>5, <1>8, SameFits
<1>10. BookInv' /\ (row'.status = "none" => ~Paid')
  BY SameMoney DEF MoneyInv
<1>11. QED
  BY <1>2, <1>6, <1>7, <1>8, <1>9, <1>10, ExecutorKeepsMoney

\* Who works on a queued or running job has paid or has no storyboard.
LEMMA BusyCovered ==
  ASSUME NEW pc \in Busy, NEW status \in {"queued", "running"}, NEW data, Paid \/ Unfilmed(data)
  PROVE  Covered(pc, status, data, Paid) /\ Awaited(pc, status, data, Paid)
  BY DEF Covered, Awaited, Busy, Owning

\* Before the render nothing has to be exact, unless the job is ready.
LEMMA EarlySquared ==
  ASSUME NEW pc, NEW at, NEW status, NEW data, ~Extra, pc \notin {"costs", "finish"},
         status /= "ready", pc \in Staged \cup {"fetch"} => ~(at >= Render)
  PROVE  Squared(pc, at, status, data, Exact, Extra)
  BY DEF Squared, Staged

\* At these places the executor has not begun the render.
LEMMA EarlyMoney ==
  ASSUME Inv, SeqInv, MoneyInv, NEW i \in Instances,
         \/ ex[i].pc \in Staged \cup {"fetch"} /\ ~(ex[i].at >= Render)
         \/ ex[i].pc \in {"started", "note", "review", "scene", "veo", "accept", "blocked"}
         \/ ex[i].pc = "dispatch" /\ ~RenderBegun(row.data)
         \/ ex[i].pc \notin Owning /\ row.status /= "ready"
  PROVE  ~Extra
<1>1. /\ Covered(ex[i].pc, row.status, row.data, Paid)
      /\ Squared(ex[i].pc, ex[i].at, row.status, row.data, Exact, Extra)
  BY MoneyFields
<1>2. Extra => row.status = "ready" \/ Late(ex[i].pc, ex[i].at, row.data)
  BY <1>1 DEF Squared
<1>3. CASE ex[i].pc \in Staged \cup {"fetch"} /\ ~(ex[i].at >= Render)
  BY <1>1, <1>2, <1>3 DEF Covered, Busy, Late, Staged
<1>4. CASE ex[i].pc \in {"started", "note", "review", "scene", "veo", "accept", "blocked"}
  BY <1>1, <1>2, <1>4 DEF Covered, Busy, Late, Staged
<1>5. CASE ex[i].pc = "dispatch" /\ ~RenderBegun(row.data)
  BY <1>1, <1>2, <1>5 DEF Covered, Busy, Late, Staged
<1>6. CASE ex[i].pc \notin Owning /\ row.status /= "ready"
  BY <1>2, <1>6 DEF Owning, Busy, Late, Staged
<1>7. QED
  BY <1>3, <1>4, <1>5, <1>6

\* Steps of run before and after the pipeline.
LEMMA RunKeepsMoney ==
  ASSUME Inv, SeqInv, MoneyInv, OneInstance, NEW i \in Instances,
         Claim(i) \/ Load(i) \/ Delivered(i) \/ Interrupt(i) \/ SaveInterrupt(i)
  PROVE  MoneyInv'
<1>1. /\ TypeOK /\ ex[i] \in Task /\ Kept(i) /\ ~ex[i].stop /\ ex[i].pc /= "interrupt"
      /\ Covered(ex[i].pc, row.status, row.data, Paid)
      /\ Squared(ex[i].pc, ex[i].at, row.status, row.data, Exact, Extra)
      /\ Shown(ex[i].pc, ex[i].at, ex[i].todo, row.data, takes > 0)
  BY MoneyFields DEF Kept
<1>2. req[i].pc = "idle" /\ UNCHANGED <<gen, takes, book, req, can, up>>
  BY DEF Claim, Load, Delivered, Interrupt, SaveInterrupt, Runs, jobVars, money, hostVars
<1>3. Awaited(ex[i].pc, row.status, row.data, Paid)
  BY <1>2, MoneyFields
<1>4. takes = 0 => \A b \in Boards : gen'[b] = {}
  BY <1>2 DEF MoneyInv
<1>5. CASE Claim(i)
  <2>1. ex[i].pc = "claim"
    BY <1>5 DEF Claim
  <2>2. CASE Claimable(row)
    <3>1. /\ row' = [status |-> "running", data |-> [row.data EXCEPT !.interrupted = FALSE]]
          /\ Step(i, Goto(ex[i], "load"))
      BY <1>5, <2>2 DEF Claim
    <3>2. /\ row'.status = "running" /\ row'.data.stage = row.data.stage
          /\ row'.data.review = row.data.review /\ row'.data.approved = row.data.approved
          /\ row'.data.out = row.data.out
      BY <3>1, MoneyFields DEF Data
    <3>3. ex'[i].pc = "load" /\ ex'[i].stop = ex[i].stop
      BY <1>1, <3>1, GotoDoes
    <3>4. row.status \in {"queued", "running"}
      BY <2>2 DEF Claimable
    <3>5. "load" \notin Owning
      BY DEF Owning, Busy
    <3>6. ~Extra
      BY <2>1, <3>4, EarlyMoney DEF Owning, Busy
    <3>7. Paid \/ Unfilmed(row'.data)
      BY <1>3, <2>1, <3>2, <3>4 DEF Awaited, Owning, Busy, Unfilmed
    <3>8. Covered("load", "running", row'.data, Paid) /\ Awaited("load", "running", row'.data, Paid)
      BY <3>7 DEF Covered, Awaited, Busy
    <3>9. Squared("load", ex'[i].at, "running", row'.data, Exact, Extra)
      BY <3>6, EarlySquared DEF Staged
    <3>10. Shown("load", ex'[i].at, ex'[i].todo, row'.data, takes > 0)
      BY <1>1, <3>2 DEF Shown
    <3>11. /\ Covered(ex'[i].pc, row'.status, row'.data, Paid')
           /\ Squared(ex'[i].pc, ex'[i].at, row'.status, row'.data, Exact', Extra')
           /\ Shown(ex'[i].pc, ex'[i].at, ex'[i].todo, row'.data, takes' > 0)
           /\ Awaited(ex'[i].pc, row'.status, row'.data, Paid')
      BY <1>2, <3>2, <3>3, <3>8, <3>9, <3>10, SameFits
    <3>12. BookInv'
      BY <1>2, SameMoney DEF MoneyInv
    <3>13. QED
      BY <1>1, <1>2, <1>4, <3>2, <3>3, <3>5, <3>11, <3>12, ExecutorKeepsMoney
  <2>3. CASE ~Claimable(row)
    BY <1>2, <1>5, <2>1, <2>3, EndKeepsMoney DEF Claim, Owning, Busy
  <2>4. QED
    BY <2>2, <2>3
<1>6. CASE Load(i)
  <2>1. ex[i].pc = "load" /\ row' = row
    BY <1>6 DEF Load, jobVars
  <2>2. row.status = "running"
    BY <1>1, <2>1 DEF Covered
  <2> DEFINE e == [ex[i] EXCEPT !.pc = EmitOr("started"), !.mem = row]
  <2>3. Step(i, e)
    BY <1>6, <2>2 DEF Load
  <2>4. /\ e.pc \in {"started", "dispatch"} /\ e.mem = row /\ e.stop = ex[i].stop
        /\ e.at = ex[i].at /\ e.todo = ex[i].todo
    BY <1>1 DEF Task, EmitOr, Emitted
  <2> HIDE DEF e
  <2>5. Paid \/ Unfilmed(row.data)
    BY <1>3, <2>1, <2>2 DEF Awaited, Owning, Busy
  <2>6. Covered(e.pc, row.status, row.data, Paid) /\ Awaited(e.pc, row.status, row.data, Paid)
    BY <2>2, <2>4, <2>5, BusyCovered DEF Busy
  <2>7. ~Extra
    BY <2>1, <2>2, EarlyMoney DEF Owning, Busy
  <2>8. Squared(e.pc, e.at, row.status, row.data, Exact, Extra)
    BY <2>2, <2>4, <2>7, EarlySquared DEF Staged
  <2>9. Shown(e.pc, e.at, e.todo, row.data, takes > 0)
    BY <1>1, <2>4 DEF Shown
  <2>10. QED
    BY <1>2, <1>4, <2>1, <2>3, <2>4, <2>6, <2>8, <2>9, MoveKeepsMoney
<1>7. CASE Delivered(i)
  <2>1. /\ ex[i].pc \in {"started", "note", "retryTail", "failTail", "tail"}
        /\ Step(i, Goto(ex[i], Emitted[ex[i].pc])) /\ row' = row
    BY <1>7 DEF Delivered, Emitted, jobVars
  <2>2. CASE ex[i].pc \in {"failTail", "tail"}
    BY <1>2, <2>1, <2>2, EndKeepsMoney DEF Emitted, Goto, Owning, Busy
  <2>3. CASE ex[i].pc \in {"started", "note", "retryTail"}
    <3> DEFINE e == [ex[i] EXCEPT !.pc = Emitted[ex[i].pc]]
    <3>1. Step(i, e)
      BY <2>1, <2>3 DEF Goto, Emitted
    <3>2. /\ e.mem = ex[i].mem /\ e.stop = ex[i].stop /\ e.at = ex[i].at /\ e.todo = ex[i].todo
          /\ \/ ex[i].pc = "started" /\ e.pc = "dispatch"
             \/ ex[i].pc = "note" /\ e.pc = "done" /\ ex[i].at = Editorial
             \/ ex[i].pc = "retryTail" /\ e.pc = "sleep"
      BY <1>1, <2>3, MoneyFields DEF Task, Emitted, Placed
    <3> HIDE DEF e
    <3>3. ex[i].pc \in Busy /\ e.pc \in Busy /\ ex[i].mem = row
      BY <3>2, MoneyFields DEF Owning, Busy
    <3>4. Covered(e.pc, row.status, row.data, Paid) /\ Awaited(e.pc, row.status, row.data, Paid)
      BY <1>1, <3>3, BusyCovered DEF Covered
    <3>5. Squared(e.pc, e.at, row.status, row.data, Exact, Extra)
      <4>1. CASE ex[i].pc = "retryTail"
        BY <1>1, <3>2, <4>1 DEF Squared, Late, Staged
      <4>2. CASE ex[i].pc /= "retryTail"
        <5>1. ~Extra
          BY <3>2, <4>2, EarlyMoney
        <5>2. row.status /= "ready"
          BY <1>1, <3>3 DEF Covered
        <5>3. e.pc = "done" => ~(e.at >= Render)
          BY <3>2, <4>2, StageNumbers
        <5>4. QED
          BY <3>2, <4>2, <5>1, <5>2, <5>3, EarlySquared DEF Staged
      <4>3. QED
        BY <4>1, <4>2
    <3>6. Shown(e.pc, e.at, e.todo, row.data, takes > 0)
      BY <1>1, <3>2, StageNumbers DEF Shown
    <3>7. QED
      BY <1>2, <1>4, <2>1, <3>1, <3>2, <3>3, <3>4, <3>5, <3>6, MoveKeepsMoney
  <2>4. QED
    BY <2>1, <2>2, <2>3
<1>8. QED
  BY <1>1, <1>5, <1>6, <1>7 DEF Interrupt, SaveInterrupt

\* A commit within the pipeline.
LEMMA BusyCommitKeepsMoney ==
  ASSUME Inv, SeqInv, MoneyInv, OneInstance, NEW i \in Instances, NEW e \in Task,
         NEW pc \in Busy \ {"settled"}, NEW data, NEW status \in {"queued", "running"},
         Commit(i, e, pc, data, status), e.stop = ex[i].stop, req[i].pc = "idle",
         ex[i].pc \in Owning, Paid \/ Unfilmed(data),
         Squared(pc, e.at, status, data, Exact, Extra), Shown(pc, e.at, e.todo, data, takes > 0),
         takes = 0 => \A b \in Boards : gen'[b] = {},
         UNCHANGED <<takes, book, req, can, up>>
  PROVE  MoneyInv'
<1>1. Covered(pc, status, data, Paid) /\ Awaited(pc, status, data, Paid)
  BY BusyCovered
<1>2. pc \notin {"settled", "interrupt"} /\ status /= "none"
  BY DEF Busy
<1>3. QED
  BY <1>1, <1>2, CommitKeepsMoney

\* A move within the pipeline.
LEMMA BusyMoveKeepsMoney ==
  ASSUME Inv, SeqInv, MoneyInv, OneInstance, NEW i \in Instances, NEW e, Step(i, e),
         e.pc \in Busy \ {"settled"}, ex[i].pc \in Busy, e.mem = ex[i].mem, e.stop = ex[i].stop,
         req[i].pc = "idle", Squared(e.pc, e.at, row.status, row.data, Exact, Extra),
         Shown(e.pc, e.at, e.todo, row.data, takes > 0),
         takes = 0 => \A b \in Boards : gen'[b] = {},
         UNCHANGED <<row, takes, book, req, can, up>>
  PROVE  MoneyInv'
<1>1. ex[i].mem = row /\ Covered(ex[i].pc, row.status, row.data, Paid)
  BY MoneyFields DEF Owning
<1>2. row.status \in {"queued", "running"} /\ (Paid \/ Unfilmed(row.data))
  BY <1>1 DEF Covered
<1>3. Covered(e.pc, row.status, row.data, Paid) /\ Awaited(e.pc, row.status, row.data, Paid)
  BY <1>2, BusyCovered
<1>4. e.pc \notin {"settled", "interrupt"}
  BY DEF Busy
<1>5. QED
  BY <1>1, <1>3, <1>4, MoveKeepsMoney

\* What a stage that begins, ends or fails leaves as it was.
LEMMA StageFace ==
  ASSUME NEW data \in Data, NEW s \in Places, NEW status
  PROVE  /\ \A new \in {SetStage(data, s, status), WithOutput(SetStage(data, s, status), s)} :
              /\ new.review = data.review /\ new.approved = data.approved
              /\ \A t \in STAGES : new.stage[t] = IF t = s THEN status ELSE data.stage[t]
              /\ s /= Storyboard => (Unfilmed(new) <=> Unfilmed(data))
         /\ SetStage(data, s, status).out = data.out
         /\ WithOutput(SetStage(data, s, status), s).out = data.out \cup {s}
<1> DEFINE mid == SetStage(data, s, status)
           new == WithOutput(mid, s)
<1>1. /\ mid.review = data.review /\ mid.approved = data.approved /\ mid.out = data.out
      /\ \A t \in STAGES : mid.stage[t] = IF t = s THEN status ELSE data.stage[t]
  BY DEF SetStage, Data
<1>2. /\ new.review = data.review /\ new.approved = data.approved /\ new.out = data.out \cup {s}
      /\ \A t \in STAGES : new.stage[t] = IF t = s THEN status ELSE data.stage[t]
  BY DEF WithOutput, SetStage, Data
<1> HIDE DEF mid, new
<1>3. /\ Unfilmed(mid) <=> Unfilmed(data)
      /\ s /= Storyboard => (Unfilmed(new) <=> Unfilmed(data))
  BY <1>1, <1>2 DEF Unfilmed
<1>4. QED
  BY <1>1, <1>2, <1>3 DEF mid, new

\* Resuming the render keeps what is exact; every other start precedes it.
LEMMA DispatchKeepsMoney ==
  ASSUME Inv, SeqInv, MoneyInv, OneInstance, NEW i \in Instances, Dispatch(i)
  PROVE  MoneyInv'
<1> DEFINE data == ex[i].mem.data
<1>1. /\ TypeOK /\ ex[i] \in Task /\ ex[i].pc = "dispatch" /\ ex[i].pc \in Busy /\ ex[i].mem = row
      /\ data = row.data /\ data \in Data /\ req[i].pc = "idle" /\ Ordered(data)
      /\ UNCHANGED <<gen, takes, book, req, can, up>>
  BY MoneyFields DEF Dispatch, Owning, Busy, Runs, money, hostVars
<1>2. /\ Covered(ex[i].pc, row.status, row.data, Paid)
      /\ Squared(ex[i].pc, ex[i].at, row.status, row.data, Exact, Extra)
      /\ Shown(ex[i].pc, ex[i].at, ex[i].todo, row.data, takes > 0)
  BY MoneyFields
<1>3. row.status \in {"queued", "running"} /\ (Paid \/ Unfilmed(data))
  BY <1>1, <1>2 DEF Covered
<1>4. takes = 0 => \A b \in Boards : gen'[b] = {}
  BY <1>1 DEF MoneyInv
<1>5. ASSUME Step(i, Raised(ex[i], "permanent")), row' = row PROVE MoneyInv'
  <2> DEFINE e == Raised(ex[i], "permanent")
  <2>1. /\ e.pc = "failing" /\ e.mem = ex[i].mem /\ e.stop = ex[i].stop
        /\ e.at = ex[i].at /\ e.todo = ex[i].todo
    BY <1>1 DEF Raised, Task
  <2> HIDE DEF e
  <2>2. Squared(e.pc, e.at, row.status, row.data, Exact, Extra)
    BY <1>1, <1>2, <2>1 DEF Squared, Late, Staged
  <2>3. Shown(e.pc, e.at, e.todo, row.data, takes > 0)
    BY <1>2, <2>1 DEF Shown
  <2>4. QED
    BY <1>1, <1>4, <1>5, <2>1, <2>2, <2>3, BusyMoveKeepsMoney DEF e, Busy
<1>6. CASE ResumeRender(i, data)
  <2>1. CASE RenderCheckpoints(data)
    <3> DEFINE e == [ex[i] EXCEPT !.pc = "fetch", !.at = Render]
    <3>1. Step(i, e) /\ row' = row /\ RenderBegun(row.data)
      BY <1>1, <1>6, <2>1 DEF ResumeRender, RenderPending, RenderBegun
    <3>2. /\ e.pc = "fetch" /\ e.mem = ex[i].mem /\ e.stop = ex[i].stop
          /\ e.at = Render /\ e.todo = ex[i].todo
      BY <1>1 DEF Task
    <3> HIDE DEF e
    <3>3. Squared(e.pc, e.at, row.status, row.data, Exact, Extra)
      BY <1>2, <1>3, <3>1, <3>2, StageNumbers DEF Squared, Late, Staged
    <3>4. Shown(e.pc, e.at, e.todo, row.data, takes > 0)
      BY <1>2, <3>2, StageNumbers DEF Shown
    <3>5. QED
      BY <1>1, <1>4, <3>1, <3>2, <3>3, <3>4, BusyMoveKeepsMoney DEF Busy
  <2>2. QED
    BY <1>5, <1>6, <2>1 DEF ResumeRender
<1>7. ASSUME ~RenderPending(data) PROVE ~Extra
  <2>1. ~RenderBegun(data)
    BY <1>1, <1>7, StageNumbers DEF Ordered, Filmed, RenderBegun, RenderPending
  <2>2. QED
    BY <1>1, <2>1, EarlyMoney
<1>8. CASE ResumeScenes(i, data)
  <2>1. CASE SceneCheckpoints(data)
    <3> DEFINE e == [ex[i] EXCEPT !.at = Scenes, !.board = data.board]
               new == WithOutput(SetStage(data, Storyboard, "completed"), Storyboard)
    <3>1. Commit(i, e, "stage", new, "running") /\ ~Extra
      BY <1>7, <1>8, <2>1 DEF ResumeScenes
    <3>2. Scenes \in 0..Scoring /\ data.board \in Boards
      BY <1>1, StageNumbers DEF Data
    <3>3. e \in Task /\ e.at = Scenes /\ e.todo = ex[i].todo /\ e.stop = ex[i].stop
      BY <1>1, <3>2 DEF Task
    <3>4. new.stage[Scenes] = data.stage[Scenes]
      BY <1>1, StageFace, StageNumbers
    <3>5. Storyboard \in data.out
      BY <2>1 DEF SceneCheckpoints
    <3> HIDE DEF e, new
    <3>6. Paid
      BY <1>3, <3>5 DEF Unfilmed
    <3>7. Squared("stage", e.at, "running", new, Exact, Extra)
      BY <3>1, <3>3, EarlySquared, StageNumbers
    <3>8. Shown("stage", e.at, e.todo, new, takes > 0)
      BY <1>1, <1>2, <3>4 DEF Shown
    <3>9. QED
      BY <1>1, <1>4, <3>1, <3>3, <3>6, <3>7, <3>8, BusyCommitKeepsMoney DEF Busy, Owning
  <2>2. QED
    BY <1>5, <1>8, <2>1 DEF ResumeScenes
<1>9. CASE FromTheTop(i, data)
  <2> DEFINE e == [ex[i] EXCEPT !.at = NextStage(data, Intake)]
  <2>1. Commit(i, e, "stage", data, row.status) /\ ~Extra
    BY <1>1, <1>7, <1>9 DEF FromTheTop
  <2>2. NextStage(data, Intake) \in Intake..Storyboard
    BY <1>1, NextStageIs, StageNumbers
  <2>3. NextStage(data, Intake) \in 0..Scoring /\ ~(NextStage(data, Intake) >= Render)
    BY <2>2, StageNumbers
  <2>4. e \in Task /\ e.at = NextStage(data, Intake) /\ e.todo = ex[i].todo /\ e.stop = ex[i].stop
    BY <1>1, <2>3 DEF Task
  <2> HIDE DEF e
  <2>5. Squared("stage", e.at, row.status, data, Exact, Extra)
    BY <1>3, <2>1, <2>3, <2>4, EarlySquared
  <2>6. Shown("stage", e.at, e.todo, data, takes > 0)
    BY <1>1, <1>2 DEF Shown
  <2>7. QED
    BY <1>1, <1>3, <1>4, <2>1, <2>4, <2>5, <2>6, BusyCommitKeepsMoney DEF Busy, Owning
<1>10. QED
  BY <1>6, <1>8, <1>9 DEF Dispatch

\* The stages of the pipeline keep the account.
LEMMA StagesKeepMoney ==
  ASSUME Inv, SeqInv, MoneyInv, OneInstance, NEW i \in Instances,
         \/ BeginStage(i) \/ Worked(i) \/ ScriptRejected(i) \/ CompleteStage(i) \/ CompleteLast(i)
         \/ CompleteStoryboard(i)
  PROVE  MoneyInv'
<1> DEFINE data == ex[i].mem.data
           at == ex[i].at
<1>1. /\ TypeOK /\ ex[i] \in Task /\ ex[i].pc \in Staged /\ at \in STAGES /\ at \in Places
      /\ req[i].pc = "idle" /\ UNCHANGED <<takes, book, req, can, up>>
  <2>1. /\ ex[i].pc \in Staged /\ req[i].pc = "idle" /\ UNCHANGED <<takes, book, req, can, up>>
    BY DEF BeginStage, Worked, ScriptRejected, CompleteStage, CompleteLast, CompleteStoryboard,
       Staged, Runs, jobVars, money, hostVars
  <2>2. QED
    BY <2>1, MoneyFields, StageNumbers DEF Placed
<1>2. ex[i].pc \in Busy /\ ex[i].mem = row /\ data = row.data /\ data \in Data
  BY <1>1, MoneyFields DEF Owning, Busy, Staged
<1>3. /\ Covered(ex[i].pc, row.status, data, Paid)
      /\ Squared(ex[i].pc, at, row.status, data, Exact, Extra)
      /\ Shown(ex[i].pc, at, ex[i].todo, data, takes > 0)
  BY <1>2, MoneyFields
<1>4. row.status \in {"queued", "running"} /\ (Paid \/ Unfilmed(data))
  BY <1>2, <1>3 DEF Covered
<1>5. /\ ~(at >= Render) => ~Extra
      /\ at >= Render => Exact
  BY <1>1, <1>3, EarlyMoney DEF Squared
<1>6. takes = 0 => \A b \in Boards : gen'[b] = {}
  <2>1. CASE CompleteStoryboard(i)
    BY <2>1, <1>1 DEF CompleteStoryboard, MoneyInv, TypeOK
  <2>2. CASE ~CompleteStoryboard(i)
    <3>1. UNCHANGED gen
      BY <2>2 DEF BeginStage, Worked, ScriptRejected, CompleteStage, CompleteLast, jobVars
    <3>2. QED
      BY <3>1 DEF MoneyInv
  <2>3. QED
    BY <2>1, <2>2
<1>7. CASE BeginStage(i)
  <2> DEFINE todo == IF at = Scenes THEN 1..NumScenes ELSE {}
             e == [ex[i] EXCEPT !.todo = todo, !.tries = 0]
             pc == IF at = Scenes THEN "scene" ELSE IF at \in Waits THEN "work" ELSE "done"
             new == SetStage(data, at, "running")
  <2>1. Commit(i, e, pc, new, "running")
    BY <1>7 DEF BeginStage
  <2>2. todo \in SUBSET (1..NumScenes) /\ 0 \in 0..NativeRetries
    OBVIOUS
  <2>3. e \in Task /\ e.at = at /\ e.todo = todo /\ e.stop = ex[i].stop
    BY <1>1, <2>2 DEF Task
  <2>4. /\ Unfilmed(new) <=> Unfilmed(data)
        /\ \A t \in STAGES : new.stage[t] = IF t = at THEN "running" ELSE data.stage[t]
    BY <1>1, <1>2, StageFace DEF Unfilmed
  <2>5. /\ at = Scenes => pc = "scene" /\ todo = 1..NumScenes
        /\ at /= Scenes => pc \in {"work", "done"}
        /\ pc = "work" /\ at >= Render => at = Render
    BY <1>1, StageNumbers DEF Waits
  <2> HIDE DEF e, new, pc, todo
  <2>6. Squared(pc, at, "running", new, Exact, Extra)
    BY <1>1, <1>5, <2>4, <2>5, StageNumbers DEF Squared, Late, Staged, RenderBegun
  <2>7. Shown(pc, at, todo, new, takes > 0)
    BY <1>1, <1>3, <2>4, <2>5, StageNumbers DEF Shown
  <2>8. QED
    BY <1>1, <1>2, <1>4, <1>6, <2>1, <2>3, <2>4, <2>5, <2>6, <2>7, BusyCommitKeepsMoney
    DEF Busy, Owning
<1>8. CASE Worked(i)
  <2> DEFINE e == [ex[i] EXCEPT !.pc = "done"]
  <2>1. Step(i, e) /\ row' = row /\ ex[i].pc = "work"
    BY <1>8 DEF Worked, Goto, jobVars
  <2>2. /\ e.pc = "done" /\ e.mem = ex[i].mem /\ e.stop = ex[i].stop
        /\ e.at = at /\ e.todo = ex[i].todo
    BY <1>1 DEF Task
  <2> HIDE DEF e
  <2>3. Squared(e.pc, e.at, row.status, row.data, Exact, Extra)
    BY <1>2, <1>3, <2>1, <2>2 DEF Squared, Late, Staged
  <2>4. Shown(e.pc, e.at, e.todo, row.data, takes > 0)
    BY <1>2, <1>3, <2>1, <2>2 DEF Shown
  <2>5. QED
    BY <1>1, <1>2, <1>6, <2>1, <2>2, <2>3, <2>4, BusyMoveKeepsMoney DEF Busy
<1>9. CASE ScriptRejected(i)
  <2> DEFINE new == [data EXCEPT !.review = TRUE]
             pc == EmitOr("note")
  <2>1. Commit(i, ex[i], pc, new, row.status) /\ at = Editorial
    BY <1>2, <1>9 DEF ScriptRejected
  <2>2. pc \in {"note", "done"}
    BY DEF EmitOr, Emitted
  <2>3. new.stage = data.stage /\ (Unfilmed(data) => Unfilmed(new))
    BY <1>2 DEF Data, Unfilmed
  <2> HIDE DEF new, pc
  <2>4. Squared(pc, at, row.status, new, Exact, Extra)
    BY <1>4, <1>5, <2>1, <2>2, EarlySquared, StageNumbers
  <2>5. Shown(pc, at, ex[i].todo, new, takes > 0)
    BY <1>3, <2>1, <2>2, <2>3, StageNumbers DEF Shown
  <2>6. QED
    BY <1>1, <1>2, <1>4, <1>6, <2>1, <2>2, <2>3, <2>4, <2>5, BusyCommitKeepsMoney
    DEF Busy, Owning
<1>10. CASE CompleteStage(i)
  <2> DEFINE new == WithOutput(SetStage(data, at, "completed"), at)
             next == NextStage(new, at + 1)
             e == [ex[i] EXCEPT !.at = next]
  <2>1. Commit(i, e, "stage", new, "running") /\ at \notin {Storyboard, Scoring, Voice}
        /\ ex[i].pc = "done"
    BY <1>10 DEF CompleteStage
  <2>2. e \in Task /\ next \in STAGES
    BY <1>10, CompleteStageTask
  <2>3. e.at = next /\ e.todo = ex[i].todo /\ e.stop = ex[i].stop
    BY <1>1 DEF Task
  <2>4. new \in Data /\ at + 1 \in STAGES
    <3>1. "completed" \in StageStatus
      BY DEF StageStatus
    <3>2. SetStage(data, at, "completed") \in Data
      BY <1>1, <1>2, <3>1, SetStageType
    <3>3. at + 1 \in STAGES
      BY <1>1, <2>1, StageNumbers
    <3>4. QED
      BY <1>1, <3>2, <3>3, WithOutputType
  <2>5. /\ Unfilmed(new) <=> Unfilmed(data)
        /\ \A t \in STAGES : new.stage[t] = IF t = at THEN "completed" ELSE data.stage[t]
    BY <1>1, <1>2, <2>1, StageFace
  <2>6. /\ at >= Render => next >= Render
        /\ ~(at >= Render) => ~(next >= Render)
    BY <1>1, <2>1, <2>4, NextStageIs, StageNumbers
  <2> HIDE DEF e, new, next
  <2>7. Squared("stage", next, "running", new, Exact, Extra)
    BY <1>5, <2>6 DEF Squared, Late, Staged
  <2>8. Shown("stage", next, ex[i].todo, new, takes > 0)
    BY <1>1, <1>3, <2>1, <2>5, StageNumbers DEF Shown
  <2>9. QED
    BY <1>1, <1>2, <1>4, <1>6, <2>1, <2>2, <2>3, <2>5, <2>7, <2>8, BusyCommitKeepsMoney
    DEF Busy, Owning
<1>11. CASE CompleteLast(i)
  <2> DEFINE new == WithOutput(SetStage(data, at, "completed"), at)
             pc == IF at = Voice THEN "settle" ELSE "finish"
  <2>1. Commit(i, ex[i], pc, new, "running") /\ at \in {Voice, Scoring}
    BY <1>11 DEF CompleteLast
  <2>2. /\ Unfilmed(new) <=> Unfilmed(data)
        /\ \A t \in STAGES : new.stage[t] = IF t = at THEN "completed" ELSE data.stage[t]
    <3>1. at /= Storyboard
      BY <2>1, StageNumbers
    <3>2. QED
      BY <1>1, <1>2, <3>1, StageFace
  <2>3. pc = "settle" \/ (pc = "finish" /\ at >= Render)
    BY <2>1, StageNumbers
  <2> HIDE DEF new, pc
  <2>4. Squared(pc, at, "running", new, Exact, Extra)
    BY <1>5, <2>3 DEF Squared, Late, Staged
  <2>5. Shown(pc, at, ex[i].todo, new, takes > 0)
    BY <1>3, <2>1, <2>2, <2>3, StageNumbers DEF Shown
  <2>6. QED
    BY <1>1, <1>2, <1>4, <1>6, <2>1, <2>2, <2>3, <2>4, <2>5, BusyCommitKeepsMoney
    DEF Busy, Owning
<1>12. CASE CompleteStoryboard(i)
  <2> DEFINE done == WithOutput(SetStage(data, Storyboard, "completed"), Storyboard)
             new == [done EXCEPT !.board = boards']
             pc == IF new.review /\ ~new.approved THEN "review" ELSE "stage"
             e == [ex[i] EXCEPT !.at = Scenes, !.board = boards']
  <2>1. Commit(i, e, pc, new, "running") /\ at = Storyboard
    BY <1>12 DEF CompleteStoryboard
  <2>2. boards' \in Boards /\ Scenes \in 0..Scoring
    <3>1. boards \in Boards /\ boards < MaxStoryboards /\ boards' = boards + 1
      BY <1>1, <1>12 DEF TypeOK, CompleteStoryboard
    <3>2. QED
      BY <3>1, StageNumbers DEF Boards
  <2>3. e \in Task /\ e.at = Scenes /\ e.todo = ex[i].todo /\ e.stop = ex[i].stop
    BY <1>1, <2>2 DEF Task
  <2>4. /\ new.review = data.review /\ new.approved = data.approved
        /\ new.stage[Scenes] = data.stage[Scenes]
    BY <1>2, StageNumbers DEF WithOutput, SetStage, Data
  <2>5. /\ pc = "review" => new.review /\ ~new.approved
        /\ pc = "stage" => Paid
        /\ pc \in {"review", "stage"}
    BY <1>4, <2>4 DEF Unfilmed
  <2> HIDE DEF e, new, pc
  <2>6. ~Extra
    BY <1>5, <2>1, StageNumbers
  <2>7. Squared(pc, Scenes, "running", new, Exact, Extra)
    BY <2>5, <2>6, EarlySquared, StageNumbers
  <2>8. Shown(pc, Scenes, ex[i].todo, new, takes > 0)
    BY <1>3, <2>4, <2>5 DEF Shown
  <2>9. Covered(pc, "running", new, Paid) /\ Awaited(pc, "running", new, Paid)
    BY <2>5 DEF Covered, Awaited, Busy, Owning
  <2>10. QED
    BY <1>1, <1>2, <1>6, <2>1, <2>3, <2>5, <2>7, <2>8, <2>9, CommitKeepsMoney DEF Owning
<1>13. QED
  BY <1>7, <1>8, <1>9, <1>10, <1>11, <1>12

\* A job that the policy stops, that its author reviews or that is ready rests.
LEMMA EndingsKeepMoney ==
  ASSUME Inv, SeqInv, MoneyInv, OneInstance, NEW i \in Instances,
         PolicyBlocks(i) \/ Blocked(i) \/ Review(i) \/ Finish(i) \/ Published(i)
  PROVE  MoneyInv'
<1> DEFINE data == ex[i].mem.data
<1>1. /\ TypeOK /\ ex[i] \in Task /\ req[i].pc = "idle"
      /\ UNCHANGED <<gen, takes, book, req, can, up>>
  BY MoneyFields DEF PolicyBlocks, Blocked, Review, Finish, Published, Runs, money, hostVars
<1>2. ex[i].pc \in Owning /\ ex[i].mem = row /\ data = row.data /\ data \in Data
  <2>1. ex[i].pc \in Owning
    BY DEF PolicyBlocks, Blocked, Review, Finish, Published, Owning, Busy
  <2>2. QED
    BY <2>1, MoneyFields
<1>3. /\ Covered(ex[i].pc, row.status, data, Paid)
      /\ Squared(ex[i].pc, ex[i].at, row.status, data, Exact, Extra)
      /\ Shown(ex[i].pc, ex[i].at, ex[i].todo, data, takes > 0)
  BY <1>2, MoneyFields
<1>4. takes = 0 => \A b \in Boards : gen'[b] = {}
  BY <1>1 DEF MoneyInv
<1>5. EmitOr("tail") \in {"tail", "off"}
  BY DEF EmitOr, Emitted
<1>6. CASE PolicyBlocks(i)
  <2> DEFINE new == WithOutput(SetStage(data, Policy, "blocked"), Policy)
  <2>1. /\ Commit(i, ex[i], "blocked", new, "blocked") /\ ex[i].pc = "done" /\ ex[i].at = Policy
    BY <1>6 DEF PolicyBlocks
  <2>2. new.stage[Scenes] = data.stage[Scenes]
    BY <1>2, StageFace, StageNumbers
  <2> HIDE DEF new
  <2>3. ~Extra
    BY <2>1, EarlyMoney, StageNumbers DEF Staged
  <2>4. Squared("blocked", ex[i].at, "blocked", new, Exact, Extra)
    BY <2>3, EarlySquared DEF Staged
  <2>5. Shown("blocked", ex[i].at, ex[i].todo, new, takes > 0)
    BY <1>3, <2>2 DEF Shown
  <2>6. Covered("blocked", "blocked", new, Paid) /\ Awaited("blocked", "blocked", new, Paid)
    BY DEF Covered, Awaited, Busy
  <2>7. QED
    BY <1>1, <1>2, <1>4, <2>1, <2>4, <2>5, <2>6, CommitKeepsMoney
<1>7. CASE Blocked(i)
  <2>1. Commit(i, ex[i], EmitOr("tail"), data, "blocked") /\ ex[i].pc = "blocked"
    BY <1>7 DEF Blocked
  <2>2. ~Extra
    BY <2>1, EarlyMoney
  <2>3. Squared(EmitOr("tail"), ex[i].at, "blocked", data, Exact, Extra)
    BY <1>5, <2>2, EarlySquared DEF Staged
  <2>4. Shown(EmitOr("tail"), ex[i].at, ex[i].todo, data, takes > 0)
    BY <1>3, <1>5 DEF Shown
  <2>5. Covered(EmitOr("tail"), "blocked", data, Paid) /\ Awaited(EmitOr("tail"), "blocked", data, Paid)
    BY <1>5 DEF Covered, Awaited, Busy
  <2>6. QED
    BY <1>1, <1>2, <1>4, <1>5, <2>1, <2>3, <2>4, <2>5, CommitKeepsMoney
<1>8. CASE Review(i)
  <2> DEFINE new == [data EXCEPT !.cur = ScriptReview]
  <2>1. Commit(i, ex[i], EmitOr("tail"), new, "awaiting_script_review") /\ ex[i].pc = "review"
    BY <1>8 DEF Review
  <2>2. new.stage = data.stage /\ new.review = data.review
    BY <1>2 DEF Data
  <2> HIDE DEF new
  <2>3. ~Extra
    BY <2>1, EarlyMoney
  <2>4. Squared(EmitOr("tail"), ex[i].at, "awaiting_script_review", new, Exact, Extra)
    BY <1>5, <2>3, EarlySquared DEF Staged
  <2>5. Shown(EmitOr("tail"), ex[i].at, ex[i].todo, new, takes > 0)
    BY <1>3, <1>5, <2>2 DEF Shown
  <2>6. /\ Covered(EmitOr("tail"), "awaiting_script_review", new, Paid)
        /\ Awaited(EmitOr("tail"), "awaiting_script_review", new, Paid)
    BY <1>3, <1>5, <2>1, <2>2 DEF Covered, Awaited, Busy
  <2>7. QED
    BY <1>1, <1>2, <1>4, <1>5, <2>1, <2>4, <2>5, <2>6, CommitKeepsMoney
<1>9. CASE Finish(i)
  <2> DEFINE new == [data EXCEPT !.cur = Completed]
             pc == IF AutoPublish THEN "publish" ELSE EmitOr("tail")
  <2>1. Commit(i, ex[i], pc, new, "ready") /\ ex[i].pc = "finish"
    BY <1>9 DEF Finish
  <2>2. new.stage = data.stage
    BY <1>2 DEF Data
  <2>3. pc \in {"publish", "tail", "off"}
    BY <1>5
  <2> HIDE DEF new, pc
  <2>4. Squared(pc, ex[i].at, "ready", new, Exact, Extra)
    BY <1>3, <2>1, <2>3 DEF Squared, Staged
  <2>5. Shown(pc, ex[i].at, ex[i].todo, new, takes > 0)
    BY <1>3, <2>2, <2>3 DEF Shown
  <2>6. Covered(pc, "ready", new, Paid) /\ Awaited(pc, "ready", new, Paid)
    BY <2>3 DEF Covered, Awaited, Busy
  <2>7. QED
    BY <1>1, <1>2, <1>4, <2>1, <2>3, <2>4, <2>5, <2>6, CommitKeepsMoney
<1>10. CASE Published(i)
  <2>1. Commit(i, ex[i], EmitOr("tail"), data, "ready") /\ row.status = "ready"
    <3>1. Commit(i, ex[i], EmitOr("tail"), data, ex[i].mem.status) /\ ex[i].pc = "publish"
      BY <1>10 DEF Published
    <3>2. row.status = "ready"
      BY <1>3, <3>1 DEF Covered
    <3>3. QED
      BY <1>2, <3>1, <3>2
  <2>2. Squared(EmitOr("tail"), ex[i].at, "ready", data, Exact, Extra)
    BY <1>3, <1>5, <2>1 DEF Squared, Staged
  <2>3. Shown(EmitOr("tail"), ex[i].at, ex[i].todo, data, takes > 0)
    BY <1>3, <1>5 DEF Shown
  <2>4. Covered(EmitOr("tail"), "ready", data, Paid) /\ Awaited(EmitOr("tail"), "ready", data, Paid)
    BY <1>5 DEF Covered, Awaited, Busy
  <2>5. QED
    BY <1>1, <1>2, <1>4, <1>5, <2>1, <2>2, <2>3, <2>4, CommitKeepsMoney
<1>11. QED
  BY <1>6, <1>7, <1>8, <1>9, <1>10

\* A take is billed: what the takes account for only grows.
LEMMA BilledGrows ==
  ASSUME TypeOK, BookInv, ~Extra, takes' = takes + 1, book' = book
  PROVE  BookInv' /\ (Paid' <=> Paid) /\ ~Extra' /\ takes' > 0
<1>1. /\ takes \in Nat /\ TakeCents \in Nat /\ Reserve \in Nat /\ book.open \in Nat /\ book.setl \in Nat
  BY DEF TypeOK, Book
<1>2. takes * TakeCents <= (takes + 1) * TakeCents
  <2>1. (takes + 1) * TakeCents = takes * TakeCents + TakeCents /\ takes * TakeCents \in Nat
    BY <1>1
  <2>2. QED
    BY <1>1, <2>1
<1>3. Billed \in Nat /\ Billed' \in Nat /\ Billed <= Billed'
  BY <1>1, <1>2 DEF Billed
<1>4. ~Extra' /\ (Paid' <=> Paid)
  BY DEF Extra, Paid
<1>5. BookInv'
  BY <1>1, <1>3, <1>4 DEF BookInv
<1>6. QED
  BY <1>1, <1>4, <1>5

\* The settlement leaves the book exact: a reserve above the cost of the takes
\* is lowered once, one below it gets its overage once, and afterwards nothing
\* is left to settle.
LEMMA SettledKeepsBook ==
  ASSUME NEW b \in Book, NEW actual \in Nat \ {0}, Net(b) < 0,
         b.open \in {0, Reserve} \/ (b.over /\ b.open > Reserve /\ b.open - b.setl <= actual),
         b.setl < Reserve, b.setl > 0 => Reserve - b.setl <= actual,
         b.over /\ b.closed = 0 => Outstanding(b) = actual
  PROVE  LET new == Settled(b, Outstanding(b), actual)
         IN  /\ \/ new.open \in {0, Reserve}
                \/ new.over /\ new.open > Reserve /\ new.open - new.setl <= actual
             /\ new.setl < Reserve
             /\ new.setl > 0 => Reserve - new.setl <= actual
             /\ new.over /\ new.closed = 0 => Outstanding(new) = actual
             /\ HasCharges(new)
             /\ (new.over /\ new.closed > 0) \/ Outstanding(new) = actual
             /\ Outstanding(new) > 0
<1> DEFINE authorized == Outstanding(b)
           new == Settled(b, authorized, actual)
<1>1. /\ b.open \in Nat /\ b.closed \in Nat /\ b.setl \in Nat /\ b.over \in BOOLEAN
      /\ Reserve \in Nat \ {0}
  BY DEF Book
<1>2. authorized = b.open - b.setl /\ b.open > b.setl /\ authorized > 0 /\ authorized \in Nat
  BY <1>1 DEF Outstanding, Net
<1>3. HasCharges(b) /\ b.open > 0
  BY <1>1, <1>2 DEF HasCharges
<1> HIDE DEF authorized
<1>4. CASE authorized > actual /\ b.setl = 0
  <2>1. new = [b EXCEPT !.setl = authorized - actual]
    BY <1>2, <1>3, <1>4 DEF Settled
  <2>2. new.open = b.open /\ new.closed = b.closed /\ new.over = b.over /\ new.setl = authorized - actual
    BY <2>1 DEF Book
  <2> HIDE DEF new
  <2>3. b.open = Reserve /\ new.setl = Reserve - actual
    BY <1>1, <1>2, <1>4, <2>2
  <2>4. Net(new) = 0 - actual /\ Outstanding(new) = actual
    BY <1>1, <2>2, <2>3 DEF Net, Outstanding
  <2>5. HasCharges(new)
    BY <1>3, <2>2 DEF HasCharges
  <2>6. QED
    BY <1>1, <2>2, <2>3, <2>4, <2>5 DEF new, authorized
<1>5. CASE actual > authorized /\ ~b.over
  <2>1. new = [b EXCEPT !.open = @ + (actual - authorized), !.over = TRUE]
    BY <1>3, <1>5 DEF Settled
  <2>2. /\ new.open = b.open + (actual - authorized) /\ new.closed = b.closed
        /\ new.over = TRUE /\ new.setl = b.setl
    BY <2>1 DEF Book
  <2> HIDE DEF new
  <2>3. b.open = Reserve /\ new.open = b.setl + actual /\ new.open > Reserve
    BY <1>1, <1>2, <1>5, <2>2
  <2>4. Net(new) = 0 - actual /\ Outstanding(new) = actual
    BY <1>1, <2>2, <2>3 DEF Net, Outstanding
  <2>5. HasCharges(new)
    BY <1>1, <2>2, <2>3 DEF HasCharges
  <2>6. QED
    BY <1>1, <2>2, <2>3, <2>4, <2>5 DEF new, authorized
<1>6. CASE ~(authorized > actual /\ b.setl = 0) /\ ~(actual > authorized /\ ~b.over)
  <2>1. new = b
    BY <1>3, <1>6 DEF Settled
  <2>2. authorized = actual \/ (b.over /\ b.closed > 0)
    BY <1>1, <1>2, <1>6 DEF authorized
  <2>3. QED
    BY <1>1, <1>2, <1>3, <2>1, <2>2 DEF authorized
<1>7. QED
  BY <1>4, <1>5, <1>6

\* Takes, scenes and exceptions.
LEMMA ScenesKeepMoney ==
  ASSUME Inv, SeqInv, MoneyInv, OneInstance, NEW i \in Instances,
         \/ NextScene(i) \/ TakePasses(i) \/ TakeRejected(i) \/ AcceptScene(i) \/ Fetched(i)
         \/ ReadAuthorized(i) \/ Wake(i) \/ \E kind \in Errors \ {"none"} : Raise(i, kind)
  PROVE  MoneyInv'
<1>1. /\ TypeOK /\ ex[i] \in Task /\ req[i].pc = "idle" /\ UNCHANGED <<row, book, req, can, up>>
  BY MoneyFields DEF NextScene, TakePasses, TakeRejected, AcceptScene, Fetched, ReadAuthorized,
     Wake, Raise, Runs, jobVars, money, hostVars
<1>2. ex[i].pc \in Busy /\ ex[i].mem = row
  <2>1. ex[i].pc \in Busy
    BY DEF NextScene, TakePasses, TakeRejected, AcceptScene, Fetched, ReadAuthorized, Wake, Raise,
       MayRaise, Busy
  <2>2. QED
    BY <2>1, MoneyFields DEF Owning
<1>3. /\ Covered(ex[i].pc, row.status, row.data, Paid)
      /\ Squared(ex[i].pc, ex[i].at, row.status, row.data, Exact, Extra)
      /\ Shown(ex[i].pc, ex[i].at, ex[i].todo, row.data, takes > 0)
      /\ Placed(ex[i].pc, ex[i].at, ex[i].todo, ex[i].mem.data)
      /\ Kept(i) /\ takes \in Nat
  BY MoneyFields
<1>4. row.status \in {"queued", "running"} /\ (Paid \/ Unfilmed(row.data))
  BY <1>2, <1>3 DEF Covered
<1>5. ASSUME NEW e, Step(i, e), e.pc \in Busy \ {"settled"}, e.mem = ex[i].mem,
             e.stop = ex[i].stop, takes' = takes + 1, gen' = gen, ex[i].pc = "veo",
             e.pc \notin {"costs", "finish"} \cup Staged \cup {"fetch"}
      PROVE  MoneyInv'
  <2>1. ~Extra
    BY <1>5, EarlyMoney
  <2>2. BookInv' /\ (Paid' <=> Paid) /\ ~Extra' /\ takes' > 0
    BY <1>1, <1>5, <2>1, BilledGrows DEF MoneyInv
  <2>3. ex'[i] = e
    BY <1>1, <1>5, StepDoes
  <2>4. Covered(e.pc, row.status, row.data, Paid') /\ Awaited(e.pc, row.status, row.data, Paid')
    <3>1. Covered(e.pc, row.status, row.data, Paid) /\ Awaited(e.pc, row.status, row.data, Paid)
      BY <1>4, <1>5, BusyCovered
    <3>2. QED
      BY <2>2, <3>1 DEF Covered, Awaited
  <2>5. Squared(e.pc, e.at, row.status, row.data, Exact', Extra')
    BY <1>4, <1>5, <2>2 DEF Squared, Staged
  <2>6. Shown(e.pc, e.at, e.todo, row.data, takes' > 0)
    BY <2>2 DEF Shown
  <2>7. takes' /= 0 /\ ~ex'[i].stop /\ e.pc /= "interrupt" /\ e.mem = row
    BY <1>2, <1>3, <1>5, <2>2, <2>3 DEF Kept, Busy
  <2>8. QED
    BY <1>1, <1>4, <1>5, <2>2, <2>3, <2>4, <2>5, <2>6, <2>7, ExecutorKeepsMoney
<1>6. ASSUME NEW kind, Step(i, Raised(ex[i], kind)), UNCHANGED <<gen, takes>>,
             \/ ex[i].pc \in {"work", "veo", "fetch", "dispatch"}
             \/ ex[i].pc = "done" /\ ex[i].at = Storyboard
      PROVE  MoneyInv'
  <2> DEFINE e == Raised(ex[i], kind)
  <2>1. /\ e.pc = "failing" /\ e.mem = ex[i].mem /\ e.stop = ex[i].stop
        /\ e.at = ex[i].at /\ e.todo = ex[i].todo
    BY <1>1 DEF Raised, Task
  <2> HIDE DEF e
  <2>2. Squared(e.pc, e.at, row.status, row.data, Exact, Extra)
    BY <1>3, <1>6, <2>1, StageNumbers DEF Squared, Late, Staged
  <2>3. Shown(e.pc, e.at, e.todo, row.data, takes > 0)
    BY <1>3, <2>1 DEF Shown
  <2>4. takes = 0 => \A b \in Boards : gen'[b] = {}
    BY <1>6 DEF MoneyInv
  <2>5. QED
    BY <1>1, <1>2, <1>6, <2>1, <2>2, <2>3, <2>4, BusyMoveKeepsMoney DEF e, Busy
<1>7. ASSUME Step(i, SceneGenerated(ex[i])), takes' = takes, takes > 0,
             ex[i].pc \in {"accept", "fetch"}, ex[i].at = Scenes
      PROVE  MoneyInv'
  <2> DEFINE e == SceneGenerated(ex[i])
  <2>1. e.pc = "scene" /\ e.mem = ex[i].mem /\ e.stop = ex[i].stop /\ e.at = ex[i].at
    BY <1>1 DEF SceneGenerated, Task
  <2> HIDE DEF e
  <2>2. ~Extra
    BY <1>7, EarlyMoney, StageNumbers
  <2>3. Squared(e.pc, e.at, row.status, row.data, Exact, Extra)
    BY <1>4, <2>1, <2>2, EarlySquared DEF Staged
  <2>4. Shown(e.pc, e.at, e.todo, row.data, takes > 0)
    BY <1>7 DEF Shown
  <2>5. takes /= 0
    BY <1>7
  <2>6. QED
    BY <1>1, <1>2, <1>7, <2>1, <2>3, <2>4, <2>5, BusyMoveKeepsMoney DEF e, Busy
<1>8. CASE NextScene(i)
  <2> DEFINE pc == IF ex[i].todo = {} THEN "done"
                   ELSE IF Scene(ex[i]) \in gen[ex[i].board] THEN "fetch" ELSE "veo"
             e == [ex[i] EXCEPT !.pc = pc]
  <2>1. ex[i].pc = "scene" /\ UNCHANGED <<gen, takes>> /\ Step(i, e)
    BY <1>8 DEF NextScene, Goto, jobVars
  <2>2. /\ e.pc = pc /\ e.mem = ex[i].mem /\ e.stop = ex[i].stop
        /\ e.at = ex[i].at /\ e.todo = ex[i].todo /\ e.at = Scenes /\ pc \in {"done", "fetch", "veo"}
    BY <1>1, <1>3, <2>1 DEF Task, Placed
  <2>3. pc = "done" => ex[i].todo /= 1..NumScenes
    <3>1. 1 \in 1..NumScenes
      OBVIOUS
    <3>2. QED
      BY <3>1
  <2>4. pc = "fetch" => takes > 0
    <3>1. ex[i].board \in Boards
      BY <1>1 DEF Task
    <3>2. QED
      BY <1>3, <3>1 DEF MoneyInv
  <2> HIDE DEF e, pc
  <2>5. ~Extra
    BY <2>1, EarlyMoney
  <2>6. Squared(e.pc, e.at, row.status, row.data, Exact, Extra)
    BY <1>4, <2>2, <2>5, EarlySquared, StageNumbers
  <2>7. Shown(e.pc, e.at, e.todo, row.data, takes > 0)
    BY <1>3, <2>1, <2>2, <2>3, <2>4 DEF Shown
  <2>8. takes = 0 => \A b \in Boards : gen'[b] = {}
    BY <2>1 DEF MoneyInv
  <2>9. QED
    BY <1>1, <1>2, <2>1, <2>2, <2>6, <2>7, <2>8, BusyMoveKeepsMoney DEF Busy
<1>9. CASE TakePasses(i)
  <2> DEFINE e == [ex[i] EXCEPT !.pc = "accept"]
  <2>1. Step(i, e) /\ ex[i].pc = "veo" /\ takes' = takes + 1 /\ gen' = gen
    BY <1>9 DEF TakePasses, Goto
  <2>2. e.pc = "accept" /\ e.mem = ex[i].mem /\ e.stop = ex[i].stop
    BY <1>1 DEF Task
  <2> HIDE DEF e
  <2>3. QED
    BY <1>5, <2>1, <2>2 DEF Busy, Staged
<1>10. CASE TakeRejected(i)
  <2> DEFINE e == IF ex[i].tries < NativeRetries THEN [ex[i] EXCEPT !.tries = @ + 1]
                  ELSE Raised(ex[i], "permanent")
  <2>1. Step(i, e) /\ ex[i].pc = "veo" /\ takes' = takes + 1 /\ gen' = gen
    BY <1>10 DEF TakeRejected
  <2>2. e.pc \in {"veo", "failing"} /\ e.mem = ex[i].mem /\ e.stop = ex[i].stop
    BY <1>1, <2>1 DEF Raised, Task
  <2> HIDE DEF e
  <2>3. QED
    BY <1>5, <2>1, <2>2 DEF Busy, Staged
<1>11. CASE AcceptScene(i)
  <2>1. ex[i].pc = "accept" /\ takes > 0 /\ ex[i].at = Scenes
    BY <1>3, <1>11 DEF AcceptScene, Shown, Placed
  <2>2. Step(i, SceneGenerated(ex[i])) /\ takes' = takes
    BY <1>11 DEF AcceptScene
  <2>3. QED
    BY <1>7, <2>1, <2>2
<1>12. CASE Fetched(i)
  <2>1. ex[i].pc = "fetch" /\ UNCHANGED <<gen, takes>> /\ ex[i].at \in {Scenes, Render}
    BY <1>3, <1>12 DEF Fetched, Placed, jobVars
  <2>2. CASE ex[i].at = Render
    <3> DEFINE e == [ex[i] EXCEPT !.pc = "settle"]
    <3>1. Step(i, e)
      BY <1>12, <2>2 DEF Fetched, Goto
    <3>2. /\ e.pc = "settle" /\ e.mem = ex[i].mem /\ e.stop = ex[i].stop
          /\ e.at = ex[i].at /\ e.todo = ex[i].todo
      BY <1>1 DEF Task
    <3> HIDE DEF e
    <3>3. Squared(e.pc, e.at, row.status, row.data, Exact, Extra)
      BY <1>4, <3>2 DEF Squared, Late, Staged
    <3>4. Shown(e.pc, e.at, e.todo, row.data, takes > 0)
      BY <1>3, <3>2 DEF Shown
    <3>5. takes = 0 => \A b \in Boards : gen'[b] = {}
      BY <2>1 DEF MoneyInv
    <3>6. QED
      BY <1>1, <1>2, <2>1, <3>1, <3>2, <3>3, <3>4, <3>5, BusyMoveKeepsMoney DEF Busy
  <2>3. CASE ex[i].at = Scenes
    <3>1. takes > 0
      BY <1>3, <2>1, <2>3 DEF Shown
    <3>2. Step(i, SceneGenerated(ex[i]))
      BY <1>12, <2>3, StageNumbers DEF Fetched
    <3>3. QED
      BY <1>7, <2>1, <2>3, <3>1, <3>2
  <2>4. QED
    BY <2>1, <2>2, <2>3
<1>13. CASE ReadAuthorized(i)
  <2> DEFINE e == [ex[i] EXCEPT !.pc = "settled", !.authorized = Outstanding(book)]
  <2>1. Step(i, e) /\ ex[i].pc = "settle" /\ UNCHANGED <<gen, takes>>
    BY <1>13 DEF ReadAuthorized, jobVars
  <2>2. /\ e.pc = "settled" /\ e.mem = ex[i].mem /\ e.stop = ex[i].stop
        /\ e.authorized = Outstanding(book) /\ e.at = ex[i].at /\ e.todo = ex[i].todo
    BY <1>1 DEF Task
  <2> HIDE DEF e
  <2>3. ex'[i] = e
    BY <1>1, <2>1, StepDoes
  <2>4. Covered(e.pc, row.status, row.data, Paid) /\ Awaited(e.pc, row.status, row.data, Paid)
    BY <1>4, <2>2, BusyCovered DEF Busy
  <2>5. Squared(e.pc, e.at, row.status, row.data, Exact, Extra)
    BY <1>4, <2>2 DEF Squared, Late, Staged
  <2>6. Shown(e.pc, e.at, e.todo, row.data, takes > 0)
    BY <1>3, <2>2 DEF Shown
  <2>7. /\ Covered(e.pc, row.status, row.data, Paid') /\ Awaited(e.pc, row.status, row.data, Paid')
        /\ Squared(e.pc, e.at, row.status, row.data, Exact', Extra')
        /\ Shown(e.pc, e.at, e.todo, row.data, takes' > 0)
    BY <1>1, <2>1, <2>4, <2>5, <2>6, SameFits
  <2>8. BookInv' /\ (row'.status = "none" => ~Paid')
    BY <1>1, <2>1, SameMoney DEF MoneyInv
  <2>9. ~ex'[i].stop /\ e.mem = row
    BY <1>2, <1>3, <2>2, <2>3 DEF Kept
  <2>10. takes' = 0 => \A b \in Boards : gen'[b] = {}
    BY <2>1 DEF MoneyInv
  <2>11. QED
    BY <1>1, <2>2, <2>3, <2>7, <2>8, <2>9, <2>10, ExecutorKeepsMoney
<1>14. CASE Wake(i)
  <2> DEFINE e == [ex[i] EXCEPT !.pc = "dispatch"]
  <2>1. Step(i, e) /\ ex[i].pc = "sleep" /\ UNCHANGED <<gen, takes>>
    BY <1>14 DEF Wake, Goto, jobVars
  <2>2. /\ e.pc = "dispatch" /\ e.mem = ex[i].mem /\ e.stop = ex[i].stop
        /\ e.at = ex[i].at /\ e.todo = ex[i].todo
    BY <1>1 DEF Task
  <2> HIDE DEF e
  <2>3. Squared(e.pc, e.at, row.status, row.data, Exact, Extra)
    BY <1>3, <2>1, <2>2 DEF Squared, Late, Staged
  <2>4. Shown(e.pc, e.at, e.todo, row.data, takes > 0)
    BY <1>3, <2>2 DEF Shown
  <2>5. takes = 0 => \A b \in Boards : gen'[b] = {}
    BY <2>1 DEF MoneyInv
  <2>6. QED
    BY <1>1, <1>2, <2>1, <2>2, <2>3, <2>4, <2>5, BusyMoveKeepsMoney DEF Busy
<1>15. CASE \E kind \in Errors \ {"none"} : Raise(i, kind)
  <2>1. PICK kind \in Errors \ {"none"} : Raise(i, kind)
    BY <1>15
  <2>2. /\ Step(i, Raised(ex[i], kind)) /\ UNCHANGED <<gen, takes>>
        /\ \/ ex[i].pc \in {"work", "veo", "fetch", "dispatch"}
           \/ ex[i].pc = "done" /\ ex[i].at = Storyboard
    BY <2>1 DEF Raise, MayRaise, jobVars
  <2>3. QED
    BY <1>6, <2>2
<1>16. QED
  BY <1>8, <1>9, <1>10, <1>11, <1>12, <1>13, <1>14, <1>15

\* The settlement makes the account exact, and the render begins with it.
LEMMA SettleKeepsMoney ==
  ASSUME TakeCents > 0, Inv, SeqInv, MoneyInv, OneInstance, NEW i \in Instances,
         Settle(i) \/ SaveCosts(i)
  PROVE  MoneyInv'
<1>1. /\ TypeOK /\ ex[i] \in Task /\ book \in Book /\ takes \in Nat /\ TakeCents \in Nat
      /\ ex[i].pc \in {"settled", "costs"} /\ ex[i].mem = row
      /\ req[i].pc = "idle" /\ UNCHANGED <<gen, takes, req, can, up>>
  <2>1. /\ ex[i].pc \in {"settled", "costs"} /\ req[i].pc = "idle"
        /\ UNCHANGED <<gen, takes, req, can, up>>
    BY DEF Settle, SaveCosts, Runs, jobVars, hostVars
  <2>2. QED
    BY <2>1, MoneyFields DEF Owning, Busy
<1>2. /\ Covered(ex[i].pc, row.status, row.data, Paid)
      /\ Squared(ex[i].pc, ex[i].at, row.status, row.data, Exact, Extra)
      /\ Shown(ex[i].pc, ex[i].at, ex[i].todo, row.data, takes > 0)
      /\ Kept(i) /\ Ordered(row.data) /\ Stood(ex[i].pc, ex[i].at, row.data)
  BY <1>1, MoneyFields
<1>3. Filmed(row.data)
  BY <1>1, <1>2 DEF Stood
<1>4. Paid /\ takes > 0 /\ row.status \in {"queued", "running"}
  <2>1. row.data.stage[Storyboard] = "completed" /\ row.data.stage[Scenes] = "completed"
    BY <1>3 DEF Filmed
  <2>2. Storyboard \in row.data.out
    BY <1>2, <2>1, StageNumbers DEF Ordered
  <2>3. QED
    BY <1>1, <1>2, <2>1, <2>2 DEF Covered, Busy, Shown, Unfilmed
<1>5. takes = 0 => \A b \in Boards : gen'[b] = {}
  BY <1>4, <1>1
<1>6. CASE Settle(i)
  <2> DEFINE e == [ex[i] EXCEPT !.pc = "costs", !.authorized = 0]
  <2>1. /\ book' = Settled(book, Outstanding(book), Billed) /\ row' = row
        /\ ex[i].pc = "settled" /\ Step(i, e)
    BY <1>2, <1>6 DEF Settle, Kept, Billed, jobVars
  <2>2. /\ e.pc = "costs" /\ e.mem = ex[i].mem /\ e.stop = ex[i].stop
        /\ e.at = ex[i].at /\ e.todo = ex[i].todo
    BY <1>1 DEF Task
  <2> HIDE DEF e
  <2>3. ex'[i] = e
    BY <1>1, <2>1, StepDoes
  <2>4. Billed' = Billed /\ Billed \in Nat \ {0}
    BY <1>1, <1>4 DEF Billed
  <2>5. Net(book) < 0
    BY <1>1, <1>4 DEF Paid, Outstanding
  <2>6. /\ \/ book'.open \in {0, Reserve}
           \/ book'.over /\ book'.open > Reserve /\ book'.open - book'.setl <= Billed
        /\ book'.setl < Reserve
        /\ book'.setl > 0 => Reserve - book'.setl <= Billed
        /\ book'.over /\ book'.closed = 0 => Outstanding(book') = Billed
        /\ HasCharges(book')
        /\ (book'.over /\ book'.closed > 0) \/ Outstanding(book') = Billed
        /\ Outstanding(book') > 0
    <3> DEFINE actual == Billed
    <3>1. /\ book.open \in {0, Reserve} \/ (book.over /\ book.open > Reserve /\ book.open - book.setl <= actual)
          /\ book.setl < Reserve /\ (book.setl > 0 => Reserve - book.setl <= actual)
          /\ book.over /\ book.closed = 0 => Outstanding(book) = actual
      BY DEF MoneyInv, BookInv, Extra
    <3>2. actual \in Nat \ {0}
      BY <2>4
    <3> HIDE DEF actual
    <3>3. QED
      BY <1>1, <2>1, <2>5, <3>1, <3>2, SettledKeepsBook DEF actual
  <2>7. BookInv' /\ Paid' /\ Exact'
    BY <2>4, <2>6 DEF BookInv, Paid, Exact, Extra
  <2>8. Covered(e.pc, row'.status, row'.data, Paid') /\ Awaited(e.pc, row'.status, row'.data, Paid')
    BY <1>4, <2>1, <2>2, <2>7 DEF Covered, Awaited, Busy
  <2>9. Squared(e.pc, e.at, row'.status, row'.data, Exact', Extra')
    BY <2>2, <2>7 DEF Squared, Late, Staged
  <2>10. Shown(e.pc, e.at, e.todo, row'.data, takes' > 0)
    BY <1>1, <1>4 DEF Shown
  <2>11. ~ex'[i].stop /\ e.mem = row' /\ row'.status /= "none"
    BY <1>1, <1>2, <1>4, <2>1, <2>2, <2>3 DEF Kept
  <2>12. QED
    BY <1>1, <1>5, <2>2, <2>3, <2>7, <2>8, <2>9, <2>10, <2>11, ExecutorKeepsMoney
<1>7. CASE SaveCosts(i)
  <2> DEFINE e == [ex[i] EXCEPT !.at = Render]
  <2>1. Commit(i, e, "stage", row.data, row.status) /\ ex[i].pc = "costs" /\ book' = book
    BY <1>1, <1>7 DEF SaveCosts, money
  <2>2. e \in Task /\ e.at = Render /\ e.todo = ex[i].todo /\ e.stop = ex[i].stop
    BY <1>1, StageNumbers DEF Task
  <2> HIDE DEF e
  <2>3. Squared("stage", e.at, row.status, row.data, Exact, Extra)
    BY <1>2, <2>1, <2>2, StageNumbers DEF Squared, Late, Staged
  <2>4. Shown("stage", e.at, e.todo, row.data, takes > 0)
    BY <1>2 DEF Shown
  <2>5. QED
    BY <1>1, <1>4, <1>5, <2>1, <2>2, <2>3, <2>4, BusyCommitKeepsMoney DEF Owning, Busy
<1>8. QED
  BY <1>6, <1>7

\* From an exception to the retry or to the refund.
LEMMA FailureKeepsMoney ==
  ASSUME Inv, SeqInv, MoneyInv, OneInstance, NEW i \in Instances,
         FailStage(i) \/ ScheduleRetry(i) \/ FailJob(i) \/ RefundFailure(i)
  PROVE  MoneyInv'
<1> DEFINE data == ex[i].mem.data
<1>1. /\ TypeOK /\ ex[i] \in Task /\ book \in Book /\ ex[i].pc \in {"failing", "failed", "refund"}
      /\ ex[i].mem = row /\ data = row.data /\ data \in Data
      /\ req[i].pc = "idle" /\ UNCHANGED <<gen, takes, req, can, up>>
  <2>1. /\ ex[i].pc \in {"failing", "failed", "refund"} /\ req[i].pc = "idle"
        /\ UNCHANGED <<gen, takes, req, can, up>>
    BY DEF FailStage, ScheduleRetry, FailJob, RefundFailure, Runs, jobVars, hostVars
  <2>2. QED
    BY <2>1, MoneyFields DEF Owning, Busy
<1>2. /\ Covered(ex[i].pc, row.status, data, Paid)
      /\ Squared(ex[i].pc, ex[i].at, row.status, data, Exact, Extra)
      /\ Shown(ex[i].pc, ex[i].at, ex[i].todo, data, takes > 0)
      /\ Kept(i)
  BY <1>1, MoneyFields
<1>3. takes = 0 => \A b \in Boards : gen'[b] = {}
  BY <1>1 DEF MoneyInv
<1>4. CASE FailStage(i)
  <2> DEFINE new == SetStage(data, data.cur, "failed")
  <2>1. Commit(i, ex[i], "failed", new, "failed") /\ ex[i].pc = "failing" /\ book' = book
    BY <1>4 DEF FailStage, money
  <2>2. data.cur \in Places
    BY <1>1 DEF Data
  <2>3. /\ \A t \in STAGES : new.stage[t] = IF t = data.cur THEN "failed" ELSE data.stage[t]
        /\ Unfilmed(new) <=> Unfilmed(data)
    BY <1>1, <2>2, StageFace DEF Unfilmed
  <2> HIDE DEF new
  <2>4. RenderBegun(data) => RenderBegun(new)
    BY <2>3, StageNumbers DEF RenderBegun
  <2>5. Squared("failed", ex[i].at, "failed", new, Exact, Extra)
    BY <1>2, <2>1, <2>4 DEF Squared, Late, Staged, Covered, Busy
  <2>6. Shown("failed", ex[i].at, ex[i].todo, new, takes > 0)
    BY <1>2, <2>3, StageNumbers DEF Shown
  <2>7. Covered("failed", "failed", new, Paid) /\ Awaited("failed", "failed", new, Paid)
    BY <1>2, <2>1, <2>3 DEF Covered, Awaited, Busy
  <2>8. QED
    BY <1>1, <1>3, <2>1, <2>5, <2>6, <2>7, CommitKeepsMoney DEF Owning, Busy
<1>5. CASE ScheduleRetry(i)
  <2> DEFINE new == [data EXCEPT !.retries[data.cur] = @ + 1, !.error = "transient"]
             e == [ex[i] EXCEPT !.fault = "none"]
             pc == EmitOr("retryTail")
  <2>1. Commit(i, e, pc, new, "queued") /\ ex[i].pc = "failed" /\ book' = book
    BY <1>5 DEF ScheduleRetry, money
  <2>2. e \in Task /\ e.at = ex[i].at /\ e.todo = ex[i].todo /\ e.stop = ex[i].stop
    BY <1>1 DEF Task, Errors
  <2>3. new.stage = data.stage /\ (Unfilmed(new) <=> Unfilmed(data))
    BY <1>1 DEF Data, Unfilmed
  <2>4. pc \in {"retryTail", "sleep"}
    BY DEF EmitOr, Emitted
  <2> HIDE DEF new, e, pc
  <2>5. Squared(pc, e.at, "queued", new, Exact, Extra)
    BY <1>2, <2>1, <2>2, <2>3, <2>4 DEF Squared, Late, Staged, Covered, RenderBegun
  <2>6. Shown(pc, e.at, e.todo, new, takes > 0)
    BY <1>2, <2>3, <2>4 DEF Shown
  <2>7. Paid \/ Unfilmed(new)
    BY <1>2, <2>1, <2>3 DEF Covered
  <2>8. QED
    BY <1>1, <1>3, <2>1, <2>2, <2>4, <2>5, <2>6, <2>7, BusyCommitKeepsMoney DEF Owning, Busy
<1>6. CASE FailJob(i)
  <2> DEFINE new == [data EXCEPT !.error = ex[i].fault]
  <2>1. Commit(i, ex[i], "refund", new, "failed") /\ ex[i].pc = "failed" /\ book' = book
    BY <1>6 DEF FailJob, money
  <2>2. new.stage = data.stage
    BY <1>1 DEF Data
  <2> HIDE DEF new
  <2>3. Squared("refund", ex[i].at, "failed", new, Exact, Extra)
    BY DEF Squared, Late, Staged
  <2>4. Shown("refund", ex[i].at, ex[i].todo, new, takes > 0)
    BY <1>2, <2>2 DEF Shown
  <2>5. Covered("refund", "failed", new, Paid) /\ Awaited("refund", "failed", new, Paid)
    BY DEF Covered, Awaited, Busy
  <2>6. QED
    BY <1>1, <1>3, <2>1, <2>3, <2>4, <2>5, CommitKeepsMoney DEF Owning
<1>7. CASE RefundFailure(i)
  <2>1. /\ ex[i].pc = "refund" /\ row' = row /\ book' = Refunded(book)
        /\ Step(i, Goto(ex[i], EmitOr("failTail")))
    BY <1>7 DEF RefundFailure, Refund, jobVars
  <2>2. EmitOr("failTail") \in {"failTail", "off"}
    BY DEF EmitOr, Emitted
  <2>3. ex'[i].pc \in {"failTail", "off"} /\ ~ex'[i].stop
    <3>1. ~NoTask.stop
      BY DEF NoTask
    <3>2. QED
      BY <1>1, <1>2, <2>1, <2>2, <3>1, GotoDoes DEF Kept
  <2>4. row.status = "failed"
    BY <1>2, <2>1 DEF Covered
  <2>5. /\ book.open \in Nat /\ book.closed \in Nat /\ book.setl \in Nat
        /\ book'.open = 0 /\ book'.closed = book.closed + book.open
        /\ book'.setl = book.setl /\ book'.over = book.over
    BY <1>1, <2>1 DEF Refunded, Returned, Book
  <2>6. HasCharges(book) <=> HasCharges(book')
    BY <2>5 DEF HasCharges
  <2>7. ~Extra'
    <3>1. book.over => book.closed + book.open > 0
      BY <2>5 DEF MoneyInv, BookInv, HasCharges
    <3>2. QED
      BY <2>5, <3>1 DEF Extra
  <2>8. BookInv'
    <3>1. Billed' = Billed
      BY <1>1 DEF Billed
    <3>2. QED
      BY <2>5, <2>6, <2>7, <3>1 DEF MoneyInv, BookInv
  <2>9. /\ Covered(ex'[i].pc, row'.status, row'.data, Paid')
        /\ Awaited(ex'[i].pc, row'.status, row'.data, Paid')
    BY <2>1, <2>3, <2>4 DEF Covered, Awaited, Busy
  <2>10. Squared(ex'[i].pc, ex'[i].at, row'.status, row'.data, Exact', Extra')
    BY <2>1, <2>3, <2>4, <2>7 DEF Squared, Staged
  <2>11. Shown(ex'[i].pc, ex'[i].at, ex'[i].todo, row'.data, takes' > 0)
    BY <1>1, <1>2, <2>1, <2>3 DEF Shown
  <2>12. ex'[i].pc \notin Owning /\ ex'[i].pc /= "interrupt" /\ ex'[i].pc /= "settled"
    BY <2>3 DEF Owning, Busy
  <2>13. row'.status /= "none" /\ (takes' = 0 => \A b \in Boards : gen'[b] = {})
    BY <1>1, <1>3, <2>1, <2>4
  <2>14. QED
    BY <1>1, <2>3, <2>8, <2>9, <2>10, <2>11, <2>12, <2>13, ExecutorKeepsMoney
<1>8. QED
  BY <1>4, <1>5, <1>6, <1>7

\* A job that rests fits a task that owns nothing.
LEMMA RestFits ==
  ASSUME NEW e, NEW job, e.pc \notin Owning, e.pc = "load" => job.status = "running",
         job.status = "awaiting_script_review" => job.data.review, job.status /= "ready", ~Extra',
         job.data.stage[Scenes] = "completed" => takes' > 0
  PROVE  Fits(e, job, Paid', Exact', Extra', takes' > 0)
<1>1. Covered(e.pc, job.status, job.data, Paid')
  BY DEF Covered, Owning
<1>2. Squared(e.pc, e.at, job.status, job.data, Exact', Extra')
  BY DEF Squared, Owning, Busy, Staged
<1>3. Shown(e.pc, e.at, e.todo, job.data, takes' > 0)
  BY DEF Shown, Owning, Busy
<1>4. QED
  BY <1>1, <1>2, <1>3 DEF Fits

\* What a handler writes has no new scenes, and a script that is written anew
\* waits for its author.
LEMMA PreparedFace ==
  ASSUME NEW op \in Operations, NEW s \in STAGES, NEW data \in Data
  PROVE  /\ Prepared(op, s, data).stage[Scenes] = "completed" => data.stage[Scenes] = "completed"
         /\ op = "create" => Prepared(op, s, data) = data
         /\ op = "regenerate" /\ data.review => Unfilmed(Prepared(op, s, data))
<1>1. CASE op = "create"
  BY <1>1 DEF Prepared
<1>2. CASE op = "retry"
  <2>1. Prepared(op, s, data) = [data EXCEPT !.error = "none"]
    BY <1>2 DEF Prepared
  <2>2. QED
    BY <1>2, <2>1 DEF Data
<1>3. CASE op = "start"
  <2>1. Prepared(op, s, data) = [data EXCEPT !.approved = TRUE, !.cur = Scenes, !.error = "none"]
    BY <1>3 DEF Prepared
  <2>2. QED
    BY <1>3, <2>1 DEF Data
<1>4. CASE op = "retryStage"
  <2> DEFINE new == Reset(data, s, (s + 1)..Scoring)
  <2>1. Prepared(op, s, data) = new
    BY <1>4 DEF Prepared
  <2>2. new.stage[Scenes] \in {"pending", data.stage[Scenes]}
    BY StageNumbers DEF Reset, Data
  <2>3. QED
    BY <1>4, <2>1, <2>2
<1>5. CASE op = "regenerate"
  <2> DEFINE new == [Reset(data, Editorial, Editorial..Scoring) EXCEPT !.approved = FALSE]
  <2>1. Prepared(op, s, data) = new
    BY <1>5 DEF Prepared
  <2>2. /\ new.stage[Scenes] = "pending" /\ new.review = data.review /\ ~new.approved
        /\ Storyboard \notin new.out
    BY StageNumbers DEF Reset, Data
  <2>3. QED
    BY <1>5, <2>1, <2>2 DEF Unfilmed
<1>6. QED
  BY <1>1, <1>2, <1>3, <1>4, <1>5 DEF Operations

\* Handlers begin on a job that rests, and charge only who has not paid.
LEMMA BeginKeepsMoney ==
  ASSUME Inv, SeqInv, MoneyInv, OneInstance, NEW i \in Instances, Request(i)
  PROVE  MoneyInv'
<1>1. /\ TypeOK /\ ex[i] \in Task /\ book \in Book /\ req \in [Instances -> Handler] /\ Kept(i)
      /\ row.data \in Data /\ Asks(i)
      /\ Covered(ex[i].pc, row.status, row.data, Paid)
      /\ Squared(ex[i].pc, ex[i].at, row.status, row.data, Exact, Extra)
      /\ Shown(ex[i].pc, ex[i].at, ex[i].todo, row.data, takes > 0)
  BY MoneyFields DEF TypeOK, Kept
<1>2. /\ req[i].pc = "idle" /\ up[i] = "up" /\ ex[i].pc \in Awaits \cup {"off"}
      /\ UNCHANGED <<gen, takes, book, ex, can, up>>
  BY DEF Request, BeginRequest, BeginCreate, LoopIsFree, jobVars, money
<1>3. ASSUME BookInv', row'.status = "none" => ~Paid', Kept(i)' PROVE MoneyInv'
  BY <1>2, <1>3 DEF MoneyInv, OneInstance
<1>4. (Paid' <=> Paid) /\ (Extra' <=> Extra) /\ BookInv'
  BY <1>2, SameMoney DEF MoneyInv
<1>5. ASSUME NEW op \in Offered, NEW s \in STAGES, BeginRequest(i, op, s) PROVE MoneyInv'
  <2>1. /\ row' = row /\ Permitted(op, s, row)
        /\ req'[i] = [pc |-> IF Charges(op) THEN "charge" ELSE "save",
                      op |-> op, stage |-> s, mem |-> row]
    BY <1>1, <1>5 DEF BeginRequest, jobVars
  <2>2. row.status \in {"awaiting_script_review", "failed", "blocked", "cancelled"} /\ op /= "create"
    BY <2>1 DEF Permitted
  <2>3. ex[i].pc \notin Owning
    BY <1>1, <1>2, <2>2 DEF Covered, Owning, Busy, Awaits, OuterAwaits, InnerAwaits
  <2>4. /\ Charges(op) => ~Paid
        /\ op \in {"start", "retry", "retryStage"} /\ ~Charges(op) => Paid
    <3>1. Outstanding(book) \in Nat
      BY <1>1, BookTypes
    <3>2. QED
      BY <3>1 DEF Charges, Paid
  <2>5. Asks(i)'
    BY <1>4, <2>1, <2>2, <2>3, <2>4, <1>2 DEF Asks
  <2>6. Fits(ex'[i], row', Paid', Exact', Extra', takes' > 0)
    BY <1>1, <1>2, <2>1, SameFits DEF Fits
  <2>7. Awaited(ex'[i].pc, row'.status, row'.data, Paid')
    BY <2>1, <2>2 DEF Awaited
  <2>8. "interrupt" \notin Awaits \cup {"off"} /\ "settled" \in Owning
    BY DEF Awaits, OuterAwaits, InnerAwaits, Owning, Busy
  <2>9. Kept(i)'
    BY <1>1, <1>2, <2>3, <2>5, <2>6, <2>7, <2>8 DEF Kept
  <2>10. QED
    BY <1>3, <1>4, <2>1, <2>9 DEF MoneyInv
<1>6. ASSUME NEW review \in BOOLEAN, BeginCreate(i, review) PROVE MoneyInv'
  <2>1. /\ row.status = "none" /\ row' = [status |-> "queued", data |-> NewData(review)]
        /\ req'[i] = [pc |-> IF review THEN "save" ELSE "charge",
                      op |-> "create", stage |-> Intake, mem |-> row']
    BY <1>1, <1>6 DEF BeginCreate
  <2>2. ex[i].pc \notin Owning
    BY <1>1, <1>2, <2>1 DEF Covered, Owning, Busy, Awaits, OuterAwaits, InnerAwaits
  <2>3. ~Paid /\ ~Extra
    BY <2>1, <2>2, EarlyMoney DEF MoneyInv
  <2>4. /\ row'.status = "queued" /\ row'.data.stage[Scenes] = "pending"
        /\ review => Unfilmed(row'.data)
    BY <2>1, StageNumbers DEF NewData, Unfilmed
  <2>5. Asks(i)'
    BY <1>2, <1>4, <2>1, <2>2, <2>3, <2>4 DEF Asks
  <2>6. ex[i].pc /= "load" /\ ex[i].pc /= "interrupt" /\ ex[i].pc /= "settled"
    BY <1>2 DEF Awaits, OuterAwaits, InnerAwaits
  <2>7. Fits(ex'[i], row', Paid', Exact', Extra', takes' > 0)
    BY <1>2, <1>4, <2>2, <2>3, <2>4, <2>6, RestFits
  <2>8. req'[i].pc /= "idle" /\ req'[i].op = "create"
    BY <2>1
  <2>9. Kept(i)'
    BY <1>1, <1>2, <2>2, <2>5, <2>6, <2>7, <2>8 DEF Kept
  <2>10. QED
    BY <1>3, <1>4, <2>4, <2>9
<1>7. QED
  BY <1>5, <1>6 DEF Request

\* Handlers charge the reserve, give up or queue the job.
LEMMA ServeKeepsMoney ==
  ASSUME Inv, SeqInv, MoneyInv, OneInstance, NEW i \in Instances, Serve(i)
  PROVE  MoneyInv'
<1>1. /\ TypeOK /\ ex[i] \in Task /\ book \in Book /\ req \in [Instances -> Handler] /\ Kept(i)
      /\ row.data \in Data /\ Asks(i) /\ Sequenced(i) /\ req[i] \in Handler
      /\ Covered(ex[i].pc, row.status, row.data, Paid)
      /\ Shown(ex[i].pc, ex[i].at, ex[i].todo, row.data, takes > 0)
      /\ up[i] = "up" /\ ~ex[i].stop /\ ex[i].pc /= "interrupt"
  BY MoneyFields DEF TypeOK, Kept
<1>2. req[i].pc \in {"charge", "save"} /\ UNCHANGED <<gen, takes, can, up>>
  BY DEF Serve, ChargeReserve, ChargeRefused, SaveRequest, jobVars, money, hostVars
<1>3. /\ req[i].mem = row /\ ex[i].pc \notin Owning /\ row.status \notin {"none", "ready"}
      /\ ex[i].pc /= "settled" /\ ~Extra
  <2>1. req[i].mem = row /\ ex[i].pc \notin Owning /\ row.status \notin {"none", "ready"}
    BY <1>1, <1>2 DEF Asks
  <2>2. QED
    BY <2>1, EarlyMoney DEF Owning, Busy
<1>4. ex[i].pc /= "load"
  <2>1. row.status /= "running"
    BY <1>1, <1>2, <1>3 DEF Asks, Sequenced, Permitted, Handler, Operations
  <2>2. QED
    BY <1>1, <2>1 DEF Covered
<1>5. ASSUME BookInv', row'.status = "none" => ~Paid', Kept(i)' PROVE MoneyInv'
  BY <1>2, <1>5 DEF MoneyInv, OneInstance
<1>6. row.data.stage[Scenes] = "completed" => takes' > 0
  BY <1>1, <1>2 DEF Shown
<1>7. row.status = "awaiting_script_review" => row.data.review
  BY <1>1 DEF Covered
<1>8. CASE ChargeReserve(i)
  <2>1. /\ req[i].pc = "charge" /\ UNCHANGED <<row, ex>> /\ book' = Charged(book, Reserve)
        /\ req'[i] = [req[i] EXCEPT !.pc = "save"]
    BY <1>1, <1>8 DEF ChargeReserve, jobVars
  <2>2. req'[i].pc = "save" /\ req'[i].op = req[i].op /\ req'[i].mem = req[i].mem
    BY <1>1, <2>1 DEF Handler
  <2>3. ~Paid
    BY <1>1, <2>1 DEF Asks
  <2>4. /\ book.open \in Nat /\ book.closed \in Nat /\ book.setl \in Nat /\ Reserve \in Nat \ {0}
        /\ book'.open = book.open + Reserve /\ book'.closed = book.closed
        /\ book'.setl = book.setl /\ book'.over = book.over
    BY <1>1, <2>1 DEF Charged, Book
  <2>5. book.open = 0 /\ book.setl < Reserve
    <3>1. book.open <= book.setl
      BY <2>3, <2>4 DEF Paid, Outstanding, Net
    <3>2. QED
      BY <2>4, <3>1 DEF MoneyInv, BookInv
  <2>6. Paid'
    BY <2>4, <2>5 DEF Paid, Outstanding, Net
  <2>7. ~Extra' /\ (book'.over => HasCharges(book'))
    BY <1>3, <2>4, <2>5 DEF Extra, HasCharges
  <2>8. BookInv'
    <3>1. Billed' = Billed
      BY <1>2 DEF Billed
    <3>2. QED
      BY <2>4, <2>5, <2>7, <3>1 DEF MoneyInv, BookInv
  <2>9. Fits(ex'[i], row', Paid', Exact', Extra', takes' > 0)
    BY <1>3, <1>4, <1>6, <1>7, <2>1, <2>7, RestFits
  <2>10. Asks(i)'
    BY <1>1, <1>3, <2>1, <2>2, <2>6 DEF Asks
  <2>11. Awaited(ex'[i].pc, row'.status, row'.data, Paid')
    BY <2>6 DEF Awaited
  <2>12. Kept(i)'
    BY <1>1, <1>2, <1>3, <2>1, <2>9, <2>10, <2>11 DEF Kept
  <2>13. QED
    BY <1>3, <1>5, <2>1, <2>8, <2>12
<1>9. CASE ChargeRefused(i)
  <2>1. /\ req[i].pc = "charge" /\ UNCHANGED <<book, ex>> /\ req'[i] = NoRequest
        /\ row' = IF req[i].op = "create" THEN NoJob ELSE row
    BY <1>1, <1>9 DEF ChargeRefused, money
  <2>2. req'[i].pc = "idle"
    BY <2>1, NewDataOrdered
  <2>3. ~Paid /\ (Paid' <=> Paid) /\ ~Extra' /\ BookInv'
    BY <1>1, <1>2, <1>3, <2>1, SameMoney DEF Asks, MoneyInv
  <2>4. NoJob.status = "none" /\ NoJob.data.stage[Scenes] = "pending"
    BY StageNumbers DEF NoJob, NewData
  <2>5. Fits(ex'[i], row', Paid', Exact', Extra', takes' > 0)
    BY <1>3, <1>4, <1>6, <1>7, <2>1, <2>3, <2>4, RestFits
  <2>6. Awaited(ex'[i].pc, row'.status, row'.data, Paid')
    <3>1. CASE req[i].op = "create"
      BY <2>1, <2>4, <3>1 DEF Awaited
    <3>2. CASE req[i].op /= "create"
      BY <1>1, <2>1, <2>3, <3>2 DEF Kept, Awaited
    <3>3. QED
      BY <3>1, <3>2
  <2>7. Asks(i)'
    BY <2>2 DEF Asks
  <2>8. Kept(i)'
    BY <1>1, <1>2, <1>3, <2>1, <2>5, <2>6, <2>7 DEF Kept
  <2>9. QED
    BY <1>5, <2>3, <2>8
<1>10. CASE SaveRequest(i)
  <2> DEFINE new == Prepared(req[i].op, req[i].stage, row.data)
  <2>1. /\ req[i].pc = "save" /\ book' = book /\ req'[i] = NoRequest
        /\ row'.data = new /\ row'.status = "queued"
        /\ ex'[i] = Scheduled(ex[i])
    BY <1>1, <1>3, <1>10 DEF SaveRequest, Stored, money, TypeOK
  <2>2. req'[i].pc = "idle"
    BY <2>1, NewDataOrdered
  <2>3. req[i].op \in Operations /\ req[i].stage \in STAGES
    BY <1>1 DEF Handler
  <2>4. /\ new.stage[Scenes] = "completed" => row.data.stage[Scenes] = "completed"
        /\ req[i].op = "create" => new = row.data
        /\ req[i].op = "regenerate" /\ row.data.review => Unfilmed(new)
    BY <1>1, <2>3, PreparedFace
  <2> HIDE DEF new
  <2>5. Paid \/ Unfilmed(new)
    <3>1. req[i].op = "regenerate" => row.status = "awaiting_script_review"
      BY <1>1, <1>3, <2>1 DEF Sequenced, Permitted
    <3>2. QED
      BY <1>1, <1>7, <2>1, <2>3, <2>4, <3>1 DEF Asks, Operations
  <2>6. (Paid' <=> Paid) /\ ~Extra' /\ BookInv'
    BY <1>2, <1>3, <2>1, SameMoney DEF MoneyInv
  <2>7. ex'[i] = ex[i] \/ (ex'[i].pc = "claim" /\ ~ex'[i].stop)
    BY <2>1 DEF Scheduled, NoTask
  <2>8. /\ ex'[i].pc \notin Owning /\ ex'[i].pc /= "load" /\ ~ex'[i].stop
        /\ ex'[i].pc /= "interrupt" /\ ex'[i].pc /= "settled"
    BY <1>1, <1>3, <1>4, <2>7 DEF Owning, Busy
  <2>9. Fits(ex'[i], row', Paid', Exact', Extra', takes' > 0)
    BY <1>6, <2>1, <2>4, <2>6, <2>8, RestFits
  <2>10. Awaited(ex'[i].pc, row'.status, row'.data, Paid')
    BY <2>1, <2>5, <2>6 DEF Awaited
  <2>11. Asks(i)'
    BY <2>2 DEF Asks
  <2>12. Kept(i)'
    BY <1>1, <1>2, <2>8, <2>9, <2>10, <2>11 DEF Kept
  <2>13. QED
    BY <1>5, <2>1, <2>6, <2>12
<1>11. QED
  BY <1>8, <1>9, <1>10 DEF Serve

\* Where nobody cancels and nothing stops, the rest of the steps only wakes
\* executors and spends the wallet on other work.
LEMMA OthersKeepMoney ==
  ASSUME Uninterrupted, Inv, SeqInv, MoneyInv, OneInstance, NEW i \in Instances,
         \/ TimerFires(i) \/ SpendElsewhere \/ BeginCancel(i) \/ Crash(i) \/ Shutdown(i)
         \/ Exit(i) \/ Boot(i) \/ ServeCancel
  PROVE  MoneyInv'
<1>1. TypeOK /\ ex[i] \in Task /\ Kept(i) /\ up[i] = "up" /\ can.pc = "idle"
  BY MoneyFields DEF Kept, MoneyInv
<1>2. used \in [Bounds -> Nat]
  BY <1>1 DEF TypeOK
<1>3. ~BeginCancel(i) /\ ~Crash(i) /\ ~Shutdown(i) /\ ~Exit(i) /\ ~Boot(i) /\ ~ServeCancel
  <2>1. used["cancels"] \in Nat /\ used["crashes"] \in Nat /\ used["stops"] \in Nat
    BY <1>2 DEF Bounds
  <2>2. ~BeginCancel(i) /\ ~Crash(i) /\ ~Shutdown(i)
    BY <2>1 DEF BeginCancel, Crash, Shutdown, Uninterrupted
  <2>3. ~Exit(i) /\ ~Boot(i) /\ ~ServeCancel
    BY <1>1 DEF Exit, Boot, ServeCancel, SaveCancel, RefundCancelled
  <2>4. QED
    BY <2>2, <2>3
<1>4. CASE TimerFires(i)
  <2>1. /\ req[i].pc = "idle" /\ UNCHANGED <<row, gen, takes, book, req, can, up>>
        /\ Step(i, Scheduled(ex[i]))
    BY <1>4 DEF TimerFires, LoopIsFree, jobVars, money, Step
  <2>2. CASE ex[i].pc /= "off"
    <3>1. ex' = ex
      BY <1>1, <2>1, <2>2 DEF Scheduled, Step, TypeOK
    <3>2. QED
      BY <2>1, <3>1, SameMoney, SameFits DEF MoneyInv, Kept, Fits, Asks
  <2>3. CASE ex[i].pc = "off"
    <3> DEFINE e == [NoTask EXCEPT !.pc = "claim"]
    <3>1. Step(i, e) /\ e.pc = "claim" /\ ~e.stop /\ ~ex[i].stop
      BY <1>1, <2>1, <2>3 DEF Scheduled, NoTask, Kept
    <3> HIDE DEF e
    <3>2. /\ Covered("off", row.status, row.data, Paid)
          /\ Awaited("off", row.status, row.data, Paid)
          /\ Squared("off", ex[i].at, row.status, row.data, Exact, Extra)
          /\ Shown("off", ex[i].at, ex[i].todo, row.data, takes > 0)
      BY <2>1, <2>3, MoneyFields
    <3>3. Covered(e.pc, row.status, row.data, Paid) /\ Awaited(e.pc, row.status, row.data, Paid)
      BY <3>1, <3>2 DEF Covered, Awaited, Owning, Busy
    <3>4. Squared(e.pc, e.at, row.status, row.data, Exact, Extra)
      BY <3>1, <3>2 DEF Squared, Late, Staged
    <3>5. Shown(e.pc, e.at, e.todo, row.data, takes > 0)
      BY <3>1, <3>2 DEF Shown
    <3>6. "claim" \notin Owning /\ (takes = 0 => \A b \in Boards : gen'[b] = {})
      BY <2>1 DEF Owning, Busy, MoneyInv
    <3>7. e.stop = ex[i].stop
      BY <1>1, <3>1 DEF e, NoTask, Task
    <3>8. QED
      BY <2>1, <3>1, <3>3, <3>4, <3>5, <3>6, <3>7, MoveKeepsMoney
  <2>4. QED
    BY <2>2, <2>3
<1>5. CASE SpendElsewhere
  <2>1. UNCHANGED <<row, gen, boards, takes, book, ex, req, can, up>>
    BY <1>5 DEF SpendElsewhere, jobVars
  <2>2. QED
    BY <2>1, SameMoney, SameFits DEF MoneyInv, Kept, Fits, Asks
<1>6. QED
  BY <1>3, <1>4, <1>5

\* Every step of a job that nobody cancels on an instance that stays up keeps
\* the account.
LEMMA NextKeepsMoney ==
  ASSUME OneInstance, Uninterrupted, TakeCents > 0, Inv, SeqInv, MoneyInv, [Next]_vars
  PROVE  MoneyInv'
<1>1. ASSUME NEW i \in Instances, Executor(i) \/ Trouble(i) PROVE MoneyInv'
  BY <1>1, RunKeepsMoney, DispatchKeepsMoney, StagesKeepMoney, EndingsKeepMoney,
     ScenesKeepMoney, SettleKeepsMoney, FailureKeepsMoney
  DEF Executor, Trouble
<1>2. ASSUME NEW i \in Instances, Request(i) \/ Serve(i) PROVE MoneyInv'
  BY <1>2, BeginKeepsMoney, ServeKeepsMoney
<1>3. ASSUME NEW i \in Instances,
             \/ BeginCancel(i) \/ Crash(i) \/ Shutdown(i) \/ Host(i) \/ ServeCancel \/ SpendElsewhere
      PROVE  MoneyInv'
  BY <1>3, OthersKeepMoney DEF Host
<1>4. CASE ServeCancel \/ SpendElsewhere
  BY <1>3, <1>4
<1>5. CASE UNCHANGED vars
  BY <1>5, SameMoney, SameFits DEF vars, MoneyInv, Kept, Fits, Asks
<1>6. QED
  BY <1>1, <1>2, <1>3, <1>4, <1>5 DEF Next

\* At the start nothing has been charged or made.
LEMMA InitMoney == Init => MoneyInv
<1> SUFFICES ASSUME Init PROVE MoneyInv
  OBVIOUS
<1>1. /\ book.open = 0 /\ book.closed = 0 /\ book.setl = 0 /\ ~book.over /\ takes = 0
      /\ row = NoJob /\ can.pc = "idle" /\ \A b \in Boards : gen[b] = {}
  BY NewDataOrdered DEF Init, NoCharges
<1>2. Net(book) = 0 /\ ~Paid /\ ~Extra
  BY <1>1 DEF Net, Outstanding, Paid, Extra
<1>3. BookInv
  BY <1>1, <1>2 DEF BookInv
<1>4. row.status = "none" /\ row.data.stage[Scenes] = "pending"
  BY <1>1, StageNumbers DEF NoJob, NewData
<1>5. ASSUME NEW i \in Instances PROVE Kept(i)
  <2>1. /\ up[i] = "up" /\ ex[i].pc = "off" /\ ~ex[i].stop /\ req[i].pc = "idle"
    BY NewDataOrdered DEF Init, NoTask
  <2>2. Fits(ex[i], row, Paid, Exact, Extra, takes > 0)
    BY <1>2, <1>4, <2>1 DEF Fits, Covered, Squared, Shown, Busy, Staged
  <2>3. QED
    BY <1>4, <2>1, <2>2 DEF Kept, Awaited, Asks, Owning, Busy
<1>6. QED
  BY <1>1, <1>2, <1>3, <1>5 DEF MoneyInv

\* The account holds in every state, where the API runs on one instance that
\* stays up and nobody cancels.
LEMMA MoneyHolds ==
  ASSUME OneInstance, Uninterrupted, TakeCents > 0
  PROVE  Spec => [](Inv /\ SeqInv /\ MoneyInv)
<1>1. Inv /\ SeqInv /\ MoneyInv /\ [Next]_vars => MoneyInv'
  BY NextKeepsMoney
<1>2. Inv /\ SeqInv /\ [Next]_vars => SeqInv'
  BY OneIsApart, NextKeepsSeq
<1>3. QED
  BY <1>1, <1>2, InitSeq, InitMoney, InvHolds, PTL DEF Spec

\* A take is bought from money that the organisation has paid: whatever fails,
\* is refunded, retried, reviewed or regenerated before, Veo is never called
\* for a job without an outstanding charge.
THEOREM NoUnpaidTakeHolds ==
  ASSUME OneInstance, Uninterrupted, TakeCents > 0
  PROVE  Spec => []NoUnpaidTake
<1>1. Inv /\ SeqInv /\ MoneyInv => NoUnpaidTake
  <2> SUFFICES ASSUME Inv, SeqInv, MoneyInv, NEW i \in Instances, ex[i].pc = "veo" PROVE Paid
    BY DEF NoUnpaidTake, Paid
  <2>1. ex[i].mem = row /\ ex[i].at = Scenes /\ Stood("veo", Scenes, row.data) /\ Ordered(row.data)
    BY MoneyFields DEF Owning, Busy, Placed
  <2>2. row.data.stage[Storyboard] = "completed"
    BY <2>1, StageNumbers DEF Stood, Filming, AtStage
  <2>3. Storyboard \in row.data.out
    BY <2>1, <2>2, StageNumbers DEF Ordered
  <2>4. Covered("veo", row.status, row.data, Paid)
    BY MoneyFields
  <2>5. QED
    BY <2>3, <2>4 DEF Covered, Busy, Unfilmed
<1>2. QED
  BY <1>1, MoneyHolds, PTL

\* A finished video has been paid with what its takes cost, to the cent.
THEOREM ReadyPaysItsTakesHolds ==
  ASSUME OneInstance, Uninterrupted, TakeCents > 0
  PROVE  Spec => []ReadyPaysItsTakes
<1>1. Inv /\ SeqInv /\ MoneyInv => ReadyPaysItsTakes
  <2> SUFFICES ASSUME Inv, SeqInv, MoneyInv, row.status = "ready", ~(book.over /\ book.closed > 0)
               PROVE  Outstanding(book) = takes * TakeCents
    BY DEF ReadyPaysItsTakes
  <2>1. PICK i \in Instances : TRUE
    OBVIOUS
  <2>2. Exact
    BY <2>1, MoneyFields DEF Squared
  <2>3. QED
    BY <2>2 DEF Exact, Billed
<1>2. QED
  BY <1>1, MoneyHolds, PTL

(***************************************************************************)
(* The invariant behind ReviewGate: a storyboard that its author has to    *)
(* see stays with the executor that wrote it until the job awaits the      *)
(* review; every other job that somebody can take up again has no          *)
(* storyboard, needs no review, or has been approved.                      *)
(***************************************************************************)
\* Nobody cancels, and a stop finds no executor at its last event: either would
\* take a job that awaits its author back into the pipeline.
ReviewUndisturbed == MaxCancels = 0 /\ (EventSinks => MaxStops = 0)

Cleared(data) == Storyboard \in data.out /\ data.review => data.approved

\* Jobs that a request, a claim or a restart takes up as they are.
Resumed == {"queued", "failed", "blocked", "cancelled", "ready"}

\* Where an executor works on the job and its copy is the row; it may have a
\* refund left to do when somebody else takes the job up.
Steering == Busy \cup {"failed", "blocked", "review", "publish"}

\* The status of the job while its executor is at pc.
Matched(pc, status) ==
  /\ pc \in Busy => status \in {"queued", "running"}
  /\ pc \in {"load", "review"} => status = "running"
  /\ pc = "failed" => status = "failed"
  /\ pc = "blocked" => status = "blocked"
  /\ pc = "publish" => status = "ready"

Decided(pc, status, data) ==
  /\ Matched(pc, status)
  /\ pc \in Steering \cup {"load"} => ~data.interrupted
  /\ \/ pc \in Busy \cup {"load", "interrupt"}
     \/ status \in Resumed
     \/ status = "running" /\ data.interrupted
     => Cleared(data)

\* A request works on a job that rests, with the row as it is.
Alone(i) ==
  req[i].pc /= "idle" =>
    /\ req[i].mem = row /\ ex[i].pc \notin Steering \cup {"load", "interrupt"}
    /\ req[i].op = "create" => row.status = "queued"

Reviewed(i) ==
  /\ ex[i].pc \in Steering \cup {"interrupt"} => ex[i].mem = row
  /\ Decided(ex[i].pc, row.status, row.data)
  /\ ex[i].stop => ex[i].pc \in Awaits \cup {"interrupt"} /\ ~EventSinks
  /\ ex[i].pc = "tail" => EventSinks
  /\ up[i] = "down" => ex[i].pc = "off" /\ req[i].pc = "idle"
  /\ Alone(i)

ReviewInv == can.pc = "idle" /\ \A i \in Instances : Reviewed(i)

\* What the invariants say where an executor or a handler takes a step.
LEMMA ReviewFields ==
  ASSUME Inv, SeqInv, ReviewInv, NEW i \in Instances
  PROVE  /\ TypeOK /\ ex[i] \in Task /\ row \in Job /\ row.data \in Data /\ req[i] \in Handler
         /\ ex[i].mem.data \in Data /\ Reviewed(i) /\ Sequenced(i)
         /\ Placed(ex[i].pc, ex[i].at, ex[i].todo, ex[i].mem.data)
         /\ Stood(ex[i].pc, ex[i].at, ex[i].mem.data)
         /\ Decided(ex[i].pc, row.status, row.data)
         /\ ex[i].pc \in Steering \cup {"interrupt"} => ex[i].mem = row
<1>1. TypeOK /\ row \in Job /\ req[i] \in Handler
  BY DEF Inv, TypeOK
<1>2. row.data \in Data
  BY <1>1 DEF Job
<1>3. Reviewed(i)
  BY DEF ReviewInv
<1>4. QED
  BY <1>1, <1>2, <1>3, SeqFields DEF Reviewed

\* An executor that may run and is not being interrupted is not stopped.
LEMMA RunsUnstopped ==
  ASSUME ReviewInv, NEW i \in Instances, Runs(i), ex[i].pc /= "interrupt"
  PROVE  ~ex[i].stop
  BY DEF ReviewInv, Reviewed, Runs

\* What is known of a job wherever its executor is.
LEMMA RestDecided ==
  ASSUME NEW old, NEW pc, NEW status, NEW data, Decided(old, status, data),
         pc \notin Steering \cup {"load", "interrupt"}
  PROVE  Decided(pc, status, data)
  BY DEF Decided, Matched, Steering, Busy

\* What a step of instance i leaves of the others.
LEMMA OthersReviewed ==
  ASSUME ReviewInv, NEW i \in Instances, Spares(i), Reviewed(i)', can'.pc = "idle"
  PROVE  ReviewInv'
<1>1. ASSUME NEW j \in Instances, j /= i PROVE Reviewed(j)'
  <2>1. Reviewed(j) /\ ex'[j] = ex[j] /\ req'[j] = req[j] /\ up'[j] = up[j]
    BY <1>1 DEF ReviewInv, Spares
  <2>2. CASE UNCHANGED <<row, gen>>
    BY <2>1, <2>2 DEF Reviewed, Alone
  <2>3. CASE ex[j].pc \in AtRest /\ req[j].pc = "idle"
    <3>1. ex[j].pc \notin Steering \cup {"load", "interrupt"}
      BY <2>3 DEF AtRest, Steering, Busy
    <3>2. Decided(ex'[i].pc, row'.status, row'.data)
      BY DEF Reviewed
    <3>3. Decided(ex[j].pc, row'.status, row'.data)
      BY <3>1, <3>2, RestDecided
    <3>4. QED
      BY <2>1, <2>3, <3>1, <3>3 DEF Reviewed, Alone
  <2>4. QED
    BY <1>1, <2>2, <2>3 DEF Spares, Sole
<1>2. QED
  BY <1>1 DEF ReviewInv

\* A step of the executor keeps the invariant where its task fits the row.
LEMMA ExecutorKeepsReview ==
  ASSUME ReviewInv, NEW i \in Instances, Spares(i), req[i].pc = "idle", up[i] /= "down",
         UNCHANGED <<req, can, up>>,
         ex'[i].pc \in Steering \cup {"interrupt"} => ex'[i].mem = row',
         Decided(ex'[i].pc, row'.status, row'.data),
         ex'[i].stop => ex'[i].pc \in Awaits \cup {"interrupt"} /\ ~EventSinks,
         ex'[i].pc = "tail" => EventSinks
  PROVE  ReviewInv'
<1>1. can'.pc = "idle" /\ req'[i].pc = "idle" /\ up'[i] /= "down"
  BY DEF ReviewInv
<1>2. Alone(i)'
  BY <1>1 DEF Alone
<1>3. Reviewed(i)'
  BY <1>1, <1>2 DEF Reviewed
<1>4. QED
  BY <1>1, <1>3, OthersReviewed

\* A commit of an executor that owns the row.
LEMMA CommitKeepsReview ==
  ASSUME Inv, SeqInv, ReviewInv, NEW i \in Instances, Spares(i), Runs(i), NEW e \in Task,
         NEW pc, NEW data, NEW status, Commit(i, e, pc, data, status), e.stop = ex[i].stop,
         ex[i].pc \in Steering, Decided(pc, status, data), pc = "tail" => EventSinks,
         UNCHANGED <<req, can, up>>
  PROVE  ReviewInv'
<1>1. TypeOK /\ ex[i].mem = row /\ req[i].pc = "idle" /\ up[i] /= "down"
  BY ReviewFields DEF Runs
<1>2. /\ row'.data = data /\ row'.status = status /\ ex'[i].pc = pc
      /\ pc = "off" => ex'[i] = NoTask
      /\ pc /= "off" => ex'[i].mem = row' /\ ex'[i].stop = e.stop
  BY <1>1, CommitDoes
<1>3. "interrupt" \notin Steering /\ "off" \notin Steering /\ "off" /= "interrupt" /\ ~NoTask.stop
  BY DEF Steering, Busy, NoTask
<1>4. ~ex'[i].stop
  BY <1>2, <1>3, RunsUnstopped
<1>5. QED
  BY <1>1, <1>2, <1>3, <1>4, ExecutorKeepsReview

\* A commit within the pipeline.
LEMMA BusyCommitKeepsReview ==
  ASSUME Inv, SeqInv, ReviewInv, NEW i \in Instances, Spares(i), Runs(i), NEW e \in Task,
         NEW pc \in Busy, NEW data, NEW status \in {"queued", "running"},
         Commit(i, e, pc, data, status), e.stop = ex[i].stop, ex[i].pc \in Steering,
         Cleared(data), ~data.interrupted, UNCHANGED <<req, can, up>>
  PROVE  ReviewInv'
<1>1. Decided(pc, status, data) /\ pc /= "tail"
  BY DEF Decided, Matched, Steering, Busy, Resumed
<1>2. QED
  BY <1>1, CommitKeepsReview

\* A move within the pipeline.
LEMMA BusyMoveKeepsReview ==
  ASSUME Inv, SeqInv, ReviewInv, NEW i \in Instances, Spares(i), Runs(i),
         ex[i].pc \in Busy, ex'[i].pc \in Busy, ex'[i].mem = ex[i].mem, ex'[i].stop = ex[i].stop,
         UNCHANGED <<row, req, can, up>>
  PROVE  ReviewInv'
<1>1. ex[i].mem = row /\ Decided(ex[i].pc, row.status, row.data)
  BY ReviewFields DEF Steering
<1>2. Decided(ex'[i].pc, row'.status, row'.data)
  BY <1>1 DEF Decided, Matched, Steering, Busy
<1>3. ~ex'[i].stop /\ ex'[i].pc /= "tail"
  BY RunsUnstopped DEF Busy
<1>4. QED
  BY <1>1, <1>2, <1>3, ExecutorKeepsReview DEF Runs

\* A task that ends.
LEMMA EndKeepsReview ==
  ASSUME Inv, SeqInv, ReviewInv, NEW i \in Instances, Spares(i), up[i] /= "down",
         req[i].pc = "idle", Step(i, NoTask), UNCHANGED <<row, req, can, up>>
  PROVE  ReviewInv'
<1>1. ex'[i] = NoTask /\ NoTask.pc = "off" /\ ~NoTask.stop
  BY ReviewFields, StepDoes DEF NoTask
<1>2. "off" \notin Steering \cup {"load", "interrupt", "tail"}
  BY DEF Steering, Busy
<1>3. Decided("off", row.status, row.data)
  BY <1>2, ReviewFields, RestDecided
<1>4. QED
  BY <1>1, <1>2, <1>3, ExecutorKeepsReview

\* What a stage that begins, ends or fails leaves as it was.
LEMMA StageClears ==
  ASSUME NEW data \in Data, NEW s \in Places, NEW status
  PROVE  /\ SetStage(data, s, status).interrupted = data.interrupted
         /\ WithOutput(SetStage(data, s, status), s).interrupted = data.interrupted
         /\ Cleared(SetStage(data, s, status)) <=> Cleared(data)
         /\ s /= Storyboard =>
              (Cleared(WithOutput(SetStage(data, s, status), s)) <=> Cleared(data))
<1> DEFINE mid == SetStage(data, s, status)
           new == WithOutput(mid, s)
<1>1. /\ mid.interrupted = data.interrupted /\ new.interrupted = data.interrupted
      /\ mid.review = data.review /\ mid.approved = data.approved /\ mid.out = data.out
      /\ new.review = data.review /\ new.approved = data.approved /\ new.out = data.out \cup {s}
  BY DEF SetStage, WithOutput, Data
<1> HIDE DEF mid, new
<1>2. Cleared(mid) <=> Cleared(data)
  BY <1>1 DEF Cleared
<1>3. s /= Storyboard => (Cleared(new) <=> Cleared(data))
  BY <1>1 DEF Cleared
<1>4. QED
  BY <1>1, <1>2, <1>3 DEF mid, new

\* Steps of run before and after the pipeline.
LEMMA RunKeepsReview ==
  ASSUME Inv, SeqInv, ReviewInv, NEW i \in Instances, Spares(i),
         Claim(i) \/ Load(i) \/ Delivered(i) \/ Interrupt(i) \/ SaveInterrupt(i)
  PROVE  ReviewInv'
<1>1. /\ TypeOK /\ ex[i] \in Task /\ row \in Job /\ row.data \in Data /\ Reviewed(i)
      /\ Decided(ex[i].pc, row.status, row.data)
  BY ReviewFields
<1>2. up[i] /= "down" /\ req[i].pc = "idle" /\ UNCHANGED <<req, can, up>>
  BY DEF Claim, Load, Delivered, Interrupt, SaveInterrupt, Runs, hostVars
<1>3. CASE Claim(i)
  <2>1. CASE Claimable(row)
    <3> DEFINE data == [row.data EXCEPT !.interrupted = FALSE]
    <3>1. /\ row' = [status |-> "running", data |-> data] /\ Step(i, Goto(ex[i], "load"))
          /\ ex[i].pc = "claim" /\ Runs(i)
      BY <1>3, <2>1 DEF Claim
    <3>2. ex'[i].pc = "load" /\ ex'[i].stop = ex[i].stop
      BY <1>1, <3>1, GotoDoes
    <3>3. ~data.interrupted /\ data.out = row.data.out /\ data.review = row.data.review
          /\ data.approved = row.data.approved
      BY <1>1 DEF Data
    <3>4. row'.data = data /\ row'.status = "running"
      BY <3>1
    <3> HIDE DEF data
    <3>5. Cleared(data)
      BY <1>1, <2>1, <3>3 DEF Claimable, Decided, Resumed, Cleared
    <3>6. Decided("load", row'.status, row'.data)
      BY <3>3, <3>4, <3>5 DEF Decided, Matched, Busy
    <3>7. "load" \notin Steering \cup {"interrupt", "tail"} /\ ~ex'[i].stop
      BY <3>1, <3>2, RunsUnstopped DEF Steering, Busy
    <3>8. QED
      BY <1>2, <3>2, <3>6, <3>7, ExecutorKeepsReview
  <2>2. CASE ~Claimable(row)
    BY <1>2, <1>3, <2>2, EndKeepsReview DEF Claim
  <2>3. QED
    BY <2>1, <2>2
<1>4. CASE Load(i)
  <2>1. CASE row.status \in {"ready", "cancelled", "blocked", "failed"}
    BY <1>2, <1>4, <2>1, EndKeepsReview DEF Load, jobVars
  <2>2. CASE row.status \notin {"ready", "cancelled", "blocked", "failed"}
    <3>1. /\ Step(i, [ex[i] EXCEPT !.pc = EmitOr("started"), !.mem = row]) /\ row' = row
          /\ ex[i].pc = "load" /\ Runs(i)
      BY <1>4, <2>2 DEF Load, jobVars
    <3>2. ex'[i] = [ex[i] EXCEPT !.pc = EmitOr("started"), !.mem = row]
      BY <1>1, <3>1, StepDoes
    <3>3. ex'[i].pc = EmitOr("started") /\ ex'[i].mem = row /\ ex'[i].stop = ex[i].stop
      BY <1>1, <3>2 DEF Task
    <3>4. EmitOr("started") \in {"started", "dispatch"}
      BY DEF EmitOr, Emitted
    <3>5. Decided(ex'[i].pc, row'.status, row'.data)
      BY <1>1, <3>1, <3>3, <3>4 DEF Decided, Matched, Steering, Busy
    <3>6. ~ex'[i].stop
      BY <3>1, <3>3, RunsUnstopped
    <3>7. QED
      BY <1>2, <3>1, <3>3, <3>4, <3>5, <3>6, ExecutorKeepsReview
  <2>3. QED
    BY <2>1, <2>2
<1>5. CASE Delivered(i)
  <2>1. /\ ex[i].pc \in {"started", "note", "retryTail", "failTail", "tail"} /\ row' = row
        /\ Step(i, Goto(ex[i], Emitted[ex[i].pc])) /\ Runs(i)
    BY <1>5 DEF Delivered, Emitted, jobVars
  <2>2. CASE ex[i].pc \in {"failTail", "tail"}
    <3>1. Step(i, NoTask)
      BY <2>1, <2>2 DEF Emitted, Goto
    <3>2. QED
      BY <1>2, <2>1, <3>1, EndKeepsReview
  <2>3. CASE ex[i].pc \in {"started", "note", "retryTail"}
    <3>1. Emitted[ex[i].pc] \in {"dispatch", "done", "sleep"}
      BY <2>3 DEF Emitted
    <3>2. /\ ex'[i].pc \in {"dispatch", "done", "sleep"} /\ ex'[i].mem = ex[i].mem
          /\ ex'[i].stop = ex[i].stop
      BY <1>1, <2>1, <3>1, GotoDoes
    <3>3. QED
      BY <1>2, <2>1, <2>3, <3>2, BusyMoveKeepsReview DEF Busy
  <2>4. QED
    BY <2>1, <2>2, <2>3
<1>6. CASE Interrupt(i)
  <2>1. row' = row /\ ex[i].pc \in Awaits /\ ex[i].stop
    BY <1>6 DEF Interrupt, jobVars
  <2>2. CASE ex[i].pc \in OuterAwaits
    BY <1>2, <1>6, <2>1, <2>2, EndKeepsReview DEF Interrupt
  <2>3. CASE ex[i].pc \notin OuterAwaits
    <3>1. ex'[i] = [ex[i] EXCEPT !.pc = "interrupt", !.mem = row]
      BY <1>1, <1>6, <2>3, StepDoes DEF Interrupt
    <3>2. ex'[i].pc = "interrupt" /\ ex'[i].mem = row /\ ex'[i].stop = ex[i].stop
      BY <1>1, <3>1 DEF Task
    <3>3. ex[i].pc \in {"work", "note", "veo", "fetch", "publish"} /\ ~EventSinks
      BY <1>1, <2>1, <2>3 DEF Reviewed, Awaits, InnerAwaits
    <3>4. Cleared(row.data)
      BY <1>1, <3>3 DEF Decided, Matched, Busy, Resumed
    <3>5. Decided("interrupt", row.status, row.data)
      BY <3>4 DEF Decided, Matched, Steering, Busy
    <3>6. QED
      BY <1>2, <2>1, <3>2, <3>3, <3>5, ExecutorKeepsReview
  <2>4. QED
    BY <2>2, <2>3
<1>7. CASE SaveInterrupt(i)
  <2>1. ex[i].pc = "interrupt" /\ ex[i].mem = row
    BY <1>7, ReviewFields DEF SaveInterrupt
  <2>2. CASE ex[i].mem.status = "cancelled"
    BY <1>2, <1>7, <2>2, EndKeepsReview DEF SaveInterrupt
  <2>3. CASE ex[i].mem.status /= "cancelled"
    <3> DEFINE data == [row.data EXCEPT !.interrupted = TRUE]
    <3>1. Commit(i, ex[i], "off", data, "running")
      BY <1>7, <2>1, <2>3 DEF SaveInterrupt
    <3>2. data.out = row.data.out /\ data.review = row.data.review
          /\ data.approved = row.data.approved
      BY <1>1 DEF Data
    <3> HIDE DEF data
    <3>3. row'.data = data /\ row'.status = "running" /\ ex'[i] = NoTask
      BY <1>1, <2>1, <3>1, CommitDoes
    <3>4. Cleared(data)
      BY <1>1, <2>1, <3>2 DEF Decided, Cleared
    <3>5. Decided("off", "running", data)
      BY <3>4 DEF Decided, Matched, Steering, Busy
    <3>6. NoTask.pc = "off" /\ ~NoTask.stop /\ "off" \notin Steering \cup {"interrupt", "tail"}
      BY DEF NoTask, Steering, Busy
    <3>7. QED
      BY <1>2, <3>3, <3>5, <3>6, ExecutorKeepsReview
  <2>4. QED
    BY <2>2, <2>3
<1>8. QED
  BY <1>3, <1>4, <1>5, <1>6, <1>7

\* The steps of the pipeline up to the scenes.
LEMMA StagesKeepReview ==
  ASSUME Inv, SeqInv, ReviewInv, NEW i \in Instances, Spares(i),
         \/ BeginStage(i) \/ Worked(i) \/ ScriptRejected(i) \/ CompleteStage(i) \/ CompleteLast(i)
         \/ CompleteStoryboard(i)
  PROVE  ReviewInv'
<1> DEFINE data == ex[i].mem.data
           at == ex[i].at
<1>1. /\ TypeOK /\ ex[i] \in Task /\ ex[i].pc \in Staged /\ at \in STAGES /\ at \in Places
      /\ Runs(i) /\ UNCHANGED <<req, can, up>>
  <2>1. /\ ex[i].pc \in Staged /\ Runs(i) /\ UNCHANGED <<req, can, up>>
    BY DEF BeginStage, Worked, ScriptRejected, CompleteStage, CompleteLast, CompleteStoryboard,
       Staged, hostVars
  <2>2. QED
    BY <2>1, ReviewFields, StageNumbers DEF Placed
<1>2. ex[i].pc \in Busy /\ ex[i].pc \in Steering /\ ex[i].mem = row /\ data \in Data
  BY <1>1, ReviewFields DEF Steering, Busy, Staged
<1>3. row.status \in {"queued", "running"} /\ Cleared(data) /\ ~data.interrupted
  BY <1>2, ReviewFields DEF Decided, Matched
<1>4. ASSUME NEW e \in Task, e.stop = ex[i].stop, NEW pc \in Busy, NEW new,
             NEW status \in {"queued", "running"}, Commit(i, e, pc, new, status),
             Cleared(new), ~new.interrupted
      PROVE  ReviewInv'
  BY <1>1, <1>2, <1>4, BusyCommitKeepsReview
<1>5. CASE BeginStage(i)
  <2> DEFINE todo == IF at = Scenes THEN 1..NumScenes ELSE {}
             e == [ex[i] EXCEPT !.todo = todo, !.tries = 0]
             pc == IF at = Scenes THEN "scene" ELSE IF at \in Waits THEN "work" ELSE "done"
             new == SetStage(data, at, "running")
  <2>1. Commit(i, e, pc, new, "running")
    BY <1>5 DEF BeginStage
  <2>2. todo \in SUBSET (1..NumScenes) /\ 0 \in 0..NativeRetries
    OBVIOUS
  <2>3. e \in Task /\ e.stop = ex[i].stop
    BY <1>1, <2>2 DEF Task
  <2>4. Cleared(new) /\ ~new.interrupted
    BY <1>1, <1>2, <1>3, StageClears
  <2>5. pc \in Busy
    BY DEF Busy
  <2> HIDE DEF e, new, pc, todo
  <2>6. QED
    BY <1>4, <2>1, <2>3, <2>4, <2>5
<1>6. CASE Worked(i)
  <2>1. Step(i, Goto(ex[i], "done")) /\ row' = row
    BY <1>6 DEF Worked, jobVars
  <2>2. ex'[i].pc = "done" /\ ex'[i].mem = ex[i].mem /\ ex'[i].stop = ex[i].stop
    <3>1. "done" /= "off" /\ TypeOK
      BY <1>1
    <3>2. QED
      BY <2>1, <3>1, GotoDoes
  <2>3. QED
    BY <1>1, <1>2, <2>1, <2>2, BusyMoveKeepsReview DEF Busy
<1>7. CASE ScriptRejected(i)
  <2> DEFINE new == [data EXCEPT !.review = TRUE]
  <2>1. /\ Commit(i, ex[i], EmitOr("note"), new, row.status)
        /\ at = Editorial /\ ex[i].pc = "work"
    BY <1>2, <1>7 DEF ScriptRejected
  <2>2. new.out = data.out /\ ~new.interrupted
    BY <1>2, <1>3 DEF Data
  <2>3. Storyboard \notin data.out
    <3>1. AtStage(at, data)
      BY <1>1, ReviewFields DEF Stood, Filming
    <3>2. QED
      BY <2>1, <3>1, StageNumbers DEF AtStage
  <2> HIDE DEF new
  <2>4. Cleared(new) /\ EmitOr("note") \in Busy
    BY <2>2, <2>3, TailStood DEF Cleared, Busy
  <2>5. QED
    BY <1>1, <1>3, <1>4, <2>1, <2>2, <2>4
<1>8. CASE CompleteStage(i)
  <2> DEFINE new == WithOutput(SetStage(data, at, "completed"), at)
             next == NextStage(new, at + 1)
             e == [ex[i] EXCEPT !.at = next]
  <2>1. Commit(i, e, "stage", new, "running") /\ at /= Storyboard
    BY <1>8 DEF CompleteStage
  <2>2. e \in Task
    BY <1>8, CompleteStageTask
  <2>3. e.stop = ex[i].stop
    BY <1>1 DEF Task
  <2>4. Cleared(new) /\ ~new.interrupted
    BY <1>1, <1>2, <1>3, <2>1, StageClears
  <2> HIDE DEF e, new, next
  <2>5. QED
    BY <1>4, <2>1, <2>2, <2>3, <2>4 DEF Busy
<1>9. CASE CompleteLast(i)
  <2> DEFINE new == WithOutput(SetStage(data, at, "completed"), at)
             pc == IF at = Voice THEN "settle" ELSE "finish"
  <2>1. Commit(i, ex[i], pc, new, "running") /\ at \in {Voice, Scoring}
    BY <1>9 DEF CompleteLast
  <2>2. Cleared(new) /\ ~new.interrupted
    <3>1. at /= Storyboard
      BY <2>1, StageNumbers
    <3>2. QED
      BY <1>1, <1>2, <1>3, <3>1, StageClears
  <2>3. pc \in Busy
    BY DEF Busy
  <2> HIDE DEF new, pc
  <2>4. QED
    BY <1>1, <1>4, <2>1, <2>2, <2>3
<1>10. CASE CompleteStoryboard(i)
  <2> DEFINE done == WithOutput(SetStage(data, Storyboard, "completed"), Storyboard)
             new == [done EXCEPT !.board = boards']
             pc == IF new.review /\ ~new.approved THEN "review" ELSE "stage"
             e == [ex[i] EXCEPT !.at = Scenes, !.board = boards']
  <2>1. Commit(i, e, pc, new, "running")
    BY <1>10 DEF CompleteStoryboard
  <2>2. boards' \in Boards /\ Scenes \in 0..Scoring
    <3>1. boards \in Boards /\ boards < MaxStoryboards /\ boards' = boards + 1
      BY <1>1, <1>10 DEF TypeOK, CompleteStoryboard
    <3>2. QED
      BY <3>1, StageNumbers DEF Boards
  <2>3. e \in Task /\ e.stop = ex[i].stop
    BY <1>1, <2>2 DEF Task
  <2>4. ~new.interrupted
    BY <1>2, <1>3 DEF WithOutput, SetStage, Data
  <2>5. pc \in {"review", "stage"} /\ (pc = "stage" => Cleared(new))
    BY DEF Cleared
  <2> HIDE DEF e, new, pc
  <2>6. CASE pc = "stage"
    BY <1>4, <2>1, <2>3, <2>4, <2>5, <2>6 DEF Busy
  <2>7. CASE pc = "review"
    <3>1. Decided("review", "running", new)
      BY <2>4 DEF Decided, Matched, Busy, Resumed
    <3>2. QED
      BY <1>1, <1>2, <2>1, <2>3, <2>7, <3>1, CommitKeepsReview
  <2>8. QED
    BY <2>5, <2>6, <2>7
<1>11. QED
  BY <1>5, <1>6, <1>7, <1>8, <1>9, <1>10

\* Where the pipeline starts.
LEMMA DispatchKeepsReview ==
  ASSUME Inv, SeqInv, ReviewInv, NEW i \in Instances, Spares(i), Dispatch(i)
  PROVE  ReviewInv'
<1> DEFINE data == ex[i].mem.data
<1>1. /\ TypeOK /\ ex[i] \in Task /\ ex[i].pc \in Busy /\ ex[i].pc \in Steering /\ ex[i].mem = row
      /\ data \in Data /\ Runs(i) /\ UNCHANGED <<req, can, up>>
  BY ReviewFields DEF Dispatch, Steering, Busy, hostVars
<1>2. row.status \in {"queued", "running"} /\ Cleared(data) /\ ~data.interrupted
  BY <1>1, ReviewFields DEF Decided, Matched
<1>3. ASSUME Step(i, Raised(ex[i], "permanent")), row' = row PROVE ReviewInv'
  <2>1. ex'[i].pc = "failing" /\ ex'[i].mem = ex[i].mem /\ ex'[i].stop = ex[i].stop
    <3>1. ex'[i] = Raised(ex[i], "permanent")
      BY <1>1, <1>3, StepDoes
    <3>2. QED
      BY <1>1, <3>1 DEF Raised, Task
  <2>2. QED
    BY <1>1, <1>3, <2>1, BusyMoveKeepsReview DEF Busy
<1>4. CASE ResumeRender(i, data)
  <2>1. CASE RenderCheckpoints(data)
    <3>1. ex'[i] = [ex[i] EXCEPT !.pc = "fetch", !.at = Render] /\ row' = row
      BY <1>1, <1>4, <2>1, StepDoes DEF ResumeRender
    <3>2. ex'[i].pc = "fetch" /\ ex'[i].mem = ex[i].mem /\ ex'[i].stop = ex[i].stop
      BY <1>1, <3>1 DEF Task
    <3>3. QED
      BY <1>1, <3>1, <3>2, BusyMoveKeepsReview DEF Busy
  <2>2. QED
    BY <1>3, <1>4, <2>1 DEF ResumeRender
<1>5. CASE ResumeScenes(i, data)
  <2>1. CASE SceneCheckpoints(data)
    <3> DEFINE e == [ex[i] EXCEPT !.at = Scenes, !.board = data.board]
               mid == SetStage(data, Storyboard, "completed")
               new == WithOutput(mid, Storyboard)
    <3>1. Commit(i, e, "stage", new, "running")
      BY <1>5, <2>1 DEF ResumeScenes
    <3>2. Scenes \in 0..Scoring /\ data.board \in Boards
      BY <1>1, StageNumbers DEF Data
    <3>3. e \in Task /\ e.stop = ex[i].stop
      BY <1>1, <3>2 DEF Task
    <3>4. Storyboard \in data.out
      BY <2>1 DEF SceneCheckpoints
    <3>5. /\ ~new.interrupted /\ new.review = data.review /\ new.approved = data.approved
      BY <1>1, <1>2 DEF WithOutput, SetStage, Data
    <3> HIDE DEF e, new
    <3>6. Cleared(new)
      BY <1>2, <3>4, <3>5 DEF Cleared
    <3>7. QED
      BY <1>1, <3>1, <3>3, <3>5, <3>6, BusyCommitKeepsReview DEF Busy
  <2>2. QED
    BY <1>3, <1>5, <2>1 DEF ResumeScenes
<1>6. CASE FromTheTop(i, data)
  <2> DEFINE e == [ex[i] EXCEPT !.at = NextStage(data, Intake)]
  <2>1. Commit(i, e, "stage", data, row.status)
    BY <1>1, <1>6 DEF FromTheTop
  <2>2. NextStage(data, Intake) \in 0..Scoring
    BY <1>1, NextStageType, StageNumbers
  <2>3. e \in Task /\ e.stop = ex[i].stop
    BY <1>1, <2>2 DEF Task
  <2> HIDE DEF e
  <2>4. QED
    BY <1>1, <1>2, <2>1, <2>3, BusyCommitKeepsReview DEF Busy
<1>7. QED
  BY <1>4, <1>5, <1>6 DEF Dispatch

\* Scenes, settlement and exceptions move within the pipeline.
LEMMA ScenesKeepReview ==
  ASSUME Inv, SeqInv, ReviewInv, NEW i \in Instances, Spares(i),
         \/ NextScene(i) \/ TakePasses(i) \/ TakeRejected(i) \/ AcceptScene(i) \/ Fetched(i)
         \/ ReadAuthorized(i) \/ Settle(i) \/ Wake(i)
         \/ \E kind \in Errors \ {"none"} : Raise(i, kind)
  PROVE  ReviewInv'
<1>1. /\ TypeOK /\ ex[i] \in Task
  BY ReviewFields
<1>2. Runs(i) /\ ex[i].pc \in Busy /\ UNCHANGED <<row, req, can, up>>
  BY DEF NextScene, TakePasses, TakeRejected, AcceptScene, Fetched, ReadAuthorized, Settle,
     Wake, Raise, MayRaise, Busy, jobVars, hostVars
<1>3. ASSUME ex'[i].pc \in Busy, ex'[i].mem = ex[i].mem, ex'[i].stop = ex[i].stop PROVE ReviewInv'
  BY <1>2, <1>3, BusyMoveKeepsReview
<1>4. ASSUME NEW pc \in Busy, Step(i, Goto(ex[i], pc)) PROVE ReviewInv'
  <2>1. pc /= "off"
    BY DEF Busy
  <2>2. ex'[i].pc = pc /\ ex'[i].mem = ex[i].mem /\ ex'[i].stop = ex[i].stop
    BY <1>1, <1>4, <2>1, GotoDoes
  <2>3. QED
    BY <1>3, <2>2
<1>5. ASSUME NEW kind, Step(i, Raised(ex[i], kind)) PROVE ReviewInv'
  <2>1. ex'[i].pc = "failing" /\ ex'[i].mem = ex[i].mem /\ ex'[i].stop = ex[i].stop
    <3>1. ex'[i] = Raised(ex[i], kind)
      BY <1>1, <1>5, StepDoes
    <3>2. QED
      BY <1>1, <3>1 DEF Raised, Task
  <2>2. QED
    BY <1>3, <2>1 DEF Busy
<1>6. ASSUME Step(i, SceneGenerated(ex[i])) PROVE ReviewInv'
  <2>1. ex'[i] = SceneGenerated(ex[i])
    BY <1>1, <1>6, StepDoes
  <2>2. /\ SceneGenerated(ex[i]).pc = "scene" /\ SceneGenerated(ex[i]).mem = ex[i].mem
        /\ SceneGenerated(ex[i]).stop = ex[i].stop
    BY <1>1 DEF SceneGenerated, Task
  <2>3. QED
    BY <1>3, <2>1, <2>2 DEF Busy
<1>7. CASE NextScene(i) \/ TakePasses(i) \/ Wake(i)
  BY <1>4, <1>7 DEF NextScene, TakePasses, Wake, Busy
<1>8. CASE AcceptScene(i) \/ Fetched(i)
  BY <1>4, <1>6, <1>8 DEF AcceptScene, Fetched, Busy
<1>9. CASE \E kind \in Errors \ {"none"} : Raise(i, kind)
  BY <1>5, <1>9 DEF Raise
<1>10. CASE TakeRejected(i)
  <2>1. CASE ex[i].tries < NativeRetries
    <3>1. ex'[i] = [ex[i] EXCEPT !.tries = @ + 1]
      BY <1>1, <1>10, <2>1, StepDoes DEF TakeRejected
    <3>2. ex'[i].pc = ex[i].pc /\ ex'[i].mem = ex[i].mem /\ ex'[i].stop = ex[i].stop
      BY <1>1, <3>1 DEF Task
    <3>3. QED
      BY <1>2, <1>3, <3>2
  <2>2. QED
    BY <1>5, <1>10, <2>1 DEF TakeRejected
<1>11. CASE ReadAuthorized(i) \/ Settle(i)
  <2>1. \/ ex'[i] = [ex[i] EXCEPT !.pc = "settled", !.authorized = Outstanding(book)]
        \/ ex'[i] = [ex[i] EXCEPT !.pc = "costs", !.authorized = 0]
    BY <1>1, <1>11, StepDoes DEF ReadAuthorized, Settle
  <2>2. ex'[i].pc \in {"settled", "costs"} /\ ex'[i].mem = ex[i].mem /\ ex'[i].stop = ex[i].stop
    BY <1>1, <2>1 DEF Task
  <2>3. QED
    BY <1>3, <2>2 DEF Busy
<1>12. QED
  BY <1>7, <1>8, <1>9, <1>10, <1>11

\* The steps that end the work of an executor, and the commit of the costs.
LEMMA EndingsKeepReview ==
  ASSUME Inv, SeqInv, ReviewInv, NEW i \in Instances, Spares(i),
         PolicyBlocks(i) \/ Blocked(i) \/ Review(i) \/ SaveCosts(i) \/ Finish(i) \/ Published(i)
  PROVE  ReviewInv'
<1> DEFINE data == ex[i].mem.data
<1>1. /\ TypeOK /\ ex[i] \in Task /\ Runs(i) /\ UNCHANGED <<req, can, up>>
      /\ ex[i].pc \in {"done", "costs", "finish", "blocked", "review", "publish"}
  BY ReviewFields DEF PolicyBlocks, Blocked, Review, SaveCosts, Finish, Published, hostVars
<1>2. /\ ex[i].pc \in Steering /\ ex[i].mem = row /\ data \in Data
      /\ Decided(ex[i].pc, row.status, data) /\ ~data.interrupted
  BY <1>1, ReviewFields DEF Decided, Steering, Busy
<1>3. ex[i].pc /= "review" => Cleared(data)
  BY <1>1, <1>2 DEF Decided, Matched, Busy, Resumed
<1>4. EmitOr("tail") \in {"tail", "off"} /\ (EmitOr("tail") = "tail" => EventSinks)
  BY DEF EmitOr, Emitted
<1>5. ASSUME NEW pc \in {"blocked", "publish", "tail", "off"}, NEW status \in {"blocked", "ready"},
             NEW new, Commit(i, ex[i], pc, new, status), Cleared(new), ~new.interrupted,
             pc \in {"blocked", "publish"} => Matched(pc, status), pc = "tail" => EventSinks
      PROVE  ReviewInv'
  <2>1. Decided(pc, status, new)
    BY <1>5 DEF Decided, Matched, Busy
  <2>2. QED
    BY <1>1, <1>2, <1>5, <2>1, CommitKeepsReview
<1>6. CASE PolicyBlocks(i)
  <2> DEFINE new == WithOutput(SetStage(data, Policy, "blocked"), Policy)
  <2>1. Commit(i, ex[i], "blocked", new, "blocked") /\ ex[i].pc = "done"
    BY <1>6 DEF PolicyBlocks
  <2>2. Policy \in Places /\ Policy /= Storyboard
    BY StageNumbers
  <2>3. Cleared(new) /\ ~new.interrupted
    BY <1>2, <1>3, <2>1, <2>2, StageClears
  <2> HIDE DEF new
  <2>4. Matched("blocked", "blocked")
    BY DEF Matched, Busy
  <2>5. QED
    BY <1>5, <2>1, <2>3, <2>4
<1>7. CASE Blocked(i)
  <2>1. Commit(i, ex[i], EmitOr("tail"), data, "blocked") /\ ex[i].pc = "blocked"
    BY <1>7 DEF Blocked
  <2>2. QED
    BY <1>2, <1>3, <1>4, <1>5, <2>1
<1>8. CASE Review(i)
  <2> DEFINE new == [data EXCEPT !.cur = ScriptReview]
             pc == EmitOr("tail")
  <2>1. Commit(i, ex[i], pc, new, "awaiting_script_review")
    BY <1>8 DEF Review
  <2> HIDE DEF new
  <2>2. Decided(pc, "awaiting_script_review", new)
    BY <1>4 DEF Decided, Matched, Steering, Busy, Resumed
  <2>3. QED
    BY <1>1, <1>2, <1>4, <2>1, <2>2, CommitKeepsReview
<1>9. CASE SaveCosts(i)
  <2> DEFINE e == [ex[i] EXCEPT !.at = Render]
  <2>1. Commit(i, e, "stage", data, row.status) /\ ex[i].pc = "costs"
    BY <1>2, <1>9 DEF SaveCosts
  <2>2. e \in Task /\ e.stop = ex[i].stop
    BY <1>1, StageNumbers DEF Task
  <2>3. row.status \in {"queued", "running"}
    BY <1>2, <2>1 DEF Decided, Matched, Busy
  <2> HIDE DEF e
  <2>4. QED
    BY <1>1, <1>2, <1>3, <2>1, <2>2, <2>3, BusyCommitKeepsReview DEF Busy
<1>10. CASE Finish(i)
  <2> DEFINE new == [data EXCEPT !.cur = Completed]
             pc == IF AutoPublish THEN "publish" ELSE EmitOr("tail")
  <2>1. Commit(i, ex[i], pc, new, "ready") /\ ex[i].pc = "finish"
    BY <1>10 DEF Finish
  <2>2. Cleared(new) /\ ~new.interrupted
    BY <1>2, <1>3, <2>1 DEF Cleared, Data
  <2>3. pc \in {"publish", "tail", "off"} /\ (pc = "tail" => EventSinks)
    BY <1>4
  <2> HIDE DEF new, pc
  <2>4. Matched("publish", "ready")
    BY DEF Matched, Busy
  <2>5. QED
    BY <1>5, <2>1, <2>2, <2>3, <2>4
<1>11. CASE Published(i)
  <2>1. Commit(i, ex[i], EmitOr("tail"), data, row.status) /\ ex[i].pc = "publish"
    BY <1>2, <1>11 DEF Published
  <2>2. row.status = "ready"
    BY <1>2, <2>1 DEF Decided, Matched
  <2>3. QED
    BY <1>2, <1>3, <1>4, <1>5, <2>1, <2>2
<1>12. QED
  BY <1>6, <1>7, <1>8, <1>9, <1>10, <1>11

\* A failure fails a job that a retry or a restart may take up again.
LEMMA FailureKeepsReview ==
  ASSUME Inv, SeqInv, ReviewInv, NEW i \in Instances, Spares(i),
         FailStage(i) \/ ScheduleRetry(i) \/ FailJob(i)
  PROVE  ReviewInv'
<1> DEFINE data == ex[i].mem.data
<1>1. /\ TypeOK /\ ex[i] \in Task /\ Runs(i) /\ UNCHANGED <<req, can, up>>
      /\ ex[i].pc \in {"failing", "failed"}
  BY ReviewFields DEF FailStage, ScheduleRetry, FailJob, jobVars, hostVars
<1>2. /\ ex[i].pc \in Steering /\ ex[i].mem = row /\ data \in Data
      /\ Decided(ex[i].pc, row.status, data) /\ ~data.interrupted
  BY <1>1, ReviewFields DEF Decided, Steering, Busy
<1>3. Cleared(data)
  BY <1>1, <1>2 DEF Decided, Matched, Busy, Resumed
<1>4. ASSUME NEW pc \in {"failed", "refund"}, NEW new, Commit(i, ex[i], pc, new, "failed"),
             Cleared(new), ~new.interrupted
      PROVE  ReviewInv'
  <2>1. Decided(pc, "failed", new)
    BY <1>4 DEF Decided, Matched, Busy
  <2>2. QED
    BY <1>1, <1>2, <1>4, <2>1, CommitKeepsReview
<1>5. CASE FailStage(i)
  <2>1. Commit(i, ex[i], "failed", SetStage(data, data.cur, "failed"), "failed")
    BY <1>5 DEF FailStage
  <2>2. data.cur \in Places
    BY <1>2 DEF Data
  <2>3. QED
    BY <1>2, <1>3, <1>4, <2>1, <2>2, StageClears
<1>6. CASE ScheduleRetry(i)
  <2> DEFINE new == [data EXCEPT !.retries[data.cur] = @ + 1, !.error = "transient"]
             e == [ex[i] EXCEPT !.fault = "none"]
             pc == EmitOr("retryTail")
  <2>1. Commit(i, e, pc, new, "queued")
    BY <1>6 DEF ScheduleRetry
  <2>2. e \in Task /\ e.stop = ex[i].stop
    BY <1>1 DEF Task, Errors
  <2>3. Cleared(new) /\ ~new.interrupted
    BY <1>2, <1>3 DEF Cleared, Data
  <2>4. pc \in Busy
    BY DEF EmitOr, Emitted, Busy
  <2> HIDE DEF new, e, pc
  <2>5. QED
    BY <1>1, <1>2, <2>1, <2>2, <2>3, <2>4, BusyCommitKeepsReview
<1>7. CASE FailJob(i)
  <2> DEFINE new == [data EXCEPT !.error = ex[i].fault]
  <2>1. Commit(i, ex[i], "refund", new, "failed")
    BY <1>7 DEF FailJob
  <2>2. Cleared(new) /\ ~new.interrupted
    BY <1>2, <1>3 DEF Cleared, Data
  <2> HIDE DEF new
  <2>3. QED
    BY <1>4, <2>1, <2>2
<1>8. QED
  BY <1>5, <1>6, <1>7

\* The refund of a failed job leaves the row as it is.
LEMMA RefundKeepsReview ==
  ASSUME Inv, SeqInv, ReviewInv, NEW i \in Instances, Spares(i), RefundFailure(i)
  PROVE  ReviewInv'
<1>1. /\ TypeOK /\ ex[i] \in Task /\ Runs(i) /\ UNCHANGED <<row, req, can, up>>
      /\ ex[i].pc = "refund" /\ Step(i, Goto(ex[i], EmitOr("failTail")))
      /\ Decided(ex[i].pc, row.status, row.data)
  BY ReviewFields DEF RefundFailure, jobVars, hostVars
<1>2. EmitOr("failTail") \in {"failTail", "off"}
  BY DEF EmitOr, Emitted
<1>3. ex'[i].pc \in {"failTail", "off"} /\ ~ex'[i].stop
  <2>1. ~NoTask.stop /\ ~ex[i].stop
    BY <1>1, RunsUnstopped DEF NoTask
  <2>2. QED
    BY <1>1, <1>2, <2>1, GotoDoes DEF NoTask
<1>4. ex'[i].pc \notin Steering \cup {"load", "interrupt", "tail"}
  BY <1>3 DEF Steering, Busy
<1>5. Decided(ex'[i].pc, row'.status, row'.data)
  BY <1>1, <1>4, RestDecided
<1>6. QED
  BY <1>1, <1>3, <1>4, <1>5, ExecutorKeepsReview DEF Runs

\* A step of a handler while the executor owns nothing.
LEMMA HandlerKeepsReview ==
  ASSUME ReviewInv, NEW i \in Instances, Spares(i), up[i] /= "down", UNCHANGED <<can, up>>,
         ex'[i].pc \notin Steering \cup {"load", "interrupt"},
         ex'[i] = ex[i] \/ (ex'[i].pc = "claim" /\ ~ex'[i].stop),
         Decided(ex'[i].pc, row'.status, row'.data),
         req'[i].pc /= "idle" =>
           req'[i].mem = row' /\ (req'[i].op = "create" => row'.status = "queued")
  PROVE  ReviewInv'
<1>1. can'.pc = "idle" /\ up'[i] /= "down" /\ Reviewed(i)
  BY DEF ReviewInv
<1>2. Reviewed(i)'
  BY <1>1 DEF Reviewed, Alone
<1>3. QED
  BY <1>1, <1>2, OthersReviewed

\* Handlers begin on a job that rests.
LEMMA BeginKeepsReview ==
  ASSUME Inv, SeqInv, ReviewInv, NEW i \in Instances, Spares(i), Request(i)
  PROVE  ReviewInv'
<1>1. /\ TypeOK /\ Decided(ex[i].pc, row.status, row.data) /\ up[i] = "up"
      /\ ex[i].pc \in Awaits \cup {"off"} /\ UNCHANGED <<ex, can, up>>
  BY ReviewFields DEF Request, BeginRequest, BeginCreate, LoopIsFree
<1>2. ASSUME row.status \in {"none", "awaiting_script_review", "failed", "blocked", "cancelled"}
      PROVE  ex[i].pc \notin Steering \cup {"load", "interrupt"}
  BY <1>1, <1>2 DEF Decided, Matched, Steering, Busy, Awaits, OuterAwaits, InnerAwaits
<1>3. ASSUME NEW op \in Offered, NEW s \in STAGES, BeginRequest(i, op, s) PROVE ReviewInv'
  <2>1. row' = row /\ Permitted(op, s, row) /\ req'[i].mem = row /\ req'[i].op = op
    BY <1>1, <1>3 DEF BeginRequest, jobVars, TypeOK
  <2>2. row.status \in {"awaiting_script_review", "failed", "blocked", "cancelled"} /\ op /= "create"
    BY <2>1 DEF Permitted
  <2>3. QED
    BY <1>1, <1>2, <2>1, <2>2, HandlerKeepsReview
<1>4. ASSUME NEW review \in BOOLEAN, BeginCreate(i, review) PROVE ReviewInv'
  <2>1. /\ row.status = "none" /\ row' = [status |-> "queued", data |-> NewData(review)]
        /\ req'[i].mem = row'
    BY <1>1, <1>4 DEF BeginCreate, TypeOK
  <2>2. row'.status = "queued" /\ Cleared(row'.data)
    BY <2>1 DEF Cleared, NewData
  <2>3. ex[i].pc \notin Steering \cup {"load", "interrupt"}
    BY <1>2, <2>1
  <2>4. Decided(ex[i].pc, row'.status, row'.data)
    BY <2>2, <2>3 DEF Decided, Matched, Steering
  <2>5. QED
    BY <1>1, <2>1, <2>2, <2>3, <2>4, HandlerKeepsReview
<1>5. QED
  BY <1>3, <1>4 DEF Request

\* What a permitted handler queues is approved, or has no storyboard, or was
\* cleared before.
LEMMA PreparedCleared ==
  ASSUME NEW op \in Operations, NEW s \in STAGES, NEW job \in Job,
         job.status \in Resumed => Cleared(job.data),
         IF op = "create" THEN job.status = "queued" ELSE Permitted(op, s, job)
  PROVE  Cleared(Prepared(op, s, job.data))
<1> DEFINE data == job.data
           new == Prepared(op, s, data)
<1>1. data \in Data
  BY DEF Job
<1>2. CASE op = "create"
  BY <1>2 DEF Prepared, Resumed
<1>3. CASE op = "retry"
  <2>1. new = [data EXCEPT !.error = "none"] /\ Cleared(data)
    BY <1>3 DEF Prepared, Permitted, Resumed
  <2>2. QED
    BY <1>1, <2>1 DEF Cleared, Data
<1>4. CASE op = "start"
  <2>1. new = [data EXCEPT !.approved = TRUE, !.cur = Scenes, !.error = "none"]
    BY <1>4 DEF Prepared
  <2>2. QED
    BY <1>1, <2>1 DEF Cleared, Data
<1>5. CASE op = "retryStage"
  <2>1. new = Reset(data, s, (s + 1)..Scoring) /\ Cleared(data)
    BY <1>5 DEF Prepared, Permitted, Resumed
  <2>2. new.out \subseteq data.out /\ new.review = data.review /\ new.approved = data.approved
    BY <1>1, <2>1 DEF Reset, Data
  <2>3. QED
    BY <2>1, <2>2 DEF Cleared
<1>6. CASE op = "regenerate"
  <2>1. new = [Reset(data, Editorial, Editorial..Scoring) EXCEPT !.approved = FALSE]
    BY <1>6 DEF Prepared
  <2>2. Storyboard \notin new.out
    BY <1>1, <2>1, StageNumbers DEF Reset, Data
  <2>3. QED
    BY <2>2 DEF Cleared
<1>7. QED
  BY <1>2, <1>3, <1>4, <1>5, <1>6 DEF Operations

\* Handlers charge the reserve, give up or queue the job.
LEMMA ServeKeepsReview ==
  ASSUME Inv, SeqInv, ReviewInv, NEW i \in Instances, Spares(i), Serve(i)
  PROVE  ReviewInv'
<1>1. /\ TypeOK /\ row \in Job /\ req[i] \in Handler /\ Reviewed(i) /\ Sequenced(i)
      /\ Decided(ex[i].pc, row.status, row.data)
      /\ req[i].pc \in {"charge", "save"} /\ UNCHANGED <<can, up>>
  BY ReviewFields DEF Serve, ChargeReserve, ChargeRefused, SaveRequest, hostVars
<1>2. /\ req[i].mem = row /\ ex[i].pc \notin Steering \cup {"load", "interrupt"}
      /\ req[i].op = "create" => row.status = "queued"
      /\ up[i] /= "down"
  BY <1>1 DEF Reviewed, Alone
<1>3. CASE ChargeReserve(i)
  <2>1. UNCHANGED <<row, ex>> /\ req'[i].mem = req[i].mem /\ req'[i].op = req[i].op
    BY <1>1, <1>3 DEF ChargeReserve, jobVars, TypeOK, Handler
  <2>2. QED
    BY <1>1, <1>2, <2>1, HandlerKeepsReview
<1>4. CASE ChargeRefused(i)
  <2>1. (row' = NoJob \/ row' = row) /\ req'[i].pc = "idle" /\ ex' = ex
    BY <1>1, <1>4 DEF ChargeRefused, TypeOK, NoRequest
  <2>2. Decided(ex[i].pc, NoJob.status, NoJob.data)
    BY <1>2 DEF Decided, Matched, Steering, NoJob, Resumed
  <2>3. QED
    BY <1>1, <1>2, <2>1, <2>2, HandlerKeepsReview
<1>5. CASE SaveRequest(i)
  <2> DEFINE new == Prepared(req[i].op, req[i].stage, row.data)
  <2>1. /\ req'[i].pc = "idle" /\ row'.data = new /\ row'.status = "queued"
        /\ ex'[i] = Scheduled(ex[i])
    BY <1>1, <1>2, <1>5 DEF SaveRequest, Stored, TypeOK, NoRequest
  <2>2. req[i].op \in Operations /\ req[i].stage \in STAGES
    BY <1>1 DEF Handler
  <2>3. IF req[i].op = "create" THEN row.status = "queued" ELSE Permitted(req[i].op, req[i].stage, row)
    BY <1>1, <1>2 DEF Sequenced
  <2>4. row.status \in Resumed => Cleared(row.data)
    BY <1>1 DEF Decided
  <2>5. Cleared(new)
    BY <1>1, <2>2, <2>3, <2>4, PreparedCleared
  <2> HIDE DEF new
  <2>6. ex'[i] = ex[i] \/ (ex'[i].pc = "claim" /\ ~ex'[i].stop)
    BY <2>1 DEF Scheduled, NoTask
  <2>7. ex'[i].pc \notin Steering \cup {"load", "interrupt"}
    BY <1>2, <2>6 DEF Steering, Busy
  <2>8. Decided(ex'[i].pc, row'.status, row'.data)
    BY <2>1, <2>5, <2>7 DEF Decided, Matched, Steering
  <2>9. QED
    BY <1>1, <1>2, <2>1, <2>6, <2>7, <2>8, HandlerKeepsReview
<1>6. QED
  BY <1>3, <1>4, <1>5 DEF Serve

\* An instance that stops, dies or comes back.
LEMMA HostKeepsReview ==
  ASSUME ReviewUndisturbed, Inv, SeqInv, ReviewInv, NEW i \in Instances, Spares(i),
         Crash(i) \/ Shutdown(i) \/ Exit(i) \/ Boot(i) \/ TimerFires(i)
  PROVE  ReviewInv'
<1>1. /\ TypeOK /\ ex[i] \in Task /\ row \in Job /\ row.data \in Data /\ Reviewed(i)
      /\ Decided(ex[i].pc, row.status, row.data)
  BY ReviewFields
<1>2. "off" \notin Steering \cup {"load", "interrupt", "tail"} /\ Decided("off", row.status, row.data)
  <2>1. "off" \notin Steering \cup {"load", "interrupt", "tail"}
    BY DEF Steering, Busy
  <2>2. QED
    BY <1>1, <2>1, RestDecided
<1>3. CASE Crash(i) \/ Exit(i)
  <2>1. Stopped(i) /\ row' = row
    BY <1>3 DEF Crash, Exit, jobVars
  <2>2. ex'[i].pc = "off" /\ ~ex'[i].stop /\ req'[i].pc = "idle"
    BY <1>1, <2>1 DEF Stopped, TypeOK, NoTask, NoRequest
  <2>3. can'.pc = "idle"
    BY <2>1 DEF Stopped, NoCancel, ReviewInv
  <2>4. Reviewed(i)'
    BY <1>2, <2>1, <2>2 DEF Reviewed, Alone
  <2>5. QED
    BY <2>3, <2>4, OthersReviewed
<1>4. CASE Shutdown(i)
  <2>1. /\ ex[i].pc \in Awaits \cup {"off"} /\ UNCHANGED <<row, req, can>> /\ up'[i] = "stopping"
        /\ ex'[i] = [ex[i] EXCEPT !.stop = (ex[i].pc /= "off")]
    BY <1>1, <1>4 DEF Shutdown, LoopIsFree, jobVars, TypeOK
  <2>2. ~EventSinks
    <3>1. used["stops"] \in Nat /\ used["stops"] < MaxStops
      BY <1>1, <1>4 DEF Shutdown, TypeOK, Bounds
    <3>2. MaxStops /= 0
      BY <3>1
    <3>3. QED
      BY <3>2 DEF ReviewUndisturbed
  <2>3. /\ ex'[i].pc = ex[i].pc /\ ex'[i].mem = ex[i].mem
        /\ ex'[i].stop => ex[i].pc \in Awaits
    BY <1>1, <2>1 DEF Task
  <2>4. Reviewed(i)'
    BY <1>1, <2>1, <2>2, <2>3 DEF Reviewed, Alone
  <2>5. QED
    BY <2>1, <2>4, OthersReviewed DEF ReviewInv
<1>5. CASE Boot(i)
  <2>1. /\ up[i] = "down" /\ UNCHANGED <<ex, req, can>> /\ up'[i] = "up"
        /\ ex[i].pc = "off" /\ req[i].pc = "idle"
    BY <1>1, <1>5 DEF Boot, TypeOK, Reviewed
  <2>2. CASE Repairs(row)
    <3> DEFINE new == [row.data EXCEPT !.retries[row.data.cur] = 0, !.error = "none",
                                       !.repaired = TRUE]
    <3>1. row' = [status |-> "queued", data |-> new]
      BY <1>5, <2>2 DEF Boot
    <3>2. new.out = row.data.out /\ new.review = row.data.review /\ new.approved = row.data.approved
      BY <1>1 DEF Data
    <3> HIDE DEF new
    <3>3. row'.status = "queued" /\ row'.data = new
      BY <3>1
    <3>4. Cleared(new)
      BY <1>1, <2>2, <3>2 DEF Repairs, Decided, Resumed, Cleared
    <3>5. Decided("off", row'.status, row'.data)
      BY <1>2, <3>3, <3>4 DEF Decided, Matched, Steering
    <3>6. Reviewed(i)'
      BY <1>1, <1>2, <2>1, <3>5 DEF Reviewed, Alone
    <3>7. QED
      BY <2>1, <3>6, OthersReviewed DEF ReviewInv
  <2>3. CASE ~Repairs(row)
    <3>1. row' = row
      BY <1>5, <2>3 DEF Boot
    <3>2. Reviewed(i)'
      BY <1>1, <2>1, <3>1 DEF Reviewed, Alone
    <3>3. QED
      BY <2>1, <3>2, OthersReviewed DEF ReviewInv
  <2>4. QED
    BY <2>2, <2>3
<1>6. CASE TimerFires(i)
  <2>1. /\ up[i] = "up" /\ req[i].pc = "idle" /\ UNCHANGED <<row, req, can, up>>
        /\ ex'[i] = Scheduled(ex[i])
    BY <1>1, <1>6 DEF TimerFires, LoopIsFree, jobVars, TypeOK
  <2>2. CASE ex[i].pc = "off"
    <3>1. ex'[i].pc = "claim" /\ ~ex'[i].stop
      BY <2>1, <2>2 DEF Scheduled, NoTask
    <3>2. "claim" \notin Steering \cup {"load", "interrupt", "tail"}
      BY DEF Steering, Busy
    <3>3. Decided("claim", row'.status, row'.data)
      BY <1>1, <2>1, <3>2, RestDecided
    <3>4. QED
      BY <2>1, <3>1, <3>2, <3>3, ExecutorKeepsReview
  <2>3. CASE ex[i].pc /= "off"
    <3>1. ex'[i] = ex[i]
      BY <2>1, <2>3 DEF Scheduled
    <3>2. Reviewed(i)'
      BY <1>1, <2>1, <3>1 DEF Reviewed, Alone
    <3>3. QED
      BY <2>1, <3>2, OthersReviewed DEF ReviewInv
  <2>4. QED
    BY <2>2, <2>3
<1>7. QED
  BY <1>3, <1>4, <1>5, <1>6

\* Every step of a job that nobody cancels keeps the invariant.
LEMMA NextKeepsReview ==
  ASSUME ReviewUndisturbed, ApartInv, [Apart]_vars, Inv, SeqInv, ReviewInv, [Next]_vars
  PROVE  ReviewInv'
<1>1. ASSUME NEW i \in Instances, Writes(i) PROVE Spares(i)
  BY <1>1, StepsSpare DEF Inv
<1>2. ASSUME NEW i \in Instances, Executor(i) \/ Trouble(i) PROVE ReviewInv'
  BY <1>1, <1>2, RunKeepsReview, StagesKeepReview, DispatchKeepsReview, ScenesKeepReview,
     EndingsKeepReview, FailureKeepsReview, RefundKeepsReview
  DEF Executor, Trouble, Writes
<1>3. ASSUME NEW i \in Instances, Request(i) \/ Serve(i) PROVE ReviewInv'
  BY <1>1, <1>3, BeginKeepsReview, ServeKeepsReview DEF Writes
<1>4. ASSUME NEW i \in Instances, Crash(i) \/ Shutdown(i) \/ Host(i) PROVE ReviewInv'
  BY <1>1, <1>4, HostKeepsReview DEF Host, Writes
<1>5. ASSUME NEW i \in Instances PROVE ~BeginCancel(i)
  <2>1. used["cancels"] \in Nat
    BY DEF Inv, TypeOK, Bounds
  <2>2. QED
    BY <2>1 DEF BeginCancel, ReviewUndisturbed
<1>6. ~ServeCancel
  BY DEF ServeCancel, SaveCancel, RefundCancelled, ReviewInv
<1>7. CASE SpendElsewhere
  BY <1>7 DEF SpendElsewhere, jobVars, ReviewInv, Reviewed, Alone
<1>8. CASE UNCHANGED vars
  BY <1>8 DEF vars, ReviewInv, Reviewed, Alone
<1>9. QED
  BY <1>2, <1>3, <1>4, <1>5, <1>6, <1>7, <1>8 DEF Next

\* At the start there is no job.
LEMMA InitReview == Init => ReviewInv
<1> SUFFICES ASSUME Init PROVE ReviewInv
  OBVIOUS
<1>1. /\ can.pc = "idle" /\ row.status = "none"
      /\ \A i \in Instances : ex[i] = NoTask /\ req[i].pc = "idle" /\ up[i] = "up"
  BY DEF Init, NoCancel, NoRequest, NoJob
<1>2. NoTask.pc = "off" /\ ~NoTask.stop /\ "off" \notin Steering \cup {"interrupt", "load", "tail"}
  BY DEF NoTask, Steering, Busy
<1>3. Decided("off", "none", row.data)
  BY DEF Decided, Matched, Steering, Busy, Resumed
<1>4. QED
  BY <1>1, <1>2, <1>3 DEF ReviewInv, Reviewed, Alone

\* A script that its author has to review is filmed only after an approval,
\* whatever fails, is retried, regenerated, lost or interrupted before: where
\* nobody cancels and no stop finds an executor at its last event, on one
\* instance or on several whose steps are apart.
THEOREM ReviewGateHolds ==
  ASSUME ReviewUndisturbed PROVE Spec /\ [][Apart]_vars => []ReviewGate
<1>1. Inv /\ SeqInv /\ ReviewInv => ReviewGate
  <2> SUFFICES ASSUME Inv, SeqInv, ReviewInv, NEW i \in Instances, ex[i].pc = "veo",
                      ex[i].mem.data.review
               PROVE  ex[i].mem.data.approved
    BY DEF ReviewGate
  <2>1. ex[i].mem = row /\ ex[i].at = Scenes /\ Stood("veo", Scenes, row.data)
        /\ Decided("veo", row.status, row.data)
    BY ReviewFields DEF Steering, Busy, Placed
  <2>2. row.data.stage[Storyboard] = "completed"
    BY <2>1, StageNumbers DEF Stood, Filming, AtStage
  <2>3. Storyboard \in row.data.out
    BY <2>2, StageNumbers DEF SeqInv, Ordered
  <2>4. QED
    BY <2>1, <2>3 DEF Decided, Busy, Cleared
<1>2. Inv /\ SeqInv /\ ReviewInv /\ ApartInv /\ [Next]_vars /\ [Apart]_vars => ReviewInv'
  BY NextKeepsReview
<1>3. Inv /\ SeqInv /\ ApartInv /\ [Next]_vars /\ [Apart]_vars => SeqInv'
  BY NextKeepsSeq
<1>4. QED
  BY <1>1, <1>2, <1>3, InitSeq, InitReview, InvHolds, ApartHolds, PTL DEF Spec

(***************************************************************************)
(* The invariant behind ScenesAreKept: a storyboard with generated scenes  *)
(* is one that the job goes on with. Its render is completed, or whoever   *)
(* takes the job up resumes at the render or at the scenes; and the stages *)
(* before the scenes are reached only where there is nothing to lose.      *)
(***************************************************************************)
\* Nobody cancels, and no stage is reset but those of a new script.
ScenesUndisturbed == MaxCancels = 0 /\ "retryStage" \notin Offered

\* A storyboard with these generated scenes may be replaced.
Replaceable(data, shots) == shots = {} \/ data.stage[Render] = "completed"

\* The job goes on with its storyboard, or may replace it.
Saved(data, shots) ==
  /\ Replaceable(data, shots) \/ RenderPending(data) \/ ScenesPending(data)
  /\ Storyboard \in data.out => data.board /= 0

InScenes == {"scene", "veo", "accept", "fetch"}

\* What an executor at pc of stage at has in hand.
Holds(pc, at, board, data, shots) ==
  /\ pc \in Staged \cup {"note"} /\ at <= Storyboard => Replaceable(data, shots)
  /\ pc \in InScenes \cup {"stage"} /\ at = Scenes => board = data.board
  /\ pc \in InScenes /\ at = Scenes => data.cur = Scenes
  /\ pc = "finish" \/ (pc \in Staged /\ at > Render) => data.stage[Render] = "completed"
  /\ pc = "review" => shots = {}

Held(pc, at, board, status, data, shots) ==
  /\ Matched(pc, status) /\ Saved(data, shots) /\ Holds(pc, at, board, data, shots)
  /\ status = "awaiting_script_review" => shots = {}

Keeps(i) ==
  /\ ex[i].pc \in Steering \cup {"interrupt"} => ex[i].mem = row
  /\ Held(ex[i].pc, ex[i].at, ex[i].board, row.status, row.data, gen[row.data.board])
  /\ up[i] = "down" => ex[i].pc = "off" /\ req[i].pc = "idle"
  /\ Alone(i) /\ (req[i].pc /= "idle" => req[i].op /= "retryStage")

KeepInv == can.pc = "idle" /\ gen[0] = {} /\ \A i \in Instances : Keeps(i)

\* What the invariants say where an executor or a handler takes a step.
LEMMA KeepFields ==
  ASSUME Inv, SeqInv, KeepInv, NEW i \in Instances
  PROVE  /\ TypeOK /\ ex[i] \in Task /\ row \in Job /\ row.data \in Data /\ req[i] \in Handler
         /\ ex[i].mem.data \in Data /\ Keeps(i) /\ Sequenced(i) /\ Ordered(row.data)
         /\ Placed(ex[i].pc, ex[i].at, ex[i].todo, ex[i].mem.data)
         /\ Stood(ex[i].pc, ex[i].at, ex[i].mem.data)
         /\ Held(ex[i].pc, ex[i].at, ex[i].board, row.status, row.data, gen[row.data.board])
         /\ ex[i].pc \in Steering \cup {"interrupt"} => ex[i].mem = row
         /\ gen[0] = {}
<1>1. TypeOK /\ row \in Job /\ req[i] \in Handler
  BY DEF Inv, TypeOK
<1>2. row.data \in Data
  BY <1>1 DEF Job
<1>3. Keeps(i) /\ Ordered(row.data) /\ gen[0] = {}
  BY DEF KeepInv, SeqInv
<1>4. QED
  BY <1>1, <1>2, <1>3, SeqFields DEF Keeps

\* Data with the same stages, outputs, board and place.
LEMMA SameSaved ==
  ASSUME NEW old, NEW data, NEW shots, data.stage = old.stage, data.out = old.out,
         data.board = old.board, data.cur = old.cur
  PROVE  /\ Saved(old, shots) => Saved(data, shots)
         /\ Replaceable(old, shots) => Replaceable(data, shots)
  BY DEF Saved, Replaceable, RenderPending, ScenesPending

\* What a stage that begins, ends or fails leaves of the data.
LEMMA StageLeaves ==
  ASSUME NEW data \in Data, NEW s \in Places, NEW status
  PROVE  LET mid == SetStage(data, s, status)
             new == WithOutput(mid, s)
         IN  /\ mid.board = data.board /\ mid.out = data.out /\ mid.cur = s
             /\ new.board = data.board /\ new.out = data.out \cup {s} /\ new.cur = s
             /\ new.stage = mid.stage
             /\ \A t \in STAGES : mid.stage[t] = IF t = s THEN status ELSE data.stage[t]
  BY DEF SetStage, WithOutput, Data

\* A stage that begins, completes or is blocked by the policy keeps the scenes.
LEMMA StageSaved ==
  ASSUME NEW data \in Data, Ordered(data), NEW s \in STAGES, AtStage(s, data), NEW shots,
         Saved(data, shots), s <= Storyboard => Replaceable(data, shots),
         s > Render => data.stage[Render] = "completed",
         NEW status, status \in {"running", "completed"} \/ s = Policy,
         NEW new, new.board = data.board, new.cur = s,
         new.out = data.out \/ (new.out = data.out \cup {s} /\ s /= Storyboard),
         \A t \in STAGES : new.stage[t] = IF t = s THEN status ELSE data.stage[t]
  PROVE  /\ Saved(new, shots)
         /\ s <= Storyboard => Replaceable(new, shots)
         /\ s > Render => new.stage[Render] = "completed"
         /\ s = Render /\ status = "completed" => new.stage[Render] = "completed"
<1>1. s <= Storyboard => Replaceable(new, shots)
  BY StageNumbers DEF Replaceable
<1>2. s > Render => new.stage[Render] = "completed"
  BY StageNumbers
<1>3. Storyboard \in new.out => new.board /= 0
  BY DEF Saved
<1>4. s \in {Scenes, Voice} => ScenesPending(new)
  <2>1. s \in {Scenes, Voice} => Storyboard \in new.out
    BY StageNumbers DEF AtStage, Ordered
  <2>2. s \in {Scenes, Voice} => new.stage[Scenes] /= "blocked"
    BY StageNumbers DEF Ordered
  <2>3. QED
    BY <2>1, <2>2 DEF ScenesPending
<1>5. s = Render => RenderPending(new) \/ new.stage[Render] = "completed"
  BY StageNumbers DEF AtStage, Filmed, RenderPending
<1>6. Saved(new, shots)
  BY <1>1, <1>2, <1>3, <1>4, <1>5, StageNumbers DEF Saved, Replaceable
<1>7. s = Render /\ status = "completed" => new.stage[Render] = "completed"
  BY StageNumbers
<1>8. QED
  BY <1>1, <1>2, <1>6, <1>7

\* A failed stage is resumed, or there is nothing to lose: the render has what
\* it needs when it fails.
LEMMA FailedSaved ==
  ASSUME NEW data \in Data, Ordered(data), NEW shots, Saved(data, shots)
  PROVE  Saved(SetStage(data, data.cur, "failed"), shots)
<1> DEFINE new == SetStage(data, data.cur, "failed")
<1>1. /\ new.board = data.board /\ new.out = data.out /\ new.cur = data.cur
      /\ \A t \in STAGES : new.stage[t] = IF t = data.cur THEN "failed" ELSE data.stage[t]
  BY StageLeaves, DataFields
<1> HIDE DEF new
<1>2. Storyboard \in new.out => new.board /= 0
  BY <1>1 DEF Saved
<1>3. CASE data.cur = Render
  <2>1. RenderPending(new)
    BY <1>1, <1>3, StageNumbers DEF Ordered, Filmed, RenderPending
  <2>2. QED
    BY <1>2, <2>1 DEF Saved, new
<1>4. CASE data.cur /= Render
  <2>1. Replaceable(data, shots) => Replaceable(new, shots)
    BY <1>1, <1>4, StageNumbers DEF Replaceable
  <2>2. RenderPending(data) => RenderPending(new)
    BY <1>1, <1>4, StageNumbers DEF RenderPending, Ordered, RenderBegun
  <2>3. ScenesPending(data) => ScenesPending(new)
    BY <1>1, StageNumbers DEF ScenesPending
  <2>4. QED
    BY <1>2, <2>1, <2>2, <2>3 DEF Saved, new
<1>5. QED
  BY <1>3, <1>4

\* What a permitted handler queues: a new script is asked for only before the
\* first scene.
LEMMA PreparedSaved ==
  ASSUME NEW op \in Operations \ {"retryStage"}, NEW s \in STAGES, NEW job \in Job, NEW shots,
         Saved(job.data, shots), job.status = "awaiting_script_review" => shots = {},
         op = "create" \/ Permitted(op, s, job)
  PROVE  LET new == Prepared(op, s, job.data)
         IN  Saved(new, shots) /\ new.board = job.data.board
<1> DEFINE data == job.data
           new == Prepared(op, s, data)
<1>1. data \in Data
  BY DEF Job
<1>2. CASE op = "create"
  BY <1>2 DEF Prepared
<1>3. CASE op = "retry"
  <2>1. new = [data EXCEPT !.error = "none"]
    BY <1>3 DEF Prepared
  <2>2. new.stage = data.stage /\ new.out = data.out /\ new.board = data.board /\ new.cur = data.cur
    BY <1>1, <2>1 DEF Data
  <2>3. QED
    BY <2>2, SameSaved
<1>4. CASE op = "start"
  <2>1. new = [data EXCEPT !.approved = TRUE, !.cur = Scenes, !.error = "none"]
    BY <1>4 DEF Prepared
  <2>2. new.stage = data.stage /\ new.out = data.out /\ new.board = data.board
    BY <1>1, <2>1 DEF Data
  <2>3. shots = {}
    BY <1>4 DEF Permitted
  <2>4. QED
    BY <2>2, <2>3 DEF Saved, Replaceable
<1>5. CASE op = "regenerate"
  <2>1. new = [Reset(data, Editorial, Editorial..Scoring) EXCEPT !.approved = FALSE]
    BY <1>5 DEF Prepared
  <2>2. new.out \subseteq data.out /\ new.board = data.board
    BY <1>1, <2>1 DEF Reset, Data
  <2>3. shots = {}
    BY <1>5 DEF Permitted
  <2>4. QED
    BY <2>2, <2>3 DEF Saved, Replaceable
<1>6. QED
  BY <1>2, <1>3, <1>4, <1>5 DEF Operations

\* A task that rests or waits for nothing holds nothing.
LEMMA RestIs ==
  ASSUME NEW pc, pc \notin Steering \cup {"load"}, NEW at, NEW board, NEW status, NEW data, NEW shots,
         Saved(data, shots), status = "awaiting_script_review" => shots = {}
  PROVE  Held(pc, at, board, status, data, shots)
<1>1. Matched(pc, status)
  BY DEF Matched, Steering, Busy
<1>2. Holds(pc, at, board, data, shots)
  BY DEF Holds, Steering, Busy, Staged, InScenes
<1>3. QED
  BY <1>1, <1>2 DEF Held

\* What it leaves is still so.
LEMMA RestHeld ==
  ASSUME NEW old, NEW n, NEW b, NEW status, NEW data, NEW shots,
         Held(old, n, b, status, data, shots),
         NEW pc, pc \notin Steering \cup {"load"}, NEW at, NEW board
  PROVE  Held(pc, at, board, status, data, shots)
  BY RestIs DEF Held

\* What a step of instance i leaves of the others.
LEMMA OthersKept ==
  ASSUME KeepInv, NEW i \in Instances, Spares(i), Keeps(i)', can'.pc = "idle", gen'[0] = {}
  PROVE  KeepInv'
<1>1. ASSUME NEW j \in Instances, j /= i PROVE Keeps(j)'
  <2>1. Keeps(j) /\ ex'[j] = ex[j] /\ req'[j] = req[j] /\ up'[j] = up[j]
    BY <1>1 DEF KeepInv, Spares
  <2>2. CASE UNCHANGED <<row, gen>>
    BY <2>1, <2>2 DEF Keeps, Alone
  <2>3. CASE ex[j].pc \in AtRest /\ req[j].pc = "idle"
    <3>1. ex[j].pc \notin Steering \cup {"load", "interrupt"}
      BY <2>3 DEF AtRest, Steering, Busy
    <3>2. Held(ex'[i].pc, ex'[i].at, ex'[i].board, row'.status, row'.data,
               gen'[row'.data.board])
      BY DEF Keeps
    <3>3. Held(ex[j].pc, ex[j].at, ex[j].board, row'.status, row'.data, gen'[row'.data.board])
      BY <3>1, <3>2, RestHeld
    <3>4. QED
      BY <2>1, <2>3, <3>1, <3>3 DEF Keeps, Alone
  <2>4. QED
    BY <1>1, <2>2, <2>3 DEF Spares, Sole
<1>2. QED
  BY <1>1 DEF KeepInv

\* A step of the executor keeps the invariant where its task fits the row.
LEMMA ExecutorKeepsScenes ==
  ASSUME KeepInv, NEW i \in Instances, Spares(i), req[i].pc = "idle", up[i] /= "down",
         UNCHANGED <<req, can, up>>, gen'[0] = {},
         ex'[i].pc \in Steering \cup {"interrupt"} => ex'[i].mem = row',
         Held(ex'[i].pc, ex'[i].at, ex'[i].board, row'.status, row'.data, gen'[row'.data.board])
  PROVE  KeepInv'
<1>1. can'.pc = "idle" /\ req'[i].pc = "idle" /\ up'[i] /= "down"
  BY DEF KeepInv
<1>2. Keeps(i)'
  BY <1>1 DEF Keeps, Alone
<1>3. QED
  BY <1>1, <1>2, OthersKept

\* Within the pipeline only stages, scenes and the end of the job hold anything.
LEMMA PlainHolds ==
  ASSUME NEW pc, pc \notin Staged \cup InScenes \cup {"note", "finish", "review"}, NEW at, NEW board,
         NEW data, NEW shots
  PROVE  Holds(pc, at, board, data, shots)
  BY DEF Holds, Staged

\* A commit of an executor that owns the row.
LEMMA CommitKeepsScenes ==
  ASSUME Inv, SeqInv, KeepInv, NEW i \in Instances, Spares(i), Runs(i), NEW e \in Task,
         NEW pc, NEW data, NEW status, Commit(i, e, pc, data, status), ex[i].pc \in Steering,
         Held(pc, e.at, e.board, status, data, gen'[data.board]), gen'[0] = {},
         UNCHANGED <<req, can, up>>
  PROVE  KeepInv'
<1>1. TypeOK /\ ex[i].mem = row /\ req[i].pc = "idle" /\ up[i] /= "down"
  BY KeepFields DEF Runs
<1>2. /\ row'.data = data /\ row'.status = status /\ ex'[i].pc = pc
      /\ pc = "off" => ex'[i] = NoTask
      /\ pc /= "off" => ex'[i].mem = row' /\ ex'[i].at = e.at /\ ex'[i].board = e.board
  BY <1>1, CommitDoes
<1>3. "interrupt" \notin Steering /\ "off" \notin Steering \cup {"load", "interrupt"}
  BY DEF Steering, Busy
<1>4. Held(ex'[i].pc, ex'[i].at, ex'[i].board, row'.status, row'.data, gen'[row'.data.board])
  <2>1. CASE pc = "off"
    BY <1>2, <1>3, <2>1, RestHeld
  <2>2. CASE pc /= "off"
    BY <1>2, <2>2
  <2>3. QED
    BY <2>1, <2>2
<1>5. ex'[i].pc \in Steering \cup {"interrupt"} => ex'[i].mem = row'
  BY <1>2, <1>3
<1>6. QED
  BY <1>1, <1>4, <1>5, ExecutorKeepsScenes

\* A commit within the pipeline.
LEMMA BusyCommitKeepsScenes ==
  ASSUME Inv, SeqInv, KeepInv, NEW i \in Instances, Spares(i), Runs(i), NEW e \in Task,
         NEW pc \in Busy, NEW data, NEW status \in {"queued", "running"},
         Commit(i, e, pc, data, status), ex[i].pc \in Steering, gen' = gen,
         Saved(data, gen[data.board]), Holds(pc, e.at, e.board, data, gen[data.board]),
         UNCHANGED <<req, can, up>>
  PROVE  KeepInv'
<1>1. Held(pc, e.at, e.board, status, data, gen'[data.board])
  BY DEF Held, Matched, Busy
<1>2. gen'[0] = {}
  BY KeepFields
<1>3. QED
  BY <1>1, <1>2, CommitKeepsScenes

\* A move within the pipeline; the scene that it may accept is one of a
\* storyboard that the job goes on with.
LEMMA BusyMoveKeepsScenes ==
  ASSUME Inv, SeqInv, KeepInv, NEW i \in Instances, Spares(i), Runs(i),
         ex[i].pc \in Busy, ex'[i].pc \in Busy, ex'[i].mem = ex[i].mem,
         Holds(ex'[i].pc, ex'[i].at, ex'[i].board, row.data, gen'[row.data.board]),
         gen' = gen \/ (gen'[0] = {} /\ ScenesPending(row.data)),
         UNCHANGED <<row, req, can, up>>
  PROVE  KeepInv'
<1>1. /\ ex[i].mem = row /\ gen[0] = {}
      /\ Held(ex[i].pc, ex[i].at, ex[i].board, row.status, row.data, gen[row.data.board])
  BY KeepFields DEF Steering
<1>2. row.status \in {"queued", "running"}
  BY <1>1 DEF Held, Matched
<1>3. Saved(row.data, gen'[row.data.board])
  BY <1>1 DEF Held, Saved
<1>4. Held(ex'[i].pc, ex'[i].at, ex'[i].board, row'.status, row'.data, gen'[row'.data.board])
  BY <1>2, <1>3 DEF Held, Matched, Busy
<1>5. QED
  BY <1>1, <1>4, ExecutorKeepsScenes DEF Runs

\* A task that ends.
LEMMA EndKeepsScenes ==
  ASSUME Inv, SeqInv, KeepInv, NEW i \in Instances, Spares(i), up[i] /= "down",
         req[i].pc = "idle", Step(i, NoTask), UNCHANGED <<row, gen, req, can, up>>
  PROVE  KeepInv'
<1>1. ex'[i] = NoTask /\ NoTask.pc = "off" /\ gen[0] = {}
  BY KeepFields, StepDoes DEF NoTask
<1>2. "off" \notin Steering \cup {"load", "interrupt"}
  BY DEF Steering, Busy
<1>3. Held("off", NoTask.at, NoTask.board, row.status, row.data, gen[row.data.board])
  BY <1>2, KeepFields, RestHeld
<1>4. QED
  BY <1>1, <1>2, <1>3, ExecutorKeepsScenes

\* Steps of run before and after the pipeline.
LEMMA RunKeepsScenes ==
  ASSUME Inv, SeqInv, KeepInv, NEW i \in Instances, Spares(i),
         Claim(i) \/ Load(i) \/ Delivered(i) \/ Interrupt(i) \/ SaveInterrupt(i)
  PROVE  KeepInv'
<1>1. /\ TypeOK /\ ex[i] \in Task /\ row \in Job /\ row.data \in Data /\ gen[0] = {}
      /\ Held(ex[i].pc, ex[i].at, ex[i].board, row.status, row.data, gen[row.data.board])
  BY KeepFields
<1>2. up[i] /= "down" /\ req[i].pc = "idle" /\ UNCHANGED <<gen, req, can, up>>
  BY DEF Claim, Load, Delivered, Interrupt, SaveInterrupt, Runs, jobVars, hostVars
<1>3. CASE Claim(i)
  <2>1. CASE Claimable(row)
    <3> DEFINE data == [row.data EXCEPT !.interrupted = FALSE]
    <3>1. /\ row' = [status |-> "running", data |-> data] /\ Step(i, Goto(ex[i], "load"))
      BY <1>3, <2>1 DEF Claim
    <3>2. ex'[i].pc = "load"
      BY <1>1, <3>1, GotoDoes
    <3>3. /\ data.stage = row.data.stage /\ data.out = row.data.out
          /\ data.board = row.data.board /\ data.cur = row.data.cur
      BY <1>1 DEF Data
    <3>4. row'.data = data /\ row'.status = "running"
      BY <3>1
    <3> HIDE DEF data
    <3>5. Saved(data, gen[data.board])
      BY <1>1, <3>3, SameSaved DEF Held
    <3>6. Held("load", ex'[i].at, ex'[i].board, row'.status, row'.data, gen'[row'.data.board])
      BY <1>2, <3>4, <3>5 DEF Held, Matched, Holds, Busy, Staged, InScenes
    <3>7. "load" \notin Steering \cup {"interrupt"}
      BY DEF Steering, Busy
    <3>8. QED
      BY <1>1, <1>2, <3>2, <3>6, <3>7, ExecutorKeepsScenes
  <2>2. CASE ~Claimable(row)
    BY <1>2, <1>3, <2>2, EndKeepsScenes DEF Claim
  <2>3. QED
    BY <2>1, <2>2
<1>4. CASE Load(i)
  <2>1. CASE row.status \in {"ready", "cancelled", "blocked", "failed"}
    BY <1>2, <1>4, <2>1, EndKeepsScenes DEF Load, jobVars
  <2>2. CASE row.status \notin {"ready", "cancelled", "blocked", "failed"}
    <3>1. /\ Step(i, [ex[i] EXCEPT !.pc = EmitOr("started"), !.mem = row]) /\ row' = row
          /\ ex[i].pc = "load"
      BY <1>4, <2>2 DEF Load, jobVars
    <3>2. ex'[i] = [ex[i] EXCEPT !.pc = EmitOr("started"), !.mem = row]
      BY <1>1, <3>1, StepDoes
    <3>3. ex'[i].pc = EmitOr("started") /\ ex'[i].mem = row
      BY <1>1, <3>2 DEF Task
    <3>4. EmitOr("started") \in {"started", "dispatch"}
      BY DEF EmitOr, Emitted
    <3>5. Held(ex'[i].pc, ex'[i].at, ex'[i].board, row.status, row.data, gen[row.data.board])
      BY <1>1, <3>1, <3>3, <3>4 DEF Held, Matched, Holds, Busy, Staged, InScenes
    <3>6. QED
      BY <1>1, <1>2, <3>1, <3>3, <3>5, ExecutorKeepsScenes
  <2>3. QED
    BY <2>1, <2>2
<1>5. CASE Delivered(i)
  <2>1. /\ ex[i].pc \in {"started", "note", "retryTail", "failTail", "tail"} /\ row' = row
        /\ Step(i, Goto(ex[i], Emitted[ex[i].pc])) /\ Runs(i)
    BY <1>5 DEF Delivered, Emitted, jobVars
  <2>2. CASE ex[i].pc \in {"failTail", "tail"}
    <3>1. Step(i, NoTask)
      BY <2>1, <2>2 DEF Emitted, Goto
    <3>2. QED
      BY <1>2, <2>1, <3>1, EndKeepsScenes
  <2>3. CASE ex[i].pc \in {"started", "note", "retryTail"}
    <3>1. Emitted[ex[i].pc] \in {"dispatch", "done", "sleep"}
          /\ (Emitted[ex[i].pc] = "done" => ex[i].pc = "note")
      BY <2>3 DEF Emitted
    <3>2. /\ ex'[i].pc = Emitted[ex[i].pc] /\ ex'[i].mem = ex[i].mem /\ ex'[i].at = ex[i].at
      BY <1>1, <2>1, <3>1, GotoDoes
    <3>3. ex[i].pc = "note" => ex[i].at = Editorial
      BY KeepFields DEF Placed
    <3>4. Holds(ex'[i].pc, ex'[i].at, ex'[i].board, row.data, gen[row.data.board])
      BY <1>1, <3>1, <3>2, <3>3, StageNumbers DEF Held, Holds, Staged, InScenes
    <3>5. QED
      BY <1>2, <2>1, <2>3, <3>1, <3>2, <3>4, BusyMoveKeepsScenes DEF Busy
  <2>4. QED
    BY <2>1, <2>2, <2>3
<1>6. CASE Interrupt(i)
  <2>1. row' = row
    BY <1>6 DEF Interrupt, jobVars
  <2>2. CASE ex[i].pc \in OuterAwaits
    BY <1>2, <1>6, <2>1, <2>2, EndKeepsScenes DEF Interrupt
  <2>3. CASE ex[i].pc \notin OuterAwaits
    <3>1. ex'[i] = [ex[i] EXCEPT !.pc = "interrupt", !.mem = row]
      BY <1>1, <1>6, <2>3, StepDoes DEF Interrupt
    <3>2. ex'[i].pc = "interrupt" /\ ex'[i].mem = row
      BY <1>1, <3>1 DEF Task
    <3>3. "interrupt" \notin Steering \cup {"load"}
      BY DEF Steering, Busy
    <3>4. Held("interrupt", ex'[i].at, ex'[i].board, row.status, row.data, gen[row.data.board])
      BY <1>1, <3>3, RestHeld
    <3>5. QED
      BY <1>1, <1>2, <2>1, <3>2, <3>4, ExecutorKeepsScenes
  <2>4. QED
    BY <2>2, <2>3
<1>7. CASE SaveInterrupt(i)
  <2>1. ex[i].pc = "interrupt" /\ ex[i].mem = row
    BY <1>7, KeepFields DEF SaveInterrupt
  <2>2. CASE ex[i].mem.status = "cancelled"
    BY <1>2, <1>7, <2>2, EndKeepsScenes DEF SaveInterrupt
  <2>3. CASE ex[i].mem.status /= "cancelled"
    <3> DEFINE data == [row.data EXCEPT !.interrupted = TRUE]
    <3>1. Commit(i, ex[i], "off", data, "running")
      BY <1>7, <2>1, <2>3 DEF SaveInterrupt
    <3>2. /\ data.stage = row.data.stage /\ data.out = row.data.out
          /\ data.board = row.data.board /\ data.cur = row.data.cur
      BY <1>1 DEF Data
    <3> HIDE DEF data
    <3>3. row'.data = data /\ row'.status = "running" /\ ex'[i] = NoTask
      BY <1>1, <2>1, <3>1, CommitDoes
    <3>4. Saved(data, gen[data.board])
      BY <1>1, <3>2, SameSaved DEF Held
    <3>5. NoTask.pc = "off" /\ "off" \notin Steering \cup {"interrupt"}
      BY DEF NoTask, Steering, Busy
    <3>6. Held("off", NoTask.at, NoTask.board, "running", data, gen[data.board])
      BY <3>4 DEF Held, Matched, Holds, Busy, Staged, InScenes
    <3>7. QED
      BY <1>1, <1>2, <3>3, <3>5, <3>6, ExecutorKeepsScenes
  <2>4. QED
    BY <2>2, <2>3
<1>8. QED
  BY <1>3, <1>4, <1>5, <1>6, <1>7

\* The steps of the pipeline up to the scenes.
LEMMA StagesKeepScenes ==
  ASSUME Inv, SeqInv, KeepInv, NEW i \in Instances, Spares(i),
         \/ BeginStage(i) \/ Worked(i) \/ ScriptRejected(i) \/ CompleteStage(i) \/ CompleteLast(i)
         \/ CompleteStoryboard(i)
  PROVE  KeepInv'
<1> DEFINE data == ex[i].mem.data
           at == ex[i].at
           board == ex[i].board
           shots == gen[data.board]
<1>1. /\ TypeOK /\ ex[i] \in Task /\ ex[i].pc \in Staged /\ at \in STAGES /\ at \in Places
      /\ Runs(i) /\ UNCHANGED <<req, can, up>>
  <2>1. /\ ex[i].pc \in Staged /\ Runs(i) /\ UNCHANGED <<req, can, up>>
    BY DEF BeginStage, Worked, ScriptRejected, CompleteStage, CompleteLast, CompleteStoryboard,
       Staged, hostVars
  <2>2. QED
    BY <2>1, KeepFields, StageNumbers DEF Placed
<1>2. /\ ex[i].pc \in Busy /\ ex[i].pc \in Steering /\ ex[i].mem = row /\ data \in Data
      /\ Ordered(data) /\ gen[0] = {}
  BY <1>1, KeepFields DEF Steering, Busy, Staged
<1>3. /\ row.status \in {"queued", "running"} /\ Saved(data, shots)
      /\ Holds(ex[i].pc, at, board, data, shots)
  BY <1>2, KeepFields DEF Held, Matched
<1>4. AtStage(at, data)
  BY <1>1, KeepFields DEF Stood, Filming
<1>5. /\ at <= Storyboard => Replaceable(data, shots)
      /\ at > Render => data.stage[Render] = "completed"
  BY <1>1, <1>3 DEF Holds
<1>6. ASSUME NEW e \in Task, NEW pc \in Busy, NEW new, NEW status \in {"queued", "running"},
             Commit(i, e, pc, new, status), gen' = gen, new.board = data.board,
             Saved(new, shots), Holds(pc, e.at, e.board, new, shots)
      PROVE  KeepInv'
  BY <1>1, <1>2, <1>6, BusyCommitKeepsScenes
<1>7. ASSUME NEW status, status \in {"running", "completed"} \/ at = Policy, NEW new,
             \/ new = SetStage(data, at, status)
             \/ new = WithOutput(SetStage(data, at, status), at) /\ at /= Storyboard
      PROVE  /\ Saved(new, shots) /\ new.board = data.board /\ new.cur = at
             /\ at <= Storyboard => Replaceable(new, shots)
             /\ at > Render => new.stage[Render] = "completed"
             /\ at = Render /\ status = "completed" => new.stage[Render] = "completed"
  <2>1. /\ new.board = data.board /\ new.cur = at
        /\ new.out = data.out \/ (new.out = data.out \cup {at} /\ at /= Storyboard)
        /\ \A t \in STAGES : new.stage[t] = IF t = at THEN status ELSE data.stage[t]
    BY <1>1, <1>2, <1>7, StageLeaves
  <2> HIDE DEF data, at, shots
  <2>2. QED
    BY <1>1, <1>2, <1>3, <1>4, <1>5, <1>7, <2>1, StageSaved
<1>8. CASE BeginStage(i)
  <2> DEFINE todo == IF at = Scenes THEN 1..NumScenes ELSE {}
             e == [ex[i] EXCEPT !.todo = todo, !.tries = 0]
             pc == IF at = Scenes THEN "scene" ELSE IF at \in Waits THEN "work" ELSE "done"
             new == SetStage(data, at, "running")
  <2>1. Commit(i, e, pc, new, "running") /\ gen' = gen /\ ex[i].pc = "stage"
    BY <1>8 DEF BeginStage
  <2>2. todo \in SUBSET (1..NumScenes) /\ 0 \in 0..NativeRetries
    OBVIOUS
  <2>3. e \in Task /\ e.at = at /\ e.board = board
    BY <1>1, <2>2 DEF Task
  <2>4. /\ Saved(new, shots) /\ new.board = data.board /\ new.cur = at
        /\ at <= Storyboard => Replaceable(new, shots)
        /\ at > Render => new.stage[Render] = "completed"
    BY <1>7
  <2>5. pc \in Busy /\ pc \in {"scene", "work", "done"} /\ (pc = "scene" => at = Scenes)
    BY DEF Busy
  <2>6. at = Scenes => board = data.board
    BY <1>3, <2>1 DEF Holds
  <2> HIDE DEF e, new, pc, todo
  <2>7. Holds(pc, at, board, new, shots)
    BY <2>4, <2>5, <2>6, StageNumbers DEF Holds, InScenes
  <2>8. QED
    BY <1>6, <2>1, <2>3, <2>4, <2>5, <2>7
<1>9. CASE Worked(i)
  <2>1. Step(i, Goto(ex[i], "done")) /\ UNCHANGED <<row, gen>>
    BY <1>9 DEF Worked, jobVars
  <2>2. ex'[i].pc = "done" /\ ex'[i].mem = ex[i].mem /\ ex'[i].at = at
    <3>1. "done" /= "off" /\ TypeOK
      BY <1>1
    <3>2. QED
      BY <2>1, <3>1, GotoDoes
  <2>3. Holds("done", at, ex'[i].board, data, shots)
    BY <1>1, <1>3 DEF Holds, Staged, InScenes
  <2>4. QED
    BY <1>1, <1>2, <2>1, <2>2, <2>3, BusyMoveKeepsScenes DEF Busy
<1>10. CASE ScriptRejected(i)
  <2> DEFINE new == [data EXCEPT !.review = TRUE]
  <2>1. /\ Commit(i, ex[i], EmitOr("note"), new, row.status) /\ gen' = gen
        /\ at = Editorial
    BY <1>2, <1>10 DEF ScriptRejected
  <2>2. new.stage = data.stage /\ new.out = data.out /\ new.board = data.board /\ new.cur = data.cur
    BY <1>2 DEF Data
  <2> HIDE DEF new
  <2>3. Saved(new, shots) /\ Replaceable(new, shots)
    BY <1>3, <1>5, <2>1, <2>2, StageNumbers, SameSaved
  <2>4. EmitOr("note") \in Busy /\ EmitOr("note") \in {"note", "done"}
    BY TailStood DEF Busy
  <2>5. Holds(EmitOr("note"), at, board, new, shots)
    BY <2>1, <2>3, <2>4, StageNumbers DEF Holds, InScenes
  <2>6. QED
    BY <1>1, <1>3, <1>6, <2>1, <2>2, <2>3, <2>4, <2>5
<1>11. CASE CompleteStage(i)
  <2> DEFINE new == WithOutput(SetStage(data, at, "completed"), at)
             next == NextStage(new, at + 1)
             e == [ex[i] EXCEPT !.at = next]
  <2>1. Commit(i, e, "stage", new, "running") /\ gen' = gen /\ at \notin {Storyboard, Scoring, Voice}
    BY <1>11 DEF CompleteStage
  <2>2. e \in Task /\ next \in STAGES
    BY <1>11, CompleteStageTask
  <2>3. e.at = next /\ e.board = board
    BY <1>1 DEF Task
  <2>4. /\ Saved(new, shots) /\ new.board = data.board
        /\ at <= Storyboard => Replaceable(new, shots)
        /\ at >= Render => new.stage[Render] = "completed"
    <3>1. /\ Saved(new, shots) /\ new.board = data.board
          /\ at <= Storyboard => Replaceable(new, shots)
          /\ at > Render => new.stage[Render] = "completed"
          /\ at = Render => new.stage[Render] = "completed"
      BY <1>7, <2>1
    <3>2. QED
      BY <1>1, <3>1, StageNumbers
  <2>5. /\ at <= Policy => next <= Storyboard
        /\ at > Policy => next = at + 1
    <3>1. new \in Data /\ at + 1 \in STAGES
      <4>1. SetStage(data, at, "completed") \in Data
        BY <1>1, <1>2, SetStageType DEF StageStatus
      <4>2. at + 1 \in STAGES
        BY <1>1, <2>1, StageNumbers
      <4>3. QED
        BY <1>1, <4>1, <4>2, WithOutputType
    <3>2. QED
      BY <1>1, <3>1, NextStageIs, StageNumbers
  <2> HIDE DEF e, new, next
  <2>6. Holds("stage", next, board, new, shots)
    <3>1. next <= Storyboard => Replaceable(new, shots)
      BY <1>1, <2>1, <2>4, <2>5, StageNumbers
    <3>2. next /= Scenes /\ (next > Render => new.stage[Render] = "completed")
      BY <1>1, <2>1, <2>2, <2>4, <2>5, StageNumbers
    <3>3. QED
      BY <3>1, <3>2 DEF Holds, InScenes
  <2>7. QED
    BY <1>6, <2>1, <2>2, <2>3, <2>4, <2>6 DEF Busy
<1>12. CASE CompleteLast(i)
  <2> DEFINE new == WithOutput(SetStage(data, at, "completed"), at)
             pc == IF at = Voice THEN "settle" ELSE "finish"
  <2>1. Commit(i, ex[i], pc, new, "running") /\ gen' = gen /\ at \in {Voice, Scoring}
    BY <1>12 DEF CompleteLast
  <2>2. /\ Saved(new, shots) /\ new.board = data.board
        /\ at > Render => new.stage[Render] = "completed"
    BY <1>7, <2>1, StageNumbers
  <2>3. pc \in Busy
    BY DEF Busy
  <2>4. pc \in {"settle", "finish"} /\ (pc = "finish" => at > Render)
    BY <2>1, StageNumbers
  <2> HIDE DEF new, pc
  <2>5. Holds(pc, at, board, new, shots)
    BY <2>2, <2>4 DEF Holds, Staged, InScenes
  <2>6. QED
    BY <1>1, <1>6, <2>1, <2>2, <2>3, <2>5
<1>13. CASE CompleteStoryboard(i)
  <2> DEFINE done == WithOutput(SetStage(data, Storyboard, "completed"), Storyboard)
             new == [done EXCEPT !.board = boards']
             pc == IF new.review /\ ~new.approved THEN "review" ELSE "stage"
             e == [ex[i] EXCEPT !.at = Scenes, !.board = boards']
  <2>1. Commit(i, e, pc, new, "running") /\ gen' = [gen EXCEPT ![boards'] = {}]
    BY <1>13 DEF CompleteStoryboard
  <2>2. boards' \in Boards /\ Scenes \in 0..Scoring /\ boards' /= 0 /\ 0 \in Boards
    <3>1. boards \in Boards /\ boards < MaxStoryboards /\ boards' = boards + 1
      BY <1>1, <1>13 DEF TypeOK, CompleteStoryboard
    <3>2. QED
      BY <3>1, StageNumbers DEF Boards
  <2>3. gen'[boards'] = {} /\ gen'[0] = {}
    BY <1>1, <1>2, <2>1, <2>2 DEF TypeOK
  <2>4. e \in Task /\ e.at = Scenes /\ e.board = boards'
    BY <1>1, <2>2 DEF Task
  <2>5. new.board = boards'
    BY <1>2 DEF WithOutput, SetStage, Data
  <2>6. pc \in {"review", "stage"}
    OBVIOUS
  <2> HIDE DEF e, new, pc
  <2>7. Held(pc, Scenes, boards', "running", new, {})
    <3>1. Saved(new, {})
      BY <2>2, <2>5 DEF Saved, Replaceable
    <3>2. Holds(pc, Scenes, boards', new, {})
      BY <2>5, <2>6, StageNumbers DEF Holds, InScenes, Staged
    <3>3. Matched(pc, "running")
      BY <2>6 DEF Matched, Busy
    <3>4. QED
      BY <3>1, <3>2, <3>3 DEF Held
  <2>8. QED
    BY <1>1, <1>2, <2>1, <2>3, <2>4, <2>5, <2>7, CommitKeepsScenes
<1>14. QED
  BY <1>8, <1>9, <1>10, <1>11, <1>12, <1>13

\* Where the pipeline starts: from the top only with nothing to lose.
LEMMA DispatchKeepsScenes ==
  ASSUME Inv, SeqInv, KeepInv, NEW i \in Instances, Spares(i), Dispatch(i)
  PROVE  KeepInv'
<1> DEFINE data == ex[i].mem.data
           shots == gen[data.board]
<1>1. /\ TypeOK /\ ex[i] \in Task /\ ex[i].pc \in Busy /\ ex[i].pc \in Steering /\ ex[i].mem = row
      /\ data \in Data /\ Runs(i) /\ UNCHANGED <<gen, req, can, up>> /\ Ordered(data)
  BY KeepFields DEF Dispatch, Steering, Busy, hostVars
<1>2. row.status \in {"queued", "running"} /\ Saved(data, shots)
  BY <1>1, KeepFields DEF Held, Matched
<1>3. ASSUME Step(i, Raised(ex[i], "permanent")), row' = row PROVE KeepInv'
  <2>1. ex'[i].pc = "failing" /\ ex'[i].mem = ex[i].mem
    <3>1. ex'[i] = Raised(ex[i], "permanent")
      BY <1>1, <1>3, StepDoes
    <3>2. QED
      BY <1>1, <3>1 DEF Raised, Task
  <2>2. Holds("failing", ex'[i].at, ex'[i].board, data, shots)
    BY PlainHolds DEF Staged, InScenes
  <2>3. QED
    BY <1>1, <1>3, <2>1, <2>2, BusyMoveKeepsScenes DEF Busy
<1>4. CASE ResumeRender(i, data)
  <2>1. CASE RenderCheckpoints(data)
    <3>1. ex'[i] = [ex[i] EXCEPT !.pc = "fetch", !.at = Render] /\ row' = row
      BY <1>1, <1>4, <2>1, StepDoes DEF ResumeRender
    <3>2. ex'[i].pc = "fetch" /\ ex'[i].mem = ex[i].mem /\ ex'[i].at = Render
      BY <1>1, <3>1 DEF Task
    <3>3. Holds("fetch", Render, ex'[i].board, data, shots)
      BY StageNumbers DEF Holds, Staged
    <3>4. QED
      BY <1>1, <3>1, <3>2, <3>3, BusyMoveKeepsScenes DEF Busy
  <2>2. QED
    BY <1>3, <1>4, <2>1 DEF ResumeRender
<1>5. CASE ResumeScenes(i, data)
  <2>1. CASE SceneCheckpoints(data)
    <3> DEFINE e == [ex[i] EXCEPT !.at = Scenes, !.board = data.board]
               mid == SetStage(data, Storyboard, "completed")
               new == WithOutput(mid, Storyboard)
    <3>1. Commit(i, e, "stage", new, "running")
      BY <1>5, <2>1 DEF ResumeScenes
    <3>2. Scenes \in 0..Scoring /\ data.board \in Boards /\ Storyboard \in Places
      BY <1>1, StageNumbers DEF Data
    <3>3. e \in Task /\ e.at = Scenes /\ e.board = data.board
      BY <1>1, <3>2 DEF Task
    <3>4. Storyboard \in data.out /\ data.stage[Scenes] /= "blocked"
      BY <1>5 DEF ResumeScenes, ScenesPending
    <3>5. /\ new.board = data.board /\ new.out = data.out \cup {Storyboard} /\ new.cur = Storyboard
          /\ \A t \in STAGES : new.stage[t] = IF t = Storyboard THEN "completed" ELSE data.stage[t]
      BY <1>1, <3>2, StageLeaves
    <3> HIDE DEF e, new
    <3>6. Saved(new, shots)
      BY <1>2, <3>4, <3>5, StageNumbers DEF Saved, ScenesPending
    <3>7. Holds("stage", Scenes, data.board, new, shots)
      BY <3>5, StageNumbers DEF Holds, InScenes
    <3>8. QED
      BY <1>1, <3>1, <3>3, <3>5, <3>6, <3>7, BusyCommitKeepsScenes DEF Busy
  <2>2. QED
    BY <1>3, <1>5, <2>1 DEF ResumeScenes
<1>6. CASE FromTheTop(i, data)
  <2> DEFINE next == NextStage(data, Intake)
             e == [ex[i] EXCEPT !.at = next]
  <2>1. Commit(i, e, "stage", data, row.status) /\ Replaceable(data, shots)
    BY <1>1, <1>2, <1>6 DEF FromTheTop, Saved
  <2>2. next \in 0..Scoring /\ next <= Storyboard
    BY <1>1, NextStageIs, StageNumbers
  <2> HIDE DEF next
  <2>3. e \in Task /\ e.at = next /\ e.board = ex[i].board
    BY <1>1, <2>2 DEF Task
  <2> HIDE DEF e
  <2>4. Holds("stage", next, ex[i].board, data, shots)
    BY <2>1, <2>2, StageNumbers DEF Holds, InScenes
  <2>5. QED
    BY <1>1, <1>2, <2>1, <2>3, <2>4, BusyCommitKeepsScenes DEF Busy
<1>7. QED
  BY <1>4, <1>5, <1>6 DEF Dispatch


\* Scenes, settlement and exceptions move within the pipeline.
LEMMA ScenesKeepScenes ==
  ASSUME Inv, SeqInv, KeepInv, NEW i \in Instances, Spares(i),
         \/ NextScene(i) \/ TakePasses(i) \/ TakeRejected(i) \/ AcceptScene(i) \/ Fetched(i)
         \/ ReadAuthorized(i) \/ Settle(i) \/ Wake(i)
         \/ \E kind \in Errors \ {"none"} : Raise(i, kind)
  PROVE  KeepInv'
<1> DEFINE data == row.data
           at == ex[i].at
           board == ex[i].board
<1>1. /\ Runs(i) /\ ex[i].pc \in Busy /\ UNCHANGED <<row, req, can, up>>
      /\ AcceptScene(i) \/ gen' = gen
  BY DEF NextScene, TakePasses, TakeRejected, AcceptScene, Fetched, ReadAuthorized, Settle,
     Wake, Raise, MayRaise, Busy, jobVars, hostVars
<1>2. /\ TypeOK /\ ex[i] \in Task /\ data \in Data /\ Ordered(data) /\ gen[0] = {}
      /\ ex[i].mem.data = data /\ Saved(data, gen[data.board])
      /\ Holds(ex[i].pc, at, board, data, gen[data.board])
  BY <1>1, KeepFields DEF Steering, Held
<1>3. /\ ex[i].pc \in {"scene", "veo", "accept"} => at = Scenes
      /\ ex[i].pc = "fetch" => at \in {Scenes, Render}
      /\ ex[i].pc \in InScenes => AtStage(at, data)
  BY <1>2, KeepFields DEF Placed, Stood, Filming, InScenes
<1>4. ex[i].pc \in InScenes /\ at = Scenes =>
        board = data.board /\ board /= 0 /\ ScenesPending(data)
  <2> SUFFICES ASSUME ex[i].pc \in InScenes, at = Scenes
               PROVE  board = data.board /\ board /= 0 /\ ScenesPending(data)
    OBVIOUS
  <2>1. board = data.board /\ data.cur = Scenes
    BY <1>2 DEF Holds
  <2>2. Storyboard \in data.out /\ data.stage[Scenes] /= "blocked"
    BY <1>2, <1>3, StageNumbers DEF AtStage, Ordered
  <2>3. QED
    BY <1>2, <2>1, <2>2 DEF Saved, ScenesPending
<1>5. ASSUME NEW pc \in {"scene", "veo", "accept", "fetch", "done"},
             ex[i].pc \in InScenes, at = Scenes, ex'[i].pc = pc, ex'[i].mem = ex[i].mem,
             ex'[i].at = at, ex'[i].board = board, gen' = gen \/ gen'[0] = {}
      PROVE  KeepInv'
  <2>1. Holds(pc, Scenes, board, data, gen'[data.board])
    <3>1. board = data.board /\ data.cur = Scenes
      BY <1>2, <1>5 DEF Holds
    <3>2. QED
      BY <1>5, <3>1, StageNumbers DEF Holds, InScenes, Staged
  <2>2. pc \in Busy
    BY <1>5 DEF Busy
  <2>3. QED
    BY <1>1, <1>4, <1>5, <2>1, <2>2, BusyMoveKeepsScenes
<1>6. ASSUME NEW pc \in {"settle", "settled", "costs", "failing", "dispatch"}, gen' = gen,
             ex'[i].pc = pc, ex'[i].mem = ex[i].mem
      PROVE  KeepInv'
  <2>1. Holds(pc, ex'[i].at, ex'[i].board, data, gen'[data.board])
    BY <1>6, PlainHolds DEF Staged, InScenes
  <2>2. pc \in Busy
    BY <1>6 DEF Busy
  <2>3. QED
    BY <1>1, <1>6, <2>1, <2>2, BusyMoveKeepsScenes
<1>7. ASSUME NEW pc, pc /= "off", Step(i, Goto(ex[i], pc))
      PROVE  ex'[i].pc = pc /\ ex'[i].mem = ex[i].mem /\ ex'[i].at = at /\ ex'[i].board = board
  BY <1>2, <1>7, GotoDoes
<1>8. ASSUME NEW kind, Step(i, Raised(ex[i], kind)), gen' = gen PROVE KeepInv'
  <2>1. ex'[i].pc = "failing" /\ ex'[i].mem = ex[i].mem
    <3>1. ex'[i] = Raised(ex[i], kind)
      BY <1>2, <1>8, StepDoes
    <3>2. QED
      BY <1>2, <3>1 DEF Raised, Task
  <2>2. QED
    BY <1>6, <1>8, <2>1
<1>9. ASSUME Step(i, SceneGenerated(ex[i])), ex[i].pc \in InScenes, at = Scenes,
             gen' = gen \/ gen'[0] = {}
      PROVE  KeepInv'
  <2>1. ex'[i] = SceneGenerated(ex[i])
    BY <1>2, <1>9, StepDoes
  <2>2. /\ SceneGenerated(ex[i]).pc = "scene" /\ SceneGenerated(ex[i]).mem = ex[i].mem
        /\ SceneGenerated(ex[i]).at = at /\ SceneGenerated(ex[i]).board = board
    BY <1>2 DEF SceneGenerated, Task
  <2>3. QED
    BY <1>5, <1>9, <2>1, <2>2
<1>10. CASE NextScene(i)
  <2> DEFINE pc == IF ex[i].todo = {} THEN "done"
                   ELSE IF Scene(ex[i]) \in gen[board] THEN "fetch" ELSE "veo"
  <2>1. Step(i, Goto(ex[i], pc)) /\ ex[i].pc \in InScenes /\ at = Scenes /\ gen' = gen
    BY <1>3, <1>10 DEF NextScene, InScenes, jobVars
  <2>2. pc \in {"done", "fetch", "veo"}
    OBVIOUS
  <2> HIDE DEF pc
  <2>3. QED
    BY <1>5, <1>7, <2>1, <2>2
<1>11. CASE TakePasses(i)
  <2>1. Step(i, Goto(ex[i], "accept")) /\ ex[i].pc \in InScenes /\ at = Scenes /\ gen' = gen
    BY <1>3, <1>11 DEF TakePasses, InScenes
  <2>2. QED
    BY <1>5, <1>7, <2>1
<1>12. CASE TakeRejected(i)
  <2>1. ex[i].pc = "veo" /\ ex[i].pc \in InScenes /\ at = Scenes /\ gen' = gen
    BY <1>3, <1>12 DEF TakeRejected, InScenes
  <2>2. CASE ex[i].tries < NativeRetries
    <3>1. ex'[i] = [ex[i] EXCEPT !.tries = @ + 1]
      BY <1>2, <1>12, <2>2, StepDoes DEF TakeRejected
    <3>2. /\ ex'[i].pc = "veo" /\ ex'[i].mem = ex[i].mem /\ ex'[i].at = at
          /\ ex'[i].board = board
      BY <1>2, <2>1, <3>1 DEF Task
    <3>3. QED
      BY <1>5, <2>1, <3>2
  <2>3. QED
    BY <1>8, <1>12, <2>1, <2>2 DEF TakeRejected
<1>13. CASE AcceptScene(i)
  <2>1. /\ Step(i, SceneGenerated(ex[i])) /\ ex[i].pc \in InScenes /\ at = Scenes
        /\ gen' = [gen EXCEPT ![board] = @ \cup {Scene(ex[i])}]
    BY <1>3, <1>13 DEF AcceptScene, InScenes
  <2>2. gen'[0] = {}
    <3>1. board /= 0 /\ 0 \in Boards
      BY <1>4, <2>1 DEF Boards
    <3>2. QED
      BY <1>2, <2>1, <3>1 DEF TypeOK
  <2>3. QED
    BY <1>9, <2>1, <2>2
<1>14. CASE Fetched(i)
  <2>1. ex[i].pc = "fetch" /\ ex[i].pc \in InScenes /\ gen' = gen
    BY <1>14 DEF Fetched, InScenes, jobVars
  <2>2. CASE at = Render
    <3>1. Step(i, Goto(ex[i], "settle"))
      BY <1>14, <2>2 DEF Fetched
    <3>2. QED
      BY <1>6, <1>7, <2>1, <3>1
  <2>3. CASE at /= Render
    <3>1. at = Scenes /\ Step(i, SceneGenerated(ex[i]))
      BY <1>3, <1>14, <2>1, <2>3 DEF Fetched
    <3>2. QED
      BY <1>9, <2>1, <3>1
  <2>4. QED
    BY <2>2, <2>3
<1>15. CASE ReadAuthorized(i) \/ Settle(i)
  <2>1. \/ ex'[i] = [ex[i] EXCEPT !.pc = "settled", !.authorized = Outstanding(book)]
        \/ ex'[i] = [ex[i] EXCEPT !.pc = "costs", !.authorized = 0]
    BY <1>2, <1>15, StepDoes DEF ReadAuthorized, Settle
  <2>2. ex'[i].pc \in {"settled", "costs"} /\ ex'[i].mem = ex[i].mem /\ gen' = gen
    BY <1>2, <1>15, <2>1 DEF Task, ReadAuthorized, Settle, jobVars
  <2>3. QED
    BY <1>6, <2>2
<1>16. CASE Wake(i)
  BY <1>6, <1>7, <1>16 DEF Wake, jobVars
<1>17. CASE \E kind \in Errors \ {"none"} : Raise(i, kind)
  BY <1>8, <1>17 DEF Raise, jobVars
<1>18. QED
  BY <1>10, <1>11, <1>12, <1>13, <1>14, <1>15, <1>16, <1>17

\* The steps that end the work of an executor, and the commit of the costs.
LEMMA EndingsKeepScenes ==
  ASSUME Inv, SeqInv, KeepInv, NEW i \in Instances, Spares(i),
         PolicyBlocks(i) \/ Blocked(i) \/ Review(i) \/ SaveCosts(i) \/ Finish(i) \/ Published(i)
  PROVE  KeepInv'
<1> DEFINE data == ex[i].mem.data
           shots == gen[data.board]
<1>1. /\ TypeOK /\ ex[i] \in Task /\ Runs(i) /\ UNCHANGED <<gen, req, can, up>>
      /\ ex[i].pc \in {"done", "costs", "finish", "blocked", "review", "publish"}
  BY KeepFields DEF PolicyBlocks, Blocked, Review, SaveCosts, Finish, Published, hostVars
<1>2. /\ ex[i].pc \in Steering /\ ex[i].mem = row /\ data \in Data /\ Ordered(data) /\ gen[0] = {}
      /\ Saved(data, shots) /\ Matched(ex[i].pc, row.status)
      /\ Holds(ex[i].pc, ex[i].at, ex[i].board, data, shots)
  BY <1>1, KeepFields DEF Held, Steering, Busy
<1>3. EmitOr("tail") \in {"tail", "off"}
  BY DEF EmitOr, Emitted
<1>4. ASSUME NEW pc \in {"blocked", "publish", "tail", "off"},
             NEW status \in {"blocked", "ready", "awaiting_script_review"},
             NEW new, Commit(i, ex[i], pc, new, status), new.board = data.board, Saved(new, shots),
             pc \in {"blocked", "publish"} => Matched(pc, status),
             status = "awaiting_script_review" => shots = {}
      PROVE  KeepInv'
  <2>1. Matched(pc, status)
    BY <1>4 DEF Matched, Busy
  <2>2. Holds(pc, ex[i].at, ex[i].board, new, shots)
    BY <1>4, PlainHolds DEF Staged, InScenes
  <2>3. Held(pc, ex[i].at, ex[i].board, status, new, gen'[new.board])
    BY <1>1, <1>4, <2>1, <2>2 DEF Held
  <2>4. QED
    BY <1>1, <1>2, <1>4, <2>3, CommitKeepsScenes
<1>5. CASE PolicyBlocks(i)
  <2> DEFINE new == WithOutput(SetStage(data, Policy, "blocked"), Policy)
  <2>1. Commit(i, ex[i], "blocked", new, "blocked") /\ ex[i].pc = "done" /\ ex[i].at = Policy
    BY <1>5 DEF PolicyBlocks
  <2>2. AtStage(Policy, data) /\ Replaceable(data, shots)
    BY <1>2, <2>1, KeepFields, StageNumbers DEF Stood, Filming, Holds, Staged
  <2>3. /\ new.board = data.board /\ new.cur = Policy /\ new.out = data.out \cup {Policy}
        /\ \A t \in STAGES : new.stage[t] = IF t = Policy THEN "blocked" ELSE data.stage[t]
    BY <1>2, StageLeaves, StageNumbers
  <2> HIDE DEF new
  <2>4. Policy \in STAGES /\ Policy /= Storyboard /\ Policy < Render
    BY StageNumbers
  <2> HIDE DEF data, shots
  <2>5. Saved(new, shots)
    BY <1>2, <2>2, <2>3, <2>4, StageNumbers, StageSaved
  <2>6. Matched("blocked", "blocked")
    BY DEF Matched, Busy
  <2>7. QED
    BY <1>4, <2>1, <2>3, <2>5, <2>6
<1>6. CASE Blocked(i)
  <2>1. Commit(i, ex[i], EmitOr("tail"), data, "blocked")
    BY <1>6 DEF Blocked
  <2>2. QED
    BY <1>2, <1>3, <1>4, <2>1
<1>7. CASE Review(i)
  <2> DEFINE new == [data EXCEPT !.cur = ScriptReview]
  <2>1. Commit(i, ex[i], EmitOr("tail"), new, "awaiting_script_review") /\ ex[i].pc = "review"
    BY <1>7 DEF Review
  <2>2. shots = {}
    BY <1>2, <2>1 DEF Holds
  <2>3. new.board = data.board /\ new.out = data.out
    BY <1>2 DEF Data
  <2> HIDE DEF new
  <2>4. Saved(new, shots)
    BY <1>2, <2>2, <2>3 DEF Saved, Replaceable
  <2>5. QED
    BY <1>3, <1>4, <2>1, <2>2, <2>3, <2>4
<1>8. CASE SaveCosts(i)
  <2> DEFINE e == [ex[i] EXCEPT !.at = Render]
  <2>1. Commit(i, e, "stage", data, row.status) /\ ex[i].pc = "costs"
    BY <1>2, <1>8 DEF SaveCosts
  <2>2. e \in Task /\ e.at = Render
    BY <1>1, StageNumbers DEF Task
  <2>3. row.status \in {"queued", "running"}
    BY <1>2, <2>1 DEF Matched, Busy
  <2> HIDE DEF e
  <2>4. Holds("stage", Render, e.board, data, shots)
    BY StageNumbers DEF Holds, InScenes
  <2>5. QED
    BY <1>1, <1>2, <2>1, <2>2, <2>3, <2>4, BusyCommitKeepsScenes DEF Busy
<1>9. CASE Finish(i)
  <2> DEFINE new == [data EXCEPT !.cur = Completed]
             pc == IF AutoPublish THEN "publish" ELSE EmitOr("tail")
  <2>1. Commit(i, ex[i], pc, new, "ready") /\ ex[i].pc = "finish"
    BY <1>9 DEF Finish
  <2>2. new.board = data.board /\ new.out = data.out /\ new.stage = data.stage
    BY <1>2 DEF Data
  <2>3. data.stage[Render] = "completed"
    BY <1>2, <2>1 DEF Holds
  <2> HIDE DEF new
  <2>4. Saved(new, shots)
    BY <1>2, <2>2, <2>3 DEF Saved, Replaceable
  <2>5. pc \in {"publish", "tail", "off"}
    BY <1>3
  <2>6. Matched("publish", "ready")
    BY DEF Matched, Busy
  <2> HIDE DEF pc
  <2>7. QED
    BY <1>4, <2>1, <2>2, <2>4, <2>5, <2>6
<1>10. CASE Published(i)
  <2>1. Commit(i, ex[i], EmitOr("tail"), data, row.status) /\ ex[i].pc = "publish"
    BY <1>2, <1>10 DEF Published
  <2>2. row.status = "ready"
    BY <1>2, <2>1 DEF Matched
  <2>3. QED
    BY <1>2, <1>3, <1>4, <2>1, <2>2
<1>11. QED
  BY <1>5, <1>6, <1>7, <1>8, <1>9, <1>10

\* A failure leaves a job that its retry resumes where its scenes are kept.
LEMMA FailureKeepsScenes ==
  ASSUME Inv, SeqInv, KeepInv, NEW i \in Instances, Spares(i),
         FailStage(i) \/ ScheduleRetry(i) \/ FailJob(i)
  PROVE  KeepInv'
<1> DEFINE data == ex[i].mem.data
           shots == gen[data.board]
<1>1. /\ TypeOK /\ ex[i] \in Task /\ Runs(i) /\ UNCHANGED <<gen, req, can, up>>
      /\ ex[i].pc \in {"failing", "failed"}
  BY KeepFields DEF FailStage, ScheduleRetry, FailJob, jobVars, hostVars
<1>2. /\ ex[i].pc \in Steering /\ ex[i].mem = row /\ data \in Data /\ Ordered(data) /\ gen[0] = {}
      /\ Saved(data, shots)
      /\ Held(ex[i].pc, ex[i].at, ex[i].board, row.status, row.data, gen[row.data.board])
  BY <1>1, KeepFields DEF Held, Steering, Busy
<1>3. ASSUME NEW pc \in {"failed", "refund"}, NEW new, Commit(i, ex[i], pc, new, "failed"),
             new.board = data.board, Saved(new, shots)
      PROVE  KeepInv'
  <2>1. Matched(pc, "failed")
    BY <1>3 DEF Matched, Busy
  <2>2. Holds(pc, ex[i].at, ex[i].board, new, shots)
    BY <1>3, PlainHolds DEF Staged, InScenes
  <2>3. Held(pc, ex[i].at, ex[i].board, "failed", new, gen'[new.board])
    BY <1>1, <1>3, <2>1, <2>2 DEF Held
  <2>4. QED
    BY <1>1, <1>2, <1>3, <2>3, CommitKeepsScenes
<1>4. CASE FailStage(i)
  <2> DEFINE new == SetStage(data, data.cur, "failed")
  <2>1. Commit(i, ex[i], "failed", new, "failed")
    BY <1>4 DEF FailStage
  <2>2. Saved(new, shots)
    BY <1>2, FailedSaved
  <2>3. new.board = data.board
    BY <1>2 DEF SetStage, Data
  <2> HIDE DEF new
  <2>4. QED
    BY <1>3, <2>1, <2>2, <2>3
<1>5. CASE ScheduleRetry(i)
  <2> DEFINE new == [data EXCEPT !.retries[data.cur] = @ + 1, !.error = "transient"]
             e == [ex[i] EXCEPT !.fault = "none"]
             pc == EmitOr("retryTail")
  <2>1. Commit(i, e, pc, new, "queued")
    BY <1>5 DEF ScheduleRetry
  <2>2. e \in Task
    BY <1>1 DEF Task, Errors
  <2>3. new.stage = data.stage /\ new.out = data.out /\ new.board = data.board /\ new.cur = data.cur
    BY <1>2 DEF Data
  <2>4. pc \in {"retryTail", "sleep"}
    BY DEF EmitOr, Emitted
  <2> HIDE DEF new, e, pc
  <2>5. Saved(new, shots)
    BY <1>2, <2>3, SameSaved
  <2>6. Holds(pc, e.at, e.board, new, shots)
    BY <2>4, PlainHolds DEF Staged, InScenes
  <2>7. pc \in Busy
    BY <2>4 DEF Busy
  <2>8. QED
    BY <1>1, <1>2, <2>1, <2>2, <2>3, <2>5, <2>6, <2>7, BusyCommitKeepsScenes
<1>6. CASE FailJob(i)
  <2> DEFINE new == [data EXCEPT !.error = ex[i].fault]
  <2>1. Commit(i, ex[i], "refund", new, "failed")
    BY <1>6 DEF FailJob
  <2>2. new.stage = data.stage /\ new.out = data.out /\ new.board = data.board /\ new.cur = data.cur
    BY <1>2 DEF Data
  <2> HIDE DEF new
  <2>3. Saved(new, shots)
    BY <1>2, <2>2, SameSaved
  <2>4. QED
    BY <1>3, <2>1, <2>2, <2>3
<1>7. QED
  BY <1>4, <1>5, <1>6

\* The refund of a failed job leaves the row and the scenes as they are.
LEMMA RefundKeepsScenes ==
  ASSUME Inv, SeqInv, KeepInv, NEW i \in Instances, Spares(i), RefundFailure(i)
  PROVE  KeepInv'
<1>1. /\ TypeOK /\ Runs(i) /\ UNCHANGED <<row, gen, req, can, up>> /\ gen[0] = {}
      /\ ex[i].pc = "refund" /\ Step(i, Goto(ex[i], EmitOr("failTail")))
      /\ Held(ex[i].pc, ex[i].at, ex[i].board, row.status, row.data, gen[row.data.board])
  BY KeepFields DEF RefundFailure, jobVars, hostVars
<1>2. EmitOr("failTail") \in {"failTail", "off"}
  BY DEF EmitOr, Emitted
<1>3. ex'[i].pc \in {"failTail", "off"}
  BY <1>1, <1>2, GotoDoes DEF NoTask
<1>4. ex'[i].pc \notin Steering \cup {"load", "interrupt"}
  BY <1>3 DEF Steering, Busy
<1>5. Held(ex'[i].pc, ex'[i].at, ex'[i].board, row'.status, row'.data, gen'[row'.data.board])
  BY <1>1, <1>4, RestHeld
<1>6. QED
  BY <1>1, <1>4, <1>5, ExecutorKeepsScenes DEF Runs

\* A step of a handler while the executor owns nothing.
LEMMA HandlerKeepsScenes ==
  ASSUME KeepInv, NEW i \in Instances, Spares(i), up[i] /= "down", UNCHANGED <<gen, can, up>>,
         ex'[i].pc \notin Steering \cup {"load", "interrupt"},
         Saved(row'.data, gen[row'.data.board]),
         row'.status = "awaiting_script_review" => gen[row'.data.board] = {},
         req'[i].pc /= "idle" =>
           /\ req'[i].mem = row' /\ req'[i].op /= "retryStage"
           /\ req'[i].op = "create" => row'.status = "queued"
  PROVE  KeepInv'
<1>1. can'.pc = "idle" /\ gen'[0] = {} /\ up'[i] /= "down"
  BY DEF KeepInv
<1>2. Held(ex'[i].pc, ex'[i].at, ex'[i].board, row'.status, row'.data, gen'[row'.data.board])
  BY RestIs
<1>3. Keeps(i)'
  BY <1>1, <1>2 DEF Keeps, Alone
<1>4. QED
  BY <1>1, <1>3, OthersKept

\* Data of a job that has no storyboard.
LEMMA NewSaved ==
  ASSUME NEW review, gen[0] = {}
  PROVE  gen[NewData(review).board] = {} /\ Saved(NewData(review), gen[NewData(review).board])
<1>1. NewData(review).board = 0 /\ NewData(review).out = {}
  BY DEF NewData
<1>2. QED
  BY <1>1 DEF Saved, Replaceable

\* Handlers begin on a job that rests.
LEMMA BeginKeepsScenes ==
  ASSUME ScenesUndisturbed, Inv, SeqInv, KeepInv, NEW i \in Instances, Spares(i), Request(i)
  PROVE  KeepInv'
<1>1. /\ TypeOK /\ up[i] = "up" /\ ex[i].pc \in Awaits \cup {"off"}
      /\ Held(ex[i].pc, ex[i].at, ex[i].board, row.status, row.data, gen[row.data.board])
      /\ gen[0] = {} /\ UNCHANGED <<gen, ex, can, up>>
  BY KeepFields DEF Request, BeginRequest, BeginCreate, LoopIsFree, jobVars
<1>2. ASSUME row.status \in {"none", "awaiting_script_review", "failed", "blocked", "cancelled"}
      PROVE  ex[i].pc \notin Steering \cup {"load", "interrupt"}
  BY <1>1, <1>2 DEF Held, Matched, Steering, Busy, Awaits, OuterAwaits, InnerAwaits
<1>3. ASSUME NEW op \in Offered, NEW s \in STAGES, BeginRequest(i, op, s) PROVE KeepInv'
  <2>1. row' = row /\ Permitted(op, s, row) /\ req'[i].mem = row /\ req'[i].op = op
    BY <1>1, <1>3 DEF BeginRequest, jobVars, TypeOK
  <2>2. /\ row.status \in {"awaiting_script_review", "failed", "blocked", "cancelled"}
        /\ op /= "create" /\ op /= "retryStage"
    <3>1. /\ row.status \in {"awaiting_script_review", "failed", "blocked", "cancelled"}
          /\ op /= "create"
      BY <2>1 DEF Permitted
    <3>2. op /= "retryStage"
      BY DEF ScenesUndisturbed
    <3>3. QED
      BY <3>1, <3>2
  <2>3. QED
    BY <1>1, <1>2, <2>1, <2>2, HandlerKeepsScenes DEF Held
<1>4. ASSUME NEW review \in BOOLEAN, BeginCreate(i, review) PROVE KeepInv'
  <2>1. /\ row.status = "none" /\ row' = [status |-> "queued", data |-> NewData(review)]
        /\ req'[i].mem = row' /\ req'[i].op = "create"
    BY <1>1, <1>4 DEF BeginCreate, TypeOK
  <2>2. row'.status = "queued" /\ Saved(row'.data, gen[row'.data.board])
    BY <1>1, <2>1, NewSaved
  <2>3. ex[i].pc \notin Steering \cup {"load", "interrupt"}
    BY <1>2, <2>1
  <2>4. QED
    BY <1>1, <2>1, <2>2, <2>3, HandlerKeepsScenes
<1>5. QED
  BY <1>3, <1>4 DEF Request

\* Handlers charge the reserve, give up or queue the job.
LEMMA ServeKeepsScenes ==
  ASSUME Inv, SeqInv, KeepInv, NEW i \in Instances, Spares(i), Serve(i)
  PROVE  KeepInv'
<1>1. /\ TypeOK /\ row \in Job /\ req[i] \in Handler /\ Keeps(i) /\ Sequenced(i) /\ gen[0] = {}
      /\ Saved(row.data, gen[row.data.board])
      /\ row.status = "awaiting_script_review" => gen[row.data.board] = {}
      /\ req[i].pc \in {"charge", "save"} /\ UNCHANGED <<gen, can, up>>
  BY KeepFields DEF Held, Serve, ChargeReserve, ChargeRefused, SaveRequest, jobVars, hostVars
<1>2. /\ req[i].mem = row /\ ex[i].pc \notin Steering \cup {"load", "interrupt"}
      /\ req[i].op = "create" => row.status = "queued"
      /\ req[i].op /= "retryStage" /\ up[i] /= "down"
  BY <1>1 DEF Keeps, Alone
<1>3. CASE ChargeReserve(i)
  <2>1. UNCHANGED <<row, ex>> /\ req'[i].mem = req[i].mem /\ req'[i].op = req[i].op
    BY <1>1, <1>3 DEF ChargeReserve, jobVars, TypeOK, Handler
  <2>2. QED
    BY <1>1, <1>2, <2>1, HandlerKeepsScenes
<1>4. CASE ChargeRefused(i)
  <2>1. (row' = NoJob \/ row' = row) /\ req'[i].pc = "idle" /\ ex' = ex
    BY <1>1, <1>4 DEF ChargeRefused, TypeOK, NoRequest
  <2>2. Saved(NoJob.data, gen[NoJob.data.board]) /\ NoJob.status = "none"
    BY <1>1, NewSaved DEF NoJob
  <2>3. QED
    BY <1>1, <1>2, <2>1, <2>2, HandlerKeepsScenes
<1>5. CASE SaveRequest(i)
  <2> DEFINE new == Prepared(req[i].op, req[i].stage, row.data)
  <2>1. /\ req'[i].pc = "idle" /\ row'.data = new /\ row'.status = "queued"
        /\ ex'[i] = Scheduled(ex[i])
    BY <1>1, <1>2, <1>5 DEF SaveRequest, Stored, TypeOK, NoRequest
  <2>2. req[i].op \in Operations \ {"retryStage"} /\ req[i].stage \in STAGES
    BY <1>1, <1>2 DEF Handler
  <2>3. req[i].op = "create" \/ Permitted(req[i].op, req[i].stage, row)
    BY <1>1, <1>2 DEF Sequenced
  <2>4. Saved(new, gen[row.data.board]) /\ new.board = row.data.board
    BY <1>1, <2>2, <2>3, PreparedSaved
  <2> HIDE DEF new
  <2>5. ex'[i].pc \notin Steering \cup {"load", "interrupt"}
    BY <1>2, <2>1 DEF Scheduled, NoTask, Steering, Busy
  <2>6. QED
    BY <1>1, <1>2, <2>1, <2>4, <2>5, HandlerKeepsScenes
<1>6. QED
  BY <1>3, <1>4, <1>5 DEF Serve

\* An instance that stops, dies or comes back.
LEMMA HostKeepsScenes ==
  ASSUME Inv, SeqInv, KeepInv, NEW i \in Instances, Spares(i),
         Crash(i) \/ Shutdown(i) \/ Exit(i) \/ Boot(i) \/ TimerFires(i)
  PROVE  KeepInv'
<1>1. /\ TypeOK /\ ex[i] \in Task /\ row.data \in Data /\ Keeps(i) /\ gen[0] = {}
      /\ Held(ex[i].pc, ex[i].at, ex[i].board, row.status, row.data, gen[row.data.board])
      /\ gen' = gen
  BY KeepFields DEF Crash, Shutdown, Exit, Boot, TimerFires, jobVars
<1>2. {"off", "claim"} \cap (Steering \cup {"load", "interrupt"}) = {}
  BY DEF Steering, Busy
<1>3. CASE Crash(i) \/ Exit(i)
  <2>1. Stopped(i) /\ row' = row
    BY <1>3 DEF Crash, Exit, jobVars
  <2>2. ex'[i].pc = "off" /\ req'[i].pc = "idle"
    BY <1>1, <2>1 DEF Stopped, TypeOK, NoTask, NoRequest
  <2>3. can'.pc = "idle"
    BY <2>1 DEF Stopped, NoCancel, KeepInv
  <2>4. Held(ex'[i].pc, ex'[i].at, ex'[i].board, row'.status, row'.data, gen'[row'.data.board])
    BY <1>1, <1>2, <2>1, <2>2, RestHeld
  <2>5. Keeps(i)'
    BY <1>2, <2>2, <2>4 DEF Keeps, Alone
  <2>6. QED
    BY <1>1, <2>3, <2>5, OthersKept
<1>4. CASE Shutdown(i)
  <2>1. /\ UNCHANGED <<row, req, can>> /\ up'[i] = "stopping"
        /\ ex'[i] = [ex[i] EXCEPT !.stop = (ex[i].pc /= "off")]
    BY <1>1, <1>4 DEF Shutdown, jobVars, TypeOK
  <2>2. /\ ex'[i].pc = ex[i].pc /\ ex'[i].mem = ex[i].mem /\ ex'[i].at = ex[i].at
        /\ ex'[i].board = ex[i].board
    BY <1>1, <2>1 DEF Task
  <2>3. Keeps(i)'
    BY <1>1, <2>1, <2>2 DEF Keeps, Alone
  <2>4. QED
    BY <1>1, <2>1, <2>3, OthersKept DEF KeepInv
<1>5. CASE Boot(i)
  <2>1. /\ up[i] = "down" /\ UNCHANGED <<ex, req, can>> /\ up'[i] = "up"
        /\ ex[i].pc = "off" /\ req[i].pc = "idle"
    BY <1>1, <1>5 DEF Boot, TypeOK, Keeps
  <2>2. ASSUME Saved(row'.data, gen[row'.data.board]),
               row'.status = "awaiting_script_review" => gen[row'.data.board] = {}
        PROVE  KeepInv'
    <3>1. Held("off", ex[i].at, ex[i].board, row'.status, row'.data, gen'[row'.data.board])
      BY <1>1, <1>2, <2>2, RestIs
    <3>2. Keeps(i)'
      BY <1>2, <2>1, <3>1 DEF Keeps, Alone
    <3>3. QED
      BY <1>1, <2>1, <3>2, OthersKept DEF KeepInv
  <2>3. CASE Repairs(row)
    <3> DEFINE new == [row.data EXCEPT !.retries[row.data.cur] = 0, !.error = "none",
                                       !.repaired = TRUE]
    <3>1. row' = [status |-> "queued", data |-> new]
      BY <1>5, <2>3 DEF Boot
    <3>2. /\ new.stage = row.data.stage /\ new.out = row.data.out
          /\ new.board = row.data.board /\ new.cur = row.data.cur
      BY <1>1 DEF Data
    <3> HIDE DEF new
    <3>3. row'.status = "queued" /\ row'.data = new
      BY <3>1
    <3>4. Saved(new, gen[new.board])
      BY <1>1, <3>2, SameSaved DEF Held
    <3>5. QED
      BY <2>2, <3>3, <3>4
  <2>4. CASE ~Repairs(row)
    BY <1>1, <1>5, <2>2, <2>4 DEF Boot, Held
  <2>5. QED
    BY <2>3, <2>4
<1>6. CASE TimerFires(i)
  <2>1. /\ up[i] = "up" /\ req[i].pc = "idle" /\ UNCHANGED <<row, req, can, up>>
        /\ ex'[i] = Scheduled(ex[i])
    BY <1>1, <1>6 DEF TimerFires, LoopIsFree, jobVars, TypeOK
  <2>2. CASE ex[i].pc = "off"
    <3>1. ex'[i].pc = "claim"
      BY <2>1, <2>2 DEF Scheduled, NoTask
    <3>2. Held("claim", ex'[i].at, ex'[i].board, row'.status, row'.data, gen'[row'.data.board])
      BY <1>1, <1>2, <2>1, RestHeld
    <3>3. QED
      BY <1>1, <1>2, <2>1, <3>1, <3>2, ExecutorKeepsScenes
  <2>3. CASE ex[i].pc /= "off"
    <3>1. ex'[i] = ex[i]
      BY <2>1, <2>3 DEF Scheduled
    <3>2. Keeps(i)'
      BY <1>1, <2>1, <3>1 DEF Keeps, Alone
    <3>3. QED
      BY <1>1, <2>1, <3>2, OthersKept DEF KeepInv
  <2>4. QED
    BY <2>2, <2>3
<1>7. QED
  BY <1>3, <1>4, <1>5, <1>6

\* Every step of a job that nobody cancels keeps the invariant.
LEMMA NextKeepsScenes ==
  ASSUME ScenesUndisturbed, ApartInv, [Apart]_vars, Inv, SeqInv, KeepInv, [Next]_vars
  PROVE  KeepInv'
<1>1. ASSUME NEW i \in Instances, Writes(i) PROVE Spares(i)
  BY <1>1, StepsSpare DEF Inv
<1>2. ASSUME NEW i \in Instances, Executor(i) \/ Trouble(i) PROVE KeepInv'
  BY <1>1, <1>2, RunKeepsScenes, StagesKeepScenes, DispatchKeepsScenes, ScenesKeepScenes,
     EndingsKeepScenes, FailureKeepsScenes, RefundKeepsScenes
  DEF Executor, Trouble, Writes
<1>3. ASSUME NEW i \in Instances, Request(i) \/ Serve(i) PROVE KeepInv'
  BY <1>1, <1>3, BeginKeepsScenes, ServeKeepsScenes DEF Writes
<1>4. ASSUME NEW i \in Instances, Crash(i) \/ Shutdown(i) \/ Host(i) PROVE KeepInv'
  BY <1>1, <1>4, HostKeepsScenes DEF Host, Writes
<1>5. ASSUME NEW i \in Instances PROVE ~BeginCancel(i)
  <2>1. used["cancels"] \in Nat
    BY DEF Inv, TypeOK, Bounds
  <2>2. QED
    BY <2>1 DEF BeginCancel, ScenesUndisturbed
<1>6. ~ServeCancel
  BY DEF ServeCancel, SaveCancel, RefundCancelled, KeepInv
<1>7. CASE SpendElsewhere
  BY <1>7 DEF SpendElsewhere, jobVars, KeepInv, Keeps, Alone
<1>8. CASE UNCHANGED vars
  BY <1>8 DEF vars, KeepInv, Keeps, Alone
<1>9. QED
  BY <1>2, <1>3, <1>4, <1>5, <1>6, <1>7, <1>8 DEF Next

\* At the start there is no storyboard.
LEMMA InitKeep == Init => KeepInv
<1> SUFFICES ASSUME Init PROVE KeepInv
  OBVIOUS
<1>1. /\ can.pc = "idle" /\ row = NoJob /\ gen[0] = {}
      /\ \A i \in Instances : ex[i] = NoTask /\ req[i].pc = "idle" /\ up[i] = "up"
  BY DEF Init, NoCancel, NoRequest, Boards
<1>2. NoTask.pc = "off" /\ "off" \notin Steering \cup {"load", "interrupt"}
  BY DEF NoTask, Steering, Busy
<1>3. gen[row.data.board] = {} /\ Saved(row.data, gen[row.data.board])
  BY <1>1, NewSaved DEF NoJob
<1>4. Held("off", NoTask.at, NoTask.board, row.status, row.data, gen[row.data.board])
  BY <1>2, <1>3, RestIs
<1>5. QED
  BY <1>1, <1>2, <1>4 DEF KeepInv, Keeps, Alone

\* Generated scenes are thrown away only after the render they were paid for,
\* or after their author asked for a new script, through failures, retries,
\* crashes and stops: where nobody cancels and nobody retries a single stage, on
\* one instance or on several whose steps are apart.
THEOREM ScenesAreKeptHolds ==
  ASSUME ScenesUndisturbed PROVE Spec /\ [][Apart]_vars => ScenesAreKept
<1> DEFINE Spared ==
             \A i \in Instances :
               CompleteStoryboard(i) /\ gen[ex[i].mem.data.board] /= {}
                 => ex[i].mem.data.stage[Render] = "completed"
<1>1. Inv /\ SeqInv /\ KeepInv => Spared
  <2> SUFFICES ASSUME Inv, SeqInv, KeepInv, NEW i \in Instances, CompleteStoryboard(i),
                      gen[ex[i].mem.data.board] /= {}
               PROVE  ex[i].mem.data.stage[Render] = "completed"
    OBVIOUS
  <2>1. ex[i].pc = "done" /\ ex[i].at = Storyboard /\ ex[i].mem = row
    BY KeepFields DEF CompleteStoryboard, Steering, Busy
  <2>2. Replaceable(row.data, gen[row.data.board])
    BY <2>1, KeepFields, StageNumbers DEF Held, Holds, Staged
  <2>3. QED
    BY <2>1, <2>2 DEF Replaceable
<1>2. Inv /\ SeqInv /\ KeepInv /\ ApartInv /\ [Next]_vars /\ [Apart]_vars => KeepInv'
  BY NextKeepsScenes
<1>3. Inv /\ SeqInv /\ ApartInv /\ [Next]_vars /\ [Apart]_vars => SeqInv'
  BY NextKeepsSeq
<1>4. QED
  BY <1>1, <1>2, <1>3, InitSeq, InitKeep, InvHolds, ApartHolds, PTL DEF Spec, ScenesAreKept
=============================================================================
