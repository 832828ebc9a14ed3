------------------------- MODULE SceneRegeneration -------------------------
(***************************************************************************)
(* Replacing scenes of a finished production (regenerate_scene, routes.py; *)
(* run_scene_regeneration, workflow.py) and assembling it again from       *)
(* existing takes (reassemble_video; reassembly.py).                       *)
(*                                                                         *)
(* One API instance. A request claims the job with an UPDATE that matches  *)
(* its status and updated_at as they were read, pays, and schedules a task *)
(* that buys takes (native speech QA may reject some), renders a version   *)
(* and releases the job. A task works on copies of the job (mem) and of the *)
(* scenes it replaces (copy), and writes their data back whole. Approvals  *)
(* run on pool threads, and each reads a scene, then writes it whole. The  *)
(* instance stops in order and starts again; it does not die between two   *)
(* commits.                                                                *)
(***************************************************************************)
EXTENDS CreditBook, FiniteSets, FiniteSetsExt

CONSTANTS
  Regens,        \* scene_regeneration rows
  Assemblies,    \* video_reassembly rows
  NoOp,          \* None in active_regeneration_id and active_reassembly_id
  NumScenes,     \* scenes of the storyboard
  TakeCents,     \* the price of one take
  NativeRetries, \* takes that native speech QA may add to a scene
  Deposit,       \* cents in the wallet
  Publishing,    \* automatic_publish of the productions: approved when ready
  EventSinks,    \* emitting an event waits for ClickHouse or Pub/Sub
  MaxFaults,     \* bound: exceptions of providers, storage and renderer
  MaxStops,      \* MaxStops[b] bounds orderly shutdowns when automatic_publish = b
  MaxTurns       \* MaxTurns[b] bounds them and approvals by a person, together

ASSUME SceneRegenerationAssumption ==
  /\ Regens \cap Assemblies = {}
  /\ NoOp \notin Regens \cup Assemblies
  /\ NumScenes \in Nat \ {0}
  /\ TakeCents \in Nat \ {0}
  /\ NativeRetries \in Nat
  /\ Deposit \in Nat
  /\ Publishing \subseteq BOOLEAN
  /\ EventSinks \in BOOLEAN

VARIABLES
  job,    \* the row of the production
  scene,  \* scene[s]: status, the operation its accepted take is from, whether
          \* it followed another scene of it (cascade_regeneration_id), lock
  latest, \* the takes of the version that was rendered last
  op,     \* op[o]: the row of an operation
  takes,  \* takes[r]: scene_attempt rows of a regeneration
  book,   \* book[r]: its ledger
  wallet, \* the balance of the organisation
  ex,     \* ex[o]: the task of the operation
  req,    \* the request handler on the event loop
  appr,   \* the approval that runs: the scene it is at, as it has read it
  copy,   \* copy[o]: the scenes that the session of o's request or task holds
  accepted, \* history: the operation whose take of the scene was accepted last
  lost,   \* history: scenes whose accepted take an approval has overwritten
  host,   \* "up", "stopping" or "down"
  timer,  \* operations that resume_pending will schedule
  used    \* used[b]: how much of the bound b is spent

vars == <<job, scene, latest, op, takes, book, wallet, ex, req, appr, copy, accepted, lost,
          host, timer, used>>

Ops == Regens \cup Assemblies
Shots == 1..NumScenes
Sources == Regens \cup {NoOp}

Scene == [status : {"generated", "regenerating", "regeneration_failed"},
          take : Sources, follows : BOOLEAN, locked : BOOLEAN]

\* Scenes that a session holds: those that it has loaded and refers to.
Held == UNION {[S -> Scene] : S \in SUBSET Shots}

Job == [status : {"ready", "failed", "queued", "running"},
        regen : Regens \cup {NoOp}, asm : Assemblies \cup {NoOp}, shots : [Shots -> Sources],
        publish : BOOLEAN]

Awaits == {"start", "veo", "voice", "fetch", "render", "tail"}

Task == [pc : Awaits \cup {"off", "charge", "accept", "checkpoint", "settle", "costs",
                           "finish", "release", "complete", "failing", "failJob", "refund"},
         mem : Job, at : Shots, todo : SUBSET Shots, tries : 0..NativeRetries,
         refs : SUBSET Regens, stop : BOOLEAN]

Original == [s \in Shots |-> NoOp]

NoJob == [status |-> "ready", regen |-> NoOp, asm |-> NoOp, shots |-> Original,
          publish |-> FALSE]

NoTask == [pc |-> "off", mem |-> NoJob, at |-> 1, todo |-> {}, tries |-> 0,
           refs |-> {}, stop |-> FALSE]

NoRequest == [pc |-> "idle", o |-> NoOp, mem |-> NoJob]

NewScene == [status |-> "generated", take |-> NoOp, follows |-> FALSE, locked |-> FALSE]

NoApproval == [pc |-> "idle", at |-> 1, row |-> NewScene]

NothingHeld == [s \in {} |-> NewScene]

Init ==
  /\ job \in {[NoJob EXCEPT !.publish = b] : b \in Publishing}
  /\ scene = [s \in Shots |-> NewScene]
  /\ latest = Original
  /\ op = [o \in Ops |-> [status |-> "none", scenes |-> {}]]
  /\ takes = [r \in Regens |-> 0]
  /\ book = [r \in Regens |-> NoCharges]
  /\ wallet = Deposit
  /\ ex = [o \in Ops |-> NoTask]
  /\ req = NoRequest
  /\ appr = NoApproval
  /\ copy = [o \in Ops |-> NothingHeld]
  /\ accepted = Original
  /\ lost = {}
  /\ host = "up"
  /\ timer = {}
  /\ used = [b \in {"faults", "stops", "approvals"} |-> 0]

(***************************************************************************)
(* Scheduling.                                                             *)
(***************************************************************************)
Spend(bound) == used' = [used EXCEPT ![bound] = @ + 1]

Step(o, e) == ex' = [ex EXCEPT ![o] = e]

Goto(o, pc) == Step(o, IF pc = "off" THEN NoTask ELSE [ex[o] EXCEPT !.pc = pc])

\* The loop serves one coroutine until it waits.
LoopIsFree(o) == \A p \in Ops \ {o} : ex[p].pc \in Awaits \cup {"off"}

Runs(o) ==
  /\ host /= "down" /\ req.pc = "idle" /\ LoopIsFree(o)
  /\ ex[o].pc \in Awaits => ~ex[o].stop

\* schedule_scene_regeneration and schedule_reassembly
Scheduled(e) == IF e.pc = "off" THEN [NoTask EXCEPT !.pc = "start"] ELSE e

\* repo.update(job): data from the copy, status where it differs from the copy.
Stored(mem, data) == [data EXCEPT !.status = IF @ /= mem.status THEN @ ELSE job.status]

Commit(o, pc, data) ==
  /\ job' = Stored(ex[o].mem, data)
  /\ Step(o, IF pc = "off" THEN NoTask ELSE [ex[o] EXCEPT !.pc = pc, !.mem = job'])

\* A session that holds a scene sees its copy, whatever the row says by now.
Seen(o, s) == IF s \in DOMAIN copy[o] THEN copy[o][s] ELSE scene[s]

\* repo.update(scene) of the scenes in new: the data column whole, the status
\* where it differs from what the session saw.
Writes(o, new) ==
  scene' = [s \in Shots |->
    IF s \in DOMAIN new
      THEN [new[s] EXCEPT !.status = IF @ /= Seen(o, s).status THEN @ ELSE scene[s].status]
      ELSE scene[s]]

\* The session goes on with what it holds, refreshed where it wrote.
Refreshes(o, new) ==
  copy' = [copy EXCEPT ![o] =
             [s \in DOMAIN copy[o] |-> IF s \in DOMAIN new THEN scene'[s] ELSE copy[o][s]]]

\* It goes on with all scenes: those that it had not held come from their rows.
HoldsAll(o, new) ==
  copy' = [copy EXCEPT ![o] = [s \in Shots |-> IF s \in DOMAIN copy[o] \ DOMAIN new
                                                 THEN copy[o][s] ELSE scene'[s]]]

\* The session has ended, or uses the scenes no more.
Forgets(o) == copy' = [copy EXCEPT ![o] = NothingHeld]

Holds(o, scenes) == copy' = [copy EXCEPT ![o] = [s \in scenes |-> scene'[s]]]

(***************************************************************************)
(* regenerate_scene and reassemble_video: no await between their commits.  *)
(***************************************************************************)
\* Mistake: only the other operation's claim is looked at.
ClaimableReady(o) == job.status \in {"ready", "failed", "running"}

Claimable(o) ==
  /\ job.status \in {"ready", "failed"}
  /\ o \in Assemblies => job.regen = NoOp /\ job.asm = NoOp

BeginRequest(o) ==
  /\ host = "up" /\ req.pc = "idle" /\ LoopIsFree(o)
  /\ op[o].status = "none"
  /\ Claimable(o)

\* A scene alone, or a continuation track from that scene on.
Cascades == {{s} : s \in Shots} \cup {s..NumScenes : s \in Shots}

\* The row is added by the commit that claims the job.
BeginRegenerate(o) ==
  /\ o \in Regens
  /\ BeginRequest(o)
  /\ UNCHANGED scene
  /\ \E scenes \in Cascades :
       /\ op' = [op EXCEPT ![o] = [status |-> "queued", scenes |-> scenes]]
       /\ Holds(o, scenes)
  /\ job' = [job EXCEPT !.status = "queued", !.regen = o]
  /\ req' = [pc |-> "charge", o |-> o, mem |-> job]
  /\ UNCHANGED <<latest, takes, book, wallet, ex, appr, accepted, lost, host, timer, used>>

Price(o) == Cardinality(op[o].scenes) * TakeCents

Pay(r, cents) ==
  /\ wallet >= cents
  /\ wallet' = wallet - cents
  /\ book' = [book EXCEPT ![r] = Charged(@, cents)]

ChargeRegeneration ==
  /\ req.pc = "charge"
  /\ Pay(req.o, Price(req.o))
  /\ req' = [req EXCEPT !.pc = "queue"]
  /\ UNCHANGED <<job, scene, latest, op, takes, ex, appr, copy, accepted, lost, host, timer, used>>

\* 402: the claim is taken back.
ChargeRefused ==
  /\ req.pc = "charge"
  /\ wallet < Price(req.o)
  /\ op' = [op EXCEPT ![req.o] = [status |-> "none", scenes |-> {}]]
  /\ job' = [req.mem EXCEPT !.regen = NoOp]
  /\ req' = NoRequest
  /\ Forgets(req.o)
  /\ UNCHANGED <<scene, latest, takes, book, wallet, ex, appr, accepted, lost, host, timer, used>>

\* The client has confirmed unlock_approved where a scene is locked.
QueueRegeneration ==
  /\ req.pc = "queue"
  /\ Writes(req.o, [s \in op[req.o].scenes |->
                      [Seen(req.o, s) EXCEPT !.status = "regenerating", !.locked = FALSE]])
  /\ job' = [req.mem EXCEPT !.status = "queued", !.regen = req.o]
  /\ ex' = [ex EXCEPT ![req.o] = Scheduled(@)]
  /\ req' = NoRequest
  /\ Forgets(req.o)
  /\ UNCHANGED <<latest, op, takes, book, wallet, appr, accepted, lost, host, timer, used>>

\* Selecting takes costs nothing and is one commit.
Reassemble(o) ==
  /\ o \in Assemblies
  /\ BeginRequest(o)
  /\ op' = [op EXCEPT ![o] = [status |-> "queued", scenes |-> Shots]]
  /\ job' = [job EXCEPT !.status = "queued", !.asm = o]
  /\ Step(o, Scheduled(ex[o]))
  /\ UNCHANGED <<scene, latest, takes, book, wallet, req, appr, copy,
                 accepted, lost, host, timer, used>>

(***************************************************************************)
(* run_scene_regeneration                                                  *)
(***************************************************************************)
Failing(o) == Goto(o, "failing")

NextShot(e, todo) ==
  IF todo = {} THEN [e EXCEPT !.pc = "checkpoint", !.todo = {}]
  ELSE [e EXCEPT !.pc = "veo", !.todo = todo, !.at = Min(todo), !.tries = 0]

StartRegeneration(o) ==
  /\ Runs(o)
  /\ o \in Regens
  /\ ex[o].pc = "start"
  /\ LET first == Min(op[o].scenes)
         data == [job EXCEPT !.status = "running"]
     IN
     IF scene[first].locked
       THEN /\ Step(o, [ex[o] EXCEPT !.pc = "failing", !.mem = job, !.at = first])
            /\ UNCHANGED <<job, scene, op>>
            /\ Holds(o, {first})
       ELSE /\ scene' = [scene EXCEPT ![first].status = "regenerating"]
            /\ op' = [op EXCEPT ![o].status = "running"]
            /\ job' = data
            /\ Step(o, NextShot([ex[o] EXCEPT !.mem = data], op[o].scenes))
            /\ Holds(o, op[o].scenes)
  /\ UNCHANGED <<latest, takes, book, wallet, req, appr, accepted, lost, host, timer, used>>

\* _generate_scene_with_qa: Veo has answered, the take, its last frame and its
\* conditioning are stored; speech, voice and picture have been reviewed.
Reviewed(o) == Runs(o) /\ ex[o].pc = "veo"

\* The attempt is stored and billed whatever the reviews say.
StoreAttempt(o) == takes' = [takes EXCEPT ![o] = @ + 1]

TakePasses(o) ==
  /\ Reviewed(o)
  /\ StoreAttempt(o)
  /\ Goto(o, "accept")
  /\ UNCHANGED <<job, scene, latest, op, book, wallet, req, appr, copy,
                 accepted, lost, host, timer, used>>

\* The scene at work is written with a corrected prompt.
Again(o) ==
  LET new == [s \in {ex[o].at} |-> [Seen(o, s) EXCEPT !.status = "regenerating"]]
  IN  /\ Writes(o, new)
      /\ Refreshes(o, new)
      /\ Step(o, [ex[o] EXCEPT !.pc = "charge", !.tries = @ + 1])

\* Mistake: rejected takes are repeated without a limit.
RejectedForEver(o) ==
  /\ Reviewed(o)
  /\ StoreAttempt(o)
  /\ Again(o)
  /\ UNCHANGED <<job, latest, op, book, wallet, req, appr, accepted, lost, host, timer, used>>

TakeRejected(o) ==
  /\ Reviewed(o)
  /\ StoreAttempt(o)
  /\ IF ex[o].tries < NativeRetries
       THEN Again(o)
       ELSE Failing(o) /\ UNCHANGED <<scene, copy>>
  /\ UNCHANGED <<job, latest, op, book, wallet, req, appr, accepted, lost, host, timer, used>>

\* Mistake: a retake is left to the settlement.
ChargeRetakeLater(o) ==
  /\ Runs(o)
  /\ ex[o].pc = "charge"
  /\ Goto(o, "veo")
  /\ UNCHANGED <<job, scene, latest, op, takes, book, wallet, req, appr, copy,
                 accepted, lost, host, timer, used>>

ChargeRetake(o) ==
  /\ Runs(o)
  /\ ex[o].pc = "charge"
  /\ \/ Pay(o, TakeCents) /\ Goto(o, "veo")
     \/ wallet < TakeCents /\ Failing(o) /\ UNCHANGED <<wallet, book>>
  /\ UNCHANGED <<job, scene, latest, op, takes, req, appr, copy, accepted, lost, host, timer, used>>

AcceptTake(o) ==
  /\ Runs(o)
  /\ ex[o].pc = "accept"
  /\ LET at == ex[o].at
         new == [s \in {at} |-> [Seen(o, s) EXCEPT !.status = "generated", !.take = o,
                                                   !.follows = s /= Min(op[o].scenes)]]
     IN  /\ Writes(o, new)
         /\ Refreshes(o, new)
         /\ accepted' = [accepted EXCEPT ![at] = o]
         /\ lost' = lost \ {at}
         /\ Step(o, NextShot(ex[o], ex[o].todo \ {at}))
  /\ UNCHANGED <<job, latest, op, takes, book, wallet, req, appr, host, timer, used>>

\* Mistake: the other scenes are taken from the stage output of the job.
AcceptedShotsOfJob(o) ==
  [s \in Shots |-> IF s \in op[o].scenes THEN Seen(o, s).take ELSE ex[o].mem.shots[s]]

\* "Reconstruct from accepted per-scene checkpoints".
AcceptedShots(o) == [s \in Shots |-> Seen(o, s).take]

\* A failed scene whose accepted take followed another one counts as generated,
\* and the first scene is written again.
SaveCheckpoints(o) ==
  /\ Runs(o)
  /\ ex[o].pc = "checkpoint"
  /\ Commit(o, "voice", [ex[o].mem EXCEPT !.status = "running", !.shots = AcceptedShots(o)])
  /\ LET kept == {s \in Shots : Seen(o, s).status = "regeneration_failed" /\ Seen(o, s).follows}
         new == [s \in kept \cup {Min(op[o].scenes)} |-> [Seen(o, s) EXCEPT !.status = "generated"]]
     IN  Writes(o, new) /\ HoldsAll(o, new)
  /\ UNCHANGED <<latest, op, takes, book, wallet, req, appr, accepted, lost, host, timer, used>>

\* Speech and captions are there; then the takes are fetched.
Voiced(o) ==
  /\ Runs(o)
  /\ ex[o].pc = "voice"
  /\ Commit(o, IF o \in Regens THEN "fetch" ELSE "costs", [ex[o].mem EXCEPT !.status = "running"])
  /\ UNCHANGED <<scene, latest, op, takes, book, wallet, req, appr, copy,
                 accepted, lost, host, timer, used>>

\* billing_groups of _complete_from_render
SettledReferences == {r \in Regens : takes[r] > 0 /\ op[r].status /= "failed"}

Fetched(o) ==
  /\ Runs(o)
  /\ ex[o].pc = "fetch"
  /\ Step(o, [ex[o] EXCEPT !.pc = "settle", !.refs = SettledReferences])
  /\ UNCHANGED <<job, scene, latest, op, takes, book, wallet, req, appr, copy,
                 accepted, lost, host, timer, used>>

Settle(o, r) ==
  /\ Runs(o)
  /\ ex[o].pc = "settle" /\ r \in ex[o].refs
  /\ book' = [book EXCEPT ![r] = Settled(@, Outstanding(@), takes[r] * TakeCents)]
  /\ wallet' = wallet + Net(book'[r]) - Net(book[r])
  /\ Step(o, [ex[o] EXCEPT !.refs = @ \ {r}])
  /\ UNCHANGED <<job, scene, latest, op, takes, req, appr, copy, accepted, lost, host, timer, used>>

\* The costs and the render stage, two commits that change nothing else here.
SaveCosts(o) ==
  /\ Runs(o)
  /\ \/ ex[o].pc = "costs"
     \/ ex[o].pc = "settle" /\ ex[o].refs = {}
  /\ Commit(o, "render", [ex[o].mem EXCEPT !.status = "running"])
  /\ UNCHANGED <<scene, latest, op, takes, book, wallet, req, appr, copy,
                 accepted, lost, host, timer, used>>

(***************************************************************************)
(* run_reassembly: the row is claimed with skip_locked.                    *)
(***************************************************************************)
StartReassembly(o) ==
  /\ Runs(o)
  /\ o \in Assemblies
  /\ ex[o].pc = "start"
  /\ op' = [op EXCEPT ![o].status = IF job.asm = o THEN "running" ELSE "failed"]
  /\ IF job.asm = o
       THEN /\ job' = [job EXCEPT !.status = "running"]
            /\ Step(o, [ex[o] EXCEPT !.pc = "voice", !.mem = job'])
       ELSE Step(o, NoTask) /\ UNCHANGED job
  /\ UNCHANGED <<scene, latest, takes, book, wallet, req, appr, copy,
                 accepted, lost, host, timer, used>>

(***************************************************************************)
(* The end of _complete_from_render and of both operations.                *)
(***************************************************************************)
AfterTail(o) == IF o \in Regens THEN "release" ELSE "complete"

TailWaits(o) == EventSinks \/ (job.publish /\ o \in Regens)

\* Rendered, checked and scored; an automatic publication approves and locks.
Rendered(o) ==
  /\ Runs(o)
  /\ ex[o].pc = "render"
  /\ latest' = IF o \in Regens THEN ex[o].mem.shots ELSE latest
  /\ IF job.publish /\ o \in Regens
       THEN Writes(o, [s \in Shots |-> [Seen(o, s) EXCEPT !.locked = TRUE]])
       ELSE UNCHANGED scene
  /\ Forgets(o)
  /\ Commit(o, IF TailWaits(o) THEN "tail" ELSE AfterTail(o),
            [ex[o].mem EXCEPT !.status = "ready"])
  /\ UNCHANGED <<op, takes, book, wallet, req, appr, accepted, lost, host, timer, used>>

\* Publications and the last event have been sent.
Told(o) ==
  /\ Runs(o)
  /\ ex[o].pc = "tail"
  /\ Goto(o, AfterTail(o))
  /\ UNCHANGED <<job, scene, latest, op, takes, book, wallet, req, appr, copy,
                 accepted, lost, host, timer, used>>

\* A regeneration releases the job and completes, a reassembly the reverse.
Release(o) ==
  /\ Runs(o)
  /\ ex[o].pc = "release"
  /\ Commit(o, IF o \in Regens THEN "complete" ELSE "off",
            IF o \in Regens THEN [ex[o].mem EXCEPT !.regen = NoOp]
                            ELSE [ex[o].mem EXCEPT !.asm = NoOp])
  /\ UNCHANGED <<scene, latest, op, takes, book, wallet, req, appr, copy,
                 accepted, lost, host, timer, used>>

Complete(o) ==
  /\ Runs(o)
  /\ ex[o].pc = "complete"
  /\ op' = [op EXCEPT ![o].status = "completed"]
  /\ Goto(o, IF o \in Regens THEN "off" ELSE "release")
  /\ UNCHANGED <<job, scene, latest, takes, book, wallet, req, appr, copy,
                 accepted, lost, host, timer, used>>

(***************************************************************************)
(* Failures.                                                               *)
(***************************************************************************)
\* What is awaited raises; the last events do not.
Raise(o) ==
  /\ Runs(o)
  /\ ex[o].pc \in {"veo", "voice", "fetch", "render"}
  /\ used.faults < MaxFaults
  /\ Spend("faults")
  /\ Failing(o)
  /\ UNCHANGED <<job, scene, latest, op, takes, book, wallet, req, appr, copy,
                 accepted, lost, host, timer>>

FailOperation(o) ==
  /\ Runs(o)
  /\ ex[o].pc = "failing"
  /\ op' = [op EXCEPT ![o].status = "failed"]
  /\ Goto(o, "failJob")
  /\ UNCHANGED <<job, scene, latest, takes, book, wallet, req, appr, copy,
                 accepted, lost, host, timer, used>>

\* The scene at work and those that still wait, with their accepted takes.
Failed(o) == [s \in {ex[o].at} \cup {s \in op[o].scenes : Seen(o, s).status = "regenerating"} |->
                [Seen(o, s) EXCEPT !.status = "regeneration_failed"]]

\* Mistake: the reserve of a failed regeneration is kept.
FailJobKeepsReserve(o) ==
  /\ Runs(o)
  /\ ex[o].pc = "failJob"
  /\ Commit(o, "off", [ex[o].mem EXCEPT !.status = "failed", !.regen = NoOp, !.asm = NoOp])
  /\ IF o \in Regens THEN Writes(o, Failed(o)) ELSE UNCHANGED scene
  /\ Forgets(o)
  /\ UNCHANGED <<latest, op, takes, book, wallet, req, appr, accepted, lost, host, timer, used>>

\* Mistake: only the scene at work is marked.
FailJobOneScene(o) ==
  /\ Runs(o)
  /\ ex[o].pc = "failJob"
  /\ Commit(o, IF o \in Regens THEN "refund" ELSE "off",
            [ex[o].mem EXCEPT !.status = "failed", !.regen = NoOp, !.asm = NoOp])
  /\ Writes(o, [s \in {ex[o].at} |-> [Seen(o, s) EXCEPT !.status = "regeneration_failed"]])
  /\ Forgets(o)
  /\ UNCHANGED <<latest, op, takes, book, wallet, req, appr, accepted, lost, host, timer, used>>

FailJob(o) ==
  /\ Runs(o)
  /\ ex[o].pc = "failJob"
  /\ Commit(o, IF o \in Regens THEN "refund" ELSE "off",
            IF o \in Regens THEN [ex[o].mem EXCEPT !.status = "failed", !.regen = NoOp]
                            ELSE [ex[o].mem EXCEPT !.status = "failed", !.asm = NoOp])
  /\ IF o \in Regens THEN Writes(o, Failed(o)) ELSE UNCHANGED scene
  /\ Forgets(o)
  /\ UNCHANGED <<latest, op, takes, book, wallet, req, appr, accepted, lost, host, timer, used>>

RefundFailure(o) ==
  /\ Runs(o)
  /\ ex[o].pc = "refund"
  /\ book' = [book EXCEPT ![o] = Refunded(@)]
  /\ wallet' = wallet + Net(book'[o]) - Net(book[o])
  /\ Goto(o, "off")
  /\ UNCHANGED <<job, scene, latest, op, takes, req, appr, copy, accepted, lost, host, timer, used>>

(***************************************************************************)
(* Approvals: the check, then one scene after the other.                   *)
(***************************************************************************)
Approvable == (job.regen /= NoOp \/ job.asm /= NoOp) => job.status = "ready"

BeginApprove ==
  /\ host = "up" /\ appr.pc = "idle"
  /\ used.stops + used.approvals < MaxTurns[job.publish]
  /\ Approvable
  /\ Spend("approvals")
  /\ appr' = [NoApproval EXCEPT !.pc = "read"]
  /\ UNCHANGED <<job, scene, latest, op, takes, book, wallet, ex, req, copy,
                 accepted, lost, host, timer>>

ReadScene ==
  /\ appr.pc = "read"
  /\ appr' = [appr EXCEPT !.pc = "write", !.row = scene[appr.at]]
  /\ UNCHANGED <<job, scene, latest, op, takes, book, wallet, ex, req, copy, accepted, lost,
                 host, timer, used>>

\* The status is not written; the take is, and may be older than the row's.
LockScene ==
  /\ appr.pc = "write"
  /\ scene' = [scene EXCEPT ![appr.at] =
                 [appr.row EXCEPT !.locked = TRUE, !.status = scene[appr.at].status]]
  /\ lost' = IF appr.row.take = scene[appr.at].take THEN lost ELSE lost \cup {appr.at}
  /\ appr' = IF appr.at = NumScenes THEN NoApproval
             ELSE [NoApproval EXCEPT !.pc = "read", !.at = appr.at + 1]
  /\ UNCHANGED <<job, latest, op, takes, book, wallet, ex, req, copy, accepted, host, timer, used>>

(***************************************************************************)
(* The instance.                                                           *)
(***************************************************************************)
Shutdown ==
  /\ host = "up" /\ req.pc = "idle" /\ appr.pc = "idle"
  /\ \A o \in Ops : ex[o].pc \in Awaits \cup {"off"}
  /\ used.stops < MaxStops[job.publish]
  /\ used.stops + used.approvals < MaxTurns[job.publish]
  /\ Spend("stops")
  /\ host' = "stopping"
  /\ timer' = {}
  /\ ex' = [o \in Ops |-> [ex[o] EXCEPT !.stop = ex[o].pc /= "off"]]
  /\ UNCHANGED <<job, scene, latest, op, takes, book, wallet, req, appr, copy, accepted, lost>>

\* CancelledError: a regeneration just ends, a reassembly is queued again.
Interrupt(o) ==
  /\ host /= "down"
  /\ ex[o].stop /\ ex[o].pc \in Awaits
  /\ IF o \in Assemblies /\ ex[o].pc /= "start"
       THEN /\ op' = [op EXCEPT ![o].status = "queued"]
            /\ Commit(o, "off", [ex[o].mem EXCEPT !.status = "queued"])
       ELSE Step(o, NoTask) /\ UNCHANGED <<job, op>>
  /\ Forgets(o)
  /\ UNCHANGED <<scene, latest, takes, book, wallet, req, appr, accepted, lost, host, timer, used>>

Exit ==
  /\ host = "stopping"
  /\ \A o \in Ops : ex[o].pc = "off"
  /\ host' = "down"
  /\ UNCHANGED <<job, scene, latest, op, takes, book, wallet, ex, req, appr,
                 copy, accepted, lost, timer, used>>

\* Mistake: only queued operations are looked for.
UnfinishedQueued == {o \in Ops : op[o].status = "queued"}

Unfinished == {o \in Ops : op[o].status \in {"queued", "running"}}

\* resume_pending; a running reassembly is due when it is 15 minutes old.
Boot ==
  /\ host = "down"
  /\ host' = "up"
  /\ timer' = Unfinished
  /\ UNCHANGED <<job, scene, latest, op, takes, book, wallet, ex, req, appr,
                 copy, accepted, lost, used>>

TimerFires(o) ==
  /\ o \in timer
  /\ host = "up" /\ req.pc = "idle" /\ LoopIsFree(o)
  /\ timer' = timer \ {o}
  /\ Step(o, Scheduled(ex[o]))
  /\ UNCHANGED <<job, scene, latest, op, takes, book, wallet, req, appr, copy,
                 accepted, lost, host, used>>

(***************************************************************************)
(* The system.                                                             *)
(***************************************************************************)
Work(o) ==
  \/ StartRegeneration(o) \/ ChargeRetake(o) \/ AcceptTake(o) \/ SaveCheckpoints(o)
  \/ Voiced(o) \/ Fetched(o) \/ (\E r \in Regens : Settle(o, r)) \/ SaveCosts(o)
  \/ StartReassembly(o) \/ Rendered(o) \/ Told(o) \/ Release(o) \/ Complete(o)
  \/ FailOperation(o) \/ FailJob(o) \/ RefundFailure(o) \/ Interrupt(o) \/ TimerFires(o)
  \/ TakePasses(o)

Serve ==
  \/ ChargeRegeneration \/ ChargeRefused \/ QueueRegeneration
  \/ ReadScene \/ LockScene

Host == Exit \/ Boot

Next ==
  \/ \E o \in Ops : \/ Work(o) \/ TakeRejected(o) \/ Raise(o)
                    \/ BeginRegenerate(o) \/ Reassemble(o)
  \/ Serve \/ Host
  \/ BeginApprove \/ Shutdown

Spec == Init /\ [][Next]_vars

\* What is awaited answers or raises, and a stopped instance starts again.
Fairness == WF_vars(Serve) /\ WF_vars(Host) /\ \A o \in Ops : WF_vars(Work(o))

FairSpec == Spec /\ Fairness

(***************************************************************************)
(* Properties.                                                             *)
(***************************************************************************)
\* The types of all variables.
TypeOK ==
  /\ job \in Job
  /\ scene \in [Shots -> Scene]
  /\ latest \in [Shots -> Sources]
  /\ op \in [Ops -> [status : {"none", "queued", "running", "completed", "failed"},
                     scenes : SUBSET Shots]]
  /\ takes \in [Regens -> Nat]
  /\ book \in [Regens -> Book]
  /\ wallet \in Int
  /\ ex \in [Ops -> Task]
  /\ req \in [pc : {"idle", "charge", "queue"}, o : Regens \cup {NoOp}, mem : Job]
  /\ appr \in [pc : {"idle", "read", "write"}, at : Shots, row : Scene]
  /\ copy \in [Ops -> Held]
  /\ accepted \in [Shots -> Sources]
  /\ lost \subseteq Shots
  /\ host \in {"up", "stopping", "down"}
  /\ timer \subseteq Ops
  /\ used \in [{"faults", "stops", "approvals"} -> Nat]

Producing(o) == ex[o].pc \notin {"off", "start", "tail", "release", "complete", "refund"}

\* No restart has made an operation begin again.
Undisturbed == used.stops = 0

\* A production is changed by one operation at a time: no second one buys
\* takes or renders before the first has made its version or failed, whatever
\* restarts do in between.
OneOperation == \A o, p \in Ops : Producing(o) /\ Producing(p) => o = p

Reserved(r) == IF Net(book[r]) < 0 THEN -Net(book[r]) ELSE 0

\* Every take has been reserved before Veo is called, the retakes of native
\* speech QA too (_generate_scene_with_qa: "Reserve extra takes before calling
\* Veo, not by driving the wallet negative at settlement").
TakesAreReserved ==
  Undisturbed =>
    \A r \in Regens : ex[r].pc = "veo" => Reserved(r) >= (takes[r] + 1) * TakeCents

\* What a finished regeneration has paid is the price of the takes it bought,
\* what a failed one has paid is nothing, whatever its settlement has returned
\* before it failed and however often later operations settle it again.
PaysItsTakes ==
  Undisturbed => \A r \in Regens :
    /\ op[r].status = "completed" => Reserved(r) = takes[r] * TakeCents
    /\ op[r].status = "failed" /\ ex[r].pc = "off" => Reserved(r) = 0

\* The version of a regeneration shows every scene's latest accepted take, those
\* of regenerations that failed half way included, whatever copies were written
\* back in between. (An approval that read a scene before a take was accepted and
\* writes it afterwards puts the older take back: such a scene is lost.)
ShowsAcceptedTakes ==
  [][\A o \in Regens : Rendered(o) => \A s \in Shots \ lost : latest'[s] = accepted[s]]_vars

\* A scene waits for a take only while a regeneration is on its way to it.
NoSceneWaitsForever ==
  \A s \in Shots : scene[s].status = "regenerating" =>
    \E r \in Regens : s \in op[r].scenes /\ (op[r].status \in {"queued", "running"}
                                             \/ ex[r].pc = "failJob")

\* A production that an operation has claimed is given back, with a version or
\* with an error, across orderly stops. (The end of a regeneration that still
\* publishes writes over the claim of a reassembly.)
JobIsGivenBack ==
  job.status \in {"queued", "running"} ~> job.status \in {"ready", "failed"} \/ job.publish
=============================================================================
