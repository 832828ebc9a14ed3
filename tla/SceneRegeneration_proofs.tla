---------------------- MODULE SceneRegeneration_proofs ----------------------
(***************************************************************************)
(* One operation at a time works on a production, takes are reserved and   *)
(* paid for, versions show what was accepted and no scene waits in vain,   *)
(* for any number of scenes, regenerations, reassemblies, failures and     *)
(* orderly stops.                                                          *)
(***************************************************************************)
EXTENDS SceneRegeneration, CreditBook_proofs, FiniteSetTheorems

USE SceneRegenerationAssumption

(***************************************************************************)
(* The life of an operation: what its task and its row say of each other.  *)
(***************************************************************************)
\* Where a regeneration buys takes, where every take is there, and where the
\* version is finished and the production has been given back.
AtTakes == {"veo", "charge", "accept"}
Past == {"checkpoint", "voice", "fetch", "settle", "costs", "render"}
Released == {"tail", "release", "complete"}

Open(w) == w.status \in {"queued", "running"}

\* The task e of operation o and its row w.
Fits(o, e, w) ==
  /\ w.status /= "none" => w.scenes /= {}
  /\ e.pc \in {"start", "failing"} => Open(w)
  /\ e.pc \in AtTakes \cup Past \cup {"tail", "complete"} => w.status = "running"
  /\ e.pc = "release" => w.status = IF o \in Regens THEN "running" ELSE "completed"
  /\ e.pc \in {"failJob", "refund"} => w.status = "failed"
  /\ o \in Assemblies => e.pc \notin AtTakes \cup {"checkpoint", "fetch", "settle", "refund"}
  /\ e.pc \in AtTakes => e.at \in e.todo /\ e.todo \subseteq w.scenes
  /\ e.pc \in {"start"} \cup Past \cup Released => e.todo = {}
  /\ e.stop => e.pc \in Awaits
  /\ e.pc /= "finish"

AllFit == \A o \in Ops : Fits(o, ex[o], op[o])

\* The operation that is being requested has no task yet; no stop comes between.
RequestIsOff ==
  req.pc /= "idle" =>
    /\ host = "up" /\ req.o \in Regens /\ op[req.o].status = "queued"
    /\ ex[req.o].pc = "off" /\ req.o \notin timer

\* What a restart will schedule is unfinished and has no task.
TimerIsOff == \A o \in timer : Open(op[o]) /\ ex[o].pc = "off"

DownIsOff == host = "down" => \A o \in Ops : ex[o].pc = "off"

(***************************************************************************)
(* Types.                                                                  *)
(***************************************************************************)
PCs == Awaits \cup {"off", "charge", "accept", "checkpoint", "settle", "costs",
                    "finish", "release", "complete", "failing", "failJob", "refund"}

OpRow == [status : {"none", "queued", "running", "completed", "failed"}, scenes : SUBSET Shots]

Request == [pc : {"idle", "charge", "queue"}, o : Regens \cup {NoOp}, mem : Job]

\* The groups of variables, with their types and what they say of each other.
Rows == job \in Job /\ scene \in [Shots -> Scene] /\ latest \in [Shots -> Sources]

Money == takes \in [Regens -> Nat] /\ book \in [Regens -> Book] /\ wallet \in Int

Approval == [pc : {"idle", "read", "write"}, at : Shots, row : Scene]

Rest == appr \in Approval /\ used \in [{"faults", "stops", "approvals"} -> Nat]

Life ==
  /\ op \in [Ops -> OpRow] /\ ex \in [Ops -> Task] /\ req \in Request
  /\ host \in {"up", "stopping", "down"} /\ timer \subseteq Ops
  /\ AllFit /\ RequestIsOff /\ TimerIsOff /\ DownIsOff

Core == Rows /\ Money /\ Rest /\ Life

Copies == copy \in [Ops -> Held]

History == accepted \in [Shots -> Sources] /\ lost \subseteq Shots

Base == Core /\ Copies /\ History

\* Base contains the type invariant.
LEMMA BaseTypes == Base => TypeOK
BY DEF Base, Core, Copies, History, Rows, Money, Rest, Approval, Life, TypeOK, OpRow, Request

\* What a step leaves alone stays as it is.
LEMMA BaseKept ==
  ASSUME Base
  PROVE  /\ UNCHANGED <<job, scene, latest>> => Rows'
         /\ UNCHANGED <<takes, book, wallet>> => Money'
         /\ UNCHANGED <<appr, used>> => Rest'
         /\ UNCHANGED <<op, ex, req, host, timer>> => Life'
<1>1. UNCHANGED <<job, scene, latest>> => Rows'
  BY DEF Base, Core, Rows
<1>2. UNCHANGED <<takes, book, wallet>> => Money'
  BY DEF Base, Core, Money
<1>3. UNCHANGED <<appr, used>> => Rest'
  BY DEF Base, Core, Rest
<1>4. UNCHANGED <<op, ex, req, host, timer>> => Life'
  BY DEF Base, Core, Life, AllFit, RequestIsOff, TimerIsOff, DownIsOff
<1>5. QED
  BY <1>1, <1>2, <1>3, <1>4

\* The least scene of an operation is one of its scenes.
LEMMA MinInSet ==
  ASSUME NEW S \in SUBSET Shots, S /= {}
  PROVE  Min(S) \in S /\ \A x \in S : Min(S) <= x
<1> DEFINE R == {ss \in Nat \X Nat : ss[1] < ss[2]}
<1>1. IsWellFoundedOn(R, Nat)
  BY NatLessThanWellFounded DEF OpToRel
<1>2. PICK m \in S : \A x \in S : ~ (<<x, m>> \in R)
  <2> HIDE DEF R
  <2>1. S \subseteq Nat
    BY DEF Shots
  <2>2. QED
    BY <1>1, <2>1, WFMin
<1>3. ASSUME NEW x \in S PROVE m <= x
  <2>1. x \in Nat /\ m \in Nat /\ <<x, m>> \in Nat \X Nat
    BY DEF Shots
  <2>2. x < m => <<x, m>> \in R
    BY <2>1
  <2>3. QED
    BY <1>2, <2>1, <2>2
<1>4. QED
  BY <1>3 DEF Min, Shots

\* The production before anything has happened.
LEMMA NoJobType == NoJob \in Job
BY DEF NoJob, Job, Original, Sources

\* The absence of a task.
LEMMA NoTaskType ==
  NoTask \in Task /\ NoTask.pc = "off" /\ NoTask.todo = {} /\ ~NoTask.stop
BY NoJobType DEF NoTask, Task, Awaits, Shots

\* A task that is scheduled.
LEMMA StartTaskType ==
  /\ [NoTask EXCEPT !.pc = "start"] \in Task
  /\ [NoTask EXCEPT !.pc = "start"].pc = "start"
  /\ [NoTask EXCEPT !.pc = "start"].todo = {}
  /\ [NoTask EXCEPT !.pc = "start"].stop = FALSE
BY NoTaskType DEF Task, Awaits

\* The fields of a task and of its row.
LEMMA TaskFields ==
  ASSUME Base, NEW o \in Ops
  PROVE  /\ ex[o] \in Task /\ ex[o].pc \in PCs /\ ex[o].mem \in Job /\ ex[o].at \in Shots
         /\ ex[o].todo \in SUBSET Shots /\ ex[o].refs \in SUBSET Regens
         /\ ex[o].tries \in 0..NativeRetries /\ ex[o].stop \in BOOLEAN
         /\ op[o] \in OpRow /\ op[o].scenes \in SUBSET Shots
         /\ Fits(o, ex[o], op[o])
BY DEF Base, Core, Life, AllFit, Task, PCs, OpRow

\* A task e that differs from ex[o] in its place, and perhaps in its copy.
Moved(o, e, pc) ==
  /\ e \in Task /\ e.pc = pc /\ e.at = ex[o].at /\ e.todo = ex[o].todo
  /\ e.refs = ex[o].refs /\ e.tries = ex[o].tries /\ e.stop = ex[o].stop

\* A task that goes on.
LEMMA GotoMoves ==
  ASSUME Base, NEW o \in Ops, NEW pc \in PCs \ {"off"}, Goto(o, pc)
  PROVE  \E e : ex' = [ex EXCEPT ![o] = e] /\ Moved(o, e, pc) /\ e.mem = ex[o].mem
<1> DEFINE e == [ex[o] EXCEPT !.pc = pc]
<1>1. ex[o] \in Task
  BY TaskFields
<1>2. Moved(o, e, pc) /\ e.mem = ex[o].mem
  BY <1>1 DEF Moved, Task, PCs
<1>3. ex' = [ex EXCEPT ![o] = e]
  BY DEF Goto, Step
<1>4. QED
  BY <1>2, <1>3

\* What a task writes of the production.
LEMMA StoredFields ==
  ASSUME Base, NEW mem \in Job, NEW data \in Job, job' = Stored(mem, data)
  PROVE  /\ job' \in Job /\ job'.regen = data.regen /\ job'.asm = data.asm
         /\ job'.shots = data.shots /\ job'.publish = data.publish
         /\ job'.status = IF data.status /= mem.status THEN data.status ELSE job.status
BY DEF Base, Core, Rows, Stored, Job

\* A task that commits and goes on.
LEMMA CommitMoves ==
  ASSUME Base, NEW o \in Ops, NEW pc \in PCs \ {"off"}, NEW data \in Job, Commit(o, pc, data)
  PROVE  /\ job' = Stored(ex[o].mem, data) /\ job' \in Job
         /\ \E e : ex' = [ex EXCEPT ![o] = e] /\ Moved(o, e, pc) /\ e.mem = job'
<1> DEFINE e == [ex[o] EXCEPT !.pc = pc, !.mem = job']
<1>1. ex[o] \in Task /\ ex[o].mem \in Job
  BY TaskFields
<1>2. job' = Stored(ex[o].mem, data) /\ job' \in Job
  BY <1>1, StoredFields DEF Commit
<1>3. Moved(o, e, pc) /\ e.mem = job'
  BY <1>1, <1>2 DEF Moved, Task, PCs
<1>4. ex' = [ex EXCEPT ![o] = e]
  BY DEF Commit, Step
<1>5. QED
  BY <1>2, <1>3, <1>4

\* A task that ends.
LEMMA OffMoves ==
  ASSUME NEW o \in Ops, Goto(o, "off") \/ Step(o, NoTask) \/ \E data : Commit(o, "off", data)
  PROVE  ex' = [ex EXCEPT ![o] = NoTask]
BY DEF Goto, Step, Commit

\* A task that runs, or is interrupted, is neither requested nor waiting for a
\* restart.
LEMMA TaskIsLive ==
  ASSUME Base, NEW o \in Ops, ex[o].pc /= "off"
  PROVE  /\ host /= "down" /\ o \notin timer
         /\ ~(req.pc /= "idle" /\ req.o = o)
         /\ op[o].status /= "none" /\ op[o].scenes /= {}
<1>1. host /= "down" /\ o \notin timer /\ ~(req.pc /= "idle" /\ req.o = o)
  BY DEF Base, Core, Life, TimerIsOff, DownIsOff, RequestIsOff
<1>2. ex[o].pc \in PCs /\ Fits(o, ex[o], op[o])
  BY TaskFields
<1>3. op[o].status /= "none"
  BY <1>2 DEF Fits, PCs, Awaits, AtTakes, Past, Open
<1>4. QED
  BY <1>1, <1>2, <1>3 DEF Fits

\* A step of a task keeps the lives of all operations when its own fits.
LEMMA TaskStep ==
  ASSUME Base, NEW o \in Ops, ex[o].pc /= "off", NEW e \in Task, NEW w \in OpRow,
         ex' = [ex EXCEPT ![o] = e], op' = [op EXCEPT ![o] = w], Fits(o, e, w),
         UNCHANGED <<req, host, timer>>
  PROVE  Life'
<1>1. host /= "down" /\ o \notin timer /\ ~(req.pc /= "idle" /\ req.o = o)
  BY TaskIsLive
<1>2. op' \in [Ops -> OpRow] /\ ex' \in [Ops -> Task] /\ req' \in Request
      /\ host' \in {"up", "stopping", "down"} /\ timer' \subseteq Ops
  BY DEF Base, Core, Life
<1>3. \A p \in Ops : /\ p = o => ex'[p] = e /\ op'[p] = w
                     /\ p /= o => ex'[p] = ex[p] /\ op'[p] = op[p]
  BY DEF Base, Core, Life
<1>4. AllFit'
  <2>1. \A p \in Ops : Fits(p, ex'[p], op'[p])
    BY <1>3 DEF Base, Core, Life, AllFit
  <2>2. QED
    BY <2>1 DEF AllFit
<1>5. RequestIsOff'
  BY <1>1, <1>3 DEF Base, Core, Life, RequestIsOff, Ops
<1>6. TimerIsOff'
  BY <1>1, <1>3 DEF Base, Core, Life, TimerIsOff
<1>7. DownIsOff'
  BY <1>1 DEF DownIsOff
<1>8. QED
  BY <1>2, <1>4, <1>5, <1>6, <1>7 DEF Life

\* So does one that leaves its row alone.
LEMMA TaskStepAlone ==
  ASSUME Base, NEW o \in Ops, ex[o].pc /= "off", NEW e \in Task,
         ex' = [ex EXCEPT ![o] = e], Fits(o, e, op[o]), UNCHANGED <<op, req, host, timer>>
  PROVE  Life'
<1>1. op' = [op EXCEPT ![o] = op[o]] /\ op[o] \in OpRow
  BY DEF Base, Core, Life
<1>2. QED
  BY <1>1, TaskStep

(***************************************************************************)
(* The scenes that a session holds, and what it writes of them.            *)
(***************************************************************************)
\* Some of the scenes.
LEMMA HeldIsFunction ==
  ASSUME NEW S \in SUBSET Shots, NEW f \in [S -> Scene]
  PROVE  f \in Held
BY DEF Held

LEMMA HeldFields ==
  ASSUME NEW f \in Held
  PROVE  DOMAIN f \in SUBSET Shots /\ \A s \in DOMAIN f : f[s] \in Scene
<1>1. PICK S \in SUBSET Shots : f \in [S -> Scene]
  BY DEF Held
<1>2. QED
  BY <1>1

\* No scene is held.
LEMMA NothingHeldType == NothingHeld \in Held /\ DOMAIN NothingHeld = {}
<1>1. DOMAIN NothingHeld = {} /\ NothingHeld \in [{} -> Scene]
  BY DEF NothingHeld
<1>2. QED
  BY <1>1, HeldIsFunction

\* What a session sees of a scene is a scene.
LEMMA SeenType ==
  ASSUME Base, NEW o \in Ops, NEW s \in Shots
  PROVE  scene[s] \in Scene /\ Seen(o, s) \in Scene
<1>1. scene[s] \in Scene /\ copy[o] \in Held
  BY DEF Base, Core, Rows, Copies
<1>2. QED
  BY <1>1, HeldFields DEF Seen

\* The scenes in new get its takes, and its status where it was seen to differ.
LEMMA WritesDoes ==
  ASSUME Base, NEW o \in Ops, NEW new \in Held, Writes(o, new)
  PROVE  /\ scene' \in [Shots -> Scene]
         /\ \A s \in Shots \ DOMAIN new : scene'[s] = scene[s]
         /\ \A s \in DOMAIN new :
              /\ s \in Shots /\ scene'[s].take = new[s].take
              /\ scene'[s].status = IF new[s].status /= Seen(o, s).status THEN new[s].status
                                    ELSE scene[s].status
<1> DEFINE status(s) == IF new[s].status /= Seen(o, s).status THEN new[s].status ELSE scene[s].status
<1>1. ASSUME NEW s \in Shots \cap DOMAIN new
      PROVE  /\ scene'[s] \in Scene /\ scene'[s].take = new[s].take
             /\ scene'[s].status = status(s)
  <2>1. new[s] \in Scene /\ scene[s] \in Scene
    BY <1>1, HeldFields, SeenType
  <2>2. scene'[s] = [new[s] EXCEPT !.status = status(s)] /\ status(s) \in {new[s].status, scene[s].status}
    BY <1>1, <2>1 DEF Writes, Scene
  <2> HIDE DEF status
  <2>3. QED
    BY <2>1, <2>2 DEF Scene
<1>2. \A s \in Shots \ DOMAIN new : scene'[s] = scene[s]
  BY DEF Writes
<1>3. \A s \in Shots : scene'[s] \in Scene
  BY <1>1, <1>2, SeenType
<1>4. scene' \in [Shots -> Scene]
  BY <1>3 DEF Writes
<1>5. DOMAIN new \subseteq Shots
  BY HeldFields
<1>6. QED
  BY <1>1, <1>2, <1>4, <1>5

\* The other sessions hold what they held.
OtherCopies(o) == \A p \in Ops : p /= o => copy'[p] = copy[p]

\* A session writes what it has seen of the takes, and goes on with what it
\* holds, refreshed where it has written.
TakesSeen(o) == \A s \in Shots : scene'[s].take \in {scene[s].take, Seen(o, s).take}

Refreshed(o) ==
  /\ OtherCopies(o)
  /\ \A s \in DOMAIN copy'[o] :
       copy'[o][s] = scene'[s] \/ (s \in DOMAIN copy[o] /\ copy'[o][s] = copy[o][s])

\* What one session holds by then.
LEMMA CopyIs ==
  ASSUME Base, NEW o \in Ops, NEW f \in Held, copy' = [copy EXCEPT ![o] = f]
  PROVE  Copies' /\ copy'[o] = f /\ OtherCopies(o)
BY DEF Base, Copies, OtherCopies

LEMMA ForgetsDoes ==
  ASSUME Base, NEW o \in Ops, Forgets(o)
  PROVE  Copies' /\ DOMAIN copy'[o] = {} /\ OtherCopies(o)
BY CopyIs, NothingHeldType DEF Forgets

LEMMA HoldsDoes ==
  ASSUME Base, NEW o \in Ops, NEW scenes \in SUBSET Shots, Holds(o, scenes), scene' \in [Shots -> Scene]
  PROVE  /\ Copies' /\ OtherCopies(o) /\ DOMAIN copy'[o] = scenes
         /\ \A s \in scenes : copy'[o][s] = scene'[s]
<1> DEFINE f == [s \in scenes |-> scene'[s]]
<1>1. f \in [scenes -> Scene] /\ copy' = [copy EXCEPT ![o] = f]
  BY DEF Holds
<1>2. DOMAIN f = scenes /\ \A s \in scenes : f[s] = scene'[s]
  OBVIOUS
<1> HIDE DEF f
<1>3. f \in Held
  BY <1>1, HeldIsFunction
<1>4. QED
  BY <1>1, <1>2, <1>3, CopyIs

LEMMA RefreshesDoes ==
  ASSUME Base, NEW o \in Ops, NEW new, Refreshes(o, new), scene' \in [Shots -> Scene]
  PROVE  /\ Copies' /\ Refreshed(o) /\ DOMAIN copy'[o] = DOMAIN copy[o]
         /\ \A s \in DOMAIN copy[o] : copy'[o][s] = IF s \in DOMAIN new THEN scene'[s] ELSE copy[o][s]
<1> DEFINE f == [s \in DOMAIN copy[o] |-> IF s \in DOMAIN new THEN scene'[s] ELSE copy[o][s]]
<1>1. DOMAIN copy[o] \in SUBSET Shots /\ \A s \in DOMAIN copy[o] : copy[o][s] \in Scene
  BY HeldFields DEF Base, Copies
<1>2. f \in [DOMAIN copy[o] -> Scene] /\ copy' = [copy EXCEPT ![o] = f]
  BY <1>1 DEF Refreshes
<1>3. /\ DOMAIN f = DOMAIN copy[o]
      /\ \A s \in DOMAIN copy[o] : f[s] = IF s \in DOMAIN new THEN scene'[s] ELSE copy[o][s]
  OBVIOUS
<1> HIDE DEF f
<1>4. f \in Held
  BY <1>1, <1>2, HeldIsFunction
<1>5. QED
  BY <1>2, <1>3, <1>4, CopyIs DEF Refreshed

LEMMA HoldsAllDoes ==
  ASSUME Base, NEW o \in Ops, NEW new, HoldsAll(o, new), scene' \in [Shots -> Scene]
  PROVE  Copies' /\ Refreshed(o)
<1> DEFINE f == [s \in Shots |-> IF s \in DOMAIN copy[o] \ DOMAIN new THEN copy[o][s] ELSE scene'[s]]
<1>1. DOMAIN copy[o] \in SUBSET Shots /\ \A s \in DOMAIN copy[o] : copy[o][s] \in Scene
  BY HeldFields DEF Base, Copies
<1>2. f \in [Shots -> Scene] /\ copy' = [copy EXCEPT ![o] = f]
  BY <1>1 DEF HoldsAll
<1>3. \A s \in Shots : f[s] = scene'[s] \/ (s \in DOMAIN copy[o] /\ f[s] = copy[o][s])
  OBVIOUS
<1> HIDE DEF f
<1>4. f \in Held /\ DOMAIN f = Shots
  BY <1>2, HeldIsFunction
<1>5. QED
  BY <1>2, <1>3, <1>4, CopyIs DEF Refreshed

\* The scene at work is written again, with the take that was seen.
LEMMA AgainWrites ==
  ASSUME Base, NEW o \in Ops, Again(o)
  PROVE  /\ scene' \in [Shots -> Scene] /\ TakesSeen(o) /\ Copies' /\ Refreshed(o)
         /\ DOMAIN copy'[o] = DOMAIN copy[o]
         /\ \A s \in Shots \ {ex[o].at} : scene'[s] = scene[s]
         /\ \A s \in DOMAIN copy[o] : copy'[o][s] = IF s = ex[o].at THEN scene'[s] ELSE copy[o][s]
<1> DEFINE new == [s \in {ex[o].at} |-> [Seen(o, s) EXCEPT !.status = "regenerating"]]
<1>1. ex[o].at \in Shots /\ \A s \in Shots : Seen(o, s) \in Scene
  BY TaskFields, SeenType
<1>2. /\ new \in [{ex[o].at} -> Scene] /\ DOMAIN new = {ex[o].at}
      /\ \A s \in {ex[o].at} : new[s].take = Seen(o, s).take
  BY <1>1 DEF Scene
<1>3. Writes(o, new) /\ Refreshes(o, new)
  BY DEF Again
<1> HIDE DEF new
<1>4. new \in Held
  BY <1>1, <1>2, HeldIsFunction
<1>5. scene' \in [Shots -> Scene] /\ TakesSeen(o) /\ \A s \in Shots \ {ex[o].at} : scene'[s] = scene[s]
  BY <1>2, <1>3, <1>4, WritesDoes DEF TakesSeen
<1>6. QED
  BY <1>2, <1>3, <1>5, RefreshesDoes

\* An accepted take is the scene's, which waits no more if it was seen to wait.
LEMMA AcceptTakeWrites ==
  ASSUME Base, NEW o \in Regens, AcceptTake(o)
  PROVE  /\ scene' \in [Shots -> Scene] /\ Copies' /\ Refreshed(o)
         /\ DOMAIN copy'[o] = DOMAIN copy[o]
         /\ \A s \in Shots \ {ex[o].at} : scene'[s] = scene[s]
         /\ \A s \in DOMAIN copy[o] : copy'[o][s] = IF s = ex[o].at THEN scene'[s] ELSE copy[o][s]
         /\ scene'[ex[o].at].take = o
         /\ scene'[ex[o].at].status = "regenerating" =>
              scene[ex[o].at].status = "regenerating" /\ Seen(o, ex[o].at).status /= "regenerating"
<1> DEFINE follows(s) == s /= Min(op[o].scenes)
           new == [s \in {ex[o].at} |-> [Seen(o, s) EXCEPT !.status = "generated", !.take = o,
                                                           !.follows = follows(s)]]
<1>1. o \in Ops /\ o \in Sources /\ ex[o].at \in Shots /\ \A s \in Shots : Seen(o, s) \in Scene
  BY TaskFields, SeenType DEF Ops, Sources
<1>2. Writes(o, new) /\ Refreshes(o, new)
  BY DEF AcceptTake
<1>3. /\ new \in [{ex[o].at} -> Scene] /\ DOMAIN new = {ex[o].at}
      /\ new[ex[o].at].take = o /\ new[ex[o].at].status = "generated"
  <2>1. \A s : follows(s) \in BOOLEAN
    OBVIOUS
  <2> HIDE DEF follows
  <2>2. QED
    BY <1>1, <2>1 DEF Scene
<1> HIDE DEF new
<1>4. new \in Held
  BY <1>1, <1>3, HeldIsFunction
<1>5. /\ scene' \in [Shots -> Scene] /\ \A s \in Shots \ {ex[o].at} : scene'[s] = scene[s]
      /\ scene'[ex[o].at].take = o
      /\ scene'[ex[o].at].status = "regenerating" =>
           scene[ex[o].at].status = "regenerating" /\ Seen(o, ex[o].at).status /= "regenerating"
  BY <1>1, <1>2, <1>3, <1>4, WritesDoes
<1>6. QED
  BY <1>1, <1>2, <1>3, <1>5, RefreshesDoes

\* The checkpoints make no scene wait.
LEMMA SaveCheckpointsWrites ==
  ASSUME Base, NEW o \in Ops, SaveCheckpoints(o)
  PROVE  /\ scene' \in [Shots -> Scene] /\ TakesSeen(o) /\ Copies' /\ Refreshed(o)
         /\ \A s \in Shots : scene'[s].status = "regenerating" => scene[s].status = "regenerating"
<1> DEFINE kept == {s \in Shots : Seen(o, s).status = "regeneration_failed" /\ Seen(o, s).follows}
           X == kept \cup {Min(op[o].scenes)}
           new == [s \in X |-> [Seen(o, s) EXCEPT !.status = "generated"]]
<1>1. X \in SUBSET Shots
  <2>1. op[o].scenes \in SUBSET Shots /\ op[o].scenes /= {}
    BY TaskFields, TaskIsLive DEF SaveCheckpoints
  <2>2. QED
    BY <2>1, MinInSet
<1>2. Writes(o, new) /\ HoldsAll(o, new)
  BY DEF SaveCheckpoints
<1>3. /\ new \in [X -> Scene] /\ DOMAIN new = X
      /\ \A s \in X : new[s].take = Seen(o, s).take /\ new[s].status = "generated"
  <2>1. \A s \in X : Seen(o, s) \in Scene
    BY <1>1, SeenType
  <2> HIDE DEF X
  <2>2. QED
    BY <2>1 DEF Scene
<1> HIDE DEF new, X
<1>4. new \in Held
  BY <1>1, <1>3, HeldIsFunction
<1>5. /\ scene' \in [Shots -> Scene] /\ TakesSeen(o)
      /\ \A s \in Shots : scene'[s].status = "regenerating" => scene[s].status = "regenerating"
  BY <1>2, <1>3, <1>4, WritesDoes DEF TakesSeen
<1>6. QED
  BY <1>2, <1>5, HoldsAllDoes

\* A version that is published locks every scene and changes nothing else.
LEMMA RenderedWrites ==
  ASSUME Base, NEW o \in Ops, Rendered(o)
  PROVE  /\ scene' \in [Shots -> Scene] /\ TakesSeen(o) /\ Forgets(o)
         /\ \A s \in Shots : scene'[s].status = scene[s].status
<1> DEFINE new == [s \in Shots |-> [Seen(o, s) EXCEPT !.locked = TRUE]]
<1>1. Forgets(o) /\ (Writes(o, new) \/ UNCHANGED scene)
  BY DEF Rendered
<1>2. /\ new \in [Shots -> Scene] /\ DOMAIN new = Shots
      /\ \A s \in Shots : new[s].take = Seen(o, s).take /\ new[s].status = Seen(o, s).status
  <2>1. \A s \in Shots : Seen(o, s) \in Scene
    BY SeenType
  <2>2. QED
    BY <2>1 DEF Scene
<1> HIDE DEF new
<1>3. new \in Held
  BY <1>2, HeldIsFunction
<1>4. CASE Writes(o, new)
  BY <1>1, <1>2, <1>3, <1>4, WritesDoes DEF TakesSeen
<1>5. CASE UNCHANGED scene
  BY <1>1, <1>5 DEF TakesSeen, Base, Core, Rows
<1>6. QED
  BY <1>1, <1>4, <1>5

\* The scene at work fails, and those that were seen to wait; no other is touched.
LEMMA FailJobWrites ==
  ASSUME Base, NEW o \in Ops, FailJob(o)
  PROVE  /\ scene' \in [Shots -> Scene] /\ TakesSeen(o) /\ Forgets(o)
         /\ \A s \in Shots : scene'[s].status = "regenerating" =>
              /\ scene[s].status = "regenerating"
              /\ o \in Regens /\ s \in op[o].scenes => Seen(o, s).status /= "regenerating"
<1> DEFINE X == {ex[o].at} \cup {s \in op[o].scenes : Seen(o, s).status = "regenerating"}
           new == [s \in X |-> [Seen(o, s) EXCEPT !.status = "regeneration_failed"]]
<1>1. X \in SUBSET Shots
  BY TaskFields
<1>2. /\ Forgets(o)
      /\ \/ o \in Regens /\ Writes(o, new)
         \/ o \notin Regens /\ UNCHANGED scene
  BY DEF FailJob, Failed
<1>3. /\ new \in [X -> Scene] /\ DOMAIN new = X
      /\ \A s \in X : new[s].take = Seen(o, s).take /\ new[s].status = "regeneration_failed"
  <2>1. \A s \in X : Seen(o, s) \in Scene
    BY <1>1, SeenType
  <2> HIDE DEF X
  <2>2. QED
    BY <2>1 DEF Scene
<1>4. \A s \in op[o].scenes : Seen(o, s).status = "regenerating" => s \in X
  OBVIOUS
<1> HIDE DEF new, X
<1>5. new \in Held
  BY <1>1, <1>3, HeldIsFunction
<1>6. CASE Writes(o, new)
  BY <1>2, <1>3, <1>4, <1>5, <1>6, WritesDoes DEF TakesSeen
<1>7. CASE o \notin Regens /\ UNCHANGED scene
  BY <1>2, <1>7 DEF TakesSeen, Base, Core, Rows
<1>8. QED
  BY <1>2, <1>6, <1>7

\* A task that ends forgets the scenes, whether it is cancelled or not.
LEMMA EndForgets ==
  ASSUME NEW o \in Ops, Rendered(o) \/ FailJob(o) \/ Interrupt(o)
  PROVE  Forgets(o)
BY DEF Rendered, FailJob, Interrupt

(***************************************************************************)
(* The steps of a task keep the base.                                      *)
(***************************************************************************)
\* Copies of the production that a task writes.
LEMMA CopyTypes ==
  ASSUME NEW mem \in Job, NEW status \in {"ready", "failed", "queued", "running"}
  PROVE  /\ [mem EXCEPT !.status = status] \in Job
         /\ [mem EXCEPT !.status = status, !.regen = NoOp] \in Job
         /\ [mem EXCEPT !.status = status, !.asm = NoOp] \in Job
         /\ [mem EXCEPT !.regen = NoOp] \in Job
         /\ [mem EXCEPT !.asm = NoOp] \in Job
         /\ \A shots \in [Shots -> Sources] : [mem EXCEPT !.status = status, !.shots = shots] \in Job
BY DEF Job

\* The takes that are accepted.
LEMMA AcceptedType ==
  ASSUME Base, NEW o \in Ops
  PROVE  AcceptedShots(o) \in [Shots -> Sources]
BY SeenType DEF Scene, AcceptedShots

\* Where a task goes on to when its scenes are done, or to the next one of them.
LEMMA NextShotMoves ==
  ASSUME Base, NEW o \in Ops, NEW e \in Task, NEW todo \in SUBSET Shots
  PROVE  /\ NextShot(e, todo) \in Task
         /\ NextShot(e, todo).stop = e.stop /\ NextShot(e, todo).mem = e.mem
         /\ NextShot(e, todo).todo = todo
         /\ todo = {} => NextShot(e, todo).pc = "checkpoint"
         /\ todo /= {} => NextShot(e, todo).pc = "veo" /\ NextShot(e, todo).at \in todo
<1>1. CASE todo = {}
  <2>1. NextShot(e, todo) = [e EXCEPT !.pc = "checkpoint", !.todo = {}]
    BY <1>1 DEF NextShot
  <2>2. QED
    BY <1>1, <2>1 DEF Task
<1>2. CASE todo /= {}
  <2>1. Min(todo) \in todo /\ Min(todo) \in Shots
    BY <1>2, MinInSet
  <2> DEFINE at == Min(todo)
  <2>2. NextShot(e, todo) = [e EXCEPT !.pc = "veo", !.todo = todo, !.at = at, !.tries = 0]
    BY <1>2 DEF NextShot
  <2> HIDE DEF at
  <2>3. 0 \in 0..NativeRetries /\ at \in Shots /\ at \in todo
    BY <2>1 DEF at
  <2>4. [e EXCEPT !.pc = "veo", !.todo = todo, !.at = at, !.tries = 0] \in Task
    BY <2>3 DEF Task, Awaits
  <2>5. QED
    BY <1>2, <2>2, <2>3, <2>4 DEF Task
<1>3. QED
  BY <1>1, <1>2

\* A row whose status changes.
LEMMA StatusType ==
  ASSUME Base, NEW o \in Ops, NEW status \in {"none", "queued", "running", "completed", "failed"},
         op' = [op EXCEPT ![o].status = status]
  PROVE  \E w \in OpRow : op' = [op EXCEPT ![o] = w] /\ w.status = status /\ w.scenes = op[o].scenes
<1> DEFINE w == [op[o] EXCEPT !.status = status]
<1>1. op[o] \in OpRow
  BY TaskFields
<1>2. w \in OpRow /\ w.status = status /\ w.scenes = op[o].scenes
  BY <1>1 DEF OpRow
<1>3. op' = [op EXCEPT ![o] = w]
  OBVIOUS
<1>4. QED
  BY <1>2, <1>3

\* A regeneration starts with its first scene, or finds it locked.
LEMMA StartRegenerationBase ==
  ASSUME Base, NEW o \in Ops, StartRegeneration(o)
  PROVE  Core'
<1> DEFINE first == Min(op[o].scenes)
           data == [job EXCEPT !.status = "running"]
<1>1. o \in Regens /\ ex[o].pc = "start" /\ ~ex[o].stop /\ ex[o].pc /= "off"
  BY DEF StartRegeneration, Runs, Awaits
<1>2. /\ ex[o] \in Task /\ op[o] \in OpRow /\ op[o].scenes \in SUBSET Shots /\ op[o].scenes /= {}
      /\ job \in Job /\ ex[o].todo = {} /\ Open(op[o])
  BY <1>1, TaskFields, TaskIsLive DEF Base, Core, Rows, Fits
<1>3. first \in op[o].scenes /\ first \in Shots
  BY <1>2, MinInSet
<1>4. UNCHANGED <<latest, takes, book, wallet, req, appr, host, timer, used>>
  BY DEF StartRegeneration
<1>5. CASE scene[first].locked
  <2> DEFINE e == [ex[o] EXCEPT !.pc = "failing", !.mem = job, !.at = first]
  <2>1. e \in Task /\ e.pc = "failing" /\ e.stop = ex[o].stop
    <3> HIDE DEF first
    <3>1. QED
      BY <1>2, <1>3 DEF Task
  <2>2. ex' = [ex EXCEPT ![o] = e] /\ UNCHANGED <<job, scene, op>>
    BY <1>5 DEF StartRegeneration, Step
  <2>3. Fits(o, e, op[o])
    <3> HIDE DEF e
    <3>1. QED
      BY <1>1, <1>2, <2>1 DEF Fits, AtTakes, Past, Released, Awaits
  <2>4. Life'
    <3> HIDE DEF e
    <3>1. QED
      BY <1>1, <1>4, <2>1, <2>2, <2>3, TaskStepAlone
  <2>5. QED
    BY <1>4, <2>2, <2>4, BaseKept DEF Base, Core
<1>6. CASE ~scene[first].locked
  <2> DEFINE e0 == [ex[o] EXCEPT !.mem = data]
             e == NextShot(e0, op[o].scenes)
  <2>1. data \in Job /\ e0 \in Task /\ e0.stop = ex[o].stop
    BY <1>2 DEF Job, Task
  <2>2. /\ scene' = [scene EXCEPT ![first].status = "regenerating"]
        /\ op' = [op EXCEPT ![o].status = "running"] /\ job' = data
        /\ ex' = [ex EXCEPT ![o] = e]
    BY <1>6 DEF StartRegeneration, Step
  <2>3. /\ e \in Task /\ e.stop = ex[o].stop /\ e.pc = "veo"
        /\ e.at \in e.todo /\ e.todo = op[o].scenes
    <3> HIDE DEF e0
    <3>1. QED
      BY <1>2, <2>1, NextShotMoves
  <2>4. PICK w \in OpRow : op' = [op EXCEPT ![o] = w] /\ w.status = "running" /\ w.scenes = op[o].scenes
    BY <2>2, StatusType
  <2>5. Fits(o, e, w)
    <3> HIDE DEF e
    <3>1. QED
      BY <1>1, <1>2, <2>3, <2>4 DEF Fits, AtTakes, Past, Released, Awaits
  <2>6. Life'
    <3> HIDE DEF e
    <3>1. QED
      BY <1>1, <1>4, <2>2, <2>3, <2>4, <2>5, TaskStep
  <2>7. scene' \in [Shots -> Scene]
    <3> HIDE DEF first
    <3>1. QED
      BY <1>3, <2>2 DEF Base, Core, Rows, Scene
  <2>8. Rows'
    BY <1>4, <2>1, <2>2, <2>7 DEF Base, Core, Rows
  <2>9. QED
    BY <1>4, <2>6, <2>8, BaseKept DEF Base, Core
<1>7. QED
  BY <1>5, <1>6

\* A task that goes on without a write keeps the lives when its place fits.
LEMMA GotoLife ==
  ASSUME Base, NEW o \in Ops, ex[o].pc /= "off", NEW pc \in PCs \ {"off"}, Goto(o, pc),
         \A e : Moved(o, e, pc) => Fits(o, e, op[o]),
         UNCHANGED <<op, req, host, timer>>
  PROVE  Life'
<1>1. PICK e : ex' = [ex EXCEPT ![o] = e] /\ Moved(o, e, pc)
  BY GotoMoves
<1>2. e \in Task /\ Fits(o, e, op[o])
  BY <1>1 DEF Moved
<1>3. QED
  BY <1>1, <1>2, TaskStepAlone

\* So does one that commits the production.
LEMMA CommitLife ==
  ASSUME Base, NEW o \in Ops, ex[o].pc /= "off", NEW pc \in PCs \ {"off"}, NEW data \in Job,
         Commit(o, pc, data), \A e : Moved(o, e, pc) => Fits(o, e, op[o]),
         UNCHANGED <<op, req, host, timer>>
  PROVE  Life' /\ job' \in Job
<1>1. job' \in Job
  BY CommitMoves
<1>2. PICK e : ex' = [ex EXCEPT ![o] = e] /\ Moved(o, e, pc)
  BY CommitMoves
<1>3. e \in Task /\ Fits(o, e, op[o])
  BY <1>2 DEF Moved
<1>4. Life'
  BY <1>2, <1>3, TaskStepAlone
<1>5. QED
  BY <1>1, <1>4

\* A task that ends fits where its row has scenes.
LEMMA OffFits ==
  ASSUME NEW o, NEW w, w.status /= "none" => w.scenes /= {}
  PROVE  Fits(o, NoTask, w)
BY NoTaskType DEF Fits, AtTakes, Past, Released, Awaits

\* Buying and reviewing takes.
LEMMA TakesBase ==
  ASSUME Base, NEW o \in Ops, TakePasses(o) \/ TakeRejected(o) \/ ChargeRetake(o)
  PROVE  Core'
<1> USE BaseKept
<1>1. ex[o].pc \in {"veo", "charge"} /\ ~ex[o].stop /\ ex[o].pc /= "off"
  BY TaskFields DEF TakePasses, TakeRejected, ChargeRetake, Reviewed, Runs, Awaits, Fits
<1>2. /\ ex[o] \in Task /\ Fits(o, ex[o], op[o]) /\ o \in Regens
      /\ op[o].status = "running" /\ op[o].scenes /= {} /\ ex[o].at \in ex[o].todo
  BY <1>1, TaskFields, TaskIsLive DEF Fits, Ops, AtTakes
<1>3. \A pc \in {"accept", "charge", "veo", "failing"} : \A e : Moved(o, e, pc) => Fits(o, e, op[o])
  BY <1>1, <1>2 DEF Moved, Fits, AtTakes, Past, Released, Awaits, Open
<1>4. \A pc \in {"accept", "charge", "veo", "failing"} : pc \in PCs \ {"off"}
  BY DEF PCs, Awaits
<1>5. UNCHANGED <<job, latest, op, req, appr, host, timer, used>>
  BY DEF TakePasses, TakeRejected, ChargeRetake
<1>6. Money'
  <2>1. CASE StoreAttempt(o) /\ UNCHANGED <<book, wallet>>
    BY <1>2, <2>1 DEF Base, Core, Money, StoreAttempt
  <2>2. CASE Pay(o, TakeCents) /\ UNCHANGED takes
    <3>1. Charged(book[o], TakeCents) \in Book
      BY <1>2, BookTypes DEF Base, Core, Money
    <3>2. wallet' \in Int
      BY <2>2 DEF Base, Core, Money, Pay
    <3>3. QED
      BY <1>2, <2>2, <3>1, <3>2 DEF Base, Core, Money, Pay
  <2>3. CASE UNCHANGED <<takes, book, wallet>>
    BY <2>3
  <2>4. QED
    BY <2>1, <2>2, <2>3 DEF TakePasses, TakeRejected, ChargeRetake
<1>7. Life'
  <2>1. ASSUME NEW pc \in {"accept", "charge", "veo", "failing"}, Goto(o, pc) PROVE Life'
    BY <1>1, <1>3, <1>4, <1>5, <2>1, GotoLife
  <2>2. ASSUME ex[o].tries < NativeRetries,
               Step(o, [ex[o] EXCEPT !.pc = "charge", !.tries = @ + 1])
        PROVE  Life'
    <3> DEFINE e == [ex[o] EXCEPT !.pc = "charge", !.tries = @ + 1]
    <3>1. ex[o].tries \in 0..NativeRetries /\ ex[o].tries + 1 \in 0..NativeRetries
      BY <2>2, TaskFields
    <3>2. e \in Task /\ e.pc = "charge" /\ e.at = ex[o].at /\ e.todo = ex[o].todo /\ e.stop = ex[o].stop
      BY <1>2, <3>1 DEF Task
    <3>3. ex' = [ex EXCEPT ![o] = e]
      BY <2>2 DEF Step
    <3> HIDE DEF e
    <3>4. Fits(o, e, op[o])
      BY <1>1, <1>2, <3>2 DEF Fits, AtTakes, Past, Released, Awaits, Open
    <3>5. QED
      BY <1>1, <1>5, <3>2, <3>3, <3>4, TaskStepAlone
  <2>3. QED
    BY <2>1, <2>2 DEF TakePasses, TakeRejected, ChargeRetake, Failing, Again
<1>8. scene' \in [Shots -> Scene]
  BY AgainWrites DEF TakePasses, TakeRejected, ChargeRetake, Base, Core, Rows
<1>9. QED
  BY <1>5, <1>6, <1>7, <1>8 DEF Base, Core, Rows

\* A take is accepted.
LEMMA AcceptTakeBase ==
  ASSUME Base, NEW o \in Ops, AcceptTake(o)
  PROVE  Core'
<1>1. ex[o].pc = "accept" /\ ex[o].pc /= "off"
  BY DEF AcceptTake
<1>2. /\ ex[o] \in Task /\ op[o] \in OpRow /\ Fits(o, ex[o], op[o]) /\ o \in Regens /\ ~ex[o].stop
      /\ op[o].status = "running" /\ op[o].scenes /= {}
      /\ ex[o].at \in Shots /\ ex[o].todo \in SUBSET Shots
  BY <1>1, TaskFields, TaskIsLive DEF Fits, Ops, AtTakes, Awaits
<1> DEFINE s == ex[o].at
           e == NextShot(ex[o], ex[o].todo \ {s})
<1>3. /\ ex' = [ex EXCEPT ![o] = e]
      /\ UNCHANGED <<job, latest, op, takes, book, wallet, req, appr, host, timer, used>>
  BY DEF AcceptTake, Step
<1>4. Rows'
  BY <1>2, <1>3, AcceptTakeWrites DEF Base, Core, Rows
<1>5. e \in Task /\ e.stop = ex[o].stop /\ Fits(o, e, op[o])
  <2>1. /\ e \in Task /\ e.stop = ex[o].stop
        /\ \/ e.pc = "checkpoint" /\ e.todo = {}
           \/ e.pc = "veo" /\ e.at \in e.todo /\ e.todo \subseteq ex[o].todo
    <3>1. ex[o].todo \ {s} \in SUBSET Shots
      BY <1>2
    <3>2. QED
      BY <1>2, <3>1, NextShotMoves
  <2> HIDE DEF e
  <2>2. QED
    BY <1>1, <1>2, <2>1 DEF Fits, AtTakes, Past, Released, Awaits, Open
<1>6. Life'
  <2> HIDE DEF e
  <2>1. QED
    BY <1>1, <1>3, <1>5, TaskStepAlone
<1>7. QED
  BY <1>3, <1>4, <1>6, BaseKept DEF Base, Core

\* Checkpoints, voice and costs are saved.
LEMMA SavesBase ==
  ASSUME Base, NEW o \in Ops, SaveCheckpoints(o) \/ Voiced(o) \/ SaveCosts(o)
  PROVE  Core'
<1>1. ex[o].pc \in {"checkpoint", "voice", "costs", "settle"} /\ ex[o].pc /= "off" /\ ~ex[o].stop
  BY TaskFields DEF SaveCheckpoints, Voiced, SaveCosts, Runs, Awaits, Fits
<1>2. /\ ex[o].mem \in Job /\ Fits(o, ex[o], op[o]) /\ op[o].status = "running" /\ op[o].scenes /= {}
      /\ ex[o].todo = {} /\ ~ex[o].stop
  BY <1>1, TaskFields, TaskIsLive DEF Fits, Past
<1>3. \A pc \in {"voice", "costs", "render"} : \A e : Moved(o, e, pc) => Fits(o, e, op[o])
  BY <1>1, <1>2 DEF Moved, Fits, AtTakes, Past, Released, Awaits, Open
<1>4. o \in Regens => \A e : Moved(o, e, "fetch") => Fits(o, e, op[o])
  BY <1>1, <1>2 DEF Moved, Fits, AtTakes, Past, Released, Awaits, Open
<1>5. \A pc \in {"voice", "costs", "render", "fetch"} : pc \in PCs \ {"off"}
  BY DEF PCs, Awaits
<1>6. UNCHANGED <<latest, op, takes, book, wallet, req, appr, host, timer, used>>
  BY DEF SaveCheckpoints, Voiced, SaveCosts
<1>7. PICK pc \in {"voice", "costs", "render", "fetch"}, data \in Job :
        Commit(o, pc, data) /\ (pc = "fetch" => o \in Regens)
  <2>1. CASE SaveCheckpoints(o)
    BY Zenon, <1>2, <2>1, CopyTypes, AcceptedType DEF SaveCheckpoints
  <2>2. CASE Voiced(o)
    BY Zenon, <1>2, <2>2, CopyTypes DEF Voiced
  <2>3. CASE SaveCosts(o)
    BY Zenon, <1>2, <2>3, CopyTypes DEF SaveCosts
  <2>4. QED
    BY <2>1, <2>2, <2>3
<1>8. Life' /\ job' \in Job
  BY <1>1, <1>3, <1>4, <1>5, <1>6, <1>7, CommitLife
<1>9. Rows'
  <2>1. scene' \in [Shots -> Scene]
    BY SaveCheckpointsWrites DEF Voiced, SaveCosts, Base, Core, Rows
  <2>2. QED
    BY <1>6, <1>8, <2>1 DEF Base, Core, Rows
<1>10. QED
  BY <1>6, <1>8, <1>9, BaseKept DEF Base, Core

\* The takes are fetched, and what they cost is settled.
LEMMA SettleBase ==
  ASSUME Base, NEW o \in Ops, Fetched(o) \/ \E r \in Regens : Settle(o, r)
  PROVE  Core'
<1>1. ex[o].pc \in {"fetch", "settle"} /\ ex[o].pc /= "off" /\ ~ex[o].stop
  BY TaskFields DEF Fetched, Settle, Runs, Awaits, Fits
<1>2. /\ ex[o] \in Task /\ Fits(o, ex[o], op[o]) /\ o \in Regens /\ op[o].status = "running"
      /\ op[o].scenes /= {} /\ ex[o].todo = {}
  BY <1>1, TaskFields, TaskIsLive DEF Fits, Past, Ops
<1>3. UNCHANGED <<job, scene, latest, op, takes, req, appr, host, timer, used>>
  BY DEF Fetched, Settle
<1>4. PICK refs \in SUBSET Regens : ex' = [ex EXCEPT ![o] = [ex[o] EXCEPT !.pc = "settle", !.refs = refs]]
  <2>1. CASE Fetched(o)
    BY <2>1 DEF Fetched, Step, SettledReferences
  <2>2. CASE \E r \in Regens : Settle(o, r)
    <3>1. PICK r \in Regens : Settle(o, r)
      BY <2>2
    <3>2. ex[o].refs \in SUBSET Regens /\ ex[o].pc = "settle"
      BY <3>1, TaskFields DEF Settle
    <3>3. [ex[o] EXCEPT !.refs = @ \ {r}] = [ex[o] EXCEPT !.pc = "settle", !.refs = ex[o].refs \ {r}]
      BY <1>2, <3>2 DEF Task
    <3>4. QED
      BY <3>1, <3>2, <3>3 DEF Settle, Step
  <2>3. QED
    BY <2>1, <2>2
<1> DEFINE e == [ex[o] EXCEPT !.pc = "settle", !.refs = refs]
<1>5. e \in Task /\ e.pc = "settle" /\ e.stop = ex[o].stop /\ e.todo = ex[o].todo
  BY <1>2 DEF Task
<1>6. Life'
  <2> HIDE DEF e
  <2>1. Fits(o, e, op[o])
    BY <1>1, <1>2, <1>5 DEF Fits, AtTakes, Past, Released, Awaits, Open
  <2>2. ex' = [ex EXCEPT ![o] = e]
    BY <1>4 DEF e
  <2>3. QED
    BY <1>1, <1>3, <1>5, <2>1, <2>2, TaskStepAlone
<1>7. Money'
  <2>1. CASE Fetched(o)
    BY <2>1, BaseKept DEF Fetched
  <2>2. ASSUME NEW r \in Regens, Settle(o, r) PROVE Money'
    <3>1. book[r] \in Book /\ takes[r] \in Nat
      BY DEF Base, Core, Money
    <3>2. Outstanding(book[r]) \in Nat /\ takes[r] * TakeCents \in Nat
      BY <3>1, BookTypes
    <3>3. Settled(book[r], Outstanding(book[r]), takes[r] * TakeCents) \in Book
      BY <3>1, <3>2, BookTypes
    <3>4. book' \in [Regens -> Book]
      BY <2>2, <3>3 DEF Settle, Base, Core, Money
    <3>5. Net(book'[r]) \in Int /\ Net(book[r]) \in Int
      BY <3>1, <3>4, BookTypes
    <3>6. QED
      BY <2>2, <3>4, <3>5 DEF Settle, Base, Core, Money
  <2>3. QED
    BY <2>1, <2>2
<1>8. QED
  BY <1>3, <1>6, <1>7, BaseKept DEF Base, Core

\* A reassembly claims its row, or finds that the production is not its own.
LEMMA StartReassemblyBase ==
  ASSUME Base, NEW o \in Ops, StartReassembly(o)
  PROVE  Core'
<1>1. /\ o \in Assemblies /\ ex[o].pc = "start" /\ ~ex[o].stop /\ ex[o].pc /= "off"
      /\ UNCHANGED <<scene, latest, takes, book, wallet, req, appr, host, timer, used>>
  BY DEF StartReassembly, Runs, Awaits
<1>2. /\ ex[o] \in Task /\ op[o].scenes /= {} /\ job \in Job /\ ex[o].todo = {}
      /\ [job EXCEPT !.status = "running"] \in Job
  BY Zenon, <1>1, TaskFields, TaskIsLive, CopyTypes DEF Base, Core, Rows, Fits
<1>3. CASE job.asm = o
  <2> DEFINE data == [job EXCEPT !.status = "running"]
             e == [ex[o] EXCEPT !.pc = "voice", !.mem = data]
  <2> HIDE DEF data
  <2>1. data \in Job /\ job' = data
    BY <1>2, <1>3 DEF StartReassembly, data
  <2>2. e \in Task /\ e.pc = "voice" /\ e.todo = {} /\ e.stop = ex[o].stop
    BY <1>2, <2>1 DEF Task, Awaits
  <2>3. ex' = [ex EXCEPT ![o] = e]
    BY <1>3, <2>1 DEF StartReassembly, Step
  <2>4. PICK w \in OpRow : op' = [op EXCEPT ![o] = w] /\ w.status = "running" /\ w.scenes = op[o].scenes
    BY <1>3, StatusType DEF StartReassembly
  <2> HIDE DEF e
  <2>5. Fits(o, e, w)
    BY <1>1, <1>2, <2>2, <2>4 DEF Fits, AtTakes, Past, Released, Awaits
  <2>6. Life'
    BY <1>1, <2>2, <2>3, <2>4, <2>5, TaskStep
  <2>7. Rows'
    BY <1>1, <2>1 DEF Base, Core, Rows
  <2>8. QED
    BY <1>1, <2>6, <2>7, BaseKept DEF Base, Core
<1>4. CASE job.asm /= o
  <2>1. ex' = [ex EXCEPT ![o] = NoTask] /\ UNCHANGED job
    BY <1>4 DEF StartReassembly, Step
  <2>2. PICK w \in OpRow : op' = [op EXCEPT ![o] = w] /\ w.status = "failed" /\ w.scenes = op[o].scenes
    BY <1>4, StatusType DEF StartReassembly
  <2>3. Fits(o, NoTask, w)
    BY <1>2, <2>2, OffFits
  <2>4. Life'
    BY <1>1, <2>1, <2>2, <2>3, TaskStep, NoTaskType
  <2>5. QED
    BY <1>1, <2>1, <2>4, BaseKept DEF Base, Core
<1>5. QED
  BY <1>3, <1>4

\* The version is rendered, and its publication and last event are waited for.
LEMMA RenderedBase ==
  ASSUME Base, NEW o \in Ops, Rendered(o) \/ Told(o)
  PROVE  Core'
<1>1. ex[o].pc \in {"render", "tail"} /\ ex[o].pc /= "off" /\ ~ex[o].stop
  BY DEF Rendered, Told, Runs, Awaits
<1>2. /\ ex[o].mem \in Job /\ Fits(o, ex[o], op[o]) /\ op[o].status = "running" /\ op[o].scenes /= {}
      /\ ex[o].todo = {}
  BY <1>1, TaskFields, TaskIsLive DEF Fits, Past, Released
<1>3. \A e : Moved(o, e, "tail") => Fits(o, e, op[o])
  BY <1>1, <1>2 DEF Moved, Fits, AtTakes, Past, Released, Awaits, Open
<1>4. \A e : Moved(o, e, AfterTail(o)) => Fits(o, e, op[o])
  BY <1>1, <1>2 DEF Moved, Fits, AtTakes, Past, Released, Awaits, Open, AfterTail, Ops
<1>5. "tail" \in PCs \ {"off"} /\ AfterTail(o) \in PCs \ {"off"}
  BY DEF PCs, Awaits, AfterTail
<1>6. UNCHANGED <<op, takes, book, wallet, req, appr, host, timer, used>>
  BY DEF Rendered, Told
<1>7. CASE Told(o)
  <2>1. Goto(o, AfterTail(o)) /\ UNCHANGED <<job, scene, latest>>
    BY <1>7 DEF Told
  <2>2. Life'
    BY <1>1, <1>4, <1>5, <1>6, <2>1, GotoLife
  <2>3. QED
    BY <1>6, <2>1, <2>2, BaseKept DEF Base, Core
<1>8. CASE Rendered(o)
  <2>1. PICK pc \in {"tail", AfterTail(o)} : Commit(o, pc, [ex[o].mem EXCEPT !.status = "ready"])
    BY <1>8 DEF Rendered
  <2>2. [ex[o].mem EXCEPT !.status = "ready"] \in Job
    BY Zenon, <1>2, CopyTypes
  <2>3. Life' /\ job' \in Job
    BY <1>1, <1>3, <1>4, <1>5, <1>6, <2>1, <2>2, CommitLife
  <2>4. latest' \in [Shots -> Sources]
    <3>1. ex[o].mem.shots \in [Shots -> Sources]
      BY <1>2 DEF Job
    <3>2. QED
      BY <1>8, <3>1 DEF Rendered, Base, Core, Rows
  <2>5. scene' \in [Shots -> Scene]
    BY <1>8, RenderedWrites
  <2>6. QED
    BY <1>6, <2>3, <2>4, <2>5, BaseKept DEF Base, Core, Rows
<1>9. QED
  BY <1>7, <1>8

\* The job is given back and the row is completed.
LEMMA ReleaseBase ==
  ASSUME Base, NEW o \in Ops, Release(o)
  PROVE  Core'
<1>1. /\ ex[o].pc = "release" /\ ex[o].pc /= "off" /\ ~ex[o].stop
      /\ UNCHANGED <<scene, latest, op, takes, book, wallet, req, appr, host, timer, used>>
  BY TaskFields DEF Release, Fits, Awaits
<1>2. ex[o].mem \in Job /\ Fits(o, ex[o], op[o]) /\ op[o].scenes /= {} /\ ex[o].todo = {}
  BY <1>1, TaskFields, TaskIsLive DEF Fits, Released
<1>3. CASE o \in Regens
  <2>1. Commit(o, "complete", [ex[o].mem EXCEPT !.regen = NoOp])
    BY <1>3 DEF Release
  <2>2. \A e : Moved(o, e, "complete") => Fits(o, e, op[o])
    BY <1>1, <1>2, <1>3 DEF Moved, Fits, AtTakes, Past, Released, Awaits, Open
  <2>3. "complete" \in PCs \ {"off"} /\ [ex[o].mem EXCEPT !.regen = NoOp] \in Job
    BY Zenon, <1>2, CopyTypes DEF PCs
  <2>4. Life' /\ job' \in Job
    BY <1>1, <2>1, <2>2, <2>3, CommitLife
  <2>5. QED
    BY <1>1, <2>4, BaseKept DEF Base, Core, Rows
<1>4. CASE o \notin Regens
  <2>1. Commit(o, "off", [ex[o].mem EXCEPT !.asm = NoOp]) /\ [ex[o].mem EXCEPT !.asm = NoOp] \in Job
    BY Zenon, <1>2, <1>4, CopyTypes DEF Release
  <2>2. ex' = [ex EXCEPT ![o] = NoTask] /\ job' \in Job
    BY <1>2, <2>1, StoredFields DEF Commit, Step
  <2>3. Life'
    BY <1>1, <1>2, <2>2, OffFits, NoTaskType, TaskStepAlone
  <2>4. QED
    BY <1>1, <2>2, <2>3, BaseKept DEF Base, Core, Rows
<1>5. QED
  BY <1>3, <1>4

\* The row is completed.
LEMMA CompleteBase ==
  ASSUME Base, NEW o \in Ops, Complete(o)
  PROVE  Core'
<1>1. /\ ex[o].pc = "complete" /\ ex[o].pc /= "off" /\ ~ex[o].stop
      /\ UNCHANGED <<job, scene, latest, takes, book, wallet, req, appr, host, timer, used>>
  BY TaskFields DEF Complete, Fits, Awaits
<1>2. ex[o] \in Task /\ op[o].scenes /= {} /\ ex[o].todo = {}
  BY <1>1, TaskFields, TaskIsLive DEF Fits, Released
<1>3. PICK w \in OpRow : op' = [op EXCEPT ![o] = w] /\ w.status = "completed" /\ w.scenes = op[o].scenes
  BY StatusType DEF Complete
<1>4. PICK e \in Task : ex' = [ex EXCEPT ![o] = e] /\ Fits(o, e, w)
  <2>1. CASE o \in Regens
    <3>1. ex' = [ex EXCEPT ![o] = NoTask]
      BY <2>1 DEF Complete, Goto, Step
    <3>2. QED
      BY <1>2, <1>3, <3>1, OffFits, NoTaskType
  <2>2. CASE o \notin Regens
    <3>1. Goto(o, "release") /\ "release" \in PCs \ {"off"}
      BY <2>2 DEF Complete, PCs
    <3>2. PICK e : ex' = [ex EXCEPT ![o] = e] /\ Moved(o, e, "release")
      BY <3>1, GotoMoves
    <3>3. Fits(o, e, w)
      BY <1>1, <1>2, <1>3, <2>2, <3>2 DEF Moved, Fits, AtTakes, Past, Released, Awaits, Open
    <3>4. QED
      BY <3>2, <3>3 DEF Moved
  <2>3. QED
    BY <2>1, <2>2
<1>5. Life'
  BY <1>1, <1>3, <1>4, TaskStep
<1>6. QED
  BY <1>1, <1>5, BaseKept DEF Base, Core

\* What a task awaits raises.
LEMMA RaiseBase ==
  ASSUME Base, NEW o \in Ops, Raise(o)
  PROVE  Core'
<1>1. /\ ex[o].pc \in {"veo", "voice", "fetch", "render"} /\ ex[o].pc /= "off" /\ ~ex[o].stop
      /\ Goto(o, "failing") /\ "failing" \in PCs \ {"off"}
      /\ UNCHANGED <<job, scene, latest, op, takes, book, wallet, req, appr, host, timer>>
  BY DEF Raise, Runs, Failing, Awaits, PCs
<1>2. Fits(o, ex[o], op[o]) /\ op[o].status = "running" /\ op[o].scenes /= {}
  BY <1>1, TaskFields, TaskIsLive DEF Fits, AtTakes, Past
<1>3. \A e : Moved(o, e, "failing") => Fits(o, e, op[o])
  BY <1>1, <1>2 DEF Moved, Fits, AtTakes, Past, Released, Awaits, Open
<1>4. Life'
  BY <1>1, <1>3, GotoLife
<1>5. Rest'
  BY <1>1 DEF Raise, Spend, Base, Core, Rest
<1>6. QED
  BY <1>1, <1>4, <1>5, BaseKept DEF Base, Core

\* The row of a failing operation is failed.
LEMMA FailOperationBase ==
  ASSUME Base, NEW o \in Ops, FailOperation(o)
  PROVE  Core'
<1>1. /\ ex[o].pc = "failing" /\ ex[o].pc /= "off" /\ ~ex[o].stop
      /\ Goto(o, "failJob") /\ "failJob" \in PCs \ {"off"}
      /\ UNCHANGED <<job, scene, latest, takes, book, wallet, req, appr, host, timer, used>>
  BY TaskFields DEF FailOperation, PCs, Fits, Awaits
<1>2. Fits(o, ex[o], op[o]) /\ op[o].scenes /= {}
  BY <1>1, TaskFields, TaskIsLive
<1>3. PICK w \in OpRow : op' = [op EXCEPT ![o] = w] /\ w.status = "failed" /\ w.scenes = op[o].scenes
  BY StatusType DEF FailOperation
<1>4. PICK e : ex' = [ex EXCEPT ![o] = e] /\ Moved(o, e, "failJob")
  BY <1>1, GotoMoves
<1>5. e \in Task /\ Fits(o, e, w)
  BY <1>1, <1>2, <1>3, <1>4 DEF Moved, Fits, AtTakes, Past, Released, Awaits, Open
<1>6. Life'
  BY <1>1, <1>3, <1>4, <1>5, TaskStep
<1>7. QED
  BY <1>1, <1>6, BaseKept DEF Base, Core

\* The production is failed, and the scenes that wait are marked.
LEMMA FailJobBase ==
  ASSUME Base, NEW o \in Ops, FailJob(o)
  PROVE  Core'
<1>1. /\ ex[o].pc = "failJob" /\ ex[o].pc /= "off" /\ ~ex[o].stop
      /\ UNCHANGED <<latest, op, takes, book, wallet, req, appr, host, timer, used>>
  BY TaskFields DEF FailJob, Fits, Awaits
<1>2. /\ ex[o].mem \in Job /\ Fits(o, ex[o], op[o]) /\ op[o].status = "failed" /\ op[o].scenes /= {}
  BY <1>1, TaskFields, TaskIsLive DEF Fits
<1>3. PICK data \in Job : Commit(o, IF o \in Regens THEN "refund" ELSE "off", data)
  BY Zenon, <1>2, CopyTypes DEF FailJob
<1>4. Life' /\ job' \in Job
  <2>1. CASE o \in Regens
    <3>1. \A e : Moved(o, e, "refund") => Fits(o, e, op[o])
      BY <1>1, <1>2, <2>1 DEF Moved, Fits, AtTakes, Past, Released, Awaits, Open
    <3>2. "refund" \in PCs \ {"off"}
      BY DEF PCs
    <3>3. QED
      BY <1>1, <1>3, <2>1, <3>1, <3>2, CommitLife
  <2>2. CASE o \notin Regens
    <3>1. ex' = [ex EXCEPT ![o] = NoTask] /\ job' \in Job
      BY <1>2, <1>3, <2>2, StoredFields DEF Commit, Step
    <3>2. QED
      BY <1>1, <1>2, <3>1, OffFits, NoTaskType, TaskStepAlone
  <2>3. QED
    BY <2>1, <2>2
<1>5. scene' \in [Shots -> Scene]
  BY FailJobWrites
<1>6. QED
  BY <1>1, <1>4, <1>5, BaseKept DEF Base, Core, Rows

\* The wallet and a book when cents go back to the wallet.
LEMMA BookReturns ==
  ASSUME Base, NEW r \in Regens, NEW b \in Book, book' = [book EXCEPT ![r] = b],
         wallet' = wallet + Net(book'[r]) - Net(book[r]), UNCHANGED takes
  PROVE  Money'
<1>1. book' \in [Regens -> Book] /\ book'[r] \in Book /\ book[r] \in Book
  BY DEF Base, Core, Money
<1>2. Net(book'[r]) \in Int /\ Net(book[r]) \in Int
  BY <1>1, BookTypes
<1>3. QED
  BY <1>1, <1>2 DEF Base, Core, Money

\* What a failed regeneration has paid is refunded.
LEMMA RefundFailureBase ==
  ASSUME Base, NEW o \in Ops, RefundFailure(o)
  PROVE  Core'
<1>1. /\ ex[o].pc = "refund" /\ ex[o].pc /= "off"
      /\ UNCHANGED <<job, scene, latest, op, takes, req, appr, host, timer, used>>
      /\ ex' = [ex EXCEPT ![o] = NoTask]
  BY OffMoves DEF RefundFailure
<1>2. Fits(o, ex[o], op[o]) /\ o \in Regens /\ op[o].scenes /= {}
  BY <1>1, TaskFields, TaskIsLive DEF Fits, Ops
<1>3. Money'
  <2>1. book[o] \in Book /\ Refunded(book[o]) \in Book
    BY <1>2, BookTypes DEF Base, Core, Money
  <2>2. QED
    BY <1>1, <1>2, <2>1, BookReturns DEF RefundFailure
<1>4. Life'
  BY <1>1, <1>2, OffFits, NoTaskType, TaskStepAlone
<1>5. QED
  BY <1>1, <1>3, <1>4, BaseKept DEF Base, Core

\* A task is cancelled: a reassembly that has started is queued again.
LEMMA InterruptBase ==
  ASSUME Base, NEW o \in Ops, Interrupt(o)
  PROVE  Core'
<1>1. /\ ex[o].pc \in Awaits /\ ex[o].pc /= "off"
      /\ UNCHANGED <<scene, latest, takes, book, wallet, req, appr, host, timer, used>>
  BY DEF Interrupt, Awaits
<1>2. ex[o].mem \in Job /\ op[o].scenes /= {} /\ op[o] \in OpRow
  BY <1>1, TaskFields, TaskIsLive
<1>3. ex' = [ex EXCEPT ![o] = NoTask]
  BY OffMoves DEF Interrupt
<1>4. job' \in Job
  <2>1. [ex[o].mem EXCEPT !.status = "queued"] \in Job
    BY Zenon, <1>2, CopyTypes
  <2>2. QED
    BY <1>2, <2>1, StoredFields DEF Interrupt, Commit, Base, Core, Rows
<1>5. Life'
  <2>1. CASE op' = [op EXCEPT ![o].status = "queued"]
    <3>1. PICK w \in OpRow : op' = [op EXCEPT ![o] = w] /\ w.scenes = op[o].scenes
      BY <2>1, StatusType
    <3>2. QED
      BY <1>1, <1>2, <1>3, <3>1, OffFits, NoTaskType, TaskStep
  <2>2. CASE UNCHANGED op
    BY <1>1, <1>2, <1>3, <2>2, OffFits, NoTaskType, TaskStepAlone
  <2>3. QED
    BY <2>1, <2>2 DEF Interrupt
<1>6. QED
  BY <1>1, <1>4, <1>5, BaseKept DEF Base, Core, Rows

(***************************************************************************)
(* The other steps keep the base.                                          *)
(***************************************************************************)
\* An operation that is requested has neither row nor task.
LEMMA NewIsOff ==
  ASSUME Base, NEW o \in Ops, op[o].status = "none"
  PROVE  ex[o].pc = "off" /\ o \notin timer /\ ~(req.pc /= "idle" /\ req.o = o)
<1>1. ex[o].pc = "off"
  BY TaskIsLive
<1>2. QED
  BY <1>1 DEF Base, Core, Life, TimerIsOff, RequestIsOff, Open

\* The parts of the lives when one operation's row and task are replaced.
LEMMA RowFits ==
  ASSUME Base, NEW o \in Ops, NEW e \in Task, NEW w \in OpRow, Fits(o, e, w),
         ex' = [ex EXCEPT ![o] = e], op' = [op EXCEPT ![o] = w]
  PROVE  /\ op' \in [Ops -> OpRow] /\ ex' \in [Ops -> Task] /\ AllFit'
         /\ ex'[o] = e /\ op'[o] = w
         /\ \A p \in Ops : p /= o => ex'[p] = ex[p] /\ op'[p] = op[p]
<1>1. op' \in [Ops -> OpRow] /\ ex' \in [Ops -> Task]
  BY DEF Base, Core, Life
<1>2. /\ ex'[o] = e /\ op'[o] = w
      /\ \A p \in Ops : p /= o => ex'[p] = ex[p] /\ op'[p] = op[p]
  BY DEF Base, Core, Life
<1>3. \A p \in Ops : Fits(p, ex'[p], op'[p])
  BY <1>2 DEF Base, Core, Life, AllFit
<1>4. QED
  BY <1>1, <1>2, <1>3 DEF AllFit

\* A regeneration is requested.
LEMMA BeginRegenerateBase ==
  ASSUME Base, NEW o \in Ops, BeginRegenerate(o)
  PROVE  Core'
<1>1. /\ o \in Regens /\ host = "up" /\ req.pc = "idle" /\ op[o].status = "none"
      /\ job' = [job EXCEPT !.status = "queued", !.regen = o]
      /\ req' = [pc |-> "charge", o |-> o, mem |-> job]
      /\ UNCHANGED <<scene, latest, takes, book, wallet, ex, appr, host, timer, used>>
  BY DEF BeginRegenerate, BeginRequest
<1>2. ex[o].pc = "off" /\ o \notin timer /\ ex[o] \in Task
  BY <1>1, NewIsOff, TaskFields
<1>3. PICK scenes \in Cascades : op' = [op EXCEPT ![o] = [status |-> "queued", scenes |-> scenes]]
  BY DEF BeginRegenerate
<1> DEFINE w == [status |-> "queued", scenes |-> scenes]
<1>4. scenes \in SUBSET Shots /\ scenes /= {}
  <2>1. ASSUME NEW s \in Shots PROVE {s} \subseteq Shots /\ s..NumScenes \subseteq Shots /\ s \in s..NumScenes
    BY DEF Shots
  <2>2. PICK s \in Shots : scenes \in {{s}, s..NumScenes}
    BY DEF Cascades
  <2>3. QED
    BY <2>1, <2>2
<1>5. w \in OpRow /\ w.status = "queued" /\ w.scenes /= {}
  BY <1>4 DEF OpRow
<1> HIDE DEF w
<1>6. Fits(o, ex[o], w)
  BY <1>1, <1>2, <1>5, TaskFields DEF Fits, AtTakes, Past, Released, Awaits
<1>7. ex' = [ex EXCEPT ![o] = ex[o]] /\ op' = [op EXCEPT ![o] = w]
  BY <1>1, <1>3 DEF Base, Core, Life, w
<1>8. /\ op' \in [Ops -> OpRow] /\ ex' \in [Ops -> Task] /\ AllFit'
      /\ op'[o] = w /\ \A p \in Ops : p /= o => op'[p] = op[p]
  BY ZenonT(30), <1>2, <1>5, <1>6, <1>7, RowFits
<1>9. job \in Job /\ job' \in Job
  BY <1>1 DEF Base, Core, Rows, Job
<1>10. req' \in Request
  BY <1>1, <1>9 DEF Request
<1>11. RequestIsOff'
  BY <1>1, <1>2, <1>5, <1>8 DEF RequestIsOff
<1>12. TimerIsOff' /\ DownIsOff'
  BY <1>1, <1>2, <1>8 DEF TimerIsOff, DownIsOff, Base, Core, Life
<1>13. Life'
  BY <1>1, <1>8, <1>10, <1>11, <1>12 DEF Base, Core, Life
<1>14. QED
  BY <1>1, <1>9, <1>13, BaseKept DEF Base, Core, Rows

\* A reassembly is requested and scheduled.
LEMMA ReassembleBase ==
  ASSUME Base, NEW o \in Ops, Reassemble(o)
  PROVE  Core'
<1>1. /\ o \in Assemblies /\ host = "up" /\ req.pc = "idle" /\ op[o].status = "none"
      /\ job' = [job EXCEPT !.status = "queued", !.asm = o]
      /\ UNCHANGED <<scene, latest, takes, book, wallet, req, appr, host, timer, used>>
  BY DEF Reassemble, BeginRequest
<1>2. ex[o].pc = "off" /\ o \notin timer
  BY <1>1, NewIsOff
<1> DEFINE w == [status |-> "queued", scenes |-> Shots]
           e == [NoTask EXCEPT !.pc = "start"]
<1>3. w \in OpRow /\ w.status = "queued" /\ w.scenes /= {}
  BY DEF OpRow, Shots
<1>4. e \in Task /\ e.pc = "start" /\ e.todo = {} /\ e.stop = FALSE
  BY StartTaskType
<1>5. ex' = [ex EXCEPT ![o] = e] /\ op' = [op EXCEPT ![o] = w]
  BY <1>2 DEF Reassemble, Step, Scheduled
<1> HIDE DEF w, e
<1>6. Fits(o, e, w)
  BY <1>1, <1>3, <1>4 DEF Fits, AtTakes, Past, Released, Awaits, Open
<1>7. /\ op' \in [Ops -> OpRow] /\ ex' \in [Ops -> Task] /\ AllFit'
      /\ op'[o] = w /\ \A p \in Ops : p /= o => ex'[p] = ex[p] /\ op'[p] = op[p]
  BY ZenonT(30), <1>3, <1>4, <1>5, <1>6, RowFits
<1>8. RequestIsOff' /\ TimerIsOff' /\ DownIsOff'
  BY <1>1, <1>2, <1>7 DEF RequestIsOff, TimerIsOff, DownIsOff, Base, Core, Life
<1>9. Life'
  BY <1>1, <1>7, <1>8 DEF Base, Core, Life
<1>10. job' \in Job
  BY <1>1 DEF Base, Core, Rows, Job
<1>11. QED
  BY <1>1, <1>9, <1>10, BaseKept DEF Base, Core, Rows

\* What a request that has claimed the production knows.
LEMMA RequestFields ==
  ASSUME Base, req.pc /= "idle"
  PROVE  /\ req \in Request /\ req.o \in Regens /\ req.o \in Ops /\ req.mem \in Job
         /\ op[req.o].status = "queued" /\ op[req.o] \in OpRow /\ op[req.o].scenes \in SUBSET Shots
         /\ op[req.o].scenes /= {} /\ ex[req.o] \in Task /\ ex[req.o].pc = "off" /\ req.o \notin timer
<1>1. /\ req \in Request /\ req.o \in Regens /\ op[req.o].status = "queued"
      /\ ex[req.o].pc = "off" /\ req.o \notin timer
  BY DEF Base, Core, Life, RequestIsOff
<1>2. req.o \in Ops /\ req.mem \in Job
  BY <1>1 DEF Ops, Request
<1>3. QED
  BY <1>1, <1>2, TaskFields DEF Fits

\* What a regeneration costs.
LEMMA PriceIsNat ==
  ASSUME Base, NEW o \in Ops
  PROVE  Price(o) \in Nat /\ Cardinality(op[o].scenes) \in Nat
<1>1. op[o].scenes \in SUBSET Shots /\ IsFiniteSet(Shots)
  BY TaskFields, FS_Interval DEF Shots
<1>2. Cardinality(op[o].scenes) \in Nat
  BY <1>1, FS_Subset, FS_CardinalityType
<1>3. QED
  BY <1>2 DEF Price

\* A regeneration is charged.
LEMMA ChargeRegenerationBase ==
  ASSUME Base, ChargeRegeneration
  PROVE  Core'
<1>1. /\ req.pc = "charge" /\ Pay(req.o, Price(req.o)) /\ req' = [req EXCEPT !.pc = "queue"]
      /\ UNCHANGED <<job, scene, latest, op, takes, ex, appr, host, timer, used>>
  BY DEF ChargeRegeneration
<1>2. req \in Request /\ req.o \in Regens /\ req.o \in Ops /\ Price(req.o) \in Nat
  BY <1>1, RequestFields, PriceIsNat
<1>3. Money'
  <2>1. Charged(book[req.o], Price(req.o)) \in Book
    BY <1>2, BookTypes DEF Base, Core, Money
  <2>2. wallet' \in Int
    BY <1>1, <1>2 DEF Base, Core, Money, Pay
  <2>3. QED
    BY <1>1, <1>2, <2>1, <2>2 DEF Base, Core, Money, Pay
<1>4. req' \in Request /\ req'.pc = "queue" /\ req'.o = req.o
  BY <1>1, <1>2 DEF Request
<1>5. Life'
  BY <1>1, <1>4 DEF Base, Core, Life, AllFit, RequestIsOff, TimerIsOff, DownIsOff
<1>6. QED
  BY <1>1, <1>3, <1>5, BaseKept DEF Base, Core

\* A claim that is not paid is taken back.
LEMMA ChargeRefusedBase ==
  ASSUME Base, ChargeRefused
  PROVE  Core'
<1>1. /\ req.pc = "charge" /\ req' = NoRequest
      /\ op' = [op EXCEPT ![req.o] = [status |-> "none", scenes |-> {}]]
      /\ job' = [req.mem EXCEPT !.regen = NoOp]
      /\ UNCHANGED <<scene, latest, takes, book, wallet, ex, appr, host, timer, used>>
  BY DEF ChargeRefused
<1>2. /\ req.o \in Ops /\ ex[req.o] \in Task /\ ex[req.o].pc = "off" /\ req.mem \in Job
      /\ req.o \notin timer
  BY <1>1, RequestFields
<1> DEFINE w == [status |-> "none", scenes |-> {}]
<1>3. w \in OpRow /\ w.status = "none"
  BY DEF OpRow
<1>4. ex' = [ex EXCEPT ![req.o] = ex[req.o]] /\ op' = [op EXCEPT ![req.o] = w]
  BY <1>1 DEF Base, Core, Life
<1> HIDE DEF w
<1>5. Fits(req.o, ex[req.o], w)
  BY <1>2, <1>3, TaskFields DEF Fits, AtTakes, Past, Released, Awaits
<1>6. /\ op' \in [Ops -> OpRow] /\ ex' \in [Ops -> Task] /\ AllFit'
      /\ \A p \in Ops : p /= req.o => op'[p] = op[p]
  BY ZenonT(30), <1>2, <1>3, <1>4, <1>5, RowFits
<1>7. req' \in Request /\ req'.pc = "idle"
  BY <1>1, NoJobType DEF NoRequest, Request
<1>8. RequestIsOff' /\ TimerIsOff' /\ DownIsOff'
  BY <1>1, <1>2, <1>6, <1>7 DEF RequestIsOff, TimerIsOff, DownIsOff, Base, Core, Life
<1>9. Life'
  BY <1>1, <1>6, <1>7, <1>8 DEF Base, Core, Life
<1>10. job' \in Job
  BY Zenon, <1>1, <1>2, CopyTypes
<1>11. QED
  BY <1>1, <1>9, <1>10, BaseKept DEF Base, Core, Rows

\* The scenes of a regeneration that is paid wait for it, with the takes that the
\* request has seen.
LEMMA QueueRegenerationWrites ==
  ASSUME Base, QueueRegeneration
  PROVE  /\ scene' \in [Shots -> Scene] /\ TakesSeen(req.o) /\ Forgets(req.o)
         /\ \A s \in Shots : scene'[s].status = "regenerating" =>
              s \in op[req.o].scenes \/ scene[s].status = "regenerating"
<1> DEFINE X == op[req.o].scenes
           new == [s \in X |-> [Seen(req.o, s) EXCEPT !.status = "regenerating", !.locked = FALSE]]
<1>1. req.o \in Ops /\ X \in SUBSET Shots
  BY RequestFields DEF QueueRegeneration
<1>2. Writes(req.o, new) /\ Forgets(req.o)
  BY DEF QueueRegeneration
<1>3. /\ new \in [X -> Scene] /\ DOMAIN new = X
      /\ \A s \in X : new[s].take = Seen(req.o, s).take
  <2>1. \A s \in X : Seen(req.o, s) \in Scene
    BY <1>1, SeenType
  <2> HIDE DEF X
  <2>2. QED
    BY <2>1 DEF Scene
<1> HIDE DEF new
<1>4. new \in Held
  BY <1>1, <1>3, HeldIsFunction
<1>5. QED
  BY <1>1, <1>2, <1>3, <1>4, WritesDoes DEF TakesSeen

\* A regeneration that is paid is queued.
LEMMA QueueRegenerationBase ==
  ASSUME Base, QueueRegeneration
  PROVE  Core'
<1>1. /\ req.pc = "queue" /\ req' = NoRequest
      /\ job' = [req.mem EXCEPT !.status = "queued", !.regen = req.o]
      /\ ex' = [ex EXCEPT ![req.o] = Scheduled(@)]
      /\ UNCHANGED <<latest, op, takes, book, wallet, appr, host, timer, used>>
  BY DEF QueueRegeneration
<1>2. /\ req.o \in Ops /\ req.o \in Regens /\ ex[req.o].pc = "off" /\ req.mem \in Job
      /\ op[req.o] \in OpRow /\ op[req.o].status = "queued" /\ op[req.o].scenes /= {}
      /\ req.o \notin timer
  BY <1>1, RequestFields
<1> DEFINE e == [NoTask EXCEPT !.pc = "start"]
<1>3. e \in Task /\ e.pc = "start" /\ e.todo = {} /\ e.stop = FALSE
  BY StartTaskType
<1>4. ex' = [ex EXCEPT ![req.o] = e] /\ op' = [op EXCEPT ![req.o] = op[req.o]]
  <2>1. Scheduled(ex[req.o]) = e
    BY <1>2 DEF Scheduled
  <2>2. QED
    BY <1>1, <1>2, <2>1 DEF Base, Core, Life
<1> HIDE DEF e
<1>5. Fits(req.o, e, op[req.o])
  BY <1>2, <1>3 DEF Fits, AtTakes, Past, Released, Awaits, Open, Ops
<1>6. /\ op' \in [Ops -> OpRow] /\ ex' \in [Ops -> Task] /\ AllFit'
      /\ \A p \in Ops : p /= req.o => ex'[p] = ex[p]
  BY ZenonT(30), <1>2, <1>3, <1>4, <1>5, RowFits
<1>7. req' \in Request /\ req'.pc = "idle"
  BY <1>1, NoJobType DEF NoRequest, Request
<1>8. RequestIsOff' /\ TimerIsOff' /\ DownIsOff'
  BY <1>1, <1>2, <1>6, <1>7 DEF RequestIsOff, TimerIsOff, DownIsOff, Base, Core, Life
<1>9. Life'
  BY <1>1, <1>6, <1>7, <1>8 DEF Base, Core, Life
<1>10. job' \in Job
  BY <1>1, <1>2 DEF Job
<1>11. scene' \in [Shots -> Scene]
  BY QueueRegenerationWrites
<1>12. QED
  BY <1>1, <1>9, <1>10, <1>11, BaseKept DEF Base, Core, Rows

\* A person approves the version: the check, then each scene is read and locked.
LEMMA ApproveBase ==
  ASSUME Base, BeginApprove \/ ReadScene \/ LockScene
  PROVE  Core'
<1>1. UNCHANGED <<job, latest, op, takes, book, wallet, ex, req, host, timer>>
  BY DEF BeginApprove, ReadScene, LockScene
<1>2. appr \in Approval /\ appr.at \in Shots /\ appr.row \in Scene /\ scene[appr.at] \in Scene
  BY DEF Base, Core, Rest, Approval, Rows
<1>3. 1 \in Shots /\ NewScene \in Scene /\ NoApproval \in Approval
  BY DEF Shots, NewScene, Scene, Sources, NoApproval, Approval
<1>4. Rest'
  <2>1. appr' \in Approval
    <3>1. CASE BeginApprove
      BY <1>3, <3>1 DEF BeginApprove, Approval
    <3>2. CASE ReadScene
      BY <1>2, <3>2 DEF ReadScene, Approval
    <3>3. CASE LockScene
      <4>1. appr.at /= NumScenes => appr.at + 1 \in Shots
        BY <1>2 DEF Shots
      <4>2. QED
        BY <1>2, <1>3, <3>3, <4>1 DEF LockScene, Approval
    <3>4. QED
      BY <3>1, <3>2, <3>3
  <2>2. used' \in [{"faults", "stops", "approvals"} -> Nat]
    BY DEF BeginApprove, ReadScene, LockScene, Spend, Base, Core, Rest
  <2>3. QED
    BY <2>1, <2>2 DEF Rest
<1>5. scene' \in [Shots -> Scene]
  <2>1. CASE BeginApprove \/ ReadScene
    BY <2>1 DEF BeginApprove, ReadScene, Base, Core, Rows
  <2>2. CASE LockScene
    <3> DEFINE new == [appr.row EXCEPT !.locked = TRUE, !.status = scene[appr.at].status]
    <3>1. new \in Scene
      BY <1>2 DEF Scene
    <3>2. scene' = [scene EXCEPT ![appr.at] = new]
      BY <2>2 DEF LockScene
    <3> HIDE DEF new
    <3>3. QED
      BY <1>2, <3>1, <3>2 DEF Base, Core, Rows
  <2>3. QED
    BY <2>1, <2>2
<1>6. QED
  BY <1>1, <1>4, <1>5, BaseKept DEF Base, Core, Rows

\* The instance begins to stop: every task is cancelled where it waits.
LEMMA ShutdownBase ==
  ASSUME Base, Shutdown
  PROVE  Core'
<1>1. /\ req.pc = "idle" /\ host' = "stopping" /\ timer' = {}
      /\ \A o \in Ops : ex[o].pc \in Awaits \cup {"off"}
      /\ ex' = [o \in Ops |-> [ex[o] EXCEPT !.stop = ex[o].pc /= "off"]]
      /\ UNCHANGED <<job, scene, latest, op, takes, book, wallet, req, appr>>
  BY DEF Shutdown
<1>2. Rest'
  BY DEF Shutdown, Spend, Base, Core, Rest
<1>3. ASSUME NEW o \in Ops
      PROVE  ex'[o] \in Task /\ Fits(o, ex'[o], op[o])
  <2>1. ex[o] \in Task /\ Fits(o, ex[o], op[o])
    BY TaskFields
  <2>2. ex[o].pc /= "off" => ex[o].pc \in Awaits
    BY <1>1
  <2> DEFINE stop == ex[o].pc /= "off"
  <2>3. stop \in BOOLEAN
    OBVIOUS
  <2>4. ex'[o] = [ex[o] EXCEPT !.stop = stop]
    BY <1>1
  <2> HIDE DEF stop
  <2>5. /\ ex'[o] \in Task /\ ex'[o].stop = stop /\ ex'[o].pc = ex[o].pc
        /\ ex'[o].todo = ex[o].todo /\ ex'[o].at = ex[o].at
    BY <2>1, <2>3, <2>4 DEF Task
  <2>6. QED
    BY <2>1, <2>2, <2>5 DEF Fits, stop
<1>4. ex' \in [Ops -> Task] /\ AllFit'
  <2>1. DOMAIN ex' = Ops /\ \A o \in Ops : ex'[o] \in Task
    BY <1>1, <1>3
  <2>2. ex' \in [Ops -> Task]
    BY <1>1, <2>1
  <2>3. QED
    BY <1>1, <1>3, <2>2 DEF AllFit
<1>5. RequestIsOff' /\ TimerIsOff' /\ DownIsOff'
  BY <1>1 DEF RequestIsOff, TimerIsOff, DownIsOff
<1>6. Life'
  BY <1>1, <1>4, <1>5 DEF Base, Core, Life
<1>7. QED
  BY <1>1, <1>2, <1>6, BaseKept DEF Base, Core

\* The instance is down when no task is left, and starts again.
LEMMA HostBase ==
  ASSUME Base, Host
  PROVE  Core'
<1>1. UNCHANGED <<job, scene, latest, op, takes, book, wallet, ex, req, appr, used>>
  BY DEF Host, Exit, Boot
<1>2. RequestIsOff' /\ AllFit'
  BY <1>1 DEF Host, Exit, Boot, RequestIsOff, AllFit, Base, Core, Life
<1>3. TimerIsOff' /\ DownIsOff'
  BY <1>1 DEF Host, Exit, Boot, TimerIsOff, DownIsOff, Base, Core, Life, Unfinished, Open
<1>4. timer' \subseteq Ops /\ host' \in {"up", "stopping", "down"}
  BY DEF Host, Exit, Boot, Unfinished, Base, Core, Life
<1>5. Life'
  BY <1>1, <1>2, <1>3, <1>4 DEF Base, Core, Life
<1>6. QED
  BY <1>1, <1>5, BaseKept DEF Base, Core

\* The timer of a restart schedules an operation.
LEMMA TimerFiresBase ==
  ASSUME Base, NEW o \in Ops, TimerFires(o)
  PROVE  Core'
<1>1. /\ o \in timer /\ host = "up" /\ req.pc = "idle" /\ timer' = timer \ {o}
      /\ UNCHANGED <<job, scene, latest, op, takes, book, wallet, req, appr, host, used>>
  BY DEF TimerFires
<1>2. ex[o].pc = "off" /\ Open(op[o]) /\ op[o] \in OpRow /\ Fits(o, ex[o], op[o])
  BY <1>1, TaskFields DEF Base, Core, Life, TimerIsOff
<1> DEFINE e == [NoTask EXCEPT !.pc = "start"]
<1>3. e \in Task /\ e.pc = "start" /\ e.todo = {} /\ e.stop = FALSE
  BY StartTaskType
<1>4. ex' = [ex EXCEPT ![o] = e] /\ op' = [op EXCEPT ![o] = op[o]]
  <2>1. Scheduled(ex[o]) = e
    BY <1>2 DEF Scheduled
  <2>2. QED
    BY <1>1, <2>1 DEF TimerFires, Step, Base, Core, Life
<1> HIDE DEF e
<1>5. Fits(o, e, op[o])
  BY <1>2, <1>3 DEF Fits, AtTakes, Past, Released, Awaits
<1>6. /\ op' \in [Ops -> OpRow] /\ ex' \in [Ops -> Task] /\ AllFit'
      /\ \A p \in Ops : p /= o => ex'[p] = ex[p]
  BY <1>2, <1>3, <1>4, <1>5, RowFits
<1>7. RequestIsOff' /\ TimerIsOff' /\ DownIsOff' /\ timer' \subseteq Ops
  BY <1>1, <1>6 DEF RequestIsOff, TimerIsOff, DownIsOff, Base, Core, Life
<1>8. Life'
  BY <1>1, <1>6, <1>7 DEF Base, Core, Life
<1>9. QED
  BY <1>1, <1>8, BaseKept DEF Base, Core

(***************************************************************************)
(* The first layer: types, and the lives of operations.                    *)
(***************************************************************************)
\* Before the first request nothing is claimed and no task is scheduled.
LEMMA InitBase == Init => Base
<1>1. SUFFICES ASSUME Init PROVE Base
  OBVIOUS
<1>2. job \in Job
  <2>1. PICK b \in Publishing : job = [NoJob EXCEPT !.publish = b]
    BY <1>1 DEF Init
  <2>2. QED
    BY <2>1, NoJobType DEF Job
<1>3. /\ scene \in [Shots -> Scene] /\ latest \in [Shots -> Sources]
      /\ NoApproval \in Approval /\ History
  BY <1>1 DEF Init, NewScene, Scene, Original, Sources, NoApproval, Approval, Shots, History
<1>4. Money
  BY <1>1 DEF Init, Money, NoCharges, Book
<1>5. Rest /\ Copies
  BY <1>1, <1>3, NothingHeldType DEF Init, Rest, Copies
<1>6. op \in [Ops -> OpRow] /\ ex \in [Ops -> Task]
  BY <1>1, NoTaskType DEF Init, OpRow
<1>7. req \in Request /\ req.pc = "idle"
  BY <1>1, NoJobType DEF Init, NoRequest, Request
<1>8. AllFit
  <2>1. \A o \in Ops : op[o].status = "none" /\ ex[o] = NoTask
    BY <1>1 DEF Init
  <2>2. QED
    BY <2>1, OffFits DEF AllFit
<1>9. RequestIsOff /\ TimerIsOff /\ DownIsOff
  BY <1>1, <1>7 DEF Init, RequestIsOff, TimerIsOff, DownIsOff
<1>10. Life
  BY <1>1, <1>6, <1>7, <1>8, <1>9 DEF Init, Life
<1>11. QED
  BY <1>2, <1>3, <1>4, <1>5, <1>10 DEF Base, Core, Rows

\* A step of an operation is one of these.
LEMMA WorkCases ==
  ASSUME NEW o \in Ops, Work(o) \/ TakeRejected(o) \/ Raise(o) \/ BeginRegenerate(o) \/ Reassemble(o)
  PROVE  \/ StartRegeneration(o)
         \/ TakePasses(o) \/ TakeRejected(o) \/ ChargeRetake(o)
         \/ AcceptTake(o)
         \/ SaveCheckpoints(o) \/ Voiced(o) \/ SaveCosts(o)
         \/ Fetched(o) \/ (\E r \in Regens : Settle(o, r))
         \/ StartReassembly(o)
         \/ Rendered(o) \/ Told(o)
         \/ Release(o) \/ Complete(o)
         \/ Raise(o) \/ FailOperation(o) \/ FailJob(o) \/ RefundFailure(o) \/ Interrupt(o)
         \/ TimerFires(o) \/ BeginRegenerate(o) \/ Reassemble(o)
BY DEF Work

\* Most steps of an operation use no scene.
LEMMA CopyStays ==
  ASSUME NEW o \in Ops,
         \/ TakePasses(o) \/ ChargeRetake(o) \/ Voiced(o) \/ SaveCosts(o) \/ Fetched(o)
         \/ (\E r \in Regens : Settle(o, r)) \/ StartReassembly(o) \/ Told(o) \/ Release(o)
         \/ Complete(o) \/ Raise(o) \/ FailOperation(o) \/ RefundFailure(o) \/ TimerFires(o)
         \/ Reassemble(o)
  PROVE  UNCHANGED <<scene, copy>>
BY DEF TakePasses, ChargeRetake, Voiced, SaveCosts, Fetched, Settle, StartReassembly, Told, Release,
       Complete, Raise, FailOperation, RefundFailure, TimerFires, Reassemble

\* Only an accepted take and an approval make history.
LEMMA HistoryStays ==
  ASSUME [Next]_vars
  PROVE  UNCHANGED <<accepted, lost>> \/ LockScene \/ \E o \in Ops : AcceptTake(o)
<1>1. ASSUME NEW o \in Ops, ~AcceptTake(o),
             Work(o) \/ TakeRejected(o) \/ Raise(o) \/ BeginRegenerate(o) \/ Reassemble(o)
      PROVE  UNCHANGED <<accepted, lost>>
  <2>1. CASE \/ StartRegeneration(o) \/ TakePasses(o) \/ TakeRejected(o) \/ ChargeRetake(o)
             \/ SaveCheckpoints(o) \/ Voiced(o) \/ SaveCosts(o) \/ Fetched(o)
             \/ (\E r \in Regens : Settle(o, r)) \/ StartReassembly(o) \/ Rendered(o) \/ Told(o)
    BY <2>1 DEF StartRegeneration, TakePasses, TakeRejected, ChargeRetake, SaveCheckpoints, Voiced,
                SaveCosts, Fetched, Settle, StartReassembly, Rendered, Told
  <2>2. CASE \/ Release(o) \/ Complete(o) \/ Raise(o) \/ FailOperation(o) \/ FailJob(o)
             \/ RefundFailure(o) \/ Interrupt(o) \/ TimerFires(o) \/ BeginRegenerate(o)
             \/ Reassemble(o)
    BY <2>2 DEF Release, Complete, Raise, FailOperation, FailJob, RefundFailure, Interrupt,
                TimerFires, BeginRegenerate, Reassemble
  <2>3. QED
    BY <1>1, <2>1, <2>2, WorkCases
<1>2. CASE Serve \/ Host \/ BeginApprove \/ Shutdown \/ UNCHANGED vars
  BY <1>2 DEF Serve, ChargeRegeneration, ChargeRefused, QueueRegeneration, ReadScene, Host, Exit,
              Boot, BeginApprove, Shutdown, vars
<1>3. QED
  BY <1>1, <1>2 DEF Next

\* Every step keeps the rows, the money and the lives.
LEMMA NextCore ==
  ASSUME Base, [Next]_vars
  PROVE  Core'
<1>1. ASSUME NEW o \in Ops,
             Work(o) \/ TakeRejected(o) \/ Raise(o) \/ BeginRegenerate(o) \/ Reassemble(o)
      PROVE  Core'
  BY <1>1, WorkCases, StartRegenerationBase, TakesBase, AcceptTakeBase, SavesBase, SettleBase,
     StartReassemblyBase, RenderedBase, ReleaseBase, CompleteBase, RaiseBase, FailOperationBase,
     FailJobBase, RefundFailureBase, InterruptBase, TimerFiresBase, BeginRegenerateBase, ReassembleBase
<1>2. CASE Serve \/ Host \/ BeginApprove \/ Shutdown
  BY <1>2, ChargeRegenerationBase, ChargeRefusedBase, QueueRegenerationBase, ApproveBase,
     HostBase, ShutdownBase DEF Serve
<1>3. CASE UNCHANGED vars
  BY <1>3, BaseKept DEF vars, Base, Core
<1>4. QED
  BY <1>1, <1>2, <1>3 DEF Next

\* A regeneration that is requested or starts holds what the rows say.
LEMMA BeginsHolding ==
  ASSUME Base, Core', NEW o \in Ops, StartRegeneration(o) \/ BeginRegenerate(o)
  PROVE  Copies' /\ OtherCopies(o) /\ \A s \in DOMAIN copy'[o] : copy'[o][s] = scene'[s]
<1>1. scene' \in [Shots -> Scene]
  BY DEF Core, Rows
<1>2. PICK scenes \in SUBSET Shots : Holds(o, scenes)
  <2>1. CASE StartRegeneration(o)
    <3>1. op[o].scenes \in SUBSET Shots /\ op[o].scenes /= {}
      BY <2>1, TaskFields, TaskIsLive DEF StartRegeneration
    <3>2. QED
      BY <2>1, <3>1, MinInSet DEF StartRegeneration
  <2>2. CASE BeginRegenerate(o)
    BY <2>2 DEF BeginRegenerate, Cascades, Shots
  <2>3. QED
    BY <2>1, <2>2
<1>3. QED
  BY <1>1, <1>2, HoldsDoes

\* A step of an operation leaves alone what the others hold.
LEMMA WorkCopies ==
  ASSUME Base, Core', NEW o \in Ops,
         Work(o) \/ TakeRejected(o) \/ Raise(o) \/ BeginRegenerate(o) \/ Reassemble(o)
  PROVE  Copies' /\ OtherCopies(o)
<1>1. CASE UNCHANGED copy
  BY <1>1 DEF Base, Copies, OtherCopies
<1>2. CASE StartRegeneration(o) \/ BeginRegenerate(o)
  BY <1>2, BeginsHolding
<1>3. CASE TakeRejected(o)
  BY <1>1, <1>3, AgainWrites DEF TakeRejected, Refreshed
<1>4. CASE AcceptTake(o)
  <2>1. o \in Regens
    BY <1>4, TaskFields DEF AcceptTake, Fits, AtTakes, Ops
  <2>2. QED
    BY <1>4, <2>1, AcceptTakeWrites DEF Refreshed
<1>5. CASE SaveCheckpoints(o)
  BY <1>5, SaveCheckpointsWrites DEF Refreshed
<1>6. CASE Rendered(o) \/ FailJob(o) \/ Interrupt(o)
  BY <1>6, EndForgets, ForgetsDoes
<1>7. CASE \/ TakePasses(o) \/ ChargeRetake(o) \/ Voiced(o) \/ SaveCosts(o) \/ Fetched(o)
           \/ (\E r \in Regens : Settle(o, r)) \/ StartReassembly(o) \/ Told(o) \/ Release(o)
           \/ Complete(o) \/ Raise(o) \/ FailOperation(o) \/ RefundFailure(o) \/ TimerFires(o)
           \/ Reassemble(o)
  BY <1>1, <1>7, CopyStays
<1>8. QED
  BY <1>2, <1>3, <1>4, <1>5, <1>6, <1>7, WorkCases

\* A request forgets its scenes when it ends.
LEMMA RequestForgets ==
  ASSUME Base, ChargeRefused \/ QueueRegeneration
  PROVE  Copies' /\ OtherCopies(req.o) /\ DOMAIN copy'[req.o] = {}
BY RequestFields, ForgetsDoes DEF ChargeRefused, QueueRegeneration

\* The steps of a request, of the host and of approvals keep the copies' types.
LEMMA ServeCopies ==
  ASSUME Base, Serve \/ Host \/ BeginApprove \/ Shutdown \/ UNCHANGED vars
  PROVE  Copies'
<1>1. CASE ChargeRefused \/ QueueRegeneration
  BY <1>1, RequestForgets
<1>2. CASE \/ ChargeRegeneration \/ ReadScene \/ LockScene \/ Host \/ BeginApprove \/ Shutdown
           \/ UNCHANGED vars
  BY <1>2 DEF ChargeRegeneration, ReadScene, LockScene, Host, Exit, Boot, BeginApprove, Shutdown,
              vars, Base, Copies
<1>3. QED
  BY <1>1, <1>2 DEF Serve

\* Every step keeps the base.
LEMMA NextBase == Base /\ [Next]_vars => Base'
<1>1. SUFFICES ASSUME Base, [Next]_vars PROVE Core' /\ Copies' /\ History'
  BY DEF Base
<1>2. Core'
  BY <1>1, NextCore
<1>3. Copies'
  BY <1>1, <1>2, WorkCopies, ServeCopies DEF Next
<1>4. History'
  <2>1. ASSUME NEW o \in Ops, AcceptTake(o) PROVE History'
    <3>1. o \in Sources /\ ex[o].at \in Shots
      BY <1>1, <2>1, TaskFields DEF AcceptTake, Fits, AtTakes, Ops, Sources
    <3>2. QED
      BY <1>1, <2>1, <3>1 DEF AcceptTake, Base, History
  <2>2. CASE LockScene
    BY <1>1, <2>2 DEF LockScene, Base, Core, Rest, Approval, History
  <2>3. CASE UNCHANGED <<accepted, lost>>
    BY <1>1, <2>3 DEF Base, History
  <2>4. QED
    BY <1>1, <2>1, <2>2, <2>3, HistoryStays
<1>5. QED
  BY <1>2, <1>3, <1>4

\* The base holds in every state.
THEOREM BaseHolds == Spec => []Base
<1>1. Init => Base
  BY InitBase
<1>2. Base /\ [Next]_vars => Base'
  BY NextBase
<1>3. QED
  BY <1>1, <1>2, PTL DEF Spec

\* The variables have their types, for any number of scenes and operations.
THEOREM TypeCorrect == Spec => []TypeOK
<1>1. Base => TypeOK
  BY BaseTypes
<1>2. QED
  BY <1>1, BaseHolds, PTL

(***************************************************************************)
(* What the steps of an operation do to its task, its row and the job.     *)
(***************************************************************************)
\* Only operation o is touched.
Others(o) == \A p \in Ops : p /= o => ex'[p] = ex[p] /\ op'[p] = op[p]

\* A task that goes on without a write.
LEMMA GotoDoes ==
  ASSUME Base, NEW o \in Ops, NEW pc \in PCs \ {"off"}, Goto(o, pc), UNCHANGED op
  PROVE  /\ Others(o) /\ ex'[o].pc = pc /\ ex'[o].mem = ex[o].mem
         /\ ex'[o].todo = ex[o].todo /\ ex'[o].refs = ex[o].refs /\ ex'[o].stop = ex[o].stop
<1>1. PICK e : ex' = [ex EXCEPT ![o] = e] /\ Moved(o, e, pc) /\ e.mem = ex[o].mem
  BY GotoMoves
<1>2. ex'[o] = e /\ Others(o)
  BY <1>1 DEF Base, Core, Life, Others
<1>3. QED
  BY <1>1, <1>2 DEF Moved

\* A task that commits and goes on.
LEMMA CommitDoes ==
  ASSUME Base, NEW o \in Ops, NEW pc \in PCs \ {"off"}, NEW data \in Job, Commit(o, pc, data),
         UNCHANGED op
  PROVE  /\ Others(o) /\ ex'[o].pc = pc /\ ex'[o].mem = job'
         /\ ex'[o].todo = ex[o].todo /\ ex'[o].refs = ex[o].refs /\ ex'[o].stop = ex[o].stop
         /\ job'.shots = data.shots /\ job'.publish = data.publish
         /\ job'.status = IF data.status /= ex[o].mem.status THEN data.status ELSE job.status
<1>1. job' = Stored(ex[o].mem, data) /\ ex[o].mem \in Job
  BY CommitMoves, TaskFields
<1>2. PICK e : ex' = [ex EXCEPT ![o] = e] /\ Moved(o, e, pc) /\ e.mem = job'
  BY CommitMoves
<1>3. ex'[o] = e /\ Others(o)
  BY <1>2 DEF Base, Core, Life, Others
<1>4. QED
  BY <1>1, <1>2, <1>3, StoredFields DEF Moved

\* A task that ends.
LEMMA OffDoes ==
  ASSUME Base, NEW o \in Ops, ex' = [ex EXCEPT ![o] = NoTask],
         op' = op \/ \E w : op' = [op EXCEPT ![o] = w]
  PROVE  Others(o) /\ ex'[o] = NoTask /\ ex'[o].pc = "off" /\ ~ex'[o].stop
<1>1. ex'[o] = NoTask /\ Others(o)
  BY DEF Base, Core, Life, Others
<1>2. QED
  BY <1>1, NoTaskType

\* Fields of copies that a task writes.
LEMMA CopyFields ==
  ASSUME NEW mem \in Job, NEW status
  PROVE  /\ [mem EXCEPT !.status = status].status = status
         /\ [mem EXCEPT !.status = status].publish = mem.publish
         /\ [mem EXCEPT !.status = status].shots = mem.shots
         /\ [mem EXCEPT !.status = status, !.regen = NoOp].status = status
         /\ [mem EXCEPT !.status = status, !.regen = NoOp].publish = mem.publish
         /\ [mem EXCEPT !.status = status, !.asm = NoOp].status = status
         /\ [mem EXCEPT !.status = status, !.asm = NoOp].publish = mem.publish
         /\ [mem EXCEPT !.regen = NoOp].status = mem.status
         /\ [mem EXCEPT !.regen = NoOp].publish = mem.publish
         /\ [mem EXCEPT !.asm = NoOp].status = mem.status
         /\ [mem EXCEPT !.asm = NoOp].publish = mem.publish
BY DEF Job

\* A regeneration starts, or finds its first scene locked.
LEMMA StartRegenerationDoes ==
  ASSUME Base, NEW o \in Ops, StartRegeneration(o)
  PROVE  /\ o \in Regens /\ ex[o].pc = "start" /\ ~ex[o].stop /\ ~ex'[o].stop /\ Others(o)
         /\ op'[o].scenes = op[o].scenes /\ job'.publish = job.publish /\ ex'[o].mem = job'
         /\ \A s \in Shots : scene'[s].take = scene[s].take
         /\ \/ ex'[o].pc = "failing" /\ UNCHANGED <<job, scene, op>>
            \/ /\ ex'[o].pc = "veo" /\ ex'[o].todo = op[o].scenes
               /\ op'[o].status = "running" /\ job'.status = "running"
               /\ \A s \in Shots : scene'[s].status = "regenerating" =>
                    s \in op[o].scenes \/ scene[s].status = "regenerating"
<1> DEFINE first == Min(op[o].scenes)
           data == [job EXCEPT !.status = "running"]
<1>1. o \in Regens /\ ex[o].pc = "start" /\ ~ex[o].stop /\ ex[o].pc /= "off"
  BY DEF StartRegeneration, Runs, Awaits
<1>2. /\ ex[o] \in Task /\ op[o] \in OpRow /\ op[o].scenes \in SUBSET Shots /\ op[o].scenes /= {}
      /\ job \in Job
  BY <1>1, TaskFields, TaskIsLive DEF Base, Core, Rows
<1>3. first \in op[o].scenes /\ first \in Shots
  BY <1>2, MinInSet
<1>4. CASE scene[first].locked
  <2> DEFINE e == [ex[o] EXCEPT !.pc = "failing", !.mem = job, !.at = first]
  <2>1. e.pc = "failing" /\ e.stop = ex[o].stop /\ e.mem = job
    <3> HIDE DEF first
    <3>1. QED
      BY <1>2 DEF Task
  <2>2. ex' = [ex EXCEPT ![o] = e] /\ UNCHANGED <<job, scene, op>>
    BY <1>4 DEF StartRegeneration, Step
  <2> HIDE DEF e
  <2>3. ex'[o] = e /\ Others(o)
    BY <2>2 DEF Base, Core, Life, Others
  <2>4. QED
    BY <1>1, <2>1, <2>2, <2>3
<1>5. CASE ~scene[first].locked
  <2> DEFINE e0 == [ex[o] EXCEPT !.mem = data]
             e == NextShot(e0, op[o].scenes)
  <2>1. data \in Job /\ data.status = "running" /\ data.publish = job.publish
    BY <1>2 DEF Job
  <2>2. e0 \in Task /\ e0.stop = ex[o].stop /\ e0.mem = data
    <3> HIDE DEF data
    <3>1. QED
      BY <1>2, <2>1 DEF Task
  <2>3. /\ scene' = [scene EXCEPT ![first].status = "regenerating"]
        /\ op' = [op EXCEPT ![o].status = "running"] /\ job' = data
        /\ ex' = [ex EXCEPT ![o] = e]
    BY <1>5 DEF StartRegeneration, Step
  <2>4. e.stop = ex[o].stop /\ e.pc = "veo" /\ e.mem = data /\ e.todo = op[o].scenes
    <3> HIDE DEF e0, data
    <3>1. QED
      BY <1>2, <2>2, NextShotMoves
  <2> HIDE DEF e0, e, data
  <2>5. ex'[o] = e /\ Others(o) /\ op'[o].status = "running" /\ op'[o].scenes = op[o].scenes
    BY <1>2, <2>3 DEF Base, Core, Life, Others, OpRow
  <2>6. \A s \in Shots : /\ scene'[s].take = scene[s].take
                         /\ s /= first => scene'[s].status = scene[s].status
    <3> HIDE DEF first
    <3>1. QED
      BY <1>3, <2>3 DEF Base, Core, Rows, Scene
  <2>7. QED
    BY <1>1, <1>3, <2>1, <2>3, <2>4, <2>5, <2>6
<1>6. QED
  BY <1>4, <1>5

\* A task that reviews, charges or accepts a take is that of a regeneration.
LEMMA AtTakesFacts ==
  ASSUME Base, NEW o \in Ops, ex[o].pc \in AtTakes
  PROVE  /\ o \in Regens /\ ex[o] \in Task /\ ex[o].pc /= "off" /\ op[o].status = "running"
         /\ ex[o].at \in ex[o].todo /\ ex[o].todo \in SUBSET Shots
<1>1. Fits(o, ex[o], op[o]) /\ ex[o] \in Task /\ ex[o].todo \in SUBSET Shots
  BY TaskFields
<1>2. QED
  BY <1>1 DEF Fits, AtTakes, Ops

\* A take passes its reviews.
LEMMA TakePassesDoes ==
  ASSUME Base, NEW o \in Ops, TakePasses(o)
  PROVE  /\ o \in Regens /\ ex[o].pc = "veo" /\ ex'[o].pc = "accept"
         /\ ex'[o].todo = ex[o].todo /\ ex'[o].mem = ex[o].mem /\ ex'[o].stop = ex[o].stop
         /\ Others(o) /\ UNCHANGED <<job, scene, op, book>> /\ StoreAttempt(o)
<1>1. ex[o].pc = "veo" /\ Goto(o, "accept") /\ UNCHANGED <<job, scene, op, book>> /\ StoreAttempt(o)
  BY DEF TakePasses, Reviewed
<1>2. "accept" \in PCs \ {"off"} /\ ex[o].pc \in AtTakes
  BY <1>1 DEF PCs, AtTakes
<1>3. QED
  BY <1>1, <1>2, GotoDoes, AtTakesFacts

\* A take is rejected: another one is charged, or the operation fails.
LEMMA TakeRejectedDoes ==
  ASSUME Base, NEW o \in Ops, TakeRejected(o)
  PROVE  /\ o \in Regens /\ ex[o].pc = "veo" /\ ex'[o].pc \in {"charge", "failing"}
         /\ ex'[o].pc = "charge" => Again(o)
         /\ ex'[o].pc = "failing" => UNCHANGED <<scene, copy>>
         /\ ex'[o].todo = ex[o].todo /\ ex'[o].mem = ex[o].mem /\ ex'[o].stop = ex[o].stop
         /\ Others(o) /\ UNCHANGED <<job, op, book>> /\ StoreAttempt(o)
<1>1. ex[o].pc = "veo" /\ UNCHANGED <<job, op, book>> /\ StoreAttempt(o)
  BY DEF TakeRejected, Reviewed
<1>2. "failing" \in PCs \ {"off"} /\ ex[o].pc \in AtTakes
  BY <1>1 DEF PCs, AtTakes
<1>3. o \in Regens /\ ex[o] \in Task
  BY <1>2, AtTakesFacts
<1>4. CASE Goto(o, "failing") /\ UNCHANGED <<scene, copy>>
  BY <1>1, <1>2, <1>3, <1>4, GotoDoes
<1>5. CASE Again(o)
  <2> DEFINE e == [ex[o] EXCEPT !.pc = "charge", !.tries = @ + 1]
  <2>1. e.pc = "charge" /\ e.todo = ex[o].todo /\ e.mem = ex[o].mem /\ e.stop = ex[o].stop
    BY <1>3 DEF Task
  <2>2. ex' = [ex EXCEPT ![o] = e]
    BY <1>5 DEF Again, Step
  <2> HIDE DEF e
  <2>3. ex'[o] = e /\ Others(o)
    BY <1>1, <2>2 DEF Base, Core, Life, Others
  <2>4. QED
    BY <1>1, <1>3, <1>5, <2>1, <2>3
<1>6. QED
  BY <1>4, <1>5 DEF TakeRejected, Failing

\* A retake is charged, or the wallet is empty.
LEMMA ChargeRetakeDoes ==
  ASSUME Base, NEW o \in Ops, ChargeRetake(o)
  PROVE  /\ o \in Regens /\ ex[o].pc = "charge"
         /\ \/ ex'[o].pc = "veo" /\ Pay(o, TakeCents)
            \/ ex'[o].pc = "failing" /\ UNCHANGED book
         /\ ex'[o].todo = ex[o].todo /\ ex'[o].mem = ex[o].mem /\ ex'[o].stop = ex[o].stop
         /\ Others(o) /\ UNCHANGED <<job, scene, op, takes>>
<1>1. ex[o].pc = "charge" /\ UNCHANGED <<job, scene, op, takes>>
  BY DEF ChargeRetake
<1>2. "failing" \in PCs \ {"off"} /\ "veo" \in PCs \ {"off"} /\ ex[o].pc \in AtTakes
  BY <1>1 DEF PCs, AtTakes, Awaits
<1>3. o \in Regens
  BY <1>2, AtTakesFacts
<1>4. CASE Goto(o, "veo") /\ Pay(o, TakeCents)
  BY <1>1, <1>2, <1>3, <1>4, GotoDoes
<1>5. CASE Goto(o, "failing") /\ UNCHANGED book
  BY <1>1, <1>2, <1>3, <1>5, GotoDoes
<1>6. QED
  BY <1>4, <1>5 DEF ChargeRetake, Failing

\* A take is accepted, and the next scene begins.
LEMMA AcceptTakeDoes ==
  ASSUME Base, NEW o \in Ops, AcceptTake(o)
  PROVE  /\ o \in Regens /\ ex[o].pc = "accept" /\ ex[o].at \in ex[o].todo /\ ex[o].at \in Shots
         /\ ex'[o].todo = ex[o].todo \ {ex[o].at} /\ ex'[o].mem = ex[o].mem /\ ex'[o].stop = ex[o].stop
         /\ ex'[o].pc = IF ex'[o].todo = {} THEN "checkpoint" ELSE "veo"
         /\ Others(o) /\ UNCHANGED <<job, op, takes, book>>
<1>1. ex[o].pc = "accept" /\ ex[o].pc \in AtTakes /\ UNCHANGED <<job, op, takes, book>>
  BY DEF AcceptTake, AtTakes
<1>2. o \in Regens /\ ex[o] \in Task /\ ex[o].at \in ex[o].todo /\ ex[o].todo \in SUBSET Shots
  BY <1>1, AtTakesFacts
<1> DEFINE s == ex[o].at
           e == NextShot(ex[o], ex[o].todo \ {s})
<1>3. ex' = [ex EXCEPT ![o] = e]
  BY DEF AcceptTake, Step
<1>4. /\ e.stop = ex[o].stop /\ e.mem = ex[o].mem /\ e.todo = ex[o].todo \ {s}
      /\ e.pc = IF ex[o].todo \ {s} = {} THEN "checkpoint" ELSE "veo"
  <2>1. ex[o].todo \ {s} \in SUBSET Shots
    BY <1>2
  <2>2. QED
    BY <1>2, <2>1, NextShotMoves
<1>5. ex'[o] = e /\ Others(o)
  <2> HIDE DEF e
  <2>1. QED
    BY <1>1, <1>3 DEF Base, Core, Life, Others
<1>6. QED
  BY <1>1, <1>2, <1>4, <1>5

\* What Past and Released tell of a task.
LEMMA PastFacts ==
  ASSUME Base, NEW o \in Ops, ex[o].pc \in Past \cup Released
  PROVE  /\ ex[o] \in Task /\ ex[o].mem \in Job /\ ex[o].todo = {} /\ ex[o].pc /= "off"
         /\ ex[o].pc \in Past \cup {"tail", "complete"} => op[o].status = "running"
         /\ ex[o].pc \in {"checkpoint", "fetch", "settle"} => o \in Regens
<1>1. Fits(o, ex[o], op[o]) /\ ex[o] \in Task /\ ex[o].mem \in Job
  BY TaskFields
<1>2. QED
  BY <1>1 DEF Fits, Past, Released, Ops

\* The job of a task that saves what it has.
SavesRunning(o) ==
  /\ ex'[o].mem = job' /\ ex'[o].todo = ex[o].todo /\ ex'[o].stop = ex[o].stop
  /\ job'.publish = ex[o].mem.publish /\ Others(o) /\ UNCHANGED op
  /\ job'.status \in {"running", job.status}

\* Checkpoints are saved with the accepted takes.
LEMMA SaveCheckpointsDoes ==
  ASSUME Base, NEW o \in Ops, SaveCheckpoints(o)
  PROVE  /\ o \in Regens /\ ex[o].pc = "checkpoint" /\ ex'[o].pc = "voice" /\ SavesRunning(o)
         /\ job'.shots = AcceptedShots(o)
<1> DEFINE data == [ex[o].mem EXCEPT !.status = "running", !.shots = AcceptedShots(o)]
<1>1. /\ ex[o].pc = "checkpoint" /\ Commit(o, "voice", data) /\ UNCHANGED op
      /\ "voice" \in PCs \ {"off"}
  BY DEF SaveCheckpoints, PCs, Awaits
<1>2. ex[o].mem \in Job /\ o \in Regens
  BY <1>1, PastFacts DEF Past
<1>3. AcceptedShots(o) \in [Shots -> Sources]
  BY AcceptedType
<1>4. /\ data \in Job /\ data.status = "running" /\ data.shots = AcceptedShots(o)
      /\ data.publish = ex[o].mem.publish
  BY <1>2, <1>3 DEF Job
<1> HIDE DEF data
<1>5. /\ Others(o) /\ ex'[o].pc = "voice" /\ ex'[o].mem = job' /\ ex'[o].todo = ex[o].todo
      /\ ex'[o].stop = ex[o].stop /\ job'.shots = AcceptedShots(o) /\ job'.publish = ex[o].mem.publish
      /\ job'.status \in {"running", job.status}
  BY <1>1, <1>4, CommitDoes
<1>6. QED
  BY <1>1, <1>2, <1>5 DEF SavesRunning

\* Speech and captions, and costs, are saved.
LEMMA VoicedDoes ==
  ASSUME Base, NEW o \in Ops, Voiced(o) \/ SaveCosts(o)
  PROVE  /\ ex[o].pc \in {"voice", "costs", "settle"} /\ ex'[o].pc \in {"fetch", "costs", "render"}
         /\ ex'[o].pc = "fetch" => o \in Regens
         /\ SavesRunning(o) /\ job'.shots = ex[o].mem.shots /\ UNCHANGED <<scene, takes, book>>
<1> DEFINE data == [ex[o].mem EXCEPT !.status = "running"]
<1>1. PICK pc \in {"fetch", "costs", "render"} : Commit(o, pc, data) /\ (pc = "fetch" => o \in Regens)
  BY DEF Voiced, SaveCosts
<1>2. ex[o].pc \in {"voice", "costs", "settle"} /\ UNCHANGED <<scene, op, takes, book>>
  BY DEF Voiced, SaveCosts
<1>3. ex[o].mem \in Job /\ pc \in PCs \ {"off"}
  BY <1>2, PastFacts DEF Past, PCs, Awaits
<1>4. /\ data \in Job /\ data.status = "running" /\ data.shots = ex[o].mem.shots
      /\ data.publish = ex[o].mem.publish
  BY <1>3 DEF Job
<1> HIDE DEF data
<1>5. QED
  BY <1>1, <1>2, <1>3, <1>4, CommitDoes DEF SavesRunning

\* The takes are fetched and settled.
LEMMA SettleDoes ==
  ASSUME Base, NEW o \in Ops, Fetched(o) \/ \E r \in Regens : Settle(o, r)
  PROVE  /\ o \in Regens /\ ex[o].pc \in {"fetch", "settle"} /\ ex'[o].pc = "settle"
         /\ Fetched(o) => ex[o].pc = "fetch" /\ ex'[o].refs = SettledReferences
         /\ (\E r \in Regens : Settle(o, r)) => ex[o].pc = "settle" /\ ex'[o].refs \subseteq ex[o].refs
         /\ ex'[o].mem = ex[o].mem /\ ex'[o].todo = ex[o].todo /\ ex'[o].stop = ex[o].stop
         /\ Others(o) /\ UNCHANGED <<job, scene, op, takes>>
<1>1. ex[o].pc \in {"fetch", "settle"} /\ UNCHANGED <<job, scene, op, takes>>
  BY DEF Fetched, Settle
<1>2. o \in Regens /\ ex[o] \in Task
  BY <1>1, PastFacts DEF Past
<1>3. CASE Fetched(o)
  <2>1. ex' = [ex EXCEPT ![o] = [ex[o] EXCEPT !.pc = "settle", !.refs = SettledReferences]] /\ ex[o].pc = "fetch"
    BY <1>3 DEF Fetched, Step
  <2>2. ~\E r \in Regens : Settle(o, r)
    BY <2>1 DEF Settle
  <2> DEFINE refs == SettledReferences
             e == [ex[o] EXCEPT !.pc = "settle", !.refs = refs]
  <2>3. ex'[o] = e /\ Others(o)
    BY <1>1, <2>1 DEF Base, Core, Life, Others
  <2> HIDE DEF refs
  <2>4. e.pc = "settle" /\ e.refs = refs /\ e.mem = ex[o].mem /\ e.todo = ex[o].todo /\ e.stop = ex[o].stop
    BY <1>2 DEF Task
  <2> HIDE DEF e
  <2>5. QED
    BY <1>1, <1>2, <2>1, <2>2, <2>3, <2>4 DEF refs
<1>4. ASSUME NEW r \in Regens, Settle(o, r)
      PROVE  /\ ex[o].pc = "settle" /\ ex'[o].pc = "settle" /\ ex'[o].refs \subseteq ex[o].refs
             /\ ex'[o].mem = ex[o].mem /\ ex'[o].todo = ex[o].todo /\ ex'[o].stop = ex[o].stop
             /\ Others(o) /\ ~Fetched(o)
  <2>1. ex' = [ex EXCEPT ![o] = [ex[o] EXCEPT !.refs = @ \ {r}]] /\ ex[o].pc = "settle"
    BY <1>4 DEF Settle, Step
  <2>2. ex'[o] = [ex[o] EXCEPT !.refs = @ \ {r}] /\ Others(o)
    BY <1>1, <2>1 DEF Base, Core, Life, Others
  <2>3. QED
    BY <1>2, <2>1, <2>2 DEF Task, Fetched
<1>5. QED
  BY <1>1, <1>2, <1>3, <1>4

\* A reassembly starts, or finds that the production is not its own.
LEMMA StartReassemblyDoes ==
  ASSUME Base, NEW o \in Ops, StartReassembly(o)
  PROVE  /\ o \in Assemblies /\ ex[o].pc = "start" /\ Others(o) /\ ~ex'[o].stop /\ UNCHANGED scene
         /\ job'.publish = job.publish
         /\ \/ ex'[o].pc = "off" /\ op'[o].status = "failed" /\ UNCHANGED job
            \/ ex'[o].pc = "voice" /\ ex'[o].mem = job' /\ job'.status = "running"
<1>1. o \in Assemblies /\ ex[o].pc = "start" /\ ~ex[o].stop /\ UNCHANGED scene
  BY DEF StartReassembly, Runs, Awaits
<1>2. ex[o] \in Task /\ op[o] \in OpRow /\ job \in Job
  BY TaskFields DEF Base, Core, Rows
<1>3. CASE job.asm = o
  <2> DEFINE data == [job EXCEPT !.status = "running"]
             e == [ex[o] EXCEPT !.pc = "voice", !.mem = data]
  <2>1. data.status = "running" /\ data.publish = job.publish
    BY <1>2, CopyFields
  <2> HIDE DEF data
  <2>2. job' = data
    BY <1>3 DEF StartReassembly, data
  <2>3. e.pc = "voice" /\ e.mem = data /\ e.stop = ex[o].stop
    BY <1>2 DEF Task
  <2>4. ex' = [ex EXCEPT ![o] = e] /\ op' = [op EXCEPT ![o].status = "running"]
    BY <1>3, <2>2 DEF StartReassembly, Step
  <2> HIDE DEF e
  <2>5. ex'[o] = e /\ Others(o)
    BY <2>4 DEF Base, Core, Life, Others
  <2>6. QED
    BY <1>1, <2>1, <2>2, <2>3, <2>5
<1>4. CASE job.asm /= o
  <2>1. ex' = [ex EXCEPT ![o] = NoTask] /\ op' = [op EXCEPT ![o].status = "failed"] /\ UNCHANGED job
    BY <1>4 DEF StartReassembly, Step
  <2>2. op'[o].status = "failed"
    BY <1>2, <2>1 DEF Base, Core, Life, OpRow
  <2>3. QED
    BY <1>1, <2>1, <2>2, OffDoes
<1>5. QED
  BY <1>3, <1>4

\* The version is rendered; its publication and last event may be waited for.
LEMMA RenderedDoes ==
  ASSUME Base, NEW o \in Ops, Rendered(o)
  PROVE  /\ ex[o].pc = "render" /\ ex'[o].pc \in {"tail", AfterTail(o)} /\ ~ex'[o].stop
         /\ ex'[o].pc = "tail" => EventSinks \/ job.publish
         /\ ex'[o].mem = job' /\ ex'[o].todo = ex[o].todo /\ job'.publish = ex[o].mem.publish
         /\ Others(o) /\ UNCHANGED <<op, takes, book>>
         /\ o \in Regens => latest' = ex[o].mem.shots
<1> DEFINE data == [ex[o].mem EXCEPT !.status = "ready"]
<1>1. PICK pc \in {"tail", AfterTail(o)} : Commit(o, pc, data) /\ (pc = "tail" => TailWaits(o))
  BY DEF Rendered, AfterTail
<1>2. /\ ex[o].pc = "render" /\ ~ex[o].stop /\ UNCHANGED <<op, takes, book>>
      /\ o \in Regens => latest' = ex[o].mem.shots
  BY DEF Rendered, Runs, Awaits
<1>3. ex[o].mem \in Job /\ pc \in PCs \ {"off"}
  BY <1>2, PastFacts DEF Past, PCs, Awaits, AfterTail
<1>4. data \in Job /\ data.publish = ex[o].mem.publish
  BY Zenon, <1>3, CopyTypes, CopyFields
<1> HIDE DEF data
<1>5. /\ Others(o) /\ ex'[o].pc = pc /\ ex'[o].mem = job' /\ ex'[o].todo = ex[o].todo
      /\ ex'[o].stop = ex[o].stop /\ job'.publish = ex[o].mem.publish
  BY <1>1, <1>2, <1>3, <1>4, CommitDoes
<1>6. QED
  BY <1>1, <1>2, <1>5 DEF TailWaits

\* The publication and the last event have been sent.
LEMMA ToldDoes ==
  ASSUME Base, NEW o \in Ops, Told(o)
  PROVE  /\ ex[o].pc = "tail" /\ ex'[o].pc = AfterTail(o) /\ ex'[o].mem = ex[o].mem
         /\ ex'[o].todo = ex[o].todo /\ ex'[o].stop = ex[o].stop
         /\ Others(o) /\ UNCHANGED <<job, scene, op, takes, book>>
<1>1. ex[o].pc = "tail" /\ Goto(o, AfterTail(o)) /\ UNCHANGED <<job, scene, op, takes, book>>
  BY DEF Told
<1>2. AfterTail(o) \in PCs \ {"off"}
  BY DEF AfterTail, PCs
<1>3. QED
  BY <1>1, <1>2, GotoDoes

\* The production is given back, whatever its status is by now.
LEMMA ReleaseDoes ==
  ASSUME Base, NEW o \in Ops, Release(o)
  PROVE  /\ ex[o].pc = "release" /\ ~ex'[o].stop
         /\ ex'[o].pc = IF o \in Regens THEN "complete" ELSE "off"
         /\ o \in Regens => ex'[o].mem = job'
         /\ job'.status = job.status /\ job'.publish = ex[o].mem.publish
         /\ Others(o) /\ UNCHANGED <<scene, op, takes, book>>
<1>1. ex[o].pc = "release" /\ ~ex[o].stop /\ UNCHANGED <<scene, op, takes, book>>
  BY TaskFields DEF Release, Fits, Awaits
<1>2. ex[o].mem \in Job
  BY TaskFields
<1>3. CASE o \in Regens
  <2> DEFINE data == [ex[o].mem EXCEPT !.regen = NoOp]
  <2>1. data \in Job /\ data.status = ex[o].mem.status /\ data.publish = ex[o].mem.publish
    BY Zenon, <1>2, CopyTypes, CopyFields
  <2>2. Commit(o, "complete", data) /\ "complete" \in PCs \ {"off"}
    BY <1>3 DEF Release, PCs
  <2> HIDE DEF data
  <2>3. QED
    BY <1>1, <1>3, <2>1, <2>2, CommitDoes
<1>4. CASE o \notin Regens
  <2> DEFINE data == [ex[o].mem EXCEPT !.asm = NoOp]
  <2>1. data \in Job /\ data.status = ex[o].mem.status /\ data.publish = ex[o].mem.publish
    BY Zenon, <1>2, CopyTypes, CopyFields
  <2>2. job' = Stored(ex[o].mem, data) /\ ex' = [ex EXCEPT ![o] = NoTask]
    BY <1>4 DEF Release, Commit, Step
  <2> HIDE DEF data
  <2>3. job'.status = job.status /\ job'.publish = ex[o].mem.publish
    BY <1>2, <2>1, <2>2, StoredFields
  <2>4. QED
    BY Zenon, <1>1, <1>4, <2>2, <2>3, OffDoes
<1>5. QED
  BY <1>3, <1>4

\* The row is completed.
LEMMA CompleteDoes ==
  ASSUME Base, NEW o \in Ops, Complete(o)
  PROVE  /\ ex[o].pc = "complete" /\ op'[o].status = "completed" /\ ~ex'[o].stop
         /\ ex'[o].pc = IF o \in Regens THEN "off" ELSE "release"
         /\ o \notin Regens => ex'[o].mem = ex[o].mem
         /\ Others(o) /\ UNCHANGED <<job, scene, takes, book>>
<1>1. /\ ex[o].pc = "complete" /\ ~ex[o].stop /\ UNCHANGED <<job, scene, takes, book>>
      /\ op' = [op EXCEPT ![o].status = "completed"]
  BY TaskFields DEF Complete, Fits, Awaits
<1>2. op'[o].status = "completed"
  BY <1>1, TaskFields DEF Base, Core, Life, OpRow
<1>3. CASE o \in Regens
  <2>1. ex' = [ex EXCEPT ![o] = NoTask]
    BY <1>3 DEF Complete, Goto, Step
  <2>2. QED
    BY <1>1, <1>2, <1>3, <2>1, OffDoes
<1>4. CASE o \notin Regens
  <2>1. Goto(o, "release") /\ "release" \in PCs \ {"off"}
    BY <1>4 DEF Complete, PCs
  <2>2. PICK e : ex' = [ex EXCEPT ![o] = e] /\ Moved(o, e, "release") /\ e.mem = ex[o].mem
    BY <2>1, GotoMoves
  <2>3. ex'[o] = e /\ Others(o)
    BY <1>1, <2>2 DEF Base, Core, Life, Others
  <2>4. QED
    BY <1>1, <1>2, <1>4, <2>2, <2>3 DEF Moved
<1>5. QED
  BY <1>3, <1>4

\* What a task awaits raises.
LEMMA RaiseDoes ==
  ASSUME Base, NEW o \in Ops, Raise(o)
  PROVE  /\ ex[o].pc \in {"veo", "voice", "fetch", "render"} /\ ex'[o].pc = "failing"
         /\ ex'[o].mem = ex[o].mem /\ ~ex'[o].stop /\ op[o].status = "running"
         /\ Others(o) /\ UNCHANGED <<job, scene, op, takes, book>>
<1>1. /\ ex[o].pc \in {"veo", "voice", "fetch", "render"} /\ ~ex[o].stop
      /\ Goto(o, "failing") /\ "failing" \in PCs \ {"off"}
      /\ UNCHANGED <<job, scene, op, takes, book>>
  BY DEF Raise, Runs, Failing, Awaits, PCs
<1>2. op[o].status = "running"
  BY <1>1, TaskFields DEF Fits, AtTakes, Past
<1>3. QED
  BY <1>1, <1>2, GotoDoes

\* The row of a failing operation is failed.
LEMMA FailOperationDoes ==
  ASSUME Base, NEW o \in Ops, FailOperation(o)
  PROVE  /\ ex[o].pc = "failing" /\ ex'[o].pc = "failJob" /\ op'[o].status = "failed"
         /\ op'[o].scenes = op[o].scenes /\ ex'[o].mem = ex[o].mem /\ ~ex'[o].stop
         /\ Open(op[o]) /\ Others(o) /\ UNCHANGED <<job, scene, takes, book>>
<1>1. /\ ex[o].pc = "failing" /\ ~ex[o].stop /\ Open(op[o]) /\ op[o] \in OpRow
      /\ Goto(o, "failJob") /\ "failJob" \in PCs \ {"off"}
      /\ op' = [op EXCEPT ![o].status = "failed"]
      /\ UNCHANGED <<job, scene, takes, book>>
  BY TaskFields DEF FailOperation, PCs, Fits, Awaits
<1>2. op'[o].status = "failed" /\ op'[o].scenes = op[o].scenes
  BY <1>1 DEF Base, Core, Life, OpRow
<1>3. PICK e : ex' = [ex EXCEPT ![o] = e] /\ Moved(o, e, "failJob") /\ e.mem = ex[o].mem
  BY <1>1, GotoMoves
<1>4. ex'[o] = e /\ Others(o)
  BY <1>1, <1>3 DEF Base, Core, Life, Others
<1>5. QED
  BY <1>1, <1>2, <1>3, <1>4 DEF Moved

\* The production is failed, and the scenes that wait for the operation too.
LEMMA FailJobDoes ==
  ASSUME Base, NEW o \in Ops, FailJob(o)
  PROVE  /\ ex[o].pc = "failJob" /\ ~ex'[o].stop /\ op[o].status = "failed"
         /\ ex'[o].pc = IF o \in Regens THEN "refund" ELSE "off"
         /\ o \in Regens => ex'[o].mem = job'
         /\ job'.publish = ex[o].mem.publish
         /\ Others(o) /\ UNCHANGED <<op, takes, book>>
<1>1. /\ ex[o].pc = "failJob" /\ ~ex[o].stop /\ op[o].status = "failed" /\ ex[o].mem \in Job
      /\ UNCHANGED <<op, takes, book>>
  BY TaskFields DEF FailJob, Fits, Awaits
<1>2. CASE o \in Regens
  <2> DEFINE data == [ex[o].mem EXCEPT !.status = "failed", !.regen = NoOp]
  <2>1. data \in Job /\ data.publish = ex[o].mem.publish
    BY Zenon, <1>1, CopyTypes, CopyFields
  <2>2. Commit(o, "refund", data) /\ "refund" \in PCs \ {"off"}
    BY <1>2 DEF FailJob, PCs
  <2> HIDE DEF data
  <2>3. QED
    BY <1>1, <1>2, <2>1, <2>2, CommitDoes
<1>3. CASE o \notin Regens
  <2> DEFINE data == [ex[o].mem EXCEPT !.status = "failed", !.asm = NoOp]
  <2>1. data \in Job /\ data.publish = ex[o].mem.publish
    BY Zenon, <1>1, CopyTypes, CopyFields
  <2>2. job' = Stored(ex[o].mem, data) /\ ex' = [ex EXCEPT ![o] = NoTask]
    BY <1>3 DEF FailJob, Commit, Step
  <2> HIDE DEF data
  <2>3. job'.publish = ex[o].mem.publish
    BY <1>1, <2>1, <2>2, StoredFields
  <2>4. QED
    BY <1>1, <1>3, <2>2, <2>3, OffDoes
<1>4. QED
  BY <1>2, <1>3

\* A failed regeneration is refunded.
LEMMA RefundFailureDoes ==
  ASSUME Base, NEW o \in Ops, RefundFailure(o)
  PROVE  /\ o \in Regens /\ ex[o].pc = "refund" /\ op[o].status = "failed" /\ ex'[o].pc = "off"
         /\ ~ex'[o].stop /\ book' = [book EXCEPT ![o] = Refunded(@)]
         /\ Others(o) /\ UNCHANGED <<job, scene, op, takes>>
<1>1. /\ ex[o].pc = "refund" /\ UNCHANGED <<job, scene, op, takes>>
      /\ book' = [book EXCEPT ![o] = Refunded(@)] /\ ex' = [ex EXCEPT ![o] = NoTask]
  BY OffMoves DEF RefundFailure
<1>2. o \in Regens /\ op[o].status = "failed"
  BY <1>1, TaskFields DEF Fits, Ops
<1>3. QED
  BY <1>1, <1>2, OffDoes

\* A task is cancelled where it waits.
LEMMA InterruptDoes ==
  ASSUME Base, NEW o \in Ops, Interrupt(o)
  PROVE  /\ ex[o].pc \in Awaits /\ ex[o].stop /\ ex'[o].pc = "off" /\ ~ex'[o].stop /\ Others(o)
         /\ UNCHANGED <<scene, takes, book>>
         /\ \/ UNCHANGED <<job, op>>
            \/ /\ o \in Assemblies /\ ex[o].pc /= "start" /\ job'.publish = ex[o].mem.publish
               /\ job'.status \in {"queued", job.status} /\ op'[o].status = "queued"
<1>1. /\ ex[o].pc \in Awaits /\ ex[o].stop /\ UNCHANGED <<scene, takes, book>>
      /\ ex' = [ex EXCEPT ![o] = NoTask]
  BY OffMoves DEF Interrupt
<1>2. CASE UNCHANGED <<job, op>>
  BY <1>1, <1>2, OffDoes
<1>3. CASE /\ o \in Assemblies /\ ex[o].pc /= "start" /\ op' = [op EXCEPT ![o].status = "queued"]
           /\ Commit(o, "off", [ex[o].mem EXCEPT !.status = "queued"])
  <2> DEFINE data == [ex[o].mem EXCEPT !.status = "queued"]
  <2>1. ex[o].mem \in Job
    BY TaskFields
  <2>2. data \in Job /\ data.status = "queued" /\ data.publish = ex[o].mem.publish
    BY Zenon, <2>1, CopyTypes, CopyFields
  <2>3. job' = Stored(ex[o].mem, data)
    BY <1>3 DEF Commit
  <2> HIDE DEF data
  <2>4. job'.publish = ex[o].mem.publish /\ job'.status \in {"queued", job.status}
    BY <2>1, <2>2, <2>3, StoredFields
  <2>5. op'[o].status = "queued"
    BY <1>3, TaskFields DEF Base, Core, Life, OpRow
  <2>6. QED
    BY Zenon, <1>1, <1>3, <2>4, <2>5, OffDoes
<1>4. QED
  BY <1>2, <1>3 DEF Interrupt

\* The timer of a restart schedules an operation.
LEMMA TimerFiresDoes ==
  ASSUME Base, NEW o \in Ops, TimerFires(o)
  PROVE  /\ o \in timer /\ ex[o].pc = "off" /\ Open(op[o]) /\ ex'[o].pc = "start" /\ ~ex'[o].stop
         /\ timer' \subseteq timer /\ Others(o) /\ UNCHANGED <<job, scene, op, takes, book, req>>
<1>1. o \in timer /\ timer' \subseteq timer /\ UNCHANGED <<job, scene, op, takes, book, req>>
  BY DEF TimerFires
<1>2. ex[o].pc = "off" /\ Open(op[o])
  BY <1>1 DEF Base, Core, Life, TimerIsOff
<1>3. ex' = [ex EXCEPT ![o] = [NoTask EXCEPT !.pc = "start"]]
  BY <1>2 DEF TimerFires, Step, Scheduled
<1>4. ex'[o] = [NoTask EXCEPT !.pc = "start"] /\ Others(o)
  BY <1>1, <1>3 DEF Base, Core, Life, Others
<1>5. QED
  BY <1>1, <1>2, <1>4, StartTaskType

\* A regeneration is requested: the production is claimed.
LEMMA BeginRegenerateDoes ==
  ASSUME Base, NEW o \in Ops, BeginRegenerate(o)
  PROVE  /\ o \in Regens /\ op[o].status = "none" /\ ex[o].pc = "off" /\ UNCHANGED <<scene, ex, takes, book>>
         /\ req.pc = "idle" /\ job.status \in {"ready", "failed"}
         /\ op'[o].status = "queued" /\ Others(o)
         /\ job'.status = "queued" /\ job'.publish = job.publish
         /\ req'.pc = "charge" /\ req'.o = o /\ req'.mem = job
<1>1. /\ o \in Regens /\ op[o].status = "none" /\ UNCHANGED <<scene, ex, takes, book>>
      /\ req.pc = "idle" /\ job.status \in {"ready", "failed"}
      /\ job' = [job EXCEPT !.status = "queued", !.regen = o]
      /\ req' = [pc |-> "charge", o |-> o, mem |-> job]
  BY DEF BeginRegenerate, BeginRequest, Claimable
<1>2. ex[o].pc = "off"
  BY <1>1, NewIsOff
<1>3. PICK scenes : op' = [op EXCEPT ![o] = [status |-> "queued", scenes |-> scenes]]
  BY DEF BeginRegenerate
<1>4. op'[o].status = "queued" /\ Others(o)
  BY <1>1, <1>3 DEF Base, Core, Life, Others
<1>5. job'.status = "queued" /\ job'.publish = job.publish
  BY <1>1 DEF Base, Core, Rows, Job
<1>6. QED
  BY <1>1, <1>2, <1>4, <1>5

\* A reassembly is requested: the production is claimed and the task scheduled.
LEMMA ReassembleDoes ==
  ASSUME Base, NEW o \in Ops, Reassemble(o)
  PROVE  /\ o \in Assemblies /\ op[o].status = "none" /\ ex[o].pc = "off"
         /\ ex'[o].pc = "start" /\ ~ex'[o].stop
         /\ req.pc = "idle" /\ job.status \in {"ready", "failed"} /\ Others(o)
         /\ op'[o].status = "queued" /\ job'.status = "queued" /\ job'.publish = job.publish
         /\ UNCHANGED <<scene, req, takes, book>>
<1>1. /\ o \in Assemblies /\ op[o].status = "none" /\ UNCHANGED <<scene, req, takes, book>>
      /\ req.pc = "idle" /\ job.status \in {"ready", "failed"}
      /\ job' = [job EXCEPT !.status = "queued", !.asm = o]
      /\ op' = [op EXCEPT ![o] = [status |-> "queued", scenes |-> Shots]]
  BY DEF Reassemble, BeginRequest, Claimable
<1>2. ex[o].pc = "off"
  BY <1>1, NewIsOff
<1>3. ex' = [ex EXCEPT ![o] = [NoTask EXCEPT !.pc = "start"]]
  BY <1>2 DEF Reassemble, Step, Scheduled
<1>4. ex'[o] = [NoTask EXCEPT !.pc = "start"] /\ op'[o].status = "queued" /\ Others(o)
  BY <1>1, <1>3 DEF Base, Core, Life, Others
<1>5. job'.status = "queued" /\ job'.publish = job.publish
  BY <1>1 DEF Base, Core, Rows, Job
<1>6. QED
  BY <1>1, <1>2, <1>4, <1>5, StartTaskType

\* A claim that is not paid is taken back.
LEMMA ChargeRefusedDoes ==
  ASSUME Base, ChargeRefused
  PROVE  /\ req.pc = "charge" /\ req.o \in Ops /\ req.o \in Regens
         /\ op'[req.o].status = "none" /\ Others(req.o)
         /\ ex[req.o].pc = "off" /\ op[req.o].status = "queued" /\ req'.pc = "idle"
         /\ job'.publish = req.mem.publish /\ UNCHANGED <<scene, ex, takes, book>>
<1>1. /\ req.pc = "charge" /\ op' = [op EXCEPT ![req.o] = [status |-> "none", scenes |-> {}]]
      /\ req' = NoRequest /\ job' = [req.mem EXCEPT !.regen = NoOp] /\ UNCHANGED <<scene, ex, takes, book>>
  BY DEF ChargeRefused
<1>2. /\ req.o \in Ops /\ req.o \in Regens /\ ex[req.o].pc = "off" /\ op[req.o].status = "queued"
      /\ req.mem \in Job
  BY <1>1, RequestFields
<1>3. op'[req.o].status = "none" /\ Others(req.o)
  BY <1>1, <1>2 DEF Base, Core, Life, Others
<1>4. job'.publish = req.mem.publish /\ req'.pc = "idle"
  BY <1>1, <1>2, CopyFields DEF NoRequest
<1>5. QED
  BY <1>1, <1>2, <1>3, <1>4

\* A regeneration that is paid is queued and its scenes wait for it.
LEMMA QueueRegenerationDoes ==
  ASSUME Base, QueueRegeneration
  PROVE  /\ req.pc = "queue" /\ req.o \in Ops /\ req.o \in Regens /\ Others(req.o)
         /\ ex[req.o].pc = "off" /\ ex'[req.o].pc = "start" /\ ~ex'[req.o].stop
         /\ op[req.o].status = "queued"
         /\ req'.pc = "idle" /\ job'.publish = req.mem.publish /\ job'.status = "queued"
         /\ UNCHANGED <<op, takes, book>>
<1>1. /\ req.pc = "queue" /\ ex' = [ex EXCEPT ![req.o] = Scheduled(@)] /\ UNCHANGED <<op, takes, book>>
      /\ req' = NoRequest /\ job' = [req.mem EXCEPT !.status = "queued", !.regen = req.o]
  BY DEF QueueRegeneration
<1>2. /\ req.o \in Ops /\ req.o \in Regens /\ ex[req.o].pc = "off" /\ op[req.o].status = "queued"
      /\ req.mem \in Job
  BY <1>1, RequestFields
<1>3. ex' = [ex EXCEPT ![req.o] = [NoTask EXCEPT !.pc = "start"]]
  BY <1>1, <1>2 DEF Scheduled
<1>4. ex'[req.o] = [NoTask EXCEPT !.pc = "start"] /\ Others(req.o)
  BY <1>1, <1>2, <1>3 DEF Base, Core, Life, Others
<1>5. job'.publish = req.mem.publish /\ job'.status = "queued" /\ req'.pc = "idle"
  BY <1>1, <1>2 DEF Job, NoRequest
<1>6. QED
  BY <1>1, <1>2, <1>4, <1>5, StartTaskType

\* An orderly stop: the tasks are where they were, and cancelled.
LEMMA ShutdownDoes ==
  ASSUME Base, Shutdown
  PROVE  /\ req.pc = "idle" /\ used.stops < MaxStops[job.publish] /\ used'.stops = used.stops + 1
         /\ \A o \in Ops : ex'[o].pc = ex[o].pc /\ ex'[o].mem = ex[o].mem /\ ex'[o].todo = ex[o].todo
         /\ UNCHANGED <<job, scene, op, takes, book, req>>
<1>1. /\ req.pc = "idle" /\ used.stops < MaxStops[job.publish] /\ Spend("stops")
      /\ UNCHANGED <<job, scene, op, takes, book, req>>
      /\ ex' = [o \in Ops |-> [ex[o] EXCEPT !.stop = ex[o].pc /= "off"]]
  BY DEF Shutdown
<1>2. used'.stops = used.stops + 1
  BY <1>1 DEF Spend, Base, Core, Rest
<1>3. ASSUME NEW o \in Ops
      PROVE  ex'[o].pc = ex[o].pc /\ ex'[o].mem = ex[o].mem /\ ex'[o].todo = ex[o].todo
  <2>1. ex[o] \in Task
    BY TaskFields
  <2>2. QED
    BY <1>1, <2>1 DEF Task
<1>4. QED
  BY <1>1, <1>2, <1>3

\* An approval waits for no take; where it puts back an older one, the scene is
\* lost.
LEMMA LockSceneDoes ==
  ASSUME Base, LockScene
  PROVE  /\ \A s \in Shots : scene'[s].status = scene[s].status
         /\ \A s \in Shots : scene'[s].take = scene[s].take \/ s \in lost'
         /\ lost \subseteq lost' /\ UNCHANGED <<op, ex, req, copy, accepted>>
<1>1. appr.at \in Shots /\ appr.row \in Scene
  BY DEF Base, Core, Rest, Approval
<1> DEFINE new == [appr.row EXCEPT !.locked = TRUE, !.status = scene[appr.at].status]
<1>2. new.status = scene[appr.at].status /\ new.take = appr.row.take
  BY <1>1 DEF Scene
<1>3. scene' = [scene EXCEPT ![appr.at] = new] /\ UNCHANGED <<op, ex, req, copy, accepted>>
  BY DEF LockScene
<1>4. lost' = IF appr.row.take = scene[appr.at].take THEN lost ELSE lost \cup {appr.at}
  BY DEF LockScene
<1> HIDE DEF new
<1>5. QED
  BY <1>1, <1>2, <1>3, <1>4 DEF Base, Core, Rows

(***************************************************************************)
(* No scene waits in vain.                                                 *)
(***************************************************************************)
Requested(r) == req.pc /= "idle" /\ req.o = r

\* Regeneration r is on its way to scene s, or will fail it, and knows that the
\* scene waits.
WaitsFor(s, r) ==
  /\ s \in op[r].scenes /\ ~Requested(r)
  /\ s \in DOMAIN copy[r] => copy[r][s].status = "regenerating"
  /\ \/ op[r].status = "queued"
     \/ op[r].status = "running" /\ ex[r].pc \in {"off", "start", "failing"}
     \/ ex[r].pc \in AtTakes /\ s \in ex[r].todo
     \/ ex[r].pc = "failJob"

ScenesWait == \A s \in Shots : scene[s].status = "regenerating" => \E r \in Regens : WaitsFor(s, r)

\* What r sees of it.
LEMMA SeesWaiting ==
  ASSUME NEW r, NEW s, WaitsFor(s, r), scene[s].status = "regenerating"
  PROVE  Seen(r, s).status = "regenerating"
BY DEF WaitsFor, Seen

\* A step of one operation leaves the others' scenes waiting for them.
LEMMA WaitStep ==
  ASSUME Base, ScenesWait, NEW o \in Ops, Others(o), OtherCopies(o), UNCHANGED req,
         \A s \in Shots : scene'[s].status = "regenerating" =>
           \/ o \in Regens /\ WaitsFor(s, o)'
           \/ scene[s].status = "regenerating" /\ ~(o \in Regens /\ WaitsFor(s, o))
  PROVE  ScenesWait'
<1>1. ASSUME NEW s \in Shots, scene'[s].status = "regenerating"
      PROVE  \E r \in Regens : WaitsFor(s, r)'
  <2>1. CASE scene[s].status = "regenerating" /\ ~(o \in Regens /\ WaitsFor(s, o))
    <3>1. PICK r \in Regens : WaitsFor(s, r)
      BY <2>1 DEF ScenesWait
    <3>2. r /= o /\ ex'[r] = ex[r] /\ op'[r] = op[r] /\ copy'[r] = copy[r]
      BY <2>1, <3>1 DEF Others, OtherCopies, Ops
    <3>3. WaitsFor(s, r)'
      BY <3>1, <3>2 DEF WaitsFor, Requested
    <3>4. QED
      BY <3>3
  <2>2. QED
    BY <1>1, <2>1
<1>2. QED
  BY <1>1 DEF ScenesWait

\* A step that makes no scene wait needs to keep those of its operation.
LEMMA WaitStepAlone ==
  ASSUME Base, ScenesWait, NEW o \in Ops, Others(o), OtherCopies(o), UNCHANGED req,
         \A s \in Shots : scene'[s].status = "regenerating" => scene[s].status = "regenerating",
         o \in Regens => \A s \in Shots : WaitsFor(s, o) => WaitsFor(s, o)'
  PROVE  ScenesWait'
<1>1. \A s \in Shots : scene'[s].status = "regenerating" =>
        \/ o \in Regens /\ WaitsFor(s, o)'
        \/ scene[s].status = "regenerating" /\ ~(o \in Regens /\ WaitsFor(s, o))
  OBVIOUS
<1>2. QED
  BY <1>1, WaitStep

\* Rejecting and accepting takes keep the scenes that wait: the next one is on its
\* way, and an accepted one was seen to wait.
LEMMA TakesWait ==
  ASSUME Base, ScenesWait, NEW o \in Ops, OtherCopies(o), TakeRejected(o) \/ AcceptTake(o)
  PROVE  ScenesWait'
<1>1. UNCHANGED <<req, op>> /\ ex[o].pc \in {"veo", "accept"}
  BY DEF TakeRejected, Reviewed, AcceptTake
<1>2. /\ o \in Regens /\ op[o].status = "running" /\ ex[o].at \in ex[o].todo
      /\ ex[o].todo \subseteq op[o].scenes /\ ex[o].at \in Shots /\ Others(o) /\ ~Requested(o)
      /\ ex'[o].todo \subseteq ex[o].todo
  <2>1. ex[o].pc \in AtTakes /\ Fits(o, ex[o], op[o]) /\ ex[o].at \in Shots
    BY <1>1, TaskFields DEF AtTakes
  <2>2. QED
    BY <2>1, AtTakesFacts, TaskIsLive, TakeRejectedDoes, AcceptTakeDoes DEF Fits, Requested
<1>3. \A s \in Shots : WaitsFor(s, o) => s \in ex[o].todo
  BY <1>1, <1>2 DEF WaitsFor, AtTakes
<1>4. CASE TakeRejected(o) /\ ex'[o].pc = "failing"
  <2>1. UNCHANGED <<scene, copy>>
    BY <1>4, TakeRejectedDoes
  <2>2. \A s \in Shots : WaitsFor(s, o) => WaitsFor(s, o)'
    BY <1>1, <1>2, <1>4, <2>1 DEF WaitsFor, Requested
  <2>3. QED
    BY <1>1, <1>2, <2>1, <2>2, WaitStepAlone
<1>5. CASE TakeRejected(o) /\ ex'[o].pc = "charge"
  <2>1. Again(o) /\ ex'[o].todo = ex[o].todo
    BY <1>5, TakeRejectedDoes
  <2>2. /\ \A s \in Shots \ {ex[o].at} : scene'[s] = scene[s]
        /\ \A s \in DOMAIN copy[o] : copy'[o][s] = IF s = ex[o].at THEN scene'[s] ELSE copy[o][s]
        /\ DOMAIN copy'[o] = DOMAIN copy[o]
    BY <2>1, AgainWrites DEF Refreshed
  <2>3. ASSUME NEW s \in Shots, scene'[s].status = "regenerating", s = ex[o].at \/ WaitsFor(s, o)
        PROVE  WaitsFor(s, o)'
    <3>1. s \in ex'[o].todo /\ s \in op'[o].scenes
      BY <1>1, <1>2, <1>3, <2>1, <2>3
    <3>2. s \in DOMAIN copy'[o] => copy'[o][s].status = "regenerating"
      BY <2>2, <2>3 DEF WaitsFor
    <3>3. QED
      BY <1>1, <1>2, <1>5, <3>1, <3>2 DEF WaitsFor, Requested, AtTakes
  <2>4. QED
    BY <1>1, <1>2, <2>2, <2>3, WaitStep
<1>6. CASE AcceptTake(o)
  <2>1. /\ \A s \in Shots \ {ex[o].at} : scene'[s] = scene[s]
        /\ \A s \in DOMAIN copy[o] : copy'[o][s] = IF s = ex[o].at THEN scene'[s] ELSE copy[o][s]
        /\ DOMAIN copy'[o] = DOMAIN copy[o]
        /\ scene'[ex[o].at].status = "regenerating" =>
              scene[ex[o].at].status = "regenerating" /\ Seen(o, ex[o].at).status /= "regenerating"
    BY <1>2, <1>6, AcceptTakeWrites DEF Refreshed
  <2>2. ASSUME NEW s \in Shots, scene'[s].status = "regenerating"
        PROVE  \/ WaitsFor(s, o)'
               \/ scene[s].status = "regenerating" /\ ~WaitsFor(s, o)
    <3>1. CASE s = ex[o].at
      BY <2>1, <2>2, <3>1, SeesWaiting
    <3>2. CASE s /= ex[o].at /\ WaitsFor(s, o)
      <4>1. s \in ex'[o].todo /\ ex'[o].todo /= {} /\ ex'[o].pc = "veo"
        BY <1>3, <1>6, <3>2, AcceptTakeDoes
      <4>2. QED
        BY <1>1, <1>2, <2>1, <3>2, <4>1 DEF WaitsFor, Requested, AtTakes
    <3>3. CASE s /= ex[o].at /\ ~WaitsFor(s, o)
      BY <2>1, <2>2, <3>3
    <3>4. QED
      BY <3>1, <3>2, <3>3
  <2>3. QED
    BY <1>1, <1>2, <2>2, WaitStep
<1>7. QED
  BY <1>4, <1>5, <1>6, TakeRejectedDoes

\* The steps of a task keep the scenes that wait.
LEMMA WorkWaits ==
  ASSUME Base, Base', ScenesWait, NEW o \in Ops,
         Work(o) \/ TakeRejected(o) \/ Raise(o) \/ BeginRegenerate(o) \/ Reassemble(o)
  PROVE  ScenesWait'
<1> USE DEF WaitsFor, AtTakes, Past, Released
<1>1. Fits(o, ex[o], op[o]) /\ ~(o \in Regens /\ o \in Assemblies) /\ OtherCopies(o)
  BY TaskFields, WorkCopies DEF Base
<1>2. CASE StartRegeneration(o)
  <2>1. UNCHANGED req
    BY <1>2 DEF StartRegeneration
  <2>2. ~Requested(o) /\ ~Requested(o)' /\ Open(op[o])
    BY <1>1, <1>2, <2>1, TaskIsLive, StartRegenerationDoes DEF Requested, Fits
  <2>3. \A s \in DOMAIN copy'[o] : copy'[o][s] = scene'[s]
    BY <1>2, BeginsHolding DEF Base
  <2>4. \A s \in Shots : scene'[s].status = "regenerating" =>
           \/ o \in Regens /\ WaitsFor(s, o)'
           \/ scene[s].status = "regenerating" /\ ~(o \in Regens /\ WaitsFor(s, o))
    BY <1>2, <2>1, <2>2, <2>3, StartRegenerationDoes DEF Open
  <2>5. QED
    BY <1>1, <1>2, <2>1, <2>4, StartRegenerationDoes, WaitStep
<1>3. CASE TakePasses(o) \/ ChargeRetake(o)
  <2>1. UNCHANGED <<req, scene, copy, op>> /\ op[o].status = "running"
    <3>1. ex[o].pc \in AtTakes
      BY <1>3, TakePassesDoes, ChargeRetakeDoes
    <3>2. QED
      BY <1>3, <3>1, AtTakesFacts DEF TakePasses, ChargeRetake
  <2>2. \A s \in Shots : WaitsFor(s, o) => WaitsFor(s, o)'
    BY <1>3, <2>1, TakePassesDoes, ChargeRetakeDoes DEF Requested
  <2>3. QED
    BY <1>1, <1>3, <2>1, <2>2, TakePassesDoes, ChargeRetakeDoes, WaitStepAlone
<1>4. CASE TakeRejected(o) \/ AcceptTake(o)
  BY <1>1, <1>4, TakesWait
<1>5. CASE \/ SaveCheckpoints(o) \/ Voiced(o) \/ SaveCosts(o) \/ Fetched(o)
           \/ (\E r \in Regens : Settle(o, r)) \/ Rendered(o) \/ Told(o) \/ Release(o) \/ Complete(o)
  <2>1. UNCHANGED req
    BY <1>5
       DEF SaveCheckpoints, Voiced, SaveCosts, Fetched, Settle, Rendered, Told, Release, Complete
  <2>2. ex[o].pc \in Past \cup Released
    BY <1>5
       DEF SaveCheckpoints, Voiced, SaveCosts, Fetched, Settle, Rendered, Told, Release, Complete
  <2>3. \A s \in Shots : ~(o \in Regens /\ WaitsFor(s, o))
    BY <1>1, <2>2 DEF Fits
  <2>4. /\ Others(o)
        /\ \A s \in Shots : scene'[s].status = "regenerating" => scene[s].status = "regenerating"
    <3>1. CASE SaveCheckpoints(o)
      <4> HIDE DEF WaitsFor, AtTakes, Past, Released
      <4>1. /\ SavesRunning(o)
            /\ \A s \in Shots : scene'[s].status = "regenerating" => scene[s].status = "regenerating"
        BY <3>1, SaveCheckpointsDoes, SaveCheckpointsWrites
      <4>2. QED
        BY <4>1 DEF SavesRunning
    <3>2. CASE Voiced(o) \/ SaveCosts(o)
      BY <3>2, VoicedDoes DEF SavesRunning
    <3>3. CASE Fetched(o) \/ \E r \in Regens : Settle(o, r)
      BY <3>3, SettleDoes
    <3>4. CASE Rendered(o)
      BY <3>4, RenderedDoes, RenderedWrites
    <3>5. CASE Told(o) \/ Release(o) \/ Complete(o)
      BY <3>5, ToldDoes, ReleaseDoes, CompleteDoes
    <3>6. QED
      BY <1>5, <3>1, <3>2, <3>3, <3>4, <3>5
  <2>5. QED
    BY <1>1, <2>1, <2>3, <2>4, WaitStep
<1>6. CASE StartReassembly(o) \/ Reassemble(o)
  <2>1. UNCHANGED req /\ o \notin Regens
    BY <1>1, <1>6 DEF StartReassembly, Reassemble
  <2>2. QED
    BY <1>1, <1>6, <2>1, StartReassemblyDoes, ReassembleDoes, WaitStepAlone
<1>7. CASE Raise(o)
  <2>1. UNCHANGED <<req, copy>>
    BY <1>7 DEF Raise
  <2>2. \A s \in Shots : WaitsFor(s, o) => WaitsFor(s, o)'
    BY <1>7, <2>1, RaiseDoes DEF Requested
  <2>3. QED
    BY <1>1, <1>7, <2>1, <2>2, RaiseDoes, WaitStepAlone
<1>8. CASE FailOperation(o)
  <2>1. UNCHANGED <<req, copy>>
    BY <1>8 DEF FailOperation
  <2>2. \A s \in Shots : WaitsFor(s, o) => WaitsFor(s, o)'
    BY <1>8, <2>1, FailOperationDoes DEF Requested
  <2>3. QED
    BY <1>1, <1>8, <2>1, <2>2, FailOperationDoes, WaitStepAlone
<1>9. CASE FailJob(o)
  <2>1. UNCHANGED req
    BY <1>9 DEF FailJob
  <2>2. ASSUME NEW s \in Shots, scene'[s].status = "regenerating"
        PROVE  scene[s].status = "regenerating" /\ ~(o \in Regens /\ WaitsFor(s, o))
    <3>1. /\ scene[s].status = "regenerating"
          /\ o \in Regens /\ s \in op[o].scenes => Seen(o, s).status /= "regenerating"
      BY <1>9, <2>2, FailJobWrites
    <3>2. QED
      BY <3>1, SeesWaiting
  <2>3. QED
    BY <1>1, <1>9, <2>1, <2>2, FailJobDoes, WaitStep
<1>10. CASE RefundFailure(o)
  <2>1. UNCHANGED req
    BY <1>10 DEF RefundFailure
  <2>2. \A s \in Shots : ~WaitsFor(s, o)
    BY <1>10, RefundFailureDoes
  <2>3. QED
    BY <1>1, <1>10, <2>1, <2>2, RefundFailureDoes, WaitStepAlone
<1>11. CASE Interrupt(o)
  <2>1. UNCHANGED req /\ DOMAIN copy'[o] = {}
    BY <1>11, ForgetsDoes DEF Interrupt
  <2>2. o \in Regens => UNCHANGED op
    BY <1>1, <1>11, InterruptDoes
  <2>3. o \in Regens => \A s \in Shots : WaitsFor(s, o) => WaitsFor(s, o)'
    BY <1>1, <1>11, <2>1, <2>2, InterruptDoes DEF Requested, Fits, Awaits, Open
  <2>4. QED
    BY <1>1, <1>11, <2>1, <2>3, InterruptDoes, WaitStepAlone
<1>12. CASE TimerFires(o)
  <2>1. UNCHANGED copy
    BY <1>12 DEF TimerFires
  <2>2. \A s \in Shots : WaitsFor(s, o) => WaitsFor(s, o)'
    BY <1>12, <2>1, TimerFiresDoes DEF Requested, Open
  <2>3. QED
    BY <1>1, <1>12, <2>2, TimerFiresDoes, WaitStepAlone
<1>13. CASE BeginRegenerate(o)
  <2>1. \A s \in Shots, r \in Regens : WaitsFor(s, r) => r /= o
    BY <1>13, BeginRegenerateDoes
  <2>2. \A s \in Shots, r \in Regens : WaitsFor(s, r) => WaitsFor(s, r)'
    BY <1>1, <1>13, <2>1, BeginRegenerateDoes DEF Requested, Others, OtherCopies, Ops
  <2>3. QED
    BY <1>13, <2>2, BeginRegenerateDoes DEF ScenesWait
<1>14. QED
  BY <1>2, <1>3, <1>4, <1>5, <1>6, <1>7, <1>8, <1>9, <1>10, <1>11, <1>12, <1>13, WorkCases

\* The steps of a request, of the host and of approvals keep them too.
LEMMA ServeWaits ==
  ASSUME Base, ScenesWait, Serve \/ Host \/ BeginApprove \/ Shutdown \/ UNCHANGED vars
  PROVE  ScenesWait'
<1> USE DEF WaitsFor
<1>1. CASE ChargeRegeneration
  <2>1. req'.o = req.o /\ req'.pc = "queue" /\ req.pc = "charge" /\ UNCHANGED <<scene, copy, op, ex>>
    <3>1. req \in Request
      BY DEF Base, Core, Life
    <3>2. QED
      BY <1>1, <3>1 DEF ChargeRegeneration, Request
  <2>2. QED
    BY <2>1 DEF ScenesWait, Requested
<1>2. CASE ChargeRefused
  <2>1. \A s \in Shots, r \in Regens : WaitsFor(s, r) => WaitsFor(s, r)'
    BY <1>2, ChargeRefusedDoes, RequestForgets DEF Requested, Others, OtherCopies, Ops
  <2>2. QED
    BY <1>2, <2>1, ChargeRefusedDoes DEF ScenesWait
<1>3. CASE QueueRegeneration
  <2>1. \A s \in Shots, r \in Regens : WaitsFor(s, r) => WaitsFor(s, r)'
    BY <1>3, QueueRegenerationDoes, RequestForgets DEF Requested, Others, OtherCopies, Ops
  <2>2. PICK o \in Regens : o = req.o
    BY <1>3, QueueRegenerationDoes
  <2>3. \A s \in op[o].scenes : WaitsFor(s, o)'
    BY <1>3, <2>2, QueueRegenerationDoes, RequestForgets DEF Requested
  <2>4. QED
    BY <1>3, <2>1, <2>2, <2>3, QueueRegenerationWrites DEF ScenesWait
<1>4. CASE LockScene
  BY <1>4, LockSceneDoes DEF ScenesWait, Requested
<1>5. CASE ReadScene \/ Host \/ BeginApprove \/ UNCHANGED vars
  <2>1. UNCHANGED <<scene, copy, op, ex, req>>
    BY <1>5 DEF ReadScene, Host, Exit, Boot, BeginApprove, vars
  <2>2. QED
    BY <2>1 DEF ScenesWait, Requested
<1>6. CASE Shutdown
  <2>1. UNCHANGED copy
    BY <1>6 DEF Shutdown
  <2>2. \A s \in Shots, r \in Regens : WaitsFor(s, r) => WaitsFor(s, r)'
    BY <1>6, <2>1, ShutdownDoes DEF Requested, Ops
  <2>3. QED
    BY <1>6, <2>2, ShutdownDoes DEF ScenesWait
<1>7. QED
  BY <1>1, <1>2, <1>3, <1>4, <1>5, <1>6 DEF Serve

\* A scene that waits for a take has a regeneration on its way to it, through
\* failures, orderly stops and restarts (run_scene_regeneration).
THEOREM NoSceneWaitsForeverHolds == Spec => []NoSceneWaitsForever
<1>1. Init => Base /\ ScenesWait
  BY InitBase DEF Init, ScenesWait, NewScene
<1>2. Base /\ ScenesWait /\ [Next]_vars => (Base /\ ScenesWait)'
  <2>1. SUFFICES ASSUME Base, ScenesWait, [Next]_vars PROVE ScenesWait'
    BY NextBase
  <2>2. Base'
    BY <2>1, NextBase
  <2>3. QED
    BY <2>1, <2>2, WorkWaits, ServeWaits DEF Next
<1>3. Base /\ ScenesWait => NoSceneWaitsForever
  <2>1. SUFFICES ASSUME Base, ScenesWait, NEW s \in Shots, scene[s].status = "regenerating"
                 PROVE  \E r \in Regens : s \in op[r].scenes /\ (op[r].status \in {"queued", "running"}
                                                                 \/ ex[r].pc = "failJob")
    BY DEF NoSceneWaitsForever
  <2>2. PICK r \in Regens : WaitsFor(s, r)
    BY <2>1 DEF ScenesWait
  <2>3. ex[r].pc \in AtTakes => op[r].status = "running"
    BY AtTakesFacts, <2>1 DEF Ops
  <2>4. QED
    BY <2>2, <2>3 DEF WaitsFor
<1>4. QED
  BY <1>1, <1>2, <1>3, PTL DEF Spec

(***************************************************************************)
(* Orderly stops and the end of a regeneration that is still published.    *)
(***************************************************************************)
\* Whether a production is published automatically never changes, and an
\* operation waits at its end only for a publication or an event.
PublishKept ==
  /\ job.publish \in Publishing
  /\ \A o \in Ops : ex[o].pc \notin {"off", "start"} => ex[o].mem.publish = job.publish
  /\ req.pc /= "idle" => req.mem.publish = job.publish
  /\ \A o \in Ops : ex[o].pc = "tail" => EventSinks \/ job.publish

\* Nothing has been stopped before the first stop.
NoStops == Undisturbed => timer = {} /\ host = "up" /\ \A o \in Ops : ~ex[o].stop

\* Productions that are not stopped, or have nothing to wait for at the end.
StopsFindNoTail == \A b \in Publishing : MaxStops[b] = 0 \/ (~b /\ ~EventSinks)

Calm == Undisturbed \/ StopsFindNoTail

CalmTail == Calm => \A o \in Ops : ~(ex[o].stop /\ ex[o].pc = "tail")

Stops == PublishKept /\ NoStops /\ CalmTail

\* A step of a task keeps them when its own copy and place do.
LEMMA StopsStep ==
  ASSUME Base, Stops, NEW o \in Ops, Others(o), UNCHANGED <<req, host>>, used'.stops = used.stops,
         timer' \subseteq timer, job'.publish = job.publish,
         ex'[o].stop => ex[o].stop /\ ex'[o].pc = ex[o].pc,
         ex'[o].pc \notin {"off", "start"} => ex'[o].mem.publish = job.publish,
         ex'[o].pc = "tail" => EventSinks \/ job.publish
  PROVE  Stops'
<1>1. PublishKept'
  BY DEF Stops, PublishKept, Others
<1>2. NoStops'
  BY DEF Stops, NoStops, Undisturbed, Others
<1>3. CalmTail'
  BY DEF Stops, CalmTail, Calm, Undisturbed, StopsFindNoTail, Others
<1>4. QED
  BY <1>1, <1>2, <1>3 DEF Stops

\* The place of a task whose operation reviews or charges takes is left.
LEMMA WorkStops ==
  ASSUME Base, Stops, NEW o \in Ops,
         Work(o) \/ TakeRejected(o) \/ Raise(o) \/ BeginRegenerate(o) \/ Reassemble(o)
  PROVE  Stops'
<1>1. ex[o].pc \notin {"off", "start"} => ex[o].mem.publish = job.publish
  BY DEF Stops, PublishKept
<1>2. ex[o].stop => ex[o].pc \in Awaits
  BY TaskFields DEF Fits
<1>3. CASE StartRegeneration(o)
  <2>1. UNCHANGED <<req, host, timer, used>>
    BY <1>3 DEF StartRegeneration
  <2>2. QED
    BY <1>3, <2>1, StartRegenerationDoes, StopsStep
<1>4. CASE TakePasses(o) \/ TakeRejected(o) \/ ChargeRetake(o)
  <2>1. UNCHANGED <<req, host, timer, used>> /\ ~ex[o].stop
    <3>1. ex[o].pc = "veo" => ~ex[o].stop
      BY <1>4 DEF TakePasses, TakeRejected, ChargeRetake, Reviewed, Runs, Awaits
    <3>2. ex[o].pc = "charge" => ~ex[o].stop
      BY <1>2 DEF Awaits
    <3>3. QED
      BY <1>4, <3>1, <3>2, TakePassesDoes, TakeRejectedDoes, ChargeRetakeDoes
         DEF TakePasses, TakeRejected, ChargeRetake
  <2>2. CASE TakePasses(o)
    BY <1>1, <2>1, <2>2, TakePassesDoes, StopsStep
  <2>3. CASE TakeRejected(o)
    BY <1>1, <2>1, <2>3, TakeRejectedDoes, StopsStep
  <2>4. CASE ChargeRetake(o)
    BY <1>1, <2>1, <2>4, ChargeRetakeDoes, StopsStep
  <2>5. QED
    BY <1>4, <2>2, <2>3, <2>4
<1>5. CASE AcceptTake(o)
  <2>1. UNCHANGED <<req, host, timer, used>> /\ ex[o].pc = "accept"
    BY <1>5 DEF AcceptTake
  <2>2. ~ex[o].stop
    BY <1>2, <2>1 DEF Awaits
  <2>3. QED
    BY <1>1, <1>5, <2>1, <2>2, AcceptTakeDoes, StopsStep
<1>6. CASE SaveCheckpoints(o) \/ Voiced(o) \/ SaveCosts(o)
  <2>1. UNCHANGED <<req, host, timer, used>> /\ ~ex[o].stop
    BY <1>2, <1>6 DEF SaveCheckpoints, Voiced, SaveCosts, Runs, Awaits
  <2>2. SavesRunning(o) /\ ex'[o].pc \in {"voice", "fetch", "costs", "render"} /\ ex[o].pc \in Past
    <3>1. CASE SaveCheckpoints(o)
      BY <3>1, SaveCheckpointsDoes DEF Past
    <3>2. CASE Voiced(o) \/ SaveCosts(o)
      BY <3>2, VoicedDoes DEF Past
    <3>3. QED
      BY <1>6, <3>1, <3>2
  <2>3. ex[o].mem.publish = job.publish
    BY <1>1, <2>2 DEF Past
  <2>4. QED
    BY <2>1, <2>2, <2>3, StopsStep DEF SavesRunning
<1>7. CASE Fetched(o) \/ \E r \in Regens : Settle(o, r)
  <2>1. UNCHANGED <<req, host, timer, used>> /\ ~ex[o].stop
    BY <1>2, <1>7 DEF Fetched, Settle, Runs, Awaits
  <2>2. QED
    BY <1>1, <1>7, <2>1, SettleDoes, StopsStep
<1>8. CASE StartReassembly(o)
  <2>1. UNCHANGED <<req, host, timer, used>>
    BY <1>8 DEF StartReassembly
  <2>2. QED
    BY <1>8, <2>1, StartReassemblyDoes, StopsStep
<1>9. CASE Rendered(o)
  <2>1. UNCHANGED <<req, host, timer, used>>
    BY <1>9 DEF Rendered
  <2>2. ex[o].mem.publish = job.publish
    BY <1>1, <1>9, RenderedDoes
  <2>3. QED
    BY <1>9, <2>1, <2>2, RenderedDoes, StopsStep
<1>10. CASE Told(o) \/ Complete(o)
  <2>1. UNCHANGED <<req, host, timer, used>> /\ ~ex[o].stop
    BY <1>2, <1>10 DEF Told, Complete, Runs, Awaits
  <2>2. QED
    BY <1>1, <1>10, <2>1, ToldDoes, CompleteDoes, StopsStep DEF AfterTail
<1>11. CASE Release(o) \/ FailJob(o)
  <2>1. UNCHANGED <<req, host, timer, used>>
    BY <1>11 DEF Release, FailJob
  <2>2. ex[o].mem.publish = job.publish
    BY <1>1, <1>11, ReleaseDoes, FailJobDoes
  <2>3. QED
    BY <1>11, <2>1, <2>2, ReleaseDoes, FailJobDoes, StopsStep
<1>12. CASE Raise(o)
  <2>1. UNCHANGED <<req, host, timer>> /\ used'.stops = used.stops
    BY <1>12 DEF Raise, Spend, Base, Core, Rest
  <2>2. QED
    BY <1>1, <1>12, <2>1, RaiseDoes, StopsStep
<1>13. CASE FailOperation(o) \/ RefundFailure(o)
  <2>1. UNCHANGED <<req, host, timer, used>>
    BY <1>13 DEF FailOperation, RefundFailure
  <2>2. QED
    BY <1>1, <1>13, <2>1, FailOperationDoes, RefundFailureDoes, StopsStep
<1>14. CASE Interrupt(o)
  <2>1. UNCHANGED <<req, host, timer, used>>
    BY <1>14 DEF Interrupt
  <2>2. job'.publish = job.publish
    <3>1. \/ UNCHANGED job
          \/ ex[o].pc \in Awaits /\ ex[o].pc /= "start" /\ job'.publish = ex[o].mem.publish
      BY <1>14, InterruptDoes
    <3>2. QED
      BY <1>1, <3>1 DEF Awaits
  <2>3. QED
    BY <1>14, <2>1, <2>2, InterruptDoes, StopsStep
<1>15. CASE TimerFires(o) \/ Reassemble(o)
  <2>1. UNCHANGED <<req, host, used>> /\ timer' \subseteq timer
    BY <1>15, TimerFiresDoes DEF TimerFires, Reassemble
  <2>2. QED
    BY <1>15, <2>1, TimerFiresDoes, ReassembleDoes, StopsStep
<1>16. CASE BeginRegenerate(o)
  <2>1. UNCHANGED <<ex, host, timer, used>>
    BY <1>16 DEF BeginRegenerate
  <2>2. PublishKept'
    BY <1>16, <2>1, BeginRegenerateDoes DEF Stops, PublishKept
  <2>3. QED
    BY <2>1, <2>2 DEF Stops, NoStops, CalmTail, Calm, Undisturbed, StopsFindNoTail
<1>17. QED
  BY <1>3, <1>4, <1>5, <1>6, <1>7, <1>8, <1>9, <1>10, <1>11, <1>12, <1>13, <1>14, <1>15, <1>16,
     WorkCases

\* A stop finds no operation at its end that it should not find there.
LEMMA ServeStops ==
  ASSUME Base, Stops, Serve \/ Host \/ BeginApprove \/ Shutdown \/ UNCHANGED vars
  PROVE  Stops'
<1> USE DEF Stops, NoStops, CalmTail, Calm, Undisturbed, StopsFindNoTail
<1>1. CASE ChargeRegeneration
  <2>1. req'.mem = req.mem /\ req.pc = "charge" /\ UNCHANGED <<job, ex, host, timer, used>>
    <3>1. req \in Request
      BY DEF Base, Core, Life
    <3>2. QED
      BY <1>1, <3>1 DEF ChargeRegeneration, Request
  <2>2. QED
    BY <2>1 DEF PublishKept
<1>2. CASE ChargeRefused
  <2>1. UNCHANGED <<ex, host, timer, used>> /\ job'.publish = job.publish /\ req'.pc = "idle"
    BY <1>2, ChargeRefusedDoes DEF ChargeRefused, PublishKept
  <2>2. QED
    BY <2>1 DEF PublishKept
<1>3. CASE QueueRegeneration
  <2>1. UNCHANGED <<host, timer, used>> /\ job'.publish = job.publish /\ req'.pc = "idle"
    BY <1>3, QueueRegenerationDoes DEF QueueRegeneration, PublishKept
  <2>2. \A p \in Ops : \/ ex'[p].pc = "start" /\ ~ex'[p].stop
                       \/ ex'[p] = ex[p]
    BY <1>3, QueueRegenerationDoes DEF Others
  <2>3. PublishKept'
    BY <2>1, <2>2 DEF PublishKept
  <2>4. NoStops' /\ CalmTail'
    BY <2>1, <2>2
  <2>5. QED
    BY <2>3, <2>4
<1>4. CASE ReadScene \/ LockScene \/ UNCHANGED vars
  <2>1. UNCHANGED <<job, ex, req, host, timer, used>>
    BY <1>4 DEF ReadScene, LockScene, vars
  <2>2. QED
    BY <2>1 DEF PublishKept
<1>5. CASE Host
  <2>1. UNCHANGED <<job, ex, req, used>> /\ host \in {"stopping", "down"}
    BY <1>5 DEF Host, Exit, Boot
  <2>2. QED
    BY <2>1 DEF PublishKept
<1>6. CASE BeginApprove
  <2>1. UNCHANGED <<job, ex, req, host, timer>> /\ used'.stops = used.stops
    BY <1>6 DEF BeginApprove, Spend, Base, Core, Rest
  <2>2. QED
    BY <2>1 DEF PublishKept
<1>7. CASE Shutdown
  <2>1. /\ used.stops \in Nat /\ used.stops < MaxStops[job.publish] /\ used'.stops = used.stops + 1
        /\ \A o \in Ops : ex'[o].pc = ex[o].pc /\ ex'[o].mem = ex[o].mem
        /\ UNCHANGED <<job, req>>
    BY <1>7, ShutdownDoes DEF Base, Core, Rest
  <2>2. PublishKept'
    BY <2>1 DEF PublishKept
  <2>3. NoStops'
    BY <2>1
  <2>4. CalmTail'
    <3>1. SUFFICES ASSUME Calm', NEW o \in Ops, ex'[o].pc = "tail" PROVE FALSE
      OBVIOUS
    <3>2. StopsFindNoTail
      BY <2>1, <3>1
    <3>3. EventSinks \/ job.publish
      BY <2>1, <3>1 DEF PublishKept
    <3>4. MaxStops[job.publish] = 0
      BY <3>2, <3>3 DEF PublishKept
    <3>5. QED
      BY <2>1, <3>4
  <2>5. QED
    BY <2>2, <2>3, <2>4
<1>8. QED
  BY <1>1, <1>2, <1>3, <1>4, <1>5, <1>6, <1>7 DEF Serve

\* These hold at the beginning.
LEMMA InitStops == Init => Stops
<1>1. SUFFICES ASSUME Init PROVE Stops
  OBVIOUS
<1>2. /\ \A o \in Ops : ex[o].pc = "off" /\ ~ex[o].stop
      /\ req.pc = "idle" /\ timer = {} /\ host = "up"
  BY <1>1, NoTaskType DEF Init, NoRequest
<1>3. job.publish \in Publishing
  <2>1. PICK b \in Publishing : job = [NoJob EXCEPT !.publish = b]
    BY <1>1 DEF Init
  <2>2. QED
    BY <2>1, NoJobType DEF Job
<1>4. QED
  BY <1>2, <1>3 DEF Stops, PublishKept, NoStops, CalmTail

(***************************************************************************)
(* One operation owns the production.                                      *)
(***************************************************************************)
\* An operation owns it from its request until its version is made, or until the
\* production is failed.
Owns(o) == ex[o].pc = "failJob" \/ (Open(op[o]) /\ ex[o].pc \notin Released)

OneOwner == Calm => \A o, p \in Ops : Owns(o) /\ Owns(p) => o = p

Claimed == {"queued", "running"}

OwnersClaim == Calm => \A o \in Ops : Owns(o) => job.status \in Claimed

Owners == OneOwner /\ OwnersClaim

\* A step of an operation that owns the production keeps the claim or gives the
\* production up; one of another operation leaves its status alone.
LEMMA OwnersStep ==
  ASSUME Base, Owners, Calm' => Calm, NEW o \in Ops, Others(o),
         Calm => (Owns(o)' => Owns(o) /\ job'.status \in Claimed),
         Calm => (~Owns(o) => job'.status = job.status)
  PROVE  Owners'
<1>1. \A p \in Ops : p /= o => (Owns(p)' <=> Owns(p))
  BY DEF Owns, Others
<1>2. OneOwner'
  BY <1>1 DEF Owners, OneOwner
<1>3. OwnersClaim'
  <2>1. SUFFICES ASSUME Calm, NEW p \in Ops, Owns(p)' PROVE job'.status \in Claimed
    BY DEF OwnersClaim
  <2>2. CASE p = o
    BY <2>1, <2>2
  <2>3. CASE p /= o
    <3>1. Owns(p) /\ ~Owns(o)
      BY <1>1, <2>1, <2>3 DEF Owners, OneOwner
    <3>2. QED
      BY <2>1, <3>1 DEF Owners, OwnersClaim
  <2>4. QED
    BY <2>2, <2>3
<1>4. QED
  BY <1>2, <1>3 DEF Owners

\* A claim of a production that nobody owns makes its owner.
LEMMA OwnersBegin ==
  ASSUME Base, Owners, Calm' => Calm, NEW o \in Ops, Others(o),
         job.status \notin Claimed, job'.status \in Claimed
  PROVE  Owners'
<1>1. \A p \in Ops : p /= o => (Owns(p)' <=> Owns(p))
  BY DEF Owns, Others
<1>2. Calm => \A p \in Ops : ~Owns(p)
  BY DEF Owners, OwnersClaim
<1>3. Calm' => \A p \in Ops : Owns(p)' => p = o
  BY <1>1, <1>2
<1>4. QED
  BY <1>3 DEF Owners, OneOwner, OwnersClaim

\* The stops that have been made are not undone.
LEMMA CalmKept ==
  ASSUME Base, [Next]_vars
  PROVE  (Calm' => Calm) /\ (Undisturbed' => Undisturbed)
<1>1. used'.stops = used.stops \/ (used.stops \in Nat /\ used'.stops = used.stops + 1)
  <2>1. CASE Shutdown
    BY <2>1, ShutdownDoes DEF Base, Core, Rest
  <2>2. CASE BeginApprove \/ \E o \in Ops : Raise(o)
    BY <2>2 DEF BeginApprove, Raise, Spend, Base, Core, Rest
  <2>3. CASE Serve \/ Host \/ UNCHANGED vars
    BY <2>3 DEF Serve, Host, ChargeRegeneration, ChargeRefused, QueueRegeneration, ReadScene,
               LockScene, Exit, Boot, vars
  <2>4. ASSUME NEW o \in Ops, Work(o) \/ TakeRejected(o) \/ BeginRegenerate(o) \/ Reassemble(o)
        PROVE  UNCHANGED used
    <3>1. CASE \/ StartRegeneration(o) \/ ChargeRetake(o) \/ AcceptTake(o) \/ SaveCheckpoints(o)
               \/ Voiced(o) \/ Fetched(o) \/ (\E r \in Regens : Settle(o, r)) \/ SaveCosts(o)
      BY <3>1 DEF StartRegeneration, ChargeRetake, AcceptTake, SaveCheckpoints, Voiced, Fetched,
                  Settle, SaveCosts
    <3>2. CASE \/ StartReassembly(o) \/ Rendered(o) \/ Told(o) \/ Release(o) \/ Complete(o)
               \/ FailOperation(o) \/ FailJob(o) \/ RefundFailure(o) \/ Interrupt(o) \/ TimerFires(o)
      BY <3>2 DEF StartReassembly, Rendered, Told, Release, Complete, FailOperation, FailJob,
                  RefundFailure, Interrupt, TimerFires
    <3>3. CASE TakePasses(o) \/ TakeRejected(o) \/ BeginRegenerate(o) \/ Reassemble(o)
      BY <3>3 DEF TakePasses, TakeRejected, BeginRegenerate, Reassemble
    <3>4. QED
      BY <2>4, <3>1, <3>2, <3>3 DEF Work
  <2>5. QED
    BY <2>1, <2>2, <2>3, <2>4 DEF Next
<1>2. QED
  BY <1>1 DEF Calm, Undisturbed, StopsFindNoTail

\* A task that works is the owner's.
LEMMA WorkersOwn ==
  ASSUME Base, NEW o \in Ops, ex[o].pc \in AtTakes \cup Past \cup {"start", "failing", "failJob"}
  PROVE  Owns(o)
<1>1. Fits(o, ex[o], op[o])
  BY TaskFields
<1>2. QED
  BY <1>1 DEF Fits, Owns, Open, AtTakes, Past, Released

\* The steps of an operation.
LEMMA WorkOwners ==
  ASSUME Base, Base', Stops, Owners, [Next]_vars, NEW o \in Ops,
         Work(o) \/ TakeRejected(o) \/ Raise(o) \/ BeginRegenerate(o) \/ Reassemble(o)
  PROVE  Owners'
<1>1. Calm' => Calm
  BY CalmKept
<1>2. Fits(o, ex[o], op[o]) /\ Fits(o, ex[o], op[o])'
  BY DEF Base, Core, Life, AllFit
<1>3. Calm /\ Owns(o) => job.status \in Claimed
  BY DEF Owners, OwnersClaim
<1>4. \A p \in Ops : ex[p].pc \in AtTakes \cup Past \cup {"start", "failing", "failJob"} => Owns(p)
  BY WorkersOwn
<1>5. ASSUME Others(o), Owns(o), Owns(o)' => job'.status \in {"queued", "running", job.status}
      PROVE  Owners'
  <2>1. Calm => (Owns(o)' => Owns(o) /\ job'.status \in Claimed)
    BY <1>3, <1>5 DEF Claimed
  <2>2. QED
    BY <1>1, <1>5, <2>1, OwnersStep
<1>6. CASE StartRegeneration(o)
  BY <1>4, <1>5, <1>6, StartRegenerationDoes
<1>7. CASE TakePasses(o) \/ TakeRejected(o) \/ ChargeRetake(o) \/ AcceptTake(o)
  <2>1. Others(o) /\ UNCHANGED job /\ ex[o].pc \in AtTakes
    BY <1>7, TakePassesDoes, TakeRejectedDoes, ChargeRetakeDoes, AcceptTakeDoes DEF AtTakes
  <2>2. QED
    BY <1>4, <1>5, <2>1
<1>8. CASE SaveCheckpoints(o) \/ Voiced(o) \/ SaveCosts(o)
  <2>1. SavesRunning(o) /\ ex[o].pc \in Past
    <3>1. CASE SaveCheckpoints(o)
      BY <3>1, SaveCheckpointsDoes DEF Past
    <3>2. CASE Voiced(o) \/ SaveCosts(o)
      BY <3>2, VoicedDoes DEF Past
    <3>3. QED
      BY <1>8, <3>1, <3>2
  <2>2. QED
    BY <1>4, <1>5, <2>1 DEF SavesRunning
<1>9. CASE Fetched(o) \/ \E r \in Regens : Settle(o, r)
  <2>1. Others(o) /\ UNCHANGED job /\ ex[o].pc \in Past
    BY <1>9, SettleDoes DEF Past
  <2>2. QED
    BY <1>4, <1>5, <2>1
<1>10. CASE StartReassembly(o)
  BY <1>4, <1>5, <1>10, StartReassemblyDoes
<1>11. CASE Rendered(o)
  <2>1. ~Owns(o)'
    BY <1>11, RenderedDoes DEF Owns, Released, AfterTail
  <2>2. Owns(o) /\ Others(o)
    BY <1>4, <1>11, RenderedDoes DEF Past
  <2>3. QED
    BY <1>5, <2>1, <2>2
<1>12. CASE Told(o) \/ Release(o) \/ Complete(o)
  <2>1. ~Owns(o) /\ Others(o) /\ job'.status = job.status
    <3>1. ex[o].pc \in Released
      BY <1>12, ToldDoes, ReleaseDoes, CompleteDoes DEF Released
    <3>2. QED
      BY <1>12, <3>1, ToldDoes, ReleaseDoes, CompleteDoes DEF Owns, Released
  <2>2. ~Owns(o)'
    <3>1. CASE Told(o)
      BY <3>1, ToldDoes DEF Owns, Released, AfterTail
    <3>2. CASE Release(o)
      <4>1. CASE o \in Regens
        BY <3>2, <4>1, ReleaseDoes DEF Owns, Released
      <4>2. CASE o \notin Regens
        <5>1. op'[o].status = "completed" /\ ex'[o].pc = "off"
          BY <1>2, <3>2, <4>2, ReleaseDoes DEF Fits
        <5>2. QED
          BY <5>1 DEF Owns, Open
      <4>3. QED
        BY <4>1, <4>2
    <3>3. CASE Complete(o)
      BY <3>3, CompleteDoes DEF Owns, Open
    <3>4. QED
      BY <1>12, <3>1, <3>2, <3>3
  <2>3. QED
    BY <1>1, <2>1, <2>2, OwnersStep
<1>13. CASE Raise(o) \/ FailOperation(o)
  <2>1. Others(o) /\ UNCHANGED job /\ ex[o].pc \in AtTakes \cup Past \cup {"failing"}
    BY <1>13, RaiseDoes, FailOperationDoes DEF AtTakes, Past
  <2>2. QED
    BY <1>4, <1>5, <2>1
<1>14. CASE FailJob(o)
  <2>1. ~Owns(o)' /\ Others(o) /\ Owns(o)
    BY <1>4, <1>14, FailJobDoes DEF Owns, Open
  <2>2. QED
    BY <1>5, <2>1
<1>15. CASE RefundFailure(o)
  <2>1. ~Owns(o)' /\ Others(o) /\ ~Owns(o) /\ UNCHANGED job
    BY <1>15, RefundFailureDoes DEF Owns, Open
  <2>2. QED
    BY <1>1, <2>1, OwnersStep
<1>16. CASE Interrupt(o)
  <2>1. Calm => ex[o].pc /= "tail"
    BY <1>16, InterruptDoes DEF Stops, CalmTail
  <2>2. Others(o) /\ ex[o].pc \in Awaits /\ ex'[o].pc = "off"
    BY <1>16, InterruptDoes
  <2>3. Calm => Owns(o)
    BY <1>4, <2>1, <2>2 DEF Awaits, AtTakes, Past
  <2>4. job'.status \in {"queued", job.status}
    BY <1>16, InterruptDoes
  <2>5. QED
    BY <1>1, <1>3, <2>2, <2>3, <2>4, OwnersStep DEF Claimed
<1>17. CASE TimerFires(o)
  <2>1. Others(o) /\ UNCHANGED job /\ Owns(o)
    BY <1>17, TimerFiresDoes DEF Owns, Released
  <2>2. QED
    BY <1>5, <2>1
<1>18. CASE BeginRegenerate(o) \/ Reassemble(o)
  <2>1. Others(o) /\ job.status \notin Claimed /\ job'.status \in Claimed
    BY <1>18, BeginRegenerateDoes, ReassembleDoes DEF Claimed
  <2>2. QED
    BY <1>1, <2>1, OwnersBegin
<1>19. QED
  BY <1>6, <1>7, <1>8, <1>9, <1>10, <1>11, <1>12, <1>13, <1>14, <1>15, <1>16, <1>17, <1>18,
     WorkCases

\* The steps of a request and of the host.
LEMMA ServeOwners ==
  ASSUME Base, Owners, [Next]_vars, Serve \/ Host \/ BeginApprove \/ Shutdown \/ UNCHANGED vars
  PROVE  Owners'
<1>1. Calm' => Calm
  BY CalmKept
<1>2. CASE ChargeRefused
  <2>1. PICK o \in Ops : o = req.o
    BY <1>2, ChargeRefusedDoes
  <2>2. Others(o) /\ Owns(o) /\ ~Owns(o)'
    BY <1>2, <2>1, ChargeRefusedDoes DEF Owns, Open, Released
  <2>3. QED
    BY <1>1, <2>2, OwnersStep
<1>3. CASE QueueRegeneration
  <2>1. PICK o \in Ops : o = req.o
    BY <1>3, QueueRegenerationDoes
  <2>2. Others(o) /\ Owns(o) /\ job'.status \in Claimed
    BY <1>3, <2>1, QueueRegenerationDoes DEF Owns, Open, Released, Claimed
  <2>3. QED
    BY <1>1, <2>2, OwnersStep
<1>4. CASE \/ ChargeRegeneration \/ ReadScene \/ LockScene \/ Host \/ BeginApprove
           \/ UNCHANGED vars
  <2>1. UNCHANGED <<job, op, ex>>
    BY <1>4 DEF ChargeRegeneration, ReadScene, LockScene, Host, Exit, Boot, BeginApprove, vars
  <2>2. \A o \in Ops : Owns(o)' <=> Owns(o)
    BY <2>1 DEF Owns
  <2>3. QED
    BY <1>1, <2>1, <2>2 DEF Owners, OneOwner, OwnersClaim
<1>5. CASE Shutdown
  <2>1. UNCHANGED job /\ \A o \in Ops : Owns(o)' <=> Owns(o)
    BY <1>5, ShutdownDoes DEF Owns
  <2>2. QED
    BY <1>1, <2>1 DEF Owners, OneOwner, OwnersClaim
<1>6. QED
  BY <1>2, <1>3, <1>4, <1>5 DEF Serve

(***************************************************************************)
(* Versions show what was accepted.                                        *)
(***************************************************************************)
\* Where a regeneration has put the takes of its version together.
HasShots == Past \ {"checkpoint"}

\* Rows, the copies of the operation that owns the production, and versions show
\* what was accepted last, where no approval has overwritten it.
TakesKept == \A s \in Shots \ lost : scene[s].take = accepted[s]

CopiesKept ==
  \A r \in Regens : Owns(r) => \A s \in DOMAIN copy[r] \ lost : copy[r][s].take = accepted[s]

ShotsKept ==
  \A r \in Regens : ex[r].pc \in HasShots =>
    \A s \in Shots \ lost : ex[r].mem.shots[s] = accepted[s]

Versions == Calm => TakesKept /\ CopiesKept /\ ShotsKept

\* What the owner sees was accepted.
LEMMA SeenKept ==
  ASSUME Versions, Calm, NEW r \in Regens, Owns(r), NEW s \in Shots \ lost
  PROVE  Seen(r, s).take = accepted[s]
BY DEF Versions, TakesKept, CopiesKept, Seen

\* A step that accepts no take keeps them when what it writes, holds and puts
\* together comes from the rows or from the owner's copies.
LEMMA VersionsStep ==
  ASSUME Base', Versions, Calm' => Calm, NEW o \in Ops, Others(o), OtherCopies(o),
         UNCHANGED <<accepted, lost>>, TakesSeen(o),
         (o \in Regens /\ Owns(o)) \/ \A s \in Shots : scene'[s].take = scene[s].take,
         o \in Regens /\ Owns(o)' => \A s \in DOMAIN copy'[o] :
           \/ copy'[o][s] = scene'[s]
           \/ (Owns(o) /\ s \in DOMAIN copy[o] /\ copy'[o][s] = copy[o][s]),
         o \in Regens /\ ex'[o].pc \in HasShots =>
           \/ ex[o].pc \in HasShots /\ ex'[o].mem.shots = ex[o].mem.shots
           \/ Owns(o) /\ \A s \in Shots : ex'[o].mem.shots[s] = Seen(o, s).take
  PROVE  Versions'
<1>1. SUFFICES ASSUME Calm PROVE TakesKept' /\ CopiesKept' /\ ShotsKept'
  BY DEF Versions
<1>2. TakesKept /\ CopiesKept /\ ShotsKept
  BY <1>1 DEF Versions
<1>3. o \in Regens /\ Owns(o) => \A s \in Shots \ lost : Seen(o, s).take = accepted[s]
  BY <1>1, SeenKept
<1>4. TakesKept'
  BY <1>2, <1>3 DEF TakesKept, TakesSeen
<1>5. CopiesKept'
  <2>1. SUFFICES ASSUME NEW r \in Regens, Owns(r)', NEW s \in DOMAIN copy'[r] \ lost
                 PROVE  copy'[r][s].take = accepted[s]
    BY DEF CopiesKept
  <2>2. CASE r = o
    <3>1. s \in Shots
      BY <2>1, HeldFields DEF Base, Copies, Ops
    <3>2. scene'[s].take = accepted[s]
      BY <1>4, <2>1, <3>1 DEF TakesKept
    <3>3. QED
      BY <1>2, <2>1, <2>2, <3>2 DEF CopiesKept
  <2>3. CASE r /= o
    BY <1>2, <2>1, <2>3 DEF CopiesKept, Owns, Others, OtherCopies, Ops
  <2>4. QED
    BY <2>2, <2>3
<1>6. ShotsKept'
  <2>1. SUFFICES ASSUME NEW r \in Regens, ex'[r].pc \in HasShots, NEW s \in Shots \ lost
                 PROVE  ex'[r].mem.shots[s] = accepted[s]
    BY DEF ShotsKept
  <2>2. CASE r = o
    BY <1>2, <1>3, <2>1, <2>2 DEF ShotsKept
  <2>3. CASE r /= o
    BY <1>2, <2>1, <2>3 DEF ShotsKept, Others, Ops
  <2>4. QED
    BY <2>2, <2>3
<1>7. QED
  BY <1>4, <1>5, <1>6

\* One that uses no scene keeps them too.
LEMMA VersionsStepAlone ==
  ASSUME Base', Versions, Calm' => Calm, NEW o \in Ops, Others(o),
         UNCHANGED <<scene, copy, accepted, lost>>, o \in Regens /\ Owns(o)' => Owns(o),
         o \in Regens /\ ex'[o].pc \in HasShots =>
           ex[o].pc \in HasShots /\ ex'[o].mem.shots = ex[o].mem.shots
  PROVE  Versions'
<1>1. OtherCopies(o) /\ TakesSeen(o)
  BY DEF OtherCopies, TakesSeen
<1>2. QED
  BY <1>1, VersionsStep

\* An accepted take is the only owner's.
LEMMA AcceptTakeVersions ==
  ASSUME Base, Base', Owners, Versions, Calm' => Calm, NEW o \in Ops, AcceptTake(o), OtherCopies(o)
  PROVE  Versions'
<1>1. SUFFICES ASSUME Calm PROVE TakesKept' /\ CopiesKept' /\ ShotsKept'
  BY DEF Versions
<1>2. TakesKept /\ CopiesKept /\ ShotsKept
  BY <1>1 DEF Versions
<1>3. /\ o \in Regens /\ ex[o].pc = "accept" /\ ex'[o].pc \in {"checkpoint", "veo"} /\ Others(o)
      /\ ex[o].at \in Shots
  BY AcceptTakeDoes
<1>4. Owns(o)
  BY <1>3, WorkersOwn DEF AtTakes
<1>5. ASSUME NEW r \in Regens, r /= o
      PROVE  ~Owns(r)' /\ ex'[r].pc \notin HasShots
  <2>1. r \in Ops /\ ~Owns(r)
    BY <1>1, <1>4, <1>5 DEF Owners, OneOwner, Ops
  <2>2. ex[r].pc \notin HasShots
    BY <2>1, WorkersOwn DEF HasShots
  <2>3. QED
    BY <1>3, <1>5, <2>1, <2>2 DEF Others, Owns
<1>6. /\ \A s \in Shots \ {ex[o].at} : scene'[s] = scene[s]
      /\ \A s \in DOMAIN copy[o] : copy'[o][s] = IF s = ex[o].at THEN scene'[s] ELSE copy[o][s]
      /\ DOMAIN copy'[o] = DOMAIN copy[o] /\ scene'[ex[o].at].take = o
  BY <1>3, AcceptTakeWrites DEF Refreshed
<1>7. accepted' = [accepted EXCEPT ![ex[o].at] = o] /\ lost' = lost \ {ex[o].at}
  BY DEF AcceptTake
<1>8. /\ accepted'[ex[o].at] = o
      /\ \A s \in Shots \ {ex[o].at} : accepted'[s] = accepted[s]
  BY <1>3, <1>7 DEF Base, History
<1>9. TakesKept'
  BY <1>2, <1>6, <1>7, <1>8 DEF TakesKept
<1>10. CopiesKept'
  <2>1. SUFFICES ASSUME NEW s \in DOMAIN copy'[o] \ lost' PROVE copy'[o][s].take = accepted'[s]
    BY <1>5 DEF CopiesKept
  <2>2. s \in Shots
    BY <2>1, HeldFields DEF Base, Copies
  <2>3. CASE s = ex[o].at
    BY <1>6, <1>8, <2>1, <2>3
  <2>4. CASE s /= ex[o].at
    BY <1>2, <1>3, <1>4, <1>6, <1>7, <1>8, <2>1, <2>2, <2>4 DEF CopiesKept
  <2>5. QED
    BY <2>3, <2>4
<1>11. ShotsKept'
  BY <1>3, <1>5 DEF ShotsKept, HasShots, Past
<1>12. QED
  BY <1>9, <1>10, <1>11

\* The steps of an operation.
LEMMA WorkVersions ==
  ASSUME Base, Base', Owners, Versions, [Next]_vars, NEW o \in Ops,
         Work(o) \/ TakeRejected(o) \/ Raise(o) \/ BeginRegenerate(o) \/ Reassemble(o)
  PROVE  Versions'
<1>1. (Calm' => Calm) /\ OtherCopies(o)
  BY CalmKept, WorkCopies DEF Base
<1>2. CASE AcceptTake(o)
  BY <1>1, <1>2, AcceptTakeVersions
<1>3. CASE StartRegeneration(o) \/ BeginRegenerate(o)
  <2>1. Others(o) /\ ex'[o].pc \notin HasShots /\ \A s \in Shots : scene'[s].take = scene[s].take
    BY <1>3, StartRegenerationDoes, BeginRegenerateDoes DEF HasShots, Past
  <2>2. \A s \in DOMAIN copy'[o] : copy'[o][s] = scene'[s]
    BY <1>3, BeginsHolding DEF Base
  <2>3. UNCHANGED <<accepted, lost>>
    BY <1>3 DEF StartRegeneration, BeginRegenerate
  <2>4. TakesSeen(o)
    BY <2>1 DEF TakesSeen
  <2>5. QED
    BY <1>1, <2>1, <2>2, <2>3, <2>4, VersionsStep
<1>4. CASE TakeRejected(o)
  <2>1. /\ o \in Regens /\ Others(o) /\ ex[o].pc = "veo" /\ ex'[o].pc \in {"charge", "failing"}
        /\ Again(o) \/ UNCHANGED <<scene, copy>>
    BY <1>4, TakeRejectedDoes
  <2>2. Owns(o) /\ ex'[o].pc \notin HasShots
    BY <2>1, WorkersOwn DEF AtTakes, HasShots, Past
  <2>3. UNCHANGED <<accepted, lost>>
    BY <1>4 DEF TakeRejected
  <2>4. CASE Again(o)
    BY <1>1, <2>1, <2>2, <2>3, <2>4, AgainWrites, VersionsStep DEF Refreshed
  <2>5. CASE UNCHANGED <<scene, copy>>
    BY <1>1, <2>1, <2>2, <2>3, <2>5, VersionsStepAlone
  <2>6. QED
    BY <2>1, <2>4, <2>5
<1>5. CASE SaveCheckpoints(o)
  <2>1. /\ o \in Regens /\ ex[o].pc = "checkpoint" /\ SavesRunning(o) /\ job'.shots = AcceptedShots(o)
        /\ TakesSeen(o) /\ Refreshed(o)
    BY <1>5, SaveCheckpointsDoes, SaveCheckpointsWrites
  <2>2. Owns(o) /\ Others(o) /\ ex'[o].mem = job'
    BY <2>1, WorkersOwn DEF Past, SavesRunning
  <2>3. UNCHANGED <<accepted, lost>>
    BY <1>5 DEF SaveCheckpoints
  <2>4. \A s \in Shots : ex'[o].mem.shots[s] = Seen(o, s).take
    BY <2>1, <2>2 DEF AcceptedShots
  <2>5. QED
    BY <1>1, <2>1, <2>2, <2>3, <2>4, VersionsStep DEF Refreshed
<1>6. CASE TakePasses(o) \/ ChargeRetake(o)
  <2>1. UNCHANGED <<scene, copy, accepted, lost>>
    BY <1>6 DEF TakePasses, ChargeRetake
  <2>2. Others(o) /\ ex[o].pc \in AtTakes /\ ex'[o].pc \in {"veo", "charge", "accept", "failing"}
    BY <1>6, TakePassesDoes, ChargeRetakeDoes DEF AtTakes
  <2>3. Owns(o) /\ ex'[o].pc \notin HasShots
    BY <2>2, WorkersOwn DEF HasShots, Past
  <2>4. QED
    BY <1>1, <2>1, <2>2, <2>3, VersionsStepAlone
<1>7. CASE Voiced(o) \/ SaveCosts(o)
  <2>1. UNCHANGED <<scene, copy, accepted, lost>>
    BY <1>7 DEF Voiced, SaveCosts
  <2>2. SavesRunning(o) /\ job'.shots = ex[o].mem.shots /\ ex[o].pc \in HasShots
    BY <1>7, VoicedDoes DEF HasShots, Past
  <2>3. Owns(o)
    BY <2>2, WorkersOwn DEF HasShots
  <2>4. QED
    BY <1>1, <2>1, <2>2, <2>3, VersionsStepAlone DEF SavesRunning
<1>8. CASE Fetched(o) \/ \E r \in Regens : Settle(o, r)
  <2>1. UNCHANGED <<scene, copy, accepted, lost>>
    BY <1>8 DEF Fetched, Settle
  <2>2. Others(o) /\ ex'[o].mem = ex[o].mem /\ ex[o].pc \in HasShots
    BY <1>8, SettleDoes DEF HasShots, Past
  <2>3. Owns(o)
    BY <2>2, WorkersOwn DEF HasShots
  <2>4. QED
    BY <1>1, <2>1, <2>2, <2>3, VersionsStepAlone
<1>9. CASE Rendered(o) \/ FailJob(o)
  <2>1. /\ TakesSeen(o) /\ Others(o) /\ ex[o].pc \in {"render", "failJob"}
        /\ ex'[o].pc \in {"tail", "release", "complete", "refund", "off"}
    BY <1>9, RenderedDoes, RenderedWrites, FailJobDoes, FailJobWrites DEF AfterTail
  <2>2. Owns(o) /\ ex'[o].pc \notin HasShots
    BY <2>1, WorkersOwn DEF HasShots, Past
  <2>3. UNCHANGED <<accepted, lost>> /\ (o \notin Regens => UNCHANGED scene)
    BY <1>9 DEF Rendered, FailJob
  <2>4. DOMAIN copy'[o] = {}
    BY <1>9, EndForgets, ForgetsDoes
  <2>5. QED
    BY <1>1, <2>1, <2>2, <2>3, <2>4, VersionsStep
<1>10. CASE Interrupt(o)
  <2>1. Others(o) /\ ex'[o].pc = "off" /\ UNCHANGED <<scene, accepted, lost>>
    BY <1>10, InterruptDoes DEF Interrupt
  <2>2. TakesSeen(o) /\ ex'[o].pc \notin HasShots
    BY <2>1 DEF TakesSeen, HasShots, Past
  <2>3. DOMAIN copy'[o] = {}
    BY <1>10, EndForgets, ForgetsDoes
  <2>4. QED
    BY <1>1, <2>1, <2>2, <2>3, VersionsStep
<1>11. CASE StartReassembly(o) \/ Reassemble(o)
  <2>1. UNCHANGED <<scene, copy, accepted, lost>> /\ o \notin Regens /\ Others(o)
    BY <1>11, StartReassemblyDoes, ReassembleDoes DEF StartReassembly, Reassemble
  <2>2. QED
    BY <1>1, <2>1, VersionsStepAlone
<1>12. CASE Told(o) \/ Release(o) \/ Complete(o) \/ RefundFailure(o)
  <2>1. UNCHANGED <<scene, copy, accepted, lost>>
    BY <1>12 DEF Told, Release, Complete, RefundFailure
  <2>2. /\ Others(o) /\ ex'[o].pc \in {"off", "release", "complete"}
        /\ o \in Regens /\ ex'[o].pc = "off" => op'[o].status \in {"completed", "failed"}
    BY <1>12, ToldDoes, ReleaseDoes, CompleteDoes, RefundFailureDoes DEF AfterTail
  <2>3. o \in Regens => ~Owns(o)' /\ ex'[o].pc \notin HasShots
    BY <2>2 DEF Owns, Open, Released, HasShots, Past
  <2>4. QED
    BY <1>1, <2>1, <2>2, <2>3, VersionsStepAlone
<1>13. CASE Raise(o) \/ FailOperation(o) \/ TimerFires(o)
  <2>1. UNCHANGED <<scene, copy, accepted, lost>>
    BY <1>13 DEF Raise, FailOperation, TimerFires
  <2>2. Others(o) /\ ex'[o].pc \in {"failing", "failJob", "start"}
    BY <1>13, RaiseDoes, FailOperationDoes, TimerFiresDoes
  <2>3. Owns(o)
    <3>1. CASE Raise(o) \/ FailOperation(o)
      BY <3>1, RaiseDoes, FailOperationDoes, WorkersOwn DEF AtTakes, Past
    <3>2. CASE TimerFires(o)
      BY <3>2, TimerFiresDoes DEF Owns, Released
    <3>3. QED
      BY <1>13, <3>1, <3>2
  <2>4. QED
    BY <1>1, <2>1, <2>2, <2>3, VersionsStepAlone DEF HasShots, Past
<1>14. QED
  BY <1>2, <1>3, <1>4, <1>5, <1>6, <1>7, <1>8, <1>9, <1>10, <1>11, <1>12, <1>13, WorkCases

\* The other steps: an approval gives up the scenes that it overwrites.
LEMMA ServeVersions ==
  ASSUME Base, Base', Versions, [Next]_vars,
         Serve \/ Host \/ BeginApprove \/ Shutdown \/ UNCHANGED vars
  PROVE  Versions'
<1>1. Calm' => Calm
  BY CalmKept
<1>2. CASE ChargeRefused \/ QueueRegeneration
  <2>1. PICK o \in Regens : o = req.o
    BY <1>2, ChargeRefusedDoes, QueueRegenerationDoes
  <2>2. /\ o \in Ops /\ Others(o) /\ op[o].status = "queued" /\ ex[o].pc = "off"
        /\ ex'[o].pc \in {"off", "start"}
    BY <1>2, <2>1, ChargeRefusedDoes, QueueRegenerationDoes
  <2>3. Owns(o) /\ ex'[o].pc \notin HasShots
    BY <2>2 DEF Owns, Open, Released, HasShots, Past
  <2>4. OtherCopies(o) /\ DOMAIN copy'[o] = {}
    BY <1>2, <2>1, RequestForgets
  <2>5. UNCHANGED <<accepted, lost>> /\ TakesSeen(o)
    BY <1>2, <2>1, QueueRegenerationWrites DEF ChargeRefused, QueueRegeneration, TakesSeen
  <2>6. QED
    BY <1>1, <2>2, <2>3, <2>4, <2>5, VersionsStep
<1>3. CASE LockScene
  <2>1. /\ \A s \in Shots : scene'[s].take = scene[s].take \/ s \in lost'
        /\ lost \subseteq lost' /\ UNCHANGED <<op, ex, copy, accepted>>
    BY <1>3, LockSceneDoes
  <2>2. \A r \in Regens : Owns(r)' <=> Owns(r)
    BY <2>1 DEF Owns
  <2>3. QED
    BY <1>1, <2>1, <2>2 DEF Versions, TakesKept, CopiesKept, ShotsKept
<1>4. CASE \/ ChargeRegeneration \/ ReadScene \/ Host \/ BeginApprove \/ Shutdown \/ UNCHANGED vars
  <2>1. UNCHANGED <<scene, copy, accepted, lost>>
    BY <1>4 DEF ChargeRegeneration, ReadScene, Host, Exit, Boot, BeginApprove, Shutdown, vars
  <2>2. \A r \in Regens : ex'[r].pc = ex[r].pc /\ ex'[r].mem = ex[r].mem /\ op'[r] = op[r]
    <3>1. CASE Shutdown
      BY <3>1, ShutdownDoes DEF Ops
    <3>2. CASE ~Shutdown
      BY <1>4, <3>2 DEF ChargeRegeneration, ReadScene, Host, Exit, Boot, BeginApprove, vars
    <3>3. QED
      BY <3>1, <3>2
  <2>3. \A r \in Regens : Owns(r)' <=> Owns(r)
    BY <2>2 DEF Owns
  <2>4. QED
    BY <1>1, <2>1, <2>2, <2>3 DEF Versions, TakesKept, CopiesKept, ShotsKept
<1>5. QED
  BY <1>2, <1>3, <1>4 DEF Serve

(***************************************************************************)
(* The second layer, and what follows from it.                             *)
(***************************************************************************)
Inv == Base /\ Stops /\ Owners /\ Versions

\* At the beginning no operation owns the production.
LEMMA InitInv == Init => Inv
<1>1. SUFFICES ASSUME Init PROVE Inv
  OBVIOUS
<1>2. \A o \in Ops : ex[o].pc = "off" /\ op[o].status = "none"
  BY <1>1, NoTaskType DEF Init
<1>3. Owners /\ CopiesKept /\ ShotsKept
  BY <1>2 DEF Owners, OneOwner, OwnersClaim, Owns, Open, CopiesKept, ShotsKept, HasShots, Past, Ops
<1>4. Versions
  BY <1>1, <1>3 DEF Init, Versions, TakesKept, Original, NewScene
<1>5. QED
  BY <1>1, <1>3, <1>4, InitBase, InitStops DEF Inv

\* Every step keeps the invariant.
LEMMA NextInv == Inv /\ [Next]_vars => Inv'
<1>1. SUFFICES ASSUME Inv, [Next]_vars PROVE Inv'
  OBVIOUS
<1>2. Base /\ Stops /\ Owners /\ Versions
  BY <1>1 DEF Inv
<1>3. Base'
  BY <1>1, <1>2, NextBase
<1>4. ASSUME NEW o \in Ops,
             Work(o) \/ TakeRejected(o) \/ Raise(o) \/ BeginRegenerate(o) \/ Reassemble(o)
      PROVE  Stops' /\ Owners' /\ Versions'
  BY <1>1, <1>2, <1>3, <1>4, WorkStops, WorkOwners, WorkVersions
<1>5. CASE Serve \/ Host \/ BeginApprove \/ Shutdown \/ UNCHANGED vars
  BY <1>1, <1>2, <1>3, <1>5, ServeStops, ServeOwners, ServeVersions DEF Inv
<1>6. QED
  BY <1>1, <1>3, <1>4, <1>5 DEF Inv, Next

\* An operation that produces owns the production.
LEMMA ProducersOwn ==
  ASSUME Base, NEW o \in Ops, Producing(o)
  PROVE  Owns(o)
<1>1. Fits(o, ex[o], op[o]) /\ ex[o].pc \in PCs
  BY TaskFields
<1>2. QED
  BY <1>1 DEF Producing, Fits, Owns, Open, PCs, Awaits, AtTakes, Past, Released

\* One operation at a time buys takes and renders (regenerate_scene and
\* reassemble_video claim the job; resume_pending schedules what was stopped),
\* where no stop finds an operation that still waits for a publication or for an
\* event after it has made its version.
THEOREM OneOperationHolds == Spec => [](Undisturbed \/ StopsFindNoTail => OneOperation)
<1>1. Inv => (Undisturbed \/ StopsFindNoTail => OneOperation)
  BY ProducersOwn DEF Inv, Owners, OneOwner, Calm, OneOperation
<1>2. QED
  BY <1>1, InitInv, NextInv, PTL DEF Spec

\* A version shows every scene's latest accepted take (SaveCheckpoints rebuilds
\* the shots, _complete_from_render renders them), under the same condition and
\* where no approval has overwritten the take.
THEOREM ShowsAcceptedTakesHolds ==
  ASSUME StopsFindNoTail
  PROVE  Spec => ShowsAcceptedTakes
<1>1. Inv /\ [Next]_vars =>
        [\A o \in Regens : Rendered(o) => \A s \in Shots \ lost : latest'[s] = accepted[s]]_vars
  <2>1. SUFFICES ASSUME Inv, NEW o \in Regens, Rendered(o), NEW s \in Shots \ lost
                 PROVE  latest'[s] = accepted[s]
    OBVIOUS
  <2>2. o \in Ops /\ Base
    BY <2>1 DEF Ops, Inv
  <2>3. ex[o].pc = "render" /\ latest' = ex[o].mem.shots
    BY <2>1, <2>2, RenderedDoes
  <2>4. ex[o].mem.shots[s] = accepted[s]
    BY <2>1, <2>3 DEF Inv, Versions, Calm, ShotsKept, HasShots, Past
  <2>5. QED
    BY <2>3, <2>4
<1>2. QED
  BY <1>1, InitInv, NextInv, PTL DEF Spec, ShowsAcceptedTakes

(***************************************************************************)
(* Takes are reserved and paid for.                                        *)
(***************************************************************************)
\* Regeneration r has paid the price of n takes.
Paid(r, n) == Net(book[r]) = -(n * TakeCents)

\* It has made its version.
Done(r) == ex[r].pc \in Released \/ op[r].status = "completed"

\* What regeneration r has paid, where it is: every take that it has bought and,
\* until they are bought, those of the scenes that it still has to replace.
BookFits(r) ==
  /\ op[r].status = "none" => takes[r] = 0 /\ Paid(r, 0)
  /\ Requested(r) => /\ takes[r] = 0
                     /\ Paid(r, IF req.pc = "charge" THEN 0 ELSE Cardinality(op[r].scenes))
  /\ ex[r].pc = "start" => takes[r] = 0 /\ Paid(r, Cardinality(op[r].scenes))
  /\ ex[r].pc = "veo" => Paid(r, takes[r] + Cardinality(ex[r].todo))
  /\ ex[r].pc \in {"charge", "accept"} => Paid(r, takes[r] + Cardinality(ex[r].todo) - 1)
  /\ ex[r].pc \in Past \/ Done(r) => Paid(r, takes[r])
  /\ op[r].status = "failed" /\ ex[r].pc = "off" => Net(book[r]) >= 0

Books == Undisturbed => \A r \in Regens : BookFits(r)

\* A settlement finds its own charges and those of regenerations that are done.
Refs ==
  Undisturbed => \A o \in Regens : ex[o].pc = "settle" => \A r \in ex[o].refs : r = o \/ Done(r)

Accounts == Books /\ Refs

\* Prices.
LEMMA Prices ==
  ASSUME NEW n \in Int
  PROVE  /\ n * TakeCents \in Int /\ (n + 1) * TakeCents = n * TakeCents + TakeCents
         /\ n \in Nat => n * TakeCents \in Nat
         /\ \A m \in Int : n >= m => n * TakeCents >= m * TakeCents
<1>1. n * TakeCents \in Int /\ (n + 1) * TakeCents = n * TakeCents + TakeCents
  OBVIOUS
<1>2. n \in Nat => n * TakeCents \in Nat
  OBVIOUS
<1>3. ASSUME NEW m \in Int, n >= m PROVE n * TakeCents >= m * TakeCents
  <2>1. n - m \in Nat
    BY <1>3
  <2>2. (n - m) * TakeCents \in Nat
    BY <2>1
  <2>3. (n - m) * TakeCents = n * TakeCents - m * TakeCents
    OBVIOUS
  <2>4. QED
    BY <2>2, <2>3
<1>4. QED
  BY <1>1, <1>2, <1>3

\* A scene less.
LEMMA OneLess ==
  ASSUME NEW S \in SUBSET Shots
  PROVE  /\ IsFiniteSet(S) /\ Cardinality(S) \in Nat
         /\ S = {} => Cardinality(S) = 0
         /\ \A s \in S : Cardinality(S) >= 1 /\ Cardinality(S \ {s}) = Cardinality(S) - 1
<1>1. IsFiniteSet(S)
  <2>1. IsFiniteSet(Shots)
    BY FS_Interval DEF Shots
  <2>2. QED
    BY <2>1, FS_Subset
<1>2. QED
  BY <1>1, FS_CardinalityType, FS_EmptySet, FS_RemoveElement

\* A step of an operation keeps the accounts when its own account fits.
LEMMA AccountsStep ==
  ASSUME Base, Base', Accounts, Undisturbed' => Undisturbed, NEW o \in Ops, Others(o),
         \A r \in Regens : r /= o => /\ takes'[r] = takes[r] /\ book'[r] = book[r]
                                     /\ req' = req \/ (~Requested(r) /\ ~Requested(r)'),
         Undisturbed /\ o \in Regens => BookFits(o)',
         Undisturbed => (Done(o) => Done(o)'),
         Undisturbed /\ o \in Regens /\ ex'[o].pc = "settle" => \A r \in ex'[o].refs : r = o \/ Done(r)
  PROVE  Accounts'
<1>1. ASSUME NEW r \in Regens, Undisturbed PROVE BookFits(r)'
  <2>1. CASE r = o
    BY <1>1, <2>1
  <2>2. CASE r /= o
    <3>1. ex'[r] = ex[r] /\ op'[r] = op[r] /\ takes'[r] = takes[r] /\ book'[r] = book[r]
      BY <2>2 DEF Others, Ops
    <3>2. (Requested(r)' <=> Requested(r)) /\ (Requested(r) => req' = req)
      BY <2>2 DEF Requested
    <3>3. BookFits(r)
      BY <1>1 DEF Accounts, Books
    <3>4. QED
      BY <3>1, <3>2, <3>3 DEF BookFits, Paid, Done
  <2>3. QED
    BY <2>1, <2>2
<1>2. ASSUME NEW p \in Regens, Undisturbed, ex'[p].pc = "settle", NEW r \in ex'[p].refs
      PROVE  r = p \/ Done(r)'
  <2>1. r = p \/ Done(r)
    <3>1. CASE p = o
      BY <1>2, <3>1
    <3>2. CASE p /= o
      BY <1>2, <3>2 DEF Others, Ops, Accounts, Refs
    <3>3. QED
      BY <3>1, <3>2
  <2>2. CASE r = o
    BY <1>2, <2>1, <2>2
  <2>3. CASE r /= o
    <3>1. r \in Ops
      <4>1. ex'[p] \in Task
        BY DEF Base, Core, Life, Ops
      <4>2. QED
        BY <1>2, <4>1 DEF Task, Ops
    <3>2. QED
      BY <2>1, <2>3, <3>1 DEF Others, Done
  <2>4. QED
    BY <2>2, <2>3
<1>3. QED
  BY <1>1, <1>2 DEF Accounts, Books, Refs

\* What the place of a task that is not at its end says of its account.
LEMMA LiveAccount ==
  ASSUME Base, Base', NEW o \in Regens, ex[o].pc /= "off", ex'[o].pc /= "off", UNCHANGED req
  PROVE  ~Requested(o)' /\ op'[o].status /= "none" /\ ~(op'[o].status = "failed" /\ ex'[o].pc = "off")
<1>1. ~Requested(o)
  BY TaskIsLive DEF Requested, Ops
<1>2. Fits(o, ex'[o], op'[o]) /\ ex'[o].pc \in PCs
  BY DEF Base, Core, Life, AllFit, Ops, Task, PCs
<1>3. op'[o].status /= "none"
  BY <1>2 DEF Fits, PCs, Awaits, AtTakes, Past, Open
<1>4. QED
  BY <1>1, <1>3 DEF Requested

\* An operation whose task works has not been done.
LEMMA NotDone ==
  ASSUME Base, NEW o \in Ops, ex[o].pc \notin Released \cup {"off"}
  PROVE  ~Done(o)
<1>1. Fits(o, ex[o], op[o]) /\ ex[o].pc \in PCs
  BY TaskFields
<1>2. QED
  BY <1>1 DEF Fits, PCs, Awaits, AtTakes, Past, Released, Open, Done

\* A task that goes on between the review of takes and the end of its operation:
\* its account needs to fit its new place.
LEMMA GoesOn ==
  ASSUME Base, Base', Accounts, Undisturbed' => Undisturbed, NEW o \in Regens, Others(o), UNCHANGED req,
         ex[o].pc \notin Released \cup {"off"}, ex'[o].pc \notin {"off", "start"},
         \A r \in Regens : r /= o => takes'[r] = takes[r] /\ book'[r] = book[r],
         Undisturbed =>
           /\ ex'[o].pc = "veo" => Paid(o, takes[o] + Cardinality(ex[o].todo))'
           /\ ex'[o].pc \in {"charge", "accept"} => Paid(o, takes[o] + Cardinality(ex[o].todo) - 1)'
           /\ ex'[o].pc \in Past \cup Released => Paid(o, takes[o])'
           /\ ex'[o].pc = "settle" => \A r \in ex'[o].refs : r = o \/ Done(r)
  PROVE  Accounts'
<1>1. o \in Ops /\ ex[o].pc /= "off" /\ ex'[o].pc /= "off"
  BY DEF Ops
<1>2. ~Requested(o)' /\ op'[o].status /= "none" /\ ~(op'[o].status = "failed" /\ ex'[o].pc = "off")
  BY <1>1, LiveAccount
<1>3. op'[o].status = "completed" => ex'[o].pc \in Released
  <2>1. Fits(o, ex'[o], op'[o]) /\ ex'[o].pc \in PCs
    BY <1>1 DEF Base, Core, Life, AllFit, Task, PCs
  <2>2. QED
    BY <1>1, <2>1 DEF Fits, PCs, Awaits, AtTakes, Past, Released, Open
<1>4. Undisturbed => BookFits(o)'
  BY <1>2, <1>3 DEF BookFits, Done
<1>5. ~Done(o)
  BY <1>1, NotDone
<1>6. QED
  BY <1>1, <1>4, <1>5, AccountsStep

\* Buying, reviewing and accepting takes keeps the accounts.
LEMMA TakesAccounts ==
  ASSUME Base, Base', Accounts, Undisturbed' => Undisturbed, NEW o \in Ops,
         \/ StartRegeneration(o) \/ TakePasses(o) \/ TakeRejected(o) \/ ChargeRetake(o)
         \/ AcceptTake(o)
  PROVE  Accounts'
<1>1. UNCHANGED req
  BY DEF StartRegeneration, TakePasses, TakeRejected, ChargeRetake, AcceptTake
<1>2. o \in Regens /\ Others(o)
  BY StartRegenerationDoes, TakePassesDoes, TakeRejectedDoes, ChargeRetakeDoes, AcceptTakeDoes
<1>3. ex[o].pc \in {"start", "veo", "charge", "accept"}
  BY StartRegenerationDoes, TakePassesDoes, TakeRejectedDoes, ChargeRetakeDoes, AcceptTakeDoes
<1>4. ex'[o].pc \in {"failing", "veo", "charge", "accept", "checkpoint"}
  BY StartRegenerationDoes, TakePassesDoes, TakeRejectedDoes, ChargeRetakeDoes, AcceptTakeDoes
<1>5. Undisturbed => BookFits(o)
  BY <1>2 DEF Accounts, Books
<1>6. /\ takes[o] \in Nat /\ book[o] \in Book /\ Net(book[o]) \in Int
      /\ ex[o].todo \in SUBSET Shots /\ Cardinality(ex[o].todo) \in Nat
  BY <1>2, TaskFields, OneLess, BookTypes DEF Base, Core, Money
<1>7. \A r \in Regens : r /= o => takes'[r] = takes[r] /\ book'[r] = book[r]
  BY <1>2
     DEF StartRegeneration, TakePasses, TakeRejected, ChargeRetake, AcceptTake, StoreAttempt, Pay,
              Base, Core, Money
<1>8. ASSUME Undisturbed
      PROVE  /\ ex'[o].pc = "veo" => Paid(o, takes[o] + Cardinality(ex[o].todo))'
             /\ ex'[o].pc \in {"charge", "accept"} => Paid(o, takes[o] + Cardinality(ex[o].todo) - 1)'
             /\ ex'[o].pc = "checkpoint" => Paid(o, takes[o])'
  <2>1. CASE StartRegeneration(o)
    <3>1. UNCHANGED <<takes, book>> /\ ex[o].pc = "start"
      BY <2>1 DEF StartRegeneration
    <3>2. takes[o] = 0 /\ Paid(o, Cardinality(op[o].scenes)) /\ Cardinality(op[o].scenes) \in Nat
      BY <1>2, <1>5, <1>8, <3>1, PriceIsNat DEF BookFits, Ops
    <3>3. QED
      BY <2>1, <3>1, <3>2, StartRegenerationDoes DEF Paid
  <2>2. CASE TakePasses(o) \/ TakeRejected(o)
    <3>1. /\ ex[o].pc = "veo" /\ UNCHANGED book /\ ex'[o].pc \in {"accept", "charge", "failing"}
          /\ ex'[o].todo = ex[o].todo /\ takes'[o] = takes[o] + 1
      BY <1>2, <2>2, TakePassesDoes, TakeRejectedDoes DEF StoreAttempt, Base, Core, Money
    <3>2. Paid(o, takes[o] + Cardinality(ex[o].todo))
      BY <1>5, <1>8, <3>1 DEF BookFits
    <3>3. takes'[o] + Cardinality(ex'[o].todo) - 1 = takes[o] + Cardinality(ex[o].todo)
      BY <1>6, <3>1
    <3>4. QED
      BY <3>1, <3>2, <3>3 DEF Paid
  <2>3. CASE ChargeRetake(o)
    <3>1. /\ ex[o].pc = "charge" /\ UNCHANGED takes /\ ex'[o].todo = ex[o].todo
          /\ \/ ex'[o].pc = "veo" /\ Pay(o, TakeCents)
             \/ ex'[o].pc = "failing"
      BY <2>3, ChargeRetakeDoes
    <3> DEFINE n == takes[o] + Cardinality(ex[o].todo) - 1
    <3>2. Paid(o, n) /\ n \in Int /\ n + 1 = takes[o] + Cardinality(ex[o].todo)
      BY <1>5, <1>6, <1>8, <3>1 DEF BookFits
    <3> HIDE DEF n
    <3>3. ASSUME Pay(o, TakeCents) PROVE Paid(o, takes[o] + Cardinality(ex[o].todo))'
      <4>1. book'[o] = Charged(book[o], TakeCents)
        BY <1>2, <3>3 DEF Pay, Base, Core, Money
      <4>2. Net(book'[o]) = Net(book[o]) - TakeCents
        BY <1>6, <4>1, BookNets
      <4>3. (n + 1) * TakeCents = n * TakeCents + TakeCents /\ n * TakeCents \in Int
        BY <3>2, Prices
      <4>4. Net(book'[o]) = -((n + 1) * TakeCents)
        BY <1>6, <3>2, <4>2, <4>3 DEF Paid
      <4>5. QED
        BY <3>1, <3>2, <4>4 DEF Paid
    <3>4. QED
      BY <3>1, <3>3
  <2>4. CASE AcceptTake(o)
    <3>1. /\ ex[o].pc = "accept" /\ UNCHANGED <<takes, book>> /\ ex[o].at \in ex[o].todo
          /\ ex'[o].todo = ex[o].todo \ {ex[o].at}
          /\ ex'[o].pc = IF ex'[o].todo = {} THEN "checkpoint" ELSE "veo"
      BY <2>4, AcceptTakeDoes
    <3>2. Paid(o, takes[o] + Cardinality(ex[o].todo) - 1)
      BY <1>5, <1>8, <3>1 DEF BookFits
    <3>3. /\ Cardinality(ex'[o].todo) = Cardinality(ex[o].todo) - 1
          /\ ex'[o].todo = {} => Cardinality(ex'[o].todo) = 0
      BY <1>6, <3>1, OneLess
    <3>4. /\ takes[o] + Cardinality(ex[o].todo) - 1 = takes[o] + Cardinality(ex'[o].todo)
          /\ ex'[o].todo = {} => takes[o] + Cardinality(ex[o].todo) - 1 = takes[o]
      BY <1>6, <3>3
    <3>5. QED
      BY <3>1, <3>2, <3>4 DEF Paid
  <2>5. QED
    BY <2>1, <2>2, <2>3, <2>4
<1>9. QED
  BY <1>1, <1>2, <1>3, <1>4, <1>7, <1>8, GoesOn DEF Past, Released

\* The settlement of what has been paid exactly changes no book.
LEMMA SettlesNothing ==
  ASSUME Base, Accounts, Undisturbed, NEW o \in Ops, NEW r \in Regens, Settle(o, r)
  PROVE  book' = book
<1>1. /\ ex[o].pc = "settle" /\ r \in ex[o].refs /\ o \in Regens
      /\ book' = [book EXCEPT ![r] = Settled(@, Outstanding(@), takes[r] * TakeCents)]
  <2>1. o \in Regens
    BY SettleDoes
  <2>2. QED
    BY <2>1 DEF Settle
<1>2. r = o \/ Done(r)
  BY <1>1 DEF Accounts, Refs
<1>3. Paid(r, takes[r])
  BY <1>1, <1>2 DEF Accounts, Books, BookFits, Past
<1>4. book[r] \in Book /\ takes[r] \in Nat /\ takes[r] * TakeCents \in Nat
  BY Prices DEF Base, Core, Money
<1>5. Outstanding(book[r]) = takes[r] * TakeCents
  BY <1>3, <1>4, BookTypes DEF Paid, Outstanding
<1>6. Settled(book[r], Outstanding(book[r]), takes[r] * TakeCents) = book[r]
  BY <1>4, <1>5, SettledExact
<1>7. QED
  BY <1>1, <1>6 DEF Base, Core, Money

\* The takes that a settlement is asked for are its own or of regenerations that
\* are done.
LEMMA AskedIsDone ==
  ASSUME Base, Accounts, Owners, Undisturbed, NEW o \in Regens, ex[o].pc = "fetch",
         NEW r \in SettledReferences
  PROVE  r = o \/ Done(r)
<1>1. r \in Regens /\ takes[r] > 0 /\ op[r].status /= "failed" /\ r \in Ops /\ o \in Ops
  BY DEF SettledReferences, Ops
<1>2. op[r].status /= "none"
  BY <1>1 DEF Accounts, Books, BookFits
<1>3. op[r] \in OpRow
  BY <1>1, TaskFields
<1>4. Owns(o)
  BY <1>1, PastFacts DEF Past, Owns, Open, Released
<1>5. SUFFICES ASSUME ~Done(r) PROVE r = o
  OBVIOUS
<1>6. Owns(r)
  BY <1>1, <1>2, <1>3, <1>5 DEF Owns, Open, Done, OpRow
<1>7. QED
  BY <1>1, <1>4, <1>6 DEF Owners, OneOwner, Calm

\* The version is made: what has been paid stays what it is.
LEMMA VersionAccounts ==
  ASSUME Base, Base', Accounts, Owners, Undisturbed' => Undisturbed, NEW o \in Ops,
         \/ SaveCheckpoints(o) \/ Voiced(o) \/ SaveCosts(o) \/ Fetched(o)
         \/ (\E r \in Regens : Settle(o, r)) \/ Rendered(o)
  PROVE  Accounts'
<1>1. UNCHANGED <<req, takes>>
  BY DEF SaveCheckpoints, Voiced, SaveCosts, Fetched, Settle, Rendered
<1>2. Others(o) /\ ex[o].pc \in Past /\ ex'[o].pc \in Past \cup Released
  <2>1. CASE SaveCheckpoints(o)
    BY <2>1, SaveCheckpointsDoes DEF SavesRunning, Past
  <2>2. CASE Voiced(o) \/ SaveCosts(o)
    BY <2>2, VoicedDoes DEF SavesRunning, Past
  <2>3. CASE Fetched(o) \/ \E r \in Regens : Settle(o, r)
    BY <2>3, SettleDoes DEF Past
  <2>4. CASE Rendered(o)
    BY <2>4, RenderedDoes DEF Past, Released, AfterTail
  <2>5. QED
    BY <2>1, <2>2, <2>3, <2>4
<1>3. Undisturbed => UNCHANGED book
  BY SettlesNothing DEF SaveCheckpoints, Voiced, SaveCosts, Fetched, Rendered
<1>4. CASE o \notin Regens
  <2>1. UNCHANGED book
    BY <1>4, SettleDoes DEF SaveCheckpoints, Voiced, SaveCosts, Fetched, Rendered
  <2>2. ~Done(o)
    BY <1>2, NotDone DEF Past, Released
  <2>3. QED
    BY <1>1, <1>2, <1>4, <2>1, <2>2, AccountsStep
<1>5. CASE o \in Regens /\ Undisturbed
  <2>1. Paid(o, takes[o])'
    BY <1>1, <1>2, <1>3, <1>5 DEF Accounts, Books, BookFits, Paid
  <2>2. ex'[o].pc = "settle" => \A r \in ex'[o].refs : r = o \/ Done(r)
    <3>1. CASE Fetched(o)
      BY <1>5, <3>1, SettleDoes, AskedIsDone
    <3>2. CASE \E r \in Regens : Settle(o, r)
      BY <1>5, <3>2, SettleDoes DEF Accounts, Refs
    <3>3. CASE SaveCheckpoints(o) \/ Voiced(o) \/ SaveCosts(o) \/ Rendered(o)
      <4>1. ex'[o].pc /= "settle"
        BY <3>3, SaveCheckpointsDoes, VoicedDoes, RenderedDoes DEF AfterTail
      <4>2. QED
        BY <4>1
    <3>4. QED
      BY <3>1, <3>2, <3>3
  <2>3. ex'[o].pc \notin {"off", "start", "veo", "charge", "accept"} /\ ex[o].pc \notin Released \cup {"off"}
    BY <1>2 DEF Past, Released
  <2>4. QED
    BY <1>1, <1>2, <1>3, <1>5, <2>1, <2>2, <2>3, GoesOn
<1>6. CASE ~Undisturbed
  BY <1>6 DEF Accounts, Books, Refs
<1>7. QED
  BY <1>4, <1>5, <1>6

\* The end of an operation: what it has paid for its takes stays paid.
LEMMA EndAccounts ==
  ASSUME Base, Base', Accounts, Undisturbed' => Undisturbed, NEW o \in Ops,
         Told(o) \/ Release(o) \/ Complete(o)
  PROVE  Accounts'
<1>1. UNCHANGED <<req, takes, book>>
  BY DEF Told, Release, Complete
<1>2. /\ Others(o) /\ ex[o].pc \in Released /\ ex[o].pc /= "off"
      /\ o \in Regens => ex'[o].pc \in Released \/ (op'[o].status = "completed" /\ ex'[o].pc = "off")
  BY ToldDoes, ReleaseDoes, CompleteDoes DEF Released, AfterTail
<1>3. o \in Regens => Done(o)'
  BY <1>2 DEF Done
<1>4. o \notin Regens => Done(o)'
  <2>1. SUFFICES ASSUME o \notin Regens PROVE Done(o)'
    OBVIOUS
  <2>2. CASE Told(o)
    BY <2>2, ToldDoes DEF Done, Released, AfterTail
  <2>3. CASE Release(o)
    <3>1. op[o].status = "completed" /\ UNCHANGED op
      BY <2>1, <2>3, TaskFields, ReleaseDoes DEF Fits
    <3>2. QED
      BY <3>1 DEF Done
  <2>4. CASE Complete(o)
    BY <2>4, CompleteDoes DEF Done
  <2>5. QED
    BY <2>2, <2>3, <2>4
<1>5. ASSUME Undisturbed, o \in Regens PROVE BookFits(o)'
  <2>1. Paid(o, takes[o])'
    BY <1>1, <1>2, <1>5 DEF Accounts, Books, BookFits, Done, Paid
  <2>2. ~Requested(o)'
    BY <1>1, <1>2, TaskIsLive DEF Requested
  <2>3. op'[o].status \notin {"none", "failed"}
    <3>1. Fits(o, ex'[o], op'[o])
      BY DEF Base, Core, Life, AllFit
    <3>2. QED
      BY <1>2, <1>5, <3>1 DEF Fits, Released
  <2>4. ex'[o].pc \notin {"start", "veo", "charge", "accept"}
    BY <1>2, <1>5 DEF Released
  <2>5. QED
    BY <2>1, <2>2, <2>3, <2>4 DEF BookFits
<1>6. o \in Regens => ex'[o].pc /= "settle"
  BY <1>2 DEF Released
<1>7. QED
  BY <1>1, <1>2, <1>3, <1>4, <1>5, <1>6, AccountsStep

\* Failures: nothing is owed until the refund, which leaves nothing paid.
LEMMA FailureAccounts ==
  ASSUME Base, Base', Accounts, Undisturbed' => Undisturbed, NEW o \in Ops,
         Raise(o) \/ FailOperation(o) \/ FailJob(o) \/ RefundFailure(o)
  PROVE  Accounts'
<1>1. UNCHANGED <<req, takes>> /\ Others(o)
  BY Zenon, RaiseDoes, FailOperationDoes, FailJobDoes, RefundFailureDoes
     DEF Raise, FailOperation, FailJob, RefundFailure
<1>2. ex[o].pc \notin Released \cup {"off"}
  BY RaiseDoes, FailOperationDoes, FailJobDoes, RefundFailureDoes DEF Released
<1>3. ~Done(o)
  BY <1>2, NotDone
<1>4. \A r \in Regens : r /= o => takes'[r] = takes[r] /\ book'[r] = book[r]
  BY <1>1, RaiseDoes, FailOperationDoes, FailJobDoes, RefundFailureDoes DEF Base, Core, Money
<1>5. CASE o \in Assemblies
  <2>1. o \notin Regens
    BY <1>5
  <2>2. QED
    BY <1>1, <1>3, <1>4, <2>1, AccountsStep
<1>6. CASE o \in Regens /\ RefundFailure(o)
  <2>1. /\ ex[o].pc = "refund" /\ op'[o].status = "failed" /\ ex'[o].pc = "off"
        /\ book' = [book EXCEPT ![o] = Refunded(@)]
    BY <1>6, RefundFailureDoes
  <2>2. Net(book'[o]) >= 0
    <3>1. book[o] \in Book /\ book'[o] = Refunded(book[o])
      BY <1>6, <2>1 DEF Base, Core, Money
    <3>2. Net(Refunded(book[o])) \in Nat
      BY <3>1, BookNets
    <3>3. QED
      BY <3>1, <3>2
  <2>3. ~Requested(o)'
    BY <1>1, <1>2, TaskIsLive DEF Requested
  <2>4. BookFits(o)'
    BY <2>1, <2>2, <2>3 DEF BookFits, Done, Past, Released
  <2>5. ex'[o].pc /= "settle"
    BY <2>1
  <2>6. QED
    BY <1>1, <1>3, <1>4, <2>4, <2>5, AccountsStep
<1>7. CASE o \in Regens /\ (Raise(o) \/ FailOperation(o) \/ FailJob(o))
  <2>1. ex'[o].pc \in {"failing", "failJob", "refund"}
    BY <1>7, RaiseDoes, FailOperationDoes, FailJobDoes
  <2>2. QED
    BY <1>1, <1>2, <1>4, <1>7, <2>1, GoesOn DEF Past, Released
<1>8. QED
  BY <1>5, <1>6, <1>7 DEF Ops

\* Requests: a regeneration pays the price of its scenes before it is queued.
LEMMA RequestAccounts ==
  ASSUME Base, Base', Accounts, Undisturbed' => Undisturbed,
         \/ ChargeRegeneration \/ ChargeRefused \/ QueueRegeneration
         \/ \E o \in Ops : BeginRegenerate(o) \/ Reassemble(o)
  PROVE  Accounts'
<1>1. CASE ChargeRegeneration
  <2>1. /\ req.pc = "charge" /\ Pay(req.o, Price(req.o)) /\ req' = [req EXCEPT !.pc = "queue"]
        /\ UNCHANGED <<op, takes, ex>>
    BY <1>1 DEF ChargeRegeneration
  <2>2. PICK o \in Regens : o = req.o
    BY <2>1, RequestFields
  <2>3. o \in Ops /\ req'.o = o /\ req'.pc = "queue" /\ ex[o].pc = "off" /\ op[o].status = "queued"
    BY <2>1, <2>2, RequestFields DEF Request
  <2>4. book'[o] = Charged(book[o], Price(o)) /\ \A r \in Regens : r /= o => book'[r] = book[r]
    BY <2>1, <2>2 DEF Pay, Base, Core, Money
  <2>5. ASSUME Undisturbed PROVE BookFits(o)'
    <3>1. takes[o] = 0 /\ Paid(o, 0)
      BY <2>1, <2>2, <2>5 DEF Accounts, Books, BookFits, Requested
    <3>2. /\ book[o] \in Book /\ Price(o) \in Nat /\ Net(book'[o]) = Net(book[o]) - Price(o)
          /\ Price(o) = Cardinality(op[o].scenes) * TakeCents
      BY <2>3, <2>4, PriceIsNat, BookNets DEF Base, Core, Money, Price
    <3>3. Net(book'[o]) = -(Cardinality(op[o].scenes) * TakeCents)
      BY <3>1, <3>2, BookTypes DEF Paid
    <3>4. Paid(o, Cardinality(op[o].scenes))' /\ takes'[o] = 0
      BY <2>1, <3>1, <3>3 DEF Paid
    <3>5. QED
      BY <2>1, <2>3, <3>4 DEF BookFits, Done, Past, Released
  <2>6. Others(o) /\ (Done(o) => Done(o)') /\ ex'[o].pc /= "settle"
    BY <2>1, <2>3 DEF Others, Done
  <2>7. \A r \in Regens : r /= o => ~Requested(r) /\ ~Requested(r)'
    BY <2>2, <2>3 DEF Requested
  <2>8. QED
    BY <2>1, <2>3, <2>4, <2>5, <2>6, <2>7, AccountsStep
<1>2. CASE ChargeRefused \/ QueueRegeneration
  <2>1. PICK o \in Regens : o = req.o
    BY <1>2, ChargeRefusedDoes, QueueRegenerationDoes
  <2>2. /\ o \in Ops /\ Others(o) /\ req'.pc = "idle" /\ req.pc \in {"charge", "queue"}
        /\ ex[o].pc = "off" /\ op[o].status = "queued" /\ UNCHANGED <<takes, book>>
    BY <1>2, <2>1, ChargeRefusedDoes, QueueRegenerationDoes
  <2>3. ASSUME Undisturbed PROVE BookFits(o)'
    <3>1. takes[o] = 0 /\ Paid(o, IF req.pc = "charge" THEN 0 ELSE Cardinality(op[o].scenes))
      BY <2>1, <2>2, <2>3 DEF Accounts, Books, BookFits, Requested
    <3>2. CASE ChargeRefused
      <4>1. op'[o].status = "none" /\ req.pc = "charge" /\ ex'[o].pc = "off"
        BY <2>1, <3>2, ChargeRefusedDoes
      <4>2. QED
        BY <2>2, <3>1, <4>1 DEF BookFits, Requested, Paid, Done, Past, Released
    <3>3. CASE QueueRegeneration
      <4>1. UNCHANGED op /\ req.pc = "queue" /\ ex'[o].pc = "start"
        BY <2>1, <3>3, QueueRegenerationDoes
      <4>2. QED
        BY <2>2, <3>1, <4>1 DEF BookFits, Requested, Paid, Done, Past, Released
    <3>4. QED
      BY <1>2, <3>2, <3>3
  <2>4. ~Done(o) /\ ex'[o].pc /= "settle"
    BY <1>2, <2>1, <2>2, ChargeRefusedDoes, QueueRegenerationDoes DEF Done, Released
  <2>5. \A r \in Regens : r /= o => ~Requested(r) /\ ~Requested(r)'
    BY <2>1, <2>2 DEF Requested
  <2>6. QED
    BY <2>2, <2>3, <2>4, <2>5, AccountsStep
<1>3. ASSUME NEW o \in Ops, BeginRegenerate(o)
      PROVE  Accounts'
  <2>1. /\ o \in Regens /\ op[o].status = "none" /\ ex[o].pc = "off" /\ UNCHANGED <<ex, takes, book>>
        /\ req.pc = "idle" /\ op'[o].status = "queued" /\ Others(o) /\ req'.pc = "charge" /\ req'.o = o
    BY <1>3, BeginRegenerateDoes
  <2>2. ASSUME Undisturbed PROVE BookFits(o)'
    <3>1. takes[o] = 0 /\ Paid(o, 0)
      BY <2>1, <2>2 DEF Accounts, Books, BookFits
    <3>2. QED
      BY <2>1, <3>1 DEF BookFits, Requested, Paid, Done, Past, Released
  <2>3. ~Done(o) /\ ex'[o].pc /= "settle" /\ \A r \in Regens : r /= o => ~Requested(r) /\ ~Requested(r)'
    BY <2>1 DEF Done, Released, Requested
  <2>4. QED
    BY <2>1, <2>2, <2>3, AccountsStep
<1>4. ASSUME NEW o \in Ops, Reassemble(o)
      PROVE  Accounts'
  <2>1. /\ o \notin Regens /\ op[o].status = "none" /\ ex[o].pc = "off" /\ Others(o)
        /\ UNCHANGED <<req, takes, book>>
    BY <1>4, ReassembleDoes
  <2>2. ~Done(o)
    BY <2>1 DEF Done, Released
  <2>3. QED
    BY <2>1, <2>2, AccountsStep
<1>5. QED
  BY <1>1, <1>2, <1>3, <1>4

\* Reassemblies, stops, restarts and approvals move no money.
LEMMA OtherAccounts ==
  ASSUME Base, Base', Stops, Accounts, Undisturbed' => Undisturbed,
         \/ \E o \in Ops : StartReassembly(o) \/ Interrupt(o) \/ TimerFires(o)
         \/ ReadScene \/ LockScene \/ Host \/ BeginApprove \/ Shutdown \/ UNCHANGED vars
  PROVE  Accounts'
<1>1. ASSUME NEW o \in Ops, StartReassembly(o)
      PROVE  Accounts'
  <2>1. o \notin Regens /\ Others(o) /\ UNCHANGED <<req, takes, book>> /\ ex[o].pc = "start"
    BY <1>1, StartReassemblyDoes DEF StartReassembly
  <2>2. ~Done(o)
    BY <2>1, NotDone DEF Released
  <2>3. QED
    BY <2>1, <2>2, AccountsStep
<1>2. ASSUME NEW o \in Ops, Interrupt(o) \/ TimerFires(o)
      PROVE  Accounts'
  <2>1. ~Undisturbed
    BY <1>2, InterruptDoes, TimerFiresDoes DEF Stops, NoStops
  <2>2. QED
    BY <2>1 DEF Accounts, Books, Refs
<1>3. CASE ReadScene \/ LockScene \/ Host \/ BeginApprove \/ UNCHANGED vars
  <2>1. UNCHANGED <<op, ex, req, takes, book>>
    BY <1>3 DEF ReadScene, LockScene, Host, Exit, Boot, BeginApprove, vars
  <2>2. \A r \in Regens : BookFits(r) => BookFits(r)'
    BY <2>1 DEF BookFits, Requested, Paid, Done
  <2>3. QED
    BY <2>1, <2>2 DEF Accounts, Books, Refs, Done
<1>4. CASE Shutdown
  <2>1. ~Undisturbed'
    BY <1>4, ShutdownDoes DEF Undisturbed, Base, Core, Rest
  <2>2. QED
    BY <2>1 DEF Accounts, Books, Refs
<1>5. QED
  BY <1>1, <1>2, <1>3, <1>4

\* Every step keeps the accounts.
LEMMA NextAccounts ==
  ASSUME Inv, Accounts, [Next]_vars
  PROVE  Accounts'
<1>1. Base /\ Base' /\ Stops /\ Owners
  BY NextBase DEF Inv
<1>2. Undisturbed' => Undisturbed
  BY <1>1, CalmKept
<1>3. ASSUME NEW o \in Ops,
             Work(o) \/ TakeRejected(o) \/ Raise(o) \/ BeginRegenerate(o) \/ Reassemble(o)
      PROVE  Accounts'
  BY <1>1, <1>2, <1>3, WorkCases, TakesAccounts, VersionAccounts, EndAccounts, FailureAccounts,
     RequestAccounts, OtherAccounts
<1>4. CASE Serve \/ Host \/ BeginApprove \/ Shutdown \/ UNCHANGED vars
  BY <1>1, <1>2, <1>4, RequestAccounts, OtherAccounts DEF Serve
<1>5. QED
  BY <1>3, <1>4 DEF Next

\* Nothing is paid before the first request.
LEMMA InitAccounts == Init => Accounts
<1>1. SUFFICES ASSUME Init PROVE Accounts
  OBVIOUS
<1>2. /\ \A o \in Ops : ex[o].pc = "off" /\ op[o].status = "none"
      /\ req.pc = "idle" /\ \A r \in Regens : takes[r] = 0 /\ book[r] = NoCharges
  BY <1>1, NoTaskType DEF Init, NoRequest
<1>3. Net(NoCharges) = 0
  BY DEF Net, NoCharges
<1>4. QED
  BY <1>2, <1>3 DEF Accounts, Books, Refs, BookFits, Paid, Requested, Done, Past, Released, Ops

\* The accounts hold in every state.
LEMMA AccountsHold == Spec => [](Base /\ Accounts)
<1>1. Init => Inv /\ Accounts
  BY InitInv, InitAccounts
<1>2. Inv /\ Accounts /\ [Next]_vars => (Inv /\ Accounts)'
  BY NextInv, NextAccounts
<1>3. Inv /\ Accounts => Base /\ Accounts
  BY DEF Inv
<1>4. QED
  BY <1>1, <1>2, <1>3, PTL DEF Spec

\* Every take is reserved before Veo is called, retakes too, whatever is rejected
\* (_generate_scene_with_qa).
THEOREM TakesAreReservedHolds == Spec => []TakesAreReserved
<1>1. Base /\ Accounts => TakesAreReserved
  <2>1. SUFFICES ASSUME Base, Accounts, Undisturbed, NEW r \in Regens, ex[r].pc = "veo"
                 PROVE  Reserved(r) >= (takes[r] + 1) * TakeCents
    BY DEF TakesAreReserved
  <2> DEFINE n == takes[r] + Cardinality(ex[r].todo)
  <2>2. Paid(r, n)
    BY <2>1 DEF Accounts, Books, BookFits
  <2>3. takes[r] \in Nat /\ Net(book[r]) \in Int
    BY <2>1, BookTypes DEF Base, Core, Money
  <2>4. n \in Nat /\ n >= takes[r] + 1
    <3>1. ex[r].at \in ex[r].todo /\ ex[r].todo \in SUBSET Shots
      BY <2>1, AtTakesFacts DEF AtTakes, Ops
    <3>2. Cardinality(ex[r].todo) \in Nat /\ Cardinality(ex[r].todo) >= 1
      BY <3>1, OneLess
    <3>3. QED
      BY <2>3, <3>2
  <2> HIDE DEF n
  <2>5. n * TakeCents \in Nat /\ n * TakeCents >= (takes[r] + 1) * TakeCents
    BY <2>3, <2>4, Prices
  <2>6. Reserved(r) = n * TakeCents
    BY <2>2, <2>3, <2>5 DEF Paid, Reserved
  <2>7. QED
    BY <2>5, <2>6
<1>2. QED
  BY <1>1, AccountsHold, PTL

\* A finished regeneration has paid for the takes that it bought and a failed one
\* has paid nothing, however often later ones settle it again
\* (_complete_from_render, refund_feature_charges).
THEOREM PaysItsTakesHolds == Spec => []PaysItsTakes
<1>1. Base /\ Accounts => PaysItsTakes
  <2>1. SUFFICES ASSUME Base, Accounts, Undisturbed, NEW r \in Regens
                 PROVE  /\ op[r].status = "completed" => Reserved(r) = takes[r] * TakeCents
                        /\ op[r].status = "failed" /\ ex[r].pc = "off" => Reserved(r) = 0
    BY DEF PaysItsTakes
  <2>2. BookFits(r) /\ Net(book[r]) \in Int /\ takes[r] * TakeCents \in Nat
    BY <2>1, BookTypes, Prices DEF Accounts, Books, Base, Core, Money
  <2>3. QED
    BY <2>2 DEF BookFits, Done, Paid, Reserved
<1>2. QED
  BY <1>1, AccountsHold, PTL
=============================================================================
