---------------------------- MODULE Measurement ----------------------------
(***************************************************************************)
(* What becomes of the metric checkpoints of published YouTube videos      *)
(* (routes.py, collect_metric_checkpoint, collect_due_metric_checkpoints   *)
(* and activate_strategy; metrics.py). A collection asks the provider in a *)
(* thread; its result becomes a snapshot, a review and a proposed strategy *)
(* with the next version number. Everything but the call is one stretch of *)
(* the event loop; activation runs on pool threads, a commit per strategy. *)
(***************************************************************************)
EXTENDS Integers, FiniteSets

CONSTANTS
  Checks,    \* metric_checkpoint rows that have become due
  DueRuns,   \* runs of collect-due: the scheduler's, and its repetition
  Manual,    \* requests that collect one checkpoint
  Editors,   \* requests that activate a strategy
  None,      \* the checkpoint of an idle collection
  MaxFailed, \* bound: failed provider calls of collect-due
  MaxEdits   \* bound: activations

ASSUME MeasurementAssumption ==
  /\ IsFiniteSet(Checks) /\ IsFiniteSet(DueRuns) /\ IsFiniteSet(Manual)
  /\ DueRuns \cap Manual = {}
  /\ None \notin Checks
  /\ MaxFailed \in Nat
  /\ MaxEdits \in Nat

VARIABLES
  check,     \* check[k]: status of the row
  delayed,   \* delayed[k]: "delayed" snapshots that stand for it
  public,    \* checkpoints whose publication is still published
  col,       \* col[c]: a collection; due is what collect-due has read
  strategy,  \* strategy[v]: status of version v, in the order of the numbers
  edit,      \* edit[e]: an activation between its commits
  used       \* failed calls of collect-due and of requests, activations

vars == <<check, delayed, public, col, strategy, edit, used>>

Collectors == DueRuns \cup Manual

\* The cold start's version, one for every collection of a checkpoint that
\* overlaps with others, and again after every failure that reopens it.
Versions == 1..(1 + Cardinality(Checks) * Cardinality(Collectors) + MaxFailed)

Idle == [pc |-> "idle", k |-> None, due |-> {}]

NoEdit == [pc |-> "idle", target |-> 0, rest |-> {}]

\* Version 1 is the cold start's (provision_workspace).
Init ==
  /\ check = [k \in Checks |-> "scheduled"]
  /\ delayed = [k \in Checks |-> 0]
  /\ public = Checks
  /\ col = [c \in Collectors |-> Idle]
  /\ strategy = [v \in Versions |-> IF v = 1 THEN "active" ELSE "none"]
  /\ edit = [e \in Editors |-> NoEdit]
  /\ used = [due |-> 0, manual |-> 0, edits |-> 0]

(***************************************************************************)
(* collect_due_metric_checkpoints and collect_metric_checkpoint            *)
(***************************************************************************)
\* Mistake: a run goes on where the last one has failed.
DueUnfailed == {k \in Checks : check[k] = "scheduled" /\ delayed[k] = 0}

Due == {k \in Checks : check[k] = "scheduled"}

BeginDueRun(c) ==
  /\ c \in DueRuns /\ col[c].pc = "idle"
  /\ Due /= {}
  /\ col' = [col EXCEPT ![c] = [pc |-> "next", k |-> None, due |-> Due]]
  /\ UNCHANGED <<check, delayed, public, strategy, edit, used>>

\* A publication that is being checked or withdrawn is answered 409.
Withdrawn(k) == k \notin public

Asks(c, k) ==
  /\ check' = [check EXCEPT ![k] = "collecting"]
  /\ col' = [col EXCEPT ![c] = [pc |-> "ask", k |-> k, due |-> @.due \ {k}]]
  /\ UNCHANGED <<delayed, public, strategy, edit, used>>

BeginManual(c, k) ==
  /\ c \in Manual /\ col[c].pc = "idle"
  /\ check[k] /= "complete" /\ ~Withdrawn(k)
  /\ Asks(c, k)

\* The list is as old as the run; what is complete is answered from its row.
NextOfRun(c) ==
  /\ col[c].pc = "next"
  /\ \E k \in col[c].due :
       \/ check[k] /= "complete" /\ ~Withdrawn(k) /\ Asks(c, k)
       \/ /\ check[k] = "complete" \/ Withdrawn(k)
          /\ check' = [check EXCEPT ![k] = IF @ = "complete" THEN @ ELSE "scheduled"]
          /\ delayed' = [delayed EXCEPT ![k] = IF check[k] = "complete" THEN @ ELSE 1]
          /\ col' = [col EXCEPT ![c].due = @ \ {k}]
          /\ UNCHANGED <<public, strategy, edit, used>>

EndRun(c) ==
  /\ col[c].pc = "next" /\ col[c].due = {}
  /\ col' = [col EXCEPT ![c] = Idle]
  /\ UNCHANGED <<check, delayed, public, strategy, edit, used>>

\* After a checkpoint a run goes on with its list, a request is over.
Continue(c) == col' = [col EXCEPT ![c] = IF c \in DueRuns THEN [@ EXCEPT !.pc = "next", !.k = None]
                                                          ELSE Idle]

\* The highest version and one more.
NextVersion == 1 + Cardinality({v \in Versions : strategy[v] /= "none"})

\* Snapshot, review, strategy and checkpoint: four commits without an await.
Measured(c) ==
  /\ col[c].pc = "ask"
  /\ NextVersion \in Versions
  /\ strategy' = [strategy EXCEPT ![NextVersion] = "proposed"]
  /\ check' = [check EXCEPT ![col[c].k] = "complete"]
  /\ Continue(c)
  /\ UNCHANGED <<delayed, public, edit, used>>

\* Mistake: every failure writes a delayed snapshot of its own.
RunFailsAnew(c) ==
  /\ c \in DueRuns /\ col[c].pc = "ask"
  /\ used.due < MaxFailed /\ used' = [used EXCEPT !.due = @ + 1]
  /\ check' = [check EXCEPT ![col[c].k] = "scheduled"]
  /\ delayed' = [delayed EXCEPT ![col[c].k] = @ + 1]
  /\ Continue(c)
  /\ UNCHANGED <<public, strategy, edit>>

\* The row is scheduled again, also one that another collection has completed
\* in the meantime; the delayed snapshot is written once.
RunFails(c) ==
  /\ c \in DueRuns /\ col[c].pc = "ask"
  /\ used.due < MaxFailed /\ used' = [used EXCEPT !.due = @ + 1]
  /\ check' = [check EXCEPT ![col[c].k] = "scheduled"]
  /\ delayed' = [delayed EXCEPT ![col[c].k] = 1]
  /\ Continue(c)
  /\ UNCHANGED <<public, strategy, edit>>

\* The row stays in collecting.
RequestFails(c) ==
  /\ c \in Manual /\ col[c].pc = "ask"
  /\ used.manual = 0 /\ used' = [used EXCEPT !.manual = 1]
  /\ Continue(c)
  /\ UNCHANGED <<check, delayed, public, strategy, edit>>

(***************************************************************************)
(* activate_strategy                                                       *)
(***************************************************************************)
BeginActivate(e, v) ==
  /\ edit[e].pc = "idle"
  /\ strategy[v] /= "none"
  /\ edit' = [edit EXCEPT ![e] = [pc |-> "supersede", target |-> v,
                                 rest |-> {u \in Versions : strategy[u] = "active"}]]
  /\ used.edits < MaxEdits /\ used' = [used EXCEPT !.edits = @ + 1]
  /\ UNCHANGED <<check, delayed, public, col, strategy>>

Supersede(e) ==
  /\ edit[e].pc = "supersede"
  /\ \E v \in edit[e].rest :
       /\ strategy' = [strategy EXCEPT ![v] = "superseded"]
       /\ edit' = [edit EXCEPT ![e].rest = @ \ {v}]
  /\ UNCHANGED <<check, delayed, public, col, used>>

\* Mistake: what has been superseded is not activated again.
ActivateProposed(e) ==
  /\ edit[e].pc = "supersede" /\ edit[e].rest = {}
  /\ strategy' = [strategy EXCEPT ![edit[e].target] = IF @ = "proposed" THEN "active" ELSE @]
  /\ edit' = [edit EXCEPT ![e] = NoEdit]
  /\ UNCHANGED <<check, delayed, public, col, used>>

Activate(e) ==
  /\ edit[e].pc = "supersede" /\ edit[e].rest = {}
  /\ strategy' = [strategy EXCEPT ![edit[e].target] = "active"]
  /\ edit' = [edit EXCEPT ![e] = NoEdit]
  /\ UNCHANGED <<check, delayed, public, col, used>>

\* A failed status check takes a publication back to processing (module
\* Publication); the scheduled refresh brings it back.
Unpublish(k) ==
  /\ public' = public \ {k}
  /\ UNCHANGED <<check, delayed, col, strategy, edit, used>>

Republish(k) ==
  /\ k \notin public
  /\ public' = public \cup {k}
  /\ UNCHANGED <<check, delayed, col, strategy, edit, used>>

(***************************************************************************)
(* The system.                                                             *)
(***************************************************************************)
Goes(c) == NextOfRun(c) \/ EndRun(c) \/ Measured(c) \/ RunFails(c) \/ RequestFails(c)

Next ==
  \/ \E c \in Collectors : Goes(c) \/ BeginDueRun(c)
  \/ \E k \in Checks : \/ \E c \in Manual : BeginManual(c, k)
                       \/ Unpublish(k) \/ Republish(k)
  \/ \E e \in Editors : \/ \E v \in Versions : BeginActivate(e, v)
                         \/ Supersede(e) \/ Activate(e)

Spec == Init /\ [][Next]_vars

\* collect-due is run again and again and the provider answers.
Fairness ==
  /\ \A c \in DueRuns : WF_vars(BeginDueRun(c))
  /\ \A c \in Collectors : WF_vars(Goes(c))

FairSpec == Spec /\ Fairness

(***************************************************************************)
(* Properties.                                                             *)
(***************************************************************************)
\* The types of all variables.
TypeOK ==
  /\ check \in [Checks -> {"scheduled", "collecting", "complete"}]
  /\ delayed \in [Checks -> 0..1]
  /\ public \subseteq Checks
  /\ col \in [Collectors -> [pc : {"idle", "next", "ask"}, k : Checks \cup {None}, due : SUBSET Checks]]
  /\ strategy \in [Versions -> {"none", "proposed", "active", "superseded"}]
  /\ edit \in [Editors -> [pc : {"idle", "supersede"}, target : {0} \cup Versions, rest : SUBSET Versions]]
  /\ used \in [due : 0..MaxFailed, manual : 0..1, edits : 0..MaxEdits]

\* A project that had a strategy keeps one: research and generation always find
\* an active version, or an editor is just replacing it.
StrategyIsActive ==
  (\E v \in Versions : strategy[v] = "active") \/ (\E e \in Editors : edit[e].pc = "supersede")

\* A due checkpoint of a video that stays public is measured, through failed
\* calls and overlapping runs; unless a manual request fails (it leaves the
\* row in collecting, where no run of collect-due looks for it).
DueIsMeasured ==
  \A k \in Checks :
    (<>[](k \in public)) => [](check[k] /= "complete" ~> check[k] = "complete" \/ used.manual > 0)
=============================================================================
