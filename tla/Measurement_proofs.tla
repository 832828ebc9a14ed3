-------------------------- MODULE Measurement_proofs --------------------------
(***************************************************************************)
(* A project keeps an active strategy, for any number of checkpoints,      *)
(* collections, activations and failures.                                  *)
(***************************************************************************)
EXTENDS Measurement, FiniteSetTheorems, TLAPS

USE MeasurementAssumption

(***************************************************************************)
(* The invariant.                                                          *)
(***************************************************************************)
\* The versions that exist.
Known == {v \in Versions : strategy[v] /= "none"}

\* Their numbers have no gap: the highest one is as many as there are.
Numbered == \A v \in Known : 1..v \subseteq Known

\* A collection that asks names its checkpoint.
AsksOfChecks == \A c \in Collectors : col[c].pc = "ask" => col[c].k \in Checks

\* What an activation has read are versions that exist.
EditsKnown ==
  \A e \in Editors : edit[e].pc = "supersede" => edit[e].target \in Known /\ edit[e].rest \subseteq Known

Inv == TypeOK /\ AsksOfChecks /\ Numbered /\ EditsKnown /\ StrategyIsActive

(***************************************************************************)
(* Types.                                                                  *)
(***************************************************************************)
Collection == [pc : {"idle", "next", "ask"}, k : Checks \cup {None}, due : SUBSET Checks]

Status == {"none", "proposed", "active", "superseded"}

Activation == [pc : {"idle", "supersede"}, target : {0} \cup Versions, rest : SUBSET Versions]

Used == [due : 0..MaxFailed, manual : 0..1, edits : 0..MaxEdits]

\* The parts of TypeOK: the checkpoints, the collections, the strategies.
CheckTypes ==
  /\ check \in [Checks -> {"scheduled", "collecting", "complete"}]
  /\ delayed \in [Checks -> 0..1]
  /\ public \subseteq Checks
ColTypes == col \in [Collectors -> Collection]
StrategyTypes == strategy \in [Versions -> Status]
EditTypes == edit \in [Editors -> Activation]

Collects == ColTypes /\ AsksOfChecks
Strategies == StrategyTypes /\ EditTypes /\ Numbered /\ EditsKnown /\ StrategyIsActive

\* Inv is those parts, in this state and in the next one.
LEMMA InvGroups ==
  /\ Inv <=> CheckTypes /\ Collects /\ Strategies /\ used \in Used
  /\ Inv' <=> CheckTypes' /\ Collects' /\ Strategies' /\ used' \in Used
BY DEF Inv, TypeOK, CheckTypes, Collects, ColTypes, Strategies, StrategyTypes, EditTypes,
  Collection, Status, Activation, Used

\* What a step leaves alone stays as it is.
LEMMA GroupsKept ==
  ASSUME Inv
  PROVE  /\ UNCHANGED <<check, delayed, public>> => CheckTypes'
         /\ UNCHANGED col => Collects'
         /\ UNCHANGED <<strategy, edit>> => Strategies'
         /\ UNCHANGED used => used' \in Used
<1> USE InvGroups
<1>1. UNCHANGED <<check, delayed, public>> => CheckTypes'
  BY DEF CheckTypes
<1>2. UNCHANGED col => Collects'
  BY DEF Collects, ColTypes, AsksOfChecks
<1>3. UNCHANGED <<strategy, edit>> => Strategies'
  BY DEF Strategies, StrategyTypes, EditTypes, Numbered, Known, EditsKnown, StrategyIsActive
<1>4. QED
  BY <1>1, <1>2, <1>3

(***************************************************************************)
(* The numbers of the versions.                                            *)
(***************************************************************************)
\* The numbers start at 1 and there are finitely many.
LEMMA VersionsType ==
  /\ Versions \subseteq Nat \ {0} /\ 1 \in Versions /\ IsFiniteSet(Versions)
  /\ \A v \in Versions : 1..v \subseteq Versions
<1>1. Cardinality(Checks) \in Nat
  BY FS_CardinalityType
<1>2. Cardinality(Collectors) \in Nat
  BY FS_Union, FS_CardinalityType DEF Collectors
<1>3. Cardinality(Checks) * Cardinality(Collectors) \in Nat
  BY <1>1, <1>2
<1>4. PICK n \in Nat : Versions = 1..(1 + n)
  <2>1. Cardinality(Checks) * Cardinality(Collectors) + MaxFailed \in Nat
    BY <1>3
  <2>2. Versions = 1..(1 + (Cardinality(Checks) * Cardinality(Collectors) + MaxFailed))
    BY <1>3 DEF Versions
  <2>3. QED
    BY <2>1, <2>2
<1>5. IsFiniteSet(Versions)
  BY <1>4, FS_Interval
<1>6. QED
  BY <1>4, <1>5

\* The next version is new, and all versions below it exist.
LEMMA NextVersionIsNew ==
  ASSUME Numbered, NextVersion \in Versions
  PROVE  NextVersion \notin Known /\ \A v \in Versions : v < NextVersion => v \in Known
<1> DEFINE n == Cardinality(Known)
<1>1. IsFiniteSet(Known) /\ n \in Nat /\ NextVersion = 1 + n
  BY VersionsType, FS_Subset, FS_CardinalityType DEF Known, NextVersion
<1>2. NextVersion \notin Known
  <2>1. SUFFICES ASSUME NextVersion \in Known PROVE FALSE
    OBVIOUS
  <2>2. 1..(1 + n) \in SUBSET Known
    BY <1>1, <2>1 DEF Numbered
  <2>3. Cardinality(1..(1 + n)) = 1 + n
    BY <1>1, FS_Interval
  <2>4. Cardinality(1..(1 + n)) <= n
    BY <1>1, <2>2, FS_Subset
  <2>5. QED
    BY <1>1, <2>3, <2>4
<1>3. ASSUME NEW v \in Versions, v < NextVersion PROVE v \in Known
  <2>1. SUFFICES ASSUME v \notin Known PROVE FALSE
    OBVIOUS
  <2>2. v \in Nat \ {0} /\ v - 1 < n
    BY <1>1, <1>3, VersionsType
  <2>3. Known \in SUBSET (1..(v - 1))
    <3>1. SUFFICES ASSUME NEW u \in Known PROVE u \in 1..(v - 1)
      OBVIOUS
    <3>2. u \in Nat \ {0} /\ 1..u \subseteq Known
      BY VersionsType DEF Known, Numbered
    <3>3. QED
      BY <2>1, <2>2, <3>2
  <2>4. IsFiniteSet(1..(v - 1)) /\ Cardinality(1..(v - 1)) = v - 1
    BY <2>2, FS_Interval
  <2>5. n <= v - 1
    BY <2>3, <2>4, FS_Subset
  <2>6. QED
    BY <1>1, <2>2, <2>5
<1>4. QED
  BY <1>2, <1>3

(***************************************************************************)
(* Collections.                                                            *)
(***************************************************************************)
\* A collection that is set to another kind of record keeps the types.
LEMMA CollectStep ==
  ASSUME Collects, NEW c \in Collectors, NEW new \in Collection, col' = [col EXCEPT ![c] = new],
         new.pc = "ask" => new.k \in Checks
  PROVE  Collects'
BY DEF Collects, ColTypes, AsksOfChecks

\* The record of an idle collection.
LEMMA IdleType == Idle \in Collection /\ Idle.pc = "idle"
BY DEF Idle, Collection

\* A collection that is over, or goes on with its list.
LEMMA ContinueStep ==
  ASSUME Collects, NEW c \in Collectors, Continue(c)
  PROVE  Collects'
<1>1. col[c] \in Collection
  BY DEF Collects, ColTypes
<1>2. CASE c \in DueRuns
  <2>1. [col[c] EXCEPT !.pc = "next", !.k = None] \in Collection
    BY <1>1 DEF Collection
  <2>2. [col[c] EXCEPT !.pc = "next", !.k = None].pc = "next"
    BY <1>1 DEF Collection
  <2>3. col' = [col EXCEPT ![c] = [col[c] EXCEPT !.pc = "next", !.k = None]]
    BY <1>2 DEF Continue
  <2>4. QED
    BY <2>1, <2>2, <2>3, CollectStep
<1>3. CASE c \notin DueRuns
  BY <1>3, IdleType, CollectStep DEF Continue
<1>4. QED
  BY <1>2, <1>3

\* A collection asks for a checkpoint.
LEMMA AsksStep ==
  ASSUME CheckTypes, Collects, NEW c \in Collectors, NEW k \in Checks, Asks(c, k)
  PROVE  CheckTypes' /\ Collects'
<1>1. col[c] \in Collection
  BY DEF Collects, ColTypes
<1> DEFINE new == [pc |-> "ask", k |-> k, due |-> col[c].due \ {k}]
<1>2. new \in Collection
  BY <1>1 DEF Collection
<1>3. col' = [col EXCEPT ![c] = new]
  BY DEF Asks
<1>4. Collects'
  <2>1. new.pc = "ask" => new.k \in Checks
    OBVIOUS
  <2> HIDE DEF new
  <2>2. QED
    BY <1>2, <1>3, <2>1, CollectStep
<1>5. CheckTypes'
  BY DEF Asks, CheckTypes
<1>6. QED
  BY <1>4, <1>5

\* The steps of a collection that measure nothing.
LEMMA CollectNext ==
  ASSUME Inv, NEW c \in Collectors,
         BeginDueRun(c) \/ NextOfRun(c) \/ EndRun(c) \/ RunFails(c) \/ RequestFails(c)
           \/ \E k \in Checks : BeginManual(c, k)
  PROVE  Inv'
<1> USE InvGroups, GroupsKept
<1>1. CASE BeginDueRun(c)
  <2>1. [pc |-> "next", k |-> None, due |-> Due] \in Collection
    BY DEF Collection, Due
  <2>2. Collects'
    BY <1>1, <2>1, CollectStep DEF BeginDueRun
  <2>3. QED
    BY <1>1, <2>2 DEF BeginDueRun
<1>2. ASSUME NEW k \in Checks, Asks(c, k) PROVE Inv'
  <2>1. CheckTypes' /\ Collects'
    BY <1>2, AsksStep
  <2>2. QED
    BY <1>2, <2>1 DEF Asks
<1>3. CASE NextOfRun(c)
  <2>1. col[c] \in Collection /\ col[c].pc = "next"
    BY <1>3 DEF NextOfRun, Collects, ColTypes
  <2>2. PICK k \in col[c].due :
          \/ Asks(c, k)
          \/ /\ check' = [check EXCEPT ![k] = IF @ = "complete" THEN @ ELSE "scheduled"]
             /\ delayed' = [delayed EXCEPT ![k] = IF check[k] = "complete" THEN @ ELSE 1]
             /\ col' = [col EXCEPT ![c].due = @ \ {k}]
             /\ UNCHANGED <<public, strategy, edit, used>>
    BY <1>3 DEF NextOfRun
  <2>3. k \in Checks
    BY <2>1 DEF Collection
  <2>4. ASSUME check' = [check EXCEPT ![k] = IF @ = "complete" THEN @ ELSE "scheduled"],
               delayed' = [delayed EXCEPT ![k] = IF check[k] = "complete" THEN @ ELSE 1],
               col' = [col EXCEPT ![c].due = @ \ {k}],
               UNCHANGED <<public, strategy, edit, used>>
        PROVE  Inv'
    <3>1. CheckTypes'
      BY <2>3, <2>4 DEF CheckTypes
    <3>2. [col[c] EXCEPT !.due = @ \ {k}] \in Collection /\ [col[c] EXCEPT !.due = @ \ {k}].pc = "next"
      BY <2>1 DEF Collection
    <3>3. col' = [col EXCEPT ![c] = [col[c] EXCEPT !.due = @ \ {k}]]
      BY <2>4
    <3>4. Collects'
      BY <3>2, <3>3, CollectStep
    <3>5. QED
      BY <2>4, <3>1, <3>4
  <2>5. QED
    BY <1>2, <2>2, <2>3, <2>4
<1>4. CASE EndRun(c)
  <2>1. Collects'
    BY <1>4, IdleType, CollectStep DEF EndRun
  <2>2. QED
    BY <1>4, <2>1 DEF EndRun
<1>5. CASE RunFails(c)
  <2>1. Collects'
    BY <1>5, ContinueStep DEF RunFails
  <2>2. CheckTypes'
    BY <1>5 DEF RunFails, CheckTypes
  <2>3. used' \in Used
    BY <1>5 DEF RunFails, Used
  <2>4. QED
    BY <1>5, <2>1, <2>2, <2>3 DEF RunFails
<1>6. CASE RequestFails(c)
  <2>1. Collects'
    BY <1>6, ContinueStep DEF RequestFails
  <2>2. used' \in Used
    BY <1>6 DEF RequestFails, Used
  <2>3. QED
    BY <1>6, <2>1, <2>2 DEF RequestFails
<1>7. QED
  BY <1>1, <1>2, <1>3, <1>4, <1>5, <1>6 DEF BeginManual

(***************************************************************************)
(* Strategies.                                                             *)
(***************************************************************************)
\* A measured checkpoint's strategy gets a number no version has.
LEMMA MeasuredNext ==
  ASSUME Inv, NEW c \in Collectors, Measured(c)
  PROVE  Inv'
<1> USE InvGroups, GroupsKept
<1>1. /\ NextVersion \in Versions /\ NextVersion \notin Known
      /\ \A v \in Versions : v < NextVersion => v \in Known
  BY NextVersionIsNew DEF Measured, Strategies
<1>2. strategy' = [strategy EXCEPT ![NextVersion] = "proposed"] /\ UNCHANGED edit
  BY DEF Measured
<1>3. Known' = Known \cup {NextVersion}
  BY <1>1, <1>2 DEF Known, Strategies, StrategyTypes
<1>4. Strategies'
  <2>1. StrategyTypes' /\ EditTypes'
    BY <1>1, <1>2 DEF Strategies, StrategyTypes, EditTypes, Status
  <2>2. Numbered'
    <3>1. SUFFICES ASSUME NEW v \in Known' PROVE 1..v \subseteq Known'
      BY DEF Numbered
    <3>2. CASE v \in Known
      BY <1>3, <3>2 DEF Strategies, Numbered
    <3>3. CASE v = NextVersion
      <4>1. \A u \in 1..v : u \in Versions /\ u <= v /\ u \in Nat /\ v \in Nat
        BY <1>1, <3>3, VersionsType
      <4>2. \A u \in 1..v : u = v \/ u < v
        BY <4>1
      <4>3. QED
        BY <1>1, <1>3, <3>3, <4>1, <4>2
    <3>4. QED
      BY <1>3, <3>1, <3>2, <3>3
  <2>3. EditsKnown'
    BY <1>2, <1>3 DEF Strategies, EditsKnown
  <2>4. StrategyIsActive'
    BY <1>1, <1>2 DEF Strategies, StrategyTypes, StrategyIsActive, Known
  <2>5. QED
    BY <2>1, <2>2, <2>3, <2>4 DEF Strategies
<1>5. Collects'
  BY ContinueStep DEF Measured
<1>6. CheckTypes'
  BY DEF Measured, Collects, AsksOfChecks, CheckTypes
<1>7. QED
  BY <1>4, <1>5, <1>6 DEF Measured

\* A version that gets another status is still there.
LEMMA KnownKept ==
  ASSUME StrategyTypes, Numbered, NEW v \in Known, NEW status \in Status \ {"none"},
         strategy' = [strategy EXCEPT ![v] = status]
  PROVE  StrategyTypes' /\ Known' = Known /\ Numbered'
<1>1. StrategyTypes'
  BY DEF StrategyTypes
<1>2. Known' = Known
  BY DEF StrategyTypes, Known, Status
<1>3. QED
  BY <1>1, <1>2 DEF Numbered

\* The activation of a strategy, a commit per version.
LEMMA EditNext ==
  ASSUME Inv, NEW e \in Editors, Supersede(e) \/ Activate(e) \/ \E v \in Versions : BeginActivate(e, v)
  PROVE  Inv'
<1> USE InvGroups, GroupsKept
<1>1. edit[e] \in Activation
  BY DEF Strategies, EditTypes
<1>2. ASSUME NEW v \in Versions, BeginActivate(e, v) PROVE Inv'
  <2> DEFINE new == [pc |-> "supersede", target |-> v, rest |-> {u \in Versions : strategy[u] = "active"}]
  <2>1. new \in Activation /\ new.pc = "supersede" /\ new.target \in Known /\ new.rest \subseteq Known
    BY <1>2 DEF Activation, BeginActivate, Known
  <2>2. edit' = [edit EXCEPT ![e] = new] /\ UNCHANGED strategy
    BY <1>2 DEF BeginActivate
  <2>3. Strategies'
    <3> HIDE DEF new
    <3>1. StrategyTypes' /\ EditTypes' /\ Known' = Known /\ Numbered'
      BY <2>1, <2>2 DEF Strategies, StrategyTypes, EditTypes, Known, Numbered
    <3>2. EditsKnown' /\ StrategyIsActive'
      BY <2>1, <2>2, <3>1 DEF Strategies, EditTypes, EditsKnown, StrategyIsActive
    <3>3. QED
      BY <3>1, <3>2 DEF Strategies
  <2>4. used' \in Used
    BY <1>2 DEF BeginActivate, Used
  <2>5. QED
    BY <1>2, <2>3, <2>4 DEF BeginActivate
<1>3. CASE Supersede(e)
  <2>1. PICK v \in edit[e].rest :
          /\ strategy' = [strategy EXCEPT ![v] = "superseded"]
          /\ edit' = [edit EXCEPT ![e].rest = @ \ {v}]
    BY <1>3 DEF Supersede
  <2>2. edit[e].pc = "supersede" /\ v \in Known
    BY <1>3, <2>1 DEF Supersede, Strategies, EditsKnown
  <2>3. StrategyTypes' /\ Known' = Known /\ Numbered'
    BY <2>1, <2>2, KnownKept DEF Strategies, Status
  <2> DEFINE new == [edit[e] EXCEPT !.rest = @ \ {v}]
  <2>4. new \in Activation /\ new.pc = "supersede" /\ new.target = edit[e].target
        /\ new.rest \subseteq edit[e].rest
    BY <1>1, <2>2 DEF Activation
  <2>5. edit' = [edit EXCEPT ![e] = new]
    BY <2>1
  <2>6. EditTypes' /\ EditsKnown' /\ StrategyIsActive'
    <3> HIDE DEF new
    <3>1. EditTypes'
      BY <2>4, <2>5 DEF Strategies, EditTypes
    <3>2. EditsKnown'
      BY <2>2, <2>3, <2>4, <2>5 DEF Strategies, EditTypes, EditsKnown
    <3>3. StrategyIsActive'
      BY <2>4, <2>5 DEF Strategies, EditTypes, StrategyIsActive
    <3>4. QED
      BY <3>1, <3>2, <3>3
  <2>7. QED
    BY <1>3, <2>3, <2>6 DEF Supersede, Strategies
<1>4. CASE Activate(e)
  <2>1. edit[e].target \in Known /\ edit[e].target \in Versions
    BY <1>4 DEF Activate, Strategies, EditsKnown, Known
  <2>2. strategy' = [strategy EXCEPT ![edit[e].target] = "active"] /\ edit' = [edit EXCEPT ![e] = NoEdit]
    BY <1>4 DEF Activate
  <2>3. StrategyTypes' /\ Known' = Known /\ Numbered'
    BY <2>1, <2>2, KnownKept DEF Strategies, Status
  <2>4. NoEdit \in Activation /\ NoEdit.pc = "idle"
    BY DEF NoEdit, Activation
  <2>5. EditTypes' /\ EditsKnown'
    BY <2>2, <2>3, <2>4 DEF Strategies, EditTypes, EditsKnown
  <2>6. StrategyIsActive'
    BY <2>1, <2>2 DEF Strategies, StrategyTypes, StrategyIsActive
  <2>7. QED
    BY <1>4, <2>3, <2>5, <2>6 DEF Activate, Strategies
<1>5. QED
  BY <1>2, <1>3, <1>4

(***************************************************************************)
(* The theorems.                                                           *)
(***************************************************************************)
\* The first state has the cold start's version alone.
LEMMA InvInit == Init => Inv
<1> SUFFICES ASSUME Init PROVE Inv
  OBVIOUS
<1>1. CheckTypes /\ used \in Used
  BY DEF Init, CheckTypes, Used
<1>2. Collects
  BY IdleType DEF Init, Collects, ColTypes, AsksOfChecks
<1>3. strategy = [v \in Versions |-> IF v = 1 THEN "active" ELSE "none"]
      /\ edit = [e \in Editors |-> NoEdit]
  BY DEF Init
<1>4. Known = {1} /\ StrategyTypes /\ StrategyIsActive
  BY <1>3, VersionsType DEF Known, StrategyTypes, Status, StrategyIsActive
<1>5. Numbered
  BY <1>4 DEF Numbered
<1>6. EditTypes /\ EditsKnown
  BY <1>3 DEF EditTypes, EditsKnown, NoEdit, Activation
<1>7. QED
  BY <1>1, <1>2, <1>4, <1>5, <1>6, InvGroups DEF Strategies

\* Every step keeps the invariant.
LEMMA InvNext == Inv /\ [Next]_vars => Inv'
<1> SUFFICES ASSUME Inv, [Next]_vars PROVE Inv'
  OBVIOUS
<1>1. CASE UNCHANGED vars
  BY <1>1, InvGroups, GroupsKept DEF vars
<1>2. CASE \E c \in Collectors : Goes(c) \/ BeginDueRun(c)
  BY <1>2, CollectNext, MeasuredNext DEF Goes
<1>3. ASSUME NEW k \in Checks, \E c \in Manual : BeginManual(c, k) PROVE Inv'
  BY <1>3, CollectNext DEF Collectors
<1>4. ASSUME NEW k \in Checks, Unpublish(k) \/ Republish(k) PROVE Inv'
  <2>1. CheckTypes'
    BY <1>4, InvGroups DEF Unpublish, Republish, CheckTypes
  <2>2. QED
    BY <1>4, <2>1, InvGroups, GroupsKept DEF Unpublish, Republish
<1>5. CASE \E e \in Editors : Supersede(e) \/ Activate(e) \/ \E v \in Versions : BeginActivate(e, v)
  BY <1>5, EditNext
<1>6. QED
  BY <1>1, <1>2, <1>3, <1>4, <1>5 DEF Next

\* The invariant holds in every reachable state.
LEMMA InvAlways == Spec => []Inv
BY InvInit, InvNext, PTL DEF Spec

\* Every reachable state has its type, for any checkpoints, collections and edits.
THEOREM TypeCorrect == Spec => []TypeOK
<1>1. Inv => TypeOK
  BY DEF Inv
<1>2. QED
  BY <1>1, InvAlways, PTL

\* Activations that overlap with each other and with new proposals leave the
\* project with an active strategy, or are still at it.
THEOREM StrategyIsActiveHolds == Spec => []StrategyIsActive
<1>1. Inv => StrategyIsActive
  BY DEF Inv
<1>2. QED
  BY <1>1, InvAlways, PTL
=============================================================================
