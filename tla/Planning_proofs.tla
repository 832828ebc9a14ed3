--------------------------- MODULE Planning_proofs ---------------------------
(***************************************************************************)
(* One source item per feed entry, one answer per Idempotency-Key and no   *)
(* more automatic productions than the week takes, for any number of       *)
(* polls, requests, research runs, topics, failures and crashes.           *)
(***************************************************************************)
EXTENDS Planning, FiniteSetTheorems, TLAPS

USE PlanningAssumption

(***************************************************************************)
(* The invariant.                                                          *)
(***************************************************************************)
\* A content item under way names its entry.
PostsName == \A p \in Posts : taker[p].pc /= "idle" => taker[p].e \in Entries

\* Clients are told of the job their key's record names, and of none before
\* there is a record.
ToldIsSaved == \A k \in AllKeys : told[k] \subseteq {saved[k]} \ {0}

Inv == TypeOK /\ PostsName /\ ToldIsSaved /\ OneItemPerEntry

(***************************************************************************)
(* Types.                                                                  *)
(***************************************************************************)
Statuses == {"healthy", "degraded", "paused", "deleted"}

Taker == [pc : {"idle", "fetch", "announce", "rest"}, e : Entries \cup {0}, seen : [Entries -> 0..2],
          was : Statuses]

Triggers == {"item", "scheduled", "backlog", "manual", "funding"}

Row == [st : {"queued", "search", "propose", "announce"}, trigger : Triggers,
        want : 1..MaxCandidates, task : BOOLEAN]

Used == [faults : 0..MaxFaults, crashes : 0..MaxCrashes, manual : 0..MaxManual, edits : 0..MaxEdits]

\* The parts of TypeOK, one for each group of variables.
FeedTypes == feed \in [Entries -> 0..2] /\ source \in Statuses /\ due \in BOOLEAN
IntakeTypes ==
  /\ taker \in [Takers -> Taker]
  /\ item \in [Entries -> Nat] /\ record \in [Entries -> 0..2]
KeyedTypes ==
  /\ jobs \in [AllKeys -> 0..MaxJobs] /\ saved \in [AllKeys -> 0..MaxJobs]
  /\ told \in [AllKeys -> SUBSET (1..MaxJobs)]
RunTypes == run \in [Runs -> {NoRun} \cup Row]
TopicTypes ==
  /\ topic \in [Topics -> {"none", "candidate", "selected", "idea_created", "hidden"}]
  /\ muted \subseteq Topics /\ taken \subseteq Topics
  /\ auto \in [Topics -> {"none", "queued", "blocked", "cancelled"}]
UsedType == used \in Used

\* TypeOK is those parts.
LEMMA TypeParts ==
  TypeOK <=> setting \in Settings /\ FeedTypes /\ IntakeTypes /\ KeyedTypes /\ RunTypes /\ TopicTypes /\ UsedType
BY DEF TypeOK, FeedTypes, IntakeTypes, KeyedTypes, RunTypes, TopicTypes, UsedType, Statuses,
   Taker, Triggers, Row, Used

\* So is it in the next state.
LEMMA TypePartsNext ==
  TypeOK' <=> /\ setting' \in Settings /\ FeedTypes' /\ IntakeTypes' /\ KeyedTypes'
              /\ RunTypes' /\ TopicTypes' /\ UsedType'
BY DEF TypeOK, FeedTypes, IntakeTypes, KeyedTypes, RunTypes, TopicTypes, UsedType, Statuses,
   Taker, Triggers, Row, Used

\* A taker's record is that of its kind after any of the changes the actions make.
LEMMA IdleType == Idle \in Taker
BY DEF Idle, Taker, Statuses

\* So is that of a poll that is over.
LEMMA RestType ==
  ASSUME NEW pc \in {"idle", "rest"}
  PROVE  [Idle EXCEPT !.pc = pc] \in Taker
BY IdleType DEF Taker

\* What has been read of the feed.
LEMMA PollType ==
  ASSUME FeedTypes
  PROVE  [pc |-> "fetch", e |-> 0, seen |-> feed, was |-> source] \in Taker
BY DEF FeedTypes, Taker

\* Setting one taker keeps the type of all.
LEMMA TakerType ==
  ASSUME IntakeTypes, NEW p, NEW new \in Taker, taker' = [taker EXCEPT ![p] = new],
         UNCHANGED <<item, record>>
  PROVE  IntakeTypes'
BY DEF IntakeTypes

\* What is asked for or comes of an item is of the right size.
LEMMA WantType == MaxCandidates \in 1..MaxCandidates
OBVIOUS

\* WithRuns gives run rows of the kind that is asked for.
LEMMA WithRunsType ==
  ASSUME RunTypes, NEW n, NEW trigger \in Triggers, NEW want \in 1..MaxCandidates, NEW task \in BOOLEAN,
         run' \in WithRuns(n, trigger, want, task)
  PROVE  RunTypes'
<1> DEFINE new == [st |-> "queued", trigger |-> trigger, want |-> want, task |-> task]
<1>1. new \in Row
  BY DEF Row
<1>2. CASE run' = run
  BY <1>2 DEF RunTypes
<1>3. ASSUME NEW S \in SUBSET FreeRuns, run' = [r \in Runs |-> IF r \in S THEN new ELSE run[r]]
      PROVE  RunTypes'
  BY <1>1, <1>3 DEF RunTypes
<1>4. QED
  BY <1>2, <1>3 DEF WithRuns

\* Candidates are counted.
LEMMA CountType ==
  ASSUME NEW S \in SUBSET Topics
  PROVE  IsFiniteSet(S) /\ Cardinality(S) \in Nat
BY FS_Subset, FS_CardinalityType

\* The number of unresolved candidates is one.
LEMMA UnresolvedType == Unresolved \in Nat
BY CountType DEF Unresolved

\* The backlog is a number.
LEMMA BacklogType ==
  ASSUME setting \in Settings
  PROVE  setting.backlog \in Nat
BY DEF SettingsType

\* Failures are counted.
LEMMA FaultType ==
  ASSUME UsedType, Fault \/ UNCHANGED used
  PROVE  UsedType'
BY DEF UsedType, Used, Fault

\* So are requests and edits.
LEMMA EditsType ==
  ASSUME UsedType, Manual \/ Edits \/ Edit
  PROVE  UsedType'
BY DEF UsedType, Used, Manual, Edits, Edit

\* A key's request keeps the types, and what has been told stays what is saved.
LEMMA GenerateStep ==
  ASSUME KeyedTypes, ToldIsSaved, NEW k \in AllKeys, Generate(k)
  PROVE  KeyedTypes' /\ ToldIsSaved'
<1>1. CASE Cached(k) /\ told' = [told EXCEPT ![k] = @ \cup {saved[k]}] /\ UNCHANGED <<jobs, saved>>
  <2>1. saved[k] \in 1..MaxJobs
    BY <1>1 DEF KeyedTypes, Cached
  <2>2. KeyedTypes'
    BY <1>1, <2>1 DEF KeyedTypes
  <2>3. ToldIsSaved'
    BY <1>1, <2>1 DEF KeyedTypes, ToldIsSaved
  <2>4. QED
    BY <2>2, <2>3
<1>2. CASE /\ ~Cached(k) /\ jobs[k] < MaxJobs
           /\ jobs' = [jobs EXCEPT ![k] = @ + 1]
           /\ SaveRecord(k, jobs'[k])
           /\ told' = [told EXCEPT ![k] = @ \cup {jobs'[k]}]
  <2>1. jobs[k] \in 0..MaxJobs /\ jobs'[k] = jobs[k] + 1
    BY <1>2 DEF KeyedTypes
  <2>2. jobs'[k] \in 1..MaxJobs
    BY <1>2, <2>1
  <2>3. saved' = [saved EXCEPT ![k] = jobs'[k]]
    BY <1>2 DEF SaveRecord
  <2>4. KeyedTypes'
    BY <1>2, <2>2, <2>3 DEF KeyedTypes
  <2>5. told[k] = {}
    BY <1>2 DEF ToldIsSaved, Cached
  <2>6. ToldIsSaved'
    BY <1>2, <2>2, <2>3, <2>5 DEF KeyedTypes, ToldIsSaved
  <2>7. QED
    BY <2>4, <2>6
<1>3. QED
  BY <1>1, <1>2 DEF Generate

\* The automation chooses among the created candidates, productions are paid
\* for or blocked.
LEMMA ProposedStep ==
  ASSUME RunTypes, TopicTypes, UsedType, NEW r \in Runs, Proposed(r)
  PROVE  RunTypes' /\ TopicTypes' /\ UsedType'
<1>1. RunTypes'
  <2>1. run[r] \in Row
    BY DEF RunTypes, Proposed, NoRun
  <2>2. [run[r] EXCEPT !.st = "announce"] \in Row
    BY <2>1 DEF Row
  <2>3. run' = [run EXCEPT ![r] = [run[r] EXCEPT !.st = "announce"]]
    BY DEF Proposed
  <2>4. QED
    BY <2>2, <2>3 DEF RunTypes
<1>2. UsedType'
  BY FaultType DEF Proposed
<1>3. PICK drafts \in SUBSET Proposable : \E chosen \in Selections(drafts \ muted) :
        /\ Produced(chosen)
        /\ topic' = [t \in Topics |-> IF t \in chosen THEN "selected"
                                      ELSE IF t \in drafts \ muted THEN "candidate" ELSE topic[t]]
  BY DEF Proposed
<1>4. PICK chosen \in Selections(drafts \ muted) :
        /\ Produced(chosen)
        /\ topic' = [t \in Topics |-> IF t \in chosen THEN "selected"
                                      ELSE IF t \in drafts \ muted THEN "candidate" ELSE topic[t]]
  BY <1>3
<1>5. chosen \subseteq Topics
  BY <1>4 DEF Selections, Proposable
<1>6. PICK paid \in SUBSET chosen :
        /\ auto' = [t \in Topics |-> IF t \in paid THEN "queued" ELSE IF t \in chosen THEN "blocked" ELSE auto[t]]
        /\ taken' = taken \cup paid
  BY <1>4 DEF Produced
<1>7. UNCHANGED muted
  BY DEF Proposed
<1>8. TopicTypes'
  BY <1>4, <1>5, <1>6, <1>7 DEF TopicTypes
<1>9. QED
  BY <1>1, <1>2, <1>8

(***************************************************************************)
(* The invariant in its groups: what sources and content items keep, what  *)
(* the requests with a key keep, and the types of the rest.                *)
(***************************************************************************)
Intake == IntakeTypes /\ PostsName /\ OneItemPerEntry

Keyed == KeyedTypes /\ ToldIsSaved

\* Inv is those groups, in this state and in the next one.
LEMMA InvGroups ==
  /\ Inv <=> setting \in Settings /\ FeedTypes /\ Intake /\ Keyed /\ RunTypes /\ TopicTypes /\ UsedType
  /\ Inv' <=> /\ setting' \in Settings /\ FeedTypes' /\ Intake' /\ Keyed'
              /\ RunTypes' /\ TopicTypes' /\ UsedType'
BY TypeParts, TypePartsNext DEF Inv, Intake, Keyed

\* What a step leaves alone stays as it is.
LEMMA GroupsKept ==
  ASSUME Inv
  PROVE  /\ UNCHANGED setting => setting' \in Settings
         /\ UNCHANGED <<feed, source, due>> => FeedTypes'
         /\ UNCHANGED <<taker, item, record>> => Intake'
         /\ UNCHANGED keyed => Keyed'
         /\ UNCHANGED run => RunTypes'
         /\ UNCHANGED <<topic, muted, auto, taken>> => TopicTypes'
         /\ UNCHANGED used => UsedType'
<1> USE InvGroups
<1>1. UNCHANGED setting => setting' \in Settings
  OBVIOUS
<1>2. UNCHANGED <<feed, source, due>> => FeedTypes'
  BY DEF FeedTypes
<1>3. UNCHANGED <<taker, item, record>> => Intake'
  BY DEF Intake, IntakeTypes, PostsName, OneItemPerEntry
<1>4. UNCHANGED keyed => Keyed'
  BY DEF Keyed, KeyedTypes, ToldIsSaved, keyed
<1>5. UNCHANGED run => RunTypes'
  BY DEF RunTypes
<1>6. UNCHANGED <<topic, muted, auto, taken>> => TopicTypes'
  BY DEF TopicTypes
<1>7. UNCHANGED used => UsedType'
  BY DEF UsedType
<1>8. QED
  BY <1>1, <1>2, <1>3, <1>4, <1>5, <1>6, <1>7

\* A taker that is idle or a poll keeps the intake as it is.
LEMMA TakerStep ==
  ASSUME Intake, NEW p \in Takers, NEW new \in Taker, taker' = [taker EXCEPT ![p] = new],
         p \in Posts /\ new.pc /= "idle" => new.e \in Entries,
         UNCHANGED <<item, record>>
  PROVE  Intake'
<1>1. IntakeTypes'
  BY TakerType DEF Intake
<1>2. PostsName'
  BY DEF Intake, IntakeTypes, PostsName
<1>3. OneItemPerEntry'
  BY DEF Intake, OneItemPerEntry
<1>4. QED
  BY <1>1, <1>2, <1>3 DEF Intake

\* The end of a poll, caught or not.
LEMMA PollEndsStep ==
  ASSUME NEW p \in Takers, NEW raised, PollEnds(p, raised)
  PROVE  \E new \in Taker : taker' = [taker EXCEPT ![p] = new]
<1> DEFINE pc == IF p = Scheduler /\ ~raised THEN "rest" ELSE "idle"
<1>1. [Idle EXCEPT !.pc = pc] \in Taker
  BY RestType
<1>2. QED
  BY <1>1 DEF PollEnds

\* What a poll has found new had no item.
LEMMA PollAnswersStep ==
  ASSUME FeedTypes, Intake, NEW p \in Takers, PollAnswers(p)
  PROVE  Intake'
<1>1. PICK f \in {taker[p].seen, feed} :
        \E New \in SUBSET {e \in Entries : ~Known(e)}, raised \in BOOLEAN :
           /\ PollEnds(p, raised)
           /\ item' = WithItems(New)
           /\ record' = [e \in Entries |-> IF e \in New THEN f[e] ELSE record[e]]
  <2>1. PICK f \in {taker[p].seen, feed}, refused \in Links :
          LET Stops == {e \in Listed(f) : e \in refused \/ record[e] \notin {0, f[e]}}
              New == {e \in Listed(f) : record[e] = 0 /\ ~Known(e) /\ \A x \in Stops : e < x}
              Raises == \E e \in Stops \cap refused : \A x \in Stops : e <= x
          IN /\ PollEnds(p, Raises)
             /\ item' = WithItems(New)
             /\ record' = [e \in Entries |-> IF e \in New THEN f[e] ELSE record[e]]
    BY DEF PollAnswers
  <2> DEFINE Stops == {e \in Listed(f) : e \in refused \/ record[e] \notin {0, f[e]}}
             New == {e \in Listed(f) : record[e] = 0 /\ ~Known(e) /\ \A x \in Stops : e < x}
  <2>2. New \in SUBSET {e \in Entries : ~Known(e)}
    BY DEF Listed
  <2>3. QED
    BY <2>1, <2>2
<1>2. PICK New \in SUBSET {e \in Entries : ~Known(e)} :
        /\ item' = WithItems(New)
        /\ record' = [e \in Entries |-> IF e \in New THEN f[e] ELSE record[e]]
  BY <1>1
<1>3. f \in [Entries -> 0..2]
  BY DEF Intake, IntakeTypes, FeedTypes, Taker
<1>4. PICK new \in Taker : taker' = [taker EXCEPT ![p] = new]
  BY <1>1, PollEndsStep
<1>5. IntakeTypes'
  <2>1. item' \in [Entries -> Nat]
    BY <1>2 DEF WithItems, Intake, IntakeTypes
  <2>2. record' \in [Entries -> 0..2]
    BY <1>2, <1>3 DEF Intake, IntakeTypes
  <2>3. taker' \in [Takers -> Taker]
    BY <1>4 DEF Intake, IntakeTypes
  <2>4. QED
    BY <2>1, <2>2, <2>3 DEF IntakeTypes
<1>6. PostsName'
  BY <1>4 DEF PollAnswers, Intake, IntakeTypes, PostsName
<1>7. OneItemPerEntry'
  <2>1. \A e \in New : item[e] = 0
    BY <1>2 DEF Intake, IntakeTypes, Known
  <2>2. \A e \in Entries : item'[e] = IF e \in New THEN item[e] + 1 ELSE item[e]
    BY <1>2 DEF WithItems
  <2>3. QED
    BY <2>1, <2>2 DEF Intake, OneItemPerEntry
<1>8. QED
  BY <1>5, <1>6, <1>7 DEF Intake

\* A content item whose article has been fetched is new or known.
LEMMA PostAnswersStep ==
  ASSUME Intake, NEW p \in Takers, PostAnswers(p)
  PROVE  Intake'
<1>1. taker[p].e \in Entries /\ taker[p] \in Taker /\ p \in Posts
  BY DEF PostAnswers, Intake, IntakeTypes, PostsName
<1>2. CASE Known(taker[p].e)
  <2>1. taker' = [taker EXCEPT ![p] = Idle] /\ UNCHANGED <<item, record>>
    BY <1>2 DEF PostAnswers
  <2>2. QED
    BY <2>1, IdleType, TakerStep DEF Idle
<1>3. CASE ~Known(taker[p].e)
  <2>1. taker' = [taker EXCEPT ![p] = [taker[p] EXCEPT !.pc = "announce"]]
    BY <1>3 DEF PostAnswers
  <2>2. [taker[p] EXCEPT !.pc = "announce"] \in Taker
    BY <1>1 DEF Taker
  <2>3. item' = WithItems({taker[p].e}) /\ UNCHANGED record
    BY <1>3 DEF PostAnswers
  <2>4. IntakeTypes'
    BY <2>1, <2>2, <2>3 DEF Intake, IntakeTypes, WithItems
  <2>5. PostsName'
    <3>1. [taker[p] EXCEPT !.pc = "announce"].e = taker[p].e
      BY <1>1 DEF Taker
    <3>2. \A q \in Posts : taker'[q] = IF q = p THEN [taker[p] EXCEPT !.pc = "announce"] ELSE taker[q]
      BY <2>1 DEF Intake, IntakeTypes, Takers
    <3>3. QED
      BY <1>1, <3>1, <3>2 DEF Intake, PostsName
  <2>6. OneItemPerEntry'
    BY <1>3, <2>3 DEF Intake, IntakeTypes, OneItemPerEntry, WithItems, Known
  <2>7. QED
    BY <2>4, <2>5, <2>6 DEF Intake
<1>4. QED
  BY <1>2, <1>3

(***************************************************************************)
(* Every step keeps the invariant.                                         *)
(***************************************************************************)
\* The feed, the status of its source and its next poll.
LEMMA FeedNext ==
  ASSUME Inv, (\E e \in Entries : Publish(e) \/ Revise(e)) \/ ComesDue \/ PatchSource \/ DeleteSource
  PROVE  Inv'
<1> USE InvGroups, GroupsKept
<1>1. ASSUME NEW e \in Entries, Publish(e) \/ Revise(e) PROVE Inv'
  <2>1. FeedTypes'
    BY <1>1 DEF FeedTypes, Publish, Revise
  <2>2. QED
    BY <1>1, <2>1 DEF Publish, Revise, research
<1>2. CASE PatchSource \/ DeleteSource
  <2>1. FeedTypes'
    BY <1>2 DEF FeedTypes, PatchSource, DeleteSource, Statuses
  <2>2. UsedType'
    BY <1>2, EditsType DEF PatchSource, DeleteSource
  <2>3. QED
    BY <1>2, <2>1, <2>2 DEF PatchSource, DeleteSource, research
<1>3. CASE ComesDue
  <2>1. FeedTypes'
    BY <1>3 DEF FeedTypes, ComesDue
  <2>2. QED
    BY <1>3, <2>1 DEF ComesDue, research
<1>4. QED
  BY <1>1, <1>2, <1>3

\* Polls and content items.
LEMMA TakersNext ==
  ASSUME Inv, NEW p \in Takers,
         PollBegins(p) \/ Polling(p) \/ Posting(p) \/ \E e \in Entries : p \in Posts /\ PostBegins(p, e)
  PROVE  Inv'
<1> USE InvGroups, GroupsKept
<1>1. CASE PollBegins(p)
  <2>1. Intake'
    BY <1>1, PollType, TakerStep DEF PollBegins
  <2>2. QED
    BY <1>1, <2>1 DEF PollBegins, research
<1>2. CASE PollFails(p) \/ PostFails(p)
  <2>1. Intake'
    <3>1. CASE PollFails(p)
      <4>1. PICK new \in Taker : taker' = [taker EXCEPT ![p] = new]
        BY <3>1, PollEndsStep DEF PollFails
      <4>2. QED
        BY <3>1, <4>1, TakerStep DEF PollFails
    <3>2. CASE PostFails(p)
      BY <3>2, IdleType, TakerStep DEF PostFails, Idle
    <3>3. QED
      BY <1>2, <3>1, <3>2
  <2>2. FeedTypes'
    BY <1>2 DEF FeedTypes, PollFails, PostFails, Marked, Statuses
  <2>3. UsedType'
    BY <1>2, FaultType DEF PollFails, PostFails
  <2>4. QED
    BY <1>2, <2>1, <2>2, <2>3 DEF PollFails, PostFails, research
<1>3. CASE PollAnswers(p)
  <2>1. Intake'
    BY <1>3, PollAnswersStep
  <2>2. FeedTypes' /\ UsedType'
    <3>1. UNCHANGED <<source, due>> \/ (Marked(p, "healthy") /\ due' = FALSE)
      BY <1>3 DEF PollAnswers
    <3>2. UNCHANGED used \/ Fault
      BY <1>3 DEF PollAnswers
    <3>3. QED
      BY <1>3, <3>1, <3>2, FaultType DEF FeedTypes, UsedType, PollAnswers, Marked, Statuses
  <2>3. \E n : \E task \in BOOLEAN : run' \in WithRuns(n, "item", MaxCandidates, task)
    <3>1. PICK f \in {taker[p].seen, feed}, refused \in Links :
            LET Stops == {e \in Listed(f) : e \in refused \/ record[e] \notin {0, f[e]}}
                New == {e \in Listed(f) : record[e] = 0 /\ ~Known(e) /\ \A x \in Stops : e < x}
                Raises == \E e \in Stops \cap refused : \A x \in Stops : e <= x
            IN run' \in WithRuns(IF setting.researches THEN Cardinality(New) ELSE 0, "item", MaxCandidates,
                                 Stops = {} \/ (p = Scheduler /\ ~Raises))
      BY <1>3 DEF PollAnswers
    <3> DEFINE Stops == {e \in Listed(f) : e \in refused \/ record[e] \notin {0, f[e]}}
               New == {e \in Listed(f) : record[e] = 0 /\ ~Known(e) /\ \A x \in Stops : e < x}
               Raises == \E e \in Stops \cap refused : \A x \in Stops : e <= x
               n == IF setting.researches THEN Cardinality(New) ELSE 0
               task == Stops = {} \/ (p = Scheduler /\ ~Raises)
    <3>2. run' \in WithRuns(n, "item", MaxCandidates, task)
      BY <3>1
    <3>3. task \in BOOLEAN
      OBVIOUS
    <3> HIDE DEF n, task
    <3>4. QED
      BY <3>2, <3>3
  <2>4. RunTypes'
    BY <2>3, WantType, WithRunsType DEF Triggers
  <2>5. QED
    BY <1>3, <2>1, <2>2, <2>4 DEF PollAnswers
<1>4. ASSUME NEW e \in Entries, PostBegins(p, e) PROVE Inv'
  <2>1. [Idle EXCEPT !.pc = "fetch", !.e = e] \in Taker
    BY IdleType DEF Taker
  <2>2. taker' = [taker EXCEPT ![p] = [Idle EXCEPT !.pc = "fetch", !.e = e]]
    BY <1>4 DEF PostBegins
  <2>3. [Idle EXCEPT !.pc = "fetch", !.e = e].e = e
    BY DEF Idle
  <2>4. Intake'
    BY ZenonT(30), <1>4, <2>1, <2>2, <2>3, TakerStep DEF PostBegins
  <2>5. QED
    BY <1>4, <2>4 DEF PostBegins, research
<1>5. CASE PostAnswers(p)
  <2>1. Intake'
    BY <1>5, PostAnswersStep
  <2>2. QED
    BY <1>5, <2>1 DEF PostAnswers, research
<1>6. CASE ItemEnds(p)
  <2>1. Intake'
    BY <1>6, IdleType, TakerStep DEF ItemEnds, Idle
  <2>2. RunTypes'
    BY <1>6, WantType, WithRunsType DEF ItemEnds, Triggers
  <2>3. QED
    BY <1>6, <2>1, <2>2 DEF ItemEnds
<1>7. CASE PostEnds(p)
  <2>1. Intake'
    BY <1>7, IdleType, TakerStep DEF PostEnds, Idle
  <2>2. taker[p].e \in AllKeys
    BY <1>7 DEF PostEnds, Intake, PostsName, AllKeys
  <2>3. PICK paid \in BOOLEAN :
          /\ IF paid THEN Generate(taker[p].e) ELSE UNCHANGED keyed
          /\ run' \in WithRuns(IF setting.researches THEN 1 ELSE 0, "item", MaxCandidates, paid)
    BY <1>7 DEF PostEnds
  <2>4. Keyed'
    BY <2>2, <2>3, GenerateStep DEF Keyed
  <2>5. RunTypes'
    BY <2>3, WantType, WithRunsType DEF Triggers
  <2>6. QED
    BY <1>7, <2>1, <2>4, <2>5 DEF PostEnds
<1>8. QED
  BY <1>1, <1>2, <1>3, <1>4, <1>5, <1>6, <1>7 DEF Polling, Posting

\* Requests with a key, and who starts research.
LEMMA RequestsNext ==
  ASSUME Inv, (\E k \in Keys : GenerationRequest(k)) \/ Enqueue \/ RunDueResearch \/ ManualRun
  PROVE  Inv'
<1> USE InvGroups, GroupsKept
<1>1. ASSUME NEW k \in Keys, GenerationRequest(k) PROVE Inv'
  <2>1. Keyed'
    BY <1>1, GenerateStep DEF GenerationRequest, Keyed, AllKeys
  <2>2. QED
    BY <1>1, <2>1 DEF GenerationRequest, intake, research
<1>2. ASSUME ProfileRun PROVE RunTypes'
  <2>1. ProfileWant \in 1..MaxCandidates
    BY <1>2, UnresolvedType, BacklogType DEF ProfileRun, ProfileWant, Least
  <2>2. QED
    BY <1>2, <2>1, WithRunsType DEF ProfileRun, Triggers
<1>3. ASSUME BacklogRun PROVE RunTypes'
  <2>1. Least(MaxCandidates, setting.backlog - Unresolved) \in 1..MaxCandidates
    BY <1>3, UnresolvedType, BacklogType DEF BacklogRun, BacklogDue, BacklogShort, Least
  <2>2. QED
    BY <1>3, <2>1, WithRunsType DEF BacklogRun, Triggers
<1>4. CASE ManualRun
  <2>1. RunTypes'
    BY <1>4, WantType, WithRunsType DEF ManualRun, Triggers
  <2>2. UsedType'
    BY <1>4, EditsType DEF ManualRun
  <2>3. QED
    BY <1>4, <2>1, <2>2 DEF ManualRun, intake
<1>5. CASE RunDueResearch
  BY <1>2, <1>5 DEF RunDueResearch, intake
<1>6. CASE Enqueue
  <2>1. RunTypes'
    BY <1>2, <1>3, <1>6 DEF Enqueue
  <2>2. Intake'
    BY <1>6, IdleType, TakerStep DEF Enqueue, Takers, Idle
  <2>3. QED
    BY <1>6, <2>1, <2>2 DEF Enqueue
<1>7. QED
  BY <1>1, <1>4, <1>5, <1>6

\* Research runs.
LEMMA RunningNext ==
  ASSUME Inv, NEW r \in Runs, Running(r)
  PROVE  Inv'
<1> USE InvGroups, GroupsKept
<1>1. ASSUME NEW st \in {"search", "propose"}, run[r] /= NoRun, run' = [run EXCEPT ![r].st = st]
      PROVE  RunTypes'
  <2>1. run[r] \in Row
    BY <1>1 DEF RunTypes
  <2>2. [run[r] EXCEPT !.st = st] \in Row
    BY <2>1 DEF Row
  <2>3. QED
    BY <1>1, <2>2 DEF RunTypes
<1>2. ASSUME run' = [run EXCEPT ![r] = NoRun]
      PROVE  RunTypes'
  BY <1>2 DEF RunTypes
<1>3. CASE RunBegins(r)
  <2>1. RunTypes'
    BY <1>1, <1>3 DEF RunBegins, NoRun
  <2>2. QED
    BY <1>3, <2>1 DEF RunBegins, intake
<1>4. CASE SearchAnswers(r)
  <2>1. RunTypes'
    BY <1>1, <1>4 DEF SearchAnswers, NoRun
  <2>2. QED
    BY <1>4, <2>1 DEF SearchAnswers, intake
<1>5. CASE RunFails(r)
  <2>1. RunTypes' /\ UsedType'
    BY <1>2, <1>5, FaultType DEF RunFails
  <2>2. QED
    BY <1>5, <2>1 DEF RunFails, intake
<1>6. CASE Proposed(r)
  <2>1. RunTypes' /\ TopicTypes' /\ UsedType'
    BY <1>6, ProposedStep
  <2>2. QED
    BY <1>6, <2>1 DEF Proposed, intake
<1>7. CASE RunEnds(r)
  <2>1. RunTypes'
    BY <1>2, <1>7 DEF RunEnds
  <2>2. QED
    BY <1>7, <2>1 DEF RunEnds, intake
<1>8. QED
  BY <1>3, <1>4, <1>5, <1>6, <1>7 DEF Running

\* Editors and the customer's requests for single candidates.
LEMMA TopicsNext ==
  ASSUME Inv, NEW t \in Topics, Select(t) \/ Reject(t) \/ Mute(t) \/ CancelJob(t) \/ RetryJob(t)
  PROVE  Inv'
<1> USE InvGroups, GroupsKept
<1>1. CASE Select(t) \/ Reject(t)
  <2>1. TopicTypes'
    BY <1>1 DEF Select, Reject, TopicTypes
  <2>2. UsedType'
    BY <1>1, EditsType DEF Select, Reject
  <2>3. QED
    BY <1>1, <2>1, <2>2 DEF Select, Reject, intake
<1>2. CASE Mute(t)
  <2>1. TopicTypes'
    BY <1>2 DEF Mute, TopicTypes
  <2>2. UsedType'
    BY <1>2, EditsType DEF Mute
  <2>3. QED
    BY <1>2, <2>1, <2>2 DEF Mute, intake
<1>3. CASE CancelJob(t)
  <2>1. TopicTypes'
    BY <1>3 DEF CancelJob, TopicTypes
  <2>2. UsedType'
    BY <1>3, EditsType DEF CancelJob
  <2>3. QED
    BY <1>3, <2>1, <2>2 DEF CancelJob, intake
<1>4. CASE RetryJob(t)
  <2>1. TopicTypes'
    BY <1>4 DEF RetryJob, TopicTypes
  <2>2. QED
    BY <1>4, <2>1 DEF RetryJob, intake
<1>5. QED
  BY <1>1, <1>2, <1>3, <1>4

\* The activation of the automation.
LEMMA ActivateNext ==
  ASSUME Inv, ActivateAutomation
  PROVE  Inv'
<1> USE InvGroups, GroupsKept
<1>1. ASSUME NEW paid \in SUBSET Blocked, auto' = [t \in Topics |-> IF t \in paid THEN "queued" ELSE auto[t]],
             UNCHANGED <<setting, intake, keyed, run, topic, muted, taken, used>>
      PROVE  Inv'
  <2>1. TopicTypes'
    BY <1>1 DEF TopicTypes
  <2>2. QED
    BY <1>1, <2>1 DEF intake
<1>2. ASSUME Manual, run' \in WithRuns(1, "funding", MaxCandidates, TRUE),
             UNCHANGED <<setting, intake, keyed, topic, muted, auto, taken>>
      PROVE  Inv'
  <2>1. RunTypes'
    BY <1>2, WantType, WithRunsType DEF Triggers
  <2>2. UsedType'
    BY <1>2, EditsType
  <2>3. QED
    BY <1>2, <2>1, <2>2 DEF intake
<1>3. QED
  BY <1>1, <1>2 DEF ActivateAutomation

\* A crash: the record of a request that was being served is not written.
LEMMA CrashNext ==
  ASSUME Inv, Crash
  PROVE  Inv'
<1> USE InvGroups, GroupsKept
<1>1. Intake'
  <2>1. taker' = [p \in Takers |-> Idle] /\ UNCHANGED <<item, record>>
    BY DEF Crash
  <2>2. IntakeTypes'
    BY <2>1, IdleType DEF Intake, IntakeTypes
  <2>3. PostsName'
    BY <2>1 DEF PostsName, Takers, Idle
  <2>4. OneItemPerEntry'
    BY <2>1 DEF Intake, OneItemPerEntry
  <2>5. QED
    BY <2>2, <2>3, <2>4 DEF Intake
<1>2. Keyed'
  <2>1. jobs' \in [AllKeys -> 0..MaxJobs]
    <3>1. CASE UNCHANGED jobs
      BY <3>1 DEF Keyed, KeyedTypes
    <3>2. ASSUME NEW k \in Keys, jobs[k] < MaxJobs, jobs' = [jobs EXCEPT ![k] = @ + 1]
          PROVE  jobs' \in [AllKeys -> 0..MaxJobs]
      BY <3>2 DEF Keyed, KeyedTypes, AllKeys
    <3>3. QED
      BY <3>1, <3>2 DEF Crash
  <2>2. UNCHANGED <<saved, told>>
    BY DEF Crash
  <2>3. QED
    BY <2>1, <2>2 DEF Keyed, KeyedTypes, ToldIsSaved
<1>3. RunTypes'
  <2>1. \A r \in Runs : run[r] = NoRun \/ run[r] \in Row
    BY DEF RunTypes
  <2>2. [NoRun EXCEPT !.task = FALSE] = NoRun
    <3>1. NoRun.task = FALSE /\ NoRun = [i \in DOMAIN NoRun |-> NoRun[i]]
      BY DEF NoRun
    <3>2. QED
      BY <3>1
  <2>3. \A row \in Row : [row EXCEPT !.task = FALSE] \in Row
    BY DEF Row
  <2>4. run' = [r \in Runs |-> IF run[r].st = "announce" THEN NoRun ELSE [run[r] EXCEPT !.task = FALSE]]
    BY DEF Crash
  <2>5. \A r \in Runs : run'[r] \in {NoRun} \cup Row
    BY <2>1, <2>2, <2>3, <2>4
  <2>6. QED
    BY <2>4, <2>5 DEF RunTypes
<1>4. TopicTypes'
  BY DEF Crash, TopicTypes
<1>5. UsedType'
  BY DEF Crash, UsedType, Used
<1>6. QED
  BY <1>1, <1>2, <1>3, <1>4, <1>5 DEF Crash

\* The first state has neither items nor jobs.
LEMMA InvInit == Init => Inv
<1> SUFFICES ASSUME Init PROVE Inv
  OBVIOUS
<1>1. setting \in Settings /\ FeedTypes /\ RunTypes /\ TopicTypes
  BY DEF Init, FeedTypes, RunTypes, TopicTypes, Statuses
<1>2. Intake
  <2>1. IntakeTypes
    BY IdleType DEF Init, IntakeTypes
  <2>2. PostsName
    BY DEF Init, PostsName, Takers, Idle
  <2>3. OneItemPerEntry
    BY DEF Init, OneItemPerEntry
  <2>4. QED
    BY <2>1, <2>2, <2>3 DEF Intake
<1>3. Keyed
  BY DEF Init, Keyed, KeyedTypes, ToldIsSaved
<1>4. UsedType
  BY DEF Init, UsedType, Used
<1>5. QED
  BY <1>1, <1>2, <1>3, <1>4, InvGroups

\* Every step keeps the invariant.
LEMMA InvNext == Inv /\ [Next]_vars => Inv'
<1> SUFFICES ASSUME Inv, [Next]_vars PROVE Inv'
  OBVIOUS
<1>1. CASE UNCHANGED vars
  BY <1>1, GroupsKept, InvGroups DEF vars, intake, research
<1>2. Scheduler \in Takers /\ Posts \subseteq Takers /\ Polls \subseteq Takers
  BY DEF Takers
<1>3. ASSUME NEW e \in Entries, Publish(e) \/ Revise(e) \/ \E p \in Posts : PostBegins(p, e)
      PROVE  Inv'
  BY <1>2, <1>3, FeedNext, TakersNext
<1>4. CASE \E p \in Polls : PollBegins(p) \/ Polling(p)
  BY <1>2, <1>4, TakersNext
<1>5. CASE ComesDue \/ PatchSource \/ DeleteSource
  BY <1>5, FeedNext
<1>6. CASE \E p \in Posts : Posting(p)
  BY <1>2, <1>6, TakersNext
<1>7. CASE RunDue
  BY <1>2, <1>7, TakersNext, RequestsNext DEF RunDue
<1>8. CASE (\E k \in Keys : GenerationRequest(k)) \/ RunDueResearch \/ ManualRun
  BY <1>8, RequestsNext
<1>9. CASE \E r \in Runs : Running(r)
  BY <1>9, RunningNext
<1>10. CASE \E t \in Topics : Select(t) \/ Reject(t) \/ Mute(t) \/ CancelJob(t) \/ RetryJob(t)
  BY <1>10, TopicsNext
<1>11. CASE ActivateAutomation \/ Crash
  BY <1>11, ActivateNext, CrashNext
<1>12. QED
  BY <1>1, <1>3, <1>4, <1>5, <1>6, <1>7, <1>8, <1>9, <1>10, <1>11 DEF Next

\* The invariant holds in every reachable state.
LEMMA InvAlways == Spec => []Inv
BY InvInit, InvNext, PTL DEF Spec

\* Every reachable state has its type, whatever polls, content items, requests,
\* research runs, editors and crashes came before.
THEOREM TypeCorrect == Spec => []TypeOK
<1>1. Inv => TypeOK
  BY DEF Inv
<1>2. QED
  BY <1>1, InvAlways, PTL

\* Polls and content items that fetch side by side make one item of an entry.
THEOREM OneItemPerEntryHolds == Spec => []OneItemPerEntry
<1>1. Inv => OneItemPerEntry
  BY DEF Inv
<1>2. QED
  BY <1>1, InvAlways, PTL

\* Repetitions of a request with its key are told of one job.
THEOREM AnsweredOnceHolds == Spec => []AnsweredOnce
<1>1. ASSUME Inv PROVE AnsweredOnce
  <2>1. SUFFICES ASSUME NEW k \in AllKeys PROVE Cardinality(told[k]) <= 1
    BY DEF AnsweredOnce
  <2>2. told[k] \in SUBSET {saved[k]}
    BY <1>1 DEF Inv, ToldIsSaved
  <2>3. IsFiniteSet({saved[k]}) /\ Cardinality({saved[k]}) = 1
    BY FS_Singleton
  <2>4. QED
    BY <2>2, <2>3, FS_Subset
<1>2. QED
  BY <1>1, InvAlways, PTL

(***************************************************************************)
(* The automation and the week.                                            *)
(***************************************************************************)
\* The automatic jobs that count for the week.
Counted(a) == {t \in Topics : a[t] \in {"queued", "blocked"}}

\* What a run's share leaves of the week.
LEMMA ShareBound ==
  ASSUME NEW created \in Nat
  PROVE  Share(created) \in Nat /\ (Share(created) > 0 => Recent(auto) + Share(created) <= WeeklyTarget)
<1>1. Recent(auto) \in Nat
  BY CountType DEF Recent
<1>2. created \div 3 \in Nat
  OBVIOUS
<1>3. QED
  BY <1>1, <1>2 DEF Share, Least

\* As many are chosen as the share allows.
LEMMA SelectionsBound ==
  ASSUME NEW created \in SUBSET Topics, NEW chosen \in Selections(created)
  PROVE  chosen \subseteq created /\ (chosen /= {} => Recent(auto) + Cardinality(chosen) <= WeeklyTarget)
<1> DEFINE pool == created \ setting.unserved
           share == Share(Cardinality(created))
<1>1. CASE chosen = {}
  BY <1>1
<1>2. CASE chosen \in SUBSET pool /\ Cardinality(chosen) = Least(share, Cardinality(pool)) /\ chosen /= {}
  <2>1. Cardinality(created) \in Nat /\ Cardinality(pool) \in Nat /\ IsFiniteSet(chosen)
        /\ Cardinality(chosen) \in Nat /\ Recent(auto) \in Nat
    BY <1>2, CountType DEF Recent
  <2>2. share \in Nat /\ (share > 0 => Recent(auto) + share <= WeeklyTarget)
    BY <2>1, ShareBound
  <2>3. Cardinality(chosen) <= share
    BY <1>2, <2>1, <2>2 DEF Least
  <2>4. Cardinality(chosen) /= 0
    BY <1>2, <2>1, FS_EmptySet
  <2>5. Recent(auto) + Cardinality(chosen) <= WeeklyTarget
    <3> HIDE DEF share
    <3>1. QED
      BY <2>1, <2>2, <2>3, <2>4
  <2>6. QED
    BY <1>2, <2>5
<1>3. QED
  BY <1>1, <1>2 DEF Selections

\* New jobs are counted on top of the old ones.
LEMMA ProducedCount ==
  ASSUME NEW chosen \in SUBSET Topics, Produced(chosen)
  PROVE  Recent(auto') <= Recent(auto) + Cardinality(chosen)
<1>1. PICK paid \in SUBSET chosen :
        auto' = [t \in Topics |-> IF t \in paid THEN "queued" ELSE IF t \in chosen THEN "blocked" ELSE auto[t]]
  BY DEF Produced
<1>2. Counted(auto') = Counted(auto) \cup chosen
  BY <1>1 DEF Counted
<1>3. IsFiniteSet(Counted(auto)) /\ IsFiniteSet(chosen)
  BY CountType DEF Counted
<1>4. Cardinality(Counted(auto) \cup chosen)
        = Cardinality(Counted(auto)) + Cardinality(chosen) - Cardinality(Counted(auto) \cap chosen)
  BY <1>3, FS_Union
<1>5. /\ Cardinality(Counted(auto)) \in Nat /\ Cardinality(chosen) \in Nat
      /\ Cardinality(Counted(auto) \cap chosen) \in Nat
  BY CountType DEF Counted
<1>6. Recent(auto') = Cardinality(Counted(auto')) /\ Recent(auto) = Cardinality(Counted(auto))
  BY DEF Recent, Counted
<1>7. QED
  BY <1>2, <1>4, <1>5, <1>6

\* No step starts an automatic production past the target of the week.
LEMMA WithinTargetNext ==
  ASSUME Inv, Next, NEW t \in Topics, auto[t] = "none", auto'[t] /= "none"
  PROVE  Recent(auto') <= WeeklyTarget
<1>1. CASE \E r \in Runs : Proposed(r)
  <2>1. PICK drafts \in SUBSET Topics : \E chosen \in Selections(drafts \ muted) : Produced(chosen)
    BY <1>1 DEF Proposed, Proposable
  <2>2. PICK chosen \in Selections(drafts \ muted) : Produced(chosen)
    BY <2>1
  <2>3. chosen \subseteq Topics /\ (chosen /= {} => Recent(auto) + Cardinality(chosen) <= WeeklyTarget)
    BY <2>2, SelectionsBound
  <2>4. chosen /= {}
    <3>1. t \in chosen
      BY <2>2 DEF Produced
    <3>2. QED
      BY <3>1
  <2>5. Recent(auto') <= Recent(auto) + Cardinality(chosen)
    BY <2>2, <2>3, ProducedCount
  <2>6. Recent(auto) \in Nat /\ Recent(auto') \in Nat /\ Cardinality(chosen) \in Nat
    BY <2>3, CountType DEF Recent
  <2>7. QED
    BY <2>3, <2>4, <2>5, <2>6
<1>2. CASE ~\E r \in Runs : Proposed(r)
  <2>1. auto[t] = auto'[t] \/ ActivateAutomation \/ \E x \in Topics : CancelJob(x) \/ RetryJob(x)
    <3>1. CASE \/ \E e \in Entries : Publish(e) \/ Revise(e) \/ \E p \in Posts : PostBegins(p, e)
               \/ \E p \in Takers : PollBegins(p) \/ Polling(p) \/ Posting(p)
               \/ ComesDue \/ PatchSource \/ DeleteSource
      BY <3>1 DEF Publish, Revise, PostBegins, PollBegins, Polling, PollAnswers, PollFails, Posting,
        PostAnswers, PostFails, ItemEnds, PostEnds, ComesDue, PatchSource, DeleteSource, research
    <3>2. CASE (\E k \in Keys : GenerationRequest(k)) \/ Enqueue \/ RunDueResearch \/ ManualRun \/ Crash
      BY <3>2 DEF GenerationRequest, Enqueue, RunDueResearch, ManualRun, Crash, research
    <3>3. CASE \E r \in Runs : Running(r)
      BY <1>2, <3>3 DEF Running, RunBegins, SearchAnswers, RunFails, RunEnds
    <3>4. CASE \E x \in Topics : Select(x) \/ Reject(x) \/ Mute(x)
      BY <3>4 DEF Select, Reject, Mute
    <3>5. QED
      BY <3>1, <3>2, <3>3, <3>4 DEF Next, RunDue, Takers
  <2>2. CASE \E x \in Topics : CancelJob(x) \/ RetryJob(x)
    <3>1. PICK x \in Topics : CancelJob(x) \/ RetryJob(x)
      BY <2>2
    <3>2. x /= t
      BY <3>1 DEF CancelJob, RetryJob
    <3>3. auto'[t] = auto[t]
      BY <3>1, <3>2 DEF CancelJob, RetryJob, Inv, TypeOK
    <3>4. QED
      BY <3>3
  <2>3. CASE ActivateAutomation
    BY <2>3 DEF ActivateAutomation, Blocked
  <2>4. QED
    BY <2>1, <2>2, <2>3
<1>3. QED
  BY <1>1, <1>2

\* Runs that end side by side and retried jobs leave the week's target alone.
THEOREM AutomaticWithinTargetHolds == Spec => AutomaticWithinTarget
<1>1. Inv /\ [Next]_vars =>
        [(\E t \in Topics : auto[t] = "none" /\ auto'[t] /= "none") => Recent(auto') <= WeeklyTarget]_vars
  BY WithinTargetNext
<1>2. QED
  BY <1>1, InvAlways, PTL DEF Spec, AutomaticWithinTarget
=============================================================================
