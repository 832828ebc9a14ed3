------------------------------ MODULE Planning ------------------------------
(***************************************************************************)
(* From a feed to a production: ingestion of feed entries and content      *)
(* items, research runs, topic candidates, the productions the automation  *)
(* starts, and generation requests with an Idempotency-Key (routes.py).    *)
(* Polls, content items, research tasks, the scheduler and generation      *)
(* requests run on the event loop: each is contiguous between its awaits.  *)
(* Editors' requests run on pool threads, one commit changes a candidate.  *)
(***************************************************************************)
EXTENDS Integers, FiniteSets

CONSTANTS
  Settings,      \* the projects that are considered, see SettingsType
  Entries,       \* feed entries: numbers, in the order of the feed
  Scheduler,     \* the scheduler, which calls run-due again and again
  Polls,         \* polls somebody asks for
  Posts,         \* content-items requests
  Keys,          \* Idempotency-Keys of generation requests
  Runs,          \* bound: research_run rows that are not finished
  Topics,        \* what the provider can propose
  MaxCandidates, \* max_candidates of a run that is asked for or comes of an item
  WeeklyTarget,  \* videos_per_week
  MaxFaults,     \* bound: failed provider calls, fruitless proposals
  MaxCrashes,    \* bound: crashes
  MaxManual,     \* bound: runs that somebody asks for, jobs that are cancelled
  MaxEdits,      \* bound: candidates that editors take or hide, changes of the source
  MaxJobs        \* bound: jobs that are made for one key

\* posts: entries that the feed publishes; private: those whose link
\* validate_public_url never accepts (it is private, or does not resolve);
\* limit: max_items_per_poll; revises: the feed may revise one entry;
\* curated: the source is changed and deleted;
\* articles: clients post its articles as content items too; requests: they ask
\* for productions; team: editors work on its research;
\* researches: run_research of source and items; backlog: backlog_target;
\* unserved: topics of the content types that content_mix gives no share.
SettingsType ==
  [posts : SUBSET Entries, private : SUBSET Entries, limit : Nat, revises : BOOLEAN,
   curated : BOOLEAN, articles : BOOLEAN, requests : BOOLEAN, team : BOOLEAN, researches : BOOLEAN,
   backlog : Nat, profile : BOOLEAN, mode : {"off", "scripts", "videos"}, unserved : SUBSET Topics]

ASSUME PlanningAssumption ==
  /\ Settings \subseteq SettingsType
  /\ Entries \subseteq Nat /\ Runs \subseteq Nat
  /\ IsFiniteSet(Entries) /\ IsFiniteSet(Runs) /\ IsFiniteSet(Topics)
  /\ MaxCandidates \in Nat \ {0} /\ WeeklyTarget \in Nat \ {0}
  /\ {MaxFaults, MaxCrashes, MaxManual, MaxEdits, MaxJobs} \subseteq Nat

VARIABLES
  setting,  \* the project's settings
  feed,     \* feed[e]: version of the entry, 0 before it is published
  source,   \* status of the source row
  due,      \* its next_poll_at has come, or there is none
  taker,    \* taker[p]: a poll, with the status of its copy of the source, or
            \* a content item, between their awaits; rest: the scheduler has
            \* dealt with this source, and polls those of other projects
  item,     \* item[e]: source_item rows of the entry
  record,   \* record[e]: version the idempotency record of a poll stands for
  jobs,     \* jobs[k]: generation jobs that were made for a key
  saved,    \* saved[k]: the one its idempotency record names, 0 for no record
  told,     \* told[k]: those the clients were told of
  run,      \* run[r]: a research run that is not finished
  topic,    \* topic[t]: status of the newest candidate of a topic
  muted,    \* fingerprints of the active mutes
  auto,     \* auto[t]: status of the automatic job of a candidate
  taken,    \* candidates whose job has been given to the workflow
  used      \* faults, crashes and manual requests so far

intake == <<feed, source, due, taker, item, record>>
keyed == <<jobs, saved, told>>
research == <<run, topic, muted, auto, taken>>
vars == <<setting, intake, keyed, research, used>>

Takers == {Scheduler} \cup Polls \cup Posts
AllKeys == Keys \cup Entries

Idle == [pc |-> "idle", e |-> 0, seen |-> [x \in Entries |-> 0], was |-> "healthy"]
NoRun == [st |-> "none", trigger |-> "none", want |-> 0, task |-> FALSE]

Init ==
  /\ setting \in Settings
  /\ feed = [e \in Entries |-> 0] /\ source = "healthy" /\ due = TRUE
  /\ taker = [p \in Takers |-> Idle]
  /\ item = [e \in Entries |-> 0] /\ record = [e \in Entries |-> 0]
  /\ jobs = [k \in AllKeys |-> 0] /\ saved = [k \in AllKeys |-> 0]
  /\ told = [k \in AllKeys |-> {}]
  /\ run = [r \in Runs |-> NoRun]
  /\ topic = [t \in Topics |-> "none"] /\ muted = {}
  /\ auto = [t \in Topics |-> "none"] /\ taken = {}
  /\ used = [faults |-> 0, crashes |-> 0, manual |-> 0, edits |-> 0]

Fault == used.faults < MaxFaults /\ used' = [used EXCEPT !.faults = @ + 1]

Manual == setting.team /\ used.manual < MaxManual /\ used' = [used EXCEPT !.manual = @ + 1]

Edits == used.edits < MaxEdits /\ used' = [used EXCEPT !.edits = @ + 1]

Edit == setting.team /\ Edits

(***************************************************************************)
(* The feed                                                                *)
(***************************************************************************)
Publish(e) ==
  /\ e \in setting.posts /\ feed[e] = 0
  /\ feed' = [feed EXCEPT ![e] = 1]
  /\ UNCHANGED <<setting, source, due, taker, item, record, keyed, research, used>>

Revise(e) ==
  /\ setting.revises /\ feed[e] = 1
  /\ \A x \in Entries : feed[x] < 2
  /\ feed' = [feed EXCEPT ![e] = 2]
  /\ UNCHANGED <<setting, source, due, taker, item, record, keyed, research, used>>

(***************************************************************************)
(* poll_source, create_content_item and _create_source_item                *)
(***************************************************************************)
\* Mistake: only what a poll has ingested is recognised.
KnownToPolls(e) == record[e] /= 0

\* A row with the entry's external id, URL or content.
Known(e) == item[e] > 0

\* The rows that _create_source_item adds: accepted, or to be reviewed where
\* the text is like that of another item.
WithItems(new) == [e \in Entries |-> IF e \in new THEN item[e] + 1 ELSE item[e]]

FreeRuns == {r \in Runs : run[r].st = "none"}

\* run with n new rows; task: somebody executes them.
WithRuns(n, trigger, want, task) ==
  IF n = 0
    THEN {run}
    ELSE LET New == [st |-> "queued", trigger |-> trigger, want |-> want, task |-> task]
         IN {[r \in Runs |-> IF r \in new THEN New ELSE run[r]] :
               new \in {S \in SUBSET FreeRuns : Cardinality(S) = n}}

\* Mistake: a source whose last fetch failed is left alone.
PollableHealthy == source = "healthy"

Pollable == source \in {"healthy", "degraded"}

\* What poll_due_rss_sources polls; what somebody asks for is polled whatever
\* the source's status.
Due == setting.posts /= {} /\ Pollable /\ due

PollBegins(p) ==
  /\ p \notin Posts /\ taker[p].pc = "idle"
  /\ IF p = Scheduler THEN Due ELSE setting.posts /= {}
  /\ taker' = [taker EXCEPT ![p] = [pc |-> "fetch", e |-> 0, seen |-> feed, was |-> source]]
  /\ UNCHANGED <<setting, feed, source, due, item, record, keyed, research, used>>

\* The poll is over; raised: with what poll_due_rss_sources does not catch, so
\* that run-due is over too.
PollEnds(p, raised) ==
  taker' = [taker EXCEPT ![p] = [Idle EXCEPT !.pc = IF p = Scheduler /\ ~raised THEN "rest" ELSE "idle"]]

\* repo.update of the poll's copy: a status it has already is not written.
Marked(p, status) == source' = IF taker[p].was = status THEN source ELSE status

\* A source that could not be fetched stays due.
PollFails(p) ==
  /\ p \notin Posts /\ taker[p].pc = "fetch"
  /\ Fault
  /\ Marked(p, "degraded")
  /\ PollEnds(p, FALSE)
  /\ UNCHANGED <<setting, feed, due, item, record, keyed, research>>

Before(f, e) == {x \in Entries : x < e /\ f[x] /= 0}

\* What a poll takes of the feed.
Listed(f) == {e \in Entries : f[e] /= 0 /\ Cardinality(Before(f, e)) < setting.limit}

\* The links that are refused: for good, or because a name does not resolve now.
Links == {setting.private} \cup {setting.private \cup {e} : e \in Entries}

\* The entries are taken in the order of the feed, until one is met whose link
\* is refused (a ValueError that nobody catches) or whose record stands for
\* another version (a 409). What is before it has been committed; the source is
\* not marked and stays due. A request that ends so runs none of its background
\* tasks, but the scheduler goes on after the 409.
PollAnswers(p) ==
  /\ p \notin Posts /\ taker[p].pc = "fetch"
  /\ \E f \in {taker[p].seen, feed}, refused \in Links :
       LET Stops == {e \in Listed(f) : e \in refused \/ record[e] \notin {0, f[e]}}
           New == {e \in Listed(f) : record[e] = 0 /\ ~Known(e) /\ \A x \in Stops : e < x}
           Raises == \E e \in Stops \cap refused : \A x \in Stops : e <= x
       IN /\ PollEnds(p, Raises)
          /\ IF refused = setting.private THEN UNCHANGED used ELSE Fault
          /\ item' = WithItems(New)
          /\ record' = [e \in Entries |-> IF e \in New THEN f[e] ELSE record[e]]
          /\ run' \in WithRuns(IF setting.researches THEN Cardinality(New) ELSE 0, "item", MaxCandidates,
                               Stops = {} \/ (p = Scheduler /\ ~Raises))
          /\ IF Stops = {} THEN Marked(p, "healthy") /\ due' = FALSE ELSE UNCHANGED <<source, due>>
  /\ UNCHANGED <<setting, feed, keyed, topic, muted, auto, taken>>

\* poll_interval_minutes later. (An older next_poll_at that the copy of a failed
\* poll writes back comes earlier: that is this step too.)
ComesDue ==
  /\ setting.posts /= {} /\ ~due
  /\ due' = TRUE
  /\ UNCHANGED <<setting, feed, source, taker, item, record, keyed, research, used>>

\* patch_source and delete_source look at no status, nor whether a poll is
\* under way, which may write its own over theirs.
PatchSource ==
  /\ setting.curated /\ Edits
  /\ \E status \in {"healthy", "paused"} : source' = status
  /\ UNCHANGED <<setting, feed, due, taker, item, record, keyed, research>>

DeleteSource ==
  /\ setting.curated /\ Edits
  /\ source' = "deleted"
  /\ UNCHANGED <<setting, feed, due, taker, item, record, keyed, research>>

PostBegins(p, e) ==
  /\ setting.articles
  /\ p \in Posts /\ taker[p].pc = "idle" /\ feed[e] /= 0
  /\ taker' = [taker EXCEPT ![p] = [Idle EXCEPT !.pc = "fetch", !.e = e]]
  /\ UNCHANGED <<setting, feed, source, due, item, record, keyed, research, used>>

\* The page is not public text, too large, or names another address as its own.
PostFails(p) ==
  /\ p \in Posts /\ taker[p].pc = "fetch"
  /\ Fault
  /\ taker' = [taker EXCEPT ![p] = Idle]
  /\ UNCHANGED <<setting, feed, source, due, item, record, keyed, research>>

\* The article has been fetched: a duplicate is answered, a new row announced.
PostAnswers(p) ==
  /\ p \in Posts /\ taker[p].pc = "fetch"
  /\ item' = IF Known(taker[p].e) THEN item ELSE WithItems({taker[p].e})
  /\ taker' = [taker EXCEPT ![p] = IF Known(taker[p].e) THEN Idle ELSE [@ EXCEPT !.pc = "announce"]]
  /\ UNCHANGED <<setting, feed, source, due, record, keyed, research, used>>

(***************************************************************************)
(* create_generation                                                       *)
(***************************************************************************)
\* get_idempotent_response; a key that comes with another body is refused.
Cached(k) == saved[k] /= 0

\* save_idempotent_response
SaveRecord(k, j) == saved' = [saved EXCEPT ![k] = j]

\* Mistake: the record is forgotten.
GenerateUnsaved(k) ==
  \/ /\ Cached(k)
     /\ told' = [told EXCEPT ![k] = @ \cup {saved[k]}]
     /\ UNCHANGED <<jobs, saved>>
  \/ /\ ~Cached(k) /\ jobs[k] < MaxJobs
     /\ jobs' = [jobs EXCEPT ![k] = @ + 1]
     /\ told' = [told EXCEPT ![k] = @ \cup {jobs'[k]}]
     /\ UNCHANGED saved

\* A key that has a record is answered from it; otherwise a job is made, the
\* budget-blocked too, and its record saved before the answer.
Generate(k) ==
  \/ /\ Cached(k)
     /\ told' = [told EXCEPT ![k] = @ \cup {saved[k]}]
     /\ UNCHANGED <<jobs, saved>>
  \/ /\ ~Cached(k) /\ jobs[k] < MaxJobs
     /\ jobs' = [jobs EXCEPT ![k] = @ + 1]
     /\ SaveRecord(k, jobs'[k])
     /\ told' = [told EXCEPT ![k] = @ \cup {jobs'[k]}]

\* Clients repeat requests, answered or not; a refused charge (402) takes the
\* row away again and leaves no record.
GenerationRequest(k) ==
  /\ k \in Keys /\ setting.requests
  /\ Generate(k)
  /\ UNCHANGED <<setting, intake, research, used>>

\* After the event of create_source_item: the research run.
ItemEnds(p) ==
  /\ p \in Posts /\ taker[p].pc = "announce"
  /\ run' \in WithRuns(IF setting.researches THEN 1 ELSE 0, "item", MaxCandidates, TRUE)
  /\ taker' = [taker EXCEPT ![p] = Idle]
  /\ UNCHANGED <<setting, feed, source, due, item, record, keyed, topic, muted, auto, taken, used>>

\* After that of create_content_item: the run, then what generate_best makes.
\* When the charge of the production is refused the request ends with 402,
\* its background task is not run, and no repetition gets this far.
PostEnds(p) ==
  /\ p \in Posts /\ taker[p].pc = "announce"
  /\ \E paid \in BOOLEAN :
       /\ IF paid THEN Generate(taker[p].e) ELSE UNCHANGED keyed
       /\ run' \in WithRuns(IF setting.researches THEN 1 ELSE 0, "item", MaxCandidates, paid)
  /\ taker' = [taker EXCEPT ![p] = Idle]
  /\ UNCHANGED <<setting, feed, source, due, item, record, topic, muted, auto, taken, used>>

(***************************************************************************)
(* Who starts research                                                     *)
(***************************************************************************)
Unresolved == Cardinality({t \in Topics : topic[t] = "candidate"})

Least(a, b) == IF a < b THEN a ELSE b

\* Mistake: a full backlog does not stop the profile.
ProfileWantUnchecked ==
  IF setting.backlog = 0 THEN MaxCandidates ELSE Least(MaxCandidates, setting.backlog - Unresolved)

\* What a due profile asks for; 0: it is skipped.
ProfileWant ==
  IF setting.backlog = 0 THEN MaxCandidates
  ELSE IF Unresolved >= setting.backlog THEN 0
  ELSE Least(MaxCandidates, setting.backlog - Unresolved)

\* enqueue_due_research_profiles: a run of the profile, when it is due.
ProfileRun ==
  /\ setting.profile
  /\ ProfileWant /= 0
  /\ FreeRuns /= {} /\ run' \in WithRuns(1, "scheduled", ProfileWant, TRUE)

\* "queued" and "running" rows, whether somebody executes them or not.
BacklogRunning ==
  \E r \in Runs : run[r].trigger = "backlog" /\ run[r].st \in {"queued", "search", "propose"}

BacklogShort == Unresolved < setting.backlog

BacklogDue ==
  /\ ~setting.profile /\ setting.mode /= "off"
  /\ BacklogShort /\ ~BacklogRunning /\ FreeRuns /= {}

\* enqueue_backlog_replenishment
BacklogRun ==
  /\ BacklogDue
  /\ run' \in WithRuns(1, "backlog", Least(MaxCandidates, setting.backlog - Unresolved), TRUE)

\* The second half of run_due_automation, once its polls have ended without an
\* exception, or none was due: the profiles, then the backlog. (Publications,
\* webhooks and alerts come after it and are taken not to raise; the tasks of
\* the new rows are run when all is done.)
Enqueue ==
  /\ \/ taker[Scheduler].pc = "rest"
     \/ taker[Scheduler].pc = "idle" /\ ~Due
  /\ taker' = [taker EXCEPT ![Scheduler] = Idle]
  /\ ProfileRun \/ BacklogRun \/ (~BacklogDue /\ UNCHANGED run)
  /\ UNCHANGED <<setting, feed, source, due, item, record, keyed, topic, muted, auto, taken, used>>

\* run_due_research: the profiles alone.
RunDueResearch ==
  /\ ProfileRun
  /\ UNCHANGED <<setting, intake, keyed, topic, muted, auto, taken, used>>

\* create_research_run; a refused charge takes the row away again.
ManualRun ==
  /\ Manual
  /\ FreeRuns /= {} /\ run' \in WithRuns(1, "manual", MaxCandidates, TRUE)
  /\ UNCHANGED <<setting, intake, keyed, topic, muted, auto, taken>>

(***************************************************************************)
(* _run_research_task                                                      *)
(***************************************************************************)
RunBegins(r) ==
  /\ run[r].st = "queued" /\ run[r].task
  /\ run' = [run EXCEPT ![r].st = "search"]
  /\ UNCHANGED <<setting, intake, keyed, topic, muted, auto, taken, used>>

SearchAnswers(r) ==
  /\ run[r].st = "search" /\ run[r].task
  /\ run' = [run EXCEPT ![r].st = "propose"]
  /\ UNCHANGED <<setting, intake, keyed, topic, muted, auto, taken, used>>

\* Mistake: nobody catches what the provider raises.
RunFailsOpenly(r) ==
  /\ run[r].st \in {"search", "propose"} /\ run[r].task
  /\ Fault
  /\ run' = [run EXCEPT ![r].task = FALSE]
  /\ UNCHANGED <<setting, intake, keyed, topic, muted, auto, taken>>

\* The row is failed, its charge refunded.
RunFails(r) ==
  /\ run[r].st \in {"search", "propose"} /\ run[r].task
  /\ Fault
  /\ run' = [run EXCEPT ![r] = NoRun]
  /\ UNCHANGED <<setting, intake, keyed, topic, muted, auto, taken>>

\* Automatic jobs of this week that are not cancelled.
Recent(a) == Cardinality({t \in Topics : a[t] \in {"queued", "blocked"}})

\* Mistake: the jobs of other runs do not count.
ShareOfRun(created) == Least(WeeklyTarget, IF created < 3 THEN 1 ELSE created \div 3)

\* How many of a run's candidates the automation takes.
Share(created) ==
  Least(IF Recent(auto) < WeeklyTarget THEN WeeklyTarget - Recent(auto) ELSE 0,
        IF created < 3 THEN 1 ELSE created \div 3)

\* select_content_candidates: as many as that among the types with a share.
Selections(created) ==
  LET pool == created \ setting.unserved
      count == Least(Share(Cardinality(created)), Cardinality(pool))
  IN IF setting.mode = "off" THEN {{}} ELSE {chosen \in SUBSET pool : Cardinality(chosen) = count}

\* _enqueue_automatic_candidate_productions: an idea and a job for each of the
\* chosen ones. Scripts are free, videos are charged or blocked; what is paid
\* is given to the workflow after the last commit.
Produced(chosen) ==
  \E paid \in SUBSET chosen :
    /\ setting.mode = "scripts" => paid = chosen
    /\ auto' = [t \in Topics |-> IF t \in paid THEN "queued"
                                ELSE IF t \in chosen THEN "blocked" ELSE auto[t]]
    /\ taken' = taken \cup paid

\* What may be proposed: a topic that no production stands for. (A topic that
\* has been produced may come again too, as a candidate of its own.)
Proposable == {t \in Topics : topic[t] \in {"none", "hidden"} /\ auto[t] = "none"}

\* Candidates of the muted topics are left out; the row is completed and the
\* automation chooses among the rest, all without an await.
Proposed(r) ==
  /\ run[r].st = "propose" /\ run[r].task
  /\ \E drafts \in SUBSET Proposable :
       LET created == drafts \ muted
       IN /\ Cardinality(drafts) <= run[r].want
          /\ IF created = {} /\ Proposable \ muted /= {} THEN Fault ELSE UNCHANGED used
          /\ \E chosen \in Selections(created) :
               /\ Produced(chosen)
               /\ topic' = [t \in Topics |-> IF t \in chosen THEN "selected"
                                             ELSE IF t \in created THEN "candidate" ELSE topic[t]]
  /\ run' = [run EXCEPT ![r].st = "announce"]
  /\ UNCHANGED <<setting, intake, keyed, muted>>

\* The event of the completed (or, when sending raises, failed) run.
RunEnds(r) ==
  /\ run[r].st = "announce" /\ run[r].task
  /\ run' = [run EXCEPT ![r] = NoRun]
  /\ UNCHANGED <<setting, intake, keyed, topic, muted, auto, taken, used>>

(***************************************************************************)
(* Editors: select_candidate, reject_candidate, mute_candidate. None of    *)
(* them looks at the status the candidate has.                             *)
(***************************************************************************)
Select(t) ==
  /\ topic[t] /= "none"
  /\ Edit
  /\ topic' = [topic EXCEPT ![t] = "idea_created"]
  /\ UNCHANGED <<setting, intake, keyed, run, muted, auto, taken>>

Reject(t) ==
  /\ topic[t] /= "none"
  /\ Edit
  /\ topic' = [topic EXCEPT ![t] = "hidden"]
  /\ UNCHANGED <<setting, intake, keyed, run, muted, auto, taken>>

Mute(t) ==
  /\ topic[t] /= "none"
  /\ Edit
  /\ muted' = muted \cup {t}
  /\ topic' = [topic EXCEPT ![t] = "hidden"]
  /\ UNCHANGED <<setting, intake, keyed, run, auto, taken>>

(***************************************************************************)
(* Automatic jobs: cancel_generation, retry_generation and                 *)
(* activate_project_automation, the rest of their life is GenerationJob.   *)
(***************************************************************************)
CancelJob(t) ==
  /\ auto[t] \in {"queued", "blocked"}
  /\ Manual
  /\ auto' = [auto EXCEPT ![t] = "cancelled"]
  /\ UNCHANGED <<setting, intake, keyed, run, topic, muted, taken>>

RetryJob(t) ==
  /\ auto[t] = "cancelled"
  /\ auto' = [auto EXCEPT ![t] = "queued"]
  /\ taken' = taken \cup {t}
  /\ UNCHANGED <<setting, intake, keyed, run, topic, muted, used>>

Blocked == {t \in Topics : auto[t] = "blocked"}

\* The handler runs on a pool thread, where schedule finds no event loop: the
\* jobs are charged and queued, the request fails before any is scheduled and
\* before its research. Where no blocked job could be paid for it starts the
\* project's first research.
ActivateAutomation ==
  \/ /\ Blocked /= {}
     /\ \E paid \in SUBSET Blocked \ {{}} :
          auto' = [t \in Topics |-> IF t \in paid THEN "queued" ELSE auto[t]]
     /\ UNCHANGED <<setting, intake, keyed, run, topic, muted, taken, used>>
  \/ /\ setting.mode /= "off"
     /\ ~\E r \in Runs : run[r].st \in {"queued", "search", "propose"}
     /\ Manual
     /\ FreeRuns /= {} /\ run' \in WithRuns(1, "funding", MaxCandidates, TRUE)
     /\ UNCHANGED <<setting, intake, keyed, topic, muted, auto, taken>>

(***************************************************************************)
(* The system                                                              *)
(***************************************************************************)
\* The instance dies and starts again: queued jobs are given to the workflow,
\* nothing else is taken up. A generation request that was being served has
\* made its job and not saved its record, or there was none.
Crash ==
  /\ used.crashes < MaxCrashes /\ used' = [used EXCEPT !.crashes = @ + 1]
  /\ taker' = [p \in Takers |-> Idle]
  /\ run' = [r \in Runs |-> IF run[r].st = "announce" THEN NoRun ELSE [run[r] EXCEPT !.task = FALSE]]
  /\ taken' = taken \cup {t \in Topics : auto[t] = "queued"}
  /\ \/ UNCHANGED jobs
     \/ \E k \in Keys : /\ setting.requests /\ ~Cached(k) /\ jobs[k] < MaxJobs
                        /\ jobs' = [jobs EXCEPT ![k] = @ + 1]
  /\ UNCHANGED <<setting, feed, source, due, item, record, saved, told, topic, muted, auto>>

Polling(p) == PollAnswers(p) \/ PollFails(p)

Posting(p) == PostAnswers(p) \/ PostFails(p) \/ ItemEnds(p) \/ PostEnds(p)

\* run_due_automation: the sources, then the profiles and the backlog; where a
\* poll raises, nothing more of it.
RunDue == PollBegins(Scheduler) \/ Polling(Scheduler) \/ Enqueue

Running(r) == RunBegins(r) \/ SearchAnswers(r) \/ RunFails(r) \/ Proposed(r) \/ RunEnds(r)

Next ==
  \/ \E e \in Entries : Publish(e) \/ Revise(e) \/ \E p \in Posts : PostBegins(p, e)
  \/ \E p \in Polls : PollBegins(p) \/ Polling(p)
  \/ ComesDue \/ PatchSource \/ DeleteSource
  \/ \E p \in Posts : Posting(p)
  \/ \E k \in Keys : GenerationRequest(k)
  \/ RunDue \/ RunDueResearch \/ ManualRun
  \/ \E r \in Runs : Running(r)
  \/ \E t \in Topics : Select(t) \/ Reject(t) \/ Mute(t) \/ CancelJob(t) \/ RetryJob(t)
  \/ ActivateAutomation
  \/ Crash

Spec == Init /\ [][Next]_vars

\* The scheduler calls run-due again and again, time passes, providers answer.
\* Nothing is assumed of the backlog: run-due reaches it or does not.
Fairness ==
  /\ WF_vars(RunDue) /\ WF_vars(ComesDue)
  /\ \A p \in Polls : WF_vars(Polling(p))
  /\ \A p \in Posts : WF_vars(Posting(p))
  /\ \A r \in Runs : WF_vars(Running(r))

FairSpec == Spec /\ Fairness

(***************************************************************************)
(* Properties                                                              *)
(***************************************************************************)
\* The types of all variables; a run asks for one candidate at least.
TypeOK ==
  /\ setting \in Settings
  /\ feed \in [Entries -> 0..2] /\ source \in {"healthy", "degraded", "paused", "deleted"}
  /\ due \in BOOLEAN
  /\ taker \in [Takers -> [pc : {"idle", "fetch", "announce", "rest"}, e : Entries \cup {0},
                           seen : [Entries -> 0..2],
                           was : {"healthy", "degraded", "paused", "deleted"}]]
  /\ item \in [Entries -> Nat] /\ record \in [Entries -> 0..2]
  /\ jobs \in [AllKeys -> 0..MaxJobs] /\ saved \in [AllKeys -> 0..MaxJobs]
  /\ told \in [AllKeys -> SUBSET (1..MaxJobs)]
  /\ run \in [Runs -> {NoRun} \cup
       [st : {"queued", "search", "propose", "announce"},
        trigger : {"item", "scheduled", "backlog", "manual", "funding"},
        want : 1..MaxCandidates, task : BOOLEAN]]
  /\ topic \in [Topics -> {"none", "candidate", "selected", "idea_created", "hidden"}]
  /\ muted \subseteq Topics /\ taken \subseteq Topics
  /\ auto \in [Topics -> {"none", "queued", "blocked", "cancelled"}]
  /\ used \in [faults : 0..MaxFaults, crashes : 0..MaxCrashes, manual : 0..MaxManual,
             edits : 0..MaxEdits]

\* Polls and content items that fetch at the same time make one source item of
\* an entry, whichever of them gets it first and whatever was revised.
OneItemPerEntry == \A e \in Entries : item[e] <= 1

\* Repetitions of a generation request with its key are all told of one job, a
\* crash before the record was saved included.
AnsweredOnce == \A k \in AllKeys : Cardinality(told[k]) <= 1

\* Runs that finish side by side do not take the automation past the videos of
\* the week, nor does it fill up what retried jobs have taken.
AutomaticWithinTarget ==
  [][(\E t \in Topics : auto[t] = "none" /\ auto'[t] /= "none") => Recent(auto') <= WeeklyTarget]_vars

\* An entry whose link is refused for good stands where every poll of the feed
\* meets it.
FeedRaises == \E e \in setting.private : e \in Listed(feed)

\* A short backlog is filled through failed polls, failed runs and editors who
\* hide or take its candidates, unless nothing is left to propose, and whatever
\* other source items and clients do. (A run that a crash has left queued or
\* running stops the replenishment for good; so does one entry with a private
\* link or one that no longer resolves, in a feed that is polled: run-due raises
\* at it every time before it comes to the backlog.)
BacklogIsFilled ==
  (~setting.profile /\ setting.mode /= "off" /\ BacklogShort)
    ~> (~BacklogShort \/ Proposable \subseteq muted \/ used.crashes > 0 \/ (FeedRaises /\ Pollable))

\* A published entry is ingested, through failed fetches and names that do not
\* resolve for a while, and though a poll ends at an entry behind it every time,
\* unless its source is paused or deleted by then. (An entry with a private link,
\* or one that is revised after it was ingested, keeps the entries behind it out
\* for good; what max_items_per_poll leaves out is never asked for again.)
FeedIsIngested ==
  \A e \in Entries :
    feed[e] /= 0 ~> \/ item[e] > 0
                    \/ \E x \in Entries : feed[x] = 2
                    \/ \E x \in setting.private : feed[x] /= 0 /\ x <= e
                    \/ e \notin Listed(feed)
                    \/ source \in {"paused", "deleted"}

\* A job the customer's deposit has been charged for is given to the workflow,
\* like every other queued job.
FundedJobsAreTaken == \A t \in Topics : auto[t] = "queued" ~> (t \in taken \/ auto[t] /= "queued")
=============================================================================
