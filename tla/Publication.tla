---------------------------- MODULE Publication ----------------------------
(***************************************************************************)
(* Publishing an approved video (routes.py, prepare_publication to         *)
(* cancel_publication; publishing.py; social_browser.py): a row of kind    *)
(* publication, request handlers on the event loop of one API instance     *)
(* that wait for a provider in a thread, cancel requests on pool threads,  *)
(* and the scheduled refresh of refresh_processing_publications.           *)
(*                                                                         *)
(* YouTube and the web composers of Instagram and TikTok are external: an  *)
(* attempt may post the video and still fail to say so, or fail to have    *)
(* noticed it. The step that posts and the step that stores the outcome    *)
(* are therefore two.                                                      *)
(***************************************************************************)
EXTENDS Integers, Sequences

CONSTANTS
  Pubs,       \* publications
  Handlers,   \* request handlers, the scheduler's and automatic ones included
  Nobody,     \* the publication of an idle handler
  MaxFaults,  \* bound: provider, storage and network failures
  MaxMishaps  \* bound: cancels, downloads of a package, instances that die

ASSUME PublicationAssumption == Nobody \notin Pubs

VARIABLES
  pub,    \* pub[p]: platform, status, failure_phase; ext is the post that
          \* external_post_id names, 0 for none
  remote, \* remote[p]: the states of its posts at the provider
  points, \* points[p][w]: metric_checkpoint rows
  paused, \* the kill switch or the project's pause is on
  h,      \* h[x]: a handler with its copy of the row; seen is what the
          \* provider has answered
  again,  \* publications that were confirmed again after they had failed
  cancel, \* publications whose cancel request has passed its check
  pack,   \* pack[p]: what a download of the export package has read of the row
  stale,  \* publications whose package was stored with an older data column
  clicked, \* publications posted by a click that the composer took for a failure
  used    \* faults, and cancels, downloads and crashes so far

past == <<again, pack, stale, clicked>>
vars == <<pub, remote, points, paused, h, past, cancel, used>>

Windows == {"24h", "7d"}

\* Instagram and TikTok are alike: "social".
Platforms == {"youtube", "social", "export"}

Youtube == {p \in Pubs : pub[p].platform = "youtube"}

Social == {p \in Pubs : pub[p].platform = "social"}

Status == {"none", "prepared", "uploading", "processing", "published", "rejected", "export_ready",
           "cancelled", "retryable_failure", "reauth"}

NoHandler == [pc |-> "idle", p |-> Nobody, status |-> "none", phase |-> "none", ext |-> 0,
              seen |-> "none"]

NoPackage == [busy |-> FALSE, phase |-> "none", ext |-> 0]

Init ==
  /\ pub = [p \in Pubs |-> [platform |-> "none", status |-> "none",
                           phase |-> "none", ext |-> 0]]
  /\ remote = [p \in Pubs |-> <<>>]
  /\ points = [p \in Pubs |-> [w \in Windows |-> 0]]
  /\ paused = FALSE
  /\ h = [x \in Handlers |-> NoHandler]
  /\ again = {}
  /\ cancel = {}
  /\ pack = [p \in Pubs |-> NoPackage] /\ stale = {} /\ clicked = {}
  /\ used = [faults |-> 0, cancels |-> 0, downloads |-> 0, crashes |-> 0]

(***************************************************************************)
(* Handlers. While a handler waits for a thread, or for its turn after the *)
(* thread has returned, others run.                                        *)
(***************************************************************************)
Waits == {"upload", "ask", "posted", "unknown", "preflight", "login", "answered"}

LoopIsFree(x) == \A y \in Handlers \ {x} : h[y].pc \in Waits \cup {"idle"}

Begins(x) == h[x].pc = "idle" /\ LoopIsFree(x)

Goto(x, pc) == h' = [h EXCEPT ![x].pc = pc]

End(x) == h' = [h EXCEPT ![x] = NoHandler]

Fault == used.faults < MaxFaults /\ used' = [used EXCEPT !.faults = @ + 1]

Mishap(kind) ==
  /\ used.cancels + used.downloads + used.crashes < MaxMishaps
  /\ used' = [used EXCEPT ![kind] = @ + 1]

\* The row is read and the provider asked for an answer: upload or ask.
Copies(x, p, pc, status) ==
  h' = [h EXCEPT ![x] = [pc |-> pc, p |-> p, status |-> status, phase |-> pub[p].phase, ext |-> pub[p].ext,
                         seen |-> "none"]]

\* repo.update from the handler's copy: the status is written where it
\* differs from the copy's, the data column always and as a whole.
Stored(x, status) == IF status /= h[x].status THEN status ELSE pub[h[x].p].status

Save(x, status, phase) ==
  pub' = [pub EXCEPT ![h[x].p] = [@ EXCEPT !.status = Stored(x, status), !.phase = phase, !.ext = h[x].ext]]

(***************************************************************************)
(* prepare_publication and the kill switch                                 *)
(***************************************************************************)
\* _publishing_is_paused: neither the provider nor the project is.
Open == ~paused

\* Prepared or awaiting_consent: both wait for a confirmation with the token.
Prepare(p) ==
  /\ pub[p].status = "none"
  /\ Open
  /\ \E platform \in Platforms :
       pub' = [pub EXCEPT ![p].platform = platform, ![p].status = "prepared"]
  /\ UNCHANGED <<past, remote, points, paused, h, cancel, used>>

Pause ==
  /\ paused' = ~paused
  /\ UNCHANGED <<past, pub, remote, points, h, cancel, used>>

(***************************************************************************)
(* confirm_publication                                                     *)
(***************************************************************************)
\* The statuses that confirm_publication does not answer with the row itself:
\* what has failed is confirmed again with the token of the first time (here
\* once: a bound).
Confirmable(p) ==
  \/ pub[p].status = "prepared"
  \/ pub[p].status = "retryable_failure" /\ p \notin again

Repeats(p) == again' = IF pub[p].status = "prepared" THEN again ELSE again \cup {p}

ConfirmExport(x, p) ==
  /\ Begins(x) /\ pub[p].platform = "export"
  /\ Confirmable(p) /\ Open
  /\ pub' = [pub EXCEPT ![p].status = "export_ready"]
  /\ UNCHANGED <<past, remote, points, paused, h, cancel, used>>

\* The thread gets what the row says now.
Upload(x, p) == Copies(x, p, "upload", "uploading")

\* The media is at hand: the row says uploading before the thread starts.
Confirm(x, p) ==
  /\ Begins(x) /\ p \in Youtube \cup Social
  /\ Confirmable(p) /\ Open
  /\ pub' = [pub EXCEPT ![p].status = "uploading"]
  /\ Upload(x, p)
  /\ Repeats(p)
  /\ UNCHANGED <<pack, stale, clicked, remote, points, paused, cancel, used>>

\* It is not.
ConfirmFails(x, p) ==
  /\ Begins(x) /\ p \in Youtube \cup Social
  /\ Confirmable(p) /\ Open
  /\ pub' = [pub EXCEPT ![p].status = "retryable_failure", ![p].phase = "preflight"]
  /\ Repeats(p)
  /\ Fault
  /\ UNCHANGED <<pack, stale, clicked, remote, points, paused, h, cancel>>

\* The saved browser session cannot be decrypted, or is another provider's.
SessionUnavailable(x, p) ==
  /\ Begins(x) /\ p \in Social
  /\ Confirmable(p) /\ Open
  /\ pub' = [pub EXCEPT ![p].status = "reauth"]
  /\ Repeats(p)
  /\ Fault
  /\ UNCHANGED <<pack, stale, clicked, remote, points, paused, h, cancel>>

(***************************************************************************)
(* upload_youtube_video and publish_social_video                           *)
(***************************************************************************)
\* One more post of p. What the web composers take needs no further word.
AddPost(p) ==
  remote' = [remote EXCEPT ![p] = Append(@, IF p \in Youtube THEN "uploaded" ELSE "processed")]

Post(x) ==
  LET p == h[x].p
  IN
  /\ h[x].pc = "upload"
  /\ AddPost(p)
  /\ \/ h' = [h EXCEPT ![x].pc = "posted", ![x].ext = Len(remote'[p])] /\ UNCHANGED used
     \/ Goto(x, "unknown") /\ Fault
  /\ UNCHANGED <<past, pub, points, paused, cancel>>

\* The click on Share or Post is dispatched, and raises all the same (a timeout,
\* a page that is gone). _click drops what was raised, finds none of its other
\* selectors, and raises provider_ui_changed: the route cannot tell this from a
\* page without the control, and stores preflight. (The composer takes one
\* submission: a second selector that posts once more is left out.)
ClickRaises(x) ==
  LET p == h[x].p
  IN
  /\ h[x].pc = "upload" /\ p \in Social
  /\ AddPost(p)
  /\ Goto(x, "preflight")
  /\ clicked' = clicked \cup {p}
  /\ Fault
  /\ UNCHANGED <<again, pack, stale, pub, points, paused, cancel>>

\* The page has no upload control, no caption field or nothing to click
\* (provider_ui_changed), or it does not load in time (provider_timeout).
ComposerFails == {"preflight"}

\* What is stored of an attempt that posted nothing: that nobody knows, except
\* where the composer gave up or the provider asks for a login.
Failure(p) == {"unknown"} \cup IF p \in Social THEN ComposerFails \cup {"login"} ELSE {}

NotPosted(x) ==
  /\ h[x].pc = "upload"
  /\ \E pc \in Failure(h[x].p) : Goto(x, pc)
  /\ Fault
  /\ UNCHANGED <<past, pub, remote, points, paused, cancel>>

\* Mistake: a login that is asked for is stored as a phase of its own.
SaveFailureAlike(x) ==
  /\ h[x].pc \in {"unknown", "preflight", "login"} /\ LoopIsFree(x)
  /\ Save(x, "retryable_failure", h[x].pc)
  /\ End(x)
  /\ UNCHANGED <<past, remote, points, paused, cancel, used>>

\* unknown: a composer that shows no confirmation after the click
\* (remote_state_unknown), and whatever is not a SocialBrowserError.
SaveFailure(x) ==
  /\ h[x].pc \in {"unknown", "preflight", "login"} /\ LoopIsFree(x)
  /\ IF h[x].pc = "login" THEN Save(x, "reauth", h[x].phase)
                          ELSE Save(x, "retryable_failure", h[x].pc)
  /\ End(x)
  /\ UNCHANGED <<past, remote, points, paused, cancel, used>>

SavePosted(x) ==
  LET p == h[x].p
      status == IF p \in Youtube THEN "processing" ELSE "published"
  IN
  /\ h[x].pc = "posted" /\ LoopIsFree(x)
  /\ pub' = [pub EXCEPT ![p] = [@ EXCEPT !.status = status, !.phase = h[x].phase, !.ext = h[x].ext]]
  /\ h' = [h EXCEPT ![x].status = status, ![x].pc = IF p \in Youtube THEN "ask" ELSE "points"]
  /\ UNCHANGED <<past, remote, points, paused, cancel, used>>

(***************************************************************************)
(* _refresh_youtube_publication                                            *)
(***************************************************************************)
\* From refresh-status, retry and refresh_processing_publications.
BeginRefresh(x, p) ==
  /\ Begins(x) /\ p \in Youtube
  /\ pub[p].ext /= 0
  /\ Copies(x, p, "ask", pub[p].status)
  /\ UNCHANGED <<past, pub, remote, points, paused, cancel, used>>

\* Mistake: a video that YouTube has not finished counts as published.
NormalizedOptimist(state) == IF state = "uploaded" THEN "published" ELSE state

\* Mistake: whatever is not published may still be.
NormalizedPatient(state) == IF state = "processed" THEN "published" ELSE "processing"

\* get_youtube_video_status; an exception reads as processing. published says
\* that YouTube has processed the video: its privacy is passed on, never looked
\* at, and is private unless the client asks for another.
Normalized(state) ==
  CASE state = "processed" -> "published"
    [] state = "failed" -> "retryable_failure"
    [] state = "rejected" -> "rejected"
    [] OTHER -> "processing"

Answer(x) ==
  /\ h[x].pc = "ask"
  /\ \/ h' = [h EXCEPT ![x].pc = "answered", ![x].seen = Normalized(remote[h[x].p][h[x].ext])]
        /\ UNCHANGED used
     \/ h' = [h EXCEPT ![x].pc = "answered", ![x].seen = "processing"] /\ Fault
  /\ UNCHANGED <<past, pub, remote, points, paused, cancel>>

SaveAnswer(x) ==
  /\ h[x].pc = "answered" /\ LoopIsFree(x)
  /\ Save(x, h[x].seen, h[x].phase)
  /\ IF pub'[h[x].p].status = "published"
       THEN h' = [h EXCEPT ![x].pc = "points", ![x].status = "published"]
       ELSE End(x)
  /\ UNCHANGED <<past, remote, points, paused, cancel, used>>

Missing(p) == {w \in Windows : points[p][w] = 0}

\* _ensure_publication_checkpoints: a commit for every window that is missing.
AddCheckpoint(x) ==
  LET p == h[x].p
  IN
  /\ h[x].pc = "points"
  /\ IF Missing(p) = {} THEN End(x) /\ UNCHANGED points
     ELSE /\ \E w \in Missing(p) : points' = [points EXCEPT ![p][w] = @ + 1]
          /\ UNCHANGED h
  /\ UNCHANGED <<past, pub, remote, paused, cancel, used>>

(***************************************************************************)
(* retry_publication and cancel_publication                                *)
(***************************************************************************)
\* Mistake: whatever failed may be retried.
RetryableAlways(p) == pub[p].status = "retryable_failure"

Retryable(p) ==
  /\ pub[p].status = "retryable_failure"
  /\ pub[p].ext = 0
  /\ pub[p].phase = "preflight"

Retry(x, p) ==
  /\ Begins(x)
  /\ Retryable(p) /\ Open
  /\ pub' = [pub EXCEPT ![p].status = "prepared"]
  /\ UNCHANGED <<past, remote, points, paused, h, cancel, used>>

\* _refresh_social_publication: an upload that nobody has finished, or that
\* is under way on another handler.
GiveUp(x, p) ==
  /\ Begins(x) /\ p \in Social
  /\ pub[p].status = "uploading"
  /\ pub' = [pub EXCEPT ![p].status = "retryable_failure", ![p].phase = "unknown"]
  /\ UNCHANGED <<past, remote, points, paused, h, cancel, used>>

BeginCancel(p) ==
  /\ p \notin cancel
  /\ pub[p].status \notin {"none", "published"}
  /\ Mishap("cancels")
  /\ cancel' = cancel \cup {p}
  /\ UNCHANGED <<past, pub, remote, points, paused, h>>

\* Only the status is written.
SaveCancel(p) ==
  /\ p \in cancel
  /\ cancel' = cancel \ {p}
  /\ pub' = [pub EXCEPT ![p].status = "cancelled"]
  /\ UNCHANGED <<past, remote, points, paused, h, used>>

(***************************************************************************)
(* download_publication_export, on a pool thread, whatever the row's       *)
(* status: a package that exists is served, otherwise it is made.          *)
(***************************************************************************)
BeginDownload(p) ==
  /\ pub[p].status /= "none" /\ ~pack[p].busy
  /\ Mishap("downloads")
  /\ pack' = [pack EXCEPT ![p] = [busy |-> TRUE, phase |-> pub[p].phase, ext |-> pub[p].ext]]
  /\ UNCHANGED <<again, stale, clicked, pub, remote, points, paused, h, cancel>>

\* Media are fetched, the package is zipped: a missing file raises, a missing
\* thumbnail does not.
PackageFails(p) ==
  /\ pack[p].busy
  /\ Fault
  /\ pack' = [pack EXCEPT ![p] = NoPackage]
  /\ UNCHANGED <<again, stale, clicked, pub, remote, points, paused, h, cancel>>

\* export_asset_id goes into the data column of the copy, which replaces the
\* row's: failure_phase and external_post_id with it.
StorePackage(p) ==
  /\ pack[p].busy
  /\ pack' = [pack EXCEPT ![p] = NoPackage]
  /\ pub' = [pub EXCEPT ![p].phase = pack[p].phase, ![p].ext = pack[p].ext]
  /\ stale' = IF pub' = pub THEN stale ELSE stale \cup {p}
  /\ UNCHANGED <<again, clicked, remote, points, paused, h, cancel, used>>

(***************************************************************************)
(* The provider and the instance.                                          *)
(***************************************************************************)
Processes(p) ==
  /\ \E i \in DOMAIN remote[p] :
       /\ remote[p][i] = "uploaded"
       /\ \E state \in {"processed", "failed", "rejected"} : remote' = [remote EXCEPT ![p][i] = state]
  /\ UNCHANGED <<past, pub, points, paused, h, cancel, used>>

Crash ==
  /\ Mishap("crashes")
  /\ h' = [x \in Handlers |-> NoHandler]
  /\ cancel' = {}
  /\ pack' = [p \in Pubs |-> NoPackage]
  /\ UNCHANGED <<again, stale, clicked, pub, remote, points, paused>>

(***************************************************************************)
(* The system.                                                             *)
(***************************************************************************)
Goes(x) ==
  \/ Post(x) \/ ClickRaises(x) \/ NotPosted(x) \/ SaveFailure(x) \/ SavePosted(x)
  \/ Answer(x) \/ SaveAnswer(x) \/ AddCheckpoint(x)

Refresh(p) == \E x \in Handlers : BeginRefresh(x, p)

Next ==
  \/ \E x \in Handlers : Goes(x)
  \/ \E p \in Pubs : \/ \E x \in Handlers : \/ ConfirmExport(x, p) \/ Confirm(x, p)
                                             \/ ConfirmFails(x, p) \/ SessionUnavailable(x, p)
                                             \/ Retry(x, p) \/ GiveUp(x, p)
                     \/ Prepare(p) \/ Refresh(p)
                     \/ BeginCancel(p) \/ SaveCancel(p) \/ Processes(p)
                     \/ BeginDownload(p) \/ PackageFails(p) \/ StorePackage(p)
  \/ Pause
  \/ Crash

Spec == Init /\ [][Next]_vars

\* Threads return, the loop serves who waits for it, the provider finishes, and
\* the scheduler refreshes what is processing again and again. (The scheduled
\* refresh comes after the feed polls of the same request: it is reached only
\* while none of them raises, see Planning.)
Fairness ==
  /\ \A x \in Handlers : SF_vars(Goes(x))
  /\ \A p \in Pubs : /\ WF_vars(Processes(p)) /\ WF_vars(SaveCancel(p))
                     /\ SF_vars(pub[p].status = "processing" /\ Refresh(p))

FairSpec == Spec /\ Fairness

(***************************************************************************)
(* Properties.                                                             *)
(***************************************************************************)
\* The types of all variables.
TypeOK ==
  /\ pub \in [Pubs -> [platform : Platforms \cup {"none"}, status : Status,
                       phase : {"none", "preflight", "unknown"}, ext : Nat]]
  /\ remote \in [Pubs -> Seq({"uploaded", "processed", "failed", "rejected"})]
  /\ points \in [Pubs -> [Windows -> Nat]]
  /\ paused \in BOOLEAN
  /\ h \in [Handlers -> [pc : Waits \cup {"idle", "points"},
                         p : Pubs \cup {Nobody}, status : Status,
                         phase : {"none", "preflight", "unknown"}, ext : Nat, seen : Status]]
  /\ again \subseteq Pubs /\ cancel \subseteq Pubs /\ stale \subseteq Pubs /\ clicked \subseteq Pubs
  /\ pack \in [Pubs -> [busy : BOOLEAN, phase : {"none", "preflight", "unknown"}, ext : Nat]]
  /\ used \in [faults : Nat, cancels : Nat, downloads : Nat, crashes : Nat]

\* What was not confirmed again after a failure, overwritten by a download, or
\* posted by a click that seemed to fail.
Clean == Pubs \ (again \cup stale \cup clicked)

\* A publication is posted at most once, whatever fails, is retried, refreshed,
\* cancelled or interrupted: what may be public is never uploaded again
\* (retry_publication: "Retry is blocked because the remote upload outcome
\* cannot be verified"); unless the client confirms what has failed once more,
\* which nothing blocks, a download has put an older data column back, or the
\* attempt before was posted by a click that the composer took for a failure:
\* that is stored as preflight, and a retry posts the video a second time.
PostedOnce == \A p \in Clean : Len(remote[p]) <= 1

\* The same of downloads too: while the first attempt is known to be public, or
\* not known not to be, nothing but a repeated confirmation posts the video
\* again.
RetryIsBlocked == \A p \in Pubs \ (again \cup clicked) : Len(remote[p]) <= 1

\* What is reported as published has a post that the provider has finished
\* with, and the row names it: its id is neither lost nor that of another post
\* on the way through uploads, late answers and crashes. (Finished with, not
\* visible: nothing here reads the video's privacy. After a repeated
\* confirmation the row need not name that post: a late answer to a check of the
\* first one writes its id back.)
PublishedNamesItsPost ==
  \A p \in Pubs :
    pub[p].status = "published" =>
      /\ \E i \in DOMAIN remote[p] : remote[p][i] = "processed"
      /\ p \in Clean => pub[p].ext \in DOMAIN remote[p] /\ remote[p][pub[p].ext] = "processed"

\* No publication stays under way for ever: an upload ends in an outcome unless
\* its instance dies, and a YouTube video leaves processing when the provider
\* has decided, after crashes and failed checks too. (A download that puts an
\* older data column back can take the id of the post away.)
AttemptsEnd ==
  \A p \in Pubs :
    /\ pub[p].status = "uploading" ~> pub[p].status /= "uploading" \/ used.crashes > 0
    /\ pub[p].status = "processing" ~> pub[p].status /= "processing" \/ p \in stale
=============================================================================
