------------------------- MODULE Publication_proofs -------------------------
(***************************************************************************)
(* A video is posted once, and a publication that is reported as published *)
(* names a post that its provider has finished with, for any number of     *)
(* publications, handlers, failures and crashes.                           *)
(***************************************************************************)
EXTENDS Publication, SequenceTheorems, TLAPS

USE PublicationAssumption

(***************************************************************************)
(* The invariant.                                                          *)
(***************************************************************************)
Busy(x) == h[x].pc /= "idle"

Posts == {"uploaded", "processed", "failed", "rejected"}

\* The provider has finished with a post of p.
Processed(p) == \E i \in DOMAIN remote[p] : remote[p][i] = "processed"

\* Nothing has been confirmed again, overwritten or posted by a click that
\* seemed to fail.
Fresh(p) == p \notin again \cup stale \cup clicked

\* p can be confirmed without being marked as confirmed again.
Waiting(p) == pub[p].status \in {"none", "prepared"} \/ Retryable(p)

\* A request names its publication.
Named == \A x \in Handlers : Busy(x) => h[x].p \in Pubs

\* Every copy of external_post_id names a post.
IdsNamePosts ==
  /\ \A p \in Pubs : pub[p].ext <= Len(remote[p]) /\ pack[p].ext <= Len(remote[p])
  /\ \A x \in Handlers : Busy(x) => h[x].ext <= Len(remote[h[x].p])

\* Who asks the provider has an id to ask for; who uploads has read a row that
\* said so.
AsksOfPosts ==
  \A x \in Handlers :
    /\ h[x].pc \in {"upload", "unknown", "preflight", "login"} => h[x].status = "uploading"
    /\ h[x].pc \in {"posted", "ask", "answered"} => h[x].ext /= 0
    /\ h[x].pc = "answered" => h[x].seen \in {"published", "retryable_failure", "rejected", "processing"}

\* A row that does not exist yet has neither posts nor handlers.
NoneIsNew ==
  \A p \in Pubs : pub[p].status = "none" =>
    remote[p] = <<>> /\ \A x \in Handlers : Busy(x) => h[x].p /= p

\* What waits for a first confirmation has not been posted and nobody is at it.
WaitingIsUnposted ==
  \A p \in Pubs : Fresh(p) /\ Waiting(p) =>
    remote[p] = <<>> /\ \A x \in Handlers : Busy(x) => h[x].p /= p

\* The handler that uploads, or has found that it cannot, is alone with its
\* publication.
UploaderAlone ==
  \A x \in Handlers : h[x].pc \in {"upload", "preflight", "login"} /\ Fresh(h[x].p) =>
    /\ remote[h[x].p] = <<>>
    /\ \A y \in Handlers \ {x} : Busy(y) => h[y].p /= h[x].p

\* A handler that will report a publication as published has seen it.
ReportsWhatIsSeen ==
  \A x \in Handlers :
    /\ h[x].pc = "answered" /\ h[x].seen = "published" => Processed(h[x].p)
    /\ h[x].pc = "posted" /\ h[x].p \notin Youtube => Processed(h[x].p)

\* Whatever is reported as published, the provider has finished with.
PublishedIsProcessed == \A p \in Pubs : pub[p].status = "published" => Processed(p)

\* And the row has not lost its id.
PublishedHasId == \A p \in Pubs : Fresh(p) /\ pub[p].status = "published" => pub[p].ext /= 0

Inv ==
  /\ Named /\ IdsNamePosts /\ AsksOfPosts /\ NoneIsNew
  /\ WaitingIsUnposted /\ UploaderAlone /\ ReportsWhatIsSeen
  /\ PostedOnce /\ PublishedIsProcessed /\ PublishedHasId

(***************************************************************************)
(* Types.                                                                  *)
(***************************************************************************)
\* What a handler keeps.
Handler ==
  [pc : Waits \cup {"idle", "points"}, p : Pubs \cup {Nobody}, status : Status,
   phase : {"none", "preflight", "unknown"}, ext : Nat, seen : Status]

Row == [platform : Platforms \cup {"none"}, status : Status,
        phase : {"none", "preflight", "unknown"}, ext : Nat]

Used == [faults : Nat, cancels : Nat, downloads : Nat, crashes : Nat]

\* A handler that moves on is still one.
LEMMA GotoType ==
  ASSUME TypeOK, NEW x \in Handlers, NEW pc \in Waits \cup {"points"}, Goto(x, pc)
  PROVE  h' \in [Handlers -> Handler]
<1>1. h[x] \in Handler
  BY DEF TypeOK, Handler
<1>2. [h[x] EXCEPT !.pc = pc] \in Handler
  BY <1>1 DEF Handler
<1>3. QED
  BY <1>2 DEF TypeOK, Goto, Handler

\* So is one that has ended.
LEMMA EndType ==
  ASSUME TypeOK, NEW x \in Handlers, End(x)
  PROVE  h' \in [Handlers -> Handler]
<1>1. NoHandler \in Handler
  BY DEF NoHandler, Handler, Status
<1>2. QED
  BY <1>1 DEF TypeOK, End, Handler

\* So is one that has read a row.
LEMMA CopiesType ==
  ASSUME TypeOK, NEW x \in Handlers, NEW p \in Pubs, NEW pc \in {"upload", "ask"},
         NEW status \in Status, Copies(x, p, pc, status)
  PROVE  h' \in [Handlers -> Handler]
<1>1. pub[p] \in Row
  BY DEF TypeOK, Row
<1>2. [pc |-> pc, p |-> p, status |-> status, phase |-> pub[p].phase, ext |-> pub[p].ext,
       seen |-> "none"] \in Handler
  BY <1>1 DEF Handler, Row, Waits, Status
<1>3. QED
  BY <1>2 DEF TypeOK, Copies, Handler

\* A row that is stored from a handler's copy is still one.
LEMMA SaveType ==
  ASSUME TypeOK, NEW x \in Handlers, h[x].p \in Pubs, NEW status \in Status,
         NEW phase \in {"none", "preflight", "unknown"}, Save(x, status, phase)
  PROVE  pub' \in [Pubs -> Row]
<1>1. pub[h[x].p] \in Row /\ h[x].ext \in Nat /\ Stored(x, status) \in Status
  BY DEF TypeOK, Row, Stored
<1>2. [pub[h[x].p] EXCEPT !.status = Stored(x, status), !.phase = phase, !.ext = h[x].ext] \in Row
  BY <1>1 DEF Row
<1>3. QED
  BY <1>2 DEF Save, TypeOK, Row

\* A row whose status changes is still one.
LEMMA StatusType ==
  ASSUME TypeOK, NEW p \in Pubs, NEW status \in Status,
         pub' = [pub EXCEPT ![p].status = status]
  PROVE  pub' \in [Pubs -> Row]
<1>1. pub[p] \in Row
  BY DEF TypeOK, Row
<1>2. [pub[p] EXCEPT !.status = status] \in Row
  BY <1>1 DEF Row
<1>3. QED
  BY <1>2 DEF TypeOK, Row

\* Failures are counted.
LEMMA FaultType ==
  ASSUME TypeOK, Fault \/ UNCHANGED used
  PROVE  used' \in Used
  BY DEF TypeOK, Fault, Used

\* So are cancels, downloads and crashes.
LEMMA MishapType ==
  ASSUME TypeOK, NEW kind \in {"cancels", "downloads", "crashes"}, Mishap(kind)
  PROVE  used' \in Used
<1>1. used \in Used
  BY DEF TypeOK, Used
<1>2. CASE kind = "cancels"
  BY <1>1, <1>2 DEF Mishap, Used
<1>3. CASE kind = "downloads"
  BY <1>1, <1>3 DEF Mishap, Used
<1>4. CASE kind = "crashes"
  BY <1>1, <1>4 DEF Mishap, Used
<1>5. QED
  BY <1>2, <1>3, <1>4

\* The types hold at first.
LEMMA TypeInit == Init => TypeOK
<1> SUFFICES ASSUME Init PROVE TypeOK
  OBVIOUS
<1>1. remote \in [Pubs -> Seq(Posts)]
  BY EmptySeq DEF Init
<1>2. h \in [Handlers -> Handler]
  BY DEF Init, NoHandler, Handler, Status
<1>3. pub \in [Pubs -> Row]
  BY DEF Init, Row, Status
<1>4. /\ points \in [Pubs -> [Windows -> Nat]]
      /\ pack \in [Pubs -> [busy : BOOLEAN, phase : {"none", "preflight", "unknown"}, ext : Nat]]
  BY DEF Init, NoPackage
<1>5. used \in Used
  BY DEF Init, Used
<1>6. /\ paused \in BOOLEAN /\ again \subseteq Pubs /\ cancel \subseteq Pubs
      /\ stale \subseteq Pubs /\ clicked \subseteq Pubs
  BY DEF Init
<1>7. QED
  BY <1>1, <1>2, <1>3, <1>4, <1>5, <1>6 DEF TypeOK, Handler, Row, Used, Posts

\* Every step keeps the types, because a request names its publication.
LEMMA TypeNext ==
  ASSUME TypeOK, Named, [Next]_vars
  PROVE  TypeOK'
<1> DEFINE Types ==
             /\ pub \in [Pubs -> Row]
             /\ remote \in [Pubs -> Seq(Posts)]
             /\ points \in [Pubs -> [Windows -> Nat]]
             /\ paused \in BOOLEAN
             /\ h \in [Handlers -> Handler]
             /\ again \subseteq Pubs /\ cancel \subseteq Pubs
             /\ stale \subseteq Pubs /\ clicked \subseteq Pubs
             /\ pack \in [Pubs -> [busy : BOOLEAN, phase : {"none", "preflight", "unknown"},
                                   ext : Nat]]
             /\ used \in Used
<1>1. Types' => TypeOK'
  BY DEF TypeOK, Handler, Row, Used, Posts
<1>2. Types
  BY DEF TypeOK, Handler, Row, Used, Posts
<1>3. ASSUME NEW x \in Handlers, Post(x) PROVE TypeOK'
  <2> DEFINE p == h[x].p
  <2>1. p \in Pubs
    BY <1>3 DEF Post, Named, Busy
  <2>2. PICK post \in Posts : remote' = [remote EXCEPT ![p] = Append(@, post)]
    BY <1>3 DEF Post, AddPost, Posts
  <2>3. remote' \in [Pubs -> Seq(Posts)]
    BY <1>2, <2>1, <2>2, AppendProperties
  <2>4. h' \in [Handlers -> Handler] /\ used' \in Used
    <3>1. CASE Goto(x, "unknown") /\ Fault
      BY <3>1, GotoType, FaultType DEF Waits
    <3>2. CASE h' = [h EXCEPT ![x].pc = "posted", ![x].ext = Len(remote'[p])] /\ UNCHANGED used
      <4>1. Len(remote'[p]) \in Nat
        BY <2>1, <2>3, LenProperties
      <4>2. h[x] \in Handler
        BY <1>2
      <4>3. [h[x] EXCEPT !.pc = "posted", !.ext = Len(remote'[p])] \in Handler
        BY <4>1, <4>2 DEF Handler, Waits
      <4>4. h' = [h EXCEPT ![x] = [h[x] EXCEPT !.pc = "posted", !.ext = Len(remote'[p])]]
        BY <3>2
      <4>5. QED
        BY <1>2, <3>2, <4>3, <4>4
    <3>3. QED
      BY <1>3, <3>1, <3>2 DEF Post
  <2>5. QED
    BY <1>1, <1>2, <1>3, <2>3, <2>4 DEF Post, past
<1>30. ASSUME NEW x \in Handlers, ClickRaises(x) PROVE TypeOK'
  <2> DEFINE p == h[x].p
  <2>1. p \in Pubs
    BY <1>30 DEF ClickRaises, Named, Busy
  <2>2. PICK post \in Posts : remote' = [remote EXCEPT ![p] = Append(@, post)]
    BY <1>30 DEF ClickRaises, AddPost, Posts
  <2>3. remote' \in [Pubs -> Seq(Posts)]
    BY <1>2, <2>1, <2>2, AppendProperties
  <2>4. h' \in [Handlers -> Handler] /\ used' \in Used
    BY <1>30, GotoType, FaultType DEF ClickRaises, Waits
  <2>5. clicked' \subseteq Pubs
    BY <1>2, <1>30, <2>1 DEF ClickRaises
  <2>6. QED
    BY <1>1, <1>2, <1>30, <2>3, <2>4, <2>5 DEF ClickRaises
<1>4. ASSUME NEW x \in Handlers, NotPosted(x) PROVE TypeOK'
  <2>1. PICK pc \in {"unknown", "preflight", "login"} : Goto(x, pc)
    BY <1>4 DEF NotPosted, Failure, ComposerFails
  <2>2. QED
    BY <1>1, <1>2, <1>4, <2>1, GotoType, FaultType DEF NotPosted, past, Waits
<1>5. ASSUME NEW x \in Handlers, SaveFailure(x) PROVE TypeOK'
  <2>1. h[x].p \in Pubs /\ h[x].phase \in {"none", "preflight", "unknown"}
    BY <1>2, <1>5 DEF SaveFailure, Named, Busy, Handler
  <2>2. pub' \in [Pubs -> Row]
    <3>1. CASE h[x].pc = "login"
      BY <1>5, <2>1, <3>1, SaveType DEF SaveFailure, Status
    <3>2. CASE h[x].pc /= "login"
      <4>1. h[x].pc \in {"unknown", "preflight"} /\ Save(x, "retryable_failure", h[x].pc)
        BY <1>5, <3>2 DEF SaveFailure
      <4>2. QED
        BY <2>1, <4>1, SaveType DEF Status
    <3>3. QED
      BY <3>1, <3>2
  <2>3. QED
    BY <1>1, <1>2, <1>5, <2>2, EndType DEF SaveFailure, past
<1>6. ASSUME NEW x \in Handlers, SavePosted(x) PROVE TypeOK'
  <2> DEFINE p == h[x].p
             status == IF p \in Youtube THEN "processing" ELSE "published"
             pc == IF p \in Youtube THEN "ask" ELSE "points"
  <2>1. p \in Pubs
    BY <1>6 DEF SavePosted, Named, Busy
  <2>2. pub[p] \in Row /\ h[x] \in Handler /\ status \in Status /\ pc \in Waits \cup {"points"}
    BY <1>2, <2>1 DEF Status, Waits
  <2>3. [pub[p] EXCEPT !.status = status, !.phase = h[x].phase, !.ext = h[x].ext] \in Row
    BY <2>2 DEF Row, Handler
  <2>4. pub' \in [Pubs -> Row]
    BY <1>2, <1>6, <2>1, <2>3 DEF SavePosted
  <2>5. [h[x] EXCEPT !.status = status, !.pc = pc] \in Handler
    BY <2>2 DEF Handler
  <2>6. h' = [h EXCEPT ![x] = [h[x] EXCEPT !.status = status, !.pc = pc]]
    BY <1>6 DEF SavePosted
  <2>7. QED
    BY <1>1, <1>2, <1>6, <2>4, <2>5, <2>6 DEF SavePosted, past
<1>7. ASSUME NEW x \in Handlers, Answer(x) PROVE TypeOK'
  <2>1. PICK seen \in Status : h' = [h EXCEPT ![x].pc = "answered", ![x].seen = seen]
    BY <1>7 DEF Answer, Normalized, Status
  <2>2. h[x] \in Handler
    BY <1>2
  <2>3. [h[x] EXCEPT !.pc = "answered", !.seen = seen] \in Handler
    BY <2>2 DEF Handler, Waits
  <2>4. h' = [h EXCEPT ![x] = [h[x] EXCEPT !.pc = "answered", !.seen = seen]]
    BY <2>1
  <2>5. QED
    BY <1>1, <1>2, <1>7, <2>3, <2>4, FaultType DEF Answer, past
<1>8. ASSUME NEW x \in Handlers, SaveAnswer(x) PROVE TypeOK'
  <2>1. h[x].p \in Pubs /\ h[x] \in Handler
    BY <1>2, <1>8 DEF SaveAnswer, Named, Busy
  <2>2. pub' \in [Pubs -> Row]
    BY <1>8, <2>1, SaveType DEF SaveAnswer, Handler
  <2>3. h' \in [Handlers -> Handler]
    <3>1. CASE End(x)
      BY <3>1, EndType
    <3>2. CASE h' = [h EXCEPT ![x].pc = "points", ![x].status = "published"]
      <4>1. [h[x] EXCEPT !.pc = "points", !.status = "published"] \in Handler
        BY <2>1 DEF Handler, Status
      <4>2. h' = [h EXCEPT ![x] = [h[x] EXCEPT !.pc = "points", !.status = "published"]]
        BY <3>2
      <4>3. QED
        BY <1>2, <4>1, <4>2
    <3>3. QED
      BY <1>8, <3>1, <3>2 DEF SaveAnswer
  <2>4. QED
    BY <1>1, <1>2, <1>8, <2>2, <2>3 DEF SaveAnswer, past
<1>9. ASSUME NEW x \in Handlers, AddCheckpoint(x) PROVE TypeOK'
  <2>1. h' \in [Handlers -> Handler]
    BY <1>2, <1>9, EndType DEF AddCheckpoint
  <2>2. points' \in [Pubs -> [Windows -> Nat]]
    <3>1. CASE UNCHANGED points
      BY <1>2, <3>1
    <3>2. ASSUME NEW w \in Windows, points' = [points EXCEPT ![h[x].p][w] = @ + 1]
          PROVE  points' \in [Pubs -> [Windows -> Nat]]
      <4>1. h[x].p \in Pubs
        BY <1>9 DEF AddCheckpoint, Named, Busy
      <4>2. QED
        BY <1>2, <3>2, <4>1
    <3>3. QED
      BY <1>9, <3>1, <3>2 DEF AddCheckpoint, Missing
  <2>3. QED
    BY <1>1, <1>2, <1>9, <2>1, <2>2 DEF AddCheckpoint, past
<1>10. ASSUME NEW x \in Handlers, NEW p \in Pubs, ConfirmExport(x, p) \/ Retry(x, p) PROVE TypeOK'
  <2>1. PICK status \in Status : pub' = [pub EXCEPT ![p].status = status]
    BY <1>10 DEF ConfirmExport, Retry, Status
  <2>2. QED
    BY <1>1, <1>2, <1>10, <2>1, StatusType DEF ConfirmExport, Retry, past
<1>11. ASSUME NEW x \in Handlers, NEW p \in Pubs, Confirm(x, p) PROVE TypeOK'
  <2>1. pub' \in [Pubs -> Row]
    BY <1>11, StatusType DEF Confirm, Status
  <2>2. h' \in [Handlers -> Handler]
    BY <1>11, CopiesType DEF Confirm, Upload, Status
  <2>3. again' \subseteq Pubs
    BY <1>2, <1>11 DEF Confirm, Repeats
  <2>4. QED
    BY <1>1, <1>2, <1>11, <2>1, <2>2, <2>3 DEF Confirm
<1>12. ASSUME NEW x \in Handlers, NEW p \in Pubs,
              ConfirmFails(x, p) \/ SessionUnavailable(x, p) PROVE TypeOK'
  <2>1. pub' \in [Pubs -> Row]
    <3>1. CASE ConfirmFails(x, p)
      <4>1. pub[p] \in Row
        BY <1>2
      <4>2. [pub[p] EXCEPT !.status = "retryable_failure", !.phase = "preflight"] \in Row
        BY <4>1 DEF Row, Status
      <4>3. pub' = [pub EXCEPT ![p] = [pub[p] EXCEPT !.status = "retryable_failure", !.phase = "preflight"]]
        BY <3>1 DEF ConfirmFails
      <4>4. QED
        BY <1>2, <4>2, <4>3
    <3>2. CASE SessionUnavailable(x, p)
      BY <3>2, StatusType DEF SessionUnavailable, Status
    <3>3. QED
      BY <1>12, <3>1, <3>2
  <2>2. again' \subseteq Pubs
    BY <1>2, <1>12 DEF ConfirmFails, SessionUnavailable, Repeats
  <2>3. QED
    BY <1>1, <1>2, <1>12, <2>1, <2>2, FaultType DEF ConfirmFails, SessionUnavailable
<1>13. ASSUME NEW x \in Handlers, NEW p \in Pubs, GiveUp(x, p) PROVE TypeOK'
  <2>1. pub[p] \in Row
    BY <1>2
  <2>2. [pub[p] EXCEPT !.status = "retryable_failure", !.phase = "unknown"] \in Row
    BY <2>1 DEF Row, Status
  <2>3. pub' = [pub EXCEPT ![p] = [pub[p] EXCEPT !.status = "retryable_failure", !.phase = "unknown"]]
    BY <1>13 DEF GiveUp
  <2>4. QED
    BY <1>1, <1>2, <1>13, <2>2, <2>3 DEF GiveUp, past
<1>14. ASSUME NEW p \in Pubs, Prepare(p) PROVE TypeOK'
  <2>1. PICK platform \in Platforms :
          pub' = [pub EXCEPT ![p].platform = platform, ![p].status = "prepared"]
    BY <1>14 DEF Prepare
  <2>2. pub[p] \in Row
    BY <1>2
  <2>3. [pub[p] EXCEPT !.platform = platform, !.status = "prepared"] \in Row
    BY <2>2 DEF Row, Status
  <2>4. pub' = [pub EXCEPT ![p] = [pub[p] EXCEPT !.platform = platform, !.status = "prepared"]]
    BY <2>1
  <2>5. QED
    BY <1>1, <1>2, <1>14, <2>3, <2>4 DEF Prepare, past
<1>15. ASSUME NEW x \in Handlers, NEW p \in Pubs, BeginRefresh(x, p) PROVE TypeOK'
  <2>1. pub[p].status \in Status
    BY <1>2 DEF Row
  <2>2. h' \in [Handlers -> Handler]
    BY <1>15, <2>1, CopiesType DEF BeginRefresh
  <2>3. QED
    BY <1>1, <1>2, <1>15, <2>2 DEF BeginRefresh, past
<1>16. ASSUME NEW p \in Pubs, BeginCancel(p) PROVE TypeOK'
  BY <1>1, <1>2, <1>16, MishapType DEF BeginCancel, past
<1>17. ASSUME NEW p \in Pubs, SaveCancel(p) PROVE TypeOK'
  BY <1>1, <1>2, <1>17, StatusType DEF SaveCancel, past, Status
<1>18. ASSUME NEW p \in Pubs, Processes(p) PROVE TypeOK'
  <2>1. PICK i \in DOMAIN remote[p], state \in Posts : remote' = [remote EXCEPT ![p][i] = state]
    BY <1>18 DEF Processes, Posts
  <2>2. remote[p] \in Seq(Posts) /\ i \in 1..Len(remote[p])
    BY <1>2, <2>1, LenProperties
  <2>3. [remote[p] EXCEPT ![i] = state] \in Seq(Posts)
    BY <2>2, ExceptSeq
  <2>4. remote' = [remote EXCEPT ![p] = [remote[p] EXCEPT ![i] = state]]
    BY <2>1
  <2>5. QED
    BY <1>1, <1>2, <1>18, <2>3, <2>4 DEF Processes, past
<1>19. ASSUME NEW p \in Pubs, BeginDownload(p) \/ PackageFails(p) PROVE TypeOK'
  <2>1. pack' \in [Pubs -> [busy : BOOLEAN, phase : {"none", "preflight", "unknown"}, ext : Nat]]
    <3>1. pub[p] \in Row
      BY <1>2
    <3>2. CASE BeginDownload(p)
      <4>1. [busy |-> TRUE, phase |-> pub[p].phase, ext |-> pub[p].ext]
              \in [busy : BOOLEAN, phase : {"none", "preflight", "unknown"}, ext : Nat]
        BY <3>1 DEF Row
      <4>2. QED
        BY <1>2, <3>2, <4>1 DEF BeginDownload
    <3>3. CASE PackageFails(p)
      BY <1>2, <3>3 DEF PackageFails, NoPackage
    <3>4. QED
      BY <1>19, <3>2, <3>3
  <2>2. used' \in Used
    BY <1>19, MishapType, FaultType DEF BeginDownload, PackageFails
  <2>3. QED
    BY <1>1, <1>2, <1>19, <2>1, <2>2 DEF BeginDownload, PackageFails
<1>20. ASSUME NEW p \in Pubs, StorePackage(p) PROVE TypeOK'
  <2>1. pub[p] \in Row /\ pack[p].phase \in {"none", "preflight", "unknown"} /\ pack[p].ext \in Nat
    BY <1>2
  <2>2. [pub[p] EXCEPT !.phase = pack[p].phase, !.ext = pack[p].ext] \in Row
    BY <2>1 DEF Row
  <2>3. pub' = [pub EXCEPT ![p] = [pub[p] EXCEPT !.phase = pack[p].phase, !.ext = pack[p].ext]]
    BY <1>20 DEF StorePackage
  <2>4. pack' \in [Pubs -> [busy : BOOLEAN, phase : {"none", "preflight", "unknown"}, ext : Nat]]
    BY <1>2, <1>20 DEF StorePackage, NoPackage
  <2>5. stale' \subseteq Pubs
    BY <1>2, <1>20 DEF StorePackage
  <2>6. QED
    BY <1>1, <1>2, <1>20, <2>2, <2>3, <2>4, <2>5 DEF StorePackage
<1>21. CASE Pause
  BY <1>1, <1>2, <1>21 DEF Pause, past
<1>22. CASE Crash
  <2>1. h' \in [Handlers -> Handler]
    BY <1>22 DEF Crash, NoHandler, Handler, Status
  <2>2. pack' \in [Pubs -> [busy : BOOLEAN, phase : {"none", "preflight", "unknown"}, ext : Nat]]
    BY <1>22 DEF Crash, NoPackage
  <2>3. QED
    BY <1>1, <1>2, <1>22, <2>1, <2>2, MishapType DEF Crash
<1>23. CASE UNCHANGED vars
  BY <1>1, <1>2, <1>23 DEF vars, past
<1>24. QED
  BY <1>3, <1>30, <1>4, <1>5, <1>6, <1>7, <1>8, <1>9, <1>10, <1>11, <1>12, <1>13, <1>14, <1>15,
     <1>16,
     <1>17, <1>18, <1>19, <1>20, <1>21, <1>22, <1>23
     DEF Next, Goes, Refresh

(***************************************************************************)
(* Steps without a new post.                                               *)
(***************************************************************************)
\* Only x has moved.
Moved(x) == h' \in [Handlers -> Handler] /\ \A y \in Handlers \ {x} : h'[y] = h[y]

\* What has been touched stays so.
Marked == again \subseteq again' /\ stale \subseteq stale' /\ clicked \subseteq clicked'

\* No handler moves: requests that answer at once, cancels, downloads.
LEMMA Still ==
  ASSUME TypeOK, TypeOK', Inv, UNCHANGED <<h, remote>>, Marked,
         \A p \in Pubs :
           /\ pub'[p].ext <= Len(remote[p]) /\ pack'[p].ext <= Len(remote[p])
           /\ pub'[p].status = "none" => pub[p].status = "none"
           /\ pub'[p].platform /= pub[p].platform => pub[p].status = "none"
           /\ pub'[p].status = "published" => pub[p].status = "published"
           /\ Fresh(p)' /\ pub'[p].status = "published" => Fresh(p) /\ pub'[p].ext = pub[p].ext
           /\ Fresh(p)' /\ Waiting(p)' => Fresh(p) /\ Waiting(p)
  PROVE  Inv'
<1>1. Named' /\ AsksOfPosts'
  BY DEF Inv, Named, AsksOfPosts, Busy
<1>2. IdsNamePosts'
  BY DEF Inv, IdsNamePosts, Busy
<1>3. NoneIsNew'
  BY DEF Inv, NoneIsNew, Busy
<1>4. WaitingIsUnposted'
  BY DEF Inv, WaitingIsUnposted, Busy
<1>5. UploaderAlone'
  BY DEF Inv, UploaderAlone, Busy, Fresh, Marked
<1>6. ReportsWhatIsSeen'
  <2>1. \A x \in Handlers : Busy(x) => (h[x].p \in Youtube' <=> h[x].p \in Youtube)
    BY DEF Inv, NoneIsNew, Named, Youtube
  <2>2. QED
    BY <2>1 DEF Inv, ReportsWhatIsSeen, Processed, Busy
<1>7. PostedOnce'
  BY DEF Inv, PostedOnce, Clean, Marked
<1>8. PublishedIsProcessed'
  BY DEF Inv, PublishedIsProcessed, Processed
<1>9. PublishedHasId'
  BY DEF Inv, PublishedHasId
<1>10. QED
  BY <1>1, <1>2, <1>3, <1>4, <1>5, <1>6, <1>7, <1>8, <1>9 DEF Inv

\* A handler moves, with its publication p.
LEMMA Step ==
  ASSUME TypeOK, TypeOK', Inv, NEW x \in Handlers, NEW p \in Pubs,
         Moved(x), UNCHANGED <<remote, pack>>, Marked,
         \A q \in Pubs \ {p} : pub'[q] = pub[q],
         pub'[p].platform = pub[p].platform,
         pub'[p].ext <= Len(remote[p]),
         pub'[p].status = "none" => pub[p].status = "none" /\ h'[x].pc = "idle",
         pub'[p].status = "published" => pub[p].status = "published" \/ Processed(p),
         Fresh(p)' /\ pub'[p].status = "published" => pub'[p].ext /= 0,
         h'[x].pc \in {"upload", "unknown", "preflight", "login"} => h'[x].status = "uploading",
         Fresh(p)' /\ Waiting(p)' =>
           /\ remote[p] = <<>> /\ h'[x].pc = "idle"
           /\ \A y \in Handlers \ {x} : Busy(y) => h[y].p /= p,
         h'[x].pc /= "idle" =>
           /\ h'[x].p = p /\ h'[x].ext <= Len(remote[p])
           /\ \/ Busy(x) /\ h[x].p = p
              \/ remote[p] /= <<>>
              \/ \A y \in Handlers \ {x} : Busy(y) => h[y].p /= p
              \/ ~Fresh(p)',
         h'[x].pc \in {"posted", "ask", "answered"} => h'[x].ext /= 0,
         h'[x].pc = "answered" =>
           h'[x].seen \in {"published", "retryable_failure", "rejected", "processing"},
         h'[x].pc \in {"upload", "preflight", "login"} /\ Fresh(p)' =>
           /\ remote[p] = <<>>
           /\ \A y \in Handlers \ {x} : Busy(y) => h[y].p /= p,
         h'[x].pc = "answered" /\ h'[x].seen = "published" => Processed(p),
         h'[x].pc /= "posted"
  PROVE  Inv'
<1>1. Named'
  BY DEF Inv, Named, Busy, Moved
<1>2. IdsNamePosts'
  BY DEF Inv, IdsNamePosts, Busy, Moved
<1>3. AsksOfPosts'
  BY DEF Inv, AsksOfPosts, Moved
<1>4. NoneIsNew'
  BY DEF Inv, NoneIsNew, Busy, Moved
<1>5. WaitingIsUnposted'
  <2>1. ASSUME NEW q \in Pubs \ {p}, Fresh(q)', Waiting(q)'
        PROVE  remote'[q] = <<>> /\ \A y \in Handlers : Busy(y)' => h'[y].p /= q
    <3>1. Fresh(q) /\ Waiting(q)
      BY <2>1 DEF Fresh, Marked, Waiting, Retryable
    <3>2. QED
      BY <3>1 DEF Inv, WaitingIsUnposted, Busy, Moved
  <2>2. ASSUME Fresh(p)', Waiting(p)'
        PROVE  remote'[p] = <<>> /\ \A y \in Handlers : Busy(y)' => h'[y].p /= p
    BY <2>2 DEF Busy, Moved
  <2>3. QED
    BY <2>1, <2>2 DEF WaitingIsUnposted
<1>6. UploaderAlone'
  <2> SUFFICES ASSUME NEW y \in Handlers, h'[y].pc \in {"upload", "preflight", "login"},
                      Fresh(h[y].p)'
               PROVE  /\ remote'[h'[y].p] = <<>>
                      /\ \A z \in Handlers \ {y} : Busy(z)' => h'[z].p /= h'[y].p
    BY DEF UploaderAlone
  <2>1. CASE y = x
    BY <2>1 DEF Busy, Moved
  <2>2. CASE y /= x
    <3>1. /\ h'[y] = h[y] /\ Fresh(h[y].p)
          /\ remote[h[y].p] = <<>>
          /\ \A z \in Handlers \ {y} : Busy(z) => h[z].p /= h[y].p
      BY <2>2 DEF Moved, Inv, UploaderAlone, Fresh, Marked
    <3>2. Busy(y)
      BY <3>1 DEF Busy
    <3>3. Busy(x)' => h'[x].p /= h[y].p
      BY <2>2, <3>1, <3>2 DEF Busy
    <3>4. QED
      BY <3>1, <3>3 DEF Busy, Moved
  <2>3. QED
    BY <2>1, <2>2
<1>7. ReportsWhatIsSeen'
  <2>1. Youtube' = Youtube
    BY DEF Youtube
  <2>2. QED
    BY <2>1 DEF Inv, ReportsWhatIsSeen, Processed, Moved
<1>8. PostedOnce'
  BY DEF Inv, PostedOnce, Clean, Marked
<1>9. PublishedIsProcessed'
  BY DEF Inv, PublishedIsProcessed, Processed
<1>10. PublishedHasId'
  <2>1. ASSUME NEW q \in Pubs \ {p}, Fresh(q)', pub'[q].status = "published" PROVE pub'[q].ext /= 0
    BY <2>1 DEF Inv, PublishedHasId, Fresh, Marked
  <2>2. QED
    BY <2>1 DEF PublishedHasId
<1>11. QED
  BY <1>1, <1>2, <1>3, <1>4, <1>5, <1>6, <1>7, <1>8, <1>9, <1>10 DEF Inv

(***************************************************************************)
(* Each action.                                                            *)
(***************************************************************************)
\* Nothing has been asked for.
LEMMA InvInit == Init => Inv
  BY EmptySeq
     DEF Init, Inv, Named, IdsNamePosts, AsksOfPosts, NoneIsNew, WaitingIsUnposted, UploaderAlone,
         ReportsWhatIsSeen, PostedOnce, Clean, Fresh, PublishedIsProcessed, PublishedHasId,
         NoHandler, NoPackage, Busy

\* A length is a number, and 0 for a publication without posts alone.
LEMMA Lengths ==
  ASSUME TypeOK, NEW p \in Pubs
  PROVE  /\ Len(remote[p]) \in Nat
         /\ remote[p] = <<>> => Len(remote[p]) = 0
         /\ remote[p] /= <<>> => Len(remote[p]) /= 0
<1>1. remote[p] \in Seq(Posts)
  BY DEF TypeOK, Posts
<1>2. QED
  BY <1>1, EmptySeq, LenProperties

\* Requests that answer at once.
LEMMA RequestInv ==
  ASSUME TypeOK, TypeOK', Inv, NEW x, NEW p \in Pubs,
         \/ ConfirmExport(x, p) \/ ConfirmFails(x, p) \/ SessionUnavailable(x, p)
         \/ Retry(x, p) \/ GiveUp(x, p) \/ Prepare(p) \/ SaveCancel(p)
  PROVE  Inv'
<1>1. UNCHANGED <<h, remote, pack>> /\ Marked
  BY DEF ConfirmExport, ConfirmFails, SessionUnavailable, Retry, GiveUp, Prepare, SaveCancel, past,
         Repeats, Marked
<1>2. \A q \in Pubs \ {p} : pub'[q] = pub[q] /\ (Fresh(q)' => Fresh(q))
  BY <1>1 DEF ConfirmExport, ConfirmFails, SessionUnavailable, Retry, GiveUp, Prepare, SaveCancel,
         TypeOK, Fresh, Marked
<1>3. /\ pub'[p].ext = pub[p].ext
      /\ pub'[p].status \notin {"none", "published"}
      /\ pub'[p].platform /= pub[p].platform => pub[p].status = "none"
  <2>1. CASE \E status \in Status \ {"none", "published"} : pub' = [pub EXCEPT ![p].status = status]
    BY <2>1 DEF TypeOK
  <2>2. CASE ConfirmFails(x, p)
    BY <2>2 DEF ConfirmFails, TypeOK
  <2>3. CASE GiveUp(x, p)
    BY <2>3 DEF GiveUp, TypeOK
  <2>4. CASE Prepare(p)
    <3>1. PICK platform \in Platforms :
            pub' = [pub EXCEPT ![p].platform = platform, ![p].status = "prepared"]
      BY <2>4 DEF Prepare
    <3>2. pub' = [pub EXCEPT ![p] = [pub[p] EXCEPT !.platform = platform, !.status = "prepared"]]
      BY <3>1
    <3>3. pub'[p] = [pub[p] EXCEPT !.platform = platform, !.status = "prepared"]
      BY <3>2 DEF TypeOK
    <3>4. pub[p] \in Row /\ pub[p].status = "none"
      BY <2>4 DEF Prepare, TypeOK, Row
    <3>5. QED
      BY <3>3, <3>4 DEF Row
  <2>5. QED
    BY <2>1, <2>2, <2>3, <2>4 DEF ConfirmExport, SessionUnavailable, Retry, SaveCancel, Status
<1>4. Fresh(p)' /\ Waiting(p)' => Fresh(p) /\ Waiting(p)
  <2>1. Fresh(p)' => Fresh(p)
    BY <1>1 DEF Fresh, Marked
  <2>2. CASE ConfirmExport(x, p)
    BY <2>1, <2>2 DEF ConfirmExport, Waiting, Retryable, TypeOK
  <2>3. CASE ConfirmFails(x, p)
    BY <2>1, <2>3 DEF ConfirmFails, Repeats, Fresh, Waiting, TypeOK
  <2>4. CASE SessionUnavailable(x, p)
    BY <2>1, <2>4 DEF SessionUnavailable, Waiting, Retryable, TypeOK
  <2>5. CASE Retry(x, p)
    BY <2>1, <2>5 DEF Retry, Waiting
  <2>6. CASE GiveUp(x, p)
    BY <2>1, <2>6 DEF GiveUp, Waiting, Retryable, TypeOK
  <2>7. CASE Prepare(p)
    BY <2>1, <2>7 DEF Prepare, Waiting
  <2>8. CASE SaveCancel(p)
    BY <2>1, <2>8 DEF SaveCancel, Waiting, Retryable, TypeOK
  <2>9. QED
    BY <2>2, <2>3, <2>4, <2>5, <2>6, <2>7, <2>8
<1>5. \A q \in Pubs \ {p} : Fresh(q)' /\ Waiting(q)' => Fresh(q) /\ Waiting(q)
  BY <1>2 DEF Waiting, Retryable
<1>6. \A q \in Pubs : pub[q].ext <= Len(remote[q]) /\ pack[q].ext <= Len(remote[q])
  BY DEF Inv, IdsNamePosts
<1>7. \A q \in Pubs : Fresh(q)' /\ pub'[q].status = "published" => Fresh(q) /\ pub'[q].ext = pub[q].ext
  BY <1>2, <1>3
<1>8. QED
  BY <1>1, <1>2, <1>3, <1>4, <1>5, <1>6, <1>7, Still

\* Downloads: what changes the row marks it.
LEMMA DownloadInv ==
  ASSUME TypeOK, TypeOK', Inv, NEW p \in Pubs,
         BeginDownload(p) \/ PackageFails(p) \/ StorePackage(p)
  PROVE  Inv'
<1>1. UNCHANGED <<h, remote>> /\ Marked
  BY DEF BeginDownload, PackageFails, StorePackage, Marked
<1>2. \A q \in Pubs : pub[q].ext <= Len(remote[q]) /\ pack[q].ext <= Len(remote[q])
  BY DEF Inv, IdsNamePosts
<1>3. \A q \in Pubs : pub'[q].ext <= Len(remote[q]) /\ pack'[q].ext <= Len(remote[q])
  <2>1. CASE BeginDownload(p)
    BY <1>2, <2>1 DEF BeginDownload, TypeOK
  <2>2. CASE PackageFails(p)
    BY <1>2, <2>2, Lengths DEF PackageFails, NoPackage, TypeOK
  <2>3. CASE StorePackage(p)
    BY <1>2, <2>3, Lengths DEF StorePackage, NoPackage, TypeOK
  <2>4. QED
    BY <2>1, <2>2, <2>3
<1>4. pub \in [Pubs -> Row]
  BY DEF TypeOK, Row
<1>5. UNCHANGED pub \/ pub' = [pub EXCEPT ![p].phase = pack[p].phase, ![p].ext = pack[p].ext]
  BY DEF BeginDownload, PackageFails, StorePackage
<1>6. \A q \in Pubs : pub'[q].status = pub[q].status /\ pub'[q].platform = pub[q].platform
  BY <1>4, <1>5 DEF Row
<1>7. UNCHANGED <<pub, again, stale, clicked>>
      \/ /\ \A q \in Pubs \ {p} : pub'[q] = pub[q]
         /\ again' = again /\ clicked' = clicked /\ stale' = IF pub' = pub THEN stale ELSE stale \cup {p}
  BY <1>4 DEF BeginDownload, PackageFails, StorePackage, Row
<1>8. \A q \in Pubs : Fresh(q)' => Fresh(q) /\ pub'[q] = pub[q]
  BY <1>7 DEF Fresh
<1>9. \A q \in Pubs : Fresh(q)' /\ Waiting(q)' => Fresh(q) /\ Waiting(q)
  BY <1>8 DEF Waiting, Retryable
<1>10. QED
  BY <1>1, <1>3, <1>6, <1>8, <1>9, Still

\* The first confirmation finds the publication unposted and alone.
LEMMA ConfirmInv ==
  ASSUME TypeOK, TypeOK', Inv, NEW x \in Handlers, NEW p \in Pubs, Confirm(x, p)
  PROVE  Inv'
<1>1. Moved(x) /\ UNCHANGED <<remote, pack>> /\ Marked
  BY DEF Confirm, Upload, Copies, Repeats, Marked, Moved, TypeOK, Handler
<1>2. /\ \A q \in Pubs \ {p} : pub'[q] = pub[q]
      /\ pub'[p].platform = pub[p].platform
      /\ pub'[p].ext = pub[p].ext
      /\ pub'[p].status = "uploading"
  BY DEF Confirm, TypeOK
<1>3. /\ h'[x].pc = "upload" /\ h'[x].p = p /\ h'[x].ext = pub[p].ext /\ h[x].pc = "idle"
      /\ h'[x].status = "uploading"
  BY DEF Confirm, Upload, Copies, Begins, TypeOK
<1>4. pub[p].ext <= Len(remote[p])
  BY DEF Inv, IdsNamePosts
<1>5. ~Waiting(p)'
  BY <1>2 DEF Waiting, Retryable
<1>6. Fresh(p)' => remote[p] = <<>> /\ \A y \in Handlers \ {x} : Busy(y) => h[y].p /= p
  <2>1. CASE pub[p].status = "prepared"
    BY <1>1, <2>1 DEF Inv, WaitingIsUnposted, Waiting, Fresh, Marked
  <2>2. CASE pub[p].status /= "prepared"
    BY <2>2 DEF Confirm, Repeats, Fresh
  <2>3. QED
    BY <2>1, <2>2
<1>7. QED
  BY <1>1, <1>2, <1>3, <1>4, <1>5, <1>6, Step

\* A check of the status is about a post.
LEMMA BeginRefreshInv ==
  ASSUME TypeOK, TypeOK', Inv, NEW x \in Handlers, NEW p \in Pubs, BeginRefresh(x, p)
  PROVE  Inv'
<1>1. Moved(x) /\ UNCHANGED <<remote, pack, pub>> /\ Marked
  BY DEF BeginRefresh, Copies, past, Marked, Moved, TypeOK, Handler
<1>2. h'[x].pc = "ask" /\ h'[x].p = p /\ h'[x].ext = pub[p].ext /\ h[x].pc = "idle"
  BY DEF BeginRefresh, Copies, Begins, TypeOK
<1>3. pub[p].ext <= Len(remote[p]) /\ pub[p].ext /= 0 /\ pub[p].ext \in Nat
  BY DEF Inv, IdsNamePosts, BeginRefresh, TypeOK
<1>4. remote[p] /= <<>>
  BY <1>3, Lengths
<1>5. Fresh(p) => ~Waiting(p)
  BY <1>4 DEF Inv, WaitingIsUnposted
<1>6. ~(Fresh(p)' /\ Waiting(p)') /\ pub'[p].status /= "none"
  BY <1>1, <1>4, <1>5 DEF Fresh, Marked, Waiting, Retryable, Inv, NoneIsNew
<1>7. pub'[p].ext /= 0
  BY <1>1, <1>3
<1>8. QED
  BY <1>1, <1>2, <1>3, <1>4, <1>6, <1>7, Step

\* What a busy handler knows of its publication.
LEMMA BusyFacts ==
  ASSUME TypeOK, Inv, NEW x \in Handlers, Busy(x)
  PROVE  /\ h[x].p \in Pubs
         /\ h[x].ext \in Nat /\ h[x].ext <= Len(remote[h[x].p])
         /\ pub[h[x].p].status /= "none"
         /\ pub[h[x].p].ext <= Len(remote[h[x].p])
         /\ Fresh(h[x].p) => ~Waiting(h[x].p)
         /\ h[x].pc \in {"posted", "ask", "answered"} => remote[h[x].p] /= <<>>
<1>1. h[x].p \in Pubs /\ h[x].ext \in Nat /\ h[x].ext <= Len(remote[h[x].p])
  BY DEF Inv, Named, IdsNamePosts, TypeOK
<1>2. h[x].pc \in {"posted", "ask", "answered"} => remote[h[x].p] /= <<>>
  BY <1>1, Lengths DEF Inv, AsksOfPosts
<1>3. QED
  BY <1>1, <1>2 DEF Inv, NoneIsNew, WaitingIsUnposted, IdsNamePosts

\* A handler that asks is answered about a post that is there.
LEMMA AnswerInv ==
  ASSUME TypeOK, TypeOK', Inv, NEW x \in Handlers, NEW p, p = h[x].p, Answer(x)
  PROVE  Inv'
<1>1. /\ Busy(x) /\ p \in Pubs /\ remote[p] /= <<>>
      /\ h[x].ext \in 1..Len(remote[p])
      /\ pub[p].status /= "none" /\ pub[p].ext <= Len(remote[p])
      /\ Fresh(p) => ~Waiting(p)
  BY BusyFacts, Lengths DEF Answer, Busy, Inv, AsksOfPosts
<1>2. Moved(x) /\ UNCHANGED <<remote, pack, pub>> /\ Marked
  BY DEF Answer, past, Marked, Moved, TypeOK, Handler
<1>3. h'[x].pc = "answered" /\ h'[x].p = p /\ h'[x].ext = h[x].ext
  BY DEF Answer, TypeOK
<1>4. /\ h'[x].seen \in {"published", "retryable_failure", "rejected", "processing"}
      /\ h'[x].seen = "published" => remote[p][h[x].ext] = "processed"
  BY DEF Answer, Normalized, TypeOK
<1>5. remote[p][h[x].ext] = "processed" => Processed(p)
  <2>1. remote[p] \in Seq(Posts)
    BY <1>1 DEF TypeOK, Posts
  <2>2. DOMAIN remote[p] = 1..Len(remote[p])
    BY <2>1, LenProperties
  <2>3. QED
    BY <1>1, <2>2 DEF Processed
<1>6. ~(Fresh(p)' /\ Waiting(p)')
  BY <1>1, <1>2 DEF Fresh, Marked, Waiting, Retryable
<1>7. h[x].ext /= 0 /\ (Fresh(p)' /\ pub'[p].status = "published" => pub'[p].ext /= 0)
  BY <1>1, <1>2 DEF Inv, PublishedHasId, Fresh, Marked
<1>8. QED
  BY <1>1, <1>2, <1>3, <1>4, <1>5, <1>6, <1>7, Step

\* A failure before the post leaves the uploader alone with its publication.
LEMMA NotPostedInv ==
  ASSUME TypeOK, TypeOK', Inv, NEW x \in Handlers, NEW p, p = h[x].p, NotPosted(x)
  PROVE  Inv'
<1>1. /\ Busy(x) /\ p \in Pubs /\ h[x].ext <= Len(remote[p])
      /\ pub[p].status /= "none" /\ pub[p].ext <= Len(remote[p])
      /\ Fresh(p) => ~Waiting(p)
  BY BusyFacts DEF NotPosted, Busy
<1>2. Moved(x) /\ UNCHANGED <<remote, pack, pub>> /\ Marked
  BY DEF NotPosted, Goto, past, Marked, Moved, TypeOK, Handler
<1>3. /\ h'[x].pc \in {"unknown", "preflight", "login"}
      /\ h'[x].p = p /\ h'[x].ext = h[x].ext
  BY DEF NotPosted, Failure, ComposerFails, Goto, TypeOK
<1>4. ~(Fresh(p)' /\ Waiting(p)')
  BY <1>1, <1>2 DEF Fresh, Marked, Waiting, Retryable
<1>5. Fresh(p)' => remote[p] = <<>> /\ \A y \in Handlers \ {x} : Busy(y) => h[y].p /= p
  BY <1>2 DEF NotPosted, Inv, UploaderAlone, Fresh, Marked
<1>6. /\ h'[x].status = "uploading"
      /\ Fresh(p)' /\ pub'[p].status = "published" => pub'[p].ext /= 0
  <2>1. h'[x].status = h[x].status
    BY DEF NotPosted, Goto, TypeOK
  <2>2. QED
    BY <1>1, <1>2, <2>1 DEF NotPosted, Inv, AsksOfPosts, PublishedHasId, Fresh, Marked
<1>7. QED
  BY <1>1, <1>2, <1>3, <1>4, <1>5, <1>6, Step

\* A failure that is stored as preflight was found by the uploader alone.
LEMMA SaveFailureInv ==
  ASSUME TypeOK, TypeOK', Inv, NEW x \in Handlers, NEW p, p = h[x].p, SaveFailure(x)
  PROVE  Inv'
<1>1. /\ Busy(x) /\ p \in Pubs /\ h[x].ext <= Len(remote[p])
      /\ pub[p].status /= "none"
      /\ Fresh(p) => ~Waiting(p)
  BY BusyFacts DEF SaveFailure, Busy
<1>2. /\ Moved(x) /\ UNCHANGED <<remote, pack>> /\ Marked
      /\ h'[x] = NoHandler
  BY DEF SaveFailure, End, past, Marked, Moved, TypeOK, Handler
<1>3. /\ \A q \in Pubs \ {p} : pub'[q] = pub[q]
      /\ pub'[p].platform = pub[p].platform /\ pub'[p].ext = h[x].ext
      /\ pub'[p].status \in {"reauth", "retryable_failure"}
      /\ pub'[p].phase = IF h[x].pc = "login" THEN h[x].phase ELSE h[x].pc
  <2>1. PICK status \in {"reauth", "retryable_failure"}, phase \in {"none", "preflight", "unknown"} :
          /\ Save(x, status, phase)
          /\ phase = IF h[x].pc = "login" THEN h[x].phase ELSE h[x].pc
    <3>1. h[x].phase \in {"none", "preflight", "unknown"}
      BY DEF TypeOK
    <3>2. CASE h[x].pc = "login"
      BY <3>1, <3>2 DEF SaveFailure
    <3>3. CASE h[x].pc /= "login"
      BY <3>3 DEF SaveFailure
    <3>4. QED
      BY <3>2, <3>3
  <2>2. pub' = [pub EXCEPT ![p] = [pub[p] EXCEPT !.status = Stored(x, status), !.phase = phase,
                                                 !.ext = h[x].ext]]
    BY <2>1 DEF Save
  <2>3. pub[p] \in Row
    BY <1>1 DEF TypeOK, Row
  <2>4. pub'[p] = [pub[p] EXCEPT !.status = Stored(x, status), !.phase = phase, !.ext = h[x].ext]
    BY <1>1, <2>2 DEF TypeOK
  <2>5. \A q \in Pubs \ {p} : pub'[q] = pub[q]
    BY <2>2, Zenon DEF TypeOK
  <2>6. h[x].status = "uploading"
    BY DEF SaveFailure, Inv, AsksOfPosts
  <2>7. QED
    BY <2>1, <2>3, <2>4, <2>5, <2>6 DEF Stored, Row
<1>4. h[x].pc \in {"preflight", "login"} /\ Fresh(p) =>
        remote[p] = <<>> /\ \A y \in Handlers \ {x} : Busy(y) => h[y].p /= p
  BY DEF Inv, UploaderAlone
<1>5. Fresh(p)' /\ Waiting(p)' => remote[p] = <<>> /\ \A y \in Handlers \ {x} : Busy(y) => h[y].p /= p
  <2> SUFFICES ASSUME Fresh(p)', Waiting(p)', h[x].pc = "unknown" PROVE FALSE
    BY <1>2, <1>4 DEF Fresh, Marked, SaveFailure
  <2>1. pub'[p].phase = "unknown"
    BY <1>3
  <2>2. pub'[p].status \in {"none", "prepared"}
    BY <2>1 DEF Waiting, Retryable
  <2>3. QED
    BY <1>3, <2>2
<1>6. pub'[p].status /= "published"
  BY <1>3
<1>7. pub'[p].status /= "none"
  BY <1>1, <1>3
<1>8. h'[x].pc = "idle"
  BY <1>2 DEF NoHandler
<1>9. QED
  BY <1>1, <1>2, <1>3, <1>5, <1>6, <1>7, <1>8, Step

\* What is stored as posted has been.
LEMMA SavePostedInv ==
  ASSUME TypeOK, TypeOK', Inv, NEW x \in Handlers, NEW p, p = h[x].p, SavePosted(x)
  PROVE  Inv'
<1>1. /\ Busy(x) /\ p \in Pubs /\ h[x].ext <= Len(remote[p]) /\ remote[p] /= <<>>
      /\ h[x].ext /= 0
      /\ p \notin Youtube => Processed(p)
  BY BusyFacts DEF SavePosted, Busy, Inv, AsksOfPosts, ReportsWhatIsSeen
<1>2. Moved(x) /\ UNCHANGED <<remote, pack>> /\ Marked
  BY DEF SavePosted, past, Marked, Moved, TypeOK, Handler
<1>3. /\ \A q \in Pubs \ {p} : pub'[q] = pub[q]
      /\ pub'[p].platform = pub[p].platform /\ pub'[p].ext = h[x].ext
      /\ pub'[p].status = IF p \in Youtube THEN "processing" ELSE "published"
  BY <1>1 DEF SavePosted, TypeOK
<1>4. h'[x].pc \in {"ask", "points"} /\ h'[x].p = p /\ h'[x].ext = h[x].ext
  BY DEF SavePosted, TypeOK
<1>5. ~Waiting(p)'
  BY <1>3 DEF Waiting, Retryable
<1>6. QED
  BY <1>1, <1>2, <1>3, <1>4, <1>5, Step

\* An answer that is stored as published was seen; the row names its post.
LEMMA SaveAnswerInv ==
  ASSUME TypeOK, TypeOK', Inv, NEW x \in Handlers, NEW p, p = h[x].p, SaveAnswer(x)
  PROVE  Inv'
<1>1. /\ Busy(x) /\ p \in Pubs /\ h[x].ext <= Len(remote[p]) /\ remote[p] /= <<>>
      /\ h[x].ext /= 0 /\ pub[p].status /= "none"
      /\ Fresh(p) => ~Waiting(p)
      /\ h[x].seen \in {"published", "retryable_failure", "rejected", "processing"}
      /\ h[x].seen = "published" => Processed(p)
  BY BusyFacts DEF SaveAnswer, Busy, Inv, AsksOfPosts, ReportsWhatIsSeen
<1>2. Moved(x) /\ UNCHANGED <<remote, pack>> /\ Marked
  BY DEF SaveAnswer, End, past, Marked, Moved, TypeOK, Handler
<1>3. /\ \A q \in Pubs \ {p} : pub'[q] = pub[q]
      /\ pub'[p].platform = pub[p].platform /\ pub'[p].ext = h[x].ext
      /\ pub'[p].status \in {h[x].seen, pub[p].status}
  BY <1>1 DEF SaveAnswer, Save, Stored, TypeOK
<1>4. h'[x].pc \in {"idle", "points"} /\ (h'[x].pc = "points" => h'[x].p = p /\ h'[x].ext = h[x].ext)
  BY DEF SaveAnswer, End, NoHandler, TypeOK
<1>5. ~(Fresh(p)' /\ Waiting(p)')
  <2>1. pub'[p].status \in {"none", "prepared"} => pub[p].status = pub'[p].status
    BY <1>1, <1>3
  <2>2. ~Retryable(p)'
    BY <1>1, <1>3 DEF Retryable
  <2>3. QED
    BY <1>1, <1>2, <2>1, <2>2 DEF Fresh, Marked, Waiting
<1>6. /\ pub'[p].status = "published" => pub[p].status = "published" \/ Processed(p)
      /\ pub'[p].status /= "none"
  BY <1>1, <1>3
<1>7. QED
  BY <1>1, <1>2, <1>3, <1>4, <1>5, <1>6, Step

\* Checkpoints say nothing of posts.
LEMMA AddCheckpointInv ==
  ASSUME TypeOK, TypeOK', Inv, NEW x \in Handlers, NEW p, p = h[x].p, AddCheckpoint(x)
  PROVE  Inv'
<1>1. /\ Busy(x) /\ p \in Pubs /\ h[x].ext <= Len(remote[p])
      /\ pub[p].status /= "none" /\ pub[p].ext <= Len(remote[p])
      /\ Fresh(p) => ~Waiting(p)
  BY BusyFacts DEF AddCheckpoint, Busy
<1>2. Moved(x) /\ UNCHANGED <<remote, pack, pub>> /\ Marked
  BY DEF AddCheckpoint, End, past, Marked, Moved, TypeOK, Handler
<1>3. h'[x].pc \in {"idle", "points"} /\ (h'[x].pc = "points" => h'[x].p = p /\ h'[x].ext = h[x].ext)
  BY DEF AddCheckpoint, End, NoHandler, TypeOK
<1>4. ~(Fresh(p)' /\ Waiting(p)')
  BY <1>1, <1>2 DEF Fresh, Marked, Waiting, Retryable
<1>5. Fresh(p)' /\ pub'[p].status = "published" => pub'[p].ext /= 0
  BY <1>1, <1>2 DEF Inv, PublishedHasId, Fresh, Marked
<1>6. QED
  BY <1>1, <1>2, <1>3, <1>4, <1>5, Step

\* The uploader was alone with a fresh publication: the post is its first. A
\* click that raises marks it.
LEMMA PostInv ==
  ASSUME TypeOK, TypeOK', Inv, NEW x \in Handlers, NEW p, p = h[x].p, Post(x) \/ ClickRaises(x)
  PROVE  Inv'
<1>1. /\ Busy(x) /\ p \in Pubs /\ h[x].ext \in Nat /\ h[x].ext <= Len(remote[p])
      /\ pub[p].status /= "none" /\ pub[p].ext <= Len(remote[p])
      /\ Fresh(p) => ~Waiting(p)
  BY BusyFacts DEF Post, ClickRaises, Busy
<1> DEFINE state == IF p \in Youtube THEN "uploaded" ELSE "processed"
<1>2. /\ remote[p] \in Seq(Posts) /\ state \in Posts
      /\ remote' = [remote EXCEPT ![p] = Append(remote[p], state)]
      /\ UNCHANGED <<pub, pack, again, stale>> /\ clicked \subseteq clicked'
  BY <1>1 DEF Post, ClickRaises, AddPost, past, TypeOK, Posts
<1>3. /\ remote'[p] = Append(remote[p], state)
      /\ \A q \in Pubs \ {p} : remote'[q] = remote[q]
  BY <1>1, <1>2 DEF TypeOK
<1>4. /\ Len(remote[p]) \in Nat
      /\ Len(remote'[p]) = Len(remote[p]) + 1
      /\ \A i \in 1..Len(remote[p]) : remote'[p][i] = remote[p][i]
      /\ remote'[p][Len(remote[p]) + 1] = state
  BY <1>2, <1>3, AppendProperties, LenProperties
<1>5. DOMAIN remote[p] = 1..Len(remote[p]) /\ DOMAIN remote'[p] = 1..(Len(remote[p]) + 1)
  <2>1. remote'[p] \in Seq(Posts)
    BY <1>1 DEF TypeOK, Posts
  <2>2. QED
    BY <1>2, <1>4, <2>1, LenProperties
<1>6. ASSUME NEW q \in Pubs, Processed(q) PROVE Processed(q)'
  <2>1. CASE q = p
    <3>1. PICK i \in 1..Len(remote[p]) : remote[p][i] = "processed"
      BY <1>5, <1>6, <2>1 DEF Processed
    <3>2. i \in DOMAIN remote'[p] /\ remote'[p][i] = "processed"
      BY <1>4, <1>5, <3>1
    <3>3. QED
      BY <2>1, <3>2 DEF Processed
  <2>2. CASE q /= p
    BY <1>3, <1>6, <2>2 DEF Processed
  <2>3. QED
    BY <2>1, <2>2
<1>7. p \notin Youtube => Processed(p)'
  BY <1>4, <1>5 DEF Processed
<1>8. /\ Moved(x) /\ h'[x].pc \in {"posted", "unknown", "preflight"} /\ h'[x].p = p
      /\ h'[x].ext \in {h[x].ext, Len(remote'[p])} /\ h'[x].status = "uploading"
      /\ h'[x].pc = "posted" => h'[x].ext = Len(remote'[p])
      /\ h'[x].pc = "preflight" => ~Fresh(p)'
  <2>1. h \in [Handlers -> Handler] /\ h' \in [Handlers -> Handler]
    BY DEF TypeOK, Handler
  <2>2. \/ h' = [h EXCEPT ![x].pc = "posted", ![x].ext = Len(remote'[p])]
        \/ h' = [h EXCEPT ![x].pc = "unknown"]
        \/ h' = [h EXCEPT ![x].pc = "preflight"] /\ p \in clicked'
    BY DEF Post, ClickRaises, Goto
  <2>3. \/ h'[x] \in {[h[x] EXCEPT !.pc = "posted", !.ext = Len(remote'[p])],
                      [h[x] EXCEPT !.pc = "unknown"]}
        \/ h'[x] = [h[x] EXCEPT !.pc = "preflight"] /\ p \in clicked'
    BY <2>1, <2>2
  <2>4. h[x] \in Handler /\ h[x].status = "uploading"
    BY <2>1 DEF Inv, AsksOfPosts, Post, ClickRaises
  <2>5. /\ h'[x].pc \in {"posted", "unknown", "preflight"} /\ h'[x].p = p
        /\ h'[x].ext \in {h[x].ext, Len(remote'[p])} /\ h'[x].status = "uploading"
        /\ h'[x].pc = "posted" => h'[x].ext = Len(remote'[p])
        /\ h'[x].pc = "preflight" => p \in clicked'
    BY <2>3, <2>4 DEF Handler
  <2>6. Moved(x)
    BY <2>1, <2>2 DEF Moved
  <2>7. QED
    BY <2>5, <2>6 DEF Fresh
<1>9. Youtube' = Youtube /\ \A q \in Pubs : (Fresh(q)' => Fresh(q)) /\ Waiting(q)' = Waiting(q)
  BY <1>2 DEF Youtube, Fresh, Waiting, Retryable
<1>10. Named'
  BY <1>1, <1>8 DEF Inv, Named, Busy, Moved
<1>11. IdsNamePosts'
  <2>1. ASSUME NEW q \in Pubs PROVE pub'[q].ext <= Len(remote'[q]) /\ pack'[q].ext <= Len(remote'[q])
    <3>1. pub[q].ext \in Nat /\ pack[q].ext \in Nat
      BY DEF TypeOK
    <3>2. pub[q].ext <= Len(remote[q]) /\ pack[q].ext <= Len(remote[q])
      BY DEF Inv, IdsNamePosts
    <3>3. pub' = pub /\ pack' = pack
      BY <1>2
    <3>4. CASE q = p
      BY <1>4, <3>1, <3>2, <3>3, <3>4
    <3>5. CASE q /= p
      BY <1>3, <3>2, <3>3, <3>5
    <3>6. QED
      BY <3>4, <3>5
  <2>2. ASSUME NEW y \in Handlers, Busy(y)' PROVE h'[y].ext <= Len(remote'[h'[y].p])
    <3>1. CASE y = x
      <4>1. h'[y].p = p /\ h'[y].ext \in {h[x].ext, Len(remote'[p])}
        BY <1>8, <3>1
      <4>2. h[x].ext <= Len(remote'[p])
        BY <1>1, <1>4
      <4>3. QED
        BY <1>4, <4>1, <4>2
    <3>2. CASE y /= x
      <4>1. h'[y] = h[y] /\ Busy(y)
        BY <1>8, <2>2, <3>2 DEF Moved, Busy
      <4>2. h[y].p \in Pubs /\ h[y].ext \in Nat /\ h[y].ext <= Len(remote[h[y].p])
        BY <4>1, BusyFacts
      <4>3. QED
        BY <1>3, <1>4, <4>1, <4>2
    <3>3. QED
      BY <3>1, <3>2
  <2>3. QED
    BY <2>1, <2>2 DEF IdsNamePosts
<1>12. AsksOfPosts'
  <2>1. Len(remote'[p]) /= 0
    BY <1>4
  <2>2. QED
    BY <1>8, <2>1 DEF Inv, AsksOfPosts, Moved
<1>13. NoneIsNew'
  BY <1>1, <1>2, <1>3, <1>8 DEF Inv, NoneIsNew, Busy, Moved
<1>14. WaitingIsUnposted'
  BY <1>1, <1>3, <1>8, <1>9 DEF Inv, WaitingIsUnposted, Busy, Moved
<1>15. UploaderAlone'
  <2> SUFFICES ASSUME NEW y \in Handlers, h'[y].pc \in {"upload", "preflight", "login"},
                      NEW q, q = h'[y].p, Fresh(q)'
               PROVE  /\ remote'[q] = <<>>
                      /\ \A z \in Handlers \ {y} : Busy(z)' => h'[z].p /= q
    BY DEF UploaderAlone, Fresh
  <2>1. y /= x /\ h'[y] = h[y] /\ Fresh(q)
    BY <1>2, <1>8 DEF Moved, Fresh
  <2>2. remote[q] = <<>> /\ \A z \in Handlers \ {y} : Busy(z) => h[z].p /= q
    BY <2>1 DEF Inv, UploaderAlone
  <2>3. Busy(y) /\ q \in Pubs /\ q /= p
    BY <1>1, <2>1, <2>2, BusyFacts DEF Busy
  <2>4. QED
    BY <1>3, <1>8, <2>1, <2>2, <2>3 DEF Busy, Moved
<1>16. ReportsWhatIsSeen'
  <2> SUFFICES ASSUME NEW y \in Handlers, Busy(y)', NEW q, q = h'[y].p
               PROVE  /\ h'[y].pc = "answered" /\ h'[y].seen = "published" => Processed(q)'
                      /\ h'[y].pc = "posted" /\ q \notin Youtube => Processed(q)'
    BY <1>9 DEF ReportsWhatIsSeen, Processed, Busy
  <2>1. CASE y = x
    BY <1>7, <1>8, <2>1
  <2>2. CASE y /= x
    <3>1. h'[y] = h[y] /\ Busy(y) /\ q \in Pubs
      BY <1>8, <2>2, BusyFacts DEF Moved, Busy
    <3>2. QED
      BY <1>6, <3>1 DEF Inv, ReportsWhatIsSeen
  <2>3. QED
    BY <2>1, <2>2
<1>17. PostedOnce'
  <2>1. Fresh(p) => Len(remote[p]) = 0
    BY <1>1, Lengths DEF Post, ClickRaises, Inv, UploaderAlone
  <2>2. QED
    BY <1>2, <1>3, <1>4, <2>1 DEF Inv, PostedOnce, Clean, Fresh
<1>18. PublishedIsProcessed' /\ PublishedHasId'
  BY <1>2, <1>6, <1>9 DEF Inv, PublishedIsProcessed, PublishedHasId, Processed
<1>19. QED
  BY <1>10, <1>11, <1>12, <1>13, <1>14, <1>15, <1>16, <1>17, <1>18 DEF Inv

\* The provider decides: no post comes or goes, and none that is public is lost.
LEMMA ProcessesInv ==
  ASSUME TypeOK, TypeOK', Inv, NEW p \in Pubs, Processes(p)
  PROVE  Inv'
<1>1. UNCHANGED <<h, pub, pack, again, stale, clicked>>
  BY DEF Processes, past
<1>2. PICK i \in DOMAIN remote[p], state \in {"processed", "failed", "rejected"} :
        remote[p][i] = "uploaded" /\ remote' = [remote EXCEPT ![p][i] = state]
  BY DEF Processes
<1>3. /\ remote'[p] = [remote[p] EXCEPT ![i] = state]
      /\ \A q \in Pubs \ {p} : remote'[q] = remote[q]
  BY <1>2 DEF TypeOK
<1>4. remote[p] \in Seq(Posts) /\ state \in Posts /\ i \in 1..Len(remote[p])
  BY <1>2, LenProperties DEF TypeOK, Posts
<1>5. Len(remote'[p]) = Len(remote[p]) /\ DOMAIN remote'[p] = DOMAIN remote[p]
  BY <1>3, <1>4, ExceptSeq
<1>6. \A q \in Pubs : Len(remote'[q]) = Len(remote[q])
  BY <1>3, <1>5
<1>7. \A q \in Pubs : Processed(q) => Processed(q)'
  <2>1. Processed(p) => Processed(p)'
    BY <1>2, <1>3, <1>5 DEF Processed
  <2>2. QED
    BY <1>3, <2>1 DEF Processed
<1>8. \A q \in Pubs : remote[q] = <<>> => remote'[q] = <<>>
  <2>1. remote[p] /= <<>>
    BY <1>4, EmptySeq, LenProperties
  <2>2. QED
    BY <1>3, <2>1
<1>9. Named' /\ AsksOfPosts'
  BY <1>1 DEF Inv, Named, AsksOfPosts, Busy
<1>10. IdsNamePosts'
  BY <1>1, <1>6 DEF Inv, Named, IdsNamePosts, Busy
<1>11. NoneIsNew'
  BY <1>1, <1>8 DEF Inv, NoneIsNew, Busy
<1>12. WaitingIsUnposted'
  BY <1>1, <1>8 DEF Inv, WaitingIsUnposted, Waiting, Retryable, Fresh, Busy
<1>13. UploaderAlone'
  BY <1>1, <1>8 DEF Inv, Named, UploaderAlone, Fresh, Busy
<1>14. ReportsWhatIsSeen'
  <2> SUFFICES ASSUME NEW y \in Handlers, Busy(y), NEW q, q = h[y].p
               PROVE  /\ h[y].pc = "answered" /\ h[y].seen = "published" => Processed(q)'
                      /\ h[y].pc = "posted" /\ q \notin Youtube => Processed(q)'
    BY <1>1 DEF ReportsWhatIsSeen, Processed, Busy, Youtube
  <2>1. q \in Pubs
    BY BusyFacts
  <2>2. QED
    BY <1>7, <2>1 DEF Inv, ReportsWhatIsSeen
<1>15. PostedOnce' /\ PublishedIsProcessed' /\ PublishedHasId'
  BY <1>1, <1>6, <1>7
     DEF Inv, PostedOnce, Clean, Fresh, PublishedIsProcessed, PublishedHasId, Processed
<1>16. QED
  BY <1>9, <1>10, <1>11, <1>12, <1>13, <1>14, <1>15 DEF Inv

\* An instance that dies takes its handlers and its downloads with it.
LEMMA CrashInv ==
  ASSUME TypeOK, TypeOK', Inv, Crash
  PROVE  Inv'
<1>1. \A x \in Handlers : h'[x].pc = "idle"
  BY DEF Crash, NoHandler
<1>2. UNCHANGED <<pub, remote, again, stale, clicked>> /\ \A p \in Pubs : pack'[p].ext = 0
  BY DEF Crash, NoPackage
<1>3. \A p \in Pubs : Len(remote[p]) \in Nat
  BY Lengths
<1>4. QED
  BY <1>1, <1>2, <1>3 DEF Inv, Named, IdsNamePosts, AsksOfPosts, NoneIsNew, WaitingIsUnposted,
     UploaderAlone, ReportsWhatIsSeen, PostedOnce, Clean, Fresh, PublishedIsProcessed,
     PublishedHasId, Busy, Processed, Fresh, Waiting,
     Retryable

\* Steps that leave the rows, the posts and the handlers alone.
LEMMA UnseenInv ==
  ASSUME TypeOK, TypeOK', Inv, UNCHANGED <<pub, remote, h, pack, again, stale, clicked>>
  PROVE  Inv'
  BY DEF Inv, Named, IdsNamePosts, AsksOfPosts, NoneIsNew, WaitingIsUnposted,
     UploaderAlone, ReportsWhatIsSeen, PostedOnce, Clean, Fresh, PublishedIsProcessed,
     PublishedHasId, Busy, Processed, Fresh, Waiting,
     Retryable, Youtube

\* Every step keeps the invariant.
LEMMA InvNext ==
  ASSUME TypeOK, TypeOK', Inv, [Next]_vars
  PROVE  Inv'
<1>1. ASSUME NEW x \in Handlers, Goes(x) PROVE Inv'
  BY <1>1, PostInv, NotPostedInv, SaveFailureInv, SavePostedInv, AnswerInv, SaveAnswerInv,
     AddCheckpointInv DEF Goes
<1>2. ASSUME NEW x \in Handlers, NEW p \in Pubs,
             \/ ConfirmExport(x, p) \/ ConfirmFails(x, p) \/ SessionUnavailable(x, p)
             \/ Retry(x, p) \/ GiveUp(x, p)
      PROVE  Inv'
  BY <1>2, RequestInv
<1>3. ASSUME NEW p \in Pubs, Prepare(p) \/ SaveCancel(p) PROVE Inv'
  BY <1>3, RequestInv
<1>4. ASSUME NEW x \in Handlers, NEW p \in Pubs, Confirm(x, p) \/ BeginRefresh(x, p) PROVE Inv'
  BY <1>4, ConfirmInv, BeginRefreshInv
<1>5. ASSUME NEW p \in Pubs, BeginDownload(p) \/ PackageFails(p) \/ StorePackage(p) PROVE Inv'
  BY <1>5, DownloadInv
<1>6. ASSUME NEW p \in Pubs, BeginCancel(p) PROVE Inv'
  BY <1>6, UnseenInv DEF BeginCancel, past
<1>7. ASSUME NEW p \in Pubs, Processes(p) PROVE Inv'
  BY <1>7, ProcessesInv
<1>8. CASE Pause \/ UNCHANGED vars
  BY <1>8, UnseenInv DEF Pause, vars, past
<1>9. CASE Crash
  BY <1>9, CrashInv
<1>10. QED
  BY <1>1, <1>2, <1>3, <1>4, <1>5, <1>6, <1>7, <1>8, <1>9 DEF Next, Refresh

(***************************************************************************)
(* Theorems.                                                               *)
(***************************************************************************)
\* Types and the invariant hold together: a step keeps the types because a
\* busy handler names its publication.
LEMMA Always == Spec => [](TypeOK /\ Inv)
<1>1. Init => TypeOK /\ Inv
  BY TypeInit, InvInit
<1>2. TypeOK /\ Inv /\ [Next]_vars => TypeOK' /\ Inv'
  BY TypeNext, InvNext DEF Inv
<1>3. QED
  BY <1>1, <1>2, PTL DEF Spec

\* Every row, post, handler and package has its type.
THEOREM TypeCorrect == Spec => []TypeOK
  BY Always, PTL

\* A publication that nobody confirms again, no download overwrites and no click
\* posted while it seemed to fail is posted at most once, for any number of
\* handlers, failures and crashes.
THEOREM PostedOnceHolds == Spec => []PostedOnce
<1>1. Inv => PostedOnce
  BY DEF Inv
<1>2. QED
  BY <1>1, Always, PTL

\* Whatever is reported as published has a post that the provider has finished
\* with; it is the one the row names, unless the publication was confirmed again,
\* overwritten by a download or posted by a click that seemed to fail.
THEOREM PublishedNamesItsPostHolds == Spec => []PublishedNamesItsPost
<1>1. TypeOK /\ Inv => PublishedNamesItsPost
  <2> SUFFICES ASSUME TypeOK, Inv, NEW p \in Pubs, pub[p].status = "published"
               PROVE  /\ Processed(p)
                      /\ p \in Clean =>
                           pub[p].ext \in DOMAIN remote[p] /\ remote[p][pub[p].ext] = "processed"
    BY DEF PublishedNamesItsPost, Processed
  <2>1. PICK i \in DOMAIN remote[p] : remote[p][i] = "processed"
    BY DEF Inv, PublishedIsProcessed, Processed
  <2>2. remote[p] \in Seq(Posts)
    BY DEF TypeOK, Posts
  <2>3. DOMAIN remote[p] = 1..Len(remote[p]) /\ Len(remote[p]) \in Nat /\ pub[p].ext \in Nat
    BY <2>2, LenProperties DEF TypeOK
  <2>4. ASSUME p \in Clean PROVE pub[p].ext = i
    BY <2>1, <2>3, <2>4 DEF Inv, PostedOnce, PublishedHasId, IdsNamePosts, Clean, Fresh
  <2>5. QED
    BY <2>1, <2>4 DEF Processed
<1>2. QED
  BY <1>1, Always, PTL
=============================================================================
