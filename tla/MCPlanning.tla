----------------------------- MODULE MCPlanning -----------------------------
(***************************************************************************)
(* Instances of Planning for TLC.                                          *)
(***************************************************************************)
EXTENDS Planning

\* A project with nothing but its feed, of which a poll takes `limit' entries.
Feed(posts, private, limit) ==
  [posts |-> posts, private |-> private, limit |-> limit, revises |-> FALSE, curated |-> FALSE,
   articles |-> FALSE, requests |-> FALSE, team |-> FALSE, researches |-> FALSE, backlog |-> 0,
   profile |-> FALSE, mode |-> "off", unserved |-> {}]

\* A project without a feed that keeps a backlog.
Backlog(target) == [Feed({}, {}, 1) EXCEPT !.backlog = target, !.mode = "videos"]

\* A feed that revises an entry, whose articles are posted too; one whose source
\* is changed; one with a private link behind another entry; one that is longer
\* than a poll takes; articles that start research; requests for productions; a
\* backlog beside a feed with a private link, whose source is changed; a backlog
\* with a team; a profile.
MCSettings == {
  [Feed({1, 2}, {}, 2) EXCEPT !.revises = TRUE, !.articles = TRUE],
  [Feed({1}, {}, 2) EXCEPT !.curated = TRUE],
  Feed({1, 2}, {2}, 2),
  Feed({1, 2}, {}, 1),
  [Feed({1}, {}, 2) EXCEPT !.researches = TRUE, !.articles = TRUE, !.mode = "scripts"],
  [Feed({1}, {}, 2) EXCEPT !.articles = TRUE, !.requests = TRUE],
  [Feed({1}, {1}, 2) EXCEPT !.curated = TRUE, !.backlog = 1, !.mode = "scripts", !.unserved = Topics],
  [Backlog(2) EXCEPT !.team = TRUE],
  [Backlog(1) EXCEPT !.profile = TRUE, !.unserved = {CHOOSE t \in Topics : TRUE}]}

\* A backlog whose candidates are produced, and a team that pays.
MCFunded == {[Backlog(1) EXCEPT !.team = TRUE]}
=============================================================================
