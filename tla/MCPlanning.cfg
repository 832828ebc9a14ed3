\* Nine projects, one at a time (MCSettings): feeds, requests, backlogs, a team and
\* a cadence profile, two of them with a private link.
CONSTANTS
  Settings <- MCSettings
  Entries = {1, 2}
  Scheduler = sched
  Polls = {p1}
  Posts = {c1}
  Keys = {q1}
  Runs = {1, 2}
  Topics = {t1, t2, t3}
  MaxCandidates = 2
  WeeklyTarget = 1
  MaxFaults = 1
  MaxCrashes = 1
  MaxManual = 1
  MaxEdits = 1
  MaxJobs = 2
SPECIFICATION FairSpec
CHECK_DEADLOCK FALSE
INVARIANTS
  TypeOK
  OneItemPerEntry
  AnsweredOnce
PROPERTIES
  AutomaticWithinTarget
  BacklogIsFilled
  FeedIsIngested
