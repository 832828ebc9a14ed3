\* A blocked production is paid for by the activation of the automation.
CONSTANTS
  Settings <- MCFunded
  Entries = {}
  Scheduler = sched
  Polls = {}
  Posts = {}
  Keys = {}
  Runs = {1}
  Topics = {t1, t2}
  MaxCandidates = 1
  WeeklyTarget = 1
  MaxFaults = 0
  MaxCrashes = 0
  MaxManual = 0
  MaxEdits = 0
  MaxJobs = 1
SPECIFICATION FairSpec
CHECK_DEADLOCK FALSE
PROPERTY
  FundedJobsAreTaken
