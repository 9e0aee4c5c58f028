CONSTANTS
  Threads = {t1, t2, t3}
  Main = Main
  NULL = NULL
  InitialUnits = 1
  Limit = 2
  Requests = {0, 1, 2}
  Posts = {1, 2}
SPECIFICATION SFairSpec
INVARIANTS SchedulerSafe SynchSafe
PROPERTIES ObeysScheduler NoOvertaking ReadyRuns EventReleases
