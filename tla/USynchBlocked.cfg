CONSTANTS
  Threads = {t1, t2}
  Main = Main
  NULL = NULL
  InitialUnits = 0
  Limit = 1
  Requests = {1}
  Posts = {1}
SPECIFICATION SSpec
INVARIANT RunReturnsAllExited
