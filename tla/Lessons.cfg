CONSTANTS
  Stacks = {t1, t2, t3, t4}
  MainFrame = MainFrame
  Null = Null
  Demos = {"prog5", "pipe1", "pipe2", "shared_mem", "signal"}
SPECIFICATION LessonFairSpec
INVARIANTS ProcInv
PROPERTIES ImplementsScheduler EveryoneRuns ProcEnds
CHECK_DEADLOCK FALSE
