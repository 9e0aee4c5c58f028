------------------------------ MODULE Lessons ------------------------------
(***************************************************************************)
(* The programs of two early lessons side by side, in one state space: one *)
(* over the first user-thread library (UThread1), or one about processes   *)
(* (Processes).                                                            *)
(***************************************************************************)
EXTENDS UThread1, Processes

VARIABLE lesson   \* which of the two runs; never changes

lessonvars == <<lesson, vars1, procvars>>

LessonInit == lesson \in {"threads", "processes"} /\ Init1 /\ ProcInit

Threads1 == lesson = "threads" /\ Next1 /\ UNCHANGED <<lesson, procvars>>
Processes1 == lesson = "processes" /\ ProcNext /\ UNCHANGED <<lesson, vars1>>

LessonSpec == LessonInit /\ [][Threads1 \/ Processes1]_lessonvars

\* A user thread that can do nothing but go on does not keep the processor, the
\* operating system runs every process, and alarms ring.
LessonFairSpec ==
    /\ LessonSpec
    /\ WF_lessonvars(/\ lesson = "threads" /\ UNCHANGED <<lesson, procvars>>
                     /\ \E t \in Stacks : ut_yield(t) \/ ut_exit(t))
    /\ \A p \in Procs :
         WF_lessonvars(Processes1 /\ ProcStep(p))
    /\ WF_lessonvars(Processes1 /\ onSigAlarm)

-----------------------------------------------------------------------------

\* Every process ends: nobody waits for a pipe that its own side keeps open, and
\* an alarm between the test of done and the sleep is not missed for good.
ProcEnds ==
    \A p \in Procs :
        lesson = "processes" /\ life[p] = "alive" ~> life[p] # "alive"
=============================================================================
