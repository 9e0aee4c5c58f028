------------------------------- MODULE MCAdder -------------------------------
(* Adder.tla for TLC: the tasks that a run with NITERS calls can submit.   *)
EXTENDS Adder

AdderTasks == (1..NITERS) \X (0..(NTHREADS - 1))
AdderItems == AdderTasks \cup {Pill}
=============================================================================
