-------------------------------- MODULE Adder --------------------------------
(***************************************************************************)
(* The parallel adder of 18-thread-pool/adder.c: par_adder splits an array *)
(* into regions, submits one task per region to the thread pool and awaits *)
(* them all on a count-down latch.                                         *)
(*                                                                         *)
(* The latch and the task records are local variables of par_adder, so     *)
(* their memory is reused by the next call.  A pool task is <<r, n>>: the  *)
(* pointer to tasks[n] handed out in call number r; the code only sees n.  *)
(* All elements of vals are 1, as init_vals makes them.                    *)
(***************************************************************************)
EXTENDS ThreadPool, CountDownLatch

CONSTANTS
    NTHREADS,  \* pool threads and regions
    NVALS,     \* length of vals
    NITERS     \* calls of par_adder

ASSUME AdderAssumption ==
    /\ NTHREADS \in Nat \ {0} /\ NTHREADS = nthreads
    /\ NVALS \in Nat
    /\ NITERS \in Nat
    /\ Tasks = (1..NITERS) \X (0..(NTHREADS - 1))
    /\ Clients = {Owner}
    /\ Initial = NTHREADS
    /\ LCallers = QCallers

Slots == 0..(NTHREADS - 1)
Uninitialised == -1

VARIABLES
    frame,   \* number of the call whose frame is on the stack; 0 for none
    calls,   \* calls so far
    slot,    \* par_adder's n: tasks submitted so far
    total,   \* tasks[n].total
    result   \* what the last call returned

advars == <<frame, calls, slot, total, result>>
allvars == <<tpvars, ldvars, advars>>

ADInit ==
    /\ PInit
    /\ countdownlatch_init
    /\ frame = 0
    /\ calls = 0
    /\ slot = 0
    /\ total = [n \in Slots |-> Uninitialised]
    /\ result = NVALS

-----------------------------------------------------------------------------

region_size == (NVALS + (NTHREADS - 1)) \div NTHREADS

\* tasks[n].begin and tasks[n].end, as indices of vals.
begin(n) == n * region_size
end(n) == IF begin(n) + region_size > NVALS THEN NVALS ELSE begin(n) + region_size

\* par_func's loop over the region.
RegionSum(n) == IF begin(n) < end(n) THEN end(n) - begin(n) ELSE 0

\* par_adder up to its loop: a new frame, whose task records hold no totals,
\* and countdownlatch_init.
par_adder ==
    /\ tpc[Owner] = "idle" /\ frame = 0
    /\ calls < NITERS
    /\ calls' = calls + 1
    /\ frame' = calls + 1
    /\ slot' = 0
    /\ total' = [n \in Slots |-> Uninitialised]
    /\ llock' = NoOwner /\ lwaiters' = {} /\ counter' = Initial
    /\ lgoto(Owner, "out")
    /\ UNCHANGED <<tpvars, wakeups, result>>

\* par_adder: one iteration of the loop.
par_submit ==
    /\ At_(Owner, "idle") /\ frame # 0
    /\ slot < NTHREADS
    /\ thread_pool_submit(Owner, <<frame, slot>>)
    /\ slot' = slot + 1
    /\ UNCHANGED <<ldvars, frame, calls, total, result>>

\* par_adder: the call of countdownlatch_await.
par_await ==
    /\ At_(Owner, "idle") /\ frame # 0
    /\ slot = NTHREADS
    /\ countdownlatch_await(Owner)
    /\ UNCHANGED <<tpvars, advars>>

\* par_adder's second loop.
SumOfTotals[n \in 0..NTHREADS] ==
    IF n = 0 THEN 0 ELSE SumOfTotals[n - 1] + total[n - 1]

\* par_adder: sums the totals and returns; its frame is gone.
par_return ==
    /\ lpc[Owner] = "passed" /\ frame # 0
    /\ result' = SumOfTotals[NTHREADS]
    /\ frame' = 0
    /\ UNCHANGED <<tpvars, ldvars, calls, slot, total>>

\* par_func: the loop, the store of the total and the call of
\* countdownlatch_countdown.  Its writes go to whatever is now at the address.
par_func(w) ==
    /\ At_(w, "task") /\ lpc[w] = "out"
    /\ total' = [total EXCEPT ![cur[w][2]] = RegionSum(cur[w][2])]
    /\ countdownlatch_countdown(w)
    /\ UNCHANGED <<tpvars, frame, calls, slot, result>>

\* par_func returns to thread_pool_worker.
par_func_return(w) ==
    /\ lpc[w] = "counted"
    /\ worker_done(w)
    /\ lgoto(w, "out")
    /\ UNCHANGED <<llock, lwaiters, counter, wakeups, advars>>

\* main: thread_pool_init and, after the calls, thread_pool_cleanup.
main_pool ==
    /\ \/ thread_pool_init
       \/ frame = 0 /\ calls = NITERS /\ thread_pool_cleanup
    /\ UNCHANGED <<ldvars, advars>>

AdderStep(c) ==
    \/ PoolStep(c) /\ UNCHANGED <<ldvars, advars>>
    \/ LatchStep(c) /\ UNCHANGED <<tpvars, advars>>
    \/ c \in Workers /\ (par_func(c) \/ par_func_return(c))
    \/ c = Owner /\ (par_adder \/ par_submit \/ par_await \/ par_return \/ main_pool)

\* A wait, on the queue or on the latch, that returns without a signal.
Spurious(c) ==
    \/ spurious(c) /\ UNCHANGED <<pvars, ldvars, advars>>
    \/ latch_spurious(c) /\ UNCHANGED <<tpvars, advars>>

ADNext == \E c \in QCallers : AdderStep(c) \/ Spurious(c)

ADSpec == ADInit /\ [][ADNext]_allvars

\* The operating system runs every thread.
ADFairSpec == ADSpec /\ \A c \in QCallers : WF_allvars(AdderStep(c))

-----------------------------------------------------------------------------

ADTypeOK ==
    /\ PTypeOK
    /\ frame \in 0..NITERS
    /\ calls \in 0..NITERS
    /\ slot \in 0..NTHREADS
    /\ total \in [Slots -> {Uninitialised} \cup 0..NVALS]
    /\ result \in Int

\* A pool thread uses the latch and the task record only while the frame of
\* the call that made them is on the stack: par_adder does not return before
\* the last countdown has released the latch's mutex.
FrameAlive ==
    \A w \in Workers :
        tpc[w] = "task" /\ lpc[w] # "counted" => cur[w][1] = frame

\* test's assert(expected == res): every call returns the sum of all values,
\* each element in one region and each total stored before it is read.
SumIsRight == result = NVALS

\* The invariant of par_adder: types, right sums, and no use of a frame that is
\* gone.
AdderInv == ADTypeOK /\ SumIsRight /\ FrameAlive

\* The program ends: no call of par_adder waits for ever, and the pool shuts
\* down.
ProgramEnds == <>(tpc[Owner] = "cleaned")
=============================================================================
