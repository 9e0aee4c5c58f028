# Verification of the SO-2021v user threads, monitors, channels and servers

The repository is a course's worth of small C programs. This project models
the parts that have state and concurrency of their own: the cooperative
user-thread library in its two versions, the blocking queue, thread pool and latch built on
pthreads, the message channel in shared memory with the echo service over it,
the echo servers over TCP and Unix sockets, and the programs on processes, pipes
and signals.

## Inventory

| Part | State | Operations | Interaction | Hard behaviour |
|---|---|---|---|---|
| User-thread scheduler (`15-uthread-synch/.../uthread.c`, `ctxswitch.s`) | ready queue, running thread, main proxy, thread count, saved contexts | `ut_init`, `ut_create`, `ut_run`, `ut_exit`, `ut_yield`, `ut_deactivate`, `ut_activate` | called by threads and synchronizers | memory freed during a switch; unchecked activation; main resuming too early |
| Event and semaphore (`event.c`, `semaphore.c`) | flag or units, wait list of blocks on the waiters' stacks | `event_wait/set`, `sem_wait/post` | deactivate and activate threads | dangling wait blocks, overtaking, everybody blocked |
| Intrusive list (`list.h`, five copies of one version and one of an earlier one) | next and prev pointers | insertion and removal at both ends and in the middle | ready queue, wait lists, work queue | long sequences of operations, stale pointers |
| Blocking queue (`18-thread-pool/queue.c`) | list, size, mutex, condition variable | `queue_put`, `queue_get`, `queue_size` | work queue of the pool | lost and spurious wake-ups |
| Thread pool (`thread_pool.c`) | workers, queue, unsynchronised `stopped` | init, submit, stop, cleanup | uses the queue; tasks may submit | submit racing with stop, double stop, shutdown |
| Count-down latch (`countdownlatch.c`) | counter, mutex, condition variable | countdown, await | adder | broadcast, early pass |
| Parallel adder (`adder.c`) | latch and task records in a stack frame | `par_adder`, `par_func` | pool and latch | frame reused while pool threads use it |
| Shared-memory channel (`19-ipc/memchannel.c`) | ring, two wrapping indices, mutex, two semaphores | `mc_put`, `mc_get` | processes | slots accounted across two semaphores; index wrap |
| Shared memory and echo service (`19-ipc/shmem.c`, `echo-*.c`) | named objects, request and reply channels | create, open, close, destroy, serve | channel | objects opened before they are initialised, failed system calls, stop with clients waiting |
| Blocking TCP servers (`20-net-sockets`) | descriptors, threads, work queue | accept, serve, quit, stop | sockets, pool | threads kept at end of file, leaked descriptors |
| Poll and epoll servers (`21-async/01-poll`, `02-epoll`) | table of descriptors, batch of events, counters | accept, refuse, read, write, remove | sockets | stale readiness, removal by swapping, counters at their limit |
| libuv server (`21-async/03-libuv`) | handles, write requests, buffers | callbacks | libuv loop | ends of connections with writes under way |
| Unix-socket service (`22-ipc-uds`) | socket file, connections, threads | serve, connect, send, read | kernel | killed clients, restarts |
| First user-thread library (`14-uthread-scheduling`) | ready queue, running thread, main proxy, mapped stacks | `ut_init`, `ut_create`, `ut_run`, `ut_yield`, `ut_exit`, `ut_end` | called by threads | stacks unmapped during a switch, pointers into a dead frame |
| Process programs (`04-pipe-signal`, `10-mmap/ex03`) | descriptors, pipe, buffers of stdio, shared page, signal handlers | one program each: fork, exec, pipe, dup2, read, waitpid, sigaction, sleep | parent, child, signals | end of file of a pipe, buffers copied by fork, unchecked results, signals before a handler or a sleep |
| Demonstrations (`03`, `10`, `12`, `13`, `16`, `17`) | little | one system call or one earlier stage each | none | mostly none |

`PROJECT.json` lists every component with its status, and the hazards of the
code at the line where each bites.

What makes each part correct: the scheduler resumes only saved contexts in live
memory and nobody starves; synchronizers lose no waiter and let nobody
overtake; lists stay circles; queue and channel are blocking FIFOs that make
progress; the pool runs every task accepted in time, once, and shuts down; the
latch opens at zero for all; the adder sums, and no thread uses a frame that is
gone; the echo service answers who asked and never blocks on one client;
servers keep exactly the descriptors they serve, never wait for one client
while another has input, and free what they allocated; a parent gets the whole
message of its child, and its end, and no process is left waiting.

## Plan

The order was by how much rests on a part: scheduler, synchronizers, list,
queue, pool, latch and adder, channel, echo service, socket servers, the first
thread library, the process programs. All are modelled and checked, and every
safety invariant that a run checks is proved.

Next, in this order:

1. A disciplined client of the semaphore: conservation of units and progress of
   large requests.
2. Lines longer than the buffers; the two earlier queues (`17`), as variants of
   `MonitorQueue`.

## Modules

* **UThread** models `uthread.c` and `ctxswitch.s`. All threads share one
  operating-system thread and give up the processor only inside library calls,
  so a call is one step. `alloc` is the set of malloc'ed descriptors and
  `saved` the threads whose descriptor points to a context that can be popped.
  `ut_activate` has no guard, as in the code; `Next` calls it for parked
  threads only, and `USynch` shows that the library's own callers comply.
* **USynch** adds one event and one semaphore. A wait block lives on its
  thread's stack, so wait lists are sequences of threads. Each iteration of the
  release loops is a step; the scheduler's actions are those of `UThread`, so
  `ObeysScheduler` (`Spec` of `UThread`) is a step-by-step refinement.
* **UThread1** models the first library of lesson 14, which keeps no thread
  count and never resets its pointers. `ImplementsScheduler` maps its mapped
  stacks to live threads and their number to the count, and hides the pointers
  while no run is under way: every step is then a step of `UThread`.
* **IntrusiveList** models both versions of `list.h` by their pointers
  (`header` says which one is in use). The history variable `lists` holds the
  sequence each head should represent; no operation reads it.
* **BlockingFifo** is the abstract specification of a blocking FIFO: a put or
  get takes effect in one step between its start and its return, and pending
  calls progress while there is room or an item.
* **MonitorQueue** models `queue.c` (the copy in `20-net-sockets/03-thread-pool`
  is the same text), one step per mutex or condition-variable operation or
  stretch of code between two. Its refinement mapping to `BlockingFifo` takes
  the list as the FIFO, and a call as pending until it inserts or removes.
* **ThreadPool** extends it with workers, submit, stop and cleanup. Reads and
  writes of `stopped` are steps of their own. The history variable `early`
  holds the tasks whose submit returned before the stop. Clients other than the
  owner leave before the owner cleans up; tasks may submit tasks at any time.
* **CountDownLatch** models `countdownlatch.c`; **Adder** composes it with the
  pool. A task is a pair of the call number and the slot, so that a pool thread
  using a frame of another call is seen; the code only knows the slot.
* **MemChannel** models `memchannel.c`; indices are taken modulo `IdxMod`,
  which stands for 2^64.
* **EchoIpc** models `shmem.c`, the life of channels, and the programs
  `echo-server`, `echo-client` and `echo-term`. Creation is exclusive and takes
  several steps (name, size, mapping, semaphores) between which others may open
  the object; system calls of the processes in `Failing` may fail. A channel is
  a FIFO with the blocking operations of `BlockingFifo`, which `MemChannel`
  implements.
* **Sockets** is the network as the servers see it, external: peers that
  connect, send a line, close or reset; every connection is used once. The
  peers in `Stalling` may stop to read, so that a write to them need not end.
* **PollServer** keeps the table `fds` with its `revents` as the code does, one
  step per call that can block or fail; **EpollServer** keeps the registrations,
  the batch returned by `epoll_wait` and the counter `nevents`.
* **TcpServers** models the three blocking servers, which share the loop that
  serves a connection; `program` says which one runs. **UvServer** models the
  callbacks of the libuv server; the loop that calls them is external: no read
  callback after `uv_close`, write callbacks before the close callback.
  **StreamServers** composes the two with `EpollServer`: one of the five
  programs runs, each bounded in its connections and lines by `Arrivals` and
  `LinesTo`, whose values are in **MCStreamServers**.
* **UdsEcho** models server and clients of `22-ipc-uds`, with clients killed at
  any point and a server that stops, by request or by SIGPIPE, and is restarted.
* **Processes** models each of its programs as the sequence of calls that parent
  and child make; the calls are the actions, and their effects on descriptors,
  pipe, buffers and processes are external. Text is reduced to where it comes
  from, and the shared page to how much of the copy is done. A child may be
  killed at any time, fork and exec may fail, and stdout may be a terminal or
  not, which decides when text leaves the buffer that fork copies.
* **Lessons** puts `UThread1` and `Processes` side by side in one state space.
* **MCAdder** defines the constants of the adder for TLC.
* **UserThreadProofs** (scheduler, synchronizers, list), **LessonsProofs** (first
  library, process programs), **MonitorProofs** (latch and queue),
  **ThreadPoolProofs** (pool and adder),
  **MemChannelProofs**, **ServerProofs** (the TCP servers) and **IpcProofs** (the
  services over shared memory and Unix sockets) hold the proofs, and
  **QueueLemmas** the facts about sequences that they share.

Mutexes and condition variables are modelled from their use: any thread may
get a free mutex, a signal wakes any one waiter, a broadcast all of them, and a
wait may return without a signal.

## Runs

| Run | Bounds | Shows |
|---|---|---|
| `usynch` | 3 threads, limit 2, requests of 0, 1 or 2 units, posts of 1 or 2 | invariants of the scheduler, every ready thread runs; event and semaphore obey the scheduler, lose nobody, keep FIFO order, free waiters |
| `run_blocked` | 2 threads | violation: `ut_run` is resumed with blocked threads alive (`uthread.h:31`) |
| `list` | 2 heads, 3 entries, each of the two headers | pointers represent the sequences; results are right |
| `queue` | 3 threads, 2 items, 2 spurious wake-ups or size queries | no lost wake-up; implements the blocking FIFO with progress |
| `pool` | 2 workers, 2 clients, 2 tasks, 1 spurious wake-up | at most once; early tasks run; cleanup returns and is last |
| `adder` | 2 threads, 3 values, 2 calls | the latch lets nobody pass early and keeps nobody; right sums, no dead frame used, termination |
| `channel` | 3 processes, 2 messages, 2 slots, indices modulo 4 | slots accounted for; implements the blocking FIFO with progress |
| `echo` | 2 servers, 2 clients, 1 terminator, 2 texts, service channel of 1, failing calls of one server and one client | names belong to their owners, one request per client under way, the server never blocks on a reply, replies reach who asked, requests are answered |
| `poll` | 3 connections, table of 4 (2 clients), one peer that may stop to read | table exact, every reported client served in its round, input read |
| `tcp` | 2 connections (3 for the pool, of 2 threads, and for epoll, with a limit of 4: 2 clients), one peer that may stop to read, 2 writes under way, 1 empty read for each connection | descriptors accounted for, epoll's registrations exact and its batches not stale, waiting peers served unless all threads are taken for ever, memory of the libuv server owned and handles freed |
| `uds` | 2 clients, 2 texts, quit and stop | alternation, matching echoes, connections freed, clients answered, restart over a left socket file |
| `lessons` | 4 threads; five programs, stdout fully buffered or not | the first library implements the scheduler and lets every thread run; messages whole, children reaped and reported, text printed before fork as often as stdio makes it, only the alarm ends `signal`, all processes end |

The invariants of a module are checked together, as a conjunction of named
parts: `SchedulerSafe`, `SynchSafe`, `ListInv`, `MonitorInv`, `PoolInv`,
`LatchInv`, `AdderInv`, `ChannelInv`, `EchoInv`, `TableInv`, `EpollInv`,
`TcpInv`, `UvInv`, `UdsInv`, `ProcInv`. The parts say what they are about in their
comments; the types are one of them.

The bounds let the hard cases happen: two sleepers and two puts for a lost
wake-up, a second getter that overtakes a woken one, two stops that both find
`stopped` false with a task submitted between, a worker still inside the latch
of the first call when the second begins, indices that wrap several times, a
list with a middle, a server that starts while another one runs or dies, a
table with one connection too many, a client removed in the round in which
another one is accepted, a pool whose threads are taken while another connection
waits, an end of file with two writes under way. Three entries and two heads
reach every combination of neighbours that list operations distinguish.
`MaxNoise` and `MaxWakeups` bound spurious wake-ups; without a bound they would
be an unfair scheduler that no program survives. Where threads may block for
ever by the client's choice, or the program ends, deadlock checking is off.

**Exceptions the properties state**, because the code behaves so:

* `WaitsForNewOnly`, `InputIsRead`: the poll server does not initialise the
  `revents` of a connection it has just accepted and looks at it in the same
  round, so it can wait in `read` for that one client.
* `RoundServesAll`: when it reads that client instead, `nready` is used up one
  client early, and one reported client is left for the next round. The history
  variable `taken` records the read, so that a round which accepts a connection
  and does not read it has no such excuse.
* `InputIsRead`, `ServedUnlessBusy`: the servers with one thread wait in `write`
  for a client that does not read, and with them everybody else does.
* `ServedUnlessBusy`: the epoll server never decrements `nevents`
  (`21-async/02-epoll/echo-server.c:126`, `:155`), so after enough connections
  it refuses new ones although there is room; a refusal counts as an answer.
* `ServedUnlessBusy`: the blocking servers do not look for the end of file, and
  a closed peer keeps its thread from the others; a connection that has a thread
  is not excused by this, and what it sends is read.
* `Answered`: only for a process that waits on an initialised channel that is
  not destroyed.
* `UvInv`: the buffers of reads that bring nothing or the end of file are
  counted; the code does not free them.
* `ProcInv`: `pipe1` shows uninitialised memory when its child is killed or was
  never made, because the result of `read` is not looked at; and with fully
  buffered output the text printed before fork appears twice, in `pipe2` also
  in the pipe.
* `AllSatisfiableReleased` holds for requests of at least one unit. With a
  request of zero units, behind the one that takes the last unit, the loop of
  `sem_post` stops too early for its comment (`semaphore.c:74`).

**Fairness.** For pthreads and processes: weak fairness of every thread's
steps, that is, the operating system runs a thread that can run; nothing is
assumed about who gets a contended mutex. For the pool also that tasks return.
For user threads: the main program runs the scheduler, calls inside the library
run to their end, and no thread keeps the processor for ever (the scheduler is
cooperative and cannot do better); in `SFairSpec` this is strong fairness of
exit-or-yield, because a thread may make any number of non-blocking calls
before. For the servers: weak fairness of the server's own steps (of every
thread of it), never of the peers, and not of a write to a peer that may have
stopped to read and has not reset the connection; for the libuv server, that
`uv_run` calls what is due for every handle, cancelled writes included. For the
process programs: weak fairness of each process, and the alarm rings; nobody
needs to be killed or interrupted.

**Finding.** `run_blocked`: `ut_run` asserts, and `uthread.h:31` says, that it
is resumed only when all threads have exited. `ut_deactivate` switches to main
as soon as no thread is ready, so one thread waiting for an event that nobody
sets ends the process by the assertion.

## Proofs

`UserThreadProofs` proves, for any finite set of threads, the invariants of the
scheduler (`SchedulerSafe`, that is `TypeOK`, `ReadyOnce`, `ContextsResumable`,
`LiveCount` and `MainLast`).
They are not inductive one by one: the saved contexts depend on the running
thread being alive, and a run can only leave nothing behind because outside
`ut_run` every live thread is ready. `SchedulerInv` adds these facts (`Alive`).
`SwitchInv` and `LinkInv` treat once the two things that operations do, taking
the next thread from a queue and linking a thread; `StepInv` reduces every
action to them. `QueueLemmas` holds what insertion at the tail and removal at
the head do to the elements of a sequence.

`LessonsProofs` proves, for any finite set of stacks, that the first library
implements the scheduler (`ImplementsScheduler`), which carries over what is
proved of the scheduler. Three facts decide it, and `Inv1` makes them inductive:
main is switched back in only when no stack is mapped any more, so the two
assertions of the later `ut_run` would hold; a thread that exits has its own
stack mapped, so the count goes down by one; and no context of main is saved
outside a run, so that a `ut_run` without threads, which switches from main to
itself, changes nothing.

It proves `ProcInv` of the programs about processes, for either kind of stdout and
whether `fork` and exec succeed or not and whenever the child is killed. What `ProcInv` says of the end is not inductive: it is
the sum of what happened at every call. `ProcIInv` says it for every state, in parts.
`Lives` ties the life of a process to its end and its place. `Printed` counts the text
printed before fork: once in the buffer of each process that has it, once outside for
each that wrote its buffer, so that the total at the end says who dropped a copy, by
exec or a signal. `Pipe1Inv`, `Pipe2Inv` and `PageInv` say how much of the message has
been sent from the place where the child is, with what is still in its buffer;
`Files` says that a child that lives has the write end, so that the end of the pipe is
the end of the child. `AlarmInv` says which handlers are there at each call. The five
programs enter as tables (`AtProg5` to `AtSignal`), from which `Places` reads off where
each kind of call occurs; then there is one lemma for each kind of call (`PrintKeeps` to
`WakeKeeps`), and `CountConcat` and `CountTail` do the counting.

`OnlyTheChildBlocks` is the safety half of `ProcEnds`, which itself needs fairness: a
parent in `read`, `fgets` or `waitpid` can go on unless its child lives. `Ends` makes it
inductive: the parent has a write end only between `pipe` and `close`, and a child is
reaped by the one `waitpid` of its program.

`UserThreadProofs` builds on that: for any finite set of threads, any initial units and
limit and any sets of requests and posts, event and semaphore are clients that
the scheduler's specification allows (`ObeysScheduler`), so `SchedulerSafe` holds
with them in use; they satisfy `SynchSafe` and `NoOvertaking`. `ut_activate` has no
test of its own, so what has to be shown is that a thread in a wait list is
parked. That is not inductive without `InLibrary`: only the running thread is in a
release loop, the one of `event_set` is there after the event was signaled, and
nobody else runs before the loop ends. The attempt to prove that a post releases
whatever it can is where the exception above for requests of zero units was found.

The same module proves the list, for any heads and entries and both headers: whatever
is inserted and removed where, the pointers of each list spell out the sequence it is
meant to hold (`ListInv`), and what the operations return is right (`ReturnsRight`).
`Spelled` says the former of one circle. `LinkSpells` and `UnlinkSpells` are about any
two assignments that link or unlink at a position, and that the other nodes keep their
pointers: that the ones of each operation are of this form is read off the circle
(`AroundHead`), and that the other lists stay circles (`ChangeKeeps`) follows from
`Disjoint`, which is why the two are proved together. The sequences of the scheduler,
the synchronizers and the work queue are these lists.

`MonitorProofs` proves for any set of threads and any initial count that
nobody passes the latch early (`PassedAtZero`) and that nobody sleeps on at zero
(`OpenFreesAll`). Neither is inductive alone: `LatchInv` joins them with
`LDTypeOK`, which says that the owner of the mutex is the only thread inside a
critical section, so that a thread about to sleep cannot miss the broadcast.

It proves the same of the queue (`MonitorInv`), whoever calls it and whatever is
put. `NoLostWakeup` counts: while a thread is asleep, there are no more items than
threads on their way to one, a thread about to signal counted with them.
`WakeupStep` shows how each step moves the two numbers. For callers that put an item
once at a time (`ClientInv`), the queue implements the blocking FIFO
(`QueueImplementsFifo`): `FifoStep` maps insertion and removal to the abstract put
and get, a call's lock and return to its start and end, and the rest to stutters.

`ThreadPoolProofs` carries that to the pool: a task is run at most once
(`PoolInv`), one accepted before the stop is run before the cleanup returns
(`EarlyTasksRun`), and nothing is used after the cleanup (`CleanupIsLast`), for any
finite set of workers, any clients and any tasks. `PoolIInv` has four parts.
`Control` ties each thread's place in the pool's code to its place in the queue's.
`Places` says where a submitted task is: with its submitter, in the list, with the
worker that got it, or run. `Accepted` says that an early task has left its
submitter. `PillsLast` is the argument itself: behind a pill in the list, or
once a worker has left, no early task is queued, because a pill is put only
after `stopped` is set, and early tasks were put before. Submits that read
`stopped` in time but put late, and stops that overlap, are covered.

Then it composes pool and latch to the adder, for any number of threads, values
and calls: every `par_adder` returns the sum of all values, and no pool thread is
inside the latch or a task record of a frame that is gone (`AdderInv`). Every step of the program is a
step of the pool, and one of the latch except where a call initialises it again, so
their invariants carry over (`AdderUsesRight`); that nobody is inside the latch when
it is initialised is the point. `Counts` ties the counter to the tasks that have not
counted down, none of an earlier call among them; `Released` says that when the
owner has seen zero, holding the mutex, every worker of the frame has given the
mutex back; `Totals` that what is counted is stored. `SumOfRegions` is the
arithmetic: regions that are cut at `NVALS` add up to it, also when there are more
threads than values, by the minimal counterexample of a well-founded order.

`MemChannelProofs` proves that the channel accounts for its slots (`ChannelInv`) and
implements the blocking FIFO of its capacity (`ChannelImplementsFifo`), for any
finite set of processes, with indices that wrap at any multiple of the capacity
(2^64 is one of 1 and 8, the capacities in use). `ModUnique` and `SlotsDiffer` say that
indices less than a capacity apart name different slots, across the wrap;
`PutAppends` and `GetTakesHead` that the slots between the two indices, in
order, are the FIFO.

`ServerProofs` proves the safety of the six TCP programs for any finite
set of connections, any lines, any number of threads and any limits: `TcpInv`,
`UvInv`, `EpollInv`, `BatchNotStale`, and `TableInv`, `WaitsForNewOnly` and
`RoundServesAll` of the poll server. Each kind of server has its inductive
invariant. `ThreadsInv` adds that the pool's queue holds a connection once;
`HandlesInv` that a libuv handle lives as its connection does, without which a
second connection could reuse its counts; `LoopInv` that the connection which
the epoll server serves is open, registered and not in the batch, so that
closing it makes no other event of the batch stale. For the poll server, `Round`
says that each reported client that is not yet served is ahead of the index, marked
and readable, with `nready` as their number: the last entry, moved into the place of
a removed client, is looked at next. The connection accepted in the round, whose
mark is what memory held, is the exception: it is read at most once, and from
then on (`taken`) `nready` is one less than the number of reported clients, so that
at most one of them waits for the next round. `OutsideStep` says what peers
may do; the rest follows from `WhoSteps`, one program at a time.

`IpcProofs` proves the echo service over shared memory, for any sets of
servers, clients and terminators, any texts and any capacity: `EchoInv`,
`ServerNeverBlocks` and `ReplyIsMine`. Names need only `Owners`, that an object is
bound to its owner's name. The messages are the harder part: `OneToken` says that the
request of a client, or the reply to it, is in one place with the text that the client
sent, while the client waits. Every step moves it from one place to the next
(`PutMoves`, `ServerGetMoves`, `ClientGetMoves`), drops it, or leaves it where it is
while other messages pass (`TokensShift`). That a server about to reply finds an empty
channel in live memory follows: its client waits, so it has not destroyed the channel.

The same module proves `UdsInv` of the service over Unix sockets, for any finite set of
clients and any lines. It is not inductive alone: that a client goes on with garbage after a failed
read is harmless for the echoes only because a connection is reset by nothing but the
end of the server, which leaves no line behind at the server's ends (`Ends`).

Each of these proofs fails when an action is replaced by the mutant that breaks
its property.

The assumptions are those of the modules: finite sets of threads, callers, items,
processes and connections; for the schedulers, that main's proxy and NULL are no
threads; values that are no thread, for a free mutex, and no item, for none; an
initial count and bounds that are natural numbers; a width of the indices that
is a multiple of the capacity. Only the last one restricts the code: `mc_create`
takes any capacity, and with one that does not divide 2^64 the slots would jump
after 2^64 messages.

Only model-checked: the liveness properties `ReadyRuns`, `EventReleases`,
`CleanupReturns`, `ProgramEnds`, `Answered`, `InputIsRead`, `ServedUnlessBusy`,
`EndedFreed`, `ConnectionFreed`, `ClientAnswered`, `EveryoneRuns` and `ProcEnds`, and
the fairness that `ImplementsFifo` and `ImplementsChannel` ask for: liveness under
fairness and ENABLED are out of the prover's reach. The theorems about the two
refinements prove their initial states and steps.

## Not modelled

Register contents and stack layout; failing `malloc` (the code crashes or
asserts); signed overflow of the semaphore's units; a process that dies while
it holds the channel's mutex or between a wait and a post of its semaphores (the
code has no recovery); lines longer than the buffers; a failing `mmap` of a stack
in lesson 14, which the code does not test, a failing `pthread_create`, and a failing
`pipe` or `mmap` in the programs of `04-pipe-signal` and `10-mmap`; the poll server's
`buf[len] = 0`, which for a line as long as the buffer is one past it; a socket used again for a second
connection; formatting and timing; and the components listed as not modelled in
`PROJECT.json`: the first queues of lesson 17 (the first does not block, the second
is the one modelled but for an unlocked `queue_size`), the context switch of
lesson 13 (two threads that take turns, without a decision), the counter of
lesson 16, and demonstrations of single system calls.
