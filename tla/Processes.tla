----------------------------- MODULE Processes -----------------------------
(***************************************************************************)
(* The programs about processes: 04-pipe-signal (prog5, which execs prog2; *)
(* pipe1; pipe2; signal) and 10-mmap/ex03.  Each program is the sequence   *)
(* of calls that its parent makes and the one that its child makes; the    *)
(* actions are the calls, whose effects (of the kernel and of stdio) are   *)
(* external.  A child may be killed at any time, and fork and exec fail.   *)
(*                                                                         *)
(* Text is told apart by what matters: "pre" is all that is printed before *)
(* fork.  Of the mapped page it matters whether the copy is complete.      *)
(***************************************************************************)
EXTENDS Integers, Sequences, FiniteSets

CONSTANTS
    Demos   \* which of the programs to look at

ASSUME DemosAssumption ==
    Demos \subseteq {"prog5", "pipe1", "pipe2", "shared_mem", "signal"}

VARIABLES
    demo,     \* the program that runs; never changes
    full,     \* stdout is no terminal, and so fully buffered; never changes
    pc,       \* the next call of each process
    fd,       \* descriptors: what is behind 0, 1, the two of pipefd, and nfd
    obuf,     \* text in the buffer of stdout
    pipe,     \* what is in the pipe
    screen,   \* what has been written to the terminal, or file, of stdout
    heard,    \* what the parent has read from its child
    page,     \* the shared mapping
    life,     \* "none", "alive", "zombie" or "gone"
    fate,     \* how a process ended
    report,   \* the status in res after waitpid, "unset" when it failed
    handled,  \* signals with a handler
    alarm,    \* "off", "set" or "rung"
    done      \* as in signal.c

files == <<fd, obuf, pipe, screen>>
signals == <<handled, alarm, done>>
procvars == <<demo, full, pc, files, heard, page, life, fate, report, signals>>

Procs == {"parent", "child"}

-----------------------------------------------------------------------------
(***************************************************************************)
(* The programs                                                            *)
(***************************************************************************)

\* exec, when it succeeds, goes on behind the first exit, with prog2.
prog5 ==
    [parent |-> << <<"print", "pre">>, <<"fork">>, <<"print", "text">>, <<"exit">> >>,
     child |-> << <<"print", "text">>, <<"exec">>, <<"print", "text">>, <<"exit">>,
                  <<"write", "out", "text">>, <<"dup2", "out", "nfd">>, <<"print", "text">>,
                  <<"write", "nfd", "text">>, <<"print", "text">>, <<"exit">> >>]

pipe1 ==
    [parent |-> << <<"print", "pre">>, <<"pipe">>, <<"fork">>, <<"close", "wr">>,
                   <<"read">>, <<"waitpid">>, <<"exit">> >>,
     child |-> << <<"print", "text">>, <<"close", "rd">>,
                  <<"write", "wr", "hello">>, <<"exit">> >>]

\* Mutant: the parent keeps its copy of the write end.
pipe2_KeepsWriteEnd ==
    [parent |-> << <<"print", "pre">>, <<"pipe">>, <<"fork">>,
                   <<"dup2", "rd", "in">>, <<"close", "rd">>, <<"print", "text">>,
                   <<"fgets">>, <<"waitpid">>, <<"exit">> >>,
     child |-> << <<"print", "text">>, <<"close", "rd">>, <<"dup2", "wr", "out">>,
                  <<"close", "wr">>, <<"print", "hello">>, <<"exit">> >>]

pipe2 ==
    [parent |-> << <<"print", "pre">>, <<"pipe">>, <<"fork">>, <<"close", "wr">>,
                   <<"dup2", "rd", "in">>, <<"close", "rd">>, <<"print", "text">>,
                   <<"fgets">>, <<"waitpid">>, <<"exit">> >>,
     child |-> << <<"print", "text">>, <<"close", "rd">>, <<"dup2", "wr", "out">>,
                  <<"close", "wr">>, <<"print", "hello">>, <<"exit">> >>]

\* Mutant: the parent does not wait for the child.
shared_mem_NoWait ==
    [parent |-> << <<"print", "pre">>, <<"fork">>, <<"look">>, <<"exit">> >>,
     child |-> << <<"copy", "part">>, <<"copy", "all">>, <<"exit">> >>]

shared_mem ==
    [parent |-> << <<"print", "pre">>, <<"fork">>, <<"waitpid">>, <<"look">>, <<"exit">> >>,
     child |-> << <<"copy", "part">>, <<"copy", "all">>, <<"exit">> >>]

signal ==
    [parent |-> << <<"sigaction", "ALRM">>, <<"sigaction", "TERM">>, <<"sigaction", "INT">>,
                   <<"alarm">>, <<"print", "text">>, <<"while">>, <<"sleep">>,
                   <<"print", "text">>, <<"exit">> >>,
     child |-> << <<"exit">> >>]

Program == CASE demo = "prog5" -> prog5 [] demo = "pipe1" -> pipe1
             [] demo = "pipe2" -> pipe2 [] demo = "shared_mem" -> shared_mem
             [] demo = "signal" -> signal

ProcInit ==
    /\ demo \in Demos
    /\ full \in BOOLEAN
    /\ pc = [p \in Procs |-> 1]
    /\ fd = [p \in Procs |-> [in |-> "tty", out |-> "tty", rd |-> "none", wr |-> "none",
                              nfd |-> "none"]]
    /\ obuf = [p \in Procs |-> <<>>]
    /\ pipe = <<>> /\ screen = <<>> /\ heard = <<>>
    /\ page = "empty"
    /\ life = [parent |-> "alive", child |-> "none"]
    /\ fate = [p \in Procs |-> "none"]
    /\ report = "none"
    /\ handled = {} /\ alarm = "off" /\ done = FALSE

-----------------------------------------------------------------------------
(***************************************************************************)
(* The calls                                                               *)
(***************************************************************************)

Call(p) == Program[p][pc[p]]
Calls(p, name) == life[p] = "alive" /\ Call(p)[1] = name
Goto(p, i) == pc' = [pc EXCEPT ![p] = i]
Return(p) == Goto(p, pc[p] + 1)

\* Texts go where the descriptor d leads.
Put(p, d, texts) ==
    IF fd[p][d] = "w" THEN pipe' = pipe \o texts /\ UNCHANGED screen
                      ELSE screen' = screen \o texts /\ UNCHANGED pipe

print(p) ==
    /\ Calls(p, "print")
    /\ Return(p)
    /\ IF full THEN /\ obuf' = [obuf EXCEPT ![p] = Append(@, Call(p)[2])]
                    /\ UNCHANGED <<pipe, screen>>
               ELSE Put(p, "out", <<Call(p)[2]>>) /\ UNCHANGED obuf
    /\ UNCHANGED <<demo, full, fd, heard, page, life, fate, report, signals>>

write(p) ==
    /\ Calls(p, "write")
    /\ Return(p)
    /\ Put(p, Call(p)[2], <<Call(p)[3]>>)
    /\ UNCHANGED <<demo, full, fd, obuf, heard, page, life, fate, report, signals>>

\* pipe, close and dup2
Redirect(p) ==
    /\ \/ Calls(p, "pipe") /\ fd' = [fd EXCEPT ![p].rd = "r", ![p].wr = "w"]
       \/ Calls(p, "close") /\ fd' = [fd EXCEPT ![p][Call(p)[2]] = "none"]
       \/ Calls(p, "dup2") /\ fd' = [fd EXCEPT ![p][Call(p)[3]] = fd[p][Call(p)[2]]]
    /\ Return(p)
    /\ UNCHANGED <<demo, full, obuf, pipe, screen, heard, page, life, fate, report, signals>>

\* The child has copies of the descriptors and of the buffer.  When fork fails,
\* no program looks: the parent goes on as if it had a child.
fork ==
    /\ Calls("parent", "fork")
    /\ Return("parent")
    /\ \/ /\ life' = [life EXCEPT !.child = "alive"]
          /\ fd' = [fd EXCEPT !.child = fd.parent]
          /\ obuf' = [obuf EXCEPT !.child = obuf.parent]
       \/ UNCHANGED <<life, fd, obuf>>
    /\ UNCHANGED <<demo, full, pipe, screen, heard, page, fate, report, signals>>

\* A new program has none of the text left in the buffer of the old one.
exec(p) ==
    /\ Calls(p, "exec")
    /\ \/ Goto(p, 5) /\ obuf' = [obuf EXCEPT ![p] = <<>>]
       \/ Return(p) /\ UNCHANGED obuf
    /\ UNCHANGED <<demo, full, fd, pipe, screen, heard, page, life, fate, report, signals>>

\* A process ends, and closes its descriptors.  Init reaps who has no parent.
End(p, how) ==
    /\ fate' = [fate EXCEPT ![p] = how]
    /\ life' = [q \in Procs |->
                  CASE q = p -> IF p = "child" /\ life.parent = "alive"
                                THEN "zombie" ELSE "gone"
                    [] p = "parent" /\ life[q] = "zombie" -> "gone"
                    [] OTHER -> life[q]]
    /\ fd' = [fd EXCEPT ![p] = [d \in DOMAIN fd[p] |-> "none"]]
    /\ obuf' = [obuf EXCEPT ![p] = <<>>]
    /\ UNCHANGED <<demo, full, pc, heard, page, report, signals>>

\* exit, or the return of main, writes what the buffer holds.
exit(p) ==
    /\ Calls(p, "exit")
    /\ Put(p, "out", obuf[p])
    /\ End(p, "exit")

kill_child ==
    /\ life.child = "alive"
    /\ UNCHANGED <<pipe, screen>>
    /\ End("child", "killed")

Writers == {p \in Procs : \E d \in DOMAIN fd[p] : fd[p][d] = "w"}

Hear(text) ==
    /\ heard' = Append(heard, text)
    /\ UNCHANGED <<demo, full, fd, obuf, screen, page, life, fate, report, signals>>

\* read of pipe1: its result is not looked at, and without writers msg is as it
\* was, uninitialised.
read ==
    /\ Calls("parent", "read")
    /\ \/ pipe # <<>> /\ pipe' = Tail(pipe) /\ Hear(Head(pipe))
       \/ pipe = <<>> /\ Writers = {} /\ UNCHANGED pipe /\ Hear("garbage")
    /\ Return("parent")

\* The loop of pipe2 over fgets, which ends when there is no writer left.
fgets ==
    /\ Calls("parent", "fgets")
    /\ \/ pipe # <<>> /\ pipe' = Tail(pipe) /\ Hear(Head(pipe)) /\ UNCHANGED pc
       \/ /\ pipe = <<>> /\ Writers = {}
          /\ Return("parent")
          /\ UNCHANGED <<demo, full, files, heard, page, life, fate, report, signals>>

\* waitpid; for the pid -1 of a fork that failed there is no child to wait for.
waitpid ==
    /\ Calls("parent", "waitpid")
    /\ \/ life.child = "zombie" /\ report' = fate.child
       \/ life.child = "none" /\ report' = "unset"
    /\ life' = [life EXCEPT !.child = IF @ = "zombie" THEN "gone" ELSE @]
    /\ Return("parent")
    /\ UNCHANGED <<demo, full, files, heard, page, fate, signals>>

\* strcpy into the shared mapping, in two steps, and puts from it.
SharedPage(p) ==
    /\ \/ Calls(p, "copy") /\ page' = Call(p)[2] /\ UNCHANGED heard
       \/ Calls(p, "look") /\ heard' = Append(heard, page) /\ UNCHANGED page
    /\ Return(p)
    /\ UNCHANGED <<demo, full, files, life, fate, report, signals>>

-----------------------------------------------------------------------------
(***************************************************************************)
(* Signals                                                                 *)
(***************************************************************************)

\* sigaction and alarm, the test of while, and a sleep that ends.
SignalCall ==
    /\ \/ /\ Calls("parent", "sigaction") /\ Return("parent")
          /\ handled' = handled \cup {Call("parent")[2]} /\ UNCHANGED alarm
       \/ /\ Calls("parent", "alarm") /\ Return("parent")
          /\ alarm' = "set" /\ UNCHANGED handled
       \/ /\ Calls("parent", "while")
          /\ Goto("parent", pc.parent + IF done THEN 2 ELSE 1)
          /\ UNCHANGED <<handled, alarm>>
       \/ /\ Calls("parent", "sleep") /\ Goto("parent", pc.parent - 1)
          /\ UNCHANGED <<handled, alarm>>
    /\ UNCHANGED <<demo, full, files, heard, page, life, fate, report, done>>

\* A handler that returns ends a sleep.
Wake ==
    /\ IF Calls("parent", "sleep") THEN Goto("parent", pc.parent - 1) ELSE UNCHANGED pc
    /\ UNCHANGED <<demo, full, files, heard, page, life, fate, report, handled>>

onSigAlarm ==
    /\ alarm = "set" /\ life.parent = "alive"
    /\ alarm' = "rung" /\ done' = TRUE
    /\ Wake

\* A user's TERM or INT: a handler only says no, but there may be none yet.
Interrupt(s) ==
    /\ demo = "signal" /\ life.parent = "alive"
    /\ IF s \in handled THEN Wake /\ UNCHANGED <<alarm, done>>
                        ELSE End("parent", "killed") /\ UNCHANGED <<pipe, screen>>

ProcStep(p) ==
    \/ print(p) \/ write(p) \/ Redirect(p) \/ exec(p) \/ exit(p) \/ SharedPage(p)
    \/ p = "parent" /\ (fork \/ read \/ fgets \/ waitpid \/ SignalCall)

ProcNext ==
    \/ \E p \in Procs : ProcStep(p)
    \/ kill_child
    \/ onSigAlarm
    \/ \E s \in {"TERM", "INT"} : Interrupt(s)

-----------------------------------------------------------------------------

ProcTypeOK ==
    /\ demo \in Demos /\ full \in BOOLEAN
    /\ \A p \in Procs : pc[p] \in 1..Len(Program[p])
    /\ fd \in [Procs -> [{"in", "out", "rd", "wr", "nfd"} -> {"tty", "r", "w", "none"}]]
    /\ life \in [Procs -> {"none", "alive", "zombie", "gone"}]
    /\ fate \in [Procs -> {"none", "exit", "killed"}]
    /\ report \in {"none", "unset", "exit", "killed"}
    /\ handled \subseteq {"ALRM", "TERM", "INT"}

ForkFailed == life.child = "none" /\ life.parent = "gone"

\* All that a child has to say: with full buffering the child of pipe2 sends
\* down the pipe what the parent printed before fork, too.
Message == CASE demo = "pipe1" -> <<"hello">>
             [] demo = "pipe2" -> IF full THEN <<"pre", "text", "hello">> ELSE <<"hello">>
             [] demo = "shared_mem" -> <<"all">>
             [] OTHER -> <<>>

\* The parent has the whole message at its end, unless fork failed or the child
\* was killed, and nothing else but part of it, or, for want of a check in
\* pipe1, garbage.
MessageComplete ==
    life.parent = "gone" =>
      /\ fate.child = "exit" => heard = Message
      /\ \/ \E n \in 0..Len(Message) : heard = SubSeq(Message, 1, n)
         \/ demo = "pipe1" /\ heard = <<"garbage">>
         \/ demo = "shared_mem" /\ heard \in {<<"empty">>, <<"part">>}

\* A parent that waits reaps its child and reports its end.
ChildReaped ==
    life.parent = "gone" /\ demo \notin {"prog5", "signal"} =>
      /\ life.child \in {"none", "gone"}
      /\ report = IF ForkFailed THEN "unset" ELSE fate.child

\* How often the text printed before fork occurs.
PreCount(texts) == Cardinality({i \in DOMAIN texts : texts[i] = "pre"})

\* What is printed before fork appears once, and once more when stdout is fully
\* buffered and the child lives to its exit with the copy of the buffer.
PreForkText ==
    /\ life.parent = "gone" /\ life.child \in {"none", "gone"} /\ demo # "signal"
    =>  LET again == full /\ fate.child = "exit" /\ ~(demo = "prog5" /\ pc.child > 4)
        IN PreCount(screen \o heard) = IF again THEN 2 ELSE 1

\* Once the handlers are in place, only the alarm ends the loop of signal.c.
OnlyAlarmEnds ==
    demo = "signal" /\ life.parent = "gone" =>
      \/ fate.parent = "exit" /\ alarm = "rung"
      \/ fate.parent = "killed" /\ handled # {"ALRM", "TERM", "INT"}

\* The invariant of the programs about processes, with types: messages between
\* parent and child, statuses and copies of buffers, whether fork and exec succeed
\* or not and whenever the child is killed.
ProcInv ==
    /\ ProcTypeOK
    /\ MessageComplete /\ ChildReaped /\ PreForkText /\ OnlyAlarmEnds
=============================================================================
