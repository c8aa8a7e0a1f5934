------------------------------ MODULE Process ------------------------------
(***************************************************************************)
(* kernel/sched/scheduler.c, syscall_wait and syscall_msleep of             *)
(* cpu/syscall.c, the blocking half of poll.c and the process files of      *)
(* fs/procfs.c: the life of a process_t and the choice of the next task.    *)
(*                                                                          *)
(* One CPU.  A system call runs with interrupts off up to its first         *)
(* switch_task, so it is one step up to there; switch_to_task ends in sti,  *)
(* so the rest of syscall_wait is several steps and the timer may preempt   *)
(* it between any two of them.  next_task runs with interrupts on: cpu is   *)
(* "sched" while it looks for a task.                                       *)
(***************************************************************************)
EXTENDS Integers, FiniteSets, Sequences, Functions

CONSTANTS MaxPid,      \* bound on next_pid
          Fds,         \* the open files (vfs_fd_t) on /proc/<pid>/...
          Sigs         \* "term": kills without a handler (SIGTERM, SIGSEGV);
                       \* "other": every other signal

ASSUME ProcessAssumption ==
  MaxPid \in Nat \ {0} /\ IsFiniteSet(Fds) /\ Sigs \subseteq {"term", "other"}

VARIABLES proc,        \* the process_t structures by pid
          queue,       \* ready_queue, the list threaded through ->next
          current,     \* current_task
          cpu,         \* "run", "sched" or the assertion that stopped the kernel
          next_pid,
          file         \* [target, holders]: whose process_t the file refers to and
                       \* the processes whose descriptor table holds the file

vars == <<proc, queue, current, cpu, next_pid, file>>

Pids == 0..MaxPid
None == MaxPid + 1     \* the NULL process_t pointer

\* A structure that create_process (kcalloc) has just filled in.
Fresh(parent) ==
  [mem |-> "used", dead |-> FALSE, count |-> 2, parent |-> parent, child |-> None,
   reaped |-> FALSE,   \* ghost: wait has dropped the reference of ->child
   pc |-> "user", halts |-> FALSE, is_halted |-> FALSE, is_interrupted |-> FALSE,
   asleep |-> FALSE,   \* sleep_until > uptime
   blocked |-> FALSE,  \* the poll lists have entries and none is ready
   child_rc |-> None,  \* the status, named by the process that exited with it
   handlers |-> {}]

Unused == [Fresh(None) EXCEPT !.mem = "unused", !.count = 0]
NoFile == [target |-> None, holders |-> {}]

cur == proc[current]
Running(pc) == cpu = "run" /\ current # 0 /\ cur.pc = pc
----------------------------------------------------------------------------
\* Mutant: a child does not pin its parent.
PinBug(ps, p) == ps

\* create_process: a child keeps its parent's process_t alive.
Pin(ps, p) == [ps EXCEPT ![p].count = @ + 1]

\* Mutant: the scan always starts at the head of the queue.
SuccessorBug(s, k) == queue[k]

\* The k-th task after s in the ready queue, which next_task treats as a ring.
Successor(s, k) ==
  LET i == CHOOSE j \in DOMAIN queue : queue[j] = s
  IN queue[1 + ((i - 1 + k) % Len(queue))]

\* The tests of next_task on one task, is_halted included.
Eligible(p) ==
  /\ ~proc[p].asleep
  /\ proc[p].is_interrupted \/ ~(proc[p].halts \/ proc[p].blocked)

\* switch_task by a live task: the search starts ...
switch_task == cpu' = "sched" /\ UNCHANGED current

\* ... and ends at the first eligible task after current_task; when there is
\* none it waits for an interrupt to make one eligible.
next_task ==
  /\ cpu = "sched"
  /\ \E k \in 1..Len(queue) :
       /\ Eligible(Successor(current, k))
       /\ \A j \in 1..(k - 1) : ~Eligible(Successor(current, j))
       /\ current' = Successor(current, k)
  /\ cpu' = "run"
  /\ UNCHANGED <<proc, queue, next_pid, file>>

\* int_clock preempts whatever runs with interrupts on.
int_clock == /\ cpu = "run" /\ switch_task
             /\ UNCHANGED <<proc, queue, next_pid, file>>

\* Time passes for a sleeping task (not for the kernel's own, which sleeps for
\* ever) and a device makes a descriptor of a polling task ready.
Expire(p) == /\ p # 0 /\ proc[p].asleep
             /\ proc' = [proc EXCEPT ![p].asleep = FALSE]
             /\ UNCHANGED <<queue, current, cpu, next_pid, file>>
Ready(p) == /\ proc[p].blocked
            /\ proc' = [proc EXCEPT ![p].blocked = FALSE]
            /\ UNCHANGED <<queue, current, cpu, next_pid, file>>
----------------------------------------------------------------------------
\* process_remove_reference, n[q] times on each q: the last one frees.
process_remove_reference(ps, n) ==
  [q \in Pids |->
     IF n[q] = 0 THEN ps[q]
     ELSE [ps[q] EXCEPT !.count = @ - n[q],
                        !.mem = IF ps[q].count = n[q] THEN "freed" ELSE @]]

One(p) == [q \in Pids |-> IF q = p THEN 1 ELSE 0]

\* vfs_close_process on the files fs of p: process_close runs for a file that
\* no other process holds.
Closed(p, fs) == [f \in Fds |->
  IF f \notin fs THEN file[f]
  ELSE IF file[f].holders = {p} THEN NoFile
  ELSE [file[f] EXCEPT !.holders = @ \ {p}]]

\* Mutant: every close drops the reference, not only the last one.
ReleasedBug(p, fs) == [q \in Pids |-> Cardinality({f \in fs : file[f].target = q})]

Released(p, fs) == [q \in Pids |->
  Cardinality({f \in fs : file[f].holders = {p} /\ file[f].target = q})]
Held(p) == {f \in Fds : p \in file[f].holders}

\* An assertion fails: assert() and page_fault() stop the machine.
Stop(why) == cpu' = why /\ UNCHANGED <<proc, queue, current, next_pid, file>>

\* Mutant: a process that is killed stays in the ready queue.
UnlinkBug(p) == IF p = current THEN SelectSeq(queue, LAMBDA q : q # p) ELSE queue

\* The loop of exit_process that takes p out of the list.
Unlink(p) == LET i == CHOOSE j \in DOMAIN queue : queue[j] = p
             IN [j \in 1..(Len(queue) - 1) |-> IF j < i THEN queue[j] ELSE queue[j + 1]]

\* exit_process(p).  Asserted: p is not init.  For a process that is dead
\* already free_process frees p->tcb again, which kfree asserts against; for the
\* kernel's own task it frees the page directory that everybody shares.
\* switch_task by a dead task takes its successor without any test.
exit_process(p) ==
  CASE p = 1 -> Stop("init_exit")
    [] proc[p].dead -> Stop("double_free")
    [] p = 0 -> Stop("kernel_exit")
    [] OTHER ->
         LET told == [proc EXCEPT ![p].dead = TRUE,
                                  ![proc[p].parent].halts = FALSE,
                                  ![proc[p].parent].child_rc = p]
             shut == process_remove_reference(told, Released(p, Held(p)))
         IN /\ proc' = process_remove_reference(shut, One(p))
            /\ file' = Closed(p, Held(p))
            /\ queue' = Unlink(p)
            /\ IF p # current THEN UNCHANGED <<current, cpu>>
               ELSE IF proc'[p].mem = "used"
               THEN current' = Successor(p, 1) /\ UNCHANGED cpu
               ELSE current' = Head(queue') /\ cpu' = "sched"
            /\ UNCHANGED next_pid

exit == Running("user") /\ exit_process(current)

\* signal_process(p, sig).  A signal with a handler wakes a halted task; one
\* without is fatal or ignored, and asserted not to be sent to oneself.
signal_process(p, sig) ==
  \/ /\ sig \in proc[p].handlers
     /\ proc' = [proc EXCEPT ![p].is_interrupted = @ \/ proc[p].is_halted]
     /\ UNCHANGED <<queue, current, cpu, next_pid, file>>
  \/ /\ sig \notin proc[p].handlers
     /\ IF sig = "term" THEN exit_process(p)
        ELSE p = current /\ Stop("not_reached")

\* kill finds its target in the ready queue.
kill(p, sig) == /\ Running("user") /\ p \in Range(queue)
                /\ signal_process(p, sig)

\* page_fault in user mode.
page_fault == Running("user") /\ signal_process(current, "term")

set_signal_handler(sig) ==
  /\ Running("user")
  /\ proc' = [proc EXCEPT ![current].handlers = @ \cup {sig}]
  /\ UNCHANGED <<queue, current, cpu, next_pid, file>>
----------------------------------------------------------------------------
Inherit(n) == [f \in Fds |-> IF current \in file[f].holders
                             THEN [file[f] EXCEPT !.holders = @ \cup {n}]
                             ELSE file[f]]

fork == /\ Running("user") /\ next_pid <= MaxPid
        /\ proc' = Pin([proc EXCEPT ![next_pid] = Fresh(current),
                                    ![current].child = next_pid], current)
        /\ queue' = Append(queue, next_pid)
        /\ file' = Inherit(next_pid)
        /\ next_pid' = next_pid + 1
        /\ UNCHANGED <<current, cpu>>

\* create_process out of memory: the pid is spent, and when clone_directory was
\* the one to fail the references to the parent's files stay counted.
fork_fails == /\ Running("user") /\ next_pid <= MaxPid
              /\ file' \in {file, Inherit(next_pid)}
              /\ next_pid' = next_pid + 1
              /\ UNCHANGED <<proc, queue, current, cpu>>

\* The end of syscall_wait: a dead child is released.
Reap == IF proc[cur.child].dead
        THEN [process_remove_reference(proc, One(cur.child))
                EXCEPT ![current].child = None, ![cur.child].reaped = TRUE]
        ELSE proc

\* A task halted by wait, and one that a signal makes return from it.
Halted(r) == [r EXCEPT !.is_halted = TRUE, !.halts = TRUE, !.pc = "wait"]
Interrupted(r) == [r EXCEPT !.is_interrupted = FALSE, !.pc = "user"]

\* syscall_wait up to its first switch_task.
syscall_wait ==
  /\ Running("user") /\ cur.child # None
  /\ IF proc[cur.child].dead
     THEN proc' = Reap /\ UNCHANGED <<current, cpu>>
     ELSE /\ proc' = [proc EXCEPT ![current] = Halted(cur)]
          /\ switch_task
  /\ UNCHANGED <<queue, next_pid, file>>

\* Back from switch_task: a signal ends the wait, else the loop condition.
wait_test ==
  /\ Running("wait")
  /\ proc' = IF cur.is_interrupted
             THEN [proc EXCEPT ![current] = Interrupted(cur)]
             ELSE [proc EXCEPT ![current].pc = IF cur.halts THEN "again" ELSE "reap"]
  /\ UNCHANGED <<queue, current, cpu, next_pid, file>>

wait_again ==
  /\ Running("again")
  /\ proc' = [proc EXCEPT ![current] = Halted(cur)]
  /\ switch_task
  /\ UNCHANGED <<queue, next_pid, file>>

wait_return ==
  /\ Running("reap")
  /\ proc' = IF cur.is_interrupted
             THEN [proc EXCEPT ![current] = Interrupted(cur)]
             ELSE [Reap EXCEPT ![current].pc = "user"]
  /\ UNCHANGED <<queue, current, cpu, next_pid, file>>

syscall_msleep == /\ Running("user")
                  /\ proc' = [proc EXCEPT ![current].asleep = TRUE]
                  /\ switch_task
                  /\ UNCHANGED <<queue, next_pid, file>>

\* poll with nothing ready, and its return (interrupts are off again).
poll == /\ Running("user")
        /\ proc' = [proc EXCEPT ![current] = [@ EXCEPT !.blocked = TRUE, !.pc = "poll"]]
        /\ switch_task
        /\ UNCHANGED <<queue, next_pid, file>>
poll_return ==
  /\ Running("poll")
  /\ proc' = [proc EXCEPT ![current] =
                [@ EXCEPT !.blocked = FALSE, !.pc = "user", !.is_interrupted = FALSE,
                          !.is_halted = cur.is_halted /\ ~cur.is_interrupted]]
  /\ UNCHANGED <<queue, current, cpu, next_pid, file>>
----------------------------------------------------------------------------
\* procfs: opening finds the target in the ready queue and counts a reference.
open_process(f, p) ==
  /\ Running("user") /\ file[f] = NoFile /\ p \in Range(queue)
  /\ file' = [file EXCEPT ![f] = [target |-> p, holders |-> {current}]]
  /\ proc' = Pin(proc, p)
  /\ UNCHANGED <<queue, current, cpu, next_pid>>

process_close(f) ==
  /\ Running("user") /\ f \in Held(current)
  /\ file' = Closed(current, {f})
  /\ proc' = process_remove_reference(proc, Released(current, {f}))
  /\ UNCHANGED <<queue, current, cpu, next_pid>>

\* Writing to /proc/<pid>/signal; the target may have exited since the open.
process_write(f, sig) == /\ Running("user") /\ f \in Held(current)
                         /\ signal_process(file[f].target, sig)

halt == cpu \notin {"run", "sched"} /\ UNCHANGED vars

Next == \/ exit \/ fork \/ fork_fails \/ page_fault
        \/ syscall_wait \/ wait_test \/ wait_again \/ wait_return
        \/ syscall_msleep \/ poll \/ poll_return
        \/ int_clock \/ next_task \/ halt
        \/ \E p \in Pids : Expire(p) \/ Ready(p) \/ \E s \in Sigs : kill(p, s)
        \/ \E s \in Sigs : set_signal_handler(s)
        \/ \E f \in Fds : \/ process_close(f)
                          \/ \E p \in Pids : open_process(f, p)
                          \/ \E s \in Sigs : process_write(f, s)

\* After boot: the kernel's task has forked init and sleeps.
Init == /\ proc = [p \in Pids |->
                     CASE p = 0 -> [Fresh(None) EXCEPT !.child = 1, !.asleep = TRUE]
                       [] p = 1 -> Fresh(0)
                       [] OTHER -> Unused]
        /\ queue = <<0, 1>> /\ current = 1 /\ cpu = "run" /\ next_pid = 2
        /\ file = [f \in Fds |-> NoFile]

\* The timer keeps ticking, the search of next_task goes on and time passes.
Spec == /\ Init /\ [][Next]_vars
        /\ WF_vars(int_clock) /\ WF_vars(next_task)
        /\ \A p \in 1..MaxPid : WF_vars(Expire(p))
----------------------------------------------------------------------------
PcSet == {"user", "wait", "again", "reap", "poll"}
Stops == {"init_exit", "double_free", "kernel_exit", "not_reached"}

process_t == [mem : {"unused", "used", "freed"}, dead : BOOLEAN, count : Nat,
              parent : Pids \cup {None}, child : Pids \cup {None}, reaped : BOOLEAN,
              pc : PcSet, halts : BOOLEAN, is_halted : BOOLEAN,
              is_interrupted : BOOLEAN, asleep : BOOLEAN, blocked : BOOLEAN,
              child_rc : Pids \cup {None}, handlers : SUBSET Sigs]

TypeOK ==
  /\ proc \in [Pids -> process_t]
  /\ queue \in Seq(Pids) /\ current \in Pids
  /\ cpu \in {"run", "sched"} \cup Stops /\ next_pid \in 2..(MaxPid + 1)
  /\ file \in [Fds -> [target : Pids \cup {None}, holders : SUBSET Pids]]

Created == {p \in Pids : proc[p].mem # "unused"}

\* Everything that counts as a reference to process_t p: p itself until it
\* exits, the parent's ->child until wait drops it (overwriting ->child by
\* another fork does not), every child ever forked, every open process file.
Own(ps, p) == IF ps[p].dead THEN 0 ELSE 1
ByParent(ps, p) == IF ps[p].parent = None \/ ps[p].reaped THEN 0 ELSE 1
Children(ps, p) == {q \in Pids : ps[q].parent = p}
Files(fl, p) == {f \in Fds : fl[f].target = p}
Refs(p) == Own(proc, p) + ByParent(proc, p)
           + Cardinality(Children(proc, p)) + Cardinality(Files(file, p))

\* The types are right, reference_count is exact, and a structure is freed exactly
\* when it reaches zero: the assertions of process_remove_reference and
\* exit_process hold.
RefInv == /\ TypeOK
          /\ \A p \in Created : /\ proc[p].count = Refs(p)
                                /\ proc[p].mem = "freed" <=> Refs(p) = 0

\* No pointer leads to a freed process_t: not the parent or child pointer of a
\* structure that exists, not an open process file, not current_task.
NoDangling ==
  /\ \A p \in Created : proc[p].mem = "used" =>
       \A q \in {proc[p].parent, proc[p].child} \ {None} : proc[q].mem = "used"
  /\ \A f \in Fds : file[f] # NoFile => proc[file[f].target].mem = "used"
  /\ proc[current].mem = "used"

\* The ready queue holds exactly the processes that have not exited, behind
\* the kernel's task and init (which is why the successor loop of exit_process
\* ends), and the CPU is always given to one of them.
QueueInv ==
  /\ \A i, j \in DOMAIN queue : queue[i] = queue[j] => i = j
  /\ Range(queue) = {p \in Created : ~proc[p].dead}
  /\ Len(queue) >= 2 /\ queue[1] = 0 /\ queue[2] = 1
  /\ current \in Range(queue)

Stopped == cpu \in Stops

\* A task that could run is eventually given the CPU.
NoStarvation == \A p \in 1..MaxPid :
  proc[p].mem = "used" /\ Eligible(p)
    ~> current = p \/ ~Eligible(p) \/ proc[p].dead \/ Stopped

\* Asserted by kfree: a block is freed once.
FreedOnce == cpu # "double_free"
=============================================================================
