------------------------------- MODULE Shell -------------------------------
(***************************************************************************)
(* Execution in minibox/utilities/sh/sh.c: the shell forks one process per  *)
(* command of a pipeline and waits with wait(), which returns any child.    *)
(* A pipe end is <<number, "r" or "w">>; a process holds what it inherited. *)
(* Programs: "gen" writes more than a pipe takes, "sink" reads to the end,  *)
(* "true" and "false" end at once.                                          *)
(***************************************************************************)
EXTENDS ShellParse, FiniteSets

CONSTANTS SScripts,  \* token sequences the shell may be given
          SPipeCap,  \* cells a pipe holds
          SGen       \* cells "gen" writes

VARIABLES sast,    \* nodes of the script still to run
          src,     \* rc of execute_ast
          sactive, \* active_processes
          spc,     \* "next", "exec", "parent", "wait", "exit"
          stage,   \* commands of the pipeline still to start
          sin,     \* pipe the next command reads, 0 for the terminal
          sfds,    \* pipe ends the shell holds
          procs,   \* its children, in the order they were forked
          pipes,   \* cells in each pipe
          salone   \* the command is a simple one, with no child left from before it

sh_vars == <<sast, src, sactive, spc, stage, sin, sfds, procs, pipes, salone>>

Builtins == {"cd", "exit"}
Holds(end) == end \in sfds \/ \E k \in DOMAIN procs : procs[k].at \in {"forked", "runs"} /\ end \in procs[k].fds

-----------------------------------------------------------------------------
\* execute_ast: a condition that fails skips the node after it.
skip_node == /\ spc = "next" /\ sast # <<>> /\ sast[1].type # "COMMAND"
             /\ LET skips == \/ sast[1].type = "CONDITIONAL_AND" /\ src # 0
                             \/ sast[1].type = "CONDITIONAL_NOT" /\ src = 0
                IN sast' = From(sast, IF skips THEN 3 ELSE 2)
             /\ UNCHANGED <<src, sactive, spc, stage, sin, sfds, procs, pipes, salone>>

start_command == /\ spc = "next" /\ sast # <<>> /\ sast[1].type = "COMMAND"
                 /\ stage' = <<sast[1]>> \o sast[1].rhs /\ sin' = 0 /\ spc' = "exec"
                 /\ sast' = Tail(sast)
                 /\ salone' = /\ ~sast[1].bg /\ sast[1].rhs = <<>> /\ sast[1].val \notin Builtins
                               /\ \A k \in DOMAIN procs : procs[k].at = "reaped"
                 /\ UNCHANGED <<src, sactive, sfds, procs, pipes>>

\* cd works or not; exit ends the shell.  Neither waits for the pipeline before it.
execute_builtin == /\ spc = "exec" /\ stage[1].val \in Builtins
                   /\ \/ stage[1].val = "cd" /\ src' \in {0, 1} /\ spc' = "next"
                      \/ stage[1].val = "exit" /\ spc' = "exit" /\ UNCHANGED src
                   /\ stage' = <<>>
                   /\ UNCHANGED <<sast, sactive, sin, sfds, procs, pipes, salone>>

\* pipe() when another command follows, then fork().
execute_binary ==
  /\ spc = "exec" /\ stage[1].val \notin Builtins
  /\ LET piped == Len(stage) > 1
         p     == Len(pipes) + 1
         fds   == sfds \cup (IF piped THEN {<<p, "r">>, <<p, "w">>} ELSE {})
     IN /\ pipes' = IF piped THEN Append(pipes, 0) ELSE pipes
        /\ sfds' = fds
        /\ procs' = Append(procs, [prog |-> stage[1].val, in |-> sin, out |-> IF piped THEN p ELSE 0,
                                   fds |-> fds, left |-> SGen, at |-> "forked", code |-> 0])
  /\ spc' = "parent"
  /\ UNCHANGED <<sast, src, sactive, stage, sin, salone>>

\* close(out); the end the next command reads from stays open in the shell.
close_out(p) == sfds \ {<<p, "w">>}

\* Mutant: every command of the pipeline counts, not only the last.
ActiveCount_bug(more) == sactive + 1
\* active_processes++ is reached for the last command of a pipeline only.
ActiveCount(more) == IF more THEN sactive ELSE sactive + 1

\* The rest of execute_binary in the parent.
after_fork ==
  /\ spc = "parent"
  /\ LET p == Last(procs).out
     IN /\ sactive' = ActiveCount(p # 0)
        /\ sfds' = IF p # 0 THEN close_out(p) ELSE sfds
        /\ sin' = p
        /\ stage' = Tail(stage)
        /\ spc' = IF p # 0 THEN "exec" ELSE IF stage[1].bg THEN "next" ELSE "wait"
        /\ src' = IF p = 0 /\ stage[1].bg THEN Len(procs) ELSE src
  /\ UNCHANGED <<sast, procs, pipes, salone>>

Waited(active) == active = 0

\* wait returns any child that ended.
wait == /\ spc = "wait" /\ ~Waited(sactive)
        /\ \E k \in DOMAIN procs :
             /\ procs[k].at = "zombie"
             /\ procs' = [procs EXCEPT ![k].at = "reaped"]
             /\ src' = procs[k].code
        /\ sactive' = sactive - 1
        /\ UNCHANGED <<sast, spc, stage, sin, sfds, pipes, salone>>
waited == /\ spc = "wait" /\ Waited(sactive) /\ spc' = "next"
          /\ UNCHANGED <<sast, src, sactive, stage, sin, sfds, procs, pipes, salone>>

-----------------------------------------------------------------------------
ShellKeeps == UNCHANGED <<sast, src, sactive, spc, stage, sin, sfds, salone>>

\* close(slave_input) and the two dup2 calls, then execvp.
child_setup(k) == /\ procs[k].at = "forked"
                  /\ procs' = [procs EXCEPT ![k].at = "runs", ![k].fds = @ \ {<<procs[k].out, "r">>}]
                  /\ UNCHANGED pipes /\ ShellKeeps

Ends(k, code) == procs' = [procs EXCEPT ![k].at = "zombie", ![k].code = code]

\* A program that neither reads nor writes a pipe.
child_ends(k) == /\ procs[k].at = "runs"
                 /\ \/ procs[k].prog = "true" /\ Ends(k, 0)
                    \/ procs[k].prog = "false" /\ Ends(k, 1)
                    \/ procs[k].prog = "" /\ Ends(k, 1)
                    \/ procs[k].prog = "gen" /\ (procs[k].out = 0 \/ procs[k].left = 0) /\ Ends(k, 0)
                    \/ procs[k].prog = "sink" /\ procs[k].in = 0 /\ Ends(k, 0)
                 /\ UNCHANGED pipes /\ ShellKeeps

\* A write to a pipe nobody reads fails; one to a full pipe waits.
child_writes(k) ==
  LET p == procs[k].out
  IN /\ procs[k].at = "runs" /\ procs[k].prog = "gen" /\ p # 0 /\ procs[k].left > 0
     /\ IF ~Holds(<<p, "r">>) THEN Ends(k, 1) /\ UNCHANGED pipes
        ELSE /\ pipes[p] < SPipeCap
             /\ pipes' = [pipes EXCEPT ![p] = @ + 1]
             /\ procs' = [procs EXCEPT ![k].left = @ - 1]
     /\ ShellKeeps

\* A read of an empty pipe ends when nobody is left to write.
child_reads(k) ==
  LET p == procs[k].in
  IN /\ procs[k].at = "runs" /\ procs[k].prog = "sink" /\ p # 0
     /\ \/ pipes[p] > 0 /\ pipes' = [pipes EXCEPT ![p] = @ - 1] /\ UNCHANGED procs
        \/ pipes[p] = 0 /\ ~Holds(<<p, "w">>) /\ Ends(k, 0) /\ UNCHANGED pipes
     /\ ShellKeeps

-----------------------------------------------------------------------------
Ended(k) == k \in DOMAIN procs /\ procs[k].at \in {"zombie", "reaped"}

ShInit == /\ sast \in {generate_ast(t) : t \in SScripts}
          /\ src = -1 /\ sactive = 0 /\ spc = "next" /\ stage = <<>> /\ sin = 0
          /\ sfds = {} /\ procs = <<>> /\ pipes = <<>> /\ salone = FALSE

Sh == skip_node \/ start_command \/ execute_builtin \/ execute_binary \/ after_fork \/ wait \/ waited
Child(k) == child_setup(k) \/ child_ends(k) \/ child_writes(k) \/ child_reads(k)
ShNext == Sh \/ \E k \in DOMAIN procs : Child(k)

\* The scheduler runs every runnable process.
ShFairness == /\ WF_sh_vars(Sh)
              /\ \A k \in 1..6 : WF_sh_vars(k \in DOMAIN procs /\ Child(k))

\* The status && and || look at is that of the command before them, when it is
\* a simple one and no earlier pipeline or background command has left a child
\* that wait could return in its place.
StatusIsOwn == spc = "next" /\ salone => Last(procs).at = "reaped" /\ src = Last(procs).code

\* Every script comes to its end: though wait may return the children of an
\* earlier pipeline, and a writer nobody reads may be left behind for ever,
\* there are always as many children to come as active_processes says.
PromptReturns == <>(spc = "exit" \/ (spc = "next" /\ sast = <<>>))

\* A command that reads a pipe sees its end once the writer is gone: no other
\* process is left with the end that is written to.
EofComes == []<>(\A k \in 2..Len(procs) : Ended(k - 1) /\ procs[k].prog = "sink" /\ procs[k].in # 0 => Ended(k))

\* The children execute_binary starts and counts in active_processes come
\* back to the right question: the shell ends, the readers of its pipes end, and the
\* status it goes on is the right one.
ShellSound == []StatusIsOwn /\ PromptReturns /\ EofComes
=============================================================================
