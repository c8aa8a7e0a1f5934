------------------------------ MODULE FdTable ------------------------------
(***************************************************************************)
(* kernel/fs/vfs.c: the descriptor tables of the processes, the open files  *)
(* (vfs_fd_t) they share after fork and dup, and the inodes of pipe ends    *)
(* (kernel/fs/tmpfs.c), each of which points to the inode of the other end. *)
(* Every operation is a system call that does not sleep: one step.          *)
(***************************************************************************)
EXTENDS Integers, FiniteSets, FiniteSetsExt

CONSTANTS Procs, Boot,     \* processes; the one that exists first
          MaxSlot,         \* bound: descriptors 0..MaxSlot (the table grows by 64)
          CloseLimit,      \* free_process closes descriptors 0..CloseLimit-1 (100)
          Pipes            \* bound: the pipe() calls

ASSUME FdAssumption == /\ Boot \in Procs /\ IsFiniteSet(Procs) /\ IsFiniteSet(Pipes)
                       /\ MaxSlot \in Nat /\ CloseLimit \in Nat

FdSlots == 0..MaxSlot
Ends == Pipes \X {0, 1}
Peer(e) == <<e[1], 1 - e[2]>>
NoFd == <<"none">>

VARIABLES life,      \* "unborn", "alive" or "exited"
          fd_table,  \* file_descriptors: the file behind each descriptor
          file,      \* [mem, refs, open]: the vfs_fd_t and its inode
          lost,      \* ghost: references no table holds any more
          stopped    \* an assertion has failed

fd_vars == <<life, fd_table, file, lost, stopped>>

Able(p) == ~stopped /\ life[p] = "alive"
FreeSlots(p) == {s \in FdSlots : fd_table[p][s] = NoFd}
----------------------------------------------------------------------------
\* pipe(): two inodes, each pointing to the other, in the first free slots.
pipe(p, i) ==
  /\ Able(p) /\ file[<<i, 0>>].mem = "unused" /\ Cardinality(FreeSlots(p)) >= 2
  /\ LET s0 == Min(FreeSlots(p))
         s1 == Min(FreeSlots(p) \ {s0})
     IN fd_table' = [fd_table EXCEPT ![p][s0] = <<i, 0>>, ![p][s1] = <<i, 1>>]
  /\ file' = [file EXCEPT ![<<i, 0>>] = [mem |-> "used", refs |-> 1, open |-> TRUE],
                          ![<<i, 1>>] = [mem |-> "used", refs |-> 1, open |-> TRUE]]
  /\ UNCHANGED <<life, lost, stopped>>

\* Mutant: the reference is not counted.
ShareBug(fs, e) == fs

\* One more descriptor for an open file.
Share(fs, e) == [fs EXCEPT ![e].refs = @ + 1]

vfs_dup(p, s) ==
  /\ Able(p) /\ fd_table[p][s] # NoFd /\ FreeSlots(p) # {}
  /\ fd_table' = [fd_table EXCEPT ![p][Min(FreeSlots(p))] = fd_table[p][s]]
  /\ file' = Share(file, fd_table[p][s])
  /\ UNCHANGED <<life, lost, stopped>>

\* Mutant: tmp_close does not tell the other end.
HangupBug(e, gone) == file[e].open /\ e \notin gone

\* is_open of e after tmp_close of the last reference to each end in gone.
Hangup(e, gone) == file[e].open /\ e \notin gone /\ Peer(e) \notin gone

\* The descriptors among S of p that lead to e.
Row(p, S, e) == {s \in S : fd_table[p][s] = e}

\* The files after vfs_close_process on the descriptors S of p: the last
\* reference closes and frees the inode.
vfs_close_process(p, S) ==
  LET n(e) == Cardinality(Row(p, S, e))
      gone == {e \in Ends : n(e) > 0 /\ file[e].refs = n(e)}
  IN [e \in Ends |-> [mem  |-> IF e \in gone THEN "freed" ELSE file[e].mem,
                      refs |-> file[e].refs - n(e),
                      open |-> Hangup(e, gone)]]

vfs_close(p, s) ==
  /\ Able(p) /\ fd_table[p][s] # NoFd
  /\ file' = vfs_close_process(p, {s})
  /\ fd_table' = [fd_table EXCEPT ![p][s] = NoFd]
  /\ UNCHANGED <<life, lost, stopped>>

\* dup2 closes the new descriptor first and asserts that the old one is open.
vfs_dup2(p, org, new) ==
  /\ Able(p) /\ org # new
  /\ IF fd_table[p][org] = NoFd
     THEN stopped' = TRUE /\ UNCHANGED <<life, fd_table, file, lost>>
     ELSE /\ file' = Share(vfs_close_process(p, {new}), fd_table[p][org])
          /\ fd_table' = [fd_table EXCEPT ![p][new] = fd_table[p][org]]
          /\ UNCHANGED <<life, lost, stopped>>

\* create_process: the child shares every open file of its parent.
Inherited(p) == [e \in Ends |->
  [file[e] EXCEPT !.refs = @ + Cardinality(Row(p, FdSlots, e))]]

fork(p, c) ==
  /\ Able(p) /\ life[c] = "unborn"
  /\ life' = [life EXCEPT ![c] = "alive"]
  /\ fd_table' = [fd_table EXCEPT ![c] = fd_table[p]]
  /\ file' = Inherited(p)
  /\ UNCHANGED <<lost, stopped>>

\* clone_directory fails: the references taken for the child stay (bound: a
\* process identifier is spent).
fork_fails(p, c) ==
  /\ Able(p) /\ life[c] = "unborn"
  /\ life' = [life EXCEPT ![c] = "exited"]
  /\ file' = Inherited(p)
  /\ lost' = [e \in Ends |-> lost[e] + Cardinality(Row(p, FdSlots, e))]
  /\ UNCHANGED <<fd_table, stopped>>

\* free_process: descriptors beyond the limit stay referenced.
exit(p) ==
  LET S == {s \in FdSlots : s < CloseLimit}
  IN /\ Able(p)
     /\ life' = [life EXCEPT ![p] = "exited"]
     /\ file' = vfs_close_process(p, S)
     /\ lost' = [e \in Ends |->
                   lost[e] + Cardinality(Row(p, FdSlots \ S, e))]
     /\ fd_table' = [fd_table EXCEPT ![p] = [s \in FdSlots |-> NoFd]]
     /\ UNCHANGED stopped

FdInit == /\ life = [p \in Procs |-> IF p = Boot THEN "alive" ELSE "unborn"]
          /\ fd_table = [p \in Procs |-> [s \in FdSlots |-> NoFd]]
          /\ file = [e \in Ends |-> [mem |-> "unused", refs |-> 0, open |-> FALSE]]
          /\ lost = [e \in Ends |-> 0]
          /\ stopped = FALSE

FdNext == \E p \in Procs :
          \/ exit(p)
          \/ \E c \in Procs : fork(p, c) \/ fork_fails(p, c)
          \/ \E i \in Pipes : pipe(p, i)
          \/ \E s \in FdSlots : \/ vfs_dup(p, s) \/ vfs_close(p, s)
                                \/ \E t \in FdSlots : vfs_dup2(p, s, t)

FdSpec == FdInit /\ [][FdNext]_fd_vars
----------------------------------------------------------------------------
FdTypeOK == /\ life \in [Procs -> {"unborn", "alive", "exited"}]
            /\ fd_table \in [Procs -> [FdSlots -> Ends \cup {NoFd}]]
            /\ file \in [Ends -> [mem : {"unused", "used", "freed"}, refs : Nat,
                                  open : BOOLEAN]]
            /\ lost \in [Ends -> Nat] /\ stopped \in BOOLEAN

\* The descriptors that lead to e in the tables t.
Holders(t, e) == {ps \in Procs \X FdSlots : t[ps[1]][ps[2]] = e}

\* The types are right, and reference_count is the number of descriptors that
\* lead to a file, plus the references that a failed fork or an exit with too
\* many descriptors lost; the inode is freed exactly when it reaches zero.
RefsExact ==
  /\ FdTypeOK
  /\ \A e \in Ends :
       /\ file[e].refs = Cardinality(Holders(fd_table, e)) + lost[e]
       /\ file[e].mem = "used" <=> file[e].refs > 0

\* A pipe end is open exactly as long as the other end exists, so tmp_write and
\* tmp_close, which follow read_inode only when is_open is set, never touch a
\* freed inode, and a write to a pipe that nobody reads fails.
PeerSafe == \A e \in Ends : file[e].mem = "used" =>
              (file[e].open <=> file[Peer(e)].mem = "used")
=============================================================================
