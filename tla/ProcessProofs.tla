--------------------------- MODULE ProcessProofs ---------------------------
(***************************************************************************)
(* Proofs about Process: reference counts are exact, no pointer leads to a  *)
(* freed process_t and the ready queue holds the live processes, for any    *)
(* number of processes and process files.  The three are proved together:   *)
(* the counts need live processes only to fork and to be told of an exit,   *)
(* which the queue gives, and pointers are safe because each is counted.    *)
(***************************************************************************)
EXTENDS Process, FiniteSetTheorems, TLAPS

Waits == {"wait", "again", "reap"}

\* What the pointers mean: a parent exists, a child names its parent and has
\* not been waited for, a wait has a child, a file has a target.
Links ==
  /\ \A p \in Pids :
       /\ p >= next_pid => proc[p].mem = "unused"
       /\ proc[p].mem = "unused" => proc[p].parent = None
       /\ proc[p].parent # None => proc[proc[p].parent].mem # "unused"
       /\ proc[p].child # None => /\ proc[proc[p].child].parent = p
                                  /\ ~proc[proc[p].child].reaped
       /\ proc[p].pc \in Waits => proc[p].child # None
  /\ \A f \in Fds : /\ file[f].target # None => proc[file[f].target].mem # "unused"
                    /\ file[f].target = None => file[f].holders = {}

\* The inductive invariant.
PInv == RefInv /\ QueueInv /\ Links

\* The fields that the invariant reads, of two structures.
Alike(r, s) == /\ r.mem = s.mem /\ (r.dead <=> s.dead) /\ r.count = s.count
               /\ r.parent = s.parent /\ r.child = s.child /\ (r.reaped <=> s.reaped)

\* None is no process identifier.
LEMMA NoneNoPid == Pids \subseteq Nat /\ None \in Nat /\ None \notin Pids /\ 0 \in Pids /\ 1 \in Pids
BY ProcessAssumption DEF Pids, None

\* Sets of processes and files are finite.
LEMMA FiniteSets1 ==
  /\ \A S \in SUBSET Pids : IsFiniteSet(S) /\ Cardinality(S) \in Nat
  /\ \A S \in SUBSET Fds : IsFiniteSet(S) /\ Cardinality(S) \in Nat
<1>1. IsFiniteSet(Pids)
  BY ProcessAssumption, FS_Interval DEF Pids
<1> QED
  BY <1>1, ProcessAssumption, FS_Subset, FS_CardinalityType

\* What stands in a sequence over a set is in the set.
LEMMA RangeSubset ==
  ASSUME NEW S, NEW s \in Seq(S)
  PROVE  Range(s) \subseteq S
BY DEF Range

\* The parts of a reference count are numbers.
LEMMA PartsNat ==
  ASSUME NEW ps, NEW fl, NEW p
  PROVE  /\ Own(ps, p) \in 0..1 /\ ByParent(ps, p) \in 0..1
         /\ Children(ps, p) \in SUBSET Pids /\ Cardinality(Children(ps, p)) \in Nat
         /\ Files(fl, p) \in SUBSET Fds /\ Cardinality(Files(fl, p)) \in Nat
BY FiniteSets1 DEF Own, ByParent, Children, Files

\* A counted pointer keeps the structure it leads to: parent, child, target of a
\* process file, and a process that has not exited.
LEMMA Counted ==
  ASSUME PInv, NEW p \in Pids, proc[p].mem # "unused",
         \/ ~proc[p].dead
         \/ proc[p].parent # None /\ ~proc[p].reaped
         \/ \E q \in Pids : proc[q].parent = p
         \/ \E f \in Fds : file[f].target = p
  PROVE  proc[p].mem = "used" /\ proc[p].count > 0 /\ proc[p].count = Refs(p)
<1>1. Refs(p) > 0
  <2>1. Cardinality(Children(proc, p)) = 0 => Children(proc, p) = {}
    BY PartsNat, FiniteSets1, FS_EmptySet, ZenonT(60)
  <2>2. Cardinality(Files(file, p)) = 0 => Files(file, p) = {}
    BY PartsNat, FiniteSets1, FS_EmptySet, ZenonT(60)
  <2>3. CASE ~proc[p].dead \/ (proc[p].parent # None /\ ~proc[p].reaped)
    BY <2>3, PartsNat DEF Refs, Own, ByParent
  <2>4. CASE \E q \in Pids : proc[q].parent = p
    <3>1. Children(proc, p) # {}
      BY <2>4 DEF Children
    <3> QED
      BY <2>1, <3>1, PartsNat DEF Refs
  <2>5. CASE \E f \in Fds : file[f].target = p
    <3>1. Files(file, p) # {}
      BY <2>5 DEF Files
    <3> QED
      BY <2>2, <3>1, PartsNat DEF Refs
  <2> QED
    BY <2>3, <2>4, <2>5
<1>2. proc[p] \in process_t /\ p \in Created
  BY DEF PInv, RefInv, TypeOK, Created
<1>3. proc[p].mem \in {"used", "freed"} /\ proc[p].count = Refs(p) /\ (proc[p].mem = "freed" <=> Refs(p) = 0)
  BY <1>2 DEF PInv, RefInv, process_t
<1> QED
  BY <1>1, <1>3

\* The processes in the queue are exactly the created ones that have not exited.
LEMMA InQueue ==
  ASSUME PInv, NEW p \in Pids
  PROVE  /\ p \in Range(queue) <=> proc[p].mem # "unused" /\ ~proc[p].dead
         /\ p \in Range(queue) => proc[p].mem = "used"
         /\ 0 \in Range(queue) /\ 1 \in Range(queue) /\ current \in Range(queue) /\ current \in Pids
<1>1. p \in Range(queue) <=> proc[p].mem # "unused" /\ ~proc[p].dead
  BY DEF PInv, QueueInv, Created
<1>2. 0 \in Range(queue) /\ 1 \in Range(queue)
  BY DEF PInv, QueueInv, Range, RefInv, TypeOK
<1> QED
  BY <1>1, <1>2, Counted DEF PInv, QueueInv, RefInv, TypeOK

\* The invariant gives the property that no pointer dangles.
LEMMA Safe == PInv => NoDangling
<1> SUFFICES ASSUME PInv PROVE NoDangling
  OBVIOUS
<1>1. proc \in [Pids -> process_t] /\ current \in Pids /\ file \in [Fds -> [target : Pids \cup {None}, holders : SUBSET Pids]]
  BY DEF PInv, RefInv, TypeOK
<1>2. ASSUME NEW p \in Pids, proc[p].parent # None PROVE proc[proc[p].parent].mem = "used"
  <2>1. proc[p].parent \in Pids
    BY <1>1, <1>2 DEF process_t
  <2>2. proc[proc[p].parent].mem # "unused"
    BY <1>2 DEF PInv, Links
  <2> QED
    BY <2>1, <2>2, Counted
<1>3. ASSUME NEW p \in Pids, proc[p].child # None PROVE proc[proc[p].child].mem = "used"
  <2>1. proc[p].child \in Pids
    BY <1>1, <1>3 DEF process_t
  <2>2. proc[proc[p].child].parent = p /\ ~proc[proc[p].child].reaped
    BY <1>3 DEF PInv, Links
  <2>3. proc[proc[p].child].mem # "unused"
    BY <2>1, <2>2, NoneNoPid, ZenonT(60) DEF PInv, Links
  <2> QED
    BY <2>1, <2>2, <2>3, Counted, NoneNoPid, ZenonT(60)
<1>4. ASSUME NEW f \in Fds, file[f] # NoFile PROVE proc[file[f].target].mem = "used"
  <2>1. file[f].target # None
    BY <1>1, <1>4 DEF PInv, Links, NoFile
  <2>2. file[f].target \in Pids
    BY <1>1, <2>1
  <2>3. proc[file[f].target].mem # "unused"
    BY <2>1 DEF PInv, Links
  <2> QED
    BY <2>2, <2>3, Counted
<1> QED
  BY <1>2, <1>3, <1>4, InQueue, NoneNoPid, ZenonT(60) DEF NoDangling, Created

\* A step that changes no pointer, count or life of a structure keeps the
\* invariant: what the scheduler, the timer and the sleeping calls do.
LEMMA Unmoved ==
  ASSUME PInv, TypeOK', UNCHANGED queue, current' \in Range(queue), next_pid' >= next_pid,
         \A q \in Pids : Alike(proc'[q], proc[q]) /\ (proc'[q].pc \in Waits => proc[q].child # None),
         \A f \in Fds : /\ file'[f].target = file[f].target
                        /\ file[f].target = None => file'[f].holders = {}
  PROVE  PInv'
<1>1. \A q \in Pids : /\ proc'[q].mem = proc[q].mem /\ (proc'[q].dead <=> proc[q].dead)
                      /\ proc'[q].count = proc[q].count /\ proc'[q].parent = proc[q].parent
                      /\ proc'[q].child = proc[q].child /\ (proc'[q].reaped <=> proc[q].reaped)
                      /\ proc'[q].pc \in Waits => proc[q].child # None
  BY DEF Alike
<1>2. Created' = Created
  BY <1>1 DEF Created
<1>3. \A p \in Pids : Refs(p)' = Refs(p)
  <2> TAKE p \in Pids
  <2>1. Children(proc', p) = Children(proc, p) /\ Files(file', p) = Files(file, p)
    BY <1>1 DEF Children, Files
  <2>2. Own(proc', p) = Own(proc, p) /\ ByParent(proc', p) = ByParent(proc, p)
    BY <1>1 DEF Own, ByParent
  <2> QED
    BY <2>1, <2>2 DEF Refs
<1>4. RefInv'
  BY <1>1, <1>2, <1>3 DEF PInv, RefInv, Created
<1>5. QueueInv'
  <2>1. {p \in Created : proc[p].dead}' = {p \in Created : proc[p].dead}
    BY <1>1, <1>2 DEF Created
  <2> QED
    BY <1>1, <1>2, <2>1 DEF PInv, QueueInv, Created, Range
<1>6. Links'
  <2>1. ASSUME NEW p \in Pids
        PROVE  /\ p >= next_pid' => proc'[p].mem = "unused"
               /\ proc'[p].mem = "unused" => proc'[p].parent = None
               /\ proc'[p].parent # None => proc'[proc'[p].parent].mem # "unused"
               /\ proc'[p].child # None => /\ proc'[proc'[p].child].parent = p
                                           /\ ~proc'[proc'[p].child].reaped
               /\ proc'[p].pc \in Waits => proc'[p].child # None
    <3>1. proc[p] \in process_t /\ next_pid \in Nat /\ next_pid' \in Nat /\ p \in Nat
      BY NoneNoPid DEF PInv, RefInv, TypeOK
    <3>2. proc[p].parent \in Pids \cup {None} /\ proc[p].child \in Pids \cup {None}
      BY <3>1 DEF process_t
    <3>3. p >= next_pid' => p >= next_pid
      BY <3>1
    <3> QED
      BY <1>1, <3>2, <3>3 DEF PInv, Links
  <2>2. ASSUME NEW f \in Fds
        PROVE  /\ file'[f].target # None => proc'[file'[f].target].mem # "unused"
               /\ file'[f].target = None => file'[f].holders = {}
    <3>1. file[f].target \in Pids \cup {None}
      BY DEF PInv, RefInv, TypeOK
    <3> QED
      BY <1>1, <3>1 DEF PInv, Links
  <2> QED
    BY <2>1, <2>2 DEF Links
<1> QED
  BY <1>4, <1>5, <1>6 DEF PInv

\* A change of one structure in fields that the invariant does not read.
LEMMA OneRow ==
  ASSUME PInv, NEW c \in Pids, NEW r \in process_t, Alike(r, proc[c]),
         r.pc \in Waits => proc[c].child # None,
         proc' = [proc EXCEPT ![c] = r],
         UNCHANGED <<queue, next_pid, file>>, current' \in Range(queue),
         cpu' \in {"run", "sched"} \cup Stops
  PROVE  PInv'
<1>1. proc \in [Pids -> process_t] /\ queue \in Seq(Pids) /\ next_pid \in 2..(MaxPid + 1)
  BY DEF PInv, RefInv, TypeOK
<1>2. proc' \in [Pids -> process_t] /\ proc'[c] = r /\ \A q \in Pids \ {c} : proc'[q] = proc[q]
  BY <1>1
<1>3. TypeOK'
  <2>1. current' \in Pids
    BY <1>1 DEF Range
  <2> QED
    BY <1>2, <2>1 DEF TypeOK, PInv, RefInv, Stops
<1>4. ASSUME NEW q \in Pids
      PROVE  Alike(proc'[q], proc[q]) /\ (proc'[q].pc \in Waits => proc[q].child # None)
  <2>1. CASE q = c
    BY <1>2, <2>1
  <2>2. CASE q # c
    BY <1>2, <2>2 DEF Alike, PInv, Links
  <2> QED
    BY <2>1, <2>2
<1>5. \A f \in Fds : file'[f].target = file[f].target /\ (file[f].target = None => file'[f].holders = {})
  BY DEF PInv, Links
<1>6. next_pid' >= next_pid
  <2>1. next_pid \in Int
    BY <1>1, ProcessAssumption
  <2> QED
    BY <2>1
<1> QED
  BY <1>3, <1>4, <1>5, <1>6, Unmoved

\* A step that leaves the structures and files alone.
LEMMA NoRow ==
  ASSUME PInv, UNCHANGED <<proc, queue, next_pid, file>>, current' \in Range(queue),
         cpu' \in {"run", "sched"} \cup Stops
  PROVE  PInv'
<1>1. proc \in [Pids -> process_t] /\ current \in Pids
  BY DEF PInv, RefInv, TypeOK
<1>2. proc' = [proc EXCEPT ![current] = proc[current]] /\ proc[current] \in process_t
  BY <1>1
<1> QED
  BY <1>1, <1>2, OneRow, ZenonT(60) DEF Alike, PInv, Links

\* The search of next_task and of a dying task stays in the queue.
LEMMA SuccessorInQueue ==
  ASSUME PInv, NEW s \in Range(queue), NEW k \in Nat
  PROVE  /\ Successor(s, k) \in Range(queue)
         /\ k = 1 => Successor(s, k) # s
<1> DEFINE i == CHOOSE j \in DOMAIN queue : queue[j] = s
           n == Len(queue)
           m == (i - 1 + k) % n
<1>1. queue \in Seq(Pids) /\ n \in Nat /\ n >= 2 /\ DOMAIN queue = 1..n
  BY DEF PInv, RefInv, TypeOK, QueueInv
<1>2. i \in DOMAIN queue /\ queue[i] = s
  BY DEF Range
<1>3. Successor(s, k) = queue[1 + m]
  BY DEF Successor
<1>4. i \in 1..n
  BY <1>1, <1>2
<1> HIDE DEF i, n
<1>5. m \in 0..(n - 1)
  BY <1>1, <1>4
<1>6. 1 + m \in DOMAIN queue
  BY <1>1, <1>5
<1>7. k = 1 => 1 + m # i
  <2>1. k = 1 => m = i % n
    BY <1>4
  <2>2. CASE i = n
    <3>1. i % n = 0
      BY <1>1, <1>4, <2>2
    <3> QED
      BY <1>1, <1>4, <2>1, <2>2, <3>1
  <2>3. CASE i < n
    <3>1. i % n = i
      BY <1>1, <1>4, <2>3
    <3> QED
      BY <1>1, <1>4, <2>1, <2>3, <3>1
  <2> QED
    BY <1>1, <1>4, <2>2, <2>3
<1>8. queue[1 + m] \in Range(queue)
  BY <1>6 DEF Range
<1>9. k = 1 => queue[1 + m] # s
  BY <1>2, <1>6, <1>7 DEF PInv, QueueInv
<1> QED
  BY <1>3, <1>8, <1>9

\* process_remove_reference changes counts and frees at zero, nothing else.
LEMMA Dropped ==
  ASSUME NEW ps \in [Pids -> process_t], NEW n \in [Pids -> Nat],
         \A q \in Pids : n[q] <= ps[q].count
  PROVE  LET out == process_remove_reference(ps, n)
         IN  /\ out \in [Pids -> process_t]
             /\ \A q \in Pids :
                  /\ out[q].count = ps[q].count - n[q]
                  /\ out[q].mem = IF n[q] # 0 /\ ps[q].count = n[q] THEN "freed" ELSE ps[q].mem
                  /\ (out[q].dead <=> ps[q].dead) /\ (out[q].reaped <=> ps[q].reaped)
                  /\ out[q].parent = ps[q].parent /\ out[q].child = ps[q].child
                  /\ out[q].pc = ps[q].pc
<1> DEFINE out == process_remove_reference(ps, n)
<1>1. ASSUME NEW q \in Pids
      PROVE  /\ out[q] \in process_t
             /\ out[q].count = ps[q].count - n[q]
             /\ out[q].mem = IF n[q] # 0 /\ ps[q].count = n[q] THEN "freed" ELSE ps[q].mem
             /\ (out[q].dead <=> ps[q].dead) /\ (out[q].reaped <=> ps[q].reaped)
             /\ out[q].parent = ps[q].parent /\ out[q].child = ps[q].child
             /\ out[q].pc = ps[q].pc
  <2>1. out[q] = IF n[q] = 0 THEN ps[q]
                 ELSE [ps[q] EXCEPT !.count = @ - n[q],
                                    !.mem = IF ps[q].count = n[q] THEN "freed" ELSE @]
    BY DEF process_remove_reference
  <2>2. ps[q] \in process_t /\ n[q] \in Nat /\ n[q] <= ps[q].count /\ ps[q].count \in Nat
    BY DEF process_t
  <2>3. CASE n[q] = 0
    BY <2>1, <2>2, <2>3
  <2>4. CASE n[q] # 0
    <3>1. ps[q].count - n[q] \in Nat
      BY <2>2
    <3>2. CASE ps[q].count = n[q]
      <4>1. out[q] = [ps[q] EXCEPT !.count = ps[q].count - n[q], !.mem = "freed"]
        BY <2>1, <2>4, <3>2
      <4> HIDE DEF out
      <4> QED
        BY <2>2, <2>4, <3>1, <3>2, <4>1, ZenonT(60) DEF process_t
    <3>3. CASE ps[q].count # n[q]
      <4>1. out[q] = [ps[q] EXCEPT !.count = ps[q].count - n[q], !.mem = ps[q].mem]
        BY <2>1, <2>4, <3>3
      <4> HIDE DEF out
      <4> QED
        BY <2>2, <2>4, <3>1, <3>3, <4>1, ZenonT(60) DEF process_t
    <3> QED
      BY <3>2, <3>3
  <2> QED
    BY <2>3, <2>4
<1>2. out = [q \in Pids |-> out[q]]
  BY DEF process_remove_reference
<1> HIDE DEF out
<1>3. out \in [Pids -> process_t]
  BY <1>1, <1>2
<1> QED
  BY <1>1, <1>3 DEF out

\* The files of q whose last holder p closes them.
LastHeld(p, fs, q) == {f \in fs : file[f].holders = {p} /\ file[f].target = q}

\* Closing files takes the released ones, and only those, from every target.
LEMMA ClosedCount ==
  ASSUME PInv, NEW p \in Pids, NEW fs \in SUBSET Held(p)
  PROVE  /\ Closed(p, fs) \in [Fds -> [target : Pids \cup {None}, holders : SUBSET Pids]]
         /\ Released(p, fs) \in [Pids -> Nat]
         /\ \A q \in Pids : /\ Released(p, fs)[q] <= Cardinality(Files(file, q))
                            /\ Cardinality(Files(Closed(p, fs), q)) = Cardinality(Files(file, q)) - Released(p, fs)[q]
         /\ \A f \in Fds : /\ Closed(p, fs)[f].target \in {None, file[f].target}
                           /\ Closed(p, fs)[f].target = None => Closed(p, fs)[f].holders = {}
<1> DEFINE fl == Closed(p, fs)
<1>1. file \in [Fds -> [target : Pids \cup {None}, holders : SUBSET Pids]] /\ fs \subseteq Fds
  BY DEF PInv, RefInv, TypeOK, Held
<1>2. ASSUME NEW f \in Fds
      PROVE  /\ fl[f] \in [target : Pids \cup {None}, holders : SUBSET Pids]
             /\ f \in fs /\ file[f].holders = {p} => fl[f].target = None
             /\ ~(f \in fs /\ file[f].holders = {p}) => fl[f].target = file[f].target
             /\ fl[f].target = None => fl[f].holders = {}
  <2>1. fl[f] = IF f \notin fs THEN file[f] ELSE IF file[f].holders = {p} THEN NoFile
                ELSE [file[f] EXCEPT !.holders = @ \ {p}]
    BY DEF Closed
  <2>2. file[f] \in [target : Pids \cup {None}, holders : SUBSET Pids] /\ (file[f].target = None => file[f].holders = {})
    BY <1>1 DEF PInv, Links
  <2>3. CASE f \notin fs
    BY <2>1, <2>2, <2>3
  <2>4. CASE f \in fs /\ file[f].holders = {p}
    BY <2>1, <2>4 DEF NoFile
  <2>5. CASE f \in fs /\ file[f].holders # {p}
    BY <2>1, <2>2, <2>5
  <2> QED
    BY <2>3, <2>4, <2>5
<1>3. fl = [f \in Fds |-> fl[f]]
  BY DEF Closed
<1>4. \A q \in Pids : Released(p, fs)[q] = Cardinality(LastHeld(p, fs, q))
  BY DEF Released, LastHeld
<1>5. Released(p, fs) = [q \in Pids |-> Released(p, fs)[q]]
  BY DEF Released
<1> HIDE DEF fl
<1>6. fl \in [Fds -> [target : Pids \cup {None}, holders : SUBSET Pids]]
  BY <1>2, <1>3
<1>7. ASSUME NEW q \in Pids
      PROVE  /\ Released(p, fs)[q] \in Nat
             /\ Released(p, fs)[q] <= Cardinality(Files(file, q))
             /\ Cardinality(Files(fl, q)) = Cardinality(Files(file, q)) - Released(p, fs)[q]
  <2>1. LastHeld(p, fs, q) \subseteq Files(file, q)
    BY <1>1 DEF LastHeld, Files
  <2>2. Files(fl, q) = Files(file, q) \ LastHeld(p, fs, q)
    BY <1>1, <1>2, NoneNoPid DEF LastHeld, Files
  <2>3. IsFiniteSet(Files(file, q)) /\ Files(file, q) \cap LastHeld(p, fs, q) = LastHeld(p, fs, q)
    BY <2>1, FiniteSets1 DEF Files
  <2>4. /\ Cardinality(Files(fl, q)) = Cardinality(Files(file, q)) - Cardinality(LastHeld(p, fs, q))
        /\ Cardinality(LastHeld(p, fs, q)) <= Cardinality(Files(file, q))
    BY <2>1, <2>2, <2>3, FS_Difference, FS_Subset, ZenonT(60)
  <2>5. Cardinality(LastHeld(p, fs, q)) \in Nat
    BY <1>1, FiniteSets1 DEF LastHeld
  <2> QED
    BY <1>4, <2>4, <2>5
<1>8. Released(p, fs) \in [Pids -> Nat]
  BY <1>5, <1>7
<1> QED
  BY <1>2, <1>6, <1>7, <1>8 DEF fl

\* The pointers between structures stay, files may change.
LEMMA LinksKept ==
  ASSUME PInv, UNCHANGED next_pid,
         \A q \in Pids : /\ proc'[q].mem = "unused" <=> proc[q].mem = "unused"
                         /\ proc'[q].parent = proc[q].parent /\ proc'[q].child = proc[q].child
                         /\ proc'[q].reaped <=> proc[q].reaped
                         /\ proc'[q].pc \in Waits => proc[q].child # None,
         \A f \in Fds : /\ file'[f].target # None => file'[f].target \in Pids /\ proc[file'[f].target].mem # "unused"
                        /\ file'[f].target = None => file'[f].holders = {}
  PROVE  Links'
<1>1. ASSUME NEW p \in Pids
      PROVE  /\ p >= next_pid' => proc'[p].mem = "unused"
             /\ proc'[p].mem = "unused" => proc'[p].parent = None
             /\ proc'[p].parent # None => proc'[proc'[p].parent].mem # "unused"
             /\ proc'[p].child # None => /\ proc'[proc'[p].child].parent = p
                                         /\ ~proc'[proc'[p].child].reaped
             /\ proc'[p].pc \in Waits => proc'[p].child # None
  <2>1. proc[p] \in process_t
    BY DEF PInv, RefInv, TypeOK
  <2>2. proc[p].parent \in Pids \cup {None} /\ proc[p].child \in Pids \cup {None}
    BY <2>1 DEF process_t
  <2> QED
    BY <2>2 DEF PInv, Links
<1> QED
  BY <1>1 DEF Links

\* The queue and the processes in it stay.
LEMMA QueueKept ==
  ASSUME PInv, UNCHANGED queue, current' \in Range(queue),
         \A q \in Pids : /\ proc'[q].mem = "unused" <=> proc[q].mem = "unused"
                         /\ proc'[q].dead <=> proc[q].dead
  PROVE  QueueInv'
<1>1. {p \in Created : ~proc[p].dead}' = {p \in Created : ~proc[p].dead}
  BY DEF Created
<1> QED
  BY <1>1 DEF PInv, QueueInv, Range

\* procfs: an opened file counts in its target.
LEMMA OpenStep ==
  ASSUME PInv, NEW f \in Fds, NEW p \in Pids, open_process(f, p)
  PROVE  PInv'
<1> DEFINE new == [target |-> p, holders |-> {current}]
<1>1. /\ proc \in [Pids -> process_t] /\ current \in Pids
      /\ file \in [Fds -> [target : Pids \cup {None}, holders : SUBSET Pids]]
  BY DEF PInv, RefInv, TypeOK
<1>2. file' \in [Fds -> [target : Pids \cup {None}, holders : SUBSET Pids]] /\ file'[f] = new /\ \A g \in Fds \ {f} : file'[g] = file[g]
  BY <1>1 DEF open_process
<1>3. proc[p].mem = "used" /\ proc[p].count = Refs(p) /\ current \in Range(queue)
  BY Counted, InQueue DEF open_process
<1>4. ASSUME NEW q \in Pids
      PROVE  /\ proc'[q] \in process_t
             /\ proc'[q].count = proc[q].count + (IF q = p THEN 1 ELSE 0)
             /\ proc'[q].mem = proc[q].mem
             /\ (proc'[q].dead <=> proc[q].dead) /\ (proc'[q].reaped <=> proc[q].reaped)
             /\ proc'[q].parent = proc[q].parent /\ proc'[q].child = proc[q].child
             /\ proc'[q].pc = proc[q].pc
  <2>1. proc[q] \in process_t /\ proc[q].count \in Nat
    BY <1>1 DEF process_t
  <2>2. CASE q = p
    <3>1. proc'[q] = [proc[q] EXCEPT !.count = @ + 1]
      BY <1>1, <2>2 DEF open_process, Pin
    <3> QED
      BY <2>1, <2>2, <3>1 DEF process_t
  <2>3. CASE q # p
    <3>1. proc'[q] = proc[q]
      BY <1>1, <2>3 DEF open_process, Pin
    <3> QED
      BY <2>1, <2>3, <3>1
  <2> QED
    BY <2>2, <2>3
<1>5. proc' = [q \in Pids |-> proc'[q]]
  BY <1>1, ZenonT(60) DEF open_process, Pin
<1>6. proc' \in [Pids -> process_t]
  BY <1>4, <1>5
<1>7. TypeOK'
  BY <1>2, <1>6 DEF PInv, RefInv, TypeOK, open_process
<1>8. file[f].target = None
  BY DEF open_process, NoFile
<1>9. ASSUME NEW q \in Pids
      PROVE  Refs(q)' = Refs(q) + (IF q = p THEN 1 ELSE 0)
  <2>1. Children(proc', q) = Children(proc, q)
    BY <1>4 DEF Children
  <2>2. Own(proc', q) = Own(proc, q) /\ ByParent(proc', q) = ByParent(proc, q)
    BY <1>4 DEF Own, ByParent
  <2>3. Files(file', q) = IF q = p THEN Files(file, q) \cup {f} ELSE Files(file, q)
    BY <1>2, <1>8, NoneNoPid DEF Files
  <2>4. f \notin Files(file, q) /\ IsFiniteSet(Files(file, q))
    BY <1>8, NoneNoPid, FiniteSets1 DEF Files
  <2>5. Cardinality(Files(file', q)) = Cardinality(Files(file, q)) + (IF q = p THEN 1 ELSE 0)
    <3>1. Cardinality(Files(file, q) \cup {f}) = Cardinality(Files(file, q)) + 1
      BY <2>4, FS_AddElement, ZenonT(60)
    <3>2. Cardinality(Files(file, q)) \in Nat
      BY PartsNat
    <3> QED
      BY <2>3, <3>1, <3>2
  <2> QED
    BY <2>1, <2>2, <2>5, PartsNat DEF Refs
<1>10. RefInv'
  <2> SUFFICES ASSUME NEW q \in Created'
               PROVE  proc'[q].count = Refs(q)' /\ (proc'[q].mem = "freed" <=> Refs(q)' = 0)
    BY <1>7 DEF RefInv
  <2>1. q \in Pids /\ q \in Created
    BY <1>4 DEF Created
  <2>2. proc[q].count = Refs(q) /\ (proc[q].mem = "freed" <=> Refs(q) = 0) /\ Refs(q) \in Nat
    BY <1>1, <2>1 DEF PInv, RefInv, process_t
  <2> QED
    BY <1>3, <1>4, <1>9, <2>1, <2>2
<1>11. Links'
  <2>1. ASSUME NEW g \in Fds
        PROVE  /\ file'[g].target # None => file'[g].target \in Pids /\ proc[file'[g].target].mem # "unused"
               /\ file'[g].target = None => file'[g].holders = {}
    <3>1. CASE g = f
      BY <1>2, <1>3, <3>1, NoneNoPid
    <3>2. CASE g # f
      <4>1. file'[g] = file[g] /\ file[g].target \in Pids \cup {None}
        BY <1>1, <1>2, <3>2
      <4> QED
        BY <4>1 DEF PInv, Links
    <3> QED
      BY <3>1, <3>2
  <2>2. \A q \in Pids : proc'[q].pc \in Waits => proc[q].child # None
    BY <1>4 DEF PInv, Links
  <2>3. UNCHANGED next_pid
    BY DEF open_process
  <2> QED
    BY <1>4, <2>1, <2>2, <2>3, LinksKept
<1>12. QueueInv'
  BY <1>3, <1>4, QueueKept DEF open_process
<1> QED
  BY <1>10, <1>11, <1>12 DEF PInv

\* procfs: a closed file is taken from its target's count.
LEMMA CloseStep ==
  ASSUME PInv, NEW f \in Fds, process_close(f)
  PROVE  PInv'
<1> DEFINE n == Released(current, {f})
<1>1. /\ proc \in [Pids -> process_t] /\ current \in Pids /\ {f} \in SUBSET Held(current)
      /\ file' = Closed(current, {f}) /\ proc' = process_remove_reference(proc, n)
  BY DEF PInv, RefInv, TypeOK, process_close
<1>2. /\ file' \in [Fds -> [target : Pids \cup {None}, holders : SUBSET Pids]]
      /\ n \in [Pids -> Nat]
      /\ \A q \in Pids : /\ n[q] <= Cardinality(Files(file, q))
                         /\ Cardinality(Files(file', q)) = Cardinality(Files(file, q)) - n[q]
      /\ \A g \in Fds : /\ file'[g].target \in {None, file[g].target}
                        /\ file'[g].target = None => file'[g].holders = {}
  <2>1. /\ Closed(current, {f}) \in [Fds -> [target : Pids \cup {None}, holders : SUBSET Pids]]
        /\ Released(current, {f}) \in [Pids -> Nat]
        /\ \A q \in Pids : /\ Released(current, {f})[q] <= Cardinality(Files(file, q))
                           /\ Cardinality(Files(Closed(current, {f}), q)) = Cardinality(Files(file, q)) - Released(current, {f})[q]
        /\ \A g \in Fds : /\ Closed(current, {f})[g].target \in {None, file[g].target}
                          /\ Closed(current, {f})[g].target = None => Closed(current, {f})[g].holders = {}
    BY <1>1, ClosedCount, ZenonT(60)
  <2>2. file' = Closed(current, {f}) /\ n = Released(current, {f})
    BY <1>1
  <2> HIDE DEF n
  <2> QED
    BY <2>1, <2>2, ZenonT(60)
<1> HIDE DEF n
<1>3. ASSUME NEW q \in Pids
      PROVE  n[q] <= proc[q].count
  <2>3. n[q] \in Nat /\ n[q] <= Cardinality(Files(file, q)) /\ Cardinality(Files(file, q)) \in Nat
    BY <1>2, PartsNat, ZenonT(60)
  <2>1. n[q] = 0 \/ Cardinality(Files(file, q)) > 0
    BY <2>3
  <2>2. CASE Cardinality(Files(file, q)) > 0
    <3>1. Files(file, q) # {}
      BY <2>2, FS_EmptySet
    <3>2. proc[q].mem # "unused"
      BY <3>1, NoneNoPid DEF Files, PInv, Links
    <3>3. proc[q].count = Refs(q)
      BY <3>2 DEF PInv, RefInv, Created
    <3> QED
      BY <1>2, <3>3, PartsNat DEF Refs
  <2> QED
    BY <1>1, <2>1, <2>2 DEF process_t
<1>4. /\ proc' \in [Pids -> process_t]
      /\ \A q \in Pids :
           /\ proc'[q].count = proc[q].count - n[q]
           /\ proc'[q].mem = IF n[q] # 0 /\ proc[q].count = n[q] THEN "freed" ELSE proc[q].mem
           /\ (proc'[q].dead <=> proc[q].dead) /\ (proc'[q].reaped <=> proc[q].reaped)
           /\ proc'[q].parent = proc[q].parent /\ proc'[q].child = proc[q].child
           /\ proc'[q].pc = proc[q].pc
  BY <1>1, <1>2, <1>3, Dropped
<1>5. TypeOK'
  BY <1>2, <1>4, ZenonT(60) DEF PInv, RefInv, TypeOK, process_close
<1>6. ASSUME NEW q \in Pids
      PROVE  Refs(q)' = Refs(q) - n[q] /\ Refs(q) \in Nat /\ n[q] <= Refs(q)
  <2>1. Children(proc', q) = Children(proc, q)
    BY <1>4 DEF Children
  <2>2. Own(proc', q) = Own(proc, q) /\ ByParent(proc', q) = ByParent(proc, q)
    BY <1>4 DEF Own, ByParent
  <2> QED
    BY <1>2, <2>1, <2>2, PartsNat DEF Refs
<1>7. ASSUME NEW q \in Pids
      PROVE  /\ proc[q].mem = "unused" => n[q] = 0
             /\ proc'[q].mem = "unused" <=> proc[q].mem = "unused"
  <2>1. proc[q].mem = "unused" => Files(file, q) = {}
    BY NoneNoPid DEF PInv, Links, Files
  <2>2. proc[q].mem = "unused" => n[q] = 0
    <3>1. Cardinality({}) = 0
      BY FS_EmptySet
    <3>2. n[q] \in Nat /\ n[q] <= Cardinality(Files(file, q))
      BY <1>2
    <3> QED
      BY <2>1, <3>1, <3>2
  <2> QED
    BY <1>4, <2>2
<1>8. RefInv'
  <2> SUFFICES ASSUME NEW q \in Created'
               PROVE  proc'[q].count = Refs(q)' /\ (proc'[q].mem = "freed" <=> Refs(q)' = 0)
    BY <1>5 DEF RefInv
  <2>1. q \in Pids /\ q \in Created
    BY <1>7 DEF Created
  <2>2. proc[q].count = Refs(q) /\ (proc[q].mem = "freed" <=> Refs(q) = 0) /\ n[q] \in Nat
    BY <1>2, <2>1 DEF PInv, RefInv
  <2> QED
    BY <1>4, <1>6, <2>1, <2>2
<1>9. Links'
  <2>1. ASSUME NEW g \in Fds
        PROVE  /\ file'[g].target # None => file'[g].target \in Pids /\ proc[file'[g].target].mem # "unused"
               /\ file'[g].target = None => file'[g].holders = {}
    BY <1>2 DEF PInv, Links
  <2>2. \A q \in Pids : proc'[q].pc \in Waits => proc[q].child # None
    BY <1>4 DEF PInv, Links
  <2> QED
    BY <1>4, <1>7, <2>1, <2>2, LinksKept, ZenonT(60) DEF process_close
<1>10. QueueInv'
  <2>1. current' \in Range(queue) /\ UNCHANGED queue
    BY <1>1, InQueue DEF process_close
  <2> QED
    BY <1>4, <1>7, <2>1, QueueKept
<1> QED
  BY <1>8, <1>9, <1>10 DEF PInv

\* What the end of syscall_wait does to the table: the dead child loses the
\* reference of its parent, which forgets it.
Reaped(c) ==
  \A q \in Pids :
    /\ proc'[q].count = proc[q].count - (IF q = c THEN 1 ELSE 0)
    /\ proc'[q].mem = IF q = c /\ proc[q].count = 1 THEN "freed" ELSE proc[q].mem
    /\ (proc'[q].dead <=> proc[q].dead) /\ (proc'[q].reaped <=> (q = c \/ proc[q].reaped))
    /\ proc'[q].parent = proc[q].parent
    /\ proc'[q].child = IF q = current THEN None ELSE proc[q].child
    /\ proc'[q].pc \in Waits => q # current /\ proc[q].pc \in Waits

\* syscall_wait releases a dead child: its count loses what ->child counted.
LEMMA ReapStep ==
  ASSUME PInv, cur.child # None, proc[cur.child].dead,
         proc' \in [Pids -> process_t], Reaped(cur.child),
         UNCHANGED <<queue, current, next_pid, file>>, cpu' \in {"run", "sched"} \cup Stops
  PROVE  PInv'
<1> DEFINE c == cur.child
<1>1. /\ proc \in [Pids -> process_t] /\ current \in Pids /\ current \in Range(queue) /\ c \in Pids
      /\ file \in [Fds -> [target : Pids \cup {None}, holders : SUBSET Pids]]
  BY InQueue DEF PInv, RefInv, TypeOK, process_t, cur
<1>2. proc[c].parent = current /\ ~proc[c].reaped
  BY <1>1 DEF PInv, Links, cur
<1>4. proc[c].dead /\ Reaped(c)
  OBVIOUS
<1>5. proc[current].child = c
  BY DEF cur
<1> HIDE DEF c
<1>3. proc[c].mem = "used" /\ proc[c].count > 0 /\ proc[c].count = Refs(c)
  <2>1. proc[c].mem # "unused"
    BY <1>1, <1>2, NoneNoPid DEF PInv, Links
  <2>2. proc[c].parent # None
    BY <1>1, <1>2, NoneNoPid
  <2> QED
    BY <1>1, <1>2, <2>1, <2>2, Counted
<1>6. TypeOK'
  BY DEF PInv, RefInv, TypeOK, Stops
<1>7. ASSUME NEW q \in Pids
      PROVE  /\ Refs(q)' = Refs(q) - (IF q = c THEN 1 ELSE 0)
             /\ Refs(q) \in Nat
  <2>1. Children(proc', q) = Children(proc, q)
    BY <1>4 DEF Children, Reaped
  <2>2. Own(proc', q) = Own(proc, q)
    BY <1>4 DEF Own, Reaped
  <2>3. ByParent(proc', q) = ByParent(proc, q) - (IF q = c THEN 1 ELSE 0)
    <3>1. proc'[q].parent = proc[q].parent /\ (proc'[q].reaped <=> (q = c \/ proc[q].reaped))
      BY <1>4 DEF Reaped
    <3>2. CASE q = c
      <4>1. ByParent(proc, q) = 1
        BY <1>1, <1>2, <3>2, NoneNoPid DEF ByParent
      <4>2. ByParent(proc', q) = 0
        BY <3>1, <3>2 DEF ByParent
      <4> QED
        BY <3>2, <4>1, <4>2
    <3>3. CASE q # c
      <4>1. ByParent(proc', q) = ByParent(proc, q)
        BY <3>1, <3>3 DEF ByParent
      <4> QED
        BY <3>3, <4>1, PartsNat
    <3> QED
      BY <3>2, <3>3
  <2>4. Files(file', q) = Files(file, q)
    OBVIOUS
  <2> QED
    BY <2>1, <2>2, <2>3, <2>4, PartsNat DEF Refs
<1>8. ASSUME NEW q \in Pids
      PROVE  proc'[q].mem = "unused" <=> proc[q].mem = "unused"
  BY <1>3, <1>4 DEF Reaped
<1>9. RefInv'
  <2> SUFFICES ASSUME NEW q \in Created'
               PROVE  proc'[q].count = Refs(q)' /\ (proc'[q].mem = "freed" <=> Refs(q)' = 0)
    BY <1>6 DEF RefInv
  <2>1. q \in Pids /\ q \in Created
    BY <1>8 DEF Created
  <2>2. proc[q].count = Refs(q) /\ (proc[q].mem = "freed" <=> Refs(q) = 0)
    BY <2>1 DEF PInv, RefInv
  <2>3. /\ proc'[q].count = proc[q].count - (IF q = c THEN 1 ELSE 0)
        /\ proc'[q].mem = IF q = c /\ proc[q].count = 1 THEN "freed" ELSE proc[q].mem
    BY <1>4, <2>1 DEF Reaped
  <2>4. Refs(q)' = Refs(q) - (IF q = c THEN 1 ELSE 0) /\ Refs(q) \in Nat
    BY <1>7, <2>1
  <2>5. CASE q = c
    BY <1>3, <2>2, <2>3, <2>4, <2>5
  <2>6. CASE q # c
    BY <2>2, <2>3, <2>4, <2>6
  <2> QED
    BY <2>5, <2>6
<1>10. Links'
  <2>1. ASSUME NEW p \in Pids
        PROVE  /\ p >= next_pid' => proc'[p].mem = "unused"
               /\ proc'[p].mem = "unused" => proc'[p].parent = None
               /\ proc'[p].parent # None => proc'[proc'[p].parent].mem # "unused"
               /\ proc'[p].child # None => /\ proc'[proc'[p].child].parent = p
                                           /\ ~proc'[proc'[p].child].reaped
               /\ proc'[p].pc \in Waits => proc'[p].child # None
    <3>1. proc[p].parent \in Pids \cup {None} /\ proc[p].child \in Pids \cup {None}
      BY <1>1, ZenonT(60) DEF process_t
    <3>2. /\ proc'[p].parent = proc[p].parent
          /\ proc'[p].child = IF p = current THEN None ELSE proc[p].child
          /\ proc'[p].pc \in Waits => p # current /\ proc[p].pc \in Waits
      BY <1>4 DEF Reaped
    <3>3. ASSUME proc'[p].child # None
          PROVE  proc'[proc'[p].child].parent = p /\ ~proc'[proc'[p].child].reaped
      <4>1. p # current /\ proc'[p].child = proc[p].child /\ proc[p].child \in Pids
        BY <3>1, <3>2, <3>3
      <4>2. proc[proc[p].child].parent = p /\ ~proc[proc[p].child].reaped
        BY <3>3, <4>1 DEF PInv, Links
      <4>3. proc[p].child # c
        BY <1>2, <4>1, <4>2
      <4> QED
        BY <1>4, <4>1, <4>2, <4>3 DEF Reaped
    <3>4. p >= next_pid' => proc'[p].mem = "unused"
      BY <1>8 DEF PInv, Links
    <3>5. proc'[p].mem = "unused" => proc'[p].parent = None
      BY <1>8, <3>2 DEF PInv, Links
    <3>6. proc'[p].parent # None => proc'[proc'[p].parent].mem # "unused"
      BY <1>8, <3>1, <3>2 DEF PInv, Links
    <3>7. proc'[p].pc \in Waits => proc'[p].child # None
      BY <3>2 DEF PInv, Links
    <3> QED
      BY <3>3, <3>4, <3>5, <3>6, <3>7
  <2>2. ASSUME NEW f \in Fds
        PROVE  /\ file'[f].target # None => proc'[file'[f].target].mem # "unused"
               /\ file'[f].target = None => file'[f].holders = {}
    <3>1. file[f].target \in Pids \cup {None}
      BY <1>1
    <3> QED
      BY <1>8, <3>1 DEF PInv, Links
  <2> QED
    BY <2>1, <2>2 DEF Links
<1>11. QueueInv'
  <2>1. \A q \in Pids : proc'[q].dead <=> proc[q].dead
    BY <1>4 DEF Reaped
  <2> QED
    BY <1>1, <1>8, <2>1, QueueKept
<1> QED
  BY <1>9, <1>10, <1>11 DEF PInv

\* Reap does that, whether or not the caller goes on to leave the call.
LEMMA ReapTable ==
  ASSUME PInv, cur.child # None, proc[cur.child].dead,
         \/ proc' = Reap /\ cur.pc = "user"
         \/ proc' = [Reap EXCEPT ![current].pc = "user"]
  PROVE  proc' \in [Pids -> process_t] /\ Reaped(cur.child)
<1> DEFINE c == cur.child
           out == process_remove_reference(proc, One(c))
<1>1. proc \in [Pids -> process_t] /\ current \in Pids /\ c \in Pids /\ ~proc[current].dead
  BY InQueue DEF PInv, RefInv, TypeOK, process_t, cur
<1>2. proc[c].parent = current /\ ~proc[c].reaped /\ c # current
  BY <1>1 DEF PInv, Links, cur
<1>3. Reap = [out EXCEPT ![current].child = None, ![c].reaped = TRUE]
  BY DEF Reap
<1>4. proc[current].child = c
  BY DEF cur
<1> HIDE DEF c
<1>5. proc[c].count > 0
  <2>1. proc[c].mem # "unused" /\ proc[c].parent # None
    BY <1>1, <1>2, NoneNoPid DEF PInv, Links
  <2> QED
    BY <1>1, <1>2, <2>1, Counted
<1>6. One(c) \in [Pids -> Nat] /\ \A q \in Pids : One(c)[q] = IF q = c THEN 1 ELSE 0
  BY DEF One
<1>7. ASSUME NEW q \in Pids PROVE One(c)[q] <= proc[q].count /\ proc[q].count \in Nat
  BY <1>1, <1>5, <1>6 DEF process_t
<1>8. /\ out \in [Pids -> process_t]
      /\ \A q \in Pids :
           /\ out[q].count = proc[q].count - One(c)[q]
           /\ out[q].mem = IF One(c)[q] # 0 /\ proc[q].count = One(c)[q] THEN "freed" ELSE proc[q].mem
           /\ (out[q].dead <=> proc[q].dead) /\ (out[q].reaped <=> proc[q].reaped)
           /\ out[q].parent = proc[q].parent /\ out[q].child = proc[q].child
           /\ out[q].pc = proc[q].pc
  BY <1>1, <1>6, <1>7, Dropped
<1> HIDE DEF out
<1>9. ASSUME NEW q \in Pids
      PROVE  /\ out[q].count = proc[q].count - (IF q = c THEN 1 ELSE 0)
             /\ out[q].mem = IF q = c /\ proc[q].count = 1 THEN "freed" ELSE proc[q].mem
  <2>1. CASE q = c
    BY <1>6, <1>8, <2>1
  <2>2. CASE q # c
    BY <1>6, <1>8, <2>2
  <2> QED
    BY <2>1, <2>2
<1>10. proc' = [q \in Pids |-> proc'[q]]
  BY <1>3, <1>8
<1>11. ASSUME NEW q \in Pids, q # current, q # c PROVE proc'[q] = out[q]
  BY <1>3, <1>8, <1>11
<1>12. /\ proc'[c] \in process_t /\ proc'[c].count = out[c].count /\ proc'[c].mem = out[c].mem
       /\ (proc'[c].dead <=> out[c].dead) /\ proc'[c].reaped
       /\ proc'[c].parent = out[c].parent /\ proc'[c].child = out[c].child /\ proc'[c].pc = out[c].pc
  <2>1. out[c] \in process_t
    BY <1>1, <1>8
  <2>2. proc'[c] = [out[c] EXCEPT !.reaped = TRUE]
    BY <1>1, <1>2, <1>3, <1>8, ZenonT(60)
  <2> QED
    BY <2>1, <2>2, ZenonT(60) DEF process_t
<1>13. LET p == current
       IN  /\ proc'[p] \in process_t /\ proc'[p].count = out[p].count /\ proc'[p].mem = out[p].mem
           /\ (proc'[p].dead <=> out[p].dead) /\ (proc'[p].reaped <=> out[p].reaped)
           /\ proc'[p].parent = out[p].parent /\ proc'[p].child = None /\ proc'[p].pc = "user"
  <2>1. out[current] \in process_t
    BY <1>1, <1>8
  <2>2. CASE proc' = Reap /\ cur.pc = "user"
    <3>1. proc'[current] = [out[current] EXCEPT !.child = None]
      BY <1>1, <1>2, <1>3, <1>8, <2>2
    <3>2. out[current].pc = "user"
      BY <1>1, <1>8, <2>2 DEF cur
    <3> QED
      BY <2>1, <3>1, <3>2 DEF process_t
  <2>3. CASE proc' = [Reap EXCEPT ![current].pc = "user"]
    <3>1. proc'[current] = [out[current] EXCEPT !.child = None, !.pc = "user"]
      BY <1>1, <1>2, <1>3, <1>8, <2>3, ZenonT(60)
    <3> QED
      BY <2>1, <3>1, ZenonT(60) DEF process_t, PcSet
  <2> QED
    BY <2>2, <2>3
<1>14. ASSUME NEW q \in Pids
       PROVE  /\ proc'[q] \in process_t /\ proc'[q].count = out[q].count /\ proc'[q].mem = out[q].mem
              /\ (proc'[q].dead <=> proc[q].dead) /\ (proc'[q].reaped <=> (q = c \/ proc[q].reaped))
              /\ proc'[q].parent = proc[q].parent
              /\ proc'[q].child = IF q = current THEN None ELSE proc[q].child
              /\ proc'[q].pc \in Waits => q # current /\ proc[q].pc \in Waits
  <2>1. CASE q = current
    BY <1>2, <1>8, <1>13, <2>1 DEF Waits
  <2>2. CASE q = c
    BY <1>2, <1>8, <1>12, <2>2
  <2>3. CASE q # current /\ q # c
    BY <1>8, <1>11, <2>3
  <2> QED
    BY <2>1, <2>2, <2>3
<1>15. proc' \in [Pids -> process_t]
  BY <1>10, <1>14
<1>16. Reaped(c)
  BY <1>9, <1>14 DEF Reaped
<1> QED
  BY <1>15, <1>16 DEF c

\* Inheriting descriptors changes the holders of files, not their targets.
LEMMA Inherited ==
  ASSUME PInv, NEW n \in Pids
  PROVE  /\ Inherit(n) \in [Fds -> [target : Pids \cup {None}, holders : SUBSET Pids]]
         /\ \A f \in Fds : /\ Inherit(n)[f].target = file[f].target
                           /\ file[f].target = None => Inherit(n)[f].holders = {}
<1>1. file \in [Fds -> [target : Pids \cup {None}, holders : SUBSET Pids]]
  BY DEF PInv, RefInv, TypeOK
<1>2. ASSUME NEW f \in Fds
      PROVE  /\ Inherit(n)[f] \in [target : Pids \cup {None}, holders : SUBSET Pids]
             /\ Inherit(n)[f].target = file[f].target
             /\ file[f].target = None => Inherit(n)[f].holders = {}
  <2>1. Inherit(n)[f] = IF current \in file[f].holders
                        THEN [file[f] EXCEPT !.holders = @ \cup {n}] ELSE file[f]
    BY DEF Inherit
  <2>2. file[f] \in [target : Pids \cup {None}, holders : SUBSET Pids] /\ (file[f].target = None => file[f].holders = {})
    BY <1>1 DEF PInv, Links
  <2>3. CASE current \in file[f].holders
    BY <2>1, <2>2, <2>3
  <2>4. CASE current \notin file[f].holders
    BY <2>1, <2>2, <2>4
  <2> QED
    BY <2>3, <2>4
<1>3. Inherit(n) = [f \in Fds |-> Inherit(n)[f]]
  BY DEF Inherit
<1> QED
  BY <1>2, <1>3

\* A fork that fails leaves the structures alone.
LEMMA ForkFailsStep ==
  ASSUME PInv, fork_fails
  PROVE  PInv'
<1>1. /\ proc \in [Pids -> process_t] /\ queue \in Seq(Pids) /\ current \in Pids /\ current \in Range(queue)
      /\ next_pid \in 2..(MaxPid + 1) /\ cpu \in {"run", "sched"} \cup Stops
      /\ file \in [Fds -> [target : Pids \cup {None}, holders : SUBSET Pids]]
  BY InQueue DEF PInv, RefInv, TypeOK
<1>2. next_pid \in Pids /\ next_pid' \in 2..(MaxPid + 1) /\ next_pid' >= next_pid
  BY <1>1, ProcessAssumption DEF fork_fails, Pids
<1>3. /\ file' \in [Fds -> [target : Pids \cup {None}, holders : SUBSET Pids]]
      /\ \A f \in Fds : /\ file'[f].target = file[f].target
                        /\ file[f].target = None => file'[f].holders = {}
  <2>1. CASE file' = file
    BY <1>1, <2>1 DEF PInv, Links
  <2>2. CASE file' = Inherit(next_pid)
    BY <1>2, <2>2, Inherited
  <2> QED
    BY <2>1, <2>2 DEF fork_fails
<1>4. UNCHANGED <<proc, queue, current, cpu>>
  BY DEF fork_fails
<1>5. TypeOK'
  BY <1>1, <1>2, <1>3, <1>4 DEF TypeOK, Stops
<1>6. \A q \in Pids : Alike(proc'[q], proc[q]) /\ (proc'[q].pc \in Waits => proc[q].child # None)
  BY <1>4 DEF Alike, PInv, Links
<1> QED
  BY <1>1, <1>2, <1>3, <1>4, <1>5, <1>6, Unmoved

\* What a fork does to the table: the new structure counts itself and its
\* parent's ->child, and its parent counts it.
Forked(n, p) ==
  /\ proc'[n].mem = "used" /\ ~proc'[n].dead /\ ~proc'[n].reaped /\ proc'[n].count = 2
  /\ proc'[n].parent = p /\ proc'[n].child = None /\ proc'[n].pc = "user"
  /\ proc'[p].child = n /\ proc'[p].count = proc[p].count + 1
  /\ \A q \in Pids \ {n} :
       /\ proc'[q].mem = proc[q].mem /\ proc'[q].parent = proc[q].parent /\ proc'[q].pc = proc[q].pc
       /\ (proc'[q].dead <=> proc[q].dead) /\ (proc'[q].reaped <=> proc[q].reaped)
       /\ q # p => proc'[q].child = proc[q].child /\ proc'[q].count = proc[q].count

LEMMA ForkTable ==
  ASSUME PInv, fork
  PROVE  proc' \in [Pids -> process_t] /\ Forked(next_pid, current) /\ current # next_pid /\ next_pid \in Pids
<1> DEFINE n == next_pid
           p == current
<1>1. proc \in [Pids -> process_t] /\ p \in Pids /\ n \in Pids
  BY ProcessAssumption DEF PInv, RefInv, TypeOK, fork, Pids
<1>2. proc[p].mem = "used"
  BY <1>1, InQueue
<1>3. proc[n].mem = "unused"
  <2>1. n >= next_pid
    BY DEF PInv, RefInv, TypeOK
  <2> QED
    BY <1>1, <2>1 DEF PInv, Links
<1>4. n # p
  BY <1>2, <1>3
<1>5. proc' = Pin([proc EXCEPT ![n] = Fresh(p), ![p].child = n], p)
  BY DEF fork
<1> HIDE DEF n, p
<1>6. proc'[n] = Fresh(p)
  BY <1>1, <1>4, <1>5 DEF Pin
<1>7. proc'[p] = [proc[p] EXCEPT !.child = n, !.count = @ + 1]
  BY <1>1, <1>4, <1>5, ZenonT(60) DEF Pin
<1>8. \A q \in Pids \ {n, p} : proc'[q] = proc[q]
  BY <1>1, <1>5 DEF Pin
<1>9. proc' = [q \in Pids |-> proc'[q]]
  BY <1>1, <1>5, ZenonT(60) DEF Pin
<1>10. /\ proc'[n] \in process_t
       /\ proc'[n].mem = "used" /\ ~proc'[n].dead /\ ~proc'[n].reaped /\ proc'[n].count = 2
       /\ proc'[n].parent = p /\ proc'[n].child = None /\ proc'[n].pc = "user"
  BY <1>1, <1>6 DEF Fresh, process_t, PcSet
<1>11. /\ proc'[p] \in process_t /\ proc'[p].child = n /\ proc'[p].count = proc[p].count + 1
       /\ proc'[p].mem = proc[p].mem /\ proc'[p].parent = proc[p].parent /\ proc'[p].pc = proc[p].pc
       /\ (proc'[p].dead <=> proc[p].dead) /\ (proc'[p].reaped <=> proc[p].reaped)
  <2>1. proc[p] \in process_t
    BY <1>1
  <2>2. proc[p].count \in Nat
    BY <2>1 DEF process_t
  <2>3. proc'[p] \in process_t
    <3> DEFINE r == [proc[p] EXCEPT !.child = n]
    <3>1. r \in process_t /\ r.count = proc[p].count
      BY <1>1, <2>1 DEF process_t
    <3>2. proc'[p] = [r EXCEPT !.count = proc[p].count + 1]
      BY <1>7, <2>1 DEF process_t
    <3> HIDE DEF r
    <3>3. proc[p].count + 1 \in Nat
      BY <2>2
    <3> QED
      BY <3>1, <3>2, <3>3 DEF process_t
  <2>4. proc'[p].child = n /\ proc'[p].count = proc[p].count + 1
    BY <1>7, <2>1 DEF process_t
  <2>5. /\ proc'[p].mem = proc[p].mem /\ proc'[p].parent = proc[p].parent /\ proc'[p].pc = proc[p].pc
        /\ (proc'[p].dead <=> proc[p].dead) /\ (proc'[p].reaped <=> proc[p].reaped)
    BY <1>7, <2>1 DEF process_t
  <2> QED
    BY <2>3, <2>4, <2>5
<1>12. proc' \in [Pids -> process_t]
  <2>1. \A q \in Pids : proc'[q] \in process_t
    BY <1>1, <1>8, <1>10, <1>11
  <2> QED
    BY <1>9, <2>1
<1>13. Forked(n, p)
  BY <1>4, <1>8, <1>10, <1>11 DEF Forked
<1> QED
  BY <1>1, <1>4, <1>12, <1>13 DEF n, p

\* fork keeps the invariant.
LEMMA ForkStep ==
  ASSUME PInv, fork
  PROVE  PInv'
<1>0. next_pid \in Pids /\ current \in Pids
  BY ForkTable, InQueue
<1> SUFFICES ASSUME NEW n \in Pids, n = next_pid, NEW p \in Pids, p = current PROVE PInv'
  BY <1>0
<1>1. /\ proc \in [Pids -> process_t] /\ p \in Pids /\ n \in Pids /\ n # p
      /\ proc' \in [Pids -> process_t] /\ Forked(n, p)
      /\ queue \in Seq(Pids) /\ n \in 2..(MaxPid + 1) /\ cpu \in {"run", "sched"} \cup Stops
      /\ file' = Inherit(n) /\ queue' = Append(queue, n) /\ n <= MaxPid
      /\ next_pid' = n + 1 /\ current' = p /\ cpu' = cpu /\ proc[p].pc = "user"
  BY ForkTable, ZenonT(60) DEF PInv, RefInv, TypeOK, fork, Running, cur
<1>2. /\ proc[n].mem = "unused" /\ proc[n].parent = None /\ proc[p].mem = "used" /\ p \in Range(queue)
      /\ n \notin Range(queue)
  <2>1. proc[n].mem = "unused" /\ proc[n].parent = None
    BY <1>1 DEF PInv, Links
  <2> QED
    BY <1>1, <2>1, InQueue
<1>3. /\ file' \in [Fds -> [target : Pids \cup {None}, holders : SUBSET Pids]]
      /\ \A f \in Fds : /\ file'[f].target = file[f].target
                        /\ file[f].target = None => file'[f].holders = {}
  BY <1>1, Inherited
<1>4. \A q \in Pids : proc[q].parent # n /\ proc[q].child # n
  <2> TAKE q \in Pids
  <2>1. proc[q].parent # n
    BY <1>1, <1>2, NoneNoPid DEF PInv, Links
  <2>2. proc[q].child = n => proc[n].parent = q
    BY <1>1, NoneNoPid DEF PInv, Links
  <2> QED
    BY <1>1, <1>2, <2>1, <2>2, NoneNoPid
<1>5. \A f \in Fds : file[f].target # n
  BY <1>1, <1>2, NoneNoPid DEF PInv, Links
<1>6. /\ MaxPid \in Nat
      /\ next_pid' \in 2..(MaxPid + 1)
  BY <1>1, ProcessAssumption
<1>7. /\ proc'[n].mem = "used" /\ ~proc'[n].dead /\ ~proc'[n].reaped /\ proc'[n].count = 2
      /\ proc'[n].parent = p /\ proc'[n].child = None /\ proc'[n].pc = "user"
      /\ proc'[p].child = n /\ proc'[p].count = proc[p].count + 1
      /\ \A q \in Pids \ {n} :
           /\ proc'[q].mem = proc[q].mem /\ proc'[q].parent = proc[q].parent /\ proc'[q].pc = proc[q].pc
           /\ (proc'[q].dead <=> proc[q].dead) /\ (proc'[q].reaped <=> proc[q].reaped)
           /\ q # p => proc'[q].child = proc[q].child /\ proc'[q].count = proc[q].count
  BY <1>1 DEF Forked
<1>8. \A q \in Pids : Files(file', q) = Files(file, q)
  BY <1>3 DEF Files
<1>9. TypeOK'
  <2>1. queue' \in Seq(Pids)
    BY <1>1
  <2> QED
    BY <1>1, <1>3, <1>6, <2>1 DEF TypeOK, Stops
<1>10. RefInv'
  <2>1. /\ Children(proc', p) = Children(proc, p) \cup {n} /\ n \notin Children(proc, p)
        /\ \A q \in Pids \ {p} : Children(proc', q) = Children(proc, q)
    <3>1. n \notin Children(proc, p)
      BY <1>1, <1>2, NoneNoPid DEF Children
    <3>2. \A r \in Pids \ {n} : proc'[r].parent = proc[r].parent
      BY <1>7
    <3>3. proc'[n].parent = p
      BY <1>7
    <3>4. Children(proc', p) = Children(proc, p) \cup {n}
      BY <3>2, <3>3 DEF Children
    <3>5. ASSUME NEW q \in Pids, q # p PROVE Children(proc', q) = Children(proc, q)
      <4>1. proc[n].parent # q /\ proc'[n].parent # q
        BY <1>2, <3>3, <3>5, NoneNoPid
      <4> QED
        BY <3>2, <4>1 DEF Children
    <3> QED
      BY <3>1, <3>4, <3>5
  <2>2. Cardinality(Children(proc', p)) = Cardinality(Children(proc, p)) + 1
    <3>1. IsFiniteSet(Children(proc, p))
      BY PartsNat, FiniteSets1, ZenonT(60)
    <3> QED
      BY <2>1, <3>1, FS_AddElement
  <2>3. ASSUME NEW q \in Pids, q # n
        PROVE  Own(proc', q) = Own(proc, q) /\ ByParent(proc', q) = ByParent(proc, q)
    BY <1>7, <2>3 DEF Own, ByParent
  <2>4. Refs(n)' = 2
    <3>1. Own(proc', n) = 1 /\ ByParent(proc', n) = 1
      BY <1>1, <1>7, NoneNoPid DEF Own, ByParent
    <3>2. Children(proc', n) = {} /\ Files(file', n) = {}
      <4>1. Children(proc', n) = Children(proc, n)
        BY <1>1, <2>1
      <4>2. Files(file', n) = Files(file, n)
        BY <1>8
      <4>3. Children(proc, n) = {}
        BY <1>4 DEF Children
      <4>4. Files(file, n) = {}
        BY <1>5 DEF Files
      <4> QED
        BY <4>1, <4>2, <4>3, <4>4
    <3>3. Cardinality({}) = 0
      BY FS_EmptySet
    <3>4. Refs(n)' = Own(proc', n) + ByParent(proc', n) + Cardinality(Children(proc', n)) + Cardinality(Files(file', n))
      BY DEF Refs
    <3> QED
      BY <3>1, <3>2, <3>3, <3>4
  <2>5. ASSUME NEW q \in Pids, q # n, q # p PROVE Refs(q)' = Refs(q)
    BY <1>8, <2>1, <2>3, <2>5 DEF Refs
  <2>6. Refs(p)' = Refs(p) + 1
    <3>1. Own(proc, p) \in Nat /\ ByParent(proc, p) \in Nat /\ Cardinality(Children(proc, p)) \in Nat
          /\ Cardinality(Files(file, p)) \in Nat
      BY PartsNat
    <3>2. Own(proc', p) = Own(proc, p) /\ ByParent(proc', p) = ByParent(proc, p) /\ Files(file', p) = Files(file, p)
      BY <1>1, <1>8, <2>3
    <3> QED
      BY <2>2, <3>1, <3>2 DEF Refs
  <2>7. ASSUME NEW q \in Pids, proc'[q].mem # "unused"
        PROVE  proc'[q].count = Refs(q)' /\ (proc'[q].mem = "freed" <=> Refs(q)' = 0)
    <3>1. CASE q = n
      BY <1>7, <2>4, <3>1
    <3>2. CASE q = p
      <4>1. proc[p].count = Refs(p) /\ proc[p].count \in Nat
        BY <1>1, <1>2 DEF PInv, RefInv, Created, process_t
      <4>2. proc'[p].mem = "used"
        BY <1>1, <1>2, <1>7
      <4> QED
        BY <1>7, <2>6, <3>2, <4>1, <4>2
    <3>3. CASE q # n /\ q # p
      <4>1. proc[q].mem = proc'[q].mem /\ proc'[q].count = proc[q].count
        BY <1>7, <3>3
      <4>2. proc[q].count = Refs(q) /\ (proc[q].mem = "freed" <=> Refs(q) = 0)
        BY <2>7, <4>1 DEF PInv, RefInv, Created
      <4> QED
        BY <2>5, <3>3, <4>1, <4>2
    <3> QED
      BY <3>1, <3>2, <3>3
  <2> QED
    BY <1>9, <2>7 DEF RefInv, Created
<1>11. QueueInv'
  <2>1. /\ Len(queue') = Len(queue) + 1 /\ queue'[Len(queue) + 1] = n
        /\ \A i \in 1..Len(queue) : queue'[i] = queue[i]
        /\ DOMAIN queue' = 1..(Len(queue) + 1) /\ DOMAIN queue = 1..Len(queue) /\ Len(queue) \in Nat
    BY <1>1
  <2>2. Range(queue') = Range(queue) \cup {n}
    <3>1. Range(queue') = {queue'[i] : i \in 1..(Len(queue) + 1)} /\ Range(queue) = {queue[i] : i \in 1..Len(queue)}
      BY <2>1 DEF Range
    <3> QED
      BY <2>1, <3>1
  <2>3. \A i, j \in DOMAIN queue' : queue'[i] = queue'[j] => i = j
    <3>1. \A i \in 1..Len(queue) : queue'[i] \in Range(queue) /\ queue'[i] # n
      BY <1>2, <2>1 DEF Range
    <3>2. \A i, j \in 1..Len(queue) : queue[i] = queue[j] => i = j
      BY <2>1 DEF PInv, QueueInv
    <3>3. \A i \in 1..(Len(queue) + 1) : i \in 1..Len(queue) \/ i = Len(queue) + 1
      BY <2>1
    <3> QED
      BY <2>1, <3>1, <3>2, <3>3
  <2>4. {q \in Created : ~proc[q].dead}' = {q \in Created : ~proc[q].dead} \cup {n}
    BY <1>1, <1>7, ZenonT(60) DEF Created
  <2>5. Len(queue) >= 2 /\ queue[1] = 0 /\ queue[2] = 1
    BY DEF PInv, QueueInv
  <2>6. Len(queue') >= 2 /\ queue'[1] = 0 /\ queue'[2] = 1
    BY <2>1, <2>5
  <2>7. Range(queue') = {q \in Created : ~proc[q].dead}'
    BY <2>2, <2>4 DEF PInv, QueueInv
  <2>8. current' \in Range(queue')
    BY <1>1, <1>2, <2>2
  <2> QED
    BY <2>3, <2>6, <2>7, <2>8 DEF QueueInv
<1>12. Links'
  <2>1. ASSUME NEW q \in Pids
        PROVE  /\ q >= next_pid' => proc'[q].mem = "unused"
               /\ proc'[q].mem = "unused" => proc'[q].parent = None
               /\ proc'[q].parent # None => proc'[proc'[q].parent].mem # "unused"
               /\ proc'[q].child # None => /\ proc'[proc'[q].child].parent = q
                                           /\ ~proc'[proc'[q].child].reaped
               /\ proc'[q].pc \in Waits => proc'[q].child # None
    <3>1. \A r \in Pids : r # n => proc'[r].mem = proc[r].mem /\ proc'[r].parent = proc[r].parent
      BY <1>7
    <3>2. CASE q = n
      <4>1. ~(n >= next_pid') /\ proc'[p].mem # "unused"
        BY <1>1, <1>2, <1>7
      <4> QED
        BY <1>1, <1>7, <3>2, <4>1, NoneNoPid DEF Waits
    <3>3. CASE q # n
      <4>1. /\ q >= n => proc[q].mem = "unused"
            /\ proc[q].mem = "unused" => proc[q].parent = None
            /\ proc[q].parent # None => proc[proc[q].parent].mem # "unused"
            /\ proc[q].child # None => /\ proc[proc[q].child].parent = q
                                       /\ ~proc[proc[q].child].reaped
            /\ proc[q].pc \in Waits => proc[q].child # None
        BY DEF PInv, Links
      <4>2. proc'[q].mem = proc[q].mem /\ proc'[q].parent = proc[q].parent /\ proc'[q].pc = proc[q].pc
        BY <1>7, <3>3
      <4>3. q >= next_pid' => q >= n
        BY <1>1, NoneNoPid
      <4>4. proc[q].parent # None => proc[q].parent \in Pids \ {n}
        BY <1>1, <1>4 DEF process_t
      <4>5. CASE q = p
        <5>1. proc'[p].child = n /\ proc'[n].parent = p /\ ~proc'[n].reaped /\ n # None
          BY <1>7, NoneNoPid
        <5>2. proc'[q].parent # None => proc'[proc'[q].parent].mem # "unused"
          BY <3>1, <4>1, <4>2, <4>4, ZenonT(60)
        <5> QED
          BY <4>1, <4>2, <4>3, <4>5, <5>1, <5>2
      <4>6. CASE q # p
        <5>1. proc'[q].child = proc[q].child /\ (proc[q].child # None => proc[q].child \in Pids \ {n})
          BY <1>1, <1>4, <1>7, <3>3, <4>6, ZenonT(60) DEF process_t
        <5>2. proc'[q].parent # None => proc'[proc'[q].parent].mem # "unused"
          BY <3>1, <4>1, <4>2, <4>4, ZenonT(60)
        <5> QED
          BY <1>7, <4>1, <4>2, <4>3, <5>1, <5>2, ZenonT(60)
      <4> QED
        BY <4>5, <4>6
    <3> QED
      BY <3>2, <3>3
  <2>2. ASSUME NEW f \in Fds
        PROVE  /\ file'[f].target # None => proc'[file'[f].target].mem # "unused"
               /\ file'[f].target = None => file'[f].holders = {}
    <3>1. /\ file[f].target # None => proc[file[f].target].mem # "unused"
          /\ file[f].target = None => file[f].holders = {}
          /\ file[f].target \in Pids \cup {None}
      BY DEF PInv, Links, RefInv, TypeOK
    <3> QED
      BY <1>3, <1>5, <1>7, <3>1
  <2> QED
    BY <2>1, <2>2 DEF Links
<1> QED
  BY <1>10, <1>11, <1>12 DEF PInv

\* The loop of exit_process takes p, and only p, out of the ready queue.
LEMMA UnlinkQueue ==
  ASSUME PInv, NEW p \in Range(queue), p \notin {0, 1}
  PROVE  /\ Unlink(p) \in Seq(Pids) /\ Range(Unlink(p)) = Range(queue) \ {p}
         /\ \A j, k \in DOMAIN Unlink(p) : Unlink(p)[j] = Unlink(p)[k] => j = k
         /\ Len(Unlink(p)) >= 2 /\ Unlink(p)[1] = 0 /\ Unlink(p)[2] = 1
         /\ Head(Unlink(p)) = 0
<1> DEFINE i == CHOOSE j \in DOMAIN queue : queue[j] = p
           n == Len(queue)
           s == Unlink(p)
           h(j) == IF j < i THEN j ELSE j + 1
<1>1. /\ queue \in Seq(Pids) /\ n \in Nat /\ n >= 2 /\ DOMAIN queue = 1..n /\ queue[1] = 0 /\ queue[2] = 1
      /\ \A j, k \in 1..n : queue[j] = queue[k] => j = k
      /\ \A j \in 1..n : queue[j] \in Pids
  BY DEF PInv, QueueInv, RefInv, TypeOK
<1>2. \E j \in DOMAIN queue : queue[j] = p
  BY DEF Range
<1>3. i \in DOMAIN queue /\ queue[i] = p
  BY <1>2
<1>4. s = [j \in 1..(n - 1) |-> IF j < i THEN queue[j] ELSE queue[j + 1]]
  BY DEF Unlink
<1> HIDE DEF i, n, s
<1>5. i \in 3..n /\ i \in Nat
  BY <1>1, <1>3
<1>6. \A j \in 1..(n - 1) : h(j) \in 1..n /\ h(j) # i /\ s[j] = queue[h(j)]
  BY <1>1, <1>4, <1>5
<1>7. DOMAIN s = 1..(n - 1) /\ n - 1 \in Nat
  BY <1>1, <1>4
<1>8. s \in Seq(Pids) /\ Len(s) = n - 1
  <2>1. s \in [1..(n - 1) -> Pids]
    BY <1>1, <1>4, <1>6
  <2> QED
    BY <1>7, <2>1
<1>9. \A j, k \in 1..(n - 1) : h(j) = h(k) => j = k
  BY <1>1, <1>5
<1>10. \A j \in 1..n : j # i => \E k \in 1..(n - 1) : h(k) = j
  <2> TAKE j \in 1..n
  <2> HAVE j # i
  <2>1. CASE j < i
    <3>1. j \in 1..(n - 1) /\ h(j) = j
      BY <1>1, <1>5, <2>1
    <3> QED
      BY <3>1
  <2>2. CASE j > i
    <3>1. j - 1 \in 1..(n - 1) /\ h(j - 1) = j
      BY <1>1, <1>5, <2>2
    <3> QED
      BY <3>1
  <2> QED
    BY <1>1, <1>5, <2>1, <2>2
<1> HIDE DEF h
<1>11. \A j, k \in DOMAIN s : s[j] = s[k] => j = k
  BY <1>1, <1>6, <1>7, <1>9
<1>12. Range(s) = {s[j] : j \in 1..(n - 1)} /\ Range(queue) = {queue[j] : j \in 1..n}
  BY <1>1, <1>7 DEF Range
<1>13. Range(s) = Range(queue) \ {p}
  <2>1. \A j \in 1..(n - 1) : s[j] \in Range(queue) /\ s[j] # p
    BY <1>1, <1>3, <1>6, <1>12
  <2>2. \A j \in 1..n : queue[j] # p => queue[j] \in Range(s)
    BY <1>3, <1>6, <1>10, <1>12
  <2> QED
    BY <1>12, <2>1, <2>2
<1>14. Len(s) >= 2 /\ s[1] = 0 /\ s[2] = 1
  BY <1>1, <1>4, <1>5, <1>8
<1>15. Head(s) = s[1]
  BY <1>8, <1>14
<1> QED
  BY <1>8, <1>11, <1>13, <1>14, <1>15 DEF s

\* What an exit takes from each count: the files it is the last to close, and
\* the process's own reference.
Taken(p) == [q \in Pids |-> Released(p, Held(p))[q] + One(p)[q]]

\* What an exit does to the table, the parent's wake-up aside.
Exited(p) ==
  \A q \in Pids :
    /\ proc'[q].count = proc[q].count - Taken(p)[q]
    /\ proc'[q].mem = IF Taken(p)[q] # 0 /\ proc[q].count = Taken(p)[q] THEN "freed" ELSE proc[q].mem
    /\ (proc'[q].dead <=> (q = p \/ proc[q].dead)) /\ (proc'[q].reaped <=> proc[q].reaped)
    /\ proc'[q].parent = proc[q].parent /\ proc'[q].child = proc[q].child
    /\ proc'[q].pc = proc[q].pc

\* The parent is told before the references go.
Told(p) == [proc EXCEPT ![p].dead = TRUE,
                        ![proc[p].parent].halts = FALSE,
                        ![proc[p].parent].child_rc = p]

LEMMA ToldTable ==
  ASSUME PInv, NEW p \in Pids
  PROVE  /\ Told(p) \in [Pids -> process_t]
         /\ \A q \in Pids :
              /\ Told(p)[q].count = proc[q].count /\ Told(p)[q].mem = proc[q].mem
              /\ (Told(p)[q].dead <=> (q = p \/ proc[q].dead)) /\ (Told(p)[q].reaped <=> proc[q].reaped)
              /\ Told(p)[q].parent = proc[q].parent /\ Told(p)[q].child = proc[q].child
              /\ Told(p)[q].pc = proc[q].pc
<1> DEFINE a == proc[p].parent
           one == [proc EXCEPT ![p].dead = TRUE]
           two == [one EXCEPT ![a].halts = FALSE, ![a].child_rc = p]
<1>1. proc \in [Pids -> process_t]
  BY DEF PInv, RefInv, TypeOK
<1>2. /\ one \in [Pids -> process_t]
      /\ \A q \in Pids :
           /\ one[q].count = proc[q].count /\ one[q].mem = proc[q].mem
           /\ (one[q].dead <=> (q = p \/ proc[q].dead)) /\ (one[q].reaped <=> proc[q].reaped)
           /\ one[q].parent = proc[q].parent /\ one[q].child = proc[q].child /\ one[q].pc = proc[q].pc
  <2>1. one[p] = [proc[p] EXCEPT !.dead = TRUE] /\ \A q \in Pids : q # p => one[q] = proc[q]
    BY <1>1
  <2>2. one = [q \in Pids |-> one[q]]
    BY <1>1, ZenonT(60)
  <2> HIDE DEF one
  <2>3. proc[p] \in process_t
    BY <1>1
  <2>4. one[p] \in process_t
    BY <2>1, <2>3, ZenonT(60) DEF process_t
  <2>5. /\ one[p].count = proc[p].count /\ one[p].mem = proc[p].mem
        /\ one[p].dead /\ (one[p].reaped <=> proc[p].reaped)
        /\ one[p].parent = proc[p].parent /\ one[p].child = proc[p].child /\ one[p].pc = proc[p].pc
    BY <2>1, <2>3 DEF process_t
  <2>6. one \in [Pids -> process_t]
    BY <1>1, <2>1, <2>2, <2>4, ZenonT(60)
  <2> QED
    BY <2>1, <2>5, <2>6, ZenonT(60)
<1>3. Told(p) = two
  BY <1>1 DEF Told
<1> HIDE DEF one
<1>4. CASE a = None
  <2>1. a \notin Pids
    BY <1>4, NoneNoPid
  <2>2. two = one
    BY <1>2, <2>1
  <2> HIDE DEF two
  <2>3. Told(p) = one
    BY <1>3, <2>2
  <2> QED
    BY <1>2, <2>3
<1>5. CASE a # None
  <2>1. a \in Pids
    BY <1>1, <1>5 DEF process_t
  <2> HIDE DEF a
  <2>2. two[a] = [one[a] EXCEPT !.halts = FALSE, !.child_rc = p] /\ \A q \in Pids : q # a => two[q] = one[q]
    BY <1>2, <2>1
  <2>3. two = [q \in Pids |-> two[q]]
    BY <1>2, ZenonT(60)
  <2> HIDE DEF two
  <2>4. one[a] \in process_t
    BY <1>2, <2>1
  <2> DEFINE r == [one[a] EXCEPT !.halts = FALSE]
  <2>5. r \in process_t
    BY <2>4, ZenonT(60) DEF process_t
  <2>6. /\ r.count = one[a].count /\ r.mem = one[a].mem
        /\ (r.dead <=> one[a].dead) /\ (r.reaped <=> one[a].reaped)
        /\ r.parent = one[a].parent /\ r.child = one[a].child /\ r.pc = one[a].pc
    BY <2>4 DEF process_t
  <2>7. two[a] = [r EXCEPT !.child_rc = p]
    BY <2>2, <2>4 DEF process_t
  <2> HIDE DEF r
  <2>8. two[a] \in process_t
    BY <2>5, <2>7 DEF process_t
  <2>9. /\ two[a].count = r.count /\ two[a].mem = r.mem
        /\ (two[a].dead <=> r.dead) /\ (two[a].reaped <=> r.reaped)
        /\ two[a].parent = r.parent /\ two[a].child = r.child /\ two[a].pc = r.pc
    BY <2>5, <2>7 DEF process_t
  <2>10. two \in [Pids -> process_t]
    <3>1. \A q \in Pids : two[q] \in process_t
      BY <1>2, <2>2, <2>8
    <3> QED
      BY <2>3, <3>1
  <2>11. ASSUME NEW q \in Pids
         PROVE  /\ two[q].count = one[q].count /\ two[q].mem = one[q].mem
                /\ (two[q].dead <=> one[q].dead) /\ (two[q].reaped <=> one[q].reaped)
                /\ two[q].parent = one[q].parent /\ two[q].child = one[q].child /\ two[q].pc = one[q].pc
    BY <2>2, <2>6, <2>9, ZenonT(60)
  <2> QED
    BY <1>2, <1>3, <2>10, <2>11
<1> QED
  BY <1>4, <1>5

\* The table out is ps with m and then o references dropped.
Fewer(out, ps, m, o) ==
  /\ out \in [Pids -> process_t]
  /\ \A q \in Pids :
       /\ out[q].count = ps[q].count - (m[q] + o[q])
       /\ out[q].mem = IF m[q] + o[q] # 0 /\ ps[q].count = m[q] + o[q] THEN "freed" ELSE ps[q].mem
       /\ (out[q].dead <=> ps[q].dead) /\ (out[q].reaped <=> ps[q].reaped)
       /\ out[q].parent = ps[q].parent /\ out[q].child = ps[q].child
       /\ out[q].pc = ps[q].pc

\* Two drops in a row take what one drop of the sum takes.
LEMMA DroppedTwice ==
  ASSUME NEW ps \in [Pids -> process_t], NEW m \in [Pids -> Nat], NEW o \in [Pids -> Nat],
         \A q \in Pids : m[q] + o[q] <= ps[q].count
  PROVE  Fewer(process_remove_reference(process_remove_reference(ps, m), o), ps, m, o)
<1> DEFINE shut == process_remove_reference(ps, m)
           out == process_remove_reference(shut, o)
<1>1. \A q \in Pids : /\ m[q] \in Nat /\ o[q] \in Nat /\ ps[q].count \in Nat
                      /\ m[q] <= ps[q].count /\ o[q] <= ps[q].count - m[q]
  BY DEF process_t
<1>2. \A q \in Pids : m[q] <= ps[q].count
  BY <1>1, ZenonT(60)
<1>3. /\ shut \in [Pids -> process_t]
      /\ \A q \in Pids :
           /\ shut[q].count = ps[q].count - m[q]
           /\ shut[q].mem = IF m[q] # 0 /\ ps[q].count = m[q] THEN "freed" ELSE ps[q].mem
           /\ (shut[q].dead <=> ps[q].dead) /\ (shut[q].reaped <=> ps[q].reaped)
           /\ shut[q].parent = ps[q].parent /\ shut[q].child = ps[q].child
           /\ shut[q].pc = ps[q].pc
  BY <1>2, Dropped
<1> HIDE DEF shut
<1>4. \A q \in Pids : o[q] <= shut[q].count
  BY <1>1, <1>3, ZenonT(60)
<1>5. /\ out \in [Pids -> process_t]
      /\ \A q \in Pids :
           /\ out[q].count = shut[q].count - o[q]
           /\ out[q].mem = IF o[q] # 0 /\ shut[q].count = o[q] THEN "freed" ELSE shut[q].mem
           /\ (out[q].dead <=> shut[q].dead) /\ (out[q].reaped <=> shut[q].reaped)
           /\ out[q].parent = shut[q].parent /\ out[q].child = shut[q].child
           /\ out[q].pc = shut[q].pc
  BY <1>3, <1>4, Dropped
<1> HIDE DEF out
<1>6. ASSUME NEW q \in Pids
      PROVE  /\ out[q].count = ps[q].count - (m[q] + o[q])
             /\ out[q].mem = IF m[q] + o[q] # 0 /\ ps[q].count = m[q] + o[q] THEN "freed" ELSE ps[q].mem
  <2> DEFINE a == m[q]
             b == o[q]
             c == ps[q].count
  <2>1. a \in Nat /\ b \in Nat /\ c \in Nat /\ a <= c /\ b <= c - a
    BY <1>1, ZenonT(60)
  <2>2. /\ out[q].count = (c - a) - b
        /\ out[q].mem = IF b # 0 /\ c - a = b THEN "freed" ELSE IF a # 0 /\ c = a THEN "freed" ELSE ps[q].mem
    BY <1>3, <1>5
  <2> HIDE DEF a, b, c
  <2>3. /\ (c - a) - b = c - (a + b)
        /\ (b # 0 /\ c - a = b) \/ (a # 0 /\ c = a) <=> a + b # 0 /\ c = a + b
    BY <2>1
  <2> QED
    BY <2>2, <2>3, ZenonT(60) DEF a, b, c
<1>7. ASSUME NEW q \in Pids
      PROVE  /\ (out[q].dead <=> ps[q].dead) /\ (out[q].reaped <=> ps[q].reaped)
             /\ out[q].parent = ps[q].parent /\ out[q].child = ps[q].child
             /\ out[q].pc = ps[q].pc
  BY <1>3, <1>5, ZenonT(60)
<1> QED
  BY <1>5, <1>6, <1>7, ZenonT(60) DEF Fewer, out, shut

\* The table exit_process leaves: the files of p give their references back, then p
\* gives its own.
Leaves(p) == proc' = process_remove_reference(process_remove_reference(Told(p), Released(p, Held(p))), One(p))

\* exit_process drops what the process held: its files' references, then its own.
LEMMA ExitTable ==
  ASSUME PInv, NEW p \in Pids, proc[p].mem # "unused", ~proc[p].dead, Leaves(p)
  PROVE  /\ proc' \in [Pids -> process_t] /\ Exited(p)
         /\ Taken(p) \in [Pids -> Nat]
         /\ \A q \in Pids : Taken(p)[q] = Released(p, Held(p))[q] + (IF q = p THEN 1 ELSE 0)
<1> DEFINE m == Released(p, Held(p))
           o == One(p)
           told == Told(p)
<1>1. proc \in [Pids -> process_t]
  BY DEF PInv, RefInv, TypeOK
<1>2. /\ told \in [Pids -> process_t]
      /\ \A q \in Pids :
           /\ told[q].count = proc[q].count /\ told[q].mem = proc[q].mem
           /\ (told[q].dead <=> (q = p \/ proc[q].dead)) /\ (told[q].reaped <=> proc[q].reaped)
           /\ told[q].parent = proc[q].parent /\ told[q].child = proc[q].child
           /\ told[q].pc = proc[q].pc
  BY ToldTable, ZenonT(60)
<1>3. m \in [Pids -> Nat] /\ \A q \in Pids : m[q] <= Cardinality(Files(file, q))
  BY ClosedCount, ZenonT(60)
<1>5. o \in [Pids -> Nat] /\ \A q \in Pids : o[q] = IF q = p THEN 1 ELSE 0
  BY DEF One
<1>6. Taken(p) = [q \in Pids |-> m[q] + o[q]]
  BY ZenonT(60) DEF Taken
<1>7. proc' = process_remove_reference(process_remove_reference(told, m), o)
  BY ZenonT(60) DEF Leaves
<1> HIDE DEF m, o, told
<1>4. ASSUME NEW q \in Pids
      PROVE  m[q] + o[q] <= proc[q].count
  <2> DEFINE c == Cardinality(Files(file, q))
             a == Own(proc, q)
             b == ByParent(proc, q)
             d == Cardinality(Children(proc, q))
  <2>1. m[q] <= c /\ c \in Nat /\ d \in Nat /\ a \in 0..1 /\ b \in 0..1
    BY <1>3, PartsNat, ZenonT(60)
  <2>2. m[q] \in Nat /\ o[q] = IF q = p THEN 1 ELSE 0
    BY <1>3, <1>5, ZenonT(60)
  <2>3. CASE proc[q].mem = "unused"
    <3>1. Files(file, q) = {} /\ q # p
      BY <2>3, NoneNoPid DEF PInv, Links, Files
    <3>2. c = 0
      BY <3>1, FS_EmptySet, ZenonT(60)
    <3>3. proc[q].count \in Nat
      BY <1>1 DEF process_t
    <3> HIDE DEF c
    <3> QED
      BY <2>1, <2>2, <3>1, <3>2, <3>3
  <2>4. CASE proc[q].mem # "unused"
    <3>1. proc[q].count = Refs(q)
      BY <2>4 DEF PInv, RefInv, Created
    <3>2. q = p => a = 1
      BY ZenonT(60) DEF Own
    <3>3. proc[q].count = a + b + d + c
      BY <3>1, ZenonT(60) DEF Refs
    <3> HIDE DEF a, b, c, d
    <3> QED
      BY <2>1, <2>2, <3>2, <3>3
  <2> QED
    BY <2>3, <2>4, ZenonT(60)
<1>8. \A q \in Pids : m[q] + o[q] <= told[q].count
  BY <1>2, <1>4, ZenonT(60)
<1>9. /\ proc' \in [Pids -> process_t]
      /\ \A q \in Pids :
           /\ proc'[q].count = told[q].count - (m[q] + o[q])
           /\ proc'[q].mem = IF m[q] + o[q] # 0 /\ told[q].count = m[q] + o[q] THEN "freed" ELSE told[q].mem
           /\ (proc'[q].dead <=> told[q].dead) /\ (proc'[q].reaped <=> told[q].reaped)
           /\ proc'[q].parent = told[q].parent /\ proc'[q].child = told[q].child
           /\ proc'[q].pc = told[q].pc
  <2>1. told \in [Pids -> process_t] /\ m \in [Pids -> Nat] /\ o \in [Pids -> Nat]
    BY <1>2, <1>3, <1>5, ZenonT(60)
  <2>2. Fewer(process_remove_reference(process_remove_reference(told, m), o), told, m, o)
    BY <1>8, <2>1, DroppedTwice, ZenonT(60)
  <2>3. Fewer(proc', told, m, o)
    BY <1>7, <2>2, ZenonT(60)
  <2> QED
    BY <2>3, ZenonT(60) DEF Fewer
<1>10. \A q \in Pids : m[q] + o[q] \in Nat /\ Taken(p)[q] = m[q] + o[q]
  BY <1>3, <1>5, <1>6
<1>11. Taken(p) \in [Pids -> Nat]
  BY <1>6, <1>10, ZenonT(60)
<1>12. ASSUME NEW q \in Pids
       PROVE  /\ proc'[q].count = proc[q].count - Taken(p)[q]
              /\ proc'[q].mem = IF Taken(p)[q] # 0 /\ proc[q].count = Taken(p)[q] THEN "freed" ELSE proc[q].mem
  BY <1>2, <1>9, <1>10
<1>13. ASSUME NEW q \in Pids
       PROVE  /\ (proc'[q].dead <=> (q = p \/ proc[q].dead)) /\ (proc'[q].reaped <=> proc[q].reaped)
              /\ proc'[q].parent = proc[q].parent /\ proc'[q].child = proc[q].child
              /\ proc'[q].pc = proc[q].pc
  BY <1>2, <1>9, ZenonT(60)
<1>14. \A q \in Pids : Taken(p)[q] = m[q] + (IF q = p THEN 1 ELSE 0)
  BY <1>5, <1>10, ZenonT(60)
<1> QED
  BY <1>9, <1>11, <1>12, <1>13, <1>14, ZenonT(60) DEF Exited, m

\* exit_process keeps the invariant.
LEMMA ExitStep ==
  ASSUME PInv, NEW p \in Pids, proc[p].mem # "unused", exit_process(p)
  PROVE  PInv'
<1>1. CASE p = 1 \/ proc[p].dead \/ p = 0
  <2>1. UNCHANGED <<proc, queue, current, next_pid, file>> /\ cpu' \in Stops
    BY <1>1 DEF exit_process, Stop, Stops
  <2> QED
    BY <2>1, InQueue, NoRow
<1>2. CASE p # 1 /\ ~proc[p].dead /\ p # 0
  <2>1. /\ Leaves(p) /\ file' = Closed(p, Held(p)) /\ queue' = Unlink(p) /\ UNCHANGED next_pid
        /\ IF p # current THEN UNCHANGED <<current, cpu>>
           ELSE IF proc'[p].mem = "used" THEN current' = Successor(p, 1) /\ UNCHANGED cpu
           ELSE current' = Head(queue') /\ cpu' = "sched"
    BY <1>2 DEF exit_process, Told, Leaves
  <2>2. p \in Range(queue) /\ current \in Range(queue)
    BY <1>2, InQueue, ZenonT(60)
  <2>3. /\ proc' \in [Pids -> process_t] /\ Exited(p) /\ Taken(p) \in [Pids -> Nat]
        /\ \A q \in Pids : Taken(p)[q] = Released(p, Held(p))[q] + (IF q = p THEN 1 ELSE 0)
    BY <1>2, <2>1, ExitTable, ZenonT(60)
  <2>4. /\ queue' \in Seq(Pids) /\ Range(queue') = Range(queue) \ {p}
        /\ \A j, k \in DOMAIN queue' : queue'[j] = queue'[k] => j = k
        /\ Len(queue') >= 2 /\ queue'[1] = 0 /\ queue'[2] = 1
        /\ Head(queue') = 0
    BY <1>2, <2>1, <2>2, UnlinkQueue, ZenonT(60)
  <2>5. current' \in Range(queue') /\ current' \in Pids /\ cpu' \in {"run", "sched"} \cup Stops
    <3>1. cpu \in {"run", "sched"} \cup Stops /\ queue \in Seq(Pids)
      BY DEF PInv, RefInv, TypeOK
    <3>2. Successor(p, 1) \in Range(queue) \ {p}
      BY <2>2, SuccessorInQueue
    <3>3. 0 \in Range(queue)
      BY InQueue
    <3>4. current' \in Range(queue')
      BY <1>2, <2>1, <2>2, <2>4, <3>2, <3>3
    <3>5. Range(queue) \subseteq Pids
      BY <3>1, RangeSubset, ZenonT(60)
    <3> QED
      BY <2>1, <2>4, <3>1, <3>4, <3>5
  <2>6. /\ file' \in [Fds -> [target : Pids \cup {None}, holders : SUBSET Pids]]
        /\ \A q \in Pids : /\ Released(p, Held(p))[q] <= Cardinality(Files(file, q))
                           /\ Released(p, Held(p))[q] \in Nat
                           /\ Cardinality(Files(file', q)) = Cardinality(Files(file, q)) - Released(p, Held(p))[q]
        /\ \A f \in Fds : /\ file'[f].target \in {None, file[f].target}
                          /\ file'[f].target = None => file'[f].holders = {}
    <3>2. /\ Closed(p, Held(p)) \in [Fds -> [target : Pids \cup {None}, holders : SUBSET Pids]]
          /\ Released(p, Held(p)) \in [Pids -> Nat]
          /\ \A q \in Pids : /\ Released(p, Held(p))[q] <= Cardinality(Files(file, q))
                             /\ Cardinality(Files(Closed(p, Held(p)), q)) = Cardinality(Files(file, q)) - Released(p, Held(p))[q]
          /\ \A f \in Fds : /\ Closed(p, Held(p))[f].target \in {None, file[f].target}
                            /\ Closed(p, Held(p))[f].target = None => Closed(p, Held(p))[f].holders = {}
      BY ClosedCount, ZenonT(60)
    <3> QED
      BY <2>1, <3>2
  <2>7. TypeOK'
    <3>1. next_pid' \in 2..(MaxPid + 1)
      BY <2>1 DEF PInv, RefInv, TypeOK
    <3> QED
      BY <2>3, <2>4, <2>5, <2>6, <3>1, ZenonT(60) DEF TypeOK, Stops
  <2>8. ASSUME NEW q \in Pids
        PROVE  Refs(q)' = Refs(q) - Taken(p)[q] /\ Refs(q) \in Nat /\ Taken(p)[q] <= Refs(q) /\ Taken(p)[q] \in Nat
    <3>1. Children(proc', q) = Children(proc, q) /\ ByParent(proc', q) = ByParent(proc, q)
      BY <2>3 DEF Children, ByParent, Exited
    <3>2. /\ Own(proc', q) = Own(proc, q) - (IF q = p THEN 1 ELSE 0)
          /\ (q = p => Own(proc, q) = 1)
      BY <1>2, <2>3 DEF Own, Exited
    <3> DEFINE a == Own(proc, q)
               b == ByParent(proc, q)
               c == Cardinality(Children(proc, q))
               d == Cardinality(Files(file, q))
               r == Released(p, Held(p))[q]
               t == Taken(p)[q]
               i == IF q = p THEN 1 ELSE 0
    <3>3. a \in 0..1 /\ b \in 0..1 /\ c \in Nat /\ d \in Nat
      BY PartsNat, ZenonT(60)
    <3>4. r \in Nat /\ r <= d /\ Cardinality(Files(file', q)) = d - r /\ t = r + i
      BY <2>3, <2>6, ZenonT(60)
    <3>5. Refs(q) = a + b + c + d /\ Refs(q)' = (a - i) + b + c + (d - r)
      BY <3>1, <3>2, <3>4, ZenonT(60) DEF Refs
    <3>6. i \in 0..1 /\ i <= a
      BY <3>2, <3>3
    <3> HIDE DEF a, b, c, d, r, t, i
    <3> QED
      BY <3>3, <3>4, <3>5, <3>6 DEF t
  <2>9. ASSUME NEW q \in Pids
        PROVE  /\ proc[q].mem = "unused" => Taken(p)[q] = 0
               /\ proc'[q].mem = "unused" <=> proc[q].mem = "unused"
    <3>1. proc[q].mem = "unused" => Files(file, q) = {} /\ q # p
      BY NoneNoPid DEF PInv, Links, Files
    <3>2. Cardinality({}) = 0
      BY FS_EmptySet, ZenonT(60)
    <3>3. /\ Released(p, Held(p))[q] \in Nat /\ Released(p, Held(p))[q] <= Cardinality(Files(file, q))
          /\ Taken(p)[q] = Released(p, Held(p))[q] + (IF q = p THEN 1 ELSE 0)
      BY <2>3, <2>6, ZenonT(60)
    <3>4. proc[q].mem = "unused" => Taken(p)[q] = 0
      BY <3>1, <3>2, <3>3
    <3> QED
      BY <2>3, <3>4 DEF Exited
  <2>10. RefInv'
    <3> SUFFICES ASSUME NEW q \in Created'
                 PROVE  proc'[q].count = Refs(q)' /\ (proc'[q].mem = "freed" <=> Refs(q)' = 0)
      BY <2>7 DEF RefInv
    <3>1. q \in Pids /\ q \in Created
      BY <2>9 DEF Created
    <3>2. proc[q].count = Refs(q) /\ (proc[q].mem = "freed" <=> Refs(q) = 0)
      BY <3>1, ZenonT(60) DEF PInv, RefInv
    <3>3. /\ proc'[q].count = proc[q].count - Taken(p)[q]
          /\ proc'[q].mem = IF Taken(p)[q] # 0 /\ proc[q].count = Taken(p)[q] THEN "freed" ELSE proc[q].mem
      BY <2>3, <3>1 DEF Exited
    <3>4. Refs(q)' = Refs(q) - Taken(p)[q] /\ Refs(q) \in Nat /\ Taken(p)[q] <= Refs(q) /\ Taken(p)[q] \in Nat
      BY <2>8, <3>1, ZenonT(60)
    <3> QED
      BY <3>2, <3>3, <3>4
  <2>11. Links'
    <3>1. ASSUME NEW g \in Fds
          PROVE  /\ file'[g].target # None => file'[g].target \in Pids /\ proc[file'[g].target].mem # "unused"
                 /\ file'[g].target = None => file'[g].holders = {}
      BY <2>6 DEF PInv, Links
    <3>2. \A q \in Pids : /\ proc'[q].mem = "unused" <=> proc[q].mem = "unused"
                          /\ proc'[q].parent = proc[q].parent /\ proc'[q].child = proc[q].child
                          /\ proc'[q].reaped <=> proc[q].reaped
                          /\ proc'[q].pc \in Waits => proc[q].child # None
      BY <2>3, <2>9 DEF PInv, Links, Exited
    <3> QED
      BY <2>1, <3>1, <3>2, LinksKept, ZenonT(60)
  <2>12. QueueInv'
    <3>1. {q \in Created : ~proc[q].dead}' = {q \in Created : ~proc[q].dead} \ {p}
      BY <2>3, <2>9 DEF Created, Exited
    <3>2. Range(queue') = {q \in Created : ~proc[q].dead}'
      BY <2>4, <3>1 DEF PInv, QueueInv
    <3> QED
      BY <2>4, <2>5, <3>2, ZenonT(60) DEF QueueInv
  <2> QED
    BY <2>10, <2>11, <2>12 DEF PInv
<1> QED
  BY <1>1, <1>2

\* A signal wakes, kills, is ignored or stops the machine.
LEMMA SignalStep ==
  ASSUME PInv, NEW p \in Pids, proc[p].mem # "unused", NEW sig, signal_process(p, sig)
  PROVE  PInv'
<1>1. proc \in [Pids -> process_t] /\ cpu \in {"run", "sched"} \cup Stops /\ proc[p] \in process_t
  BY DEF PInv, RefInv, TypeOK
<1>2. CASE /\ proc' = [proc EXCEPT ![p].is_interrupted = @ \/ proc[p].is_halted]
           /\ UNCHANGED <<queue, current, cpu, next_pid, file>>
  <2> DEFINE r == [proc[p] EXCEPT !.is_interrupted = proc[p].is_interrupted \/ proc[p].is_halted]
  <2>1. proc' = [proc EXCEPT ![p] = r]
    BY <1>1, <1>2
  <2>2. r \in process_t
    BY <1>1 DEF process_t
  <2>3. Alike(r, proc[p]) /\ r.pc = proc[p].pc
    BY <1>1 DEF process_t, Alike
  <2> HIDE DEF r
  <2>4. r.pc \in Waits => proc[p].child # None
    BY <2>3 DEF PInv, Links
  <2>5. current' \in Range(queue)
    BY <1>2, InQueue
  <2> QED
    BY <1>1, <1>2, <2>1, <2>2, <2>3, <2>4, <2>5, OneRow, ZenonT(60)
<1>3. CASE exit_process(p)
  BY <1>3, ExitStep
<1>4. CASE Stop("not_reached")
  <2>1. UNCHANGED <<proc, queue, current, next_pid, file>> /\ cpu' \in Stops
    BY <1>4 DEF Stop, Stops
  <2> QED
    BY <2>1, InQueue, NoRow
<1> QED
  BY <1>2, <1>3, <1>4 DEF signal_process

\* The system calls and interrupts that signal.
LEMMA SignalActions ==
  ASSUME PInv,
         \/ exit \/ page_fault
         \/ \E p \in Pids, s \in Sigs : kill(p, s)
         \/ \E f \in Fds, s \in Sigs : process_write(f, s)
  PROVE  PInv'
<1>0. current \in Pids
  BY DEF PInv, RefInv, TypeOK
<1>1. current \in Pids /\ proc[current].mem # "unused"
  BY <1>0, InQueue
<1>2. CASE exit
  BY <1>1, <1>2, ExitStep DEF exit
<1>3. CASE page_fault
  BY <1>1, <1>3, SignalStep DEF page_fault
<1>4. CASE \E p \in Pids, s \in Sigs : kill(p, s)
  BY <1>4, InQueue, SignalStep DEF kill
<1>5. ASSUME NEW f \in Fds, NEW s \in Sigs, process_write(f, s) PROVE PInv'
  <2>0. file \in [Fds -> [target : Pids \cup {None}, holders : SUBSET Pids]]
    BY DEF PInv, RefInv, TypeOK
  <2>1. file[f].target \in Pids \cup {None} /\ file[f].holders # {}
    BY <1>5, <2>0 DEF process_write, Held
  <2>2. file[f].target \in Pids /\ proc[file[f].target].mem # "unused"
    BY <2>1 DEF PInv, Links
  <2> QED
    BY <1>5, <2>2, SignalStep DEF process_write
<1> QED
  BY <1>2, <1>3, <1>4, <1>5

\* A step that only changes how the running task waits, its handlers or its
\* sleep.
LEMMA TaskStep ==
  ASSUME PInv, NEW c \in Pids, NEW r \in process_t, Alike(r, proc[c]),
         r.pc \in Waits => proc[c].child # None,
         proc' = [proc EXCEPT ![c] = r], UNCHANGED <<queue, current, next_pid, file>>, cpu' \in {cpu, "sched"}
  PROVE  PInv'
<1>1. current' \in Range(queue) /\ cpu' \in {"run", "sched"} \cup Stops
  BY InQueue DEF PInv, RefInv, TypeOK
<1> QED
  BY <1>1, OneRow, ZenonT(60)

\* Waiting, asleep or polling, nothing that the invariant reads changes.
LEMMA WaitRows ==
  ASSUME NEW r \in process_t
  PROVE  /\ Halted(r) \in process_t /\ Alike(Halted(r), r)
         /\ Interrupted(r) \in process_t /\ Alike(Interrupted(r), r) /\ Interrupted(r).pc = "user"
<1>1. Halted(r) \in process_t
  BY ZenonT(60) DEF Halted, process_t, PcSet
<1>2. Alike(Halted(r), r)
  BY DEF Halted, process_t, Alike
<1>3. Interrupted(r) \in process_t
  BY ZenonT(60) DEF Interrupted, process_t, PcSet
<1>4. Alike(Interrupted(r), r) /\ Interrupted(r).pc = "user"
  BY DEF Interrupted, process_t, Alike
<1> QED
  BY <1>1, <1>2, <1>3, <1>4

LEMMA WaitStep ==
  ASSUME PInv, syscall_wait \/ wait_test \/ wait_again \/ wait_return
  PROVE  PInv'
<1> DEFINE r == proc[current]
<1>1. proc \in [Pids -> process_t] /\ current \in Pids /\ r \in process_t /\ cpu \in {"run", "sched"} \cup Stops
  BY DEF PInv, RefInv, TypeOK
<1>2. cur = r
  BY DEF cur
<1>3. /\ Halted(r) \in process_t /\ Alike(Halted(r), r)
      /\ Interrupted(r) \in process_t /\ Alike(Interrupted(r), r) /\ Interrupted(r).pc = "user"
  BY <1>1, WaitRows
<1>4. r.pc \in Waits => r.child # None
  BY <1>1 DEF PInv, Links
<1>5. CASE /\ proc' = [proc EXCEPT ![current] = Halted(r)] /\ r.child # None /\ switch_task
           /\ UNCHANGED <<queue, next_pid, file>>
  BY <1>1, <1>3, <1>5, TaskStep, ZenonT(60) DEF switch_task
<1>6. CASE /\ proc' = [proc EXCEPT ![current] = Interrupted(r)]
           /\ UNCHANGED <<queue, current, cpu, next_pid, file>>
  <2>1. Interrupted(r).pc \notin Waits
    BY <1>3 DEF Waits
  <2> QED
    BY <1>1, <1>3, <1>6, <2>1, TaskStep, ZenonT(60)
<1>7. ASSUME NEW c \in {"user", "again", "reap"}, proc' = [proc EXCEPT ![current].pc = c],
             c \in Waits => r.child # None, UNCHANGED <<queue, current, cpu, next_pid, file>>
      PROVE  PInv'
  <2> DEFINE t == [r EXCEPT !.pc = c]
  <2>1. proc' = [proc EXCEPT ![current] = t]
    BY <1>1, <1>7
  <2>2. t \in process_t
    BY <1>1 DEF process_t, PcSet
  <2>3. Alike(t, r) /\ t.pc = c
    BY <1>1 DEF process_t, Alike
  <2> HIDE DEF t
  <2> QED
    BY <1>1, <1>7, <2>1, <2>2, <2>3, TaskStep, ZenonT(60)
<1>8. CASE /\ cur.child # None /\ proc[cur.child].dead
           /\ UNCHANGED <<queue, current, cpu, next_pid, file>>
           /\ \/ proc' = Reap /\ cur.pc = "user"
              \/ proc' = [Reap EXCEPT ![current].pc = "user"]
  BY <1>1, <1>8, ReapTable, ReapStep
<1>9. CASE syscall_wait
  <2>1. CASE proc[cur.child].dead
    BY <1>8, <1>9, <2>1 DEF syscall_wait, Running
  <2>2. CASE ~proc[cur.child].dead
    BY <1>2, <1>5, <1>9, <2>2 DEF syscall_wait
  <2> QED
    BY <2>1, <2>2
<1>10. CASE wait_test
  <2>1. r.pc = "wait" /\ r.child # None
    BY <1>2, <1>4, <1>10 DEF wait_test, Running, Waits
  <2>2. CASE cur.is_interrupted
    BY <1>2, <1>6, <1>10, <2>2 DEF wait_test
  <2>3. CASE ~cur.is_interrupted
    <3> DEFINE c == IF cur.halts THEN "again" ELSE "reap"
    <3>1. c \in {"user", "again", "reap"} /\ proc' = [proc EXCEPT ![current].pc = c]
      BY <1>10, <2>3 DEF wait_test
    <3> HIDE DEF c
    <3> QED
      BY <1>7, <1>10, <2>1, <3>1, ZenonT(60) DEF wait_test
  <2> QED
    BY <2>2, <2>3
<1>11. CASE wait_again
  <2>1. r.pc = "again" /\ r.child # None
    BY <1>2, <1>4, <1>11 DEF wait_again, Running, Waits
  <2> QED
    BY <1>2, <1>5, <1>11, <2>1 DEF wait_again
<1>12. CASE wait_return
  <2>1. r.pc = "reap" /\ r.child # None
    BY <1>2, <1>4, <1>12 DEF wait_return, Running, Waits
  <2>2. CASE cur.is_interrupted
    BY <1>2, <1>6, <1>12, <2>2 DEF wait_return
  <2>3. CASE ~cur.is_interrupted /\ proc[cur.child].dead
    BY <1>2, <1>8, <1>12, <2>1, <2>3 DEF wait_return
  <2>4. CASE ~cur.is_interrupted /\ ~proc[cur.child].dead
    <3>1. proc' = [proc EXCEPT ![current].pc = "user"]
      BY <1>12, <2>4 DEF wait_return, Reap
    <3>2. "user" \notin Waits
      BY DEF Waits
    <3> QED
      BY <1>7, <1>12, <3>1, <3>2, ZenonT(60) DEF wait_return
  <2> QED
    BY <2>2, <2>3, <2>4
<1> QED
  BY <1>9, <1>10, <1>11, <1>12

LEMMA SleepStep ==
  ASSUME PInv,
         \/ syscall_msleep \/ poll \/ poll_return
         \/ \E s \in Sigs : set_signal_handler(s)
         \/ \E p \in Pids : Expire(p) \/ Ready(p)
  PROVE  PInv'
<1> DEFINE r == proc[current]
<1>1. proc \in [Pids -> process_t] /\ current \in Pids /\ r \in process_t
  BY DEF PInv, RefInv, TypeOK
<1>2. \A p \in Pids : proc[p].pc \in Waits => proc[p].child # None
  BY DEF PInv, Links
<1>3. CASE syscall_msleep
  <2> DEFINE t == [r EXCEPT !.asleep = TRUE]
  <2>1. proc' = [proc EXCEPT ![current] = t] /\ UNCHANGED <<queue, current, next_pid, file>> /\ cpu' \in {cpu, "sched"}
    BY <1>1, <1>3 DEF syscall_msleep, switch_task
  <2>2. t \in process_t
    BY <1>1, ZenonT(60) DEF process_t
  <2>3. Alike(t, r) /\ t.pc = r.pc
    BY <1>1 DEF process_t, Alike
  <2> HIDE DEF t
  <2> QED
    BY <1>1, <1>2, <2>1, <2>2, <2>3, TaskStep, ZenonT(60)
<1>4. CASE poll
  <2> DEFINE t == [r EXCEPT !.blocked = TRUE, !.pc = "poll"]
  <2>1. proc' = [proc EXCEPT ![current] = t] /\ UNCHANGED <<queue, current, next_pid, file>> /\ cpu' \in {cpu, "sched"}
    BY <1>1, <1>4 DEF poll, switch_task
  <2>2. t \in process_t
    BY <1>1, ZenonT(60) DEF process_t, PcSet
  <2>3. Alike(t, r) /\ t.pc \notin Waits
    BY <1>1 DEF process_t, Alike, Waits
  <2> HIDE DEF t
  <2> QED
    BY <1>1, <2>1, <2>2, <2>3, TaskStep, ZenonT(60)
<1>5. CASE poll_return
  <2> DEFINE h == cur.is_halted /\ ~cur.is_interrupted
             t == [r EXCEPT !.blocked = FALSE, !.pc = "user", !.is_interrupted = FALSE, !.is_halted = h]
  <2>1. proc' = [proc EXCEPT ![current] = t] /\ UNCHANGED <<queue, current, next_pid, file>> /\ cpu' \in {cpu, "sched"}
    BY <1>5 DEF poll_return
  <2>2. h \in BOOLEAN
    OBVIOUS
  <2> HIDE DEF h
  <2>3. t \in process_t
    BY <1>1, <2>2, ZenonT(60) DEF process_t, PcSet
  <2>4. Alike(t, r) /\ t.pc \notin Waits
    BY <1>1 DEF process_t, Alike, Waits
  <2> HIDE DEF t
  <2> QED
    BY <1>1, <2>1, <2>3, <2>4, TaskStep, ZenonT(60)
<1>6. ASSUME NEW s \in Sigs, set_signal_handler(s) PROVE PInv'
  <2> DEFINE t == [r EXCEPT !.handlers = r.handlers \cup {s}]
  <2>1. proc' = [proc EXCEPT ![current] = t] /\ UNCHANGED <<queue, current, next_pid, file>> /\ cpu' \in {cpu, "sched"}
    BY <1>1, <1>6 DEF set_signal_handler
  <2>2. r.handlers \cup {s} \in SUBSET Sigs
    BY <1>1 DEF process_t
  <2>3. t \in process_t
    BY <1>1, <2>2 DEF process_t
  <2>4. Alike(t, r) /\ t.pc = r.pc
    BY <1>1 DEF process_t, Alike
  <2> HIDE DEF t
  <2> QED
    BY <1>1, <1>2, <2>1, <2>3, <2>4, TaskStep, ZenonT(60)
<1>7. ASSUME NEW p \in Pids, Expire(p) PROVE PInv'
  <2> DEFINE t == [proc[p] EXCEPT !.asleep = FALSE]
  <2>0. proc[p] \in process_t
    BY <1>1
  <2>1. proc' = [proc EXCEPT ![p] = t] /\ UNCHANGED <<queue, current, next_pid, file>> /\ cpu' \in {cpu, "sched"}
    BY <1>1, <1>7 DEF Expire
  <2>2. t \in process_t
    BY <2>0, ZenonT(60) DEF process_t
  <2>3. Alike(t, proc[p]) /\ t.pc = proc[p].pc
    BY <2>0 DEF process_t, Alike
  <2> HIDE DEF t
  <2> QED
    BY <1>2, <2>1, <2>2, <2>3, TaskStep, ZenonT(60)
<1>8. ASSUME NEW p \in Pids, Ready(p) PROVE PInv'
  <2> DEFINE t == [proc[p] EXCEPT !.blocked = FALSE]
  <2>0. proc[p] \in process_t
    BY <1>1
  <2>1. proc' = [proc EXCEPT ![p] = t] /\ UNCHANGED <<queue, current, next_pid, file>> /\ cpu' \in {cpu, "sched"}
    BY <1>1, <1>8 DEF Ready
  <2>2. t \in process_t
    BY <2>0, ZenonT(60) DEF process_t
  <2>3. Alike(t, proc[p]) /\ t.pc = proc[p].pc
    BY <2>0 DEF process_t, Alike
  <2> HIDE DEF t
  <2> QED
    BY <1>2, <2>1, <2>2, <2>3, TaskStep, ZenonT(60)
<1> QED
  BY <1>3, <1>4, <1>5, <1>6, <1>7, <1>8

\* The scheduler gives the CPU to a task of the ready queue.
LEMMA SwitchStep ==
  ASSUME PInv, int_clock \/ next_task \/ halt \/ UNCHANGED vars
  PROVE  PInv'
<1>1. /\ UNCHANGED <<proc, queue, next_pid, file>>
      /\ cpu' \in {cpu, "run", "sched"}
      /\ current' = current \/ \E k \in 1..Len(queue) : current' = Successor(current, k)
  BY DEF int_clock, next_task, halt, vars, switch_task
<1>2. current \in Range(queue) /\ cpu \in {"run", "sched"} \cup Stops
  BY DEF PInv, QueueInv, RefInv, TypeOK
<1>3. \A k \in 1..Len(queue) : Successor(current, k) \in Range(queue)
  BY <1>2, SuccessorInQueue
<1> QED
  BY <1>1, <1>2, <1>3, NoRow

\* After boot there are the kernel's task and init, its child.
LEMMA InitPInv == Init => PInv
<1> SUFFICES ASSUME Init PROVE PInv
  OBVIOUS
<1>1. /\ 0 \in Pids /\ 1 \in Pids /\ None \notin Pids /\ MaxPid \in Nat /\ MaxPid >= 1 /\ Pids = 0..MaxPid
  BY NoneNoPid, ProcessAssumption DEF Pids
<1> DEFINE zero == [Fresh(None) EXCEPT !.child = 1, !.asleep = TRUE]
           Boot(p) == CASE p = 0 -> zero [] p = 1 -> Fresh(0) [] OTHER -> Unused
<1>a. proc = [p \in Pids |-> Boot(p)]
  BY ZenonT(60) DEF Init
<1> HIDE DEF zero
<1>b. Boot(0) = zero /\ Boot(1) = Fresh(0) /\ \A p \in Pids \ {0, 1} : Boot(p) = Unused
  OBVIOUS
<1> HIDE DEF Boot
<1>2. proc[0] = [Fresh(None) EXCEPT !.child = 1, !.asleep = TRUE] /\ proc[1] = Fresh(0)
  BY <1>1, <1>a, <1>b, ZenonT(60) DEF zero
<1>3. \A p \in Pids \ {0, 1} : proc[p] = Unused
  BY <1>a, <1>b, ZenonT(60)
<1>4. proc = [p \in Pids |-> proc[p]]
  BY <1>a, ZenonT(60)
<1>0. \A a \in Pids \cup {None} :
        /\ Fresh(a) \in process_t /\ Fresh(a).mem = "used" /\ ~Fresh(a).dead /\ Fresh(a).count = 2
        /\ Fresh(a).parent = a /\ Fresh(a).child = None /\ ~Fresh(a).reaped /\ Fresh(a).pc = "user"
  BY ZenonT(60) DEF Fresh, process_t, PcSet
<1>5. /\ proc[0].mem = "used" /\ ~proc[0].dead /\ proc[0].count = 2 /\ proc[0].parent = None /\ proc[0].child = 1
      /\ ~proc[0].reaped /\ proc[0].pc = "user" /\ proc[0] \in process_t
  <2>1. Fresh(None) \in process_t
    BY <1>0
  <2>2. proc[0] \in process_t
    BY <1>1, <1>2, <2>1, ZenonT(60) DEF process_t
  <2>3. /\ proc[0].mem = Fresh(None).mem /\ (proc[0].dead <=> Fresh(None).dead) /\ proc[0].count = Fresh(None).count
        /\ proc[0].parent = Fresh(None).parent /\ proc[0].child = 1
        /\ (proc[0].reaped <=> Fresh(None).reaped) /\ proc[0].pc = Fresh(None).pc
    BY <1>2, <2>1 DEF process_t
  <2> QED
    BY <1>0, <2>2, <2>3
<1>6. /\ proc[1].mem = "used" /\ ~proc[1].dead /\ proc[1].count = 2 /\ proc[1].parent = 0 /\ proc[1].child = None
      /\ ~proc[1].reaped /\ proc[1].pc = "user" /\ proc[1] \in process_t
  BY <1>1, <1>2 DEF Fresh, process_t, PcSet
<1>7. ASSUME NEW p \in Pids \ {0, 1}
      PROVE  /\ proc[p].mem = "unused" /\ proc[p].parent = None /\ proc[p].child = None /\ proc[p].pc = "user"
             /\ proc[p] \in process_t
  <2>1. Fresh(None) \in process_t /\ proc[p] = Unused
    BY <1>3, <1>0
  <2>2. proc[p] \in process_t
    <3> DEFINE r == [Fresh(None) EXCEPT !.mem = "unused"]
    <3>1. r \in process_t
      BY <2>1 DEF process_t
    <3>2. proc[p] = [r EXCEPT !.count = 0]
      BY <2>1 DEF Unused
    <3> HIDE DEF r
    <3> QED
      BY <3>1, <3>2 DEF process_t
  <2>3. proc[p].mem = "unused" /\ proc[p].parent = Fresh(None).parent /\ proc[p].child = Fresh(None).child /\ proc[p].pc = Fresh(None).pc
    BY <2>1 DEF Unused, process_t
  <2> QED
    BY <1>0, <2>2, <2>3
<1>8. file = [f \in Fds |-> NoFile] /\ NoFile.target = None /\ NoFile.holders = {}
  BY DEF Init, NoFile
<1>9. queue = <<0, 1>> /\ current = 1 /\ cpu = "run" /\ next_pid = 2
  BY DEF Init
<1>10. TypeOK
  <2>1. proc \in [Pids -> process_t]
    BY <1>4, <1>5, <1>6, <1>7
  <2>2. file \in [Fds -> [target : Pids \cup {None}, holders : SUBSET Pids]]
    BY <1>8 DEF NoFile
  <2>3. queue \in Seq(Pids) /\ next_pid \in 2..(MaxPid + 1)
    BY <1>1, <1>9
  <2> QED
    BY <1>1, <1>9, <2>1, <2>2, <2>3 DEF TypeOK, Stops
<1>11. Created = {0, 1}
  BY <1>1, <1>5, <1>6, <1>7 DEF Created
<1>12. /\ Refs(0) = 2 /\ Refs(1) = 2
  <2>1. Children(proc, 0) = {1} /\ Children(proc, 1) = {}
    BY <1>1, <1>5, <1>6, <1>7 DEF Children
  <2>2. Files(file, 0) = {} /\ Files(file, 1) = {}
    BY <1>1, <1>8 DEF Files
  <2>3. Own(proc, 0) = 1 /\ Own(proc, 1) = 1 /\ ByParent(proc, 0) = 0 /\ ByParent(proc, 1) = 1
    BY <1>1, <1>5, <1>6 DEF Own, ByParent
  <2>4. Cardinality({}) = 0 /\ Cardinality({1}) = 1
    BY FS_EmptySet, FS_Singleton
  <2> QED
    BY <2>1, <2>2, <2>3, <2>4 DEF Refs
<1>13. RefInv
  BY <1>5, <1>6, <1>10, <1>11, <1>12 DEF RefInv
<1>14. QueueInv
  <2>1. DOMAIN queue = 1..2 /\ Len(queue) = 2 /\ queue[1] = 0 /\ queue[2] = 1
    BY <1>9
  <2>2. Range(queue) = {0, 1}
    BY <2>1 DEF Range
  <2> QED
    BY <1>5, <1>6, <1>9, <1>11, <2>1, <2>2 DEF QueueInv
<1>15. Links
  <2>1. \A p \in Pids : p >= next_pid => proc[p].mem = "unused"
    BY <1>1, <1>7, <1>9
  <2> QED
    BY <1>1, <1>5, <1>6, <1>7, <1>8, <2>1 DEF Links, Waits
<1> QED
  BY <1>13, <1>14, <1>15 DEF PInv

\* Every step keeps the invariant.
LEMMA NextPInv == PInv /\ [Next]_vars => PInv'
<1> SUFFICES ASSUME PInv, [Next]_vars PROVE PInv'
  OBVIOUS
<1>1. CASE exit \/ page_fault
  BY <1>1, SignalActions
<1>2. CASE fork
  BY <1>2, ForkStep
<1>3. CASE fork_fails
  BY <1>3, ForkFailsStep
<1>4. CASE syscall_wait \/ wait_test \/ wait_again \/ wait_return
  BY <1>4, WaitStep
<1>5. CASE syscall_msleep \/ poll \/ poll_return
  BY <1>5, SleepStep
<1>6. CASE int_clock \/ next_task \/ halt \/ UNCHANGED vars
  BY <1>6, SwitchStep
<1>7. CASE \E p \in Pids : Expire(p) \/ Ready(p)
  BY <1>7, SleepStep
<1>8. CASE \E p \in Pids, s \in Sigs : kill(p, s)
  BY <1>8, SignalActions
<1>9. CASE \E s \in Sigs : set_signal_handler(s)
  BY <1>9, SleepStep
<1>10. CASE \E f \in Fds : process_close(f)
  BY <1>10, CloseStep
<1>11. CASE \E f \in Fds, p \in Pids : open_process(f, p)
  BY <1>11, OpenStep
<1>12. CASE \E f \in Fds, s \in Sigs : process_write(f, s)
  BY <1>12, SignalActions
<1> QED
  BY <1>1, <1>2, <1>3, <1>4, <1>5, <1>6, <1>7, <1>8, <1>9, <1>10, <1>11, <1>12, ZenonT(60) DEF Next

\* For any number of processes and process files, reference_count counts the
\* process itself, its parent's ->child, its children and the open process files, and
\* process_remove_reference frees a structure exactly when nothing refers to it.
THEOREM ProcessRefs == Spec => []RefInv
<1>1. PInv => RefInv
  BY DEF PInv
<1> QED
  BY <1>1, InitPInv, NextPInv, PTL DEF Spec

\* No pointer of a structure that exists, no process file and not current_task leads
\* to a freed process_t.
THEOREM ProcessPointers == Spec => []NoDangling
  BY Safe, InitPInv, NextPInv, PTL DEF Spec

\* The ready queue holds exactly the processes that have not exited, behind the
\* kernel's task and init, and current_task is one of them.
THEOREM ProcessQueue == Spec => []QueueInv
<1>1. PInv => QueueInv
  BY DEF PInv
<1> QED
  BY <1>1, InitPInv, NextPInv, PTL DEF Spec
=============================================================================
