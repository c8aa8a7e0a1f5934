------------------------------- MODULE Memory -------------------------------
(* The frame bitmap and the page tables: kernel/arch/i386/mmu.c, the page     *)
(* allocator of kmalloc.c and the memory side of brk, mmap, fork and exit.    *)
(*                                                                            *)
(* A page table entry is None or the number of the frame it maps.  kpage is   *)
(* the kernel's address space above data_end's first value, which every       *)
(* directory shares and which is never used twice; upage[p] the user half of  *)
(* p, whose tables and directory are themselves kernel pages, at tab[p][t]    *)
(* and dir[p].  A system call runs with interrupts off: job is the call in    *)
(* progress, and one step of it allocates one frame.                          *)
EXTENDS Integers, FiniteSets

CONSTANTS
  WordBits, Words,  \* the bitmap: frames per word (32) and words
  KMax,             \* bound: pages of kernel address space
  Procs, Boot,      \* process identifiers; the kernel's own task
  TableSize, UMax,  \* user pages per table (1024), pages of a user half
  DirPages,         \* pages of a PageDirectory (3)
  Sizes, DmaSizes   \* lengths of requests, in pages

ASSUME SizeAssumption ==
  /\ WordBits \in Nat \ {0} /\ Words \in Nat \ {0}
  /\ KMax \in Nat /\ UMax \in Nat /\ TableSize \in Nat \ {0}
  /\ DirPages \in Nat \ {0} /\ Sizes \cup DmaSizes \subseteq Nat \ {0}
  /\ Boot \in Procs

VARIABLES
  used,           \* tmp_small_frames, as the set of frames whose bit is set
  num_allocated,  \* num_allocated_frames
  kpage, data_end, upage, dir, tab,
  seg_end,        \* data_segment_end, in pages
  job,
  lost,           \* ghost: frames whose bit is set and that nothing maps
  stopped         \* an assertion failed

frames == <<used, num_allocated>>
spaces == <<upage, dir, tab, seg_end>>
vars == <<frames, kpage, data_end, spaces, job, lost, stopped>>

None == -1
Frames == 0..(WordBits * Words - 1)
WordOf(f) == f \div WordBits
Reserved == {f \in Frames : WordOf(f) = 0}  \* the kernel's image
KPages == 0..KMax
UPages == 0..(UMax - 1)
TableOf(u) == u \div TableSize
Tables == {TableOf(u) : u \in UPages}

\* The frames that the entries S of a page table map.
Held(g, S) == {g[x] : x \in S} \ {None}

\* Mutant: the entries keep their frames.
ClearedBug(g, S) == g

\* What mmu_free_address_range and kmalloc_align_free make of the entries S.
Cleared(g, S) == [x \in DOMAIN g |-> IF x \in S THEN None ELSE g[x]]
----------------------------------------------------------------------------
\* get_free_frames.  The scan skips full words without resetting its counter, so
\* it sees the frames of the other words as if they were adjacent.  It starts at
\* start_frame_search, which is 1 and could only be lowered by freeing a frame of
\* the image.
First(S) == CHOOSE x \in S : \A y \in S : x <= y
get_free_frames(n) ==
  LET free == Frames \ used
      seen == {f \in Frames : WordOf(f) >= 1 /\ \E g \in free : WordOf(g) = WordOf(f)}
      Run(e) == {g \in seen : g <= e /\ \A h \in seen \ free : h < g \/ e < h}
      ends == {e \in seen : Cardinality(Run(e)) >= n}
  IN IF ends = {} THEN None ELSE First(ends) - (n - 1)

\* write_to_frame(f, 1) and write_to_frame(f, 0) on every f in F.
Take(F) == /\ used' = used \cup F
           /\ num_allocated' = num_allocated + Cardinality(F)
Give(F) == /\ used' = used \ F
           /\ num_allocated' = num_allocated - Cardinality(F)
----------------------------------------------------------------------------
\* ksbrk(n pages, enforce_linear): n adjacent frames for the next n pages of the
\* kernel.  get_page clears the entry, so a frame that it mapped is forgotten.
Block(n) == data_end..(data_end + n - 1)
HasRoom(n) == data_end + n <= KMax

Moved(n) == data_end + n

linear(n) ==
  LET f == get_free_frames(n)
  IN /\ f # None /\ (f..(f + n - 1)) \cap used = {}
     /\ kpage' = [k \in KPages |-> IF k \in Block(n) THEN f + (k - data_end) ELSE kpage[k]]
     /\ lost' = lost \cup Held(kpage, Block(n))
     /\ Take(f..(f + n - 1))
     /\ data_end' = Moved(n)
     /\ UNCHANGED stopped

\* No run of n frames: the error path frees what the block maps, and the caller
\* then frees the kernel pages K and the frames F.
linear_fails(n, K, F) ==
  /\ get_free_frames(n) = None
  /\ kpage' = Cleared(kpage, Block(n) \cup K)
  /\ Give(Held(kpage, Block(n) \cup K) \cup F)
  /\ data_end' = Moved(n)
  /\ UNCHANGED <<lost, stopped>>

\* assert(write_to_frame(p->frame * 0x1000, 1)).  A single frame is always free.
linear_asserts(n) ==
  LET f == get_free_frames(n)
  IN /\ f # None /\ (f..(f + n - 1)) \cap used # {}
     /\ stopped' = TRUE
     /\ UNCHANGED <<frames, kpage, data_end, lost>>
----------------------------------------------------------------------------
NoJob == [kind |-> "none", p |-> Boot, c |-> Boot, from |-> 0, n |-> 0, i |-> 0]
Idle == job = NoJob /\ ~stopped
Doing(kind) == job.kind = kind /\ ~stopped
Alive(p) == p # Boot /\ dir[p] # None

\* A driver allocates pages that a device can use, for good.
kmalloc_align(n) ==
  /\ Idle /\ HasRoom(n)
  /\ linear(n) \/ linear_fails(n, {}, {}) \/ linear_asserts(n)
  /\ UNCHANGED <<spaces, job>>

\* add_heap_memory: ksbrk without enforce_linear.
add_heap_memory(n) ==
  /\ Idle /\ HasRoom(n)
  /\ job' = [NoJob EXCEPT !.kind = "heap", !.from = data_end, !.n = n]
  /\ data_end' = Moved(n)
  /\ UNCHANGED <<frames, kpage, spaces, lost, stopped>>

\* The loop of mmu_allocate_shared_kernel_region, which goes on to the page
\* after the last.
shared_kernel_page ==
  LET k == job.from + job.i
      f == get_free_frames(1)
      R == job.from..(job.from + job.n - 1)
  IN /\ Doing("heap")
     /\ lost' = lost \cup Held(kpage, {k})
     /\ \/ /\ f # None /\ Take({f})
           /\ kpage' = [kpage EXCEPT ![k] = f]
           /\ job' = IF job.i = job.n THEN NoJob ELSE [job EXCEPT !.i = @ + 1]
        \/ /\ f = None /\ Give(Held(kpage, R \ {k}))
           /\ kpage' = Cleared(kpage, R \cup {k})
           /\ job' = NoJob
     /\ UNCHANGED <<data_end, spaces, stopped>>
----------------------------------------------------------------------------
\* syscall_brk and an anonymous mmap: a region of n pages behind seg_end, which
\* mmap moves at once and brk when it has succeeded.
brk(p, n) == /\ Idle /\ Alive(p) /\ seg_end[p] + n < UMax
             /\ job' = [NoJob EXCEPT !.kind = "brk", !.p = p, !.from = seg_end[p], !.n = n]
             /\ UNCHANGED <<frames, kpage, data_end, spaces, lost, stopped>>

mmap(p, n) == /\ Idle /\ Alive(p) /\ seg_end[p] + n < UMax
              /\ job' = [NoJob EXCEPT !.kind = "mmap", !.p = p, !.from = seg_end[p], !.n = n]
              /\ seg_end' = [seg_end EXCEPT ![p] = @ + n + 1]
              /\ UNCHANGED <<frames, kpage, data_end, upage, dir, tab, lost, stopped>>

InRegion == job.kind \in {"brk", "mmap"} /\ ~stopped
RegionPage == job.from + job.i
Region == job.from..(job.from + job.n - 1)

\* One turn of the loop of mmu_allocate_region, whose last one is for the page
\* after the region.
Advance == IF job.i = job.n
           THEN /\ job' = NoJob
                /\ seg_end' = [seg_end EXCEPT ![job.p] =
                                 IF job.kind = "brk" THEN job.from + job.n ELSE @]
           ELSE job' = [job EXCEPT !.i = @ + 1] /\ UNCHANGED seg_end

region_present ==
  /\ InRegion /\ upage[job.p][RegionPage] # None /\ Advance
  /\ UNCHANGED <<frames, kpage, data_end, upage, dir, tab, lost, stopped>>

\* allocate_frame, or the error path.
region_frame ==
  LET f == get_free_frames(1)
  IN /\ InRegion /\ upage[job.p][RegionPage] = None
     /\ tab[job.p][TableOf(RegionPage)] # None
     /\ \/ /\ f # None /\ Take({f}) /\ Advance
           /\ upage' = [upage EXCEPT ![job.p][RegionPage] = f]
        \/ /\ f = None /\ Give(Held(upage[job.p], Region))
           /\ upage' = [upage EXCEPT ![job.p] = Cleared(@, Region)]
           /\ job' = NoJob /\ UNCHANGED seg_end
     /\ UNCHANGED <<kpage, data_end, dir, tab, lost, stopped>>

\* get_page has to create the table first.
region_table ==
  LET t == TableOf(RegionPage)
  IN /\ InRegion /\ upage[job.p][RegionPage] = None /\ tab[job.p][t] = None
     /\ HasRoom(1)
     /\ \/ /\ linear(1) /\ tab' = [tab EXCEPT ![job.p][t] = data_end]
           /\ UNCHANGED <<upage, job>>
        \/ /\ linear_fails(1, {}, Held(upage[job.p], Region))
           /\ upage' = [upage EXCEPT ![job.p] = Cleared(@, Region)]
           /\ job' = NoJob /\ UNCHANGED tab
     /\ UNCHANGED <<dir, seg_end>>
----------------------------------------------------------------------------
\* The kernel pages of p: its tables and its directory.
DirBlock(a) == IF a = None THEN {} ELSE a..(a + DirPages - 1)
KernelPages(p) == DirBlock(dir[p]) \cup ({tab[p][t] : t \in Tables} \ {None})

\* clone_directory(p) for a child c.
fork(p, c) ==
  /\ Idle /\ (p = Boot \/ Alive(p)) /\ c # Boot /\ dir[c] = None
  /\ HasRoom(DirPages)
  /\ \/ /\ linear(DirPages)
        /\ dir' = [dir EXCEPT ![c] = data_end]
        /\ seg_end' = [seg_end EXCEPT ![c] = seg_end[p]]
        /\ job' = [NoJob EXCEPT !.kind = "fork", !.p = p, !.c = c]
     \/ /\ linear_fails(DirPages, {}, {}) \/ linear_asserts(DirPages)
        /\ UNCHANGED <<dir, seg_end, job>>
  /\ UNCHANGED <<upage, tab>>

\* Pages of the tables cloned so far that the child does not have, and tables
\* that are still to be cloned.
PagesLeft == {u \in UPages : /\ tab[job.c][TableOf(u)] # None
                             /\ upage[job.p][u] # None /\ upage[job.c][u] = None}
TablesLeft == {t \in Tables : tab[job.p][t] # None /\ tab[job.c][t] = None}

\* The child's directory is thrown away by mmu_free_pagedirectory.
Forget == /\ dir' = [dir EXCEPT ![job.c] = None]
          /\ tab' = [tab EXCEPT ![job.c] = [t \in Tables |-> None]]
          /\ upage' = [upage EXCEPT ![job.c] = [u \in UPages |-> None]]
          /\ seg_end' = [seg_end EXCEPT ![job.c] = 0]
          /\ job' = NoJob

\* clone_table: the new table ...
clone_table ==
  LET t == First(TablesLeft)
  IN /\ Doing("fork") /\ PagesLeft = {} /\ TablesLeft # {} /\ HasRoom(1)
     /\ \/ /\ linear(1) /\ tab' = [tab EXCEPT ![job.c][t] = data_end]
           /\ UNCHANGED <<upage, dir, seg_end, job>>
        \/ /\ linear_fails(1, KernelPages(job.c), Held(upage[job.c], UPages))
           /\ Forget

\* The pages that mmu_free_pagedirectory finds when clone_table fails at page u:
\* the new table is not in the directory, so its frames stay allocated.
Abandoned(u) == {v \in UPages : TableOf(v) = TableOf(u)}

\* ... and one frame for each page that is present.
clone_page ==
  LET u == First(PagesLeft)
      f == get_free_frames(1)
  IN /\ Doing("fork") /\ PagesLeft # {}
     /\ \/ /\ f # None /\ Take({f})
           /\ upage' = [upage EXCEPT ![job.c][u] = f]
           /\ UNCHANGED <<kpage, dir, tab, seg_end, job, lost>>
        \/ /\ f = None
           /\ Give(Held(upage[job.c], UPages \ Abandoned(u)) \cup Held(kpage, KernelPages(job.c)))
           /\ kpage' = Cleared(kpage, KernelPages(job.c))
           /\ lost' = lost \cup Held(upage[job.c], Abandoned(u))
           /\ Forget
     /\ UNCHANGED <<data_end, stopped>>

clone_done == /\ Doing("fork") /\ PagesLeft = {} /\ TablesLeft = {}
              /\ job' = NoJob
              /\ UNCHANGED <<frames, kpage, data_end, spaces, lost, stopped>>

\* free_process calls mmu_free_pagedirectory.
exit(p) ==
  /\ Idle /\ Alive(p)
  /\ Give(Held(upage[p], UPages) \cup Held(kpage, KernelPages(p)))
  /\ kpage' = Cleared(kpage, KernelPages(p))
  /\ upage' = [upage EXCEPT ![p] = [u \in UPages |-> None]]
  /\ dir' = [dir EXCEPT ![p] = None]
  /\ tab' = [tab EXCEPT ![p] = [t \in Tables |-> None]]
  /\ seg_end' = [seg_end EXCEPT ![p] = 0]
  /\ UNCHANGED <<data_end, job, lost, stopped>>
----------------------------------------------------------------------------
\* paging_init: the image is mapped, and the scan starts behind its first word.
Init == /\ used = Reserved
        /\ num_allocated = Cardinality(Reserved)
        /\ kpage = [k \in KPages |-> None] /\ data_end = 0
        /\ upage = [p \in Procs |-> [u \in UPages |-> None]]
        /\ dir = [p \in Procs |-> None]
        /\ tab = [p \in Procs |-> [t \in Tables |-> None]]
        /\ seg_end = [p \in Procs |-> 0]
        /\ job = NoJob /\ lost = {} /\ stopped = FALSE

Next == \/ \E n \in DmaSizes : kmalloc_align(n)
        \/ \E n \in Sizes : add_heap_memory(n)
        \/ shared_kernel_page
        \/ \E p \in Procs, n \in Sizes : brk(p, n) \/ mmap(p, n)
        \/ region_present \/ region_frame \/ region_table
        \/ \E p, c \in Procs : fork(p, c)
        \/ clone_table \/ clone_page \/ clone_done
        \/ \E p \in Procs : exit(p)

Spec == Init /\ [][Next]_vars
----------------------------------------------------------------------------
Entry(S) == S \cup {None}
Jobs == [kind : {"none", "heap", "brk", "mmap", "fork"}, p : Procs, c : Procs,
         from : Nat, n : Nat, i : Nat]

TypeOK ==
  /\ used \subseteq Frames /\ num_allocated \in Int
  /\ kpage \in [KPages -> Entry(Frames)] /\ data_end \in KPages
  /\ upage \in [Procs -> [UPages -> Entry(Frames)]]
  /\ dir \in [Procs -> Entry(KPages)] /\ tab \in [Procs -> [Tables -> Entry(KPages)]]
  /\ seg_end \in [Procs -> Nat]
  /\ job \in Jobs
  /\ lost \subseteq Frames /\ stopped \in BOOLEAN

InKernel == Held(kpage, KPages)
InUser == UNION {Held(upage[p], UPages) : p \in Procs}

\* A frame is marked used exactly when it holds the kernel's image, was leaked,
\* or is mapped, and then by one entry of one page table only: no two processes,
\* and no process and the kernel, share a frame, whichever allocation failed
\* half-way before.  num_allocated_frames counts the marks.
FramesExact ==
  /\ TypeOK
  /\ \A k, l \in KPages : kpage[k] # None /\ kpage[k] = kpage[l] => k = l
  /\ \A p, q \in Procs, u, v \in UPages :
       upage[p][u] # None /\ upage[p][u] = upage[q][v] => p = q /\ u = v
  /\ InKernel \cap InUser = {} /\ lost \cap (InKernel \cup InUser) = {}
  /\ Reserved \cap (lost \cup InKernel \cup InUser) = {}
  /\ used = Reserved \cup lost \cup InKernel \cup InUser
  /\ num_allocated = Cardinality(used)

\* The directory of a process is present and physically contiguous, as the
\* processor and the assertion of clone_directory need it; a page is only
\* present in a table that is; no kernel page serves two processes.
DirectoriesIntact ==
  /\ \A p \in Procs : \A k \in KernelPages(p) : k < data_end /\ kpage[k] # None
  /\ \A p \in Procs : dir[p] # None =>
       \A k \in DirBlock(dir[p]) : kpage[k] = kpage[dir[p]] + (k - dir[p])
  /\ \A p \in Procs, u \in UPages : upage[p][u] # None => tab[p][TableOf(u)] # None
  /\ \A p, q \in Procs : p # q => KernelPages(p) \cap KernelPages(q) = {}

\* Asserted by mmu_allocate_kernel_linear_virtual_to_physical_mapping: the frames
\* that get_free_frames returned are free.
LinearAssert == ~stopped

\* The bitmap of frames, the kernel's tables and those of every process agree, whichever
\* allocation of mmu.c failed half-way.
MemoryExact == FramesExact /\ DirectoriesIntact
=============================================================================
