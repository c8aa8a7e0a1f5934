-------------------------------- MODULE Heap --------------------------------
(***************************************************************************)
(* kernel/kmalloc.c: the kernel heap, a singly linked list of headers kept  *)
(* inside the memory it manages.  The list is first fit; neighbouring free  *)
(* blocks are merged when a block is freed, split or found too small; new   *)
(* memory comes from ksbrk, which other users (page tables, DMA buffers)    *)
(* call as well, so two regions of the heap need not be adjacent.  The loop *)
(* of find_free_entry is one step per iteration.                            *)
(***************************************************************************)
EXTENDS Naturals

CONSTANTS H,           \* sizeof(MallocHeader)
          NewAlloc,    \* NEW_ALLOC_SIZE
          PageSize,
          Base,        \* data_end at boot
          MaxBrk,      \* bound on data_end: ksbrk fails beyond it
          Sizes        \* the size arguments of the calls

ASSUME HeapAssumption ==
  /\ H \in Nat \ {0} /\ NewAlloc \in Nat /\ NewAlloc > H
  /\ PageSize \in Nat \ {0} /\ Base \in Nat \ {0}
  /\ MaxBrk \in Nat /\ Sizes \subseteq Nat

NULL == 0

VARIABLES hdr,         \* the headers, by address: [size, free, final, n]
          head, final, \* the static pointers of the same names
          brk,         \* data_end
          region,      \* what ksbrk gave the heap: first address -> end
          live,        \* the blocks the callers hold: header address -> size
          op           \* the call in progress: [pc, s, p, old, grown]

heap_vars == <<hdr, head, final, brk, region, live, op>>

Hdrs == DOMAIN hdr
End(a) == a + H + hdr[a].size
Idle == [pc |-> "idle", s |-> 0, p |-> NULL, old |-> NULL, grown |-> FALSE]
FreshEntry(size) == [size |-> size, free |-> TRUE, final |-> TRUE, n |-> NULL]

\* Mutant: merges across the end of a region.
MergeableBug(h, b) == h[b].free /\ h[b].n # NULL /\ h[h[b].n].free

\* The guards of merge_headers(b).  IS_FINAL marks the last block of a region.
Mergeable(h, b) ==
  /\ h[b].free
  /\ ~h[b].final /\ h[b].n # NULL
  /\ h[h[b].n].free

\* The effect of merge_headers(b): the header of the neighbour is not reclaimed.
Merged(h, b) ==
  LET n == h[b].n
  IN [a \in DOMAIN h \ {n} |->
        IF a = b THEN [size |-> h[b].size + h[n].size, free |-> TRUE,
                       final |-> h[n].final, n |-> h[n].n]
                 ELSE h[a]]

merge_headers(h, f, b) ==
  IF Mergeable(h, b)
  THEN hdr' = Merged(h, b) /\ final' = IF h[b].n = f THEN b ELSE f
  ELSE hdr' = h /\ final' = f

\* A successful ksbrk(s) that returns p.  The page table that ksbrk may need
\* for itself (create_kernel_table) can push p beyond the old data_end.
Aligned(p) == p % PageSize = 0
ksbrk(p, s) == p >= brk /\ Aligned(p) /\ brk' = p + s /\ brk' <= MaxBrk

\* find_free_entry with no heap yet: init_heap, which may fail.
init_heap(p) ==
  /\ head = NULL
  /\ ksbrk(p, NewAlloc)
  /\ hdr' = [a \in {p} |-> FreshEntry(NewAlloc - H)]
  /\ head' = p /\ final' = p
  /\ region' = [r \in {p} |-> p + NewAlloc]
  /\ UNCHANGED live

\* The entry of kmalloc, kcalloc, or of the allocating half of krealloc and
\* krecalloc of the block old.  grown is set after one add_heap_memory.
Start(s, old) ==
  /\ op.pc = "idle"
  /\ \/ /\ head # NULL
        /\ op' = [pc |-> "scan", s |-> s, p |-> head, old |-> old, grown |-> FALSE]
        /\ UNCHANGED <<hdr, head, final, brk, region, live>>
     \/ /\ \E p \in brk..MaxBrk : init_heap(p)
        /\ op' = [pc |-> "scan", s |-> s, p |-> head', old |-> old, grown |-> FALSE]

kmalloc(s) == Start(s, NULL)

\* A smaller size only shrinks the block: the tail is never handed out again.
krealloc(a, size) ==
  \/ live[a] < size /\ Start(size, a)
  \/ /\ op.pc = "idle" /\ live[a] > size
     /\ hdr' = [hdr EXCEPT ![a].size = size]
     /\ live' = [live EXCEPT ![a] = size]
     /\ UNCHANGED <<head, final, brk, region, op>>

krecalloc(a, size) == Start(size, a)

\* One iteration of the loop of find_free_entry on p = op.p.
Required == op.s + H

\* Mutant: the loop forgets to move on.
AdvanceBug == /\ op' = IF hdr[op.p].n = NULL THEN [op EXCEPT !.pc = "grow", !.p = NULL]
                                             ELSE [op EXCEPT !.pc = "scan"]
              /\ UNCHANGED <<hdr, head, final, brk, region, live>>

Advance == /\ op' = IF hdr[op.p].n = NULL
                    THEN [op EXCEPT !.pc = "grow", !.p = NULL]
                    ELSE [op EXCEPT !.pc = "scan", !.p = hdr[op.p].n]
           /\ UNCHANGED <<hdr, head, final, brk, region, live>>

Skip == op.pc = "scan" /\ ~hdr[op.p].free /\ Advance

TooSmall == /\ op.pc = "scan" /\ hdr[op.p].free /\ hdr[op.p].size < Required
            /\ op' = [op EXCEPT !.pc = "merge"]
            /\ UNCHANGED <<hdr, head, final, brk, region, live>>

MergeOne == /\ op.pc = "merge" /\ Mergeable(hdr, op.p)
            /\ merge_headers(hdr, final, op.p)
            /\ UNCHANGED <<head, brk, region, live, op>>

GiveUp == /\ op.pc = "merge" /\ ~Mergeable(hdr, op.p)
          /\ hdr[op.p].size < Required
          /\ Advance

\* The rest of int_kmalloc: the block is cut in two.  Merging the new entry
\* comes last here; in the code it precedes the update of the entry found,
\* which it does not touch.
Cut(a, s) ==
  LET e == a + H + s
  IN [x \in Hdrs \cup {e} |->
        IF x = e THEN [hdr[a] EXCEPT !.size = hdr[a].size - s - H]
        ELSE IF x = a THEN [size |-> s, free |-> FALSE, final |-> FALSE, n |-> e]
        ELSE hdr[x]]

Found == \/ op.pc = "scan" /\ hdr[op.p].free
         \/ op.pc = "merge" /\ ~Mergeable(hdr, op.p)

Take ==
  LET a == op.p
      e == a + H + op.s
  IN /\ Found /\ hdr[a].size >= Required
     /\ merge_headers(Cut(a, op.s), IF a = final THEN e ELSE final, e)
     /\ live' = [x \in DOMAIN live \cup {a} |-> IF x = a THEN op.s ELSE live[x]]
     /\ op' = IF op.old = NULL THEN Idle
                               ELSE [op EXCEPT !.pc = "free", !.p = NULL]
     /\ UNCHANGED <<head, brk, region>>

\* allocation_size in add_heap_memory: a multiple of a page gets one more.
Growth(s) ==
  LET want == IF s + H > NewAlloc THEN s + H ELSE NewAlloc
  IN want + (PageSize - (want % PageSize)) + NewAlloc

Retry == [op EXCEPT !.pc = "scan", !.p = head, !.grown = TRUE]

\* The new memory continues the final block, which is then extended ...
GrowFinal ==
  LET size == Growth(op.s)
  IN /\ op.pc = "grow"
     /\ hdr[final].free
     /\ ksbrk(End(final), size)
     /\ hdr' = [hdr EXCEPT ![final].size = @ + size - H]
     /\ region' = [r \in DOMAIN region |->
                     IF region[r] = End(final) THEN brk' ELSE region[r]]
     /\ op' = Retry
     /\ UNCHANGED <<head, final, live>>

\* ... or becomes a region of its own behind it.
GrowRegion(p) ==
  LET size == Growth(op.s)
  IN /\ op.pc = "grow"
     /\ ~(hdr[final].free /\ p = End(final))
     /\ ksbrk(p, size)
     /\ hdr' = [a \in Hdrs \cup {p} |->
                  IF a = p THEN FreshEntry(size - H)
                  ELSE IF a = final THEN [hdr[a] EXCEPT !.n = p] ELSE hdr[a]]
     /\ final' = p
     /\ region' = [r \in DOMAIN region \cup {p} |-> IF r = p THEN brk' ELSE region[r]]
     /\ op' = Retry
     /\ UNCHANGED <<head, live>>

\* ksbrk failed, perhaps after it moved data_end: the call returns NULL.  With
\* no heap yet both init_heap and add_heap_memory fail (were the second, larger
\* request to succeed, add_heap_memory would follow final = NULL).
OutOfMemory(p) ==
  /\ op.pc = "grow" \/ (op.pc = "idle" /\ head = NULL)
  /\ op' = Idle
  /\ Aligned(p) /\ brk' = p
  /\ UNCHANGED <<hdr, head, final, region, live>>

Free(a) ==
  /\ merge_headers([hdr EXCEPT ![a].free = TRUE], final, a)
  /\ live' = [x \in DOMAIN live \ {a} |-> live[x]]
  /\ UNCHANGED <<head, brk, region>>

\* kfree(p) by the holder of a block, and the last step of krealloc.
kfree(a) == op.pc = "idle" /\ Free(a) /\ UNCHANGED op
FreeOld == op.pc = "free" /\ Free(op.old) /\ op' = Idle

\* kmalloc_align and the page tables take memory from ksbrk too.
OtherSbrk(p) == /\ op.pc = "idle"
                /\ Aligned(p) /\ p > brk /\ brk' = p
                /\ UNCHANGED <<hdr, head, final, region, live, op>>

HeapNext == \/ \E s \in Sizes : kmalloc(s)
            \/ \E a \in DOMAIN live : \/ kfree(a)
                                      \/ \E s \in Sizes : krealloc(a, s) \/ krecalloc(a, s)
            \/ Skip \/ TooSmall \/ MergeOne \/ GiveUp \/ Take
            \/ GrowFinal \/ FreeOld
            \/ \E p \in brk..MaxBrk : GrowRegion(p) \/ OutOfMemory(p) \/ OtherSbrk(p)

HeapInit == /\ hdr = [a \in {} |-> FreshEntry(0)]
            /\ head = NULL /\ final = NULL
            /\ brk = Base
            /\ region = [r \in {} |-> 0] /\ live = [a \in {} |-> 0]
            /\ op = Idle

\* A call runs to its end: nothing in it waits.
HeapSpec == HeapInit /\ [][HeapNext]_heap_vars /\ WF_heap_vars(op.pc # "idle" /\ HeapNext)
-----------------------------------------------------------------------------
Pc == {"idle", "scan", "merge", "grow", "free"}
Entry == [size : Nat, free : BOOLEAN, final : BOOLEAN, n : Nat]

HeapTypeOK ==
  /\ Hdrs \subseteq Nat \ {0} /\ hdr \in [Hdrs -> Entry]
  /\ head \in Nat /\ final \in Nat /\ brk \in Nat /\ brk > 0
  /\ DOMAIN region \subseteq Nat \ {0} /\ region \in [DOMAIN region -> Nat]
  /\ live \in [DOMAIN live -> Nat]
  /\ op \in [pc : Pc, s : Nat, p : Nat, old : Nat, grown : BOOLEAN]

\* The list h runs through the headers in address order, from first to last;
\* no block reaches into the next one; the last one is free and ends a region.
ListOK(h, first, last) ==
  /\ first \in DOMAIN h /\ last \in DOMAIN h
  /\ h[last].n = NULL /\ h[last].free /\ h[last].final
  /\ \A a \in DOMAIN h : /\ first <= a /\ a <= last
                         /\ a # last => h[a].n \in DOMAIN h /\ a < h[a].n
  /\ \A a, b \in DOMAIN h : a < b => a + H + h[a].size <= b /\ h[a].n <= b

\* A block lies inside one region, and a block that is not marked IS_FINAL is
\* in the same region as its successor.
RegionOK(h, reg, top) ==
  /\ \A r \in DOMAIN reg : r < reg[r] /\ reg[r] <= top
  /\ \A r, q \in DOMAIN reg : r < q => reg[r] <= q
  /\ \A a \in DOMAIN h : \E r \in DOMAIN reg :
       /\ r <= a /\ a + H + h[a].size <= reg[r]
       /\ ~h[a].final => h[a].n < reg[r]

\* The blocks in use are exactly those the callers hold, with the size asked
\* for, so kfree's assertions hold for every holder.
HeldOK(h, held) ==
  /\ DOMAIN held = {a \in DOMAIN h : ~h[a].free}
  /\ \A a \in DOMAIN held : h[a].size = held[a]

ListInv == IF head = NULL THEN Hdrs = {} /\ final = NULL ELSE ListOK(hdr, head, final)
CallInv ==
  /\ op.pc \in {"scan", "merge"} => op.p \in Hdrs
  /\ op.pc = "merge" => hdr[op.p].free
  /\ op.pc = "idle" => op.old = NULL
  /\ op.pc # "idle" => head # NULL
  /\ op.pc = "free" => op.old # NULL
  /\ op.old # NULL => op.old \in DOMAIN live
  /\ op.grown => op.pc # "grow"
  /\ op.grown /\ op.pc \in {"scan", "merge"} => hdr[final].size >= Required

\* The inductive invariant: the heap's own bookkeeping is never broken.
HeapInv == HeapTypeOK /\ ListInv /\ RegionOK(hdr, region, brk) /\ HeldOK(hdr, live) /\ CallInv

\* Memory that two callers hold never overlaps, lies wholly in memory that
\* ksbrk gave to the heap, and never covers a header: filling a block (kmalloc,
\* kfree, its holder) cannot break a magic number that next_header asserts.
BlocksDisjoint ==
  \A a \in DOMAIN live :
    /\ \E r \in DOMAIN region : r <= a /\ a + H + live[a] <= region[r]
    /\ \A b \in Hdrs : b # a => b + H <= a \/ a + H + live[a] <= b
    /\ \A b \in DOMAIN live :
         b < a => b + H + live[b] <= a

\* add_heap_memory always gets enough for the request: int_kmalloc calls
\* itself at most once.
GrowsOnce == op.grown => op.pc # "grow"

\* The list of headers, the memory ksbrk gave and the blocks that callers hold agree,
\* no two blocks overlap, and a request grows the heap at most once (int_kmalloc,
\* find_free_entry, kfree and krealloc, over any sequence of calls).
HeapSound == HeapInv /\ BlocksDisjoint /\ GrowsOnce

\* find_free_entry, merging while it walks, terminates.
Returns == op.pc # "idle" ~> op.pc = "idle"
=============================================================================
