------------------------------ MODULE UserHeap ------------------------------
(***************************************************************************)
(* malloc, realloc, calloc and free of libc (userland/libc/malloc): a list *)
(* of headers, each followed by its block, in regions obtained from sbrk.  *)
(* Addresses and sizes count cells; a header takes UhHeader of them.       *)
(***************************************************************************)
EXTENDS Integers, FiniteSets, FiniteSetsExt

CONSTANTS UhHeader,    \* sizeof(MallocHeader)
          UhNew,       \* NEW_ALLOC_SIZE
          UhPage,      \* page size
          UhWord,      \* SIZE_MAX + 1, a square
          UhLimit,     \* bound: where sbrk fails
          UhSizes,     \* sizes asked for
          UhArrays,    \* <<nmemb, size>> asked for
          UhLive       \* bound: blocks in use

VARIABLES uh,      \* headers of the list: address -> [size, free, final, n]
          uhead, ufinal,    \* malloc_head, malloc_final
          ubrk,    \* end of the heap
          ulive,   \* blocks the program holds: [at, want]
          ustop    \* a failed assertion
uh_vars == <<uh, uhead, ufinal, ubrk, ulive, ustop>>

Nil == -1
UhInit == /\ uh = << >> /\ uhead = Nil /\ ufinal = Nil /\ ubrk = 0 /\ ulive = {} /\ ustop = "no"

\* A heap as the functions below pass it on.
Heap0 == [h |-> uh, head |-> uhead, final |-> ufinal, brk |-> ubrk]
With(h, a, rec) == [x \in DOMAIN h \cup {a} |-> IF x = a THEN rec ELSE h[x]]

\* Mutant: a block is merged with one that is in use.
merge_headers_bug(s, b) ==
  LET n == s.h[b].n IN
  IF s.h[b].free /\ ~s.h[b].final /\ n # Nil
  THEN [s EXCEPT !.h = [x \in DOMAIN s.h \ {n} |->
                          IF x = b THEN [s.h[b] EXCEPT !.size = @ + s.h[n].size, !.final = @ \/ s.h[n].final,
                                                       !.n = s.h[n].n]
                          ELSE s.h[x]],
                 !.final = IF n = @ THEN b ELSE @]
  ELSE s

\* The size of the header between the two blocks is not added.
merge_headers(s, b) ==
  LET n == s.h[b].n IN
  IF s.h[b].free /\ ~s.h[b].final /\ n # Nil /\ s.h[n].free
  THEN [s EXCEPT !.h = [x \in DOMAIN s.h \ {n} |->
                          IF x = b THEN [s.h[b] EXCEPT !.size = @ + s.h[n].size, !.final = @ \/ s.h[n].final,
                                                       !.n = s.h[n].n]
                          ELSE s.h[x]],
                 !.final = IF n = @ THEN b ELSE @]
  ELSE s
RECURSIVE MergeAll(_, _)
MergeAll(s, b) == LET t == merge_headers(s, b) IN IF t = s THEN s ELSE MergeAll(t, b)

\* The first free block with room for the request and another header.  Too small ones
\* are merged with what follows on the way.
RECURSIVE Search(_, _, _)
Search(s, p, need) ==
  IF p = Nil THEN [s |-> s, at |-> Nil]
  ELSE LET t == IF s.h[p].free /\ s.h[p].size < need THEN MergeAll(s, p) ELSE s
       IN  IF t.h[p].free /\ t.h[p].size >= need THEN [s |-> t, at |-> p] ELSE Search(t, t.h[p].n, need)
init_heap(s) ==
  [h |-> With(s.h, s.brk, [size |-> UhNew - UhHeader, free |-> TRUE, final |-> TRUE, n |-> Nil]),
   head |-> s.brk, final |-> s.brk, brk |-> s.brk + UhNew]
find_free_entry(s, size) ==
  LET t == IF s.head = Nil THEN init_heap(s) ELSE s IN Search(t, t.head, size + UhHeader)

Grown(size) == LET a == Max({size + UhHeader + UhPage, UhNew}) IN a + UhPage - (a % UhPage)
\* A new region at the end of the list; the last block keeps its final mark.  It is
\* extended instead if the region begins where its size, without the header, ends.
uh_add_heap_memory(s, size) ==
  LET a == Grown(size) IN
  IF s.brk = s.final + s.h[s.final].size
  THEN [s EXCEPT !.h[s.final].size = @ + a - UhHeader, !.brk = @ + a]
  ELSE [s EXCEPT !.h = With([@ EXCEPT ![s.final].n = s.brk], s.brk,
                            [size |-> a - UhHeader, free |-> TRUE, final |-> TRUE, n |-> Nil]),
                 !.final = s.brk, !.brk = @ + a]

\* The rest of the block gets a header of its own.
Split(s, p, size) ==
  LET e == s.h[p]
      q == p + UhHeader + size
      t == [s EXCEPT !.h = With([@ EXCEPT ![p] = [size |-> size, free |-> FALSE, final |-> FALSE, n |-> q]], q,
                                [e EXCEPT !.size = @ - size - UhHeader]),
                     !.final = IF p = @ THEN q ELSE @]
  IN  merge_headers(t, q)

\* The heap after int_malloc and the block's address; Nil with the failed assertion.
Fail(s, why) == [s |-> s, at |-> Nil, why |-> why]
int_malloc(s, size) ==
  LET first == find_free_entry(s, size)
      second == find_free_entry(uh_add_heap_memory(first.s, size), size)
  IN  IF s.head = Nil /\ s.brk + UhNew > UhLimit THEN Fail(s, "sbrk")
      ELSE IF first.at # Nil THEN [s |-> Split(first.s, first.at, size), at |-> first.at, why |-> "no"]
      ELSE IF first.s.brk + Grown(size) > UhLimit THEN Fail(first.s, "sbrk")
      ELSE IF second.at = Nil THEN Fail(second.s, "recursion")
      ELSE [s |-> Split(second.s, second.at, size), at |-> second.at, why |-> "no"]

Released(s, p) == LET h == p - UhHeader IN merge_headers([s EXCEPT !.h[h].free = TRUE], h)
Become(s) == uh' = s.h /\ uhead' = s.head /\ ufinal' = s.final /\ ubrk' = s.brk
HeldBlock(r, want) == IF r.at = Nil THEN {} ELSE {[at |-> r.at + UhHeader, want |-> want]}

malloc(size) == LET r == int_malloc(Heap0, size) IN
  /\ ustop = "no" /\ Cardinality(ulive) < UhLive
  /\ Become(r.s) /\ ulive' = ulive \cup HeldBlock(r, size) /\ ustop' = r.why

\* realloc copies to a new block before it frees the old one.
realloc(b, size) == LET r == int_malloc(Heap0, size) IN
  /\ ustop = "no"
  /\ ustop' = r.why
  /\ IF r.at = Nil THEN Become(r.s) /\ UNCHANGED ulive
     ELSE Become(Released(r.s, b.at)) /\ ulive' = (ulive \ {b}) \cup HeldBlock(r, size)

\* The test of reallocarray: a factor of half the word's bits or more, and the product.
Overflows(n, size) == (n * n >= UhWord \/ size * size >= UhWord) /\ n > 0 /\ (UhWord - 1) \div n < size
calloc(n, size) == LET r == int_malloc(Heap0, (n * size) % UhWord) IN
  /\ ustop = "no" /\ Cardinality(ulive) < UhLive
  /\ IF Overflows(n, size) THEN UNCHANGED uh_vars
     ELSE Become(r.s) /\ ulive' = ulive \cup HeldBlock(r, n * size) /\ ustop' = r.why

free(b) == /\ ustop = "no"
           /\ Become(Released(Heap0, b.at)) /\ ulive' = ulive \ {b} /\ UNCHANGED ustop

UhNext == \/ \E size \in UhSizes : malloc(size) \/ \E b \in ulive : realloc(b, size)
          \/ \E a \in UhArrays : calloc(a[1], a[2])
          \/ \E b \in ulive : free(b)
-----------------------------------------------------------------------------
Headers(a) == a..a + UhHeader - 1
Extent(b) == b.at..b.at + b.want - 1

\* The blocks a program holds lie within its heap, each as large as was asked for (an
\* array's product included), clear of each other, of every header, and of every block
\* that malloc may still give away (splitting, merging, growing and the product test of
\* reallocarray, over any sequence of calls).
UserBlocksDisjoint ==
  /\ \A b \in ulive :
       /\ Extent(b) \subseteq 0..ubrk - 1
       /\ \A c \in ulive \ {b} : Extent(b) \cap Extent(c) = {}
       /\ \A a \in DOMAIN uh : Extent(b) \cap Headers(a) = {}
       /\ \A a \in DOMAIN uh : uh[a].free => Extent(b) \cap (a..a + UhHeader + uh[a].size - 1) = {}
  /\ \A a \in DOMAIN uh : a + UhHeader + uh[a].size <= ubrk

\* After the heap has grown the second search finds room: the assertion against a
\* second growth in int_malloc never fails (add_heap_memory against find_free_entry).
GrowthSuffices == ustop # "recursion"

\* The libc's heap gives memory that is the caller's alone, and one growth is enough
\* for the request that caused it (int_malloc, split, merge, add_heap_memory).
UserHeapSound == UserBlocksDisjoint /\ GrowthSuffices
=============================================================================
