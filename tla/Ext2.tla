-------------------------------- MODULE Ext2 --------------------------------
(***************************************************************************)
(* The ext2 driver (kernel/fs/ext2.c): allocation, indirect blocks,          *)
(* directories, files removed while open, and what a power loss leaves.           *)
(* A system call runs without interruption, so each operation is one step.  *)
(* Sizes are in blocks and a directory entry takes one unit of a block.     *)
(* The driver's view of the disk is m; disk is what has surely been         *)
(* written.  What lies between them (BlockCache) may reach the disk early,  *)
(* in any order, so a crash leaves any mixture of the two.                  *)
(***************************************************************************)
EXTENDS Integers, Sequences, SequencesExt, FiniteSets, FiniteSetsExt

CONSTANTS Inodes, Root,      \* inode numbers, EXT2_ROOT_INODE
          NumBlocks, PerGroup, \* data blocks, num_blocks_in_group
          Direct, Cap,       \* 12; INDIRECT_BLOCK_CAPACITY
          EntriesPerBlock, Names, Paths,
          MaxOps             \* bound: operations in a behaviour

Blocks == 1..NumBlocks
Groups == 0..((NumBlocks - 1) \div PerGroup)
GroupOf(b) == (b - 1) \div PerGroup
GroupSeq == [k \in 1..Cardinality(Groups) |-> k - 1]

VARIABLES m,       \* [ib, bb, gfree, hdr, dir, tag, tab] as the driver reads it
          disk,    \* the same, as last flushed
          sbfree,  \* superblock->num_blocks_unallocated
          open_files, removed, \* files_head: references and is_removed
          status,  \* "ok"; "garbage": uninitialised block numbers; "stopped": assert
          written, \* ghost: the blocks of each file that were written
          torn,    \* ghost: a crash lost some of the driver's view
          ops

ext2_vars == <<m, disk, sbfree, open_files, removed, status, written, torn, ops>>
NoBlock == 0
NoHeader == [links |-> 0, size |-> 0, used |-> 0, ptr |-> [i \in 0..(Direct - 1) |-> NoBlock],
             single |-> NoBlock, double |-> NoBlock, isdir |-> FALSE]
FreeIn(s, g) == {b \in Blocks : GroupOf(b) = g} \ s.m.bb
----------------------------------------------------------------------------
(* Operators on a record s = [m, sb, st] of the driver's state.             *)

\* get_block: where block i of a file is.
get_block(mm, h, i) ==
  LET j == i - Direct
      k == j - Cap
  IN CASE i < Direct -> h.ptr[i]
       [] i >= Direct /\ j < Cap -> mm.tab[h.single][j]
       [] OTHER -> mm.tab[mm.tab[h.double][k \div Cap]][k % Cap]

\* get_from_all_blocks: the i-th block of a file with its indirect blocks in line.
get_from_all_blocks(mm, h, i) ==
  LET j == i - Direct - 1
      k == j - Cap - 1
      low == mm.tab[h.double][k \div Cap]
  IN CASE i < Direct -> h.ptr[i]
       [] i = Direct -> h.single
       [] i > Direct /\ j < Cap -> mm.tab[h.single][j]
       [] j = Cap -> h.double
       [] j > Cap /\ k % Cap = 0 -> low
       [] OTHER -> mm.tab[low][(k % Cap) - 1]

\* One group of get_free_blocks, lowest blocks first: its counter goes down by one,
\* however many blocks it gives.
take_from_group(a, g) ==
  LET free == FreeIn(a.s, g)
      some == {b \in free : Cardinality({c \in free : c < b}) < a.need}
  IN IF a.s.m.gfree[g] = 0 \/ some = {} THEN a
     ELSE [a EXCEPT !.got = @ \o SetToSortSeq(some, <), !.need = @ - Cardinality(some),
                    !.s.m.bb = @ \cup some, !.s.m.gfree[g] = @ - 1, !.s.sb = @ - 1]

\* Mutant: the bitmaps are not written back.
get_free_blocks_bug(s, n) ==
  IF n > s.sb THEN [s |-> s, got |-> <<>>]
  ELSE [FoldLeft(take_from_group, [s |-> s, need |-> n, got |-> <<>>], GroupSeq)
          EXCEPT !.s.m.bb = s.m.bb]

get_free_blocks(s, n) ==
  IF n > s.sb THEN [s |-> s, got |-> <<>>]
  ELSE FoldLeft(take_from_group, [s |-> s, need |-> n, got |-> <<>>], GroupSeq)

get_free_block(s) ==
  LET r == get_free_blocks(s, 1) IN [s |-> r.s, block |-> IF r.got = <<>> THEN -1 ELSE r.got[1]]

\* A use of a free block at an indirect level.
WithFreeBlock(s, Use(_, _)) ==
  LET r == get_free_block(s)
  IN IF r.block = -1 THEN [s EXCEPT !.st = "stopped"] ELSE Use(r.s, r.block)

\* write_to_block_bitmap with value 0.
write_to_block_bitmap(s, b) ==
  [s EXCEPT !.m.bb = @ \ {b}, !.m.gfree[GroupOf(b)] = @ + 1, !.sb = @ + 1]

write_to_indirect_block(s, t, i, b) == [s EXCEPT !.m.tab[t][i % Cap] = b]

\* ext2_allocate_block: block b becomes block i of ino; the first block under
\* an indirect one brings that one with it.
ext2_allocate_block(s, ino, i, b) ==
  LET j == i - Direct
      k == j - Cap
      h == s.m.hdr[ino]
      level2(s1) ==
        IF k % Cap # 0
        THEN write_to_indirect_block(s1, s1.m.tab[s1.m.hdr[ino].double][k \div Cap], k, b)
        ELSE WithFreeBlock(s1, LAMBDA s2, n :
               write_to_indirect_block(
                 write_to_indirect_block(s2, s2.m.hdr[ino].double, k \div Cap, n), n, k, b))
  IN CASE s.st # "ok" -> s
       [] s.st = "ok" /\ i < Direct -> [s EXCEPT !.m.hdr[ino].ptr[i] = b]
       [] s.st = "ok" /\ j = 0 -> WithFreeBlock(s, LAMBDA s1, n :
            write_to_indirect_block([s1 EXCEPT !.m.hdr[ino].single = n], n, 0, b))
       [] s.st = "ok" /\ j > 0 /\ j < Cap -> write_to_indirect_block(s, h.single, j, b)
       [] s.st = "ok" /\ k = 0 -> WithFreeBlock(s, LAMBDA s1, n :
            level2([s1 EXCEPT !.m.hdr[ino].double = n]))
       [] OTHER -> level2(s)

\* num_disk_sectors after a write: the blocks the size requires, so that a write
\* after ftruncate forgets the blocks past the end.
UsedAfter(h, required) == required

\* The blocks of r.got become the next blocks of ino.
Extended(r, ino) ==
  FoldLeft(LAMBDA a, k : ext2_allocate_block(a, ino, r.s.m.hdr[ino].used + k - 1, r.got[k]),
           r.s, [k \in 1..Len(r.got) |-> k])

\* The data goes to its blocks, then the size to the header.
Filled(s, ino, off, n) ==
  LET h == s.m.hdr[ino]
      size == Max({h.size, off + n})
      Index(b) == {i \in off..(off + n - 1) : get_block(s.m, h, i) = b}
  IN IF s.st # "ok" THEN s
     ELSE [s EXCEPT !.m.hdr[ino].size = size, !.m.hdr[ino].used = UsedAfter(h, size),
                    !.m.tag = [b \in Blocks |-> IF Index(b) = {} THEN @[b] ELSE <<ino, Min(Index(b))>>]]

\* write_inode: blocks off .. off + n - 1 of ino.  The difference is unsigned:
\* after ftruncate it is huge, nothing is allocated, and the array for it moves
\* the stack pointer up, which up to three entries survive.
write_inode(s, ino, off, n) ==
  LET h == s.m.hdr[ino]
      delta == Max({h.size, off + n}) - h.used
      r == IF delta > 0 THEN get_free_blocks(s, delta) ELSE [s |-> s, got |-> <<>>]
  IN CASE s.st # "ok" -> s
       [] s.st = "ok" /\ (Len(r.got) < delta \/ delta < -3) -> [s EXCEPT !.st = "garbage"]
       [] OTHER -> Filled(Extended(r, ino), ino, off, n)

write_to_inode_bitmap(s, ino) == [s EXCEPT !.m.ib = @ \ {ino}]

\* remove_inode: the last link frees the blocks counted in num_disk_sectors,
\* taken from the line of all blocks, and the inode; a header whose count is
\* still positive is not even written.
remove_inode(s, ino) ==
  LET h == s.m.hdr[ino]
      s1 == FoldLeft(LAMBDA a, i : write_to_block_bitmap(a, get_from_all_blocks(s.m, h, i)),
                     s, [i \in 1..h.used |-> i - 1])
  IN IF h.links > 1 THEN s
     ELSE write_to_inode_bitmap([s1 EXCEPT !.m.hdr[ino].links = 0, !.m.hdr[ino].used = 0], ino)
----------------------------------------------------------------------------
(* Directories: a sequence of [name, ino, len], len units each.             *)

InDirectory(mm, d, name) ==
  LET es == mm.dir[d]
      k == SelectInSeq(es, LAMBDA e : e.name = name)
  IN IF k = 0 THEN 0 ELSE es[k].ino

\* ext2_find_inode; 0 when a step is missing or is not a directory.
ext2_find_inode(mm, path) ==
  FoldLeft(LAMBDA d, name : IF d = 0 \/ ~mm.hdr[d].isdir THEN 0 ELSE InDirectory(mm, d, name),
           Root, path)

\* The first entry with room behind its name; 0 when there is none.
find_free_position(es) == SelectInSeq(es, LAMBDA e : e.len > 1)

\* ext2_create_entry: behind that entry, or in a new block at the end.
ext2_create_entry(s, d, name, ino) ==
  LET es == s.m.dir[d]
      k == find_free_position(es)
      units(n) == FoldLeft(LAMBDA a, e : a + e.len, 0, SubSeq(es, 1, n))
      e(len) == [name |-> name, ino |-> ino, len |-> len]
      off == (IF k # 0 THEN units(k) - 1 ELSE units(Len(es))) \div EntriesPerBlock
  IN [write_inode(s, d, off, 1) EXCEPT
        !.m.dir[d] = IF k # 0 THEN InsertAt([@ EXCEPT ![k].len = 1], k + 1, e(es[k].len - 1))
                     ELSE Append(@, e(EntriesPerBlock))]

\* get_free_inode; its counters can only refuse what the bitmap has.
get_free_inode(s) ==
  LET free == Inodes \ s.m.ib
  IN IF free = {} THEN [s |-> s, ino |-> -1]
     ELSE [s |-> [s EXCEPT !.m.ib = @ \cup {Min(free)}], ino |-> Min(free)]
----------------------------------------------------------------------------
Now == [m |-> m, sb |-> sbfree, st |-> status]
Ready == status = "ok" /\ ops < MaxOps /\ ops' = ops + 1

\* The operation ends with the driver's state s; flushed is what is on disk.
Leave(s, flushed) == m' = s.m /\ sbfree' = s.sb /\ status' = s.st /\ disk' = flushed
Settled(s) == Leave(s, s.m)            \* ext2_flush_writes was the last call
Forget(ino) == written' = [written EXCEPT ![ino] = {}]

\* ext2_find_parent.
Parent(path) == ext2_find_inode(m, Front(path))

\* ext2_create_file: bitmap and entry are flushed, the header is not.
ext2_create_file(path) ==
  /\ Ready /\ ext2_find_inode(m, path) = 0 /\ Parent(path) # 0
  /\ LET r == get_free_inode(Now)
         s1 == ext2_create_entry(r.s, Parent(path), Last(path), r.ino)
     IN IF r.ino = -1 THEN Leave(Now, disk) /\ UNCHANGED written
        ELSE /\ Leave([s1 EXCEPT !.m.hdr[r.ino] = [NoHeader EXCEPT !.links = 1],
                                 !.m.ib = @ \cup {r.ino}], s1.m)
             /\ Forget(r.ino)
  /\ UNCHANGED <<open_files, removed, torn>>

\* ext2_create_directory: the header, "." and "..", a link of the parent.
ext2_create_directory(path) ==
  /\ Ready /\ ext2_find_inode(m, path) = 0 /\ Parent(path) # 0
  /\ LET r == get_free_inode(Now)
         s1 == ext2_create_entry(r.s, Parent(path), Last(path), r.ino)
         s2 == [s1 EXCEPT !.m.hdr[r.ino] = [NoHeader EXCEPT !.links = 2, !.isdir = TRUE],
                          !.m.ib = @ \cup {r.ino}, !.m.dir[r.ino] = <<>>]
         s3 == ext2_create_entry(ext2_create_entry(s2, r.ino, ".", r.ino),
                                 r.ino, "..", Parent(path))
     IN IF r.ino = -1 THEN Leave(Now, disk) /\ UNCHANGED written
        ELSE Settled([s3 EXCEPT !.m.hdr[Parent(path)].links = @ + 1]) /\ Forget(r.ino)
  /\ UNCHANGED <<open_files, removed, torn>>

\* remove_possibly_open_inode.
RemoveNow(ino) == open_files[ino] = 0

\* The walk with directory_ptr_next to the first entry of ino.
EntryOf(es, ino) == SelectInSeq(es, LAMBDA e : e.ino = ino)

\* ext2_unlink: by inode number; the space goes to the entry before.
ext2_unlink(path) ==
  /\ Ready
  /\ LET ino == ext2_find_inode(m, path)
         d == Parent(path)
         es == m.dir[d]
         k == EntryOf(es, ino)
         s1 == [write_inode(Now, d, 0, m.hdr[d].size) EXCEPT
                  !.m.dir[d] = RemoveAt([es EXCEPT ![k - 1].len = @ + es[k].len], k)]
     IN /\ ino \notin {0, Root} /\ k > 1
        /\ Settled(IF RemoveNow(ino) THEN remove_inode(s1, ino) ELSE s1)
        /\ removed' = IF RemoveNow(ino) THEN removed ELSE removed \cup {ino}
  /\ UNCHANGED <<open_files, torn, written>>

add_open_inode(ino) == [open_files EXCEPT ![ino] = @ + 1]

\* ext2_open.
ext2_open(path) ==
  /\ Ready
  /\ LET ino == ext2_find_inode(m, path)
     IN /\ ino # 0 /\ ~m.hdr[ino].isdir /\ open_files[ino] < 2
        /\ open_files' = add_open_inode(ino)
  /\ UNCHANGED <<m, disk, sbfree, removed, status, written, torn>>

\* deref_open_inode: the last reference to a removed file removes it.
deref_open_inode(ino) ==
  /\ open_files' = [open_files EXCEPT ![ino] = @ - 1]
  /\ IF open_files[ino] = 1 /\ ino \in removed
     THEN Leave(remove_inode(Now, ino), disk) /\ removed' = removed \ {ino}
     ELSE UNCHANGED <<m, disk, sbfree, status, removed>>

\* ext2_close; nothing flushes.
ext2_close(ino) == Ready /\ open_files[ino] > 0 /\ deref_open_inode(ino) /\ UNCHANGED <<written, torn>>

ext2_write(ino, off, n) ==
  /\ Ready /\ open_files[ino] > 0
  /\ Settled(write_inode(Now, ino, off, n))
  /\ written' = [written EXCEPT ![ino] = @ \cup (off..(off + n - 1))]
  /\ UNCHANGED <<open_files, removed, torn>>

\* ext2_truncate: only the size; no block is freed and nothing is flushed.
ext2_truncate(ino, len) ==
  /\ Ready /\ open_files[ino] > 0 /\ len # m.hdr[ino].size
  /\ Leave([Now EXCEPT !.m.hdr[ino].size = len], disk)
  /\ written' = [written EXCEPT ![ino] = @ \cap (0..(len - 1))]
  /\ UNCHANGED <<open_files, removed, torn>>

\* ext2_mount and parse_superblock.  The superblock is written to offset 0 and
\* read from 1024, so its counters are those of the fresh file system.
ext2_mount(left) == /\ m' = left /\ disk' = left /\ sbfree' = NumBlocks - 1
                    /\ open_files' = [x \in Inodes |-> 0] /\ removed' = {}

\* Power is lost between two calls and the file system is mounted again.
crash ==
  /\ Ready /\ disk # m
  /\ \E i \in {m.ib, disk.ib}, b \in {m.bb, disk.bb}, g \in {m.gfree, disk.gfree},
        H \in SUBSET {x \in Inodes : m.hdr[x] # disk.hdr[x]} :
       LET left == [m EXCEPT !.ib = i, !.bb = b, !.gfree = g,
                             !.hdr = [x \in Inodes |-> IF x \in H THEN disk.hdr[x] ELSE @[x]]]
       IN ext2_mount(left) /\ torn' = (torn \/ left # m)
  /\ UNCHANGED <<status, written>>

\* A fresh file system: the root directory with one block.
Ext2Init ==
  /\ m = [ib |-> {Root}, bb |-> {1},
          gfree |-> [g \in Groups |->
                       Cardinality({b \in Blocks : GroupOf(b) = g}) - (IF g = 0 THEN 1 ELSE 0)],
          hdr |-> [x \in Inodes |->
                     IF x # Root THEN NoHeader
                     ELSE [NoHeader EXCEPT !.links = 2, !.size = 1, !.used = 1,
                                           !.ptr = [@ EXCEPT ![0] = 1], !.isdir = TRUE]],
          dir |-> [x \in Inodes |->
                     IF x # Root THEN <<>>
                     ELSE <<[name |-> ".", ino |-> Root, len |-> 1],
                            [name |-> "..", ino |-> Root, len |-> EntriesPerBlock - 1]>>],
          tag |-> [b \in Blocks |-> <<Root, 0>>],
          tab |-> [b \in Blocks |-> [i \in 0..(Cap - 1) |-> NoBlock]]]
  /\ disk = m /\ sbfree = NumBlocks - 1 /\ status = "ok"
  /\ open_files = [x \in Inodes |-> 0] /\ removed = {}
  /\ written = [x \in Inodes |-> {}] /\ torn = FALSE /\ ops = 0

MaxSize == Direct + Cap * Cap
Ext2Next ==
  \/ \E p \in Paths : \/ ext2_create_file(p) \/ ext2_create_directory(p)
                      \/ ext2_unlink(p) \/ ext2_open(p)
  \/ \E ino \in Inodes :
       \/ ext2_close(ino)
       \/ \E off \in 0..(m.hdr[ino].size + 1), n \in 1..MaxSize :
            off + n <= MaxSize /\ ext2_write(ino, off, n)
       \/ \E len \in 0..MaxSize : ext2_truncate(ino, len)
  \/ crash
----------------------------------------------------------------------------
\* The blocks of a file, with the indirect ones on the way.
Tables(h) == (IF h.used > Direct THEN {h.single} ELSE {})
               \cup (IF h.used > Direct + Cap
                     THEN {h.double} \cup {m.tab[h.double][i] : i \in 0..((h.used - Direct - Cap - 1) \div Cap)}
                     ELSE {})
DataBlocks(h) == {get_block(m, h, i) : i \in 0..(h.used - 1)}
Owned(ino) == Tables(m.hdr[ino]) \cup DataBlocks(m.hdr[ino])
CountOwned(h) == h.used + (IF h.used > Direct THEN 1 ELSE 0)
                   + (IF h.used > Direct + Cap THEN 2 + (h.used - Direct - Cap - 1) \div Cap ELSE 0)
Sound == status = "ok" /\ ~torn

\* No block belongs to two files or twice to one, as data or as an indirect
\* block, and none of them is free in the bitmap, through any sequence of
\* creation, growth, ftruncate, removal while open and reuse.
NoSharedBlock ==
  Sound => \A x \in m.ib : /\ Owned(x) \subseteq m.bb
                           /\ Cardinality(Owned(x)) = CountOwned(m.hdr[x])
                           /\ \A y \in m.ib \ {x} : Owned(x) \cap Owned(y) = {}

\* read_inode of block i: nothing past the end, zeros for a hole.
read_inode(ino, i) ==
  LET b == get_block(m, m.hdr[ino], i)
  IN IF i >= m.hdr[ino].size THEN "end" ELSE IF b = NoBlock THEN "zeros" ELSE m.tag[b]

\* What was written to a file is what read_inode finds at its place, until it
\* is overwritten or cut off.
ReadsBack ==
  Sound => \A x \in m.ib : \A i \in written[x] :
             read_inode(x, i) = <<x, i>>

\* The inode of an open file stays allocated, removed or not, so that no new
\* file can be given its number.
OpenKept == status = "ok" => \A x \in Inodes : open_files[x] > 0 => x \in m.ib

\* The counters, which go down by one for several blocks, never fall below what
\* the bitmaps have: space that is free is never refused.
CountsSuffice ==
  Sound => /\ sbfree >= Cardinality(Blocks \ m.bb)
           /\ \A g \in Groups : FreeIn([m |-> m], g) # {} => m.gfree[g] > 0

\* Whatever a power loss between two calls leaves unwritten, every name leads to
\* an inode that is marked as used and will not be given to another file.
NamesAllocated ==
  status = "ok" => \A d \in m.ib : m.hdr[d].isdir =>
                     \A k \in 1..Len(m.dir[d]) : m.dir[d][k].name \in Names => m.dir[d][k].ino \in m.ib

\* Through any sequence of calls files keep their blocks, contents, inodes and names,
\* the names through a power loss too, and free space stays free (ext2_write, truncate,
\* unlink and the allocators of blocks and inodes).
FilesIntact == NoSharedBlock /\ ReadsBack /\ OpenKept /\ CountsSuffice /\ NamesAllocated
=============================================================================
