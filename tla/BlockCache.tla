----------------------------- MODULE BlockCache -----------------------------
(***************************************************************************)
(* The block cache of kernel/fs/ext2.c: num_block_cache slots, the least    *)
(* recently read one is evicted, a write to a cached block stays in its     *)
(* slot until eviction or ext2_flush_writes, any other write goes through.  *)
(***************************************************************************)
EXTENDS Integers

CONSTANTS BlockNums, Parts, Values, NumSlots, MaxTime
ASSUME CacheAssumption == NumSlots \in Nat \ {0} /\ MaxTime \in Nat /\ 0 \notin BlockNums

Slots == 1..NumSlots
Unused == 0
Contents == [Parts -> Values]

VARIABLES blk, val, dirty, last, \* per slot: block_num (or is_used = 0), block, has_write, last_use
          dev,                   \* the disk
          now,                   \* timer_get_uptime
          result                 \* what the last ext2_read_block copied out

cache_vars == <<blk, val, dirty, last, dev, now, result>>

\* The slot a miss takes: the last unused one, or the first with the smallest
\* last_use.
IsVictim(v) ==
  IF \E s \in Slots : blk[s] = Unused
  THEN blk[v] = Unused /\ \A s \in Slots : s > v => blk[s] # Unused
  ELSE \A s \in Slots : last[v] < last[s] \/ (last[v] = last[s] /\ v <= s)

cached_read_hit(b, s) ==
  /\ blk[s] = b
  /\ last' = [last EXCEPT ![s] = now] /\ result' = val[s]
  /\ UNCHANGED <<blk, val, dirty, dev, now>>

\* Mutant: the victim's changes are dropped.
EvictedBug(v) == dev

\* The disk once the victim is written back.
Evicted(v) == IF blk[v] # Unused /\ dirty[v] THEN [dev EXCEPT ![blk[v]] = val[v]] ELSE dev

cached_read_miss(b, v) ==
  /\ \A s \in Slots : blk[s] # b
  /\ IsVictim(v)
  /\ dev' = Evicted(v)
  /\ blk' = [blk EXCEPT ![v] = b] /\ val' = [val EXCEPT ![v] = dev'[b]]
  /\ dirty' = [dirty EXCEPT ![v] = FALSE] /\ last' = [last EXCEPT ![v] = now]
  /\ result' = dev'[b]
  /\ UNCHANGED now

ext2_write_cached(b, p, v, s) ==
  /\ blk[s] = b
  /\ val' = [val EXCEPT ![s] = [@ EXCEPT ![p] = v]] /\ dirty' = [dirty EXCEPT ![s] = TRUE]
  /\ UNCHANGED <<blk, last, dev, now, result>>

ext2_write_through(b, p, v) ==
  /\ \A s \in Slots : blk[s] # b
  /\ dev' = [dev EXCEPT ![b] = [@ EXCEPT ![p] = v]]
  /\ UNCHANGED <<blk, val, dirty, last, now, result>>

ext2_flush_writes ==
  /\ dev' = [b \in BlockNums |->
               IF \E s \in Slots : blk[s] = b /\ dirty[s]
               THEN val[CHOOSE s \in Slots : blk[s] = b /\ dirty[s]] ELSE dev[b]]
  /\ dirty' = [s \in Slots |-> FALSE]
  /\ UNCHANGED <<blk, val, last, now, result>>

\* The machine stops and the file system is mounted again with an empty cache.
power_loss ==
  /\ blk' = [s \in Slots |-> Unused] /\ dirty' = [s \in Slots |-> FALSE]
  /\ UNCHANGED <<val, last, dev, now, result>>

tick == now < MaxTime /\ now' = now + 1 /\ UNCHANGED <<blk, val, dirty, last, dev, result>>

CacheInit ==
  /\ dev \in [BlockNums -> Contents] /\ result \in Contents
  /\ blk = [s \in Slots |-> Unused] /\ val \in [Slots -> Contents]
  /\ dirty = [s \in Slots |-> FALSE] /\ last = [s \in Slots |-> 0] /\ now = 0

CacheNext ==
  \/ \E b \in BlockNums, s \in Slots : cached_read_hit(b, s) \/ cached_read_miss(b, s)
  \/ \E b \in BlockNums, p \in Parts, v \in Values :
       ext2_write_through(b, p, v) \/ \E s \in Slots : ext2_write_cached(b, p, v, s)
  \/ ext2_flush_writes \/ power_loss \/ tick
CacheSpec == CacheInit /\ [][CacheNext]_cache_vars
----------------------------------------------------------------------------
\* What the driver sees of a block: its slot, or the disk.
View == [b \in BlockNums |-> IF \E s \in Slots : blk[s] = b
                             THEN val[CHOOSE s \in Slots : blk[s] = b] ELSE dev[b]]
Store == INSTANCE BlockStore WITH mem <- View, store <- dev, got <- result

\* A block is in at most one slot, and a slot without pending writes agrees with
\* the disk: no order of reads, writes, evictions and flushes leaves two copies
\* or a clean one that differs.
CacheCoherent ==
  /\ blk \in [Slots -> BlockNums \cup {Unused}] /\ val \in [Slots -> Contents]
  /\ dirty \in [Slots -> BOOLEAN] /\ last \in [Slots -> 0..now]
  /\ dev \in [BlockNums -> Contents] /\ result \in Contents /\ now \in 0..MaxTime
  /\ \A s, t \in Slots : blk[s] = blk[t] /\ blk[s] # Unused => s = t
  /\ \A s \in Slots : blk[s] # Unused /\ ~dirty[s] => val[s] = dev[blk[s]]

\* Reads return the last write whatever was evicted in between, a flush leaves
\* nothing behind, and a power loss loses only what was not written: the cache
\* implements BlockStore.
CacheRefines == [][Store!StoreNext]_(Store!store_vars)
=============================================================================
