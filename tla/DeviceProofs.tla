---------------------------- MODULE DeviceProofs ----------------------------
(***************************************************************************)
(* What is proved of the disk's cache, the random generator and the clock. *)
(*  - The block cache is coherent and implements BlockStore, for every     *)
(*    number of slots, blocks and values.                                  *)
(*  - No block of the random generator repeats, for every range of the     *)
(*    counter.  Under one key the counters used all lie below the next     *)
(*    one, and the next one is never the last value: get_random moves to a *)
(*    new key before.                                                      *)
(*  - The battery clock and the system clock agree between commands, for   *)
(*    every time before March of 2100: cmos_get_time inverts cmos_set_time.*)
(***************************************************************************)
EXTENDS BlockCache, Random, Clock, TLAPS

\* The cache starts empty.
LEMMA CoherentInit == CacheInit => CacheCoherent
  BY CacheAssumption DEF CacheInit, CacheCoherent, Slots, Unused

\* Each of the steps of ext2_read_block, ext2_write_block and ext2_flush_writes
\* keeps one copy per block and clean copies equal to the disk.
LEMMA CoherentStep == CacheCoherent /\ [CacheNext]_cache_vars => CacheCoherent'
<1> SUFFICES ASSUME CacheCoherent, [CacheNext]_cache_vars PROVE CacheCoherent'
  OBVIOUS
<1> USE CacheAssumption DEF CacheCoherent, Slots, Unused, Contents
<1>1. CASE UNCHANGED cache_vars
  BY <1>1 DEF cache_vars
<1>2. ASSUME NEW b \in BlockNums, NEW s \in Slots, cached_read_hit(b, s) PROVE CacheCoherent'
  BY <1>2 DEF cached_read_hit
<1>3. ASSUME NEW b \in BlockNums, NEW v \in Slots, cached_read_miss(b, v) PROVE CacheCoherent'
  <2>1. dev' \in [BlockNums -> Contents]
    BY <1>3 DEF cached_read_miss, Evicted
  <2>2. /\ blk' \in [Slots -> BlockNums \cup {Unused}] /\ val' \in [Slots -> Contents]
        /\ dirty' \in [Slots -> BOOLEAN] /\ last' \in [Slots -> 0..now']
        /\ result' \in Contents /\ now' \in 0..MaxTime
    BY <1>3, <2>1 DEF cached_read_miss
  <2>3. \A s, t \in Slots : blk'[s] = blk'[t] /\ blk'[s] # Unused => s = t
    BY <1>3 DEF cached_read_miss
  <2>4. ASSUME NEW s \in Slots, blk'[s] # Unused, ~dirty'[s] PROVE val'[s] = dev'[blk'[s]]
    <3>1. CASE s = v
      BY <1>3, <2>1, <2>4, <3>1 DEF cached_read_miss
    <3>2. CASE s # v
      <4>1. blk'[s] = blk[s] /\ val'[s] = val[s] /\ dirty'[s] = dirty[s]
        BY <1>3, <3>2 DEF cached_read_miss
      <4>2. dev'[blk[s]] = dev[blk[s]]
        BY <1>3, <2>4, <3>2, <4>1 DEF cached_read_miss, Evicted
      <4> QED BY <2>4, <4>1, <4>2
    <3> QED BY <3>1, <3>2
  <2> QED BY <2>1, <2>2, <2>3, <2>4
<1>4. ASSUME NEW b \in BlockNums, NEW p \in Parts, NEW v \in Values, ext2_write_through(b, p, v)
      PROVE CacheCoherent'
  BY <1>4 DEF ext2_write_through
<1>5. ASSUME NEW b \in BlockNums, NEW p \in Parts, NEW v \in Values, NEW s \in Slots,
             ext2_write_cached(b, p, v, s)
      PROVE CacheCoherent'
  <2>1. val' \in [Slots -> Contents] /\ dirty' \in [Slots -> BOOLEAN]
    BY <1>5 DEF ext2_write_cached
  <2>2. \A t \in Slots : ~dirty'[t] => t # s /\ val'[t] = val[t] /\ ~dirty[t]
    BY <1>5 DEF ext2_write_cached
  <2> QED BY <1>5, <2>1, <2>2, SMTT(30) DEF ext2_write_cached
<1>6. CASE ext2_flush_writes
  <2>1. \A s \in Slots : blk[s] # Unused => dev'[blk[s]] = val[s]
    <3> SUFFICES ASSUME NEW s \in Slots, blk[s] # Unused PROVE dev'[blk[s]] = val[s]
      OBVIOUS
    <3> DEFINE Has == \E t \in Slots : blk[t] = blk[s] /\ dirty[t]
               Pick == CHOOSE t \in Slots : blk[t] = blk[s] /\ dirty[t]
    <3>1. dev'[blk[s]] = IF Has THEN val[Pick] ELSE dev[blk[s]]
      BY <1>6 DEF ext2_flush_writes
    <3>2. CASE Has
      <4>1. Pick \in Slots /\ blk[Pick] = blk[s]
        BY <3>2, Zenon
      <4>2. Pick = s
        BY <4>1
      <4> QED BY <3>1, <3>2, <4>2
    <3>3. CASE ~Has
      BY <3>1, <3>3
    <3> QED BY <3>2, <3>3
  <2>2. dev' \in [BlockNums -> Contents]
    BY <1>6, Zenon DEF ext2_flush_writes
  <2>3. dirty' = [s \in Slots |-> FALSE] /\ UNCHANGED <<blk, val, last, now, result>>
    BY <1>6 DEF ext2_flush_writes
  <2> QED BY <2>1, <2>2, <2>3
<1>7. CASE power_loss
  BY <1>7 DEF power_loss
<1>8. CASE tick
  BY <1>8 DEF tick
<1> QED
  BY <1>1, <1>2, <1>3, <1>4, <1>5, <1>6, <1>7, <1>8, Zenon DEF CacheNext

\* One copy per block, and clean copies equal the disk, in every behaviour.
THEOREM CacheCorrect == CacheSpec => []CacheCoherent
  BY CoherentInit, CoherentStep, PTL DEF CacheSpec

\* What the driver sees of a block is its one slot, or the disk.
LEMMA ViewOf ==
  CacheCoherent => /\ View \in [BlockNums -> Contents]
                   /\ \A s \in Slots : blk[s] # Unused => View[blk[s]] = val[s]
                   /\ \A b \in BlockNums : (\A s \in Slots : blk[s] # b) => View[b] = dev[b]
<1> SUFFICES ASSUME CacheCoherent
             PROVE  /\ View \in [BlockNums -> Contents]
                    /\ \A s \in Slots : blk[s] # Unused => View[blk[s]] = val[s]
                    /\ \A b \in BlockNums : (\A s \in Slots : blk[s] # b) => View[b] = dev[b]
  OBVIOUS
<1>1. ASSUME NEW s \in Slots, blk[s] # Unused PROVE View[blk[s]] = val[s]
  <2> DEFINE c == CHOOSE t \in Slots : blk[t] = blk[s]
  <2>1. c \in Slots /\ blk[c] = blk[s]
    OBVIOUS
  <2>2. c = s
    BY <1>1, <2>1 DEF CacheCoherent
  <2>3. blk[s] \in BlockNums
    BY <1>1 DEF CacheCoherent
  <2> QED BY <2>2, <2>3, SMTT(30) DEF View
<1>2. ASSUME NEW b \in BlockNums, \A s \in Slots : blk[s] # b PROVE View[b] = dev[b]
  BY <1>2 DEF View
<1>3. View \in [BlockNums -> Contents]
  BY DEF View, CacheCoherent
<1> QED BY <1>1, <1>2, <1>3

\* The same after a step.
LEMMA ViewOfNext ==
  CacheCoherent' => /\ View' \in [BlockNums -> Contents]
                    /\ \A s \in Slots : blk'[s] # Unused => View'[blk'[s]] = val'[s]
                    /\ \A b \in BlockNums : (\A s \in Slots : blk'[s] # b) => View'[b] = dev'[b]
<1>1. (CacheCoherent => /\ View \in [BlockNums -> Contents]
                        /\ \A s \in Slots : blk[s] # Unused => View[blk[s]] = val[s]
                        /\ \A b \in BlockNums : (\A s \in Slots : blk[s] # b) => View[b] = dev[b])'
  BY ViewOf, PTL
<1> QED BY <1>1

\* Every step of the cache is a step of the store it stands for, or none.
LEMMA RefineStep ==
  CacheCoherent /\ CacheCoherent' /\ [CacheNext]_cache_vars
    => [Store!StoreNext]_(Store!store_vars)
<1> SUFFICES ASSUME CacheCoherent, CacheCoherent', [CacheNext]_cache_vars
             PROVE  [Store!StoreNext]_(Store!store_vars)
  OBVIOUS
<1> DEFINE V == View
           W == View'
<1>v. /\ V \in [BlockNums -> Contents]
      /\ \A s \in Slots : blk[s] # Unused => V[blk[s]] = val[s]
      /\ \A b \in BlockNums : (\A s \in Slots : blk[s] # b) => V[b] = dev[b]
  BY ViewOf
<1>w. /\ W \in [BlockNums -> Contents]
      /\ \A s \in Slots : blk'[s] # Unused => W[blk'[s]] = val'[s]
      /\ \A b \in BlockNums : (\A s \in Slots : blk'[s] # b) => W[b] = dev'[b]
  BY ViewOfNext
<1>t. /\ blk \in [Slots -> BlockNums \cup {Unused}] /\ val \in [Slots -> Contents]
      /\ dev \in [BlockNums -> Contents] /\ Unused \notin BlockNums
      /\ \A s, t \in Slots : blk[s] = blk[t] /\ blk[s] # Unused => s = t
      /\ \A s \in Slots : blk[s] # Unused /\ ~dirty[s] => val[s] = dev[blk[s]]
  BY CacheAssumption DEF CacheCoherent, Unused
<1>s. ASSUME UNCHANGED <<blk, val, dev>> PROVE W = V
  BY <1>s DEF View
<1> HIDE DEF V, W
<1>1. CASE UNCHANGED cache_vars
  <2>1. W = V /\ dev' = dev /\ result' = result
    BY <1>1, <1>s DEF cache_vars
  <2> QED BY <2>1 DEF V, W, Store!store_vars
<1>2. ASSUME NEW b \in BlockNums, NEW s \in Slots, cached_read_hit(b, s)
      PROVE  Store!Read(b)
  <2>1. W = V /\ dev' = dev
    BY <1>2, <1>s DEF cached_read_hit
  <2>2. result' = V[b]
    BY <1>2, <1>v, <1>t DEF cached_read_hit
  <2> QED BY <2>1, <2>2 DEF V, W, Store!Read
<1>3. ASSUME NEW b \in BlockNums, NEW v \in Slots, cached_read_miss(b, v)
      PROVE  Store!Read(b)
  <2>1. /\ \A s \in Slots : blk[s] # b
        /\ blk' = [blk EXCEPT ![v] = b] /\ val' = [val EXCEPT ![v] = dev'[b]]
        /\ result' = dev'[b]
        /\ dev' = IF blk[v] # Unused /\ dirty[v] THEN [dev EXCEPT ![blk[v]] = val[v]] ELSE dev
    BY <1>3 DEF cached_read_miss, Evicted
  <2>2. dev' = dev \/ \E x \in BlockNums : dev' = [dev EXCEPT ![x] = V[x]]
    BY <2>1, <1>v, <1>t, Zenon
  <2>3. dev'[b] = dev[b] /\ V[b] = dev[b]
    BY <2>1, <1>v, <1>t
  <2>4. ASSUME NEW x \in BlockNums PROVE W[x] = V[x]
    <3>1. CASE x = b
      BY <2>1, <2>3, <1>w, <1>t, <3>1
    <3>2. ASSUME NEW s \in Slots, s # v, blk[s] = x PROVE W[x] = V[x]
      <4>1. blk'[s] = x /\ val'[s] = val[s]
        BY <2>1, <1>t, <3>2
      <4> QED BY <4>1, <3>2, <1>v, <1>w, <1>t
    <3>3. CASE x # b /\ \A s \in Slots : blk[s] = x => s = v
      <4>1. \A s \in Slots : blk'[s] # x
        BY <2>1, <1>t, <3>3
      <4>2. W[x] = dev'[x]
        BY <4>1, <1>w
      <4>3. CASE blk[v] = x
        BY <4>2, <4>3, <2>1, <1>v, <1>t
      <4>4. CASE blk[v] # x
        BY <4>2, <4>4, <3>3, <2>1, <1>v, <1>t
      <4> QED BY <4>3, <4>4
    <3> QED BY <3>1, <3>2, <3>3
  <2>5. W = V
    BY <2>4, <1>v, <1>w
  <2> QED BY <2>1, <2>2, <2>3, <2>5, Zenon DEF V, W, Store!Read
<1>4. ASSUME NEW b \in BlockNums, NEW p \in Parts, NEW v \in Values, ext2_write_through(b, p, v)
      PROVE  Store!Write(b, p, v)
  <2>1. /\ \A s \in Slots : blk[s] # b
        /\ blk' = blk /\ val' = val /\ result' = result
        /\ dev' = [dev EXCEPT ![b] = [dev[b] EXCEPT ![p] = v]]
    BY <1>4 DEF ext2_write_through
  <2>2. W[b] = [V[b] EXCEPT ![p] = v]
    BY <2>1, <1>v, <1>w, <1>t
  <2>3. ASSUME NEW x \in BlockNums, x # b PROVE W[x] = V[x]
    <3>1. CASE \A s \in Slots : blk[s] # x
      BY <2>1, <2>3, <1>v, <1>w, <1>t, <3>1
    <3>2. CASE \E s \in Slots : blk[s] = x
      BY <2>1, <2>3, <1>v, <1>w, <1>t, <3>2
    <3> QED BY <3>1, <3>2
  <2>4. W = [V EXCEPT ![b] = [V[b] EXCEPT ![p] = v]]
    BY <2>2, <2>3, <1>v, <1>w
  <2> QED BY <2>1, <2>4 DEF V, W, Store!Write
<1>5. ASSUME NEW b \in BlockNums, NEW p \in Parts, NEW v \in Values, NEW s \in Slots,
             ext2_write_cached(b, p, v, s)
      PROVE  Store!Write(b, p, v)
  <2>1. /\ blk[s] = b /\ blk' = blk /\ dev' = dev /\ result' = result
        /\ val' = [val EXCEPT ![s] = [val[s] EXCEPT ![p] = v]]
    BY <1>5 DEF ext2_write_cached
  <2>2. W[b] = [V[b] EXCEPT ![p] = v]
    <3>1. V[b] = val[s]
      BY <2>1, <1>v, <1>t
    <3>2. W[b] = val'[s]
      BY <2>1, <1>w, <1>t, Zenon
    <3> QED BY <2>1, <3>1, <3>2, <1>t
  <2>3. ASSUME NEW x \in BlockNums, x # b PROVE W[x] = V[x]
    <3>1. CASE \A t \in Slots : blk[t] # x
      BY <2>1, <2>3, <1>v, <1>w, <1>t, <3>1
    <3>2. ASSUME NEW t \in Slots, blk[t] = x PROVE W[x] = V[x]
      <4>1. t # s /\ val'[t] = val[t] /\ blk'[t] = x
        BY <2>1, <2>3, <1>t, <3>2
      <4> QED BY <4>1, <3>2, <1>v, <1>w, <1>t
    <3> QED BY <3>1, <3>2
  <2>4. W = [V EXCEPT ![b] = [V[b] EXCEPT ![p] = v]]
    BY <2>2, <2>3, <1>v, <1>w
  <2> QED BY <2>1, <2>4 DEF V, W, Store!Write
<1>6. ASSUME ext2_flush_writes PROVE Store!Flush
  <2>1. blk' = blk /\ val' = val /\ result' = result /\ \A s \in Slots : ~dirty'[s]
    BY <1>6 DEF ext2_flush_writes
  <2>2. \A s \in Slots : blk[s] # Unused => dev'[blk[s]] = val[s]
    BY <2>1 DEF CacheCoherent
  <2>3. ASSUME NEW x \in BlockNums PROVE dev'[x] = V[x] /\ W[x] = V[x]
    <3>1. CASE \A s \in Slots : blk[s] # x
      <4>1. dev'[x] = dev[x]
        BY <1>6, <3>1 DEF ext2_flush_writes
      <4> QED BY <2>1, <4>1, <3>1, <1>v, <1>w
    <3>2. ASSUME NEW s \in Slots, blk[s] = x PROVE dev'[x] = V[x] /\ W[x] = V[x]
      BY <2>1, <2>2, <3>2, <1>v, <1>w, <1>t
    <3> QED BY <3>1, <3>2
  <2>4. dev' \in [BlockNums -> Contents]
    BY DEF CacheCoherent
  <2>5. dev' = V /\ W = V
    BY <2>3, <2>4, <1>v, <1>w
  <2> QED BY <2>1, <2>5 DEF V, W, Store!Flush
<1>7. ASSUME power_loss PROVE Store!PowerLoss
  <2>1. dev' = dev /\ result' = result /\ \A s \in Slots : blk'[s] = Unused
    BY <1>7 DEF power_loss
  <2>2. W = dev
    BY <2>1, <1>w, <1>t
  <2> QED BY <2>1, <2>2 DEF V, W, Store!PowerLoss
<1>8. CASE tick
  <2>1. W = V /\ dev' = dev /\ result' = result
    BY <1>8, <1>s DEF tick
  <2> QED BY <2>1 DEF V, W, Store!store_vars
<1> QED
  BY <1>1, <1>2, <1>3, <1>4, <1>5, <1>6, <1>7, <1>8 DEF CacheNext, Store!StoreNext

\* Reads return the last write, a flush leaves nothing behind and a power loss
\* loses only what was not written, whatever is evicted when.
THEOREM CacheImplements == CacheSpec => CacheRefines
<1>1. CacheCoherent /\ CacheCoherent' /\ [CacheNext]_cache_vars
        => [Store!StoreNext]_(Store!store_vars)
  BY RefineStep
<1>2. CacheSpec => []CacheCoherent
  BY CacheCorrect
<1> QED BY <1>1, <1>2, PTL DEF CacheSpec, CacheRefines
-----------------------------------------------------------------------------
Block_t == [key : Int, count : Int, used : SUBSET Int, reused : BOOLEAN]

\* The generator's block between two calls.
GoodBlock(r) == /\ r \in Block_t /\ r.reused = FALSE
                /\ r.count \in 0..(RnMax - 1)
                /\ \A c \in r.used : c < r.count

\* One call of chacha_block below the last value of the counter uses a fresh value
\* and leaves the counter above it.
LEMMA BlockStep ==
  ASSUME NEW r \in Block_t, r.reused = FALSE, r.count \in 0..RnMax, \A c \in r.used : c < r.count
  PROVE  /\ Block(r) \in Block_t /\ Block(r).reused = FALSE
         /\ r.count < RnMax => Block(r).count = r.count + 1 /\ \A c \in Block(r).used : c <= r.count
<1>1. r.count \notin r.used
  BY RnAssumption
<1>2. r.count < RnMax => (r.count + 1) % (RnMax + 1) = r.count + 1
  BY RnAssumption
<1>3. (r.count + 1) % (RnMax + 1) \in Int
  BY RnAssumption
<1>4. (r.reused \/ r.count \in r.used) = FALSE
  BY <1>1
<1>5. Block(r) = [key |-> r.key, count |-> (r.count + 1) % (RnMax + 1),
                 used |-> r.used \cup {r.count}, reused |-> FALSE]
  BY <1>4, Zenon DEF Block
<1>6. r.used \cup {r.count} \in SUBSET Int /\ r.key \in Int
  BY DEF Block_t
<1>7. \A c \in r.used \cup {r.count} : c <= r.count
  BY <1>6, RnAssumption
<1>8. Block(r) \in Block_t /\ Block(r).reused = FALSE
  BY <1>3, <1>5, <1>6 DEF Block_t
<1> QED
  BY <1>2, <1>5, <1>7, <1>8

\* A block with a new key is good when its counter is below the last value.
LEMMA NewKeyStep ==
  ASSUME NEW r \in Block_t, r.reused = FALSE, NEW n \in 0..(RnMax - 1)
  PROVE  GoodBlock(NewKey(r, n))
<1>1. NewKey(r, n) = [key |-> r.key + 1, count |-> n, used |-> {}, reused |-> FALSE]
  BY Zenon DEF NewKey
<1>2. r.key + 1 \in Int
  BY DEF Block_t
<1> QED
  BY <1>1, <1>2, RnAssumption DEF GoodBlock, Block_t

\* A call of chacha_block that does not reach the last value keeps the block good.
LEMMA BlockGood ==
  ASSUME NEW r, GoodBlock(r), r.count < RnMax - 1
  PROVE  GoodBlock(Block(r))
<1>1. r \in Block_t /\ r.reused = FALSE /\ r.count \in 0..RnMax /\ \A c \in r.used : c < r.count
  BY RnAssumption DEF GoodBlock
<1>2. /\ Block(r) \in Block_t /\ Block(r).reused = FALSE
      /\ r.count < RnMax => Block(r).count = r.count + 1 /\ \A c \in Block(r).used : c <= r.count
  BY <1>1, BlockStep, Zenon
<1>3. Block(r).used \in SUBSET Int /\ r.count \in Int
  BY <1>1, <1>2 DEF Block_t
<1>4. Block(r).count \in 0..(RnMax - 1) /\ \A c \in Block(r).used : c < Block(r).count
  BY <1>1, <1>2, <1>3, RnAssumption
<1> QED
  BY <1>2, <1>4 DEF GoodBlock

\* get_random keeps the block good, also in the round in which it draws a new key.
LEMMA GetStep == ASSUME NEW r, GoodBlock(r) PROVE GoodBlock(get_random(r))
<1>1. CASE r.count = RnMax - 1
  <2> DEFINE full == [r EXCEPT !.count = @ + 1]
  <2>1. full \in Block_t /\ full.reused = FALSE /\ full.count = RnMax /\ \A c \in full.used : c < full.count
    BY <1>1, RnAssumption DEF GoodBlock, Block_t
  <2>2. Block(full) \in Block_t /\ Block(full).reused = FALSE
    <3> HIDE DEF full
    <3>1. full.count \in 0..RnMax
      BY <2>1, RnAssumption
    <3> QED
      BY <2>1, <3>1, BlockStep, Zenon
  <2>3. Remixed(r) = NewKey(Block(full), 0)
    BY DEF Remixed
  <2>4. GoodBlock(Remixed(r)) /\ Remixed(r).count = 0
    <3> HIDE DEF full
    <3>1. 0 \in 0..(RnMax - 1)
      BY RnAssumption
    <3>2. GoodBlock(NewKey(Block(full), 0))
      BY <2>2, <3>1, NewKeyStep, Zenon
    <3> QED
      BY <2>3, <3>2 DEF NewKey
  <2> QED
    BY <1>1, <2>4, BlockGood, RnAssumption DEF get_random
<1>2. CASE r.count # RnMax - 1
  <2>1. r.count < RnMax - 1
    BY <1>2, RnAssumption DEF GoodBlock
  <2> QED
    BY <1>2, <2>1, BlockGood DEF get_random
<1> QED
  BY <1>1, <1>2

\* So do mix_chacha, a new key, and the whole of add_hash_pool.
LEMMA PoolStep == ASSUME NEW r, GoodBlock(r) PROVE GoodBlock(add_hash_pool(r))
<1> DEFINE out == get_random(get_random(r))
           a   == NewKey(out, out.count)
<1>1. GoodBlock(out)
  BY GetStep
<1>2. GoodBlock(a)
  <2> HIDE DEF out
  <2> QED  BY <1>1, NewKeyStep, Zenon DEF GoodBlock
<1>3. GoodBlock(get_random(a))
  <2> HIDE DEF a
  <2> QED  BY <1>2, GetStep
<1>4. GoodBlock(mix_chacha(a))
  <2> HIDE DEF a
  <2>1. 0 \in 0..(RnMax - 1)
    BY RnAssumption
  <2> QED
    BY <1>3, <2>1, NewKeyStep, Zenon DEF GoodBlock, mix_chacha
<1>5. add_hash_pool(r) = get_random(mix_chacha(a))
  BY DEF add_hash_pool
<1> HIDE DEF a
<1> QED
  BY <1>4, <1>5, GetStep

\* No block is ever produced twice from one key and counter, for every range of the
\* counter and whichever calls of random.c meet its last values.
THEOREM RandomFresh == RnSpec => []NoBlockTwice
<1>1. RnInit => GoodBlock(rn)
  BY RnAssumption DEF RnInit, GoodBlock, Block_t
<1>2. ASSUME GoodBlock(rn), [RnNext]_rn_vars PROVE GoodBlock(rn)'
  <2>1. rn' \in {rn, get_random(rn), add_hash_pool(rn)}
    BY <1>2 DEF RnNext, rn_vars, random_read, random_write, get_fast_insecure_random
  <2>2. GoodBlock(rn')
    BY <2>1, <1>2, GetStep, PoolStep
  <2> QED
    BY <2>2 DEF GoodBlock, Block_t
<1>3. GoodBlock(rn) => NoBlockTwice
  BY DEF GoodBlock, NoBlockTwice
<1> QED
  BY <1>1, <1>2, <1>3, PTL DEF RnSpec
-----------------------------------------------------------------------------
\* The table of the months, with e days more in February: they begin one after the
\* other, at most 31 days apart.
MonthBegin(e, m) == days_in_month[m + 1] + (IF m > 1 THEN e ELSE 0)
LEMMA Months ==
  ASSUME NEW e \in {0, 1}, NEW m \in 0..11
  PROVE  /\ MonthBegin(e, m) \in Nat /\ MonthBegin(e, 0) = 0
         /\ m > 1 => MonthBegin(e, m) >= 59
         /\ m < 11 => MonthBegin(e, m + 1) <= MonthBegin(e, m) + 31
         /\ m = 11 => MonthBegin(e, m) >= 334
         /\ m <= 1 => MonthBegin(0, m) = MonthBegin(e, m)
<1>1. m \in {0, 1, 2, 3, 4, 5, 6, 7, 8, 9, 10, 11}
  OBVIOUS
<1> QED
  BY <1>1 DEF MonthBegin, days_in_month

LEMMA MonthBegins ==
  ASSUME NEW m, NEW y
  PROVE  /\ MonthStart(Leap(y), m) = MonthBegin(IF Leap(y) THEN 1 ELSE 0, m)
         /\ MonthStart(y % 4 = 0, m) = MonthBegin(IF y % 4 = 0 THEN 1 ELSE 0, m)
<1>1. MonthStart(Leap(y), m) = MonthBegin(IF Leap(y) THEN 1 ELSE 0, m)
  BY Zenon DEF MonthStart, MonthBegin
<1>2. MonthStart(y % 4 = 0, m) = MonthBegin(IF y % 4 = 0 THEN 1 ELSE 0, m)
  BY Zenon DEF MonthStart, MonthBegin
<1> QED
  BY <1>1, <1>2

\* The month that cmos_set_time finds: the last one that does not begin after the day.
LEMMA LastMonth ==
  ASSUME NEW S \in SUBSET (0..11), 0 \in S
  PROVE  Max(S) \in S /\ \A m \in S : m <= Max(S)
<1>1. \E x \in S : \A y \in S : x >= y
  <2>1. S \subseteq {0, 1, 2, 3, 4, 5, 6, 7, 8, 9, 10, 11}
    OBVIOUS
  <2> QED  BY <2>1
<1>2. Max(S) \in S /\ \A y \in S : Max(S) >= y
  BY <1>1, Zenon DEF Max
<1> QED
  BY <1>2

LEMMA Quotient ==
  ASSUME NEW x \in Int, NEW n \in Nat \ {0}
  PROVE  /\ x \div n \in Int /\ x % n \in 0..(n - 1) /\ x = n * (x \div n) + (x % n)
  OBVIOUS

LEMMA QuotientIs ==
  ASSUME NEW x \in Int, NEW n \in Nat \ {0}, NEW q \in Int, n * q <= x, x < n * q + n
  PROVE  x \div n = q /\ x % n = x - (n * q)
<1>1. x \div n \in Int /\ x % n \in 0..(n - 1) /\ x = n * (x \div n) + (x % n)
  OBVIOUS
<1> DEFINE k == x \div n
           r == x % n
<1>2. k \in Int /\ r \in 0..(n - 1) /\ x = n * k + r
  BY <1>1
<1> HIDE DEF k, r
<1>3. k = q /\ r = x - (n * q)
  <2>1. k >= q + 1 => n * k >= n * (q + 1)
    BY <1>2
  <2>2. k <= q - 1 => n * k <= n * (q - 1)
    BY <1>2
  <2>3. n * (q + 1) = n * q + n /\ n * (q - 1) = n * q - n
    OBVIOUS
  <2>4. k = q
    BY <1>2, <2>1, <2>2, <2>3
  <2> QED  BY <1>2, <2>4
<1> QED
  BY <1>3 DEF k, r


\* For the years in question the Gregorian corrections cancel out.
LEMMA YearStarts ==
  ASSUME NEW y \in Int, 1970 <= y, y <= 2100
  PROVE  /\ YearStart(y) = FourthYears(y) /\ FourthYears(y) \in Int
         /\ 4 * FourthYears(y) >= 1461 * (y - 1970) - 2
         /\ 4 * FourthYears(y) <= 1461 * (y - 1970) + 1
<1> DEFINE a == (y - 1969) \div 4
           b == (y - 1901) \div 100
           c == (y - 1601) \div 400
<1>0. y - 1969 \in Int /\ y - 1901 \in Int /\ y - 1601 \in Int
  OBVIOUS
<1>1. a \in Int /\ 4 * a <= y - 1969 /\ y - 1969 <= 4 * a + 3
  <2>1. a \in Int /\ (y - 1969) % 4 \in 0..(4 - 1) /\ y - 1969 = 4 * a + ((y - 1969) % 4)
    BY <1>0, Quotient
  <2> HIDE DEF a
  <2> QED  BY <2>1
<1>2. b = c /\ b \in Int
  <2>1. CASE y <= 2000
    <3>1. 100 * 0 <= y - 1901 /\ y - 1901 < 100 * 0 + 100 /\ 400 * 0 <= y - 1601 /\ y - 1601 < 400 * 0 + 400
      BY <2>1
    <3>2. b = 0
      BY <1>0, <3>1, QuotientIs
    <3>3. c = 0
      BY <1>0, <3>1, QuotientIs
    <3> QED  BY <3>2, <3>3
  <2>2. CASE y > 2000
    <3>1. 100 * 1 <= y - 1901 /\ y - 1901 < 100 * 1 + 100 /\ 400 * 1 <= y - 1601 /\ y - 1601 < 400 * 1 + 400
      BY <2>2
    <3>2. b = 1
      BY <1>0, <3>1, QuotientIs
    <3>3. c = 1
      BY <1>0, <3>1, QuotientIs
    <3> QED  BY <3>2, <3>3
  <2> QED  BY <2>1, <2>2
<1>3. FourthYears(y) = 365 * (y - 1970) + a
  BY DEF FourthYears
<1>4. YearStart(y) = FourthYears(y) - b + c
  BY DEF YearStart
<1> HIDE DEF a, b, c
<1>5. FourthYears(y) \in Int
  BY <1>1, <1>3
<1>6. YearStart(y) = FourthYears(y)
  BY <1>2, <1>4, <1>5
<1> QED
  BY <1>1, <1>3, <1>5, <1>6

\* The year that cmos_set_time finds.
LEMMA Years ==
  ASSUME NEW d \in Nat, d <= LastDay
  PROVE  /\ YearOf(d) \in Nat /\ 1970 <= YearOf(d) /\ YearOf(d) <= 2100
         /\ YearStart(YearOf(d)) = FourthYears(YearOf(d)) /\ YearStart(YearOf(d)) \in Int
         /\ d - YearStart(YearOf(d)) \in Nat /\ d - YearStart(YearOf(d)) <= 366
         /\ YearOf(d) = 2100 => d - YearStart(YearOf(d)) <= 58
<1> DEFINE q == d \div 366
           least == 1970 + q
<1>1. q \in Nat /\ q <= 129 /\ 366 * q <= d /\ d <= 366 * q + 365
  <2>1. d \in Int /\ q \in Int /\ d % 366 \in Nat /\ d % 366 <= 365 /\ d = 366 * q + (d % 366)
    <3>1. q \in Int /\ d % 366 \in 0..(366 - 1) /\ d = 366 * q + (d % 366)
      BY Quotient
    <3> QED  BY <3>1
  <2> HIDE DEF q
  <2> QED  BY <2>1 DEF LastDay
<1>2. YearOf(d) = IF YearStart(least + 1) <= d THEN least + 1 ELSE least
  BY DEF YearOf
<1> HIDE DEF q
<1>3. least \in Nat /\ 1970 <= least /\ least <= 2099 /\ least - 1970 = q
  BY <1>1
<1>4. /\ YearStart(least) = FourthYears(least) /\ FourthYears(least) \in Int
      /\ 4 * FourthYears(least) >= 1461 * q - 2 /\ 4 * FourthYears(least) <= 1461 * q + 1
  <2>1. least \in Int /\ least <= 2100
    BY <1>3
  <2> HIDE DEF least
  <2> QED  BY <1>3, <2>1, YearStarts
<1> DEFINE l == least + 1
<1>l. l - 1970 = q + 1 /\ l \in Int /\ 1970 <= l /\ l <= 2100
  BY <1>1, <1>3
<1>5. /\ YearStart(l) = FourthYears(l) /\ FourthYears(l) \in Int
      /\ 4 * FourthYears(l) >= 1461 * (q + 1) - 2 /\ 4 * FourthYears(l) <= 1461 * (q + 1) + 1
  <2> HIDE DEF l
  <2> QED  BY <1>l, YearStarts
<1> HIDE DEF l, least
<1>6. CASE YearStart(l) <= d
  <2>1. YearOf(d) = l
    BY <1>2, <1>6 DEF l
  <2>2. d - YearStart(l) \in Nat /\ d - YearStart(l) <= 366 /\ (q = 129 => d - YearStart(l) <= 58)
    BY <1>1, <1>5, <1>6 DEF LastDay
  <2>3. l = 2100 => q = 129
    BY <1>1, <1>l
  <2> QED  BY <1>5, <1>l, <2>1, <2>2, <2>3
<1>7. CASE ~(YearStart(l) <= d)
  <2>1. YearOf(d) = least /\ least # 2100
    BY <1>2, <1>3, <1>7 DEF l
  <2>2. d - YearStart(least) \in Nat /\ d - YearStart(least) <= 366
    BY <1>1, <1>4, <1>5, <1>7
  <2> QED  BY <1>3, <1>4, <2>1, <2>2
<1> QED
  BY <1>6, <1>7

\* Before 2100 every fourth year is a leap year.
LEMMA LeapYears == ASSUME NEW y \in Int, 1970 <= y, y < 2100 PROVE Leap(y) <=> (y % 4 = 0)
<1>1. CASE y < 2000
  <2>1. 100 * 19 <= y /\ y < 100 * 19 + 100 /\ 19 \in Int
    BY <1>1
  <2>2. y % 100 = y - (100 * 19)
    BY <2>1, QuotientIs
  <2>3. y % 100 # 0
    BY <2>2
  <2> QED  BY <2>3 DEF Leap
<1>2. CASE y > 2000
  <2>1. 100 * 20 <= y /\ y < 100 * 20 + 100 /\ 20 \in Int
    BY <1>2
  <2>2. y % 100 = y - (100 * 20)
    BY <2>1, QuotientIs
  <2>3. y % 100 # 0
    BY <1>2, <2>2
  <2> QED  BY <2>3 DEF Leap
<1>3. CASE y = 2000
  <2>1. 400 * 5 <= y /\ y < 400 * 5 + 400 /\ 5 \in Int
    BY <1>3
  <2>2. y % 400 = y - (400 * 5)
    BY <2>1, QuotientIs
  <2>3. y % 400 = 0
    BY <1>3, <2>2
  <2> QED  BY <2>3 DEF Leap
<1> QED
  BY <1>1, <1>2, <1>3

\* A register of the clock, and what is read from it.
LEMMA Registers ==
  ASSUME NEW bcd \in BOOLEAN, NEW n \in Nat, n <= 99
  PROVE  Num(bcd, Reg(bcd, n)) = n /\ Reg(bcd, 0) = 0
<1> DEFINE q == n \div 10
           r == n % 10
           x == 16 * q + r
<1>1. q \in Int /\ r \in Int /\ 0 <= r /\ r <= 9 /\ n = 10 * q + r
  <2>1. q \in Int /\ r \in 0..(10 - 1) /\ n = 10 * q + r
    BY Quotient
  <2> QED  BY <2>1
<1> HIDE DEF q, r
<1>2. x \in Int /\ 16 * q <= x /\ x < 16 * q + 16
  BY <1>1
<1> HIDE DEF x
<1>3. x \div 16 = q /\ x % 16 = x - (16 * q)
  BY <1>1, <1>2, QuotientIs
<1>4. x % 16 = r
  BY <1>1, <1>3 DEF x
<1>5. binary_to_bcd(n) = x
  BY <1>1 DEF binary_to_bcd, x, q, r
<1>6. bcd_to_binary(x) = n
  BY <1>1, <1>3, <1>4 DEF bcd_to_binary
<1>7. binary_to_bcd(0) = 0
  <2>1. 0 \div 10 = 0 /\ 0 % 10 = 0
    BY QuotientIs
  <2> QED  BY <2>1 DEF binary_to_bcd
<1> QED
  BY <1>5, <1>6, <1>7 DEF Reg, Num

\* Hours, minutes and seconds.
LEMMA Seconds ==
  ASSUME NEW s \in Nat, s < seconds_in_a_day
  PROVE  /\ s \div 3600 \in Nat /\ s \div 3600 <= 23
         /\ (s \div 60) % 60 \in Nat /\ (s \div 60) % 60 <= 59 /\ s % 60 \in Nat /\ s % 60 <= 59
         /\ (s \div 3600) * 3600 + ((s \div 60) % 60) * 60 + (s % 60) = s
         /\ s % 3600 = 0 => (s \div 60) % 60 = 0 /\ s % 60 = 0
         /\ s \div seconds_in_a_day = 0 /\ s % seconds_in_a_day = s
         /\ s - (s % 3600) \in Nat /\ (s - (s % 3600)) % 3600 = 0
<1> DEFINE a == s \div 60
           c == s % 60
           b == a \div 60
           m == a % 60
<1>1. a \in Int /\ c \in Int /\ 0 <= c /\ c <= 59 /\ s = 60 * a + c
  <2>1. a \in Int /\ c \in 0..(60 - 1) /\ s = 60 * a + c
    BY Quotient
  <2> QED  BY <2>1
<1> HIDE DEF a, c
<1>2. b \in Int /\ m \in Int /\ 0 <= m /\ m <= 59 /\ a = 60 * b + m
  <2>1. b \in Int /\ m \in 0..(60 - 1) /\ a = 60 * b + m
    BY <1>1, Quotient
  <2> QED  BY <2>1
<1> HIDE DEF b, m
<1>3. s = 3600 * b + 60 * m + c /\ 3600 * b <= s /\ s < 3600 * b + 3600
  BY <1>1, <1>2
<1>4. s \div 3600 = b /\ s % 3600 = s - (3600 * b)
  <2> DEFINE h == 3600
  <2>1. s \in Int /\ h \in Nat \ {0}
    OBVIOUS
  <2>2. h * b <= s /\ s < h * b + h
    BY <1>3
  <2> HIDE DEF h
  <2>3. s \div h = b /\ s % h = s - (h * b)
    BY <1>2, <2>1, <2>2, QuotientIs, Zenon
  <2> QED  BY <2>3 DEF h
<1>5. b \in Nat /\ b <= 23
  BY <1>1, <1>2, <1>3 DEF seconds_in_a_day
<1>6. s \div seconds_in_a_day = 0 /\ s % seconds_in_a_day = s
  <2> DEFINE n == seconds_in_a_day
  <2>1. n \in Nat \ {0} /\ s < n
    BY DEF seconds_in_a_day
  <2> HIDE DEF n
  <2>0. n * 0 = 0
    BY <2>1
  <2>2. n * 0 <= s /\ s < n * 0 + n /\ s - (n * 0) = s
    BY <2>0, <2>1
  <2>3. s \div n = 0 /\ s % n = s - (n * 0)
    <3>1. s \in Int /\ 0 \in Int
      OBVIOUS
    <3> QED  BY <2>1, <2>2, <3>1, QuotientIs, Zenon
  <2> QED  BY <2>2, <2>3 DEF n
<1>7. s - (s % 3600) = 3600 * b
  BY <1>1, <1>2, <1>3, <1>4
<1>8. (3600 * b) % 3600 = 0 /\ 3600 * b \in Nat
  <2> DEFINE x == 3600 * b
  <2>1. x \in Int /\ 3600 * b <= x /\ x < 3600 * b + 3600 /\ x - (3600 * b) = 0 /\ x \in Nat
    BY <1>5
  <2> HIDE DEF x
  <2>2. x % 3600 = x - (3600 * b)
    <3> DEFINE h == 3600
    <3>1. x \in Int /\ h \in Nat \ {0} /\ h * b <= x /\ x < h * b + h
      BY <2>1
    <3> HIDE DEF h
    <3>2. x % h = x - (h * b)
      BY <1>2, <3>1, QuotientIs, Zenon
    <3> QED  BY <3>2 DEF h
  <2> QED  BY <2>1, <2>2 DEF x
<1>9. (s % 3600 = 0) => m = 0 /\ c = 0
  BY <1>1, <1>2, <1>3, <1>4
<1> QED
  BY <1>1, <1>2, <1>3, <1>4, <1>5, <1>6, <1>7, <1>8, <1>9 DEF a, c, m

\* What cmos_set_time writes is the time cmos_get_time reads, in binary, and on the
\* hour in BCD.
OnTheHour(t) == t.sec % 3600 = 0
LEMMA RoundTrip ==
  ASSUME NEW t \in ClockTimes, NEW bcd \in BOOLEAN, bcd => OnTheHour(t)
  PROVE  cmos_get_time(cmos_set_time(t, bcd), bcd) = t
<1>0. /\ t = [day |-> t.day, sec |-> t.sec] /\ t.day \in Nat /\ t.day <= LastDay
      /\ t.sec \in Nat /\ t.sec < seconds_in_a_day
  BY DEF ClockTimes
<1> DEFINE d == t.day
           s == t.sec
           year == YearOf(d)
           inday == d - YearStart(year)
           S == {m \in 0..11 : MonthStart(Leap(year), m) <= inday}
           month == MonthOf(year, inday)
           dom == inday - MonthStart(Leap(year), month) + 1
           w == cmos_set_time(t, bcd)
           b == s \div 3600
           n == (s \div 60) % 60
           c == s % 60
<1>1. /\ year \in Nat /\ 1970 <= year /\ year <= 2100 /\ YearStart(year) = FourthYears(year)
      /\ YearStart(year) \in Int /\ inday \in Nat /\ inday <= 366 /\ (year = 2100 => inday <= 58)
  <2> HIDE DEF d
  <2> QED  BY <1>0, Years DEF d
<1>2. /\ w.sec = Reg(bcd, c) /\ w.min = Reg(bcd, n) /\ w.hour = Reg(bcd, b)
      /\ w.dom = Reg(bcd, dom) /\ w.month = Reg(bcd, month + 1)
      /\ w.year = Reg(bcd, year % 100) /\ w.century = Reg(bcd, year \div 100)
  <2>1. w = [sec |-> Reg(bcd, c), min |-> Reg(bcd, n), hour |-> Reg(bcd, b), dom |-> Reg(bcd, dom),
             month |-> Reg(bcd, month + 1), year |-> Reg(bcd, year % 100),
             century |-> Reg(bcd, year \div 100), weekday |-> Reg(bcd, ((d + 4) % 7) + 1)]
    BY DEF cmos_set_time
  <2> HIDE DEF w, c, n, b, dom, month, year, d
  <2> QED  BY <2>1
<1> HIDE DEF year, w
<1> DEFINE e == IF Leap(year) THEN 1 ELSE 0
<1>3. e \in {0, 1} /\ \A m : MonthStart(Leap(year), m) = MonthBegin(e, m)
  BY MonthBegins
<1> HIDE DEF e
<1>4. /\ month \in 0..11 /\ MonthBegin(e, month) <= inday
      /\ \A m \in 0..11 : MonthBegin(e, m) <= inday => m <= month
  <2>1. S = {m \in 0..11 : MonthBegin(e, m) <= inday}
    BY <1>3
  <2>2. S \in SUBSET (0..11) /\ 0 \in S
    <3>1. MonthBegin(e, 0) = 0
      BY <1>3, Months
    <3> HIDE DEF inday
    <3> QED  BY <1>1, <2>1, <3>1
  <2>3. month \in S /\ \A m \in S : m <= month
    <3>1. month = Max(S)
      BY Zenon DEF MonthOf
    <3> HIDE DEF S, month
    <3> QED  BY <2>2, <3>1, LastMonth, Zenon
  <2> HIDE DEF month, inday
  <2> QED  BY <2>1, <2>3
<1> HIDE DEF month, inday
<1> DEFINE ms == MonthBegin(e, month)
<1>5. /\ ms \in Nat /\ (month > 1 => ms >= 59) /\ (month < 11 => MonthBegin(e, month + 1) <= ms + 31)
      /\ (month = 11 => ms >= 334)
  BY <1>3, <1>4, Months
<1>d. dom = inday - ms + 1
  BY <1>3
<1> HIDE DEF dom
<1>6. dom \in Nat /\ 1 <= dom /\ dom <= 33
  <2>1. CASE month = 11
    BY <1>1, <1>4, <1>5, <1>d, <2>1
  <2>2. CASE month < 11
    <3>1. month + 1 \in 0..11 /\ ~(month + 1 <= month)
      BY <1>4, <2>2
    <3>2. MonthBegin(e, month + 1) \in Nat
      BY <1>3, <3>1, Months
    <3>3. ~(MonthBegin(e, month + 1) <= inday)
      BY <1>4, <3>1
    <3> HIDE DEF ms
    <3> QED  BY <1>1, <1>4, <1>5, <1>d, <2>2, <3>2, <3>3 DEF ms
  <2> QED  BY <1>4, <2>1, <2>2
<1>7. MonthStart(year % 4 = 0, month) = ms
  <2> DEFINE f == IF year % 4 = 0 THEN 1 ELSE 0
  <2>1. MonthStart(year % 4 = 0, month) = MonthBegin(f, month) /\ f \in {0, 1}
    BY MonthBegins
  <2>2. CASE year < 2100
    <3>1. Leap(year) <=> (year % 4 = 0)
      BY <1>1, <2>2, LeapYears
    <3>2. e = f
      BY <3>1 DEF e
    <3> QED  BY <2>1, <3>2
  <2>3. CASE year = 2100
    <3> HIDE DEF f
    <3>1. month <= 1
      BY <1>1, <1>4, <1>5, <2>3
    <3>2. MonthBegin(0, month) = MonthBegin(e, month) /\ MonthBegin(0, month) = MonthBegin(f, month)
      BY <1>3, <1>4, <2>1, <3>1, Months
    <3> QED  BY <2>1, <3>2
  <2> QED  BY <1>1, <2>2, <2>3
<1> HIDE DEF ms
<1>8. Num(bcd, w.dom) = dom /\ Num(bcd, w.month) = month + 1
  <2>1. month + 1 \in Nat /\ month + 1 <= 99 /\ dom <= 99
    BY <1>4, <1>6
  <2> QED  BY <1>2, <1>6, <2>1, Registers
<1>9. Num(bcd, w.century) * 100 + Num(bcd, w.year) = year
  <2> DEFINE q == year \div 100
             r == year % 100
  <2>1. q \in Int /\ r \in Int /\ 0 <= r /\ r <= 99 /\ year = 100 * q + r
    <3>1. q \in Int /\ r \in 0..(100 - 1) /\ year = 100 * q + r
      BY <1>1, Quotient
    <3> QED  BY <3>1
  <2> HIDE DEF q, r
  <2>2. q \in Nat /\ q <= 99 /\ r \in Nat
    BY <1>1, <2>1
  <2>3. Num(bcd, Reg(bcd, q)) = q /\ Num(bcd, Reg(bcd, r)) = r
    BY <2>1, <2>2, Registers
  <2>4. w.century = Reg(bcd, q) /\ w.year = Reg(bcd, r)
    BY <1>2 DEF q, r
  <2> QED  BY <2>1, <2>3, <2>4
<1>10. /\ b \in Nat /\ b <= 23 /\ n \in Nat /\ c \in Nat /\ b * 3600 + n * 60 + c = s
       /\ (s % 3600 = 0 => n = 0 /\ c = 0) /\ s \div seconds_in_a_day = 0 /\ s % seconds_in_a_day = s
  BY <1>0, Seconds
<1> HIDE DEF b, n, c
<1>11. Num(bcd, w.hour) = b /\ w.min = n /\ w.sec = c
  <2>1. b <= 99
    BY <1>10
  <2>2. Reg(bcd, 0) = 0 /\ Num(bcd, Reg(bcd, b)) = b
    BY <1>10, <2>1, Registers
  <2> QED  BY <1>2, <1>10, <2>2 DEF Reg, OnTheHour
<1> DEFINE Y == Num(bcd, w.century) * 100 + Num(bcd, w.year)
           T == Num(bcd, w.hour) * 3600 + w.min * 60 + w.sec
           D == FourthYears(Y) + MonthStart(Y % 4 = 0, Num(bcd, w.month) - 1) + Num(bcd, w.dom) - 1
<1>12. cmos_get_time(w, bcd) = [day |-> D + T \div seconds_in_a_day, sec |-> T % seconds_in_a_day]
  BY DEF cmos_get_time
<1>13. Y = year /\ T = s
  BY <1>9, <1>10, <1>11
<1> HIDE DEF T
<1>14. D = d
  <2>1. (month + 1) - 1 = month
    BY <1>4
  <2>2. D = FourthYears(year) + ms + dom - 1
    BY <1>7, <1>8, <1>13, <2>1
  <2> HIDE DEF D
  <2> QED  BY <1>0, <1>1, <1>5, <1>d, <2>2 DEF inday
<1> HIDE DEF D, d, s
<1>15. d + 0 = d
  BY <1>0 DEF d
<1>16. t = [day |-> d, sec |-> s]
  BY <1>0 DEF d, s
<1> QED
  BY <1>10, <1>12, <1>13, <1>14, <1>15, <1>16 DEF w

LEMMA RoundTripBinary ==
  ASSUME NEW t \in ClockTimes
  PROVE  cmos_get_time(cmos_set_time(t, FALSE), FALSE) = t
<1>1. FALSE \in BOOLEAN /\ (FALSE => OnTheHour(t))
  OBVIOUS
<1> QED
  BY <1>1, RoundTrip, Zenon

\* What the callers, the command and the two clocks have to do with each other at every
\* step: the pending command has the time that the system clock was set to, and between
\* commands the clocks agree.
Battery == cmos_get_time(ckrtc, FALSE)
CkTypeOK == /\ ckpc \in [CkAll -> {"start", "idle", "wait", "up", "rejected"}]
            /\ ckdone \in [CkAll -> BOOLEAN] /\ ckrejected \in BOOLEAN
            /\ cksys \in ClockTimes /\ \E t \in ClockTimes : ckrtc = cmos_set_time(t, FALSE)
            /\ ckcmd \in [has : BOOLEAN, owner : CkAll \cup {"none"}, read : BOOLEAN, time : ClockTimes]
CommandMeant == ckcmd.has => /\ ckcmd.owner \in CkAll
                             /\ (~ckcmd.read /\ ~ckrejected) => ckcmd.time = cksys
Kept == ((ckpc["boot"] = "up" \/ ckdone["boot"]) /\ ~ckcmd.has /\ ~ckrejected) => Battery = cksys
CkInv == CkTypeOK /\ CommandMeant /\ CommandOwned /\ Kept

LEMMA BatteryTime ==
  ASSUME CkTypeOK
  PROVE  Battery \in ClockTimes
<1>1. PICK t \in ClockTimes : ckrtc = cmos_set_time(t, FALSE)
  BY Zenon DEF CkTypeOK
<1> QED
  BY <1>1, RoundTripBinary, Zenon DEF Battery

\* A call takes the command when there is none, and otherwise only spins.
LEMMA Called ==
  ASSUME CkInv, NEW p \in CkAll, NEW read \in BOOLEAN, NEW t \in ClockTimes, ckpc[p] # "wait",
         cksys' = t, UNCHANGED ckrtc, cmos_start_call(p, read, t)
  PROVE  CkInv'
<1> USE DEF CkInv, CkTypeOK
<1>1. CASE ckcmd.has
  <2>1. /\ ckpc' = [ckpc EXCEPT ![p] = "rejected"] /\ ckrejected' = TRUE /\ UNCHANGED <<ckcmd, ckrtc>>
        /\ \E junk \in BOOLEAN : ckdone' = [ckdone EXCEPT ![p] = junk]
    BY <1>1 DEF cmos_start_call
  <2>2. CkTypeOK'
    BY <2>1, Zenon
  <2>3. CommandMeant' /\ Kept'
    BY <2>1, <1>1 DEF CommandMeant, Kept
  <2>4. CommandOwned'
    <3>1. ckcmd.owner \in CkAll /\ ckcmd.owner # p /\ ~ckdone[ckcmd.owner] /\ ckpc[ckcmd.owner] = "wait"
      BY <1>1 DEF CommandMeant, CommandOwned
    <3>2. ckpc'[ckcmd.owner] = "wait" /\ ckdone'[ckcmd.owner] = ckdone[ckcmd.owner]
      BY <2>1, <3>1
    <3> QED  BY <2>1, <3>1, <3>2 DEF CommandOwned
  <2> QED  BY <2>2, <2>3, <2>4, Zenon
<1>2. CASE ~ckcmd.has
  <2>1. /\ ckpc' = [ckpc EXCEPT ![p] = "wait"] /\ ckdone' = [ckdone EXCEPT ![p] = FALSE]
        /\ ckcmd' = [has |-> TRUE, owner |-> p, read |-> read, time |-> t] /\ UNCHANGED <<ckrejected, ckrtc>>
    BY <1>2 DEF cmos_start_call
  <2>2. CkTypeOK'
    BY <2>1, Zenon
  <2>3. CommandMeant' /\ Kept'
    BY <2>1 DEF CommandMeant, Kept
  <2>4. CommandOwned'
    BY <2>1 DEF CommandOwned
  <2> QED  BY <2>2, <2>3, <2>4, Zenon
<1> QED
  BY <1>1, <1>2, Zenon

LEMMA Returned ==
  ASSUME CkInv, NEW p \in CkAll, ckdone[p], NEW to \in {"up", "idle"}, to = "up" => p = "boot",
         ckpc' = [ckpc EXCEPT ![p] = to], UNCHANGED <<ckcmd, ckdone, ckrtc, cksys, ckrejected>>
  PROVE  CkInv'
<1> USE DEF CkInv, CkTypeOK
<1>1. CkTypeOK'
  BY Zenon
<1>2. CommandMeant'
  BY DEF CommandMeant
<1>3. Kept'
  <2>1. ckpc'["boot"] = "up" => ckpc["boot"] = "up" \/ ckdone["boot"]
    <3>1. "boot" \in CkAll
      BY DEF CkAll
    <3> QED  BY <3>1
  <2>2. Battery' = Battery
    BY DEF Battery
  <2> QED  BY <2>1, <2>2, Zenon DEF Kept
<1>4. CommandOwned'
  <2>1. ASSUME ckcmd.has PROVE ckpc'[ckcmd.owner] = "wait"
    <3>1. ckcmd.owner \in CkAll /\ ckpc[ckcmd.owner] = "wait" /\ ckcmd.owner # p
      BY <2>1, Zenon DEF CommandOwned, CommandMeant
    <3> QED  BY <3>1
  <2> QED  BY <2>1, Zenon DEF CommandOwned
<1> QED
  BY <1>1, <1>2, <1>3, <1>4, Zenon

LEMMA Handled ==
  ASSUME CkInv, cmos_handler
  PROVE  CkInv'
<1> USE DEF CkInv, CkTypeOK
<1>0. UNCHANGED <<ckpc, ckrejected>> /\ ckcmd' = [ckcmd EXCEPT !.has = FALSE]
  BY DEF cmos_handler, Answered
<1>1. CommandMeant' /\ CommandOwned'
  BY <1>0 DEF CommandMeant, CommandOwned
<1>2. CASE ~ckcmd.has
  <2>1. UNCHANGED <<ckdone, ckrtc, cksys>> /\ ckcmd' = ckcmd
    BY <1>0, <1>2 DEF cmos_handler
  <2>2. CkTypeOK'
    BY <1>0, <2>1, Zenon
  <2>3. Kept'
    BY <1>0, <2>1, Zenon DEF Kept, Battery
  <2> QED  BY <1>1, <2>2, <2>3, Zenon
<1>3. CASE ckcmd.has /\ ckcmd.read
  <2>1. /\ ckdone' = [ckdone EXCEPT ![ckcmd.owner] = TRUE] /\ cksys' = Battery /\ UNCHANGED ckrtc
    BY <1>3 DEF cmos_handler, Battery
  <2>2. CkTypeOK'
    BY <1>0, <2>1, BatteryTime, Zenon
  <2>3. Kept'
    BY <2>1 DEF Kept, Battery
  <2> QED  BY <1>1, <2>2, <2>3, Zenon
<1>4. CASE ckcmd.has /\ ~ckcmd.read
  <2>1. /\ ckdone' = [ckdone EXCEPT ![ckcmd.owner] = TRUE] /\ UNCHANGED cksys
        /\ ckrtc' = cmos_set_time(ckcmd.time, FALSE)
    BY <1>4 DEF cmos_handler
  <2>2. CkTypeOK' /\ ckcmd.time \in ClockTimes
    BY <1>0, <2>1, Zenon
  <2>3. Battery' = ckcmd.time
    BY <2>1, <2>2, RoundTripBinary, Zenon DEF Battery
  <2>4. ~ckrejected => ckcmd.time = cksys
    BY <1>4 DEF CommandMeant
  <2>5. Kept'
    BY <1>0, <2>1, <2>3, <2>4 DEF Kept
  <2> QED  BY <1>1, <2>2, <2>5, Zenon
<1> QED
  BY <1>2, <1>3, <1>4, Zenon

LEMMA CkStart == CkInit => CkInv
<1> SUFFICES ASSUME CkInit PROVE CkInv
  OBVIOUS
<1>1. [day |-> 0, sec |-> 0] \in ClockTimes
  BY DEF ClockTimes, LastDay, seconds_in_a_day
<1>2. CkTypeOK
  <2>1. PICK t \in CkTimes : ckrtc = cmos_set_time(t, FALSE)
    BY Zenon DEF CkInit
  <2>2. t \in ClockTimes
    BY ClockAssumption
  <2> QED  BY <1>1, <2>1, <2>2, Zenon DEF CkInit, CkTypeOK, NoCommand
<1>3. CommandMeant /\ CommandOwned
  BY DEF CkInit, NoCommand, CommandMeant, CommandOwned
<1>4. Kept
  BY DEF CkInit, CkAll, Kept
<1> QED
  BY <1>2, <1>3, <1>4 DEF CkInv

LEMMA CkStep == CkInv /\ [CkNext]_ck_vars => CkInv'
<1> SUFFICES ASSUME CkInv, [CkNext]_ck_vars PROVE CkInv'
  OBVIOUS
<1>0. "boot" \in CkAll /\ \A p \in CkCallers : p \in CkAll /\ p # "boot"
  BY ClockAssumption DEF CkAll
<1>1. CASE timer_start_init
  BY <1>0, <1>1, Called, Zenon DEF timer_start_init, CkInv, CkTypeOK
<1>2. CASE timer_wait_for_init
  BY <1>0, <1>2, Returned, Zenon DEF timer_wait_for_init
<1>3. CASE cmos_handler
  BY <1>3, Handled
<1>4. ASSUME NEW p \in CkCallers, clock_written(p) PROVE CkInv'
  BY <1>0, <1>4, Returned, Zenon DEF clock_written
<1>5. ASSUME NEW p \in CkCallers, NEW t \in CkTimes, clock_write(p, t) PROVE CkInv'
  <2>1. t \in ClockTimes
    BY ClockAssumption
  <2> QED  BY <1>0, <1>5, <2>1, Called, Zenon DEF clock_write
<1>6. CASE UNCHANGED ck_vars
  <2>1. UNCHANGED <<ckpc, ckcmd, ckdone, ckrtc, cksys, ckrejected>>
    BY <1>6 DEF ck_vars
  <2>2. CkTypeOK' /\ CommandMeant' /\ CommandOwned' /\ Kept'
    BY <2>1, Zenon DEF CkInv, CkTypeOK, CommandMeant, CommandOwned, Kept, Battery
  <2> QED  BY <2>2 DEF CkInv
<1> QED
  BY <1>1, <1>2, <1>3, <1>4, <1>5, <1>6 DEF CkNext

LEMMA CkSound == CkInv => ClockSound
<1> SUFFICES ASSUME CkInv PROVE ClockSound
  OBVIOUS
<1>1. CommandOwned
  BY DEF CkInv
<1>2. ClocksAgree
  BY Zenon DEF CkInv, Kept, Battery, ClocksAgree
<1>3. ClockInBcd
  <2> DEFINE x == cksys.sec - (cksys.sec % 3600)
             t == TheHour(cksys)
  <2>1. cksys \in [day : Nat, sec : Nat] /\ cksys.day <= LastDay /\ cksys.sec < seconds_in_a_day
    BY DEF CkInv, CkTypeOK, ClockTimes
  <2>2. cksys.sec % 3600 \in Nat /\ x \in Nat /\ x % 3600 = 0 /\ x <= cksys.sec
    BY <2>1, Seconds
  <2>3. t = [day |-> cksys.day, sec |-> x]
    BY <2>1 DEF TheHour
  <2> HIDE DEF x, t
  <2>4. seconds_in_a_day \in Nat
    BY DEF seconds_in_a_day
  <2>5. x < seconds_in_a_day
    BY <2>1, <2>2, <2>4
  <2>6. t \in ClockTimes /\ t.sec = x
    BY <2>1, <2>2, <2>3, <2>5 DEF ClockTimes
  <2>7. OnTheHour(t)
    BY <2>2, <2>6 DEF OnTheHour
  <2>8. cmos_get_time(cmos_set_time(t, TRUE), TRUE) = t
    BY <2>6, <2>7, RoundTrip, Zenon
  <2> QED  BY <2>8, Zenon DEF ClockInBcd, t
<1> QED
  BY <1>1, <1>2, <1>3 DEF ClockSound

\* The clock of the machine and of the system, for any callers of /dev/clock and any
\* times before March of 2100: a command belongs to a caller who waits for it, and what
\* is written to the battery clock is read back as the same time (cmos_start_call,
\* cmos_handler, cmos_set_time and cmos_get_time).
THEOREM ClockCorrect == CkSpec => []ClockSound
<1>1. CkInit => CkInv
  BY CkStart
<1>2. CkInv /\ [CkNext]_ck_vars => CkInv'
  BY CkStep
<1>3. CkInv => ClockSound
  BY CkSound
<1> QED
  BY <1>1, <1>2, <1>3, PTL DEF CkSpec
=============================================================================
