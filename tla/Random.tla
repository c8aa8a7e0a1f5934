------------------------------- MODULE Random -------------------------------
(***************************************************************************)
(* The random generator (random.c): ChaCha blocks under a key, a nonce and *)
(* a counter.  A key and nonce taken from a block, or mixed with the hash  *)
(* of the entropy pool, is a new one; key and nonce are one number here.   *)
(***************************************************************************)
EXTENDS Integers, Sequences

CONSTANTS RnMax,     \* COUNT_MAX: the counter runs from 0 to RnMax
          RnKeys,    \* bound: keys made
          RnPool,    \* 2 * HASH_LEN: pool size at which it is used up
          RnSizes    \* sizes of entropy added

ASSUME RnAssumption == RnMax \in Nat /\ RnMax >= 2

VARIABLES rn,       \* the block: key, counter; counters used with this key
          rnpool,   \* hash_pool_size
          rnseeded  \* is_fast_random_seeded
rn_vars == <<rn, rnpool, rnseeded>>

RnInit == /\ rn = [key |-> 0, count |-> 0, used |-> {}, reused |-> FALSE]
          /\ rnpool = 0 /\ rnseeded = FALSE

\* A new key, with which no block has been made, and the counter to go on with.
NewKey(r, count) == [key |-> r.key + 1, count |-> count, used |-> {}, reused |-> r.reused]
\* chacha_block, then COUNT++ in 32 bits.
Block(r) == [key |-> r.key, count |-> (r.count + 1) % (RnMax + 1),
             used |-> r.used \cup {r.count}, reused |-> r.reused \/ r.count \in r.used]
\* One round of get_random when the counter is about to run out: it is moved past the
\* test, and mix_chacha draws its block with the last value.
Remixed(r) == NewKey(Block([r EXCEPT !.count = @ + 1]), 0)
\* Mutant: the counter just runs on.
get_random_bug(r) == Block(r)
get_random(r) == Block(IF r.count = RnMax - 1 THEN Remixed(r) ELSE r)
mix_chacha(r) == NewKey(get_random(r), 0)

\* The old key's output and the pool make the new key; the counter is kept until
\* mix_chacha has used it.
add_hash_pool(r) ==
  LET out == get_random(get_random(r))
  IN  get_random(mix_chacha(NewKey(out, out.count)))

random_read == rn' = get_random(rn) /\ UNCHANGED <<rnpool, rnseeded>>
random_write(size) ==
  /\ rnpool' = IF rnpool >= RnPool THEN rnpool ELSE rnpool + size     \* never reset; bounded here
  /\ rn' = IF rnpool + size >= RnPool THEN add_hash_pool(rn) ELSE rn
  /\ UNCHANGED rnseeded
get_fast_insecure_random ==
  /\ rn' = IF rnseeded THEN rn ELSE get_random(rn)
  /\ rnseeded' = TRUE /\ UNCHANGED rnpool

RnNext == rn.key < RnKeys /\ (random_read \/ get_fast_insecure_random \/ \E size \in RnSizes : random_write(size))
RnSpec == RnInit /\ [][RnNext]_rn_vars
-----------------------------------------------------------------------------
\* No block is ever produced twice from the same key and counter, which would repeat
\* random output: the counter never wraps under one key, whichever of a read, new
\* entropy or the fast generator's seeding meets its last values (get_random and
\* mix_chacha calling each other).
NoBlockTwice == ~rn.reused
=============================================================================
