----------------------------- MODULE BlockStore -----------------------------
(***************************************************************************)
(* What the file system may assume of its cached disk: reads return the     *)
(* last write, a write may reach the disk at any time, a flush makes all of *)
(* them reach it, and a power loss goes back to what is on the disk.        *)
(***************************************************************************)
CONSTANTS BlockNums, Parts, Values

VARIABLES mem,   \* block -> part -> value, as the driver sees it
          store, \* the same, on the disk
          got    \* the block the last read returned

store_vars == <<mem, store, got>>
Contents == [Parts -> Values]

StoreInit == mem \in [BlockNums -> Contents] /\ store = mem /\ got \in Contents

Read(b) == /\ got' = mem[b]
           /\ store' = store \/ \E x \in BlockNums : store' = [store EXCEPT ![x] = mem[x]]
           /\ UNCHANGED mem
Write(b, p, v) == /\ mem' = [mem EXCEPT ![b] = [@ EXCEPT ![p] = v]]
                  /\ store' = store \/ store' = [store EXCEPT ![b] = [@ EXCEPT ![p] = v]]
                  /\ UNCHANGED got
Flush == store' = mem /\ UNCHANGED <<mem, got>>
PowerLoss == mem' = store /\ UNCHANGED <<store, got>>

StoreNext == \/ \E b \in BlockNums : Read(b)
             \/ \E b \in BlockNums, p \in Parts, v \in Values : Write(b, p, v)
             \/ Flush \/ PowerLoss
StoreSpec == StoreInit /\ [][StoreNext]_store_vars
=============================================================================
