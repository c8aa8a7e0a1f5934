---------------------------- MODULE EventQueue ----------------------------
(***************************************************************************)
(* kernel/queue.c on kernel/lib/relist.c: the registered interests of a     *)
(* program in its descriptors.  A relist is a table with a bitmap of used   *)
(* places that grows by a word when it is full; here a sequence of places,  *)
(* WordBits of them per word.  Memory is taken to suffice.                  *)
(***************************************************************************)
EXTENDS Integers, Sequences, FiniteSets, FiniteSetsExt, SequencesExt

CONSTANT WordBits  \* places per bitmap word (64)

NoEntry == [fd |-> 0, listen |-> {}, data |-> 0]

relist_init == [i \in 1..WordBits |-> NoEntry]

Used(list) == {i \in 1..Len(list) : list[i] # NoEntry}

\* The first free place, or 0.
relist_find_free_entry(list) ==
  LET free == 1..Len(list) \ Used(list) IN IF free = {} THEN 0 ELSE Min(free)

\* A full table grows by one word first.
relist_add(list, e) ==
  LET at   == relist_find_free_entry(list)
      more == list \o relist_init
  IN IF at # 0 THEN [list EXCEPT ![at] = e]
     ELSE [more EXCEPT ![relist_find_free_entry(more)] = e]

relist_remove(list, i) == [list EXCEPT ![i] = NoEntry]

\* The three forms of queue_mod_entries, with one entry as their callers use it.
queue_add(list, e) == relist_add(list, e)

queue_change(list, e) ==
  LET mine == {i \in Used(list) : list[i].fd = e.fd}
  IN IF mine = {} THEN list ELSE [list EXCEPT ![Min(mine)] = e]

queue_delete(list, fd) ==
  FoldSet(LAMBDA i, l : relist_remove(l, i), list, {i \in Used(list) : list[i].fd = fd})

\* queue_get_entries: in the order of the table, the entries whose descriptor is
\* open and has one of the conditions listened for; ready[fd] is what an open one has.
queue_get_entries(list, ready) ==
  SelectSeq(list, LAMBDA e : /\ e # NoEntry /\ e.fd \in DOMAIN ready
                             /\ e.listen \cap ready[e.fd] # {})
=============================================================================
