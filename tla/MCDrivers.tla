----------------------------- MODULE MCDrivers -----------------------------
(* The device drivers, the ext2 driver and the kernel's heap side by side: "which"
   picks the one that runs. *)
EXTENDS Ahci, Audio, Input, Clock, Random, Heap, Ext2
VARIABLE which
drv_vars == <<ah_vars, au_vars, kb_vars, mouse_vars, ck_vars, rn_vars>>

\* The first and last days of the epoch's first leap month, of the leap month of 2000,
\* and of the last day on which both conversions agree.
Times == {[day |-> 0, sec |-> 86399], [day |-> 789, sec |-> 13512], [day |-> 11016, sec |-> 0],
          [day |-> 11017, sec |-> 34205], [day |-> 47540, sec |-> 86340]}
SmallPaths == {<<"a">>, <<"b">>, <<"a", "b">>}
Volumes == {0, 1, 50, 99, 100, 101}

DrvInit == /\ AhInit /\ AuInit /\ KbInit /\ MouseInit /\ RnInit /\ HeapInit /\ Ext2Init
           /\ which \in {"drive", "audio", "keyboard", "mouse", "clock", "random", "heap", "ext2"}
           /\ CkInit /\ (which # "clock" => ckrtc = cmos_set_time([day |-> 0, sec |-> 86399], FALSE))
Driver == \/ which = "drive" /\ AhNext /\ UNCHANGED <<au_vars, kb_vars, mouse_vars, ck_vars, rn_vars>>
          \/ which = "audio" /\ AuNext /\ UNCHANGED <<ah_vars, kb_vars, mouse_vars, ck_vars, rn_vars>>
          \/ which = "keyboard" /\ KbNext /\ UNCHANGED <<ah_vars, au_vars, mouse_vars, ck_vars, rn_vars>>
          \/ which = "mouse" /\ MouseNext /\ UNCHANGED <<ah_vars, au_vars, kb_vars, ck_vars, rn_vars>>
          \/ which = "clock" /\ CkNext /\ UNCHANGED <<ah_vars, au_vars, kb_vars, mouse_vars, rn_vars>>
          \/ which = "random" /\ RnNext /\ UNCHANGED <<ah_vars, au_vars, kb_vars, mouse_vars, ck_vars>>
DrvNext == \/ Driver /\ UNCHANGED <<heap_vars, ext2_vars, which>>
           \/ which = "heap" /\ HeapNext /\ UNCHANGED <<drv_vars, ext2_vars, which>>
           \/ which = "ext2" /\ Ext2Next /\ UNCHANGED <<drv_vars, heap_vars, which>>
\* A call of the heap runs to its end; its fair actions are never enabled in the others.
DriversSpec == /\ DrvInit /\ [][DrvNext]_<<drv_vars, heap_vars, ext2_vars, which>>
               /\ WF_heap_vars(op.pc # "idle" /\ HeapNext)
=============================================================================
