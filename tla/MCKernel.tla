------------------------------ MODULE MCKernel ------------------------------
(* Processes and the kernel's byte ring side by side: "which" picks the one that
   runs.  The kernel's task, init and two more processes; a ring of 4 slots that
   calls of up to 3 bytes meet at every offset, full and empty. *)
EXTENDS Process, RingBuffer
VARIABLE which
kernel_vars == <<vars, rb_vars, which>>

KernelInit == /\ Init /\ RbInit /\ which \in {"process", "ring"}
              /\ which # "ring" => buffer = [s \in Slots |-> CHOOSE b \in Byte : TRUE]
KernelNext == \/ which = "process" /\ Next   /\ UNCHANGED <<rb_vars, which>>
              \/ which = "ring"    /\ RbNext /\ UNCHANGED <<vars, which>>

\* Bound: handlers are followed in one process at a time.
Handlers == Cardinality({p \in Pids : proc[p].handlers # {}}) <= 1
KernelSpec == KernelInit /\ [][KernelNext]_kernel_vars
=============================================================================
