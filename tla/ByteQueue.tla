------------------------------ MODULE ByteQueue ------------------------------
(***************************************************************************)
(* What the kernel expects of a struct ringbuffer: a bounded first-in      *)
(* first-out byte queue with one writer and one reader.  A call moves bytes *)
(* in chunks; it may come back short only when the queue is full (writer)  *)
(* or empty (reader) at that moment.                                       *)
(***************************************************************************)
EXTENDS Naturals, Sequences

CONSTANTS Capacity,   \* bytes an initialised queue can hold
          Byte        \* the byte values

VARIABLES queue,      \* bytes written and not yet read
          cap,        \* Capacity, or 0 when there is no backing memory
          put,        \* [busy, rest]: the write call in progress
          get         \* [busy, left, got]: the read call in progress

vars == <<queue, cap, put, get>>

Idle == ~put.busy /\ ~get.busy

Init == /\ queue = <<>>
        /\ cap = 0
        /\ put = [busy |-> FALSE, rest |-> <<>>]
        /\ get = [busy |-> FALSE, left |-> 0, got |-> <<>>]

Reset == /\ Idle
         /\ queue' = <<>>
         /\ cap' \in {0, Capacity}
         /\ UNCHANGED <<put, get>>

StartPut == /\ ~put.busy
            /\ put'.rest \in Seq(Byte)
            /\ put' = [busy |-> TRUE, rest |-> put'.rest]
            /\ UNCHANGED <<queue, cap, get>>

\* Some leading bytes of the argument are appended, within the capacity.
Put(n) == /\ put.busy
          /\ n \in 1..Len(put.rest)
          /\ Len(queue) + n <= cap
          /\ queue' = queue \o SubSeq(put.rest, 1, n)
          /\ put' = [busy |-> TRUE, rest |-> SubSeq(put.rest, n + 1, Len(put.rest))]
          /\ UNCHANGED <<cap, get>>

EndPut == /\ put.busy
          /\ put.rest = <<>> \/ Len(queue) = cap
          /\ put' = [busy |-> FALSE, rest |-> <<>>]
          /\ UNCHANGED <<queue, cap, get>>

StartGet == /\ ~get.busy
            /\ get'.left \in Nat
            /\ get' = [busy |-> TRUE, left |-> get'.left, got |-> <<>>]
            /\ UNCHANGED <<queue, cap, put>>

\* Some of the oldest bytes move, in order, to the caller.
Get(n) == /\ get.busy
          /\ n \in 1..get.left
          /\ n <= Len(queue)
          /\ get' = [busy |-> TRUE, left |-> get.left - n,
                     got |-> get.got \o SubSeq(queue, 1, n)]
          /\ queue' = SubSeq(queue, n + 1, Len(queue))
          /\ UNCHANGED <<cap, put>>

EndGet == /\ get.busy
          /\ get.left = 0 \/ queue = <<>>
          /\ get' = [busy |-> FALSE, left |-> 0, got |-> <<>>]
          /\ UNCHANGED <<queue, cap, put>>

Next == \/ Reset \/ StartPut \/ EndPut \/ StartGet \/ EndGet
        \/ \E n \in 1..Capacity : Put(n) \/ Get(n)

Spec == Init /\ [][Next]_vars
=============================================================================
