----------------------------- MODULE RingBuffer -----------------------------
(***************************************************************************)
(* kernel/lib/ringbuffer.c: the byte ring used by the keyboard and mouse    *)
(* drivers and by the TCP and UDP sockets.  One end is driven by a system   *)
(* call, the other by an interrupt handler, so a writer and a reader are    *)
(* modelled as two activities that interleave inside the loops of           *)
(* ringbuffer_write and ringbuffer_read: one step copies the bytes          *)
(* (memcpy), the next one publishes the pointer.                            *)
(***************************************************************************)
EXTENDS Naturals, Sequences

CONSTANTS BufferSize,  \* the buffer_size argument of ringbuffer_init
          Byte,        \* the byte values
          MaxLen       \* bound on the len argument of one call

ASSUME RingAssumption == BufferSize \in Nat \ {0} /\ MaxLen \in Nat /\ Byte # {}

VARIABLES buffer,      \* rb->buffer
          buffer_size, \* rb->buffer_size: 0 without backing memory
          read_ptr, write_ptr,
          wr,          \* ringbuffer_write: [pc, rest, n]
          rd           \* ringbuffer_read: [pc, left, chunk, got]

rb_vars == <<buffer, buffer_size, read_ptr, write_ptr, wr, rd>>

Slots == 0..(BufferSize - 1)
NoWrite == [pc |-> "idle", rest |-> <<>>, n |-> 0]
NoRead == [pc |-> "idle", left |-> 0, chunk |-> <<>>, got |-> <<>>]
Smaller(a, b) == IF a < b THEN a ELSE b

\* u32 ringbuffer_used(rb)
ringbuffer_used ==
  IF write_ptr < read_ptr THEN (buffer_size - read_ptr) + write_ptr
                          ELSE write_ptr - read_ptr

\* Mutant: the slot that tells a full ring from an empty one is given away.
RoomBug == IF write_ptr >= read_ptr THEN buffer_size - write_ptr
                                    ELSE read_ptr - write_ptr - 1

\* buffer_left: what one loop iteration of ringbuffer_write may copy.
Room ==
  IF write_ptr >= read_ptr
  THEN IF read_ptr = 0 /\ buffer_size > write_ptr
       THEN buffer_size - write_ptr - 1
       ELSE buffer_size - write_ptr
  ELSE read_ptr - write_ptr - 1

\* read_len before it is limited by len: the bytes up to the wrap.
Contiguous == IF read_ptr >= write_ptr THEN buffer_size - read_ptr
                                       ELSE write_ptr - read_ptr

RbInit == /\ buffer \in [Slots -> Byte]
          /\ buffer_size = 0
          /\ read_ptr = 0 /\ write_ptr = 0
          /\ wr = NoWrite /\ rd = NoRead

\* ringbuffer_init: kmalloc may fail, and fills what it returns with noise.
ringbuffer_init ==
  /\ buffer_size = 0
  /\ wr = NoWrite /\ rd = NoRead
  /\ read_ptr' = 0 /\ write_ptr' = 0
  /\ \/ buffer' \in [Slots -> Byte] /\ buffer_size' = BufferSize
     \/ buffer_size' = 0 /\ UNCHANGED buffer
  /\ UNCHANGED <<wr, rd>>

ringbuffer_free ==
  /\ wr = NoWrite /\ rd = NoRead
  /\ buffer_size' = 0 /\ read_ptr' = 0 /\ write_ptr' = 0
  /\ UNCHANGED <<buffer, wr, rd>>

\* Entry of ringbuffer_write(rb, s, Len(s)).
WriteCall(s) ==
  /\ wr.pc = "idle"
  /\ wr' = [pc |-> "loop", rest |-> s, n |-> 0]
  /\ UNCHANGED <<buffer, buffer_size, read_ptr, write_ptr, rd>>

\* One iteration, up to and including the memcpy.
WriteCopy ==
  LET n == Smaller(Smaller(Len(wr.rest), Room), buffer_size - write_ptr)
  IN /\ wr.pc = "loop" /\ wr.rest # <<>> /\ Room > 0
     /\ buffer' = [i \in Slots |->
                     IF i >= write_ptr /\ i < write_ptr + n
                     THEN wr.rest[i - write_ptr + 1] ELSE buffer[i]]
     /\ wr' = [wr EXCEPT !.pc = "copied", !.n = n]
     /\ UNCHANGED <<buffer_size, read_ptr, write_ptr, rd>>

\* The end of the iteration: the bytes become visible to the reader.
WritePublish ==
  /\ wr.pc = "copied"
  /\ write_ptr' = (write_ptr + wr.n) % buffer_size
  /\ wr' = [pc |-> "loop", rest |-> SubSeq(wr.rest, wr.n + 1, Len(wr.rest)),
            n |-> 0]
  /\ UNCHANGED <<buffer, buffer_size, read_ptr, rd>>

WriteReturn ==
  /\ wr.pc = "loop"
  /\ wr.rest = <<>> \/ Room = 0
  /\ wr' = NoWrite
  /\ UNCHANGED <<buffer, buffer_size, read_ptr, write_ptr, rd>>

\* Entry of ringbuffer_read(rb, buffer, len).
ReadCall(len) ==
  /\ rd.pc = "idle"
  /\ rd' = [pc |-> "loop", left |-> len, chunk |-> <<>>, got |-> <<>>]
  /\ UNCHANGED <<buffer, buffer_size, read_ptr, write_ptr, wr>>

ReadCopy ==
  LET n == Smaller(rd.left, Contiguous)
  IN /\ rd.pc = "loop" /\ rd.left > 0 /\ read_ptr # write_ptr
     /\ rd' = [rd EXCEPT !.pc = "copied",
                         !.chunk = [k \in 1..n |-> buffer[read_ptr + k - 1]]]
     /\ UNCHANGED <<buffer, buffer_size, read_ptr, write_ptr, wr>>

\* The slots are handed back to the writer.
ReadPublish ==
  /\ rd.pc = "copied"
  /\ read_ptr' = (read_ptr + Len(rd.chunk)) % buffer_size
  /\ rd' = [pc |-> "loop", left |-> rd.left - Len(rd.chunk), chunk |-> <<>>,
            got |-> rd.got \o rd.chunk]
  /\ UNCHANGED <<buffer, buffer_size, write_ptr, wr>>

ReadReturn ==
  /\ rd.pc = "loop"
  /\ rd.left = 0 \/ read_ptr = write_ptr
  /\ rd' = NoRead
  /\ UNCHANGED <<buffer, buffer_size, read_ptr, write_ptr, wr>>

Args == UNION {[1..n -> Byte] : n \in 0..MaxLen}

RbNext == \/ ringbuffer_init \/ ringbuffer_free
          \/ \E s \in Args : WriteCall(s)
          \/ WriteCopy \/ WritePublish \/ WriteReturn
          \/ \E len \in 0..MaxLen : ReadCall(len)
          \/ ReadCopy \/ ReadPublish \/ ReadReturn

RbSpec == RbInit /\ [][RbNext]_rb_vars
-----------------------------------------------------------------------------
\* The unread bytes in the order they were written.
At(k) == IF read_ptr + k < buffer_size THEN read_ptr + k
                                       ELSE (read_ptr + k) - buffer_size
Unread == [k \in 1..ringbuffer_used |-> buffer[At(k - 1)]]

RbTypeOK ==
  /\ buffer \in [Slots -> Byte]
  /\ buffer_size \in {0, BufferSize}
  /\ read_ptr \in Nat /\ write_ptr \in Nat
  /\ IF buffer_size = 0 THEN read_ptr = 0 /\ write_ptr = 0
                        ELSE read_ptr < buffer_size /\ write_ptr < buffer_size
  /\ wr \in [pc : {"idle", "loop", "copied"}, rest : Seq(Byte), n : Nat]
  /\ rd \in [pc : {"idle", "loop", "copied"}, left : Nat, chunk : Seq(Byte),
             got : Seq(Byte)]
  /\ wr.pc = "idle" => wr = NoWrite
  /\ rd.pc = "idle" => rd = NoRead

WriterInv ==
  wr.pc = "copied" =>
    /\ buffer_size = BufferSize
    /\ wr.n \in 1..Len(wr.rest)
    /\ wr.n <= Room /\ write_ptr + wr.n <= buffer_size
    /\ \A k \in 1..wr.n : buffer[write_ptr + k - 1] = wr.rest[k]

ReaderInv ==
  rd.pc = "copied" =>
    /\ read_ptr # write_ptr
    /\ Len(rd.chunk) \in 1..rd.left
    /\ Len(rd.chunk) <= Contiguous
    /\ \A k \in 1..Len(rd.chunk) : rd.chunk[k] = buffer[read_ptr + k - 1]

\* The pointers stay inside the ring, and a chunk that a preempted caller
\* has copied but not yet published still is free space (ringbuffer_write)
\* or unread data (ringbuffer_read) when the caller resumes.
RingInv == RbTypeOK /\ WriterInv /\ ReaderInv

FIFO == INSTANCE ByteQueue WITH
          Capacity <- BufferSize - 1,
          queue <- Unread,
          cap <- IF buffer_size = 0 THEN 0 ELSE buffer_size - 1,
          put <- [busy |-> wr.pc # "idle", rest |-> wr.rest],
          get <- [busy |-> rd.pc # "idle", left |-> rd.left, got |-> rd.got]

\* Whatever the order of the writer's and the reader's iterations, the ring
\* is a bounded FIFO: no byte is lost, duplicated, overwritten before it is
\* read, or reordered, and a short count means full or empty.
RefinesFIFO == FIFO!Spec
=============================================================================
