-------------------------------- MODULE Pipe --------------------------------
(***************************************************************************)
(* One direction of a pipe: kernel/fs/fifo.c below tmp_read and tmp_write   *)
(* of kernel/fs/tmpfs.c, with the retry loops of vfs_pread and vfs_pwrite   *)
(* and the sleep in poll.  A call runs with interrupts off up to the sleep  *)
(* in poll and from there to its next sleep: each stretch is one step.      *)
(* The byte written as number i of the stream is modelled as i.             *)
(***************************************************************************)
EXTENDS Integers, Sequences

CONSTANTS FifoStart,     \* STARTING_SIZE, also the unit of growth
          Lens,      \* the lengths of read and write calls
          MaxSent,   \* bound: bytes written
          MaxCap     \* bound: buffer_len

ASSUME PipeAssumption == /\ FifoStart \in Nat \ {0} /\ Lens \subseteq Nat \ {0}
                         /\ MaxSent \in Nat /\ MaxCap \in Nat

VARIABLES fifo_buf, fifo_cap,  \* the bytes in the fifo; buffer_len
          has_data, can_write, \* its flags
          fifo_open,           \* is_open of both inodes
          nonblock,            \* dual_pipe (sockets) sets O_NONBLOCK, pipe does not
          wr, rd,              \* [pc, n]: the calls of the writer and the reader
          sent, rcvd           \* bytes accepted by write, bytes returned by read

pipe_vars == <<fifo_buf, fifo_cap, has_data, can_write, fifo_open, nonblock, wr, rd, sent, rcvd>>

FifoIdle == [pc |-> "idle", n |-> 0]
Asleep(n) == [pc |-> "poll", n |-> n]
----------------------------------------------------------------------------
\* Mutant: the last byte of the buffer is used too.
FullBug(n) == Len(fifo_buf) + n > fifo_cap

\* fifo_object_write has no room: it grows the buffer and reports EAGAIN.
Full(n) == Len(fifo_buf) + n >= fifo_cap

\* has_data after a write, whether it fitted or not.
Raised == TRUE

fifo_object_write(n) ==
  /\ has_data' = Raised
  /\ IF Full(n)
     THEN /\ fifo_cap < MaxCap /\ fifo_cap' = fifo_cap + FifoStart
          /\ can_write' = FALSE
          /\ wr' = IF nonblock THEN FifoIdle ELSE Asleep(n)
          /\ UNCHANGED <<fifo_buf, sent>>
     ELSE /\ sent + n <= MaxSent /\ sent' = sent + n
          /\ fifo_buf' = fifo_buf \o [i \in 1..n |-> sent + i]
          /\ wr' = FifoIdle
          /\ UNCHANGED <<fifo_cap, can_write>>
  /\ UNCHANGED <<fifo_open, nonblock, rd, rcvd>>

\* The flags after a read that leaves the bytes b.
AfterRead(b) == [has |-> has_data /\ b # <<>>, can |-> TRUE]

fifo_object_read(n) ==
  /\ IF fifo_buf = <<>>
     THEN /\ has_data' = FALSE
          /\ rd' = IF nonblock THEN FifoIdle ELSE Asleep(n)
          /\ UNCHANGED <<fifo_buf, can_write, rcvd>>
     ELSE LET k == IF n > Len(fifo_buf) THEN Len(fifo_buf) ELSE n
          IN /\ fifo_buf' = SubSeq(fifo_buf, k + 1, Len(fifo_buf))
             /\ rcvd' = rcvd + k
             /\ has_data' = AfterRead(fifo_buf').has
             /\ can_write' = AfterRead(fifo_buf').can
             /\ rd' = FifoIdle
  /\ UNCHANGED <<fifo_cap, fifo_open, nonblock, wr, sent>>

\* tmp_write and tmp_read on a pipe whose other end is closed: EPIPE.
Broken == UNCHANGED <<fifo_buf, fifo_cap, has_data, can_write, fifo_open, nonblock, sent, rcvd>>

tmp_write(n) == IF fifo_open THEN fifo_object_write(n)
                        ELSE wr' = FifoIdle /\ UNCHANGED rd /\ Broken
tmp_read(n) == IF fifo_open THEN fifo_object_read(n)
                       ELSE rd' = FifoIdle /\ UNCHANGED wr /\ Broken

write(n) == wr.pc = "idle" /\ tmp_write(n)
read(n) == rd.pc = "idle" /\ tmp_read(n)

\* poll comes back with POLLOUT (POLLIN) and the call tries again.
write_retry == wr.pc = "poll" /\ can_write /\ tmp_write(wr.n)
read_retry == rd.pc = "poll" /\ has_data /\ tmp_read(rd.n)

\* poll comes back with EINTR.
write_intr == wr.pc = "poll" /\ wr' = FifoIdle /\ UNCHANGED rd /\ Broken
read_intr == rd.pc = "poll" /\ rd' = FifoIdle /\ UNCHANGED wr /\ Broken

\* The last descriptor of one end is closed: tmp_close.  A task asleep in the
\* call may be the one that is killed.
tmp_close == /\ fifo_open /\ fifo_open' = FALSE
             /\ \/ wr' = [pc |-> "gone", n |-> 0] /\ UNCHANGED rd
                \/ rd' = [pc |-> "gone", n |-> 0] /\ UNCHANGED wr
             /\ UNCHANGED <<fifo_buf, fifo_cap, has_data, can_write, nonblock, sent, rcvd>>

\* create_fifo_object leaves has_data and can_write uninitialised.
PipeInit == /\ fifo_buf = <<>> /\ fifo_cap = FifoStart
            /\ has_data \in BOOLEAN /\ can_write \in BOOLEAN
            /\ fifo_open = TRUE /\ nonblock \in BOOLEAN
            /\ wr = FifoIdle /\ rd = FifoIdle /\ sent = 0 /\ rcvd = 0

PipeNext == \/ \E n \in Lens : write(n) \/ read(n)
            \/ write_retry \/ read_retry \/ write_intr \/ read_intr \/ tmp_close

\* next_task runs a task whose descriptor has become ready.
PipeSpec == PipeInit /\ [][PipeNext]_pipe_vars /\ WF_pipe_vars(write_retry) /\ WF_pipe_vars(read_retry)
----------------------------------------------------------------------------
PipeTypeOK ==
  /\ fifo_buf \in Seq(Nat) /\ fifo_cap \in Nat
  /\ has_data \in BOOLEAN /\ can_write \in BOOLEAN
  /\ fifo_open \in BOOLEAN /\ nonblock \in BOOLEAN
  /\ wr \in [pc : {"idle", "poll", "gone"}, n : Nat]
  /\ rd \in [pc : {"idle", "poll", "gone"}, n : Nat]
  /\ sent \in Nat /\ rcvd \in Nat

\* Bytes come out once each and in the order they went in, whatever the
\* lengths of the calls; what is in the fifo always fits the buffer; and poll
\* is told of data whenever there is some, although a write that fails raises
\* has_data and a read that fails clears it; a writer that sleeps with nobody
\* having read since found no room.
InOrder ==
  /\ PipeTypeOK
  /\ sent = rcvd + Len(fifo_buf)
  /\ \A i \in 1..Len(fifo_buf) : fifo_buf[i] = rcvd + i
  /\ Len(fifo_buf) < fifo_cap
  /\ fifo_buf # <<>> => has_data
  /\ wr.pc = "poll" /\ ~can_write => Len(fifo_buf) + wr.n >= fifo_cap - FifoStart

Stuck == /\ wr.pc = "poll" /\ ~can_write
         /\ rd.pc = "poll" /\ ~has_data

\* A writer and a reader of an open pipe sleep at the same time with nothing
\* to wake either only if the write does not fit the buffer that it found
\* empty.  A write shorter than STARTING_SIZE never gets stuck.
StuckOnlyIfTooLong == Stuck => wr.n >= fifo_cap - FifoStart

\* Bytes leave a pipe once and in order, and its two ends never sleep at the same time
\* over a write that could have fitted (tmp_write, tmp_read, poll, has_data, can_write).
PipeSound == InOrder /\ StuckOnlyIfTooLong
=============================================================================
