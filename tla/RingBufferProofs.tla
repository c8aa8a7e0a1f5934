-------------------------- MODULE RingBufferProofs --------------------------
(***************************************************************************)
(* The ring of kernel/lib/ringbuffer.c is a bounded FIFO for every size,    *)
(* every byte alphabet and every interleaving of a writer and a reader.     *)
(***************************************************************************)
EXTENDS RingBuffer, TLAPS

\* The C expression (ptr + len) % buffer_size never wraps more than once.
LEMMA WrapOnce ==
  ASSUME NEW N \in Nat \ {0}, NEW x \in 0..N
  PROVE  x % N = IF x = N THEN 0 ELSE x
  OBVIOUS

LEMMA NonEmpty ==
  ASSUME NEW S, NEW s \in Seq(S), s # <<>>
  PROVE  Len(s) \in Nat /\ Len(s) > 0
  OBVIOUS

LEMMA SeqOfFunction ==
  ASSUME NEW S, NEW n \in Nat, NEW f \in [1..n -> S]
  PROVE  f \in Seq(S) /\ Len(f) = n
  OBVIOUS

LEMMA Rest ==
  ASSUME NEW S, NEW s \in Seq(S), NEW n \in 0..Len(s)
  PROVE  /\ SubSeq(s, n + 1, Len(s)) \in Seq(S)
         /\ Len(SubSeq(s, n + 1, Len(s))) = Len(s) - n
         /\ \A k \in 1..(Len(s) - n) : SubSeq(s, n + 1, Len(s))[k] = s[n + k]
  OBVIOUS

\* The type invariant, one atom per fact.
LEMMA Types ==
  ASSUME RbTypeOK
  PROVE  /\ BufferSize \in Nat /\ BufferSize > 0
         /\ buffer_size \in Nat /\ read_ptr \in Nat /\ write_ptr \in Nat
         /\ buffer_size = 0 => read_ptr = 0 /\ write_ptr = 0
         /\ buffer_size # 0 => /\ buffer_size = BufferSize
                               /\ read_ptr < BufferSize /\ write_ptr < BufferSize
         /\ wr.pc \in {"idle", "loop", "copied"} /\ wr.rest \in Seq(Byte) /\ wr.n \in Nat
         /\ rd.pc \in {"idle", "loop", "copied"} /\ rd.left \in Nat
         /\ rd.chunk \in Seq(Byte) /\ rd.got \in Seq(Byte)
         /\ Len(wr.rest) \in Nat /\ Len(rd.chunk) \in Nat
         /\ \A i \in Slots : buffer[i] \in Byte
  BY RingAssumption DEF RbTypeOK

LEMMA InitInv == RbInit => RingInv
  BY RingAssumption DEF RbInit, RingInv, RbTypeOK, WriterInv, ReaderInv, Slots, NoWrite, NoRead

LEMMA WriteCopyInv == RingInv /\ WriteCopy => RingInv'
<1> SUFFICES ASSUME RbTypeOK, WriterInv, ReaderInv, WriteCopy PROVE RingInv'
  BY DEF RingInv
<1>t. /\ BufferSize \in Nat /\ BufferSize > 0
      /\ buffer_size \in Nat /\ read_ptr \in Nat /\ write_ptr \in Nat
      /\ buffer_size = 0 => read_ptr = 0 /\ write_ptr = 0
      /\ buffer_size # 0 => /\ buffer_size = BufferSize
                            /\ read_ptr < BufferSize /\ write_ptr < BufferSize
      /\ Len(wr.rest) \in Nat /\ wr.n \in Nat
      /\ Len(rd.chunk) \in Nat /\ rd.left \in Nat
  BY Types
<1> DEFINE n == Smaller(Smaller(Len(wr.rest), Room), buffer_size - write_ptr)
<1>0. Len(wr.rest) > 0
  BY Types, NonEmpty DEF WriteCopy
<1>1. /\ buffer_size = BufferSize
      /\ n \in 1..Len(wr.rest) /\ n <= Room /\ write_ptr + n <= BufferSize
  <2>1. Room > 0 /\ Room \in Nat
    BY <1>t DEF WriteCopy, Room
  <2>2. buffer_size = BufferSize
    BY <2>1, <1>t DEF Room
  <2>3. buffer_size - write_ptr \in Nat /\ buffer_size - write_ptr > 0
    BY <2>2, <1>t
  <2> HIDE DEF Room
  <2> QED BY <1>0, <2>1, <2>2, <2>3, <1>t DEF Smaller
<1>2. wr' = [wr EXCEPT !.pc = "copied", !.n = n] /\ rd' = rd
  BY DEF WriteCopy
<1>3. buffer' = [i \in Slots |-> IF i >= write_ptr /\ i < write_ptr + n
                                 THEN wr.rest[i - write_ptr + 1] ELSE buffer[i]]
  BY DEF WriteCopy
<1>4. UNCHANGED <<buffer_size, read_ptr, write_ptr>>
  BY DEF WriteCopy
<1> HIDE DEF n
<1>5. /\ wr' \in [pc : {"idle", "loop", "copied"}, rest : Seq(Byte), n : Nat]
      /\ wr'.pc = "copied" /\ wr'.n = n /\ wr'.rest = wr.rest
  <2>1. wr \in [pc : {"idle", "loop", "copied"}, rest : Seq(Byte), n : Nat]
    BY DEF RbTypeOK
  <2>2. n \in Nat
    BY <1>1, <1>t
  <2> QED BY <1>2, <2>1, <2>2
<1>6. \A k \in 1..Len(wr.rest) : wr.rest[k] \in Byte
  BY Types
<1>7. buffer' \in [Slots -> Byte]
  <2>1. ASSUME NEW i \in Slots, i >= write_ptr, i < write_ptr + n
        PROVE  wr.rest[i - write_ptr + 1] \in Byte
    BY <1>1, <1>6, <2>1, <1>t DEF Slots
  <2> QED BY <1>3, <2>1, Types
<1>8. RbTypeOK'
  BY <1>2, <1>4, <1>5, <1>7 DEF RbTypeOK
<1>9. WriterInv'
  <2>1. ASSUME NEW k \in 1..n PROVE buffer'[write_ptr + k - 1] = wr.rest[k]
    <3>1. write_ptr + k - 1 \in Slots /\ (write_ptr + k - 1) - write_ptr + 1 = k
      BY <1>1, <1>t DEF Slots
    <3>2. write_ptr + k - 1 >= write_ptr /\ write_ptr + k - 1 < write_ptr + n
      BY <1>1, <1>t
    <3> QED BY <1>3, <3>1, <3>2
  <2> QED BY <1>1, <1>4, <1>5, <2>1 DEF WriterInv, Room
<1>10. ReaderInv'
  <2> SUFFICES ASSUME rd.pc = "copied" PROVE ReaderInv'
    BY <1>2 DEF ReaderInv
  <2>1. ASSUME NEW k \in 1..Len(rd.chunk)
        PROVE  buffer'[read_ptr + k - 1] = buffer[read_ptr + k - 1]
    <3>1. /\ read_ptr + k - 1 \in Slots
          /\ ~(read_ptr + k - 1 >= write_ptr /\ read_ptr + k - 1 < write_ptr + n)
      BY <1>1, <1>t DEF ReaderInv, Contiguous, Room, Slots
    <3> QED BY <1>3, <3>1
  <2> QED BY <1>2, <1>4, <2>1 DEF ReaderInv, Contiguous
<1> QED BY <1>8, <1>9, <1>10 DEF RingInv

LEMMA WritePublishInv == RingInv /\ WritePublish => RingInv'
<1> SUFFICES ASSUME RbTypeOK, WriterInv, ReaderInv, WritePublish PROVE RingInv'
  BY DEF RingInv
<1>t. /\ BufferSize \in Nat /\ BufferSize > 0
      /\ buffer_size \in Nat /\ read_ptr \in Nat /\ write_ptr \in Nat
      /\ buffer_size = 0 => read_ptr = 0 /\ write_ptr = 0
      /\ buffer_size # 0 => /\ buffer_size = BufferSize
                            /\ read_ptr < BufferSize /\ write_ptr < BufferSize
      /\ Len(wr.rest) \in Nat /\ wr.n \in Nat
      /\ Len(rd.chunk) \in Nat /\ rd.left \in Nat
  BY Types
<1>1. /\ buffer_size = BufferSize /\ wr.n \in 1..Len(wr.rest) /\ wr.n <= Room
      /\ write_ptr + wr.n <= BufferSize
  BY DEF WritePublish, WriterInv
<1>2. write_ptr' = IF write_ptr + wr.n = BufferSize THEN 0 ELSE write_ptr + wr.n
  <2>1. write_ptr + wr.n \in 0..BufferSize /\ BufferSize \in Nat \ {0}
    BY <1>1, <1>t
  <2>2. write_ptr' = (write_ptr + wr.n) % BufferSize
    BY <1>1 DEF WritePublish
  <2> QED BY <2>1, <2>2, WrapOnce
<1>3. UNCHANGED <<buffer, buffer_size, read_ptr, rd>>
  BY DEF WritePublish
<1>4. SubSeq(wr.rest, wr.n + 1, Len(wr.rest)) \in Seq(Byte)
  BY <1>1, Rest, Types
<1>5. wr' = [pc |-> "loop", rest |-> SubSeq(wr.rest, wr.n + 1, Len(wr.rest)), n |-> 0]
  BY DEF WritePublish
<1>6. /\ wr' \in [pc : {"idle", "loop", "copied"}, rest : Seq(Byte), n : Nat]
      /\ wr'.pc = "loop"
  BY <1>4, <1>5
<1>7. write_ptr' \in Nat /\ write_ptr' < BufferSize
  BY <1>1, <1>2, <1>t
<1>8. RbTypeOK'
  BY <1>1, <1>3, <1>6, <1>7 DEF RbTypeOK
<1>9. WriterInv'
  BY <1>6 DEF WriterInv
<1>10. ReaderInv'
  <2>1. CASE rd.pc = "copied"
    <3>0. Len(rd.chunk) <= Contiguous /\ read_ptr # write_ptr
      BY <2>1 DEF ReaderInv
    <3>1. Len(rd.chunk) <= Contiguous' /\ read_ptr # write_ptr'
      <4>1. CASE read_ptr < write_ptr
        <5>1. Len(rd.chunk) <= write_ptr - read_ptr
          BY <3>0, <4>1, <1>t DEF Contiguous
        <5>2. read_ptr = 0 => write_ptr + wr.n < BufferSize
          BY <1>1, <4>1, <1>t DEF Room
        <5>3. CASE write_ptr + wr.n = BufferSize
          BY <1>1, <1>2, <1>3, <4>1, <5>1, <5>2, <5>3, <1>t DEF Contiguous
        <5>4. CASE write_ptr + wr.n # BufferSize
          BY <1>1, <1>2, <1>3, <4>1, <5>1, <5>4, <1>t DEF Contiguous
        <5> QED BY <5>3, <5>4
      <4>2. CASE read_ptr > write_ptr
        BY <1>1, <1>2, <1>3, <3>0, <4>2, <1>t DEF Contiguous, Room
      <4> QED BY <3>0, <4>1, <4>2, <1>t
    <3> QED BY <1>3, <2>1, <3>1 DEF ReaderInv
  <2> QED BY <1>3, <2>1 DEF ReaderInv
<1> QED BY <1>8, <1>9, <1>10 DEF RingInv

LEMMA ReadCopyInv == RingInv /\ ReadCopy => RingInv'
<1> SUFFICES ASSUME RbTypeOK, WriterInv, ReaderInv, ReadCopy PROVE RingInv'
  BY DEF RingInv
<1>t. /\ BufferSize \in Nat /\ BufferSize > 0
      /\ buffer_size \in Nat /\ read_ptr \in Nat /\ write_ptr \in Nat
      /\ buffer_size = 0 => read_ptr = 0 /\ write_ptr = 0
      /\ buffer_size # 0 => /\ buffer_size = BufferSize
                            /\ read_ptr < BufferSize /\ write_ptr < BufferSize
      /\ Len(wr.rest) \in Nat /\ wr.n \in Nat
      /\ Len(rd.chunk) \in Nat /\ rd.left \in Nat
  BY Types
<1> DEFINE n == Smaller(rd.left, Contiguous)
           c == [k \in 1..n |-> buffer[read_ptr + k - 1]]
<1>1. /\ n \in Nat /\ n \in 1..rd.left /\ n <= Contiguous /\ read_ptr + n <= BufferSize
      /\ read_ptr # write_ptr
  BY <1>t DEF ReadCopy, Contiguous, Smaller
<1>2. rd' = [rd EXCEPT !.pc = "copied", !.chunk = c]
  BY DEF ReadCopy
<1>3. UNCHANGED <<buffer, buffer_size, read_ptr, write_ptr, wr>>
  BY DEF ReadCopy
<1> HIDE DEF n
<1>4. c \in Seq(Byte) /\ Len(c) = n
  <2>1. ASSUME NEW k \in 1..n PROVE buffer[read_ptr + k - 1] \in Byte
    BY <1>1, Types DEF Slots
  <2>2. c \in [1..n -> Byte]
    BY <2>1
  <2> HIDE DEF c
  <2> QED BY <1>1, <2>2, SeqOfFunction
<1>5. \A k \in 1..n : c[k] = buffer[read_ptr + k - 1]
  OBVIOUS
<1> HIDE DEF c
<1>6. /\ rd' \in [pc : {"idle", "loop", "copied"}, left : Nat, chunk : Seq(Byte), got : Seq(Byte)]
      /\ rd'.pc = "copied" /\ rd'.left = rd.left /\ rd'.chunk = c
  BY <1>2, <1>4 DEF RbTypeOK
<1>7. RbTypeOK'
  BY <1>3, <1>6 DEF RbTypeOK
<1>8. WriterInv'
  BY <1>3 DEF WriterInv, Room
<1>9. ReaderInv'
  BY <1>1, <1>3, <1>4, <1>5, <1>6 DEF ReaderInv, Contiguous
<1> QED BY <1>7, <1>8, <1>9 DEF RingInv

LEMMA ReadPublishInv == RingInv /\ ReadPublish => RingInv'
<1> SUFFICES ASSUME RbTypeOK, WriterInv, ReaderInv, ReadPublish PROVE RingInv'
  BY DEF RingInv
<1>t. /\ BufferSize \in Nat /\ BufferSize > 0
      /\ buffer_size \in Nat /\ read_ptr \in Nat /\ write_ptr \in Nat
      /\ buffer_size = 0 => read_ptr = 0 /\ write_ptr = 0
      /\ buffer_size # 0 => /\ buffer_size = BufferSize
                            /\ read_ptr < BufferSize /\ write_ptr < BufferSize
      /\ Len(wr.rest) \in Nat /\ wr.n \in Nat
      /\ Len(rd.chunk) \in Nat /\ rd.left \in Nat
  BY Types
<1> DEFINE n == Len(rd.chunk)
<1>1. n \in 1..rd.left /\ n <= Contiguous /\ read_ptr # write_ptr
  BY DEF ReadPublish, ReaderInv
<1>2. buffer_size = BufferSize /\ read_ptr + n \in 0..BufferSize
  BY <1>1, <1>t DEF Contiguous
<1>3. read_ptr' = IF read_ptr + n = BufferSize THEN 0 ELSE read_ptr + n
  <2>1. BufferSize \in Nat \ {0}
    BY <1>t
  <2>2. read_ptr' = (read_ptr + n) % BufferSize
    BY <1>2 DEF ReadPublish
  <2> QED BY <1>2, <2>1, <2>2, WrapOnce
<1>4. UNCHANGED <<buffer, buffer_size, write_ptr, wr>>
  BY DEF ReadPublish
<1>5. /\ rd' \in [pc : {"idle", "loop", "copied"}, left : Nat, chunk : Seq(Byte), got : Seq(Byte)]
      /\ rd'.pc = "loop"
  <2>1. rd.got \o rd.chunk \in Seq(Byte)
    BY Types
  <2>2. rd.left - n \in Nat
    BY <1>1, <1>t
  <2> QED BY <2>1, <2>2 DEF ReadPublish
<1>6. read_ptr' \in Nat /\ read_ptr' < BufferSize
  BY <1>2, <1>3, <1>t
<1>7. RbTypeOK'
  BY <1>2, <1>4, <1>5, <1>6 DEF RbTypeOK
<1>8. WriterInv'
  <2>1. CASE wr.pc = "copied"
    <3>1. wr.n <= Room'
      <4> HIDE DEF n
      <4> QED BY <1>1, <1>2, <1>3, <1>4, <2>1, <1>t DEF WriterInv, Room, Contiguous
    <3> QED BY <1>4, <2>1, <3>1 DEF WriterInv
  <2> QED BY <1>4, <2>1 DEF WriterInv
<1>9. ReaderInv'
  BY <1>5 DEF ReaderInv
<1> QED BY <1>7, <1>8, <1>9 DEF RingInv

\* One step per action.
LEMMA StepInv == RingInv /\ [RbNext]_rb_vars => RingInv'
<1> SUFFICES ASSUME RingInv, [RbNext]_rb_vars PROVE RingInv'
  OBVIOUS
<1> USE RingAssumption DEF RbTypeOK, NoWrite, NoRead, Slots
<1>1. CASE ringbuffer_init
  BY <1>1 DEF ringbuffer_init, RingInv, WriterInv, ReaderInv
<1>2. CASE ringbuffer_free
  BY <1>2 DEF ringbuffer_free, RingInv, WriterInv, ReaderInv
<1>3. ASSUME NEW s \in Args, WriteCall(s) PROVE RingInv'
  <2>1. s \in Seq(Byte)
    BY DEF Args
  <2> QED BY <1>3, <2>1 DEF WriteCall, RingInv, WriterInv, ReaderInv, Contiguous
<1>4. CASE WriteCopy
  BY <1>4, WriteCopyInv
<1>5. CASE WritePublish
  BY <1>5, WritePublishInv
<1>6. CASE WriteReturn
  BY <1>6 DEF WriteReturn, RingInv, WriterInv, ReaderInv, Contiguous
<1>7. ASSUME NEW len \in 0..MaxLen, ReadCall(len) PROVE RingInv'
  BY <1>7 DEF ReadCall, RingInv, WriterInv, ReaderInv, Room
<1>8. CASE ReadCopy
  BY <1>8, ReadCopyInv
<1>9. CASE ReadPublish
  BY <1>9, ReadPublishInv
<1>10. CASE ReadReturn
  BY <1>10 DEF ReadReturn, RingInv, WriterInv, ReaderInv, Room
<1>11. CASE UNCHANGED rb_vars
  BY <1>11 DEF rb_vars, RingInv, WriterInv, ReaderInv, Room, Contiguous
<1> QED
  BY <1>1, <1>2, <1>3, <1>4, <1>5, <1>6, <1>7, <1>8, <1>9, <1>10, <1>11 DEF RbNext

\* The ring of ringbuffer.c never exceeds its capacity and a preempted
\* call's copied chunk stays valid until it is published.
THEOREM RingCorrect == RbSpec => []RingInv
  BY InitInv, StepInv, PTL DEF RbSpec

-----------------------------------------------------------------------------
LEMMA SeqEq ==
  ASSUME NEW S, NEW s \in Seq(S), NEW t \in Seq(S), Len(s) = Len(t),
         \A k \in 1..Len(s) : s[k] = t[k]
  PROVE  s = t
  OBVIOUS

LEMMA Concat ==
  ASSUME NEW S, NEW s \in Seq(S), NEW t \in Seq(S)
  PROVE  /\ s \o t \in Seq(S) /\ Len(s \o t) = Len(s) + Len(t)
         /\ \A k \in 1..(Len(s) + Len(t)) :
              (s \o t)[k] = IF k <= Len(s) THEN s[k] ELSE t[k - Len(s)]
  OBVIOUS

LEMMA Front ==
  ASSUME NEW S, NEW s \in Seq(S), NEW n \in 0..Len(s)
  PROVE  /\ SubSeq(s, 1, n) \in Seq(S) /\ Len(SubSeq(s, 1, n)) = n
         /\ \A k \in 1..n : SubSeq(s, 1, n)[k] = s[k]
  OBVIOUS

\* The unread bytes: at most ringbuffer_capacity of them, all inside the ring.
LEMMA UnreadSeq ==
  ASSUME RbTypeOK
  PROVE  /\ ringbuffer_used \in Nat
         /\ buffer_size = 0 => ringbuffer_used = 0
         /\ buffer_size # 0 => ringbuffer_used <= BufferSize - 1
         /\ Unread \in Seq(Byte) /\ Len(Unread) = ringbuffer_used
         /\ \A k \in 1..ringbuffer_used : /\ At(k - 1) \in Slots
                                          /\ Unread[k] = buffer[At(k - 1)]
<1>t. /\ BufferSize \in Nat /\ BufferSize > 0
      /\ buffer_size \in Nat /\ read_ptr \in Nat /\ write_ptr \in Nat
      /\ buffer_size = 0 => read_ptr = 0 /\ write_ptr = 0
      /\ buffer_size # 0 => /\ buffer_size = BufferSize
                            /\ read_ptr < BufferSize /\ write_ptr < BufferSize
      /\ \A i \in Slots : buffer[i] \in Byte
  BY Types
<1>1. /\ ringbuffer_used \in Nat
      /\ buffer_size = 0 => ringbuffer_used = 0
      /\ buffer_size # 0 => ringbuffer_used <= BufferSize - 1
  BY <1>t DEF ringbuffer_used
<1>2. \A k \in 1..ringbuffer_used : At(k - 1) \in Slots
  BY <1>t, <1>1 DEF At, Slots
<1>3. Unread \in [1..ringbuffer_used -> Byte]
  BY <1>t, <1>2 DEF Unread
<1>4. \A k \in 1..ringbuffer_used : Unread[k] = buffer[At(k - 1)]
  BY DEF Unread
<1> QED BY <1>1, <1>2, <1>3, <1>4, SeqOfFunction

\* Copying without publishing is invisible.
LEMMA CopyStutters ==
  ASSUME RingInv, WriteCopy \/ ReadCopy
  PROVE  Unread' = Unread
<1>1. CASE ReadCopy
  BY <1>1 DEF ReadCopy, Unread, ringbuffer_used, At
<1>2. CASE WriteCopy
  <2>t. /\ BufferSize \in Nat /\ BufferSize > 0
        /\ buffer_size \in Nat /\ read_ptr \in Nat /\ write_ptr \in Nat
        /\ buffer_size # 0 => /\ buffer_size = BufferSize
                              /\ read_ptr < BufferSize /\ write_ptr < BufferSize
        /\ wr.pc = "loop" /\ Len(wr.rest) \in Nat
        /\ wr' = [wr EXCEPT !.pc = "copied", !.n = wr'.n]
    BY <1>2, Types DEF RingInv, WriteCopy
  <2> DEFINE n == Smaller(Smaller(Len(wr.rest), Room), buffer_size - write_ptr)
  <2>1. buffer' = [i \in Slots |-> IF i >= write_ptr /\ i < write_ptr + n
                                   THEN wr.rest[i - write_ptr + 1] ELSE buffer[i]]
    BY <1>2 DEF WriteCopy
  <2>2. Room > 0 /\ Room \in Nat
    BY <1>2, <2>t, Types DEF WriteCopy, Room, RingInv
  <2>3. buffer_size = BufferSize /\ n \in Nat /\ n <= Room /\ write_ptr + n <= BufferSize
    <3>1. buffer_size = BufferSize
      BY <2>2, Types DEF Room, RingInv
    <3>2. buffer_size - write_ptr \in Nat
      BY <2>t, <3>1
    <3> HIDE DEF Room
    <3> QED BY <2>t, <2>2, <3>1, <3>2 DEF Smaller
  <2>4. UNCHANGED <<buffer_size, read_ptr, write_ptr>>
    BY <1>2 DEF WriteCopy
  <2> HIDE DEF n
  <2>5. ASSUME NEW k \in 1..ringbuffer_used
        PROVE  buffer'[At(k - 1)] = buffer[At(k - 1)]
    <3>1. At(k - 1) \in Slots
      BY UnreadSeq DEF RingInv
    <3>2. ~(At(k - 1) >= write_ptr /\ At(k - 1) < write_ptr + n)
      BY <2>t, <2>3 DEF At, Room, ringbuffer_used
    <3> QED BY <2>1, <3>1, <3>2
  <2>6. ringbuffer_used' = ringbuffer_used /\ \A k : At(k)' = At(k)
    BY <2>4 DEF ringbuffer_used, At
  <2> QED BY <2>5, <2>6 DEF Unread
<1> QED BY <1>1, <1>2

\* Publishing the write pointer appends the copied bytes.
LEMMA PublishPuts ==
  ASSUME RingInv, RingInv', WritePublish
  PROVE  /\ wr.n \in 1..Len(wr.rest)
         /\ ringbuffer_used + wr.n <= BufferSize - 1
         /\ Unread' = Unread \o SubSeq(wr.rest, 1, wr.n)
<1>t. /\ BufferSize \in Nat /\ BufferSize > 0
      /\ buffer_size = BufferSize /\ read_ptr \in Nat /\ write_ptr \in Nat
      /\ read_ptr < BufferSize /\ write_ptr < BufferSize
      /\ wr.rest \in Seq(Byte) /\ Len(wr.rest) \in Nat /\ wr.n \in 1..Len(wr.rest)
      /\ wr.n <= Room /\ write_ptr + wr.n <= BufferSize
      /\ \A k \in 1..wr.n : buffer[write_ptr + k - 1] = wr.rest[k]
  BY Types DEF RingInv, WriterInv, WritePublish
<1>n. wr.n \in Nat /\ wr.n > 0 /\ wr.n <= Len(wr.rest)
  BY <1>t
<1>m. write_ptr' = (write_ptr + wr.n) % BufferSize /\ UNCHANGED <<buffer, buffer_size, read_ptr>>
  BY <1>t DEF WritePublish
<1>w. write_ptr + wr.n \in 0..BufferSize /\ BufferSize \in Nat \ {0}
  BY <1>t, <1>n
<1>p. /\ write_ptr' = IF write_ptr + wr.n = BufferSize THEN 0 ELSE write_ptr + wr.n
      /\ UNCHANGED <<buffer, buffer_size, read_ptr>>
  BY <1>m, <1>w, WrapOnce
<1> DEFINE u == ringbuffer_used
           s == SubSeq(wr.rest, 1, wr.n)
<1>1. u \in Nat /\ u + wr.n <= BufferSize - 1 /\ ringbuffer_used' = u + wr.n
  <2>1. CASE write_ptr >= read_ptr
    BY <1>t, <1>n, <1>p, <2>1 DEF ringbuffer_used, Room
  <2>2. CASE write_ptr < read_ptr
    BY <1>t, <1>n, <1>p, <2>2 DEF ringbuffer_used, Room
  <2> QED BY <1>t, <2>1, <2>2
<1>2. s \in Seq(Byte) /\ Len(s) = wr.n /\ \A k \in 1..wr.n : s[k] = wr.rest[k]
  BY <1>t, Front
<1>3. /\ Unread \in Seq(Byte) /\ Len(Unread) = u
      /\ \A k \in 1..u : Unread[k] = buffer[At(k - 1)]
  BY UnreadSeq DEF RingInv
<1>a. \A k \in 1..(u + wr.n) : At(k - 1) \in Slots
  BY <1>t, <1>1 DEF At, Slots
<1>b. \A i \in Slots : buffer[i] \in Byte
  BY Types DEF RingInv
<1>c. \A k : At(k)' = At(k)
  BY <1>p DEF At
<1>d. Unread' = [k \in 1..(u + wr.n) |-> buffer[At(k - 1)]]
  BY <1>1, <1>p, <1>c DEF Unread
<1>4. Unread' \in Seq(Byte) /\ Len(Unread') = u + wr.n
  <2>1. Unread' \in [1..(u + wr.n) -> Byte]
    BY <1>a, <1>b, <1>d
  <2>2. u + wr.n \in Nat
    BY <1>t, <1>1
  <2> QED BY <2>1, <2>2, SeqOfFunction
<1>5. \A k \in 1..(u + wr.n) : Unread'[k] = buffer[At(k - 1)]
  BY <1>d
<1>6. \A k \in (u + 1)..(u + wr.n) : At(k - 1) = write_ptr + (k - u) - 1
  BY <1>t, <1>1 DEF At, ringbuffer_used, Room
<1>7. /\ Unread \o s \in Seq(Byte) /\ Len(Unread \o s) = u + wr.n
      /\ \A k \in 1..(u + wr.n) :
           (Unread \o s)[k] = IF k <= u THEN Unread[k] ELSE s[k - u]
  BY <1>2, <1>3, Concat
<1> HIDE DEF u, s
<1>8. ASSUME NEW k \in 1..(u + wr.n) PROVE Unread'[k] = (Unread \o s)[k]
  <2>1. CASE k <= u
    <3>1. k \in 1..u
      BY <1>1, <1>n, <2>1
    <3> QED BY <1>3, <1>5, <1>7, <2>1, <3>1
  <2>2. CASE k > u
    <3>1. k - u \in 1..wr.n /\ k \in (u + 1)..(u + wr.n)
      BY <1>t, <1>1, <2>2
    <3>2. Unread'[k] = wr.rest[k - u]
      BY <1>t, <1>5, <1>6, <3>1
    <3>3. (Unread \o s)[k] = s[k - u]
      BY <1>1, <1>n, <1>7, <2>2
    <3> QED BY <1>2, <3>1, <3>2, <3>3
  <2>3. k \in Nat /\ u \in Nat
    BY <1>1, <1>n
  <2>4. k <= u \/ k > u
    BY <2>3
  <2> QED BY <2>1, <2>2, <2>4
<1>9. Unread' = Unread \o s
  BY <1>4, <1>7, <1>8, SeqEq
<1> QED BY <1>t, <1>1, <1>9 DEF s, u

\* Publishing the read pointer removes exactly the bytes copied out.
LEMMA PublishGets ==
  ASSUME RingInv, RingInv', ReadPublish
  PROVE  /\ Len(rd.chunk) \in 1..rd.left
         /\ Len(rd.chunk) <= ringbuffer_used
         /\ rd.chunk = SubSeq(Unread, 1, Len(rd.chunk))
         /\ Unread' = SubSeq(Unread, Len(rd.chunk) + 1, Len(Unread))
<1> DEFINE u == ringbuffer_used
           n == Len(rd.chunk)
<1>t. /\ BufferSize \in Nat /\ BufferSize > 0
      /\ buffer_size = BufferSize /\ read_ptr \in Nat /\ write_ptr \in Nat
      /\ read_ptr < BufferSize /\ write_ptr < BufferSize /\ read_ptr # write_ptr
      /\ rd.chunk \in Seq(Byte) /\ n \in Nat /\ rd.left \in Nat /\ n \in 1..rd.left
      /\ n <= Contiguous
      /\ \A k \in 1..n : rd.chunk[k] = buffer[read_ptr + k - 1]
  BY Types DEF RingInv, ReaderInv, ReadPublish
<1> HIDE DEF n
<1>p. /\ read_ptr' = (read_ptr + n) % BufferSize
      /\ UNCHANGED <<buffer, buffer_size, write_ptr>>
  BY <1>t DEF ReadPublish, n
<1>c. read_ptr + n \in 0..BufferSize /\ BufferSize \in Nat \ {0}
  BY <1>t DEF Contiguous
<1>q. read_ptr' = IF read_ptr + n = BufferSize THEN 0 ELSE read_ptr + n
  BY <1>p, <1>c, WrapOnce
<1>1. u \in Nat /\ n <= u /\ ringbuffer_used' = u - n
  BY <1>t, <1>p, <1>q DEF ringbuffer_used, Contiguous
<1>2. /\ Unread \in Seq(Byte) /\ Len(Unread) = u
      /\ \A k \in 1..u : Unread[k] = buffer[At(k - 1)]
  BY UnreadSeq DEF RingInv
<1>3. /\ Unread' \in Seq(Byte) /\ Len(Unread') = u - n
      /\ \A k \in 1..(u - n) : Unread'[k] = buffer[At(k - 1)']
  <2>1. Unread' = [k \in 1..(u - n) |-> buffer[At(k - 1)']]
    BY <1>1, <1>p DEF Unread
  <2>2. \A k \in 1..(u - n) : At(k - 1)' \in Slots
    BY <1>t, <1>1, <1>p, <1>q DEF At, Slots, ringbuffer_used
  <2>3. \A i \in Slots : buffer[i] \in Byte
    BY Types DEF RingInv
  <2>4. Unread' \in [1..(u - n) -> Byte]
    BY <2>1, <2>2, <2>3
  <2>5. u - n \in Nat
    BY <1>t, <1>1
  <2> QED BY <2>1, <2>4, <2>5, SeqOfFunction
<1>4. \A k \in 1..n : At(k - 1) = read_ptr + k - 1
  BY <1>t DEF At, Contiguous
<1>5. \A k \in 1..(u - n) : At(k - 1)' = At(n + k - 1)
  BY <1>t, <1>1, <1>p, <1>q DEF At, ringbuffer_used, Contiguous
<1> HIDE DEF u
<1>6. rd.chunk = SubSeq(Unread, 1, n)
  <2>1. n \in 0..Len(Unread)
    BY <1>t, <1>1, <1>2
  <2>2. /\ SubSeq(Unread, 1, n) \in Seq(Byte) /\ Len(SubSeq(Unread, 1, n)) = n
        /\ \A k \in 1..n : SubSeq(Unread, 1, n)[k] = Unread[k]
    BY <1>2, <2>1, Front
  <2>3. \A k \in 1..n : rd.chunk[k] = Unread[k]
    <3> TAKE k \in 1..n
    <3>1. k \in 1..u
      BY <1>t, <1>1
    <3> QED BY <1>t, <1>2, <1>4, <3>1
  <2> QED BY <1>t, <2>2, <2>3, SeqEq DEF n
<1>7. Unread' = SubSeq(Unread, n + 1, Len(Unread))
  <2>1. n \in 0..Len(Unread)
    BY <1>t, <1>1, <1>2
  <2> DEFINE r == SubSeq(Unread, n + 1, Len(Unread))
  <2>2. /\ r \in Seq(Byte) /\ Len(r) = u - n
        /\ \A k \in 1..(u - n) : r[k] = Unread[n + k]
    BY <1>2, <2>1, Rest
  <2>3. \A k \in 1..(u - n) : Unread'[k] = Unread[n + k]
    <3> TAKE k \in 1..(u - n)
    <3>1. n + k \in 1..u /\ n + k - 1 = (n + k) - 1
      BY <1>t, <1>1
    <3>2. Unread[n + k] = buffer[At(n + k - 1)]
      BY <1>2, <3>1
    <3> QED BY <1>3, <1>5, <3>2
  <2> HIDE DEF r
  <2>4. Unread' = r
    BY <1>1, <1>3, <2>2, <2>3, SeqEq
  <2> QED BY <2>4 DEF r
<1> QED BY <1>t, <1>1, <1>6, <1>7 DEF n, u

-----------------------------------------------------------------------------
LEMMA InitRefines == RbInit => FIFO!Init
<1> SUFFICES ASSUME RbInit PROVE FIFO!Init
  OBVIOUS
<1>1. ringbuffer_used = 0 /\ buffer_size = 0 /\ wr = NoWrite /\ rd = NoRead
  BY DEF RbInit, ringbuffer_used
<1>2. Unread = <<>>
  <2>1. Unread = [k \in 1..0 |-> buffer[At(k - 1)]]
    BY <1>1 DEF Unread
  <2>2. Len(Unread) = 0 /\ Unread \in Seq(Byte)
    <3>1. Unread \in [1..0 -> Byte] /\ 0 \in Nat
      BY <2>1
    <3> QED BY <3>1, SeqOfFunction
  <2> QED BY <2>2
<1> QED BY <1>1, <1>2 DEF FIFO!Init, NoWrite, NoRead

\* Every step of the ring is a step of the queue, or changes nothing of it.
LEMMA StepRefines ==
  ASSUME RingInv, RingInv', [RbNext]_rb_vars
  PROVE  [FIFO!Next]_(FIFO!vars)
<1>f. /\ wr.pc \in {"idle", "loop", "copied"} /\ rd.pc \in {"idle", "loop", "copied"}
      /\ wr.rest \in Seq(Byte) /\ rd.got \in Seq(Byte)
      /\ BufferSize \in Nat /\ BufferSize > 0 /\ buffer_size \in {0, BufferSize}
      /\ rd.left \in Nat
      /\ wr \in [pc : {"idle", "loop", "copied"}, rest : Seq(Byte), n : Nat]
      /\ rd \in [pc : {"idle", "loop", "copied"}, left : Nat, chunk : Seq(Byte),
                  got : Seq(Byte)]
      /\ wr.pc = "idle" => wr = NoWrite
      /\ rd.pc = "idle" => rd = NoRead
  BY RingAssumption, Types DEF RingInv, RbTypeOK
<1>u. /\ ringbuffer_used \in Nat /\ Unread \in Seq(Byte) /\ Len(Unread) = ringbuffer_used
      /\ buffer_size = 0 => ringbuffer_used = 0
      /\ buffer_size # 0 => ringbuffer_used <= BufferSize - 1
  BY UnreadSeq DEF RingInv
<1>0. CASE UNCHANGED rb_vars
  BY <1>0 DEF rb_vars, FIFO!vars, Unread, ringbuffer_used, At
<1>1. CASE ringbuffer_init \/ ringbuffer_free
  <2>1. /\ wr = NoWrite /\ rd = NoRead /\ wr' = wr /\ rd' = rd
        /\ read_ptr' = 0 /\ write_ptr' = 0 /\ buffer_size' \in {0, BufferSize}
    BY <1>1 DEF ringbuffer_init, ringbuffer_free
  <2>2. Unread' = <<>>
    <3>1. Unread' = [k \in 1..0 |-> buffer'[At(k - 1)']]
      BY <2>1 DEF Unread, ringbuffer_used
    <3>2. Unread' \in [1..0 -> Byte] /\ 0 \in Nat
      BY <3>1
    <3> QED BY <3>2, SeqOfFunction
  <2>3. FIFO!Reset
    BY <1>f, <2>1, <2>2 DEF FIFO!Reset, FIFO!Idle, NoWrite, NoRead
  <2> QED BY <2>3 DEF FIFO!Next
<1>2. ASSUME NEW s \in Args, WriteCall(s)
      PROVE  FIFO!Next
  <2>1. s \in Seq(Byte)
    BY SeqOfFunction, RingAssumption DEF Args
  <2>2. Unread' = Unread /\ buffer_size' = buffer_size
    BY <1>2 DEF WriteCall, Unread, ringbuffer_used, At
  <2>3. FIFO!StartPut
    BY <1>2, <2>1, <2>2 DEF WriteCall, FIFO!StartPut
  <2> QED BY <2>3 DEF FIFO!Next
<1>3. CASE WriteCopy \/ ReadCopy
  <2>1. Unread' = Unread
    BY <1>3, CopyStutters
  <2>2. /\ buffer_size' = buffer_size
        /\ wr'.rest = wr.rest /\ (wr'.pc # "idle") = (wr.pc # "idle")
        /\ rd'.left = rd.left /\ rd'.got = rd.got /\ (rd'.pc # "idle") = (rd.pc # "idle")
    BY <1>3, <1>f DEF WriteCopy, ReadCopy
  <2> QED BY <2>1, <2>2 DEF FIFO!vars
<1>4. CASE WritePublish
  <2>1. /\ wr.n \in 1..Len(wr.rest)
        /\ ringbuffer_used + wr.n <= BufferSize - 1
        /\ Unread' = Unread \o SubSeq(wr.rest, 1, wr.n)
    BY <1>4, PublishPuts
  <2>2. /\ buffer_size' = buffer_size /\ rd' = rd /\ buffer_size = BufferSize
        /\ wr.pc = "copied"
        /\ wr' = [pc |-> "loop", rest |-> SubSeq(wr.rest, wr.n + 1, Len(wr.rest)), n |-> 0]
    BY <1>4 DEF WritePublish, RingInv, WriterInv
  <2>a. /\ (wr.pc # "idle") = TRUE /\ (wr'.pc # "idle") = TRUE
        /\ wr'.rest = SubSeq(wr.rest, wr.n + 1, Len(wr.rest))
    BY <2>2
  <2>b. Len(Unread) + wr.n <= IF buffer_size = 0 THEN 0 ELSE buffer_size - 1
    BY <1>f, <1>u, <2>1, <2>2
  <2>3. FIFO!Put(wr.n)
    BY <2>1, <2>2, <2>a, <2>b, Zenon DEF FIFO!Put
  <2>4. wr.n \in 1..(BufferSize - 1)
    BY <1>f, <1>u, <2>1
  <2> QED BY <2>3, <2>4 DEF FIFO!Next
<1>5. CASE WriteReturn
  <2>1. Unread' = Unread /\ UNCHANGED <<buffer_size, rd>> /\ wr' = NoWrite /\ wr.pc = "loop"
    BY <1>5 DEF WriteReturn, Unread, ringbuffer_used, At
  <2>2. ASSUME Room = 0
        PROVE  ringbuffer_used = IF buffer_size = 0 THEN 0 ELSE buffer_size - 1
    <3>1. /\ buffer_size \in Nat /\ read_ptr \in Nat /\ write_ptr \in Nat
          /\ buffer_size = 0 => read_ptr = 0 /\ write_ptr = 0
          /\ buffer_size # 0 => read_ptr < buffer_size /\ write_ptr < buffer_size
      BY Types DEF RingInv
    <3>2. CASE write_ptr >= read_ptr
      BY <2>2, <3>1, <3>2 DEF Room, ringbuffer_used
    <3>3. CASE write_ptr < read_ptr
      BY <2>2, <3>1, <3>3 DEF Room, ringbuffer_used
    <3> QED BY <3>1, <3>2, <3>3
  <2>a. /\ (wr.pc # "idle") = TRUE /\ (wr'.pc # "idle") = FALSE /\ wr'.rest = <<>>
    BY <2>1 DEF NoWrite
  <2>b. wr.rest = <<>> \/ Len(Unread) = IF buffer_size = 0 THEN 0 ELSE buffer_size - 1
    BY <1>5, <1>u, <2>2 DEF WriteReturn
  <2>3. FIFO!EndPut
    BY <2>1, <2>a, <2>b, Zenon DEF FIFO!EndPut
  <2> QED BY <2>3 DEF FIFO!Next
<1>6. ASSUME NEW len \in 0..MaxLen, ReadCall(len)
      PROVE  FIFO!Next
  <2>1. Unread' = Unread /\ buffer_size' = buffer_size /\ len \in Nat
    BY <1>6, RingAssumption DEF ReadCall, Unread, ringbuffer_used, At
  <2>2. FIFO!StartGet
    BY <1>6, <2>1 DEF ReadCall, FIFO!StartGet
  <2> QED BY <2>2 DEF FIFO!Next
<1>7. CASE ReadPublish
  <2> DEFINE n == Len(rd.chunk)
  <2>1. /\ n \in 1..rd.left /\ n <= ringbuffer_used
        /\ rd.chunk = SubSeq(Unread, 1, n)
        /\ Unread' = SubSeq(Unread, n + 1, Len(Unread))
    BY <1>7, PublishGets
  <2>2. /\ buffer_size' = buffer_size /\ wr' = wr /\ rd.pc = "copied"
        /\ rd' = [pc |-> "loop", left |-> rd.left - n, chunk |-> <<>>,
                  got |-> rd.got \o rd.chunk]
    BY <1>7 DEF ReadPublish
  <2> HIDE DEF n
  <2>a. /\ (rd.pc # "idle") = TRUE /\ (rd'.pc # "idle") = TRUE
        /\ rd'.left = rd.left - n /\ rd'.got = rd.got \o SubSeq(Unread, 1, n)
    BY <2>1, <2>2
  <2>b. n <= Len(Unread)
    BY <1>u, <2>1
  <2>3. FIFO!Get(n)
    BY <2>1, <2>2, <2>a, <2>b, Zenon DEF FIFO!Get
  <2>4. n \in 1..(BufferSize - 1)
    BY <1>f, <1>u, <2>1
  <2> QED BY <2>3, <2>4 DEF FIFO!Next
<1>8. CASE ReadReturn
  <2>1. Unread' = Unread /\ UNCHANGED <<buffer_size, wr>> /\ rd' = NoRead /\ rd.pc = "loop"
    BY <1>8 DEF ReadReturn, Unread, ringbuffer_used, At
  <2>2. ASSUME read_ptr = write_ptr PROVE Unread = <<>>
    <3>1. ringbuffer_used = 0
      BY <2>2, Types DEF ringbuffer_used, RingInv
    <3> QED BY <1>u, <3>1
  <2>a. /\ (rd.pc # "idle") = TRUE /\ (rd'.pc # "idle") = FALSE
        /\ rd'.left = 0 /\ rd'.got = <<>>
    BY <2>1 DEF NoRead
  <2>b. rd.left = 0 \/ Unread = <<>>
    BY <1>8, <2>2 DEF ReadReturn
  <2>3. FIFO!EndGet
    BY <2>1, <2>a, <2>b, Zenon DEF FIFO!EndGet
  <2> QED BY <2>3 DEF FIFO!Next
<1> QED BY <1>0, <1>1, <1>2, <1>3, <1>4, <1>5, <1>6, <1>7, <1>8 DEF RbNext

\* kernel/lib/ringbuffer.c implements the bounded byte FIFO its users assume,
\* for every buffer size, however a writer and a reader preempt each other.
THEOREM RingRefines == RbSpec => RefinesFIFO
<1>1. RbInit => FIFO!Init
  BY InitRefines
<1>2. RingInv /\ RingInv' /\ [RbNext]_rb_vars => [FIFO!Next]_(FIFO!vars)
  BY StepRefines
<1>3. RbSpec => []RingInv
  BY RingCorrect
<1> QED BY <1>1, <1>2, <1>3, PTL DEF RbSpec, RefinesFIFO, FIFO!Spec
=============================================================================
