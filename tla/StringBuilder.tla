--------------------------- MODULE StringBuilder ---------------------------
(* The string builder of kernel/lib/sb.c over a buffer the caller provides or
   one it allocates, as kernel/fs/procfs.c and kernel/libc/stdio/print.c use it. *)
EXTENDS Naturals, Sequences

sb_init_buffer(size) == [text |-> <<>>, capacity |-> size, prebuffer |-> TRUE, to_ignore |-> 0]
sb_init_capacity(size) == [text |-> <<>>, capacity |-> size, prebuffer |-> FALSE, to_ignore |-> 0]
sb_set_ignore(sb, n) == [sb EXCEPT !.to_ignore = n]

\* A buffer of the caller never grows; the other grows by 32 bytes at least.
sb_increase_buffer(sb, min) ==
  IF sb.prebuffer THEN sb ELSE [sb EXCEPT !.capacity = @ + (IF min > 32 THEN min ELSE 32)]

\* Mutant: a piece ignored as a whole is not taken off what is left to ignore.
sb_append_buffer_bug(sb, s) ==
  IF sb.to_ignore >= Len(s) THEN [sb |-> sb, rc |-> 1]
  ELSE IF Len(s) > sb.capacity - Len(sb.text) THEN [sb |-> sb, rc |-> 0]
  ELSE [sb |-> [sb EXCEPT !.text = @ \o s], rc |-> 1]

(* What is still to be ignored is taken off first.  A piece that does not fit is
   dropped whole, with result 0. *)
sb_append_buffer(sb, s) ==
  LET piece == SubSeq(s, sb.to_ignore + 1, Len(s))
      seen  == [sb EXCEPT !.to_ignore = 0]
      room  == IF Len(piece) > sb.capacity - Len(sb.text) THEN sb_increase_buffer(seen, Len(piece)) ELSE seen
  IN IF sb.to_ignore >= Len(s) THEN [sb |-> [sb EXCEPT !.to_ignore = @ - Len(s)], rc |-> 1]
     ELSE IF Len(piece) > room.capacity - Len(room.text) THEN [sb |-> seen, rc |-> 0]
     ELSE [sb |-> [room EXCEPT !.text = @ \o piece], rc |-> 1]
=============================================================================
