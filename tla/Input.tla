------------------------------- MODULE Input -------------------------------
(***************************************************************************)
(* The keyboard and mouse drivers (drivers/keyboard.c, mouse.c): interrupt *)
(* handlers that turn the bytes of the PS/2 controller into events, and    *)
(* the reads of /dev/keyboard and /dev/mouse.  The two ring buffers are    *)
(* byte queues of a capacity that is no multiple of the size of an event,  *)
(* as 127 is of 3 and 4095 of 12.                                          *)
(***************************************************************************)
EXTENDS Integers, Sequences, FiniteSetsExt

CONSTANTS KeyCap, MouseCap,    \* capacities of the queues
          KeyCells, MouseCells,\* cells of an event (sizeof)
          KeyBound, MouseBound,\* bounds: scan codes, packets
          Screen               \* bound: largest coordinate

ASSUME InputAssumption == /\ KeyCap \in Nat /\ MouseCap \in Nat
                          /\ KeyCells \in Nat \ {0} /\ MouseCells \in Nat \ {0}

VARIABLES kheld,    \* keys held down on the keyboard
          kdown,    \* is_shift_down, is_alt_down, is_ctrl_down
          kqueue,   \* cells in the keyboard's ring buffer
          kevents,  \* every event made, with the keys held at that time
          kread,    \* cells read
          kshort    \* a write to the ring buffer came back short
VARIABLES mcycle,   \* mouse_cycle
          mu8,      \* mouse_u8
          mpos,     \* mouse_x, mouse_y
          mprev,    \* previous_event
          mqueue, mshort,
          msent,    \* bytes of a packet the mouse has still to send
          mlast,    \* first byte of the last complete packet
          mgot,     \* the last event a program has read
          mbound    \* packets left
kb_vars == <<kheld, kdown, kqueue, kevents, kread, kshort>>
mouse_vars == <<mcycle, mu8, mpos, mprev, mqueue, mshort, msent, mlast, mgot, mbound>>

\* An event as the cells it is copied in; what a ring buffer of that capacity takes.
Cells(e, n) == [i \in 1..n |-> <<e, i>>]
Taken(queue, cells, cap) == SubSeq(cells, 1, Min({Len(cells), cap - Len(queue)}))
-----------------------------------------------------------------------------
Keys == {"lshift", "rshift", "alt", "ctrl", "a", "b"}
Shifts == {"lshift", "rshift"}
Modifiers == {"shift", "alt", "ctrl"}
KbInit == /\ kheld = {} /\ kdown = [m \in Modifiers |-> FALSE]
          /\ kqueue = <<>> /\ kevents = <<>> /\ kread = <<>> /\ kshort = FALSE

\* The tables, for two keys.
keyboard_to_ascii(key, capital) == IF capital THEN <<"capital", key>> ELSE <<"small", key>>

Modifier(key) == CASE key \in Shifts -> "shift" [] key \in {"alt", "ctrl"} -> key [] OTHER -> "none"

\* A key goes down or up.
int_keyboard(key) ==
  LET released == key \in kheld
      held == IF released THEN kheld \ {key} ELSE kheld \cup {key}
      ev == [c |-> keyboard_to_ascii(key, kdown["shift"]), release |-> released,
             shift |-> kdown["shift"], alt |-> kdown["alt"], ctrl |-> kdown["ctrl"]]
      new == Cells(ev, KeyCells)
  IN  /\ Len(kevents) < KeyBound
      /\ kheld' = held
      /\ IF Modifier(key) # "none"
         THEN /\ kdown' = [kdown EXCEPT ![Modifier(key)] = ~released]
              /\ UNCHANGED <<kqueue, kevents, kshort>>
         ELSE /\ kqueue' = kqueue \o Taken(kqueue, new, KeyCap)
              /\ kshort' = (kshort \/ Len(new) > KeyCap - Len(kqueue))
              /\ kevents' = Append(kevents, [ev |-> ev, held |-> held])
              /\ UNCHANGED kdown
      /\ UNCHANGED kread

\* A program reads one event, or what there is of it; an empty queue is -EAGAIN.
keyboard_read ==
  LET n == Min({KeyCells, Len(kqueue)}) IN
  /\ kqueue # <<>>                                     \* keyboard_has_data
  /\ kread' = kread \o SubSeq(kqueue, 1, n)
  /\ kqueue' = SubSeq(kqueue, n + 1, Len(kqueue))
  /\ UNCHANGED <<kheld, kdown, kevents, kshort>>

KbNext == (\E key \in Keys : int_keyboard(key)) \/ keyboard_read
KbSpec == KbInit /\ [][KbNext]_kb_vars
-----------------------------------------------------------------------------
\* First byte of a packet (the sync bit and two of the buttons) and the movement.
Heads == [sync : {TRUE}, left : BOOLEAN, right : BOOLEAN]
Stray == [sync |-> FALSE, left |-> TRUE, right |-> FALSE]
Still == [x |-> 0, y |-> 0, left |-> FALSE, right |-> FALSE]
MouseInit == LET none == [sync |-> TRUE, left |-> FALSE, right |-> FALSE] IN
  /\ mcycle = 0 /\ mu8 = [head |-> none, dx |-> 0] /\ mpos = [x |-> 0, y |-> 0] /\ mprev = Still
  /\ mqueue = <<>> /\ mshort = FALSE /\ msent = <<>> /\ mlast = none /\ mgot = Still /\ mbound = MouseBound

\* The mouse moves or a button changes; a byte may also be left over from a packet
\* that was cut.
mouse_packet(bytes) ==
  /\ msent = <<>> /\ mbound > 0
  /\ msent' = bytes /\ mbound' = mbound - 1
  /\ UNCHANGED <<mcycle, mu8, mpos, mprev, mqueue, mshort, mlast, mgot>>

Event(pos, head) == [x |-> pos.x, y |-> pos.y, left |-> head.left, right |-> head.right]

\* Mutant: only the left button is compared.
button_change_bug(head) == mprev.left # head.left
button_change(head) == mprev.left # head.left \/ mprev.right # head.right

\* The third byte completes the packet: move, clamp at 0, and queue an event only
\* when a button changed.
MoveMouse(dy) ==
  LET pos == [x |-> Max({mpos.x + mu8.dx, 0}), y |-> Max({mpos.y - dy, 0})]
      e == Event(pos, mu8.head)
      new == Cells(e, MouseCells)
  IN  /\ pos.x <= Screen /\ pos.y <= Screen
      /\ mcycle' = 0 /\ mpos' = pos /\ mlast' = mu8.head /\ UNCHANGED mu8
      /\ IF button_change(mu8.head)
         THEN /\ mprev' = e
              /\ mqueue' = mqueue \o Taken(mqueue, new, MouseCap)
              /\ mshort' = (mshort \/ Len(new) > MouseCap - Len(mqueue))
         ELSE UNCHANGED <<mprev, mqueue, mshort>>

\* One interrupt per byte.  A first byte without the sync bit is dropped, but stays in
\* mouse_u8.
int_mouse ==
  /\ msent # <<>> /\ msent' = Tail(msent)
  /\ \/ /\ mcycle = 0
        /\ mu8' = [mu8 EXCEPT !.head = Head(msent)]
        /\ mcycle' = IF Head(msent).sync THEN 1 ELSE 0
        /\ UNCHANGED <<mpos, mprev, mqueue, mshort, mlast>>
     \/ /\ mcycle = 1
        /\ mu8' = [mu8 EXCEPT !.dx = Head(msent)] /\ mcycle' = 2
        /\ UNCHANGED <<mpos, mprev, mqueue, mshort, mlast>>
     \/ mcycle = 2 /\ MoveMouse(Head(msent))
  /\ UNCHANGED <<mgot, mbound>>

fs_mouse_has_data == mpos.x # mprev.x \/ mpos.y # mprev.y \/ mqueue # <<>>

\* A queued event, or the position if it is news, with the buttons of the latest first
\* byte.
fs_mouse_read ==
  LET n == Min({MouseCells, Len(mqueue)})
      e == Event(mpos, mu8.head)
  IN  /\ fs_mouse_has_data
      /\ IF mqueue # <<>>
         THEN /\ mgot' = mqueue[1][1]
              /\ mqueue' = SubSeq(mqueue, n + 1, Len(mqueue)) /\ UNCHANGED mprev
         ELSE /\ mgot' = e /\ mprev' = e /\ UNCHANGED mqueue
      /\ UNCHANGED <<mcycle, mu8, mpos, mshort, msent, mlast, mbound>>

MouseNext == \/ \E head \in Heads, dx \in {-1, 0, 1}, dy \in {0, 1, -1} : mouse_packet(<<head, dx, dy>>)
             \/ mouse_packet(<<Stray>>)
             \/ int_mouse \/ fs_mouse_read
MouseSpec == MouseInit /\ [][MouseNext]_mouse_vars
-----------------------------------------------------------------------------
\* The n-th cell of all the events made.
KeyCell(events, n) == <<events[((n - 1) \div KeyCells) + 1].ev, ((n - 1) % KeyCells) + 1>>

\* What an event says of the keys held.
SaysHeld(e, held) == /\ (e.alt <=> "alt" \in held) /\ (e.ctrl <=> "ctrl" \in held)
                     /\ e.shift => held \cap Shifts # {}
                     /\ e.c[1] = "capital" <=> e.shift

\* Unless the ring buffer was ever full, a program reads whole events in the order of
\* the keys.  An event says alt and ctrl exactly when the key is held, and shift and a
\* capital only while a shift key is (int_keyboard and keyboard_read sharing the ring
\* buffer; modifier state kept across interrupts).
KeysFaithful ==
  /\ ~kshort => kread \o kqueue = [n \in 1..Len(kevents) * KeyCells |-> KeyCell(kevents, n)]
  /\ \A i \in DOMAIN kevents : SaysHeld(kevents[i].ev, kevents[i].held)

\* Once /dev/mouse has nothing more to say, the last event read shows where the mouse
\* is and which buttons are down, unless the ring buffer was ever full or a stray byte
\* came last (fs_mouse_read and int_mouse both writing previous_event, reads between
\* the bytes of a packet).
MouseSettles ==
  ~mshort /\ mcycle = 0 /\ msent = <<>> /\ mu8.head = mlast /\ ~fs_mouse_has_data => mgot = Event(mpos, mlast)

\* What a program reads from /dev/keyboard and /dev/mouse is what was done with them,
\* though interrupts fill the rings between any two reads.
InputFaithful == KeysFaithful /\ MouseSettles
=============================================================================
