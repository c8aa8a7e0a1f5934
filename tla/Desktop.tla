------------------------------ MODULE Desktop ------------------------------
(***************************************************************************)
(* The window server (userland/windowserver/ws.c) and its clients           *)
(* (userland/libgui/libgui.c, userland/terminal/term.c) over UNIX sockets   *)
(* (kernel/socket.c).  The server handles one poll result at a time, slot   *)
(* by slot; clients connect, write, resize and die between any two slots.   *)
(* A connection is two fifos of units: a message of the client is a type, a *)
(* structure and, for a new window, a name; an event of the server is one   *)
(* unit.  Positions are abstracted to what lies under the pointer.          *)
(***************************************************************************)
EXTENDS Integers, Sequences, SequencesExt, FiniteSets, FiniteSetsExt

CONSTANTS Clients,          \* programs with a window
          NumFds,           \* num_fds (100)
          FifoCap, FifoGrow,\* STARTING_SIZE of a fifo and its growth, in units
          Sizes, MaxWindow, \* window sizes; MAX_WINDOW_SIZE
          MaxInput          \* bound: user inputs, updates and killed clients

NoClient == 0
WindowSlots == 3..(NumFds - 1)
Parts == {"none", "minimize", "close", "body"}

VARIABLES cl,        \* client -> [st, size]
          ch,        \* client -> [up, ucap, has, down, dcap]: the two fifos
          incoming,  \* incoming_fd of the listening socket
          slots,     \* fds: the client behind each polled slot
          ws,        \* the display and the mouse state of the server
          srv,       \* [pc, i, rev]: the loop of the server
          keys, mice,\* events in /dev/keyboard and /dev/mouse
          inputs,    \* user inputs so far
          displaced, \* ghost: connections overwritten before accept
          unsized    \* ghost: clients whose last resize the server never took

desk_vars == <<cl, ch, incoming, slots, ws, srv, keys, mice, inputs, displaced, unsized>>
----------------------------------------------------------------------------

\* fifo_object_write: a message is stored whole, or refused and the fifo grows.
fifo_put(q, cap, m) ==
  IF Len(q) + Len(m) >= cap THEN [q |-> q, cap |-> cap + FifoGrow, ok |-> FALSE]
                            ELSE [q |-> q \o m, cap |-> cap, ok |-> TRUE]

\* write() of the server on the socket of w; nobody looks at the result.
Send(c, w, e) ==
  LET r == fifo_put(c[w].down, c[w].dcap, <<e>>)
  IN IF cl[w].st = "gone" THEN c
     ELSE [c EXCEPT ![w].down = r.q, ![w].dcap = r.cap]

send_kill_window(c, w) == Send(c, w, [type |-> "exit"])
send_key_event_to_window(c, w) == Send(c, w, [type |-> "key"])
send_resize(c, w, n) == Send(c, w, [type |-> "resize", size |-> n])

\* write() of a client.
Write(c, w, m) ==
  LET r == fifo_put(c[w].up, c[w].ucap, m)
  IN [c EXCEPT ![w].up = r.q, ![w].ucap = r.cap, ![w].has = TRUE]
----------------------------------------------------------------------------
\* RET_CLICKED: the widget that holds the press, and whether it is released.
Pressed(s, in, id, was) == IF in /\ s.down THEN id
                           ELSE IF ~in /\ s.up /\ id = was THEN -1 ELSE was
Clicked(s, in, id, was) == in /\ ~s.down /\ s.up /\ id = was

\* draw_window of w, the k-th from the back, in the pass d: its two buttons,
\* then its body, which takes the focus and the front and ends the loop.
draw_window(d, w) ==
  IF d.stop \/ w \notin d.s.map \/ w \in d.s.mini THEN [d EXCEPT !.k = @ + 1]
  ELSE LET s == d.s
           at == s.under[w]
           p1 == Pressed(s, at = "minimize", d.btn, s.id)
           p2 == Pressed(s, at = "close", d.btn + 1, p1)
           focus == Clicked(s, at = "body", 100 + d.k, p2) /\ w # s.active
           raise == focus /\ w # Head(s.z)
       IN [d EXCEPT
             !.s.id = Pressed(s, at = "body", 100 + d.k, p2),
             !.s.mini = IF Clicked(s, at = "minimize", d.btn, s.id) THEN @ \cup {w} ELSE @,
             !.exits = IF Clicked(s, at = "close", d.btn + 1, p1) THEN @ \cup {w} ELSE @,
             !.s.active = IF focus THEN w ELSE @,
             !.s.z = IF raise THEN <<w>> \o Remove(@, w) ELSE @,
             !.ui = @ \/ focus, !.stop = raise,
             !.btn = @ + 2, !.k = @ + 1]

\* The icon of a minimised window.
draw_icon(d, w) ==
  IF w \notin d.s.mini THEN d
  ELSE LET in == d.s.icon = d.k
           hit == Clicked(d.s, in, d.btn, d.s.id)
       IN [d EXCEPT !.s.id = Pressed(d.s, in, d.btn, @),
                    !.s.mini = IF hit THEN @ \ {w} ELSE @,
                    !.ui = @ \/ hit, !.btn = @ + 1, !.k = @ + 1]

\* draw: [s, ch] after a pass over the windows from the back to the front and
\* one over the icons; a change of focus consumes the mouse and draws again.
draw(s, c) ==
  LET d0 == [s |-> s, exits |-> {}, ui |-> FALSE, stop |-> FALSE, btn |-> 0, k |-> 0]
      d1 == FoldLeft(draw_window, d0, Reverse(s.z))
      d2 == FoldLeft(draw_icon, [d1 EXCEPT !.k = 0], Reverse(d1.s.z))
  IN [s |-> IF d2.ui THEN [d2.s EXCEPT !.down = FALSE, !.up = FALSE] ELSE d2.s,
      ch |-> [w \in Clients |-> IF w \in d2.exits THEN send_kill_window(c, w)[w]
                                                  ELSE c[w]]]
----------------------------------------------------------------------------
\* uds_open: the server's end of a new pair waits in incoming_fd, which has
\* room for one.  The flags of a new fifo are whatever the memory held.
uds_open(c) ==
  /\ cl[c].st = "connect"
  /\ cl' = [cl EXCEPT ![c].st = "open"]
  /\ \E f \in BOOLEAN :
       ch' = [ch EXCEPT ![c] = [up |-> <<>>, ucap |-> FifoCap, has |-> f,
                                down |-> <<>>, dcap |-> FifoCap]]
  /\ incoming' = c
  /\ displaced' = displaced \cup ({incoming} \ {NoClient})
  /\ UNCHANGED <<slots, ws, srv, keys, mice, inputs, unsized>>

\* GUI_CreateWindow, after the bitmap is there.
GUI_CreateWindow(c) ==
  /\ cl[c].st = "open"
  /\ cl' = [cl EXCEPT ![c].st = "run"]
  /\ ch' = Write(ch, c, <<"create", cl[c].size, c>>)
  /\ UNCHANGED <<incoming, slots, ws, srv, keys, mice, inputs, displaced, unsized>>

GUI_UpdateWindow(c) ==
  /\ cl[c].st = "run" /\ inputs < MaxInput /\ inputs' = inputs + 1
  /\ ch' = Write(ch, c, <<"update">>)
  /\ UNCHANGED <<cl, incoming, slots, ws, srv, keys, mice, displaced, unsized>>

GUI_BufferResize(s) == s <= MaxWindow

\* terminal_resize and GUI_SendResize: the client draws with the new size from
\* here on; the server learns of it if the fifo has room.
terminal_resize(c, n, c0) ==
  LET m == <<"resize", n>>
  IN /\ cl' = [cl EXCEPT ![c].size = n]
     /\ ch' = Write(c0, c, m)
     /\ unsized' = IF fifo_put(c0[c].up, c0[c].ucap, m).ok THEN unsized \ {c} ELSE unsized \cup {c}

\* One event in the loop of the terminal; a size too large fails an assertion.
term_event(c) ==
  /\ cl[c].st = "run" /\ ch[c].down # <<>>
  /\ LET e == Head(ch[c].down)
         c0 == [ch EXCEPT ![c].down = Tail(@)]
     IN \/ e.type = "key" /\ ch' = c0 /\ UNCHANGED <<cl, unsized>>
        \/ /\ e.type = "exit" \/ (e.type = "resize" /\ ~GUI_BufferResize(e.size))
           /\ cl' = [cl EXCEPT ![c].st = "gone"] /\ ch' = c0 /\ UNCHANGED unsized
        \/ e.type = "resize" /\ GUI_BufferResize(e.size) /\ terminal_resize(c, e.size, c0)
  /\ UNCHANGED <<incoming, slots, ws, srv, keys, mice, inputs, displaced>>

\* A client is killed: its end of the connection is closed.
kill_client(c) ==
  /\ cl[c].st \in {"open", "run"} /\ inputs < MaxInput /\ inputs' = inputs + 1
  /\ cl' = [cl EXCEPT ![c].st = "gone"]
  /\ UNCHANGED <<ch, incoming, slots, ws, srv, keys, mice, displaced, unsized>>

\* A key is pressed.  Arrivals are taken while the server polls: one during a
\* pass is seen by the next poll all the same.
type_key(k) ==
  /\ srv.pc = "poll" /\ inputs < MaxInput /\ inputs' = inputs + 1
  /\ keys' = Append(keys, k)
  /\ UNCHANGED <<cl, ch, incoming, slots, ws, srv, mice, displaced, unsized>>

\* The user points at something and presses or releases buttons.  Pointing with no
\* button down changes nothing but where the pointer was, and is left out.
use_mouse(e) ==
  /\ e.left \/ e.right # 0 \/ ws.down
  /\ srv.pc = "poll" /\ inputs < MaxInput /\ inputs' = inputs + 1 /\ mice = <<>>
  /\ mice' = <<e>>
  /\ UNCHANGED <<cl, ch, incoming, slots, ws, srv, keys, displaced, unsized>>
----------------------------------------------------------------------------
\* Mutant: a closed peer is noticed only while nothing is left to read.
ReventsBug(c) == IF c = NoClient THEN "none"
                 ELSE IF ch[c].has THEN "in"
                 ELSE IF cl[c].st = "gone" THEN "hup" ELSE "none"

\* poll_check for a window: POLLHUP when the client's end is closed.
Revents(c) == IF c = NoClient THEN "none"
              ELSE IF cl[c].st = "gone" THEN "hup"
              ELSE IF ch[c].has THEN "in" ELSE "none"

\* The loop of parse_revents ends before this slot.
LastSlot == NumFds - 1

\* The next slot with something in revents; the loop passes over the others.
SlotAfter(i, rev) == Min({j \in (i + 1)..(LastSlot - 1) : rev[j] # "none"} \cup {LastSlot})
NextSlot == [srv EXCEPT !.i = SlotAfter(@, srv.rev)]
Handling(i) == srv.pc = "parse" /\ srv.i = i /\ i < LastSlot

\* run: poll takes a snapshot of all descriptors.
PollResult == [i \in 0..(NumFds - 1) |->
                 CASE i = 0 -> IF incoming # NoClient THEN "in" ELSE "none"
                   [] i = 1 -> IF keys # <<>> THEN "in" ELSE "none"
                   [] i = 2 -> IF mice # <<>> THEN "in" ELSE "none"
                   [] OTHER -> Revents(slots[i])]
poll ==
  /\ srv.pc = "poll"
  /\ \E i \in 0..(NumFds - 1) : PollResult[i] # "none"
  /\ srv' = [pc |-> "parse", i |-> SlotAfter(-1, PollResult), rev |-> PollResult]
  /\ UNCHANGED <<cl, ch, incoming, slots, ws, keys, mice, inputs, displaced, unsized>>

\* reset_revents, and poll again.
parse_end == /\ srv.pc = "parse" /\ srv.i = LastSlot
             /\ srv' = [pc |-> "poll", i |-> 0, rev |-> <<>>]
             /\ UNCHANGED <<cl, ch, incoming, slots, ws, keys, mice, inputs, displaced, unsized>>

\* add_fd: the first free slot; one past the end when there is none.
add_fd == CHOOSE i \in 3..NumFds :
            /\ i < NumFds => slots[i] = NoClient
            /\ \A j \in 3..(i - 1) : slots[j] # NoClient

\* add_window: accept, a slot, and a window in front with the focus.
add_window ==
  /\ Handling(0) /\ srv.rev[0] = "in"
  /\ IF add_fd = NumFds
     THEN srv' = [srv EXCEPT !.pc = "dead"] /\ UNCHANGED <<slots, ws>>
     ELSE /\ slots' = [slots EXCEPT ![add_fd] = incoming]
          /\ ws' = [ws EXCEPT !.z = <<incoming>> \o @, !.active = incoming]
          /\ srv' = NextSlot
  /\ incoming' = NoClient
  /\ UNCHANGED <<cl, ch, keys, mice, inputs, displaced, unsized>>

\* parse_keyboard_event reads until the device is empty.  A shortcut of the
\* server: alt-q closes the active window (through a null pointer when there is
\* none), alt-n starts a terminal, alt-hjkl move it and draw; the rest is sent.
on_key(a, k) ==
  CASE a.dead -> a
    [] k = "alt-q" -> IF ws.active = NoClient THEN [a EXCEPT !.dead = TRUE]
                      ELSE [a EXCEPT !.ch = send_kill_window(@, ws.active)]
    [] k = "alt-n" ->
         LET off == {c \in Clients : a.cl[c].st = "off"}
         IN IF off = {} THEN a ELSE [a EXCEPT !.cl[CHOOSE c \in off : TRUE].st = "connect"]
    [] k = "alt-h" /\ ws.active # NoClient -> [a EXCEPT !.redraw = TRUE]
    [] ws.active = NoClient -> a
    [] OTHER -> [a EXCEPT !.ch = send_key_event_to_window(@, ws.active)]

parse_keyboard_event ==
  /\ Handling(1) /\ srv.rev[1] = "in"
  /\ LET a == FoldLeft(on_key, [cl |-> cl, ch |-> ch, redraw |-> FALSE, dead |-> FALSE], keys)
         d == IF a.redraw THEN draw(ws, a.ch) ELSE [s |-> ws, ch |-> a.ch]
     IN /\ cl' = a.cl /\ ch' = d.ch /\ ws' = d.s
        /\ srv' = IF a.dead THEN [srv EXCEPT !.pc = "dead"] ELSE NextSlot
  /\ keys' = <<>>
  /\ UNCHANGED <<incoming, slots, mice, inputs, displaced, unsized>>

\* parse_mouse_event: the left button clicks, the right one asks the active
\* window to change its size, and every event draws.
parse_mouse_event ==
  /\ Handling(2) /\ srv.rev[2] = "in"
  /\ LET e == Head(mice)
         s == [ws EXCEPT !.up = ws.down /\ ~e.left, !.down = e.left,
                         !.under = e.under, !.icon = e.icon]
         c == IF e.right # 0 /\ ws.active # NoClient
              THEN send_resize(ch, ws.active, e.right) ELSE ch
         d == draw(s, c)
     IN ws' = d.s /\ ch' = d.ch
  /\ mice' = <<>> /\ srv' = NextSlot
  /\ UNCHANGED <<cl, incoming, slots, keys, inputs, displaced, unsized>>

\* A window is drawn once its bitmap is mapped.
create_window(c, n) == [ws EXCEPT !.map = @ \cup {c}, !.size[c] = n]

\* The resize branch of parse_window_event once the bitmap is mapped again.
resize_window(c, n) == [ws EXCEPT !.size[c] = n]

\* parse_window_event: one message of the client in slot i.  When there is none
\* after all, its type and fields are uninitialised: the server does nothing,
\* draws, takes a size nobody sent, or dies on a bitmap that does not exist.
parse_window_event(i) ==
  /\ Handling(i) /\ srv.rev[i] = "in"
  /\ LET c == slots[i]
         m == ch[c].up
         Rest(n) == [ch EXCEPT ![c].up = SubSeq(@, n + 1, Len(@)), ![c].has = Len(m) > n]
         c0 == [ch EXCEPT ![c].has = @ /\ cl[c].st = "gone"]
     IN IF cl[c].st = "gone" \/ m = <<>>        \* EPIPE or EAGAIN
        THEN \/ srv' = NextSlot /\ ch' = c0 /\ UNCHANGED <<ws, unsized>>
             \/ /\ LET d == draw(ws, c0) IN ws' = d.s /\ ch' = d.ch
                /\ srv' = NextSlot /\ UNCHANGED unsized
             \/ /\ srv' = NextSlot /\ ch' = c0 /\ unsized' = unsized \cup {c}
                /\ ws' = [resize_window(c, 0) EXCEPT !.map = @ \cup {c}]
             \/ srv' = [srv EXCEPT !.pc = "dead"] /\ ch' = c0 /\ UNCHANGED <<ws, unsized>>
        ELSE /\ srv' = NextSlot
             /\ \/ /\ m[1] = "update"
                   /\ LET d == draw(ws, Rest(1)) IN ws' = d.s /\ ch' = d.ch
                   /\ UNCHANGED unsized
                \/ /\ m[1] = "create"
                   /\ LET d == draw(create_window(c, m[2]), Rest(3))
                      IN ws' = d.s /\ ch' = d.ch
                   /\ UNCHANGED unsized
                \/ /\ m[1] = "resize" /\ ch' = Rest(2)
                   /\ ws' = resize_window(c, m[2]) /\ UNCHANGED unsized
                \/ /\ m[1] = "resize" /\ ch' = Rest(2)      \* mmap fails
                   /\ unsized' = unsized \cup {c} /\ UNCHANGED ws
  /\ UNCHANGED <<cl, incoming, slots, keys, mice, inputs, displaced>>

\* Mutant: the focus stays on the window that is freed.
NextActiveBug(w) == ws.active

\* The focus after kill_window(w): the window in front of it, or the next one.
NextActive(w) ==
  LET k == CHOOSE j \in 1..Len(ws.z) : ws.z[j] = w
  IN CASE ws.active # w -> ws.active
       [] k > 1 -> ws.z[k - 1]
       [] k < Len(ws.z) -> ws.z[k + 1]
       [] OTHER -> NoClient

\* kill_window; the descriptor is never closed, so its number does not return.
kill_window(i) ==
  /\ Handling(i) /\ srv.rev[i] = "hup"
  /\ LET w == slots[i]
     IN ws' = [ws EXCEPT !.z = Remove(@, w), !.active = NextActive(w),
                         !.map = @ \ {w}, !.mini = @ \ {w}]
  /\ slots' = [slots EXCEPT ![i] = NoClient]
  /\ srv' = NextSlot
  /\ UNCHANGED <<cl, ch, incoming, keys, mice, inputs, displaced, unsized>>
----------------------------------------------------------------------------
NoFifos == [up |-> <<>>, ucap |-> FifoCap, has |-> FALSE, down |-> <<>>, dcap |-> FifoCap]

\* setup, with one terminal about to connect, or all of them.
DeskInit ==
  /\ \E started \in {{Min(Clients)}, Clients} :
       cl = [c \in Clients |-> [st |-> IF c \in started THEN "connect" ELSE "off", size |-> 1]]
  /\ ch = [c \in Clients |-> NoFifos]
  /\ incoming = NoClient
  /\ slots = [i \in WindowSlots |-> NoClient]
  /\ ws = [z |-> <<>>, active |-> NoClient, map |-> {}, mini |-> {},
           size |-> [c \in Clients |-> 0], down |-> FALSE, up |-> FALSE, id |-> -1,
           under |-> [c \in Clients |-> "none"], icon |-> -1]
  /\ srv = [pc |-> "poll", i |-> 0, rev |-> <<>>]
  /\ keys = <<>> /\ mice = <<>> /\ inputs = 0 /\ displaced = {} /\ unsized = {}

Serve == \/ poll \/ parse_end \/ add_window \/ parse_keyboard_event \/ parse_mouse_event
         \/ \E i \in WindowSlots : parse_window_event(i) \/ kill_window(i)

ClientStep(c) == uds_open(c) \/ GUI_CreateWindow(c) \/ term_event(c)

\* The pointer is over one part of the first client's window, over the bodies of
\* all, or over an icon (bound: not over the buttons of the others).
NoPart == [c \in Clients |-> "none"]
Pointer == {[NoPart EXCEPT ![Min(Clients)] = p] : p \in Parts} \cup {[c \in Clients |-> "body"]}
MouseEvents == [left : BOOLEAN, right : {0}, under : Pointer, icon : {-1}]
                 \cup [left : BOOLEAN, right : {0}, under : {NoPart}, icon : {0}]
                 \cup [left : {FALSE}, right : Sizes, under : {NoPart}, icon : {-1}]

DeskNext == \/ Serve
            \/ \E c \in Clients : ClientStep(c) \/ GUI_UpdateWindow(c) \/ kill_client(c)
            \/ \E k \in {"alt-q", "alt-n", "alt-h", "a"} : type_key(k)
            \/ \E e \in MouseEvents : use_mouse(e)

\* The server and the clients' loops run whenever poll finds something: weak
\* fairness of Serve and of ClientStep(c), with the states where they are enabled
\* and the steps they take written out.  Only Serve moves srv; a client moves by
\* itself but for its start and its death, which happen once.
ServeReady == \/ srv.pc = "parse"
              \/ srv.pc = "poll" /\ \E i \in 0..(NumFds - 1) : PollResult[i] # "none"
ClientReady(c) == \/ cl[c].st \in {"connect", "open"}
                  \/ cl[c].st = "run" /\ ch[c].down # <<>>
ClientMoves(c) == (cl[c])' # cl[c] \/ Len((ch[c].down)') < Len(ch[c].down)
DeskFair == /\ []<>~ServeReady \/ []<><<srv' # srv>>_desk_vars
            /\ \A c \in Clients : []<>~ClientReady(c) \/ []<><<ClientMoves(c)>>_desk_vars
DeskSpec == DeskInit /\ [][DeskNext]_desk_vars /\ DeskFair
----------------------------------------------------------------------------
Alive == srv.pc # "dead"

\* The server's lists agree: every window on the list has one slot and every
\* slot a window, so the assertion on get_window holds and no window is freed
\* twice; the focus is on a window of the list, and nowhere only when there is
\* none, so no key is sent through a freed window.
WindowsMatchSlots ==
  /\ slots \in [WindowSlots -> Clients \cup {NoClient}]
  /\ Len(ws.z) = Cardinality(ToSet(ws.z))
  /\ \A c \in Clients : Cardinality({i \in WindowSlots : slots[i] = c})
                          = IF c \in ToSet(ws.z) THEN 1 ELSE 0
  /\ ws.map \subseteq ToSet(ws.z) /\ ws.mini \subseteq ws.map
  /\ ws.active \in ToSet(ws.z) \cup (IF ws.z = <<>> THEN {NoClient} ELSE {})

\* The messages a fifo holds, cut where their types say they end.
MessageLen == [t \in {"update", "resize", "create"} |->
                 CASE t = "update" -> 1 [] t = "resize" -> 2 [] OTHER -> 3]
Framed(q) ==
  LET from[i \in 1..(Len(q) + 3)] ==
        \/ i = Len(q) + 1
        \/ i <= Len(q) /\ from[i + MessageLen[q[i]]]
  IN from[1]

\* Whatever is written while the server is behind, its next read starts at a
\* message: the fifo takes a message whole or not at all, and the server takes
\* whole messages.
InFrame == \A c \in Clients : Framed(ch[c].up)

\* When a running client and the server have nothing left to tell each other,
\* they agree on the size of the window, which is the row length with which both
\* address the shared bitmap, unless the message about it was refused or could
\* not be acted on.
SizesAgree ==
  \A c \in Clients : (/\ cl[c].st = "run" /\ c \in ws.map /\ c \notin unsized
                      /\ ch[c].up = <<>>) => ws.size[c] = cl[c].size

\* A client whose connection was not overwritten by another one before accept
\* gets its window, or dies, or the server does.
WindowAppears ==
  \A c \in Clients : cl[c].st = "open" ~>
    (c \in ws.map \/ c \in displaced \/ cl[c].st = "gone" \/ ~Alive
       \/ slots[NumFds - 1] = c)

\* The window of a client that is gone disappears, unless it is in the last
\* slot, which the loop never looks at.
DeadWindowGoes ==
  \A c \in Clients : cl[c].st = "gone" ~>
    (c \notin ToSet(ws.z) \/ ~Alive \/ slots[NumFds - 1] = c)

\* Through every order of connections, messages, input and deaths the lists of ws.c
\* agree, each fifo is read at the start of a message, and a resized window has one
\* size on both sides (add_window, kill_window, parse_window_event, tmp_write).
DesktopSound == WindowsMatchSlots /\ InFrame /\ SizesAgree

\* Windows come and go with their clients, though what poll reported is stale by the
\* time the loop of ws.c serves it (accept on the listening socket, POLLHUP).
WindowsFollow == WindowAppears /\ DeadWindowGoes
=============================================================================
