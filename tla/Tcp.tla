-------------------------------- MODULE Tcp --------------------------------
(***************************************************************************)
(* kernel/network/tcp.c and the TCP half of kernel/socket.c: two machines   *)
(* that run this kernel, a client that connects to a server's listening     *)
(* socket, and the network between them.                                    *)
(*                                                                          *)
(* Handlers and the timer run with interrupts off, and so do the socket     *)
(* calls up to a switch_task: each is one step.  The ring buffers are byte   *)
(* sequences with a capacity (what module RingBuffer shows of them).        *)
(* A segment that fails a checksum or finds no connection is a lost one.    *)
(***************************************************************************)
EXTENDS Integers, FiniteSets, FiniteSetsExt, SequencesExt

CONSTANTS MaxKids,   \* bound on the connections that SYNs create on the server
          Wnd,       \* rcv_wnd, the window every segment advertises (65535)
          Seg,       \* payload bytes of one packet (1000)
          InCap,     \* bytes an incoming_buffer holds
          OutCap,    \* bytes an outgoing_buffer holds (8191)
          Lens,      \* lengths that programs read and write
          ClientBytes, ServerBytes,  \* bounds on the bytes written on each machine
          Lossy      \* the network loses, duplicates and reorders segments

ASSUME TcpAssumption ==
  /\ MaxKids \in Nat \ {0} /\ Wnd \in 1..65535 /\ Seg \in Nat \ {0}
  /\ InCap \in Nat \ {0} /\ OutCap \in Nat \ {0} /\ Lens \subseteq Nat \ {0}
  /\ ClientBytes \in Nat /\ ServerBytes \in Nat /\ Lossy \in BOOLEAN

VARIABLES con,       \* the TcpConnections: 0 on the client, 1.. on the server
          table,     \* open_tcp_connections of each machine, slot by slot
          backlog,   \* incoming_connections of the listening socket
          open,      \* the connections that a file descriptor refers to
          pc,        \* the client: "start", "connecting", "done" or "assert"
          no_delay,  \* TCP_NODELAY
          net        \* what is on its way to each machine: a queue, or the set of
                     \* all segments ever sent when the network is lossy

vars == <<con, table, backlog, open, pc, no_delay, net>>

Hosts == {"C", "S"}
Kids == 1..MaxKids
Conns == 0..MaxKids
Empty == MaxKids + 1                     \* a free slot of a relist
Host(c) == IF c = 0 THEN "C" ELSE "S"
Other(h) == IF h = "C" THEN "S" ELSE "C"

\* A structure filled in by tcp_connect or tcp_connect_to_listen.
Fresh(state, wnd) ==
  [state |-> state, rcv_nxt |-> 0, snd_una |-> 0,
   snd_nxt |-> 0,    \* and snd_max, its maximum: nothing is ever sent again
   snd_wnd |-> wnd, should_send_ack |-> FALSE, in |-> <<>>, out |-> <<>>,
   sent |-> <<>>,    \* ghost: the bytes put into packets
   written |-> <<>>, \* ghost: the bytes for which tcp_write reported success
   got |-> <<>>,     \* ghost: the bytes tcp_read returned
   half |-> FALSE]   \* ghost: closed before the handshake was over

\* relist_add: the first free slot, else a new one.
Place(slots, c) ==
  LET free == {i \in DOMAIN slots : slots[i] = Empty}
  IN IF free = {} THEN Append(slots, c) ELSE [slots EXCEPT ![Min(free)] = c]

\* Mutant: a connection that is destroyed stays in the list.
VacateBug(slots, c) == slots

\* relist_remove.
Vacate(slots, c) == [i \in DOMAIN slots |-> IF slots[i] = c THEN Empty ELSE slots[i]]

Live(h) == SelectSeq(table[h], LAMBDA c : c # Empty)

Transit(h, segs) == IF Lossy THEN [net EXCEPT ![h] = @ \cup ToSet(segs)]
                             ELSE [net EXCEPT ![h] = @ \o segs]
----------------------------------------------------------------------------
\* tcp_send_empty_payload: the segment and the connection after it.
Control(k, flags) ==
  <<[flags |-> flags, seq |-> k.snd_nxt,
     ack |-> IF "ACK" \in flags THEN k.rcv_nxt ELSE 0, data |-> <<>>]>>
AfterControl(k, flags) ==
  [k EXCEPT !.snd_nxt = @ + Cardinality(flags \cap {"SYN", "FIN"}),
            !.should_send_ack = @ /\ "ACK" \notin flags]

\* tcp_can_send: a u16.
tcp_can_send(k) == (k.snd_una + k.snd_wnd - k.snd_nxt) % 65536

\* send_tcp_packet gets as far as its i-th packet: the window, tested before
\* each of them, was not exactly used up.
Fits(k, i) == \A j \in 0..(i - 1) : tcp_can_send([k EXCEPT !.snd_nxt = @ + j * Seg]) # 0

\* send_tcp_packet(k, p): the number of packets sent out of those it takes, the
\* packets, the connection after them, and whether all of p was sent.
Number(p) == (Len(p) + Seg - 1) \div Seg
Sent(k, p) == Cardinality({i \in 1..Number(p) : Fits(k, i)})
Packets(k, p) ==
  [i \in 1..Sent(k, p) |->
     [flags |-> {"ACK"}, seq |-> k.snd_nxt + (i - 1) * Seg, ack |-> k.rcv_nxt,
      data |-> SubSeq(p, (i - 1) * Seg + 1, Min({i * Seg, Len(p)}))]]
AfterPackets(k, p) ==
  LET n == Min({Sent(k, p) * Seg, Len(p)})
  IN [k EXCEPT !.snd_nxt = @ + n, !.sent = @ \o SubSeq(p, 1, n),
               !.should_send_ack = @ /\ n = 0]
AllSent(k, p) == Sent(k, p) = Number(p)

\* tcp_sync_buffer: what it takes from outgoing_buffer and sends.
Taken(k) == SubSeq(k.out, 1, Min({tcp_can_send(k), Len(k.out)}))
AfterSync(k) ==
  [AfterPackets(k, Taken(k)) EXCEPT !.out = SubSeq(@, Len(Taken(k)) + 1, Len(@))]
Synced(k) == k.out # <<>> /\ Taken(k) = k.out
----------------------------------------------------------------------------
\* socket and connect; a non-blocking connect returns at once.
tcp_connect(nonblocking) ==
  /\ pc = "start"
  /\ LET k == Fresh("SYN_SENT", OutCap)
     IN /\ con' = [con EXCEPT ![0] = AfterControl(k, {"SYN"})]
        /\ net' = Transit("S", Control(k, {"SYN"}))
  /\ table' = [table EXCEPT !["C"] = Place(@, 0)]
  /\ open' = open \cup {0}
  /\ pc' = IF nonblocking THEN "done" ELSE "connecting"
  /\ UNCHANGED <<backlog, no_delay>>

\* The loop of tcp_connect after switch_task, with the assertion at its end.
connect_loop ==
  /\ pc = "connecting" /\ con[0].state # "SYN_SENT"
  /\ pc' = IF con[0].state = "ESTABLISHED" THEN "done" ELSE "assert"
  /\ UNCHANGED <<con, table, backlog, open, no_delay, net>>

\* Using a descriptor: the client's program waits in connect until it is done.
Uses(c) == c \in open /\ (c = 0 => pc = "done")

\* accept: the first incoming connection, whatever has become of it since.
accept ==
  \E i \in DOMAIN backlog :
    /\ backlog[i] # Empty /\ \A j \in 1..(i - 1) : backlog[j] = Empty
    /\ backlog' = Vacate(backlog, backlog[i])
    /\ open' = open \cup {backlog[i]}
    /\ UNCHANGED <<con, table, pc, no_delay, net>>

tcp_read(c, n) ==
  /\ Uses(c) /\ con[c].in # <<>>
  /\ LET m == Min({n, Len(con[c].in)})
     IN con' = [con EXCEPT ![c].got = @ \o SubSeq(con[c].in, 1, m),
                           ![c].in = SubSeq(@, m + 1, Len(@))]
  /\ UNCHANGED <<table, backlog, open, pc, no_delay, net>>

\* tcp_write takes no more than the window allows.
Accepted(k, n) == Min({n, tcp_can_send(k)})

\* The bytes that the program writes next.
Payload(c, n) == [i \in 1..n |-> <<c, Len(con[c].written) + i>>]

\* tcp_write(c, n).  With TCP_NODELAY, and when outgoing_buffer has no room, the
\* bytes are sent at once; a call that fails half-way is made again later.
tcp_write(c, n) ==
  /\ Uses(c) /\ con[c].state = "ESTABLISHED" /\ tcp_can_send(con[c]) # 0
  /\ Len(con[c].written) + n <= IF c = 0 THEN ClientBytes ELSE ServerBytes
  /\ LET p == Payload(c, Accepted(con[c], n))
         Now(k) == /\ con' = [con EXCEPT ![c] =
                        [AfterPackets(k, p) EXCEPT
                           !.written = IF AllSent(k, p) THEN @ \o p ELSE @]]
                   /\ net' = Transit(Other(Host(c)),
                               (IF k = con[c] THEN <<>> ELSE Packets(con[c], Taken(con[c])))
                               \o Packets(k, p))
     IN \/ no_delay /\ Now(con[c])
        \/ /\ ~no_delay /\ OutCap - Len(con[c].out) < Len(p)
           /\ IF Synced(con[c]) THEN Now(AfterSync(con[c]))
              ELSE /\ con' = [con EXCEPT ![c] = AfterSync(con[c])]
                   /\ net' = Transit(Other(Host(c)), Packets(con[c], Taken(con[c])))
        \/ /\ ~no_delay /\ OutCap - Len(con[c].out) >= Len(p)
           /\ con' = [con EXCEPT ![c].out = @ \o p, ![c].written = @ \o p]
           /\ UNCHANGED net
  /\ UNCHANGED <<table, backlog, open, pc, no_delay>>

\* tcp_remove_connection, and ringbuffer_free in tcp_strip_connection.
Stripped(k) == [k EXCEPT !.in = <<>>, !.out = <<>>]
Freed(k) == [Stripped(k) EXCEPT !.state = "freed"]

\* The state in which tcp_close_connection leaves a connection: destroyed once
\* the other side has closed it, or when it was never accepted by the peer.
CloseState(k) == IF k.state \in {"CLOSE_WAIT", "SYN_SENT"} THEN "freed" ELSE "FIN_WAIT1"

\* tcp_close, from vfs_close on the last descriptor.
tcp_close(c) ==
  /\ Uses(c) /\ open' = open \ {c}
  /\ LET k == con[c]
         up == k.state = "ESTABLISHED"
         flags == CASE up -> {"FIN", "ACK"}
                    [] k.state \in {"CLOSE_WAIT", "SYN_RECIEVED"} -> {"FIN"}
                    [] OTHER -> {}
         j == IF up THEN Stripped(AfterSync(k)) ELSE k
         end == [AfterControl(j, flags) EXCEPT !.state = CloseState(k),
                                               !.half = k.state = "SYN_RECIEVED"]
     IN /\ con' = [con EXCEPT ![c] = IF end.state = "freed" THEN Freed(end) ELSE end]
        /\ table' = IF end.state = "freed"
                    THEN [table EXCEPT ![Host(c)] = Vacate(@, c)] ELSE table
        /\ net' = Transit(Other(Host(c)),
                    (IF up THEN Packets(k, Taken(k)) ELSE <<>>)
                    \o (IF flags = {} THEN <<>> ELSE Control(j, flags)))
  /\ UNCHANGED <<backlog, pc, no_delay>>
----------------------------------------------------------------------------
\* Mutant: only TIME_WAIT is cleaned up.
GoneBug(h) == {c \in ToSet(Live(h)) : con[c].state = "TIME_WAIT"}

\* int_clock: tcp_flush_buffers removes what has been closed on both sides and
\* sends what is buffered, then tcp_flush_acks sends the pending ACKs.
Gone(h) == {c \in ToSet(Live(h)) : con[c].state \in {"TIME_WAIT", "FIN_WAIT2"}}
Flushed(c) == IF con[c].state = "ESTABLISHED" THEN AfterSync(con[c]) ELSE con[c]

tcp_flush(h) ==
  LET rest == SelectSeq(Live(h), LAMBDA c : c \notin Gone(h))
      acks == SelectSeq(rest, LAMBDA c : Flushed(c).should_send_ack)
      Sync(c) == IF con[c].state = "ESTABLISHED" THEN Packets(con[c], Taken(con[c])) ELSE <<>>
      Ack(c) == Control(Flushed(c), {"ACK"})
  IN /\ con' = [c \in Conns |->
                  CASE c \in Gone(h) -> Freed(con[c])
                    [] c \in ToSet(rest) -> [Flushed(c) EXCEPT !.should_send_ack = FALSE]
                    [] OTHER -> con[c]]
     /\ table' = [table EXCEPT ![h] =
                    [i \in DOMAIN @ |-> IF @[i] \in Gone(h) THEN Empty ELSE @[i]]]
     /\ net' = Transit(Other(h), FlattenSeq([i \in DOMAIN rest |-> Sync(rest[i])])
                                 \o FlattenSeq([i \in DOMAIN acks |-> Ack(acks[i])]))
     /\ UNCHANGED <<backlog, open, pc, no_delay>>

int_clock(h) == tcp_flush(h) /\ <<con', table'>> # <<con, table>>
----------------------------------------------------------------------------
Counted(m) == Cardinality(m.flags \cap {"SYN", "FIN"})

\* Mutant: a segment that starts before rcv_nxt is taken too.
ExpectedBug(k, m) == m.seq <= k.rcv_nxt

\* Only the segment that continues the stream is looked at.
Expected(k, m) == m.seq = k.rcv_nxt

Plausible(k, m) == m.ack <= k.snd_nxt /\ m.ack >= k.snd_una

\* Mutant: stored bytes are not acknowledged.
StoreDataAckBug(k, m) ==
  IF m.data = <<>> \/ Len(m.data) > InCap - Len(k.in) THEN k
  ELSE [k EXCEPT !.in = @ \o m.data, !.rcv_nxt = @ + Len(m.data)]

\* ESTABLISHED with payload: all of it or, for want of room, nothing.
StoreData(k, m) ==
  IF m.data = <<>> \/ Len(m.data) > InCap - Len(k.in) THEN k
  ELSE [k EXCEPT !.in = @ \o m.data, !.rcv_nxt = @ + Len(m.data), !.should_send_ack = TRUE]

\* The switch of handle_tcp: [the connection, the flags of the answer].
Switch(k, m) ==
  LET To(state, reply) == [k |-> [k EXCEPT !.state = state], reply |-> reply]
      ack == "ACK" \in m.flags
      fin == "FIN" \in m.flags
      syn == "SYN" \in m.flags
  IN CASE k.state = "LISTEN" -> To("SYN_RECIEVED", {"SYN", "ACK"})
       [] k.state = "SYN_RECIEVED" /\ ack -> To("ESTABLISHED", {})
       [] k.state = "SYN_SENT" /\ ack /\ syn -> To("ESTABLISHED", {"ACK"})
       [] k.state = "ESTABLISHED" /\ fin -> To("CLOSE_WAIT", {"ACK"})
       [] k.state = "ESTABLISHED" /\ ~fin -> [k |-> StoreData(k, m), reply |-> {}]
       [] k.state = "FIN_WAIT1" /\ ack /\ fin -> To("TIME_WAIT", {"ACK"})
       [] k.state = "FIN_WAIT1" /\ ack /\ ~fin -> To("FIN_WAIT2", {})
       [] k.state = "FIN_WAIT1" /\ ~ack /\ fin -> To("CLOSING", {"ACK"})
       [] k.state = "FIN_WAIT2" /\ fin -> To("freed", {"ACK"})
       [] OTHER -> [k |-> k, reply |-> {}]

\* handle_tcp once it has its connection: what that holds afterwards and the
\* answer.  A segment in LISTEN or SYN_SENT sets rcv_nxt before anything is tested.
Handled(k, m) ==
  LET k1 == IF k.state \in {"LISTEN", "SYN_SENT"} THEN [k EXCEPT !.rcv_nxt = m.seq] ELSE k
      k2 == [k1 EXCEPT !.snd_wnd = Wnd, !.snd_una = m.ack, !.rcv_nxt = @ + Counted(m)]
      s == Switch(k2, m)
      end == AfterControl(s.k, s.reply)
  IN IF ~(Plausible(k1, m) /\ Expected(k1, m)) THEN [k |-> k1, out |-> <<>>]
     ELSE [k |-> IF end.state = "freed" THEN Freed(end) ELSE end,
           out |-> IF s.reply = {} THEN <<>> ELSE Control(s.k, s.reply)]

\* m arrives at h, whose answer is out.
Arrives(h, m, out) ==
  IF Lossy THEN m \in net[h] /\ net' = Transit(Other(h), out)
  ELSE /\ net[h] # <<>> /\ m = Head(net[h])
       /\ net' = [Transit(Other(h), out) EXCEPT ![h] = Tail(@)]

\* tcp_connect_to_listen: every SYN makes a connection of its own.
handle_syn(m) ==
  \E c \in Kids :
    /\ con[c].state = "none" /\ \A d \in Kids : d < c => con[d].state # "none"
    /\ m.flags = {"SYN"}
    /\ LET e == Handled(Fresh("LISTEN", 0), m)
       IN /\ Arrives("S", m, e.out)
          /\ con' = [con EXCEPT ![c] = e.k]
    /\ table' = [table EXCEPT !["S"] = Place(@, c)]
    /\ backlog' = Place(backlog, c)
    /\ UNCHANGED <<open, pc, no_delay>>

\* tcp_find_connection: the first in the table with these ports.
handle_tcp(h, m) ==
  /\ m.flags # {"SYN"} /\ Live(h) # <<>>
  /\ LET c == Head(Live(h))
         e == Handled(con[c], m)
     IN /\ Arrives(h, m, e.out)
        /\ con' = [con EXCEPT ![c] = e.k]
        /\ table' = IF e.k.state = "freed" THEN [table EXCEPT ![h] = Vacate(@, c)] ELSE table
  /\ UNCHANGED <<backlog, open, pc, no_delay>>

no_connection(h, m) == /\ m.flags # {"SYN"} /\ Live(h) = <<>> /\ ~Lossy
                       /\ Arrives(h, m, <<>>)
                       /\ UNCHANGED <<con, table, backlog, open, pc, no_delay>>

Receive(h) == \E m \in (IF Lossy THEN net[h] ELSE ToSet(net[h])) :
                (h = "S" /\ handle_syn(m)) \/ handle_tcp(h, m) \/ no_connection(h, m)

Init == /\ con = [c \in Conns |-> Fresh("none", 0)]
        /\ table = [h \in Hosts |-> <<>>] /\ backlog = <<>>
        /\ open = {} /\ pc = "start" /\ no_delay \in BOOLEAN
        /\ net = [h \in Hosts |-> IF Lossy THEN {} ELSE <<>>]

Next == \/ \E b \in BOOLEAN : tcp_connect(b)
        \/ connect_loop \/ accept
        \/ \E c \in Conns : \/ tcp_close(c)
                            \/ \E n \in Lens : tcp_read(c, n) \/ tcp_write(c, n)
        \/ \E h \in Hosts : int_clock(h) \/ Receive(h)

\* The timer keeps ticking and the network (when it is not lossy) delivers.
TcpFairness == \A h \in Hosts : WF_vars(int_clock(h)) /\ WF_vars(Receive(h))
Spec == Init /\ [][Next]_vars /\ TcpFairness
----------------------------------------------------------------------------
Segment == [flags : SUBSET {"SYN", "ACK", "FIN"}, seq : Nat, ack : Nat,
            data : Seq(Conns \X Nat)]
States == {"none", "SYN_SENT", "SYN_RECIEVED", "ESTABLISHED", "CLOSE_WAIT", "FIN_WAIT1",
           "FIN_WAIT2", "CLOSING", "TIME_WAIT", "freed"}

TypeOK ==
  /\ con \in [Conns -> [state : States, rcv_nxt : Nat, snd_una : Nat, snd_nxt : Nat,
                       snd_wnd : Nat, should_send_ack : BOOLEAN, half : BOOLEAN,
                       in : Seq(Conns \X Nat), out : Seq(Conns \X Nat), sent : Seq(Conns \X Nat),
                       written : Seq(Conns \X Nat), got : Seq(Conns \X Nat)]]
  /\ table \in [Hosts -> Seq(Conns \cup {Empty})] /\ backlog \in Seq(Kids \cup {Empty})
  /\ open \subseteq Conns /\ pc \in {"start", "connecting", "done", "assert"}
  /\ no_delay \in BOOLEAN
  /\ net \in [Hosts -> IF Lossy THEN SUBSET Segment ELSE Seq(Segment)]

Received(c) == con[c].got \o con[c].in
Born == {c \in Kids : con[c].state # "none"}

\* Who may be talking to c: the client to every connection of the server, and
\* the server's only one to the client.
Peers == {<<c, 0>> : c \in Born} \cup {<<0, c>> : c \in {c \in Born : Born = {c}}}

Up(c) == con[c].state \in {"ESTABLISHED", "CLOSE_WAIT"}

\* Whatever the network does, what a program has read followed by what waits in
\* incoming_buffer is a prefix of what the other machine sent, and rcv_nxt is
\* the sequence number after it (and after the FIN).
InOrder == \A p \in Peers :
  /\ IsPrefix(Received(p[1]), con[p[2]].sent)
  /\ Up(p[1]) => con[p[1]].rcv_nxt - Len(Received(p[1])) \in {1, 2}

\* The end of the stream is never seen early: a FIN is accepted only when every
\* byte that the other side sent has arrived.
EofComplete == \A p \in Peers :
  /\ Up(p[1]) /\ con[p[1]].rcv_nxt = Len(Received(p[1])) + 2 => Received(p[1]) = con[p[2]].sent
  /\ con[p[1]].state = "CLOSE_WAIT" => con[p[1]].rcv_nxt = Len(Received(p[1])) + 2

\* An acknowledgement is earned: snd_una never passes what some connection of
\* the other machine has received, and nobody receives what was not sent.
AckEarned ==
  /\ \E c \in Kids \cup {0} : con[0].snd_una <= con[c].rcv_nxt
  /\ \A p \in Peers : /\ con[p[1]].rcv_nxt <= con[p[2]].snd_nxt
                      /\ p[1] # 0 /\ Born = {p[1]} => con[p[1]].snd_una <= con[0].rcv_nxt

\* With TCP_NODELAY what was written is sent once and in order, and never more
\* than the window allows is unacknowledged.
NoDelayExact == no_delay => \A c \in Conns :
  /\ con[c].sent = con[c].written
  /\ con[c].state = "ESTABLISHED" => con[c].snd_nxt - con[c].snd_una <= con[c].snd_wnd

\* Whatever the network loses, repeats or reorders, a connection is a pair of exact
\* streams: no byte twice, missing or early, no end before the last byte, no
\* acknowledgement nobody earned (handle_tcp, tcp_write, tcp_read).
StreamExact == InOrder /\ EofComplete /\ AckEarned /\ NoDelayExact

\* No pointer leads to a freed TcpConnection: not the table that handle_tcp and
\* the timer walk, not a file descriptor, not the list that accept takes from.
NoDangling ==
  /\ TypeOK
  /\ \A c \in Conns : con[c].state = "freed" =>
       /\ \A h \in Hosts : c \notin ToSet(table[h])
       /\ c \notin open /\ c \notin ToSet(backlog)

ServerClosed == \E c \in Born : c \notin open /\ c \notin ToSet(backlog)

\* Over a network that delivers, every byte that tcp_write accepted gets to the
\* other machine, the buffered ones by the timer, unless a side closes first.
\* (The run gives incoming_buffer room for all: what does not fit is lost.)
Delivered == \A n \in 1..ClientBytes :
  Len(con[0].written) >= n
    ~> (\E c \in Kids : Len(Received(c)) >= n) \/ 0 \notin open \/ ServerClosed

\* ... and a close by the client is seen by the server and ends with the
\* connection freed, unless the server closed its side half-open.
CloseEnds ==
  con[0].state = "FIN_WAIT1"
    ~> \/ con[0].state = "freed" /\ \A c \in Kids : con[c].state # "ESTABLISHED"
       \/ \E c \in Kids : con[c].half

\* Asserted by tcp_connect: after switch_task the connection is still being set
\* up or is established.
ConnectAssert == pc # "assert"
=============================================================================
