----------------------------- MODULE UdpSocket -----------------------------
(***************************************************************************)
(* UDP sockets (kernel/network/udp.c and the udp_ functions of              *)
(* kernel/socket.c) and their user, the resolver of                         *)
(* userland/libc/netdb/getaddrinfo.c.  A socket keeps its datagrams in a    *)
(* byte ring, each behind its length and its sender's address; a cell       *)
(* stands for one of these or for one record of a DNS answer.  All programs *)
(* ask the same server, from the one local port 1337.                       *)
(***************************************************************************)
EXTENDS Integers, Sequences, SequencesExt, FiniteSets

CONSTANTS Progs,       \* programs that resolve names
          DnsNames,    \* the names they ask for
          RecordLists, \* the answers of a server: sequences of record types
          UdpCap,      \* size of incoming_buffer in cells
          ReadLen,     \* the length getaddrinfo reads
          MaxAsks      \* bound: calls of getaddrinfo

VARIABLES usocks,   \* open_udp_connections: [dead, buf]
          prog,     \* program -> [at, name, sock, rc, addr]
          asked,    \* queries at the server
          replies,  \* datagrams on their way to us
          asks,     \* calls made
          disturbed \* two sockets in use at once, or a datagram lost or duplicated

udp_vars == <<usocks, prog, asked, replies, asks, disturbed>>

\* A datagram in the ring: length, sender, contents.
Datagram(m) == <<[is |-> "len", of |-> Len(m.recs) + 1], [is |-> "from", of |-> 0]>>
               \o [i \in 1..Len(m.recs) |-> [is |-> m.recs[i], of |-> m.name]]

\* udp_find_connection: the first that is not dead; the ports are all alike.
udp_find_connection == {s \in 1..Len(usocks) : /\ ~usocks[s].dead
                                               /\ \A t \in 1..(s - 1) : usocks[t].dead}

ringbuffer_room(buf, n) == UdpCap - 1 - Len(buf) >= n + 1

\* What ringbuffer_write puts in when there is not room for all of it.
UdpCut(buf, more) == buf \o SubSeq(more, 1, IF UdpCap - 1 - Len(buf) < Len(more)
                                         THEN UdpCap - 1 - Len(buf) ELSE Len(more))

\* The datagram is taken whole by the socket it is for, or dropped.
handle_udp(m, again) ==
  /\ m \in replies /\ (again => ~disturbed)
  /\ usocks' = [s \in 1..Len(usocks) |->
                  IF s \in udp_find_connection /\ ringbuffer_room(usocks[s].buf, Len(m.recs) + 1)
                  THEN [usocks[s] EXCEPT !.buf = UdpCut(@, Datagram(m))]
                  ELSE usocks[s]]
  /\ replies' = IF again THEN replies ELSE replies \ {m}
  /\ disturbed' = (disturbed \/ again \/ udp_find_connection = {})
  /\ UNCHANGED <<prog, asked, asks>>

reply_lost(m) == /\ m \in replies
                 /\ replies' = replies \ {m} /\ disturbed' = TRUE
                 /\ UNCHANGED <<usocks, prog, asked, asks>>

server_answers(q, recs) == /\ q \in asked
                           /\ asked' = asked \ {q}
                           /\ replies' = replies \cup {[name |-> q.name, recs |-> recs, to |-> q.by]}
                           /\ UNCHANGED <<usocks, prog, asks, disturbed>>
----------------------------------------------------------------------------
NotYet == "none"

\* connect_dns and udp_connect.
udp_connect(p, name) ==
  /\ prog[p].at = "idle" /\ asks < MaxAsks
  /\ asks' = asks + 1
  /\ usocks' = Append(usocks, [dead |-> FALSE, buf |-> <<>>])
  /\ prog' = [prog EXCEPT ![p] = [at |-> "open", name |-> name, sock |-> Len(usocks'),
                                  rc |-> NotYet, addr |-> NotYet]]
  /\ disturbed' = (disturbed \/ \E s \in 1..Len(usocks) : ~usocks[s].dead)
  /\ UNCHANGED <<asked, replies>>

\* send_domain_request: always with id 0.
send_domain_request(p) ==
  /\ prog[p].at = "open"
  /\ asked' = asked \cup {[name |-> prog[p].name, by |-> p]}
  /\ prog' = [prog EXCEPT ![p].at = "wait"]
  /\ UNCHANGED <<usocks, replies, asks, disturbed>>

\* udp_recvfrom: the length, the sender, up to want cells; the rest is skipped.
recv(buf, want) ==
  LET rest == buf[1].of - 1
      take == IF rest < want THEN rest ELSE want
  IN [got |-> SubSeq(buf, 3, 2 + take), left |-> SubSeq(buf, 3 + rest, Len(buf))]

\* getaddrinfo's walk over the answers: the last address record stands.
answer(got) == FoldLeft(LAMBDA a, r : IF r.is = "A" THEN r.of ELSE a, NotYet, got)

\* Mutant: read gives up when nothing has come yet.
getaddrinfo_reads_bug(p) ==
  /\ prog[p].at = "wait"
  /\ LET b == usocks[prog[p].sock].buf
     IN prog' = [prog EXCEPT ![p].at = "done",
                             ![p].rc = IF b = <<>> THEN "EAI_FAIL" ELSE "0",
                             ![p].addr = IF b = <<>> THEN NotYet
                                         ELSE answer(recv(b, ReadLen).got)]
  /\ UNCHANGED <<usocks, asked, replies, asks, disturbed>>

\* read blocks until the socket has data (a lost reply is waited for for ever);
\* then the verdict, and the socket is closed.
getaddrinfo_reads(p) ==
  /\ prog[p].at = "wait" /\ usocks[prog[p].sock].buf # <<>>
  /\ LET r == recv(usocks[prog[p].sock].buf, ReadLen)
     IN /\ prog' = [prog EXCEPT ![p].at = "done",
                                ![p].rc = IF r.got = <<>> THEN "EAI_NONAME"
                                          ELSE IF r.got[1].is = "error" THEN "EAI_AGAIN"
                                          ELSE "0",
                                ![p].addr = IF r.got # <<>> /\ r.got[1].is # "error"
                                            THEN answer(r.got) ELSE NotYet]
        /\ usocks' = [usocks EXCEPT ![prog[p].sock].buf = r.left]
  /\ UNCHANGED <<asked, replies, asks, disturbed>>

udp_close(p) == /\ prog[p].at = "done"
                /\ usocks' = [usocks EXCEPT ![prog[p].sock].dead = TRUE]
                /\ prog' = [prog EXCEPT ![p].at = "idle"]
                /\ UNCHANGED <<asked, replies, asks, disturbed>>

UdpInit == /\ usocks = <<>> /\ asked = {} /\ replies = {} /\ asks = 0 /\ disturbed = FALSE
           /\ prog = [p \in Progs |-> [at |-> "idle", name |-> NotYet, sock |-> 0,
                                       rc |-> NotYet, addr |-> NotYet]]

Deliver == \E m \in replies : handle_udp(m, FALSE)
Answer == \E q \in asked, recs \in RecordLists : server_answers(q, recs)
UdpNext == \/ Answer
           \/ \E m \in replies : reply_lost(m) \/ \E again \in BOOLEAN : handle_udp(m, again)
           \/ \E p \in Progs : \/ \E name \in DnsNames : udp_connect(p, name)
                               \/ send_domain_request(p)
                               \/ getaddrinfo_reads(p)
                               \/ udp_close(p)

----------------------------------------------------------------------------
RECURSIVE WholeDatagrams(_)
WholeDatagrams(buf) ==
  \/ buf = <<>>
  \/ /\ buf[1].is = "len" /\ buf[1].of < Len(buf)
     /\ buf[2].is = "from"
     /\ \A i \in 3..(buf[1].of + 1) : buf[i].is \notin {"len", "from"}
     /\ WholeDatagrams(SubSeq(buf, buf[1].of + 2, Len(buf)))

\* Whatever is dropped for want of room, truncated by a short read or sent to
\* the wrong socket, a socket's ring holds whole datagrams, so udp_recvfrom
\* finds a length where it looks for one and its two assertions hold.
UdpFramed == \A s \in 1..Len(usocks) : WholeDatagrams(usocks[s].buf)

\* As long as one program resolves at a time and the network neither loses nor
\* duplicates, the address getaddrinfo returns is that of the name it was asked
\* for (the id of its queries, always 0, would not tell).
OwnAnswer == \A p \in Progs : prog[p].addr # NotYet /\ ~disturbed => prog[p].addr = prog[p].name

\* Datagrams stay whole in the ring of a socket (handle_udp against udp_recvfrom), and
\* a program that resolves a name is given that name's address (getaddrinfo).
DatagramsExact == UdpFramed /\ OwnAnswer
=============================================================================
