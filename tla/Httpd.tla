------------------------------- MODULE Httpd -------------------------------
(***************************************************************************)
(* userland/httpd/httpd.c: one process serves all its connections from an   *)
(* event queue with nonblocking sockets.  A request is two cells, the last  *)
(* of them the blank line; a header is two cells, a block of a file (8192   *)
(* bytes) is HBlock cells.  A client's window limits what a write takes.    *)
(***************************************************************************)
EXTENDS EventQueue

CONSTANTS HClients,   \* clients
          HKinds,     \* what a request may name: Dir, Missing or a file of n cells
          HBlock,     \* cells sendfile moves at a time
          HWindow,    \* cells a client takes before it must read
          HRequests   \* bound: requests of all clients

VARIABLES hq,     \* the queue's entries
          hfds,   \* descriptor table: what each descriptor is
          hreq,   \* struct http_request by number; freed ones stay, marked
          hev,    \* events still to be handled of this round
          hcl,    \* clients and their sockets
          hasked, \* requests sent
          hcut    \* clients part of whose response was dropped by a short write

Dir     == -1
Missing == -2

http_vars == <<hq, hfds, hreq, hev, hcl, hasked, hcut>>

Nothing == [is |-> "free", of |-> 0]
Thing(is, of) == [is |-> is, of |-> of]
OpenFds == {d \in 1..Len(hfds) : hfds[d] # Nothing}
\* The lowest free descriptor takes a new file or connection.
NewFd(t) == LET f == {d \in 1..Len(t) : t[d] = Nothing}
            IN IF f = {} THEN Len(t) + 1 ELSE Min(f)
WithFd(t, thing) == LET d == NewFd(t)
                    IN IF d > Len(t) THEN Append(t, thing) ELSE [t EXCEPT ![d] = thing]

\* tcp_has_data, tcp_can_write, tcp_is_open; and a connection to accept.
HReady(d) ==
  IF hfds[d].is = "listen"
  THEN IF \E c \in HClients : hcl[c].at = "connecting" THEN {"read"} ELSE {}
  ELSE IF hfds[d].is # "sock" THEN {}
  ELSE LET c == hcl[hfds[d].of]
       IN (IF c.in # <<>> \/ c.at = "gone" THEN {"read"} ELSE {})
          \cup (IF c.at = "open" /\ c.room > 0 THEN {"write"} ELSE {})
          \cup (IF c.at = "gone" THEN {"close"} ELSE {})

ForRequest == {"read", "close"}
ForResponse == {"write", "close"}
----------------------------------------------------------------------------
\* httpd_loop: a round begins when there is an event.
http_queue_wait ==
  /\ hev = <<>>
  /\ hev' = queue_get_entries(hq, [d \in OpenFds |-> HReady(d)]) /\ hev' # <<>>
  /\ UNCHANGED <<hq, hfds, hreq, hcl, hasked, hcut>>

\* httpd_handle_incoming: accept until there is no one left.
httpd_handle_incoming ==
  /\ hev # <<>> /\ hev[1].data = 0
  /\ \/ /\ \A c \in HClients : hcl[c].at # "connecting"
        /\ hev' = Tail(hev) /\ UNCHANGED <<hq, hfds, hreq, hcl>>
     \/ \E c \in HClients :
          /\ hcl[c].at = "connecting"
          /\ LET d == NewFd(hfds)
             IN /\ hfds' = WithFd(hfds, Thing("sock", c))
                /\ hreq' = Append(hreq, [live |-> TRUE, state |-> "get", sock |-> d, file |-> 0,
                                         dir |-> FALSE, buf |-> <<>>, hdr |-> 0, pos |-> 0])
                /\ hq' = queue_add(hq, [fd |-> d, listen |-> ForRequest, data |-> Len(hreq')])
          /\ hcl' = [hcl EXCEPT ![c].at = "open"]
          /\ UNCHANGED hev
  /\ UNCHANGED <<hasked, hcut>>

\* The event being handled, its request and its client.
Ev == hev[1]
Rq == hreq[Ev.data]
Cl == hfds[Ev.fd].of
Handling(state) == /\ hev # <<>> /\ hev[1].data # 0
                   /\ hfds[Ev.fd].is = "sock" /\ Rq.live /\ Rq.state = state
Return == hev' = Tail(hev)
Keep(r) == hreq' = [hreq EXCEPT ![Ev.data] = r]

\* free, close and the removal of the entry.  The file being sent stays open,
\* except for a directory that was closed before the write failed.
end_connection(closed) ==
  /\ Keep([Rq EXCEPT !.live = FALSE])
  /\ hfds' = [d \in 1..Len(hfds) |-> IF d \in closed \cup {Ev.fd} THEN Nothing ELSE hfds[d]]
  /\ hcl' = [hcl EXCEPT ![Cl].at = "gone"]
  /\ hq' = queue_delete(hq, Ev.fd)
  /\ Return

\* request_reinit
Again(r) == [r EXCEPT !.state = "get", !.buf = <<>>]
Listen(listen) == hq' = queue_change(hq, [Ev EXCEPT !.listen = listen])

\* Mutant: header_sent keeps its value from the response before.
parse_incoming_request_bug(r, kind) ==
  [r EXCEPT !.dir = (kind = Dir), !.pos = 0, !.state = "header",
            !.file = IF kind = Missing THEN 0 ELSE NewFd(hfds)]

\* parse_incoming_request: what is named is opened.
parse_incoming_request(r, kind) ==
  [r EXCEPT !.dir = (kind = Dir), !.hdr = 0, !.pos = 0, !.state = "header",
            !.file = IF kind = Missing THEN 0 ELSE NewFd(hfds)]

\* httpd_handle_client in REQUEST_GET_DATA.
handle_get ==
  /\ Handling("get")
  /\ LET c == hcl[Cl]
         b == Rq.buf \o c.in
     IN IF c.in = <<>>
        THEN IF c.at = "gone" THEN end_connection({})
             ELSE Return /\ UNCHANGED <<hq, hfds, hreq, hcl>>
        ELSE /\ hcl' = [hcl EXCEPT ![Cl].in = <<>>]
             /\ IF Last(b) # "end"
                THEN Keep([Rq EXCEPT !.buf = b]) /\ Return /\ UNCHANGED <<hq, hfds>>
                ELSE /\ Listen(ForResponse)
                     /\ Keep(parse_incoming_request([Rq EXCEPT !.buf = b], c.kind))
                     /\ hfds' = IF c.kind = Missing THEN hfds
                                ELSE WithFd(hfds, Thing("file", c.kind))
                     /\ UNCHANGED hev
  /\ UNCHANGED <<hasked, hcut>>

Header == <<<<"header", 1>>, <<"header", 2>>>>
Listing == <<<<"listing", 1>>>>

\* tcp_write takes what the window has room for.
Taken(n) == Min({n, hcl[Cl].room})
Sent(n, cells) == [hcl EXCEPT ![Cl].room = @ - n,
                              ![Cl].got = @ \o SubSeq(cells, 1, n)]

\* REQUEST_SEND_HEADER.  After a short write the rest is not sent; without a
\* file the message is part of the header and the request is over before the
\* write, but the state goes on to REQUEST_SEND_DATA after it.
handle_header ==
  /\ Handling("header")
  /\ LET over == Rq.file = 0
         r    == IF over THEN Again(Rq) ELSE Rq
         n    == Taken(2 - Rq.hdr)
     IN IF hcl[Cl].at = "gone" THEN end_connection({}) /\ UNCHANGED hcut
        ELSE /\ IF over THEN Listen(ForRequest) ELSE UNCHANGED hq
             /\ UNCHANGED hfds
             /\ IF n = 0 /\ Rq.hdr < 2
                THEN /\ Keep(r) /\ Return /\ UNCHANGED hcl
                     /\ hcut' = IF over THEN hcut \cup {Cl} ELSE hcut
                ELSE /\ hcl' = Sent(n, SubSeq(Header, Rq.hdr + 1, 2))
                     /\ Keep([r EXCEPT !.state = "data", !.hdr = @ + n])
                     /\ hcut' = IF Rq.hdr + n < 2 THEN hcut \cup {Cl} ELSE hcut
                     /\ UNCHANGED hev
  /\ UNCHANGED hasked

\* REQUEST_SEND_DATA of a directory: one write, whatever it takes.
handle_listing ==
  /\ Handling("data") /\ Rq.dir
  /\ LET n == Taken(1)
     IN IF hcl[Cl].at = "gone"
        THEN end_connection({Rq.file}) /\ UNCHANGED hcut
        ELSE /\ hfds' = [hfds EXCEPT ![Rq.file] = Nothing]
             /\ Keep([Again(Rq) EXCEPT !.file = 0])
             /\ Listen(ForRequest)
             /\ hcl' = Sent(n, Listing)
             /\ hcut' = IF n = 0 THEN hcut \cup {Cl} ELSE hcut
             /\ Return
  /\ UNCHANGED hasked

\* Mutant: a short sendfile is taken for the end of the file.
FileDoneBug(n, left, room) == n < HBlock

\* sendfile moves a block; it stops early at the end of the file or, with an
\* error, at the end of the window.
FileDone(n, left, room) == n < HBlock /\ n = left

handle_file ==
  /\ Handling("data") /\ ~Rq.dir /\ Rq.file # 0
  /\ LET left == hfds[Rq.file].of - Rq.pos
         want == Min({HBlock, left})
         n    == Taken(want)
         r    == [Rq EXCEPT !.pos = @ + n]
     IN IF hcl[Cl].at = "gone" /\ left > 0 THEN end_connection({})
        ELSE /\ hcl' = Sent(n, [i \in 1..n |-> <<"d", Rq.pos + i>>])
             /\ Return
             /\ IF FileDone(n, left, hcl[Cl].room)
                THEN /\ hfds' = [hfds EXCEPT ![Rq.file] = Nothing]
                     /\ Keep([Again(r) EXCEPT !.file = 0]) /\ Listen(ForRequest)
                ELSE Keep(r) /\ UNCHANGED <<hq, hfds>>
  /\ UNCHANGED <<hasked, hcut>>

\* sendfile with descriptor -1 returns without setting err, which is then read:
\* it may look like success, like an error or like EWOULDBLOCK left from before.
handle_no_file ==
  /\ Handling("data") /\ ~Rq.dir /\ Rq.file = 0
  /\ \/ Keep(Again(Rq)) /\ Listen(ForRequest) /\ Return /\ UNCHANGED <<hfds, hcl, hcut>>
     \/ end_connection({}) /\ UNCHANGED hcut
     \/ /\ Return /\ hcut' = hcut \cup {Cl}
        /\ UNCHANGED <<hq, hfds, hreq, hcl>>
  /\ UNCHANGED hasked
----------------------------------------------------------------------------
\* A client connects, sends a request in one piece or two, reads, goes away.
client_connects(c) ==
  /\ hcl[c].at = "none"
  /\ hcl' = [hcl EXCEPT ![c].at = "connecting"]
  /\ UNCHANGED <<hq, hfds, hreq, hev, hasked, hcut>>

client_asks(c, kind, whole) ==
  /\ hcl[c].at = "open" /\ hasked < HRequests /\ hcl[c].phase = "idle"
  /\ hasked' = hasked + 1
  /\ hcl' = [hcl EXCEPT ![c].kind = kind, ![c].got = <<>>,
                        ![c].phase = IF whole THEN "waiting" ELSE "half",
                        ![c].in = IF whole THEN <<"get", "end">> ELSE <<"get">>]
  /\ UNCHANGED <<hq, hfds, hreq, hev, hcut>>

client_ends(c) ==
  /\ hcl[c].at = "open" /\ hcl[c].phase = "half"
  /\ hcl' = [hcl EXCEPT ![c].phase = "waiting", ![c].in = Append(@, "end")]
  /\ UNCHANGED <<hq, hfds, hreq, hev, hasked, hcut>>

Response(kind) == Header \o (IF kind = Dir THEN Listing
                                      ELSE IF kind = Missing THEN <<>>
                                      ELSE [i \in 1..kind |-> <<"d", i>>])

client_reads(c) ==
  /\ hcl[c].at = "open" /\ hcl[c].room < HWindow
  /\ hcl' = [hcl EXCEPT ![c].room = HWindow]
  /\ UNCHANGED <<hq, hfds, hreq, hev, hasked, hcut>>

\* The response is complete by its Content-Length.
client_done(c) ==
  /\ hcl[c].at = "open" /\ hcl[c].phase = "waiting"
  /\ hcl[c].got = Response(hcl[c].kind)
  /\ hcl' = [hcl EXCEPT ![c].phase = "idle"]
  /\ UNCHANGED <<hq, hfds, hreq, hev, hasked, hcut>>

client_leaves(c) ==
  /\ hcl[c].at = "open"
  /\ hcl' = [hcl EXCEPT ![c].at = "gone"]
  /\ UNCHANGED <<hq, hfds, hreq, hev, hasked, hcut>>

HttpInit ==
  /\ hfds = <<Thing("listen", 0)>>
  /\ hq = queue_add(relist_init, [fd |-> 1, listen |-> {"read"}, data |-> 0])
  /\ hreq = <<>> /\ hev = <<>> /\ hasked = 0 /\ hcut = {}
  /\ hcl = [c \in HClients |-> [at |-> "none", phase |-> "idle", kind |-> Missing, in |-> <<>>,
                                got |-> <<>>, room |-> HWindow]]

Httpd == \/ http_queue_wait \/ httpd_handle_incoming \/ handle_get \/ handle_header
         \/ handle_listing \/ handle_file \/ handle_no_file
HttpNext == \/ Httpd
            \/ \E c \in HClients : \/ client_connects(c) \/ client_ends(c) \/ client_reads(c)
                                   \/ client_done(c) \/ client_leaves(c)
                                   \/ \E k \in HKinds, w \in BOOLEAN : client_asks(c, k, w)

\* The process runs and clients read: weak fairness of Httpd (written out as its
\* enabling condition and the variables only its steps change) and of client_reads.
HttpReady == hev # <<>> \/ queue_get_entries(hq, [d \in OpenFds |-> HReady(d)]) # <<>>
HttpStep == hev' # hev \/ hreq' # hreq \/ hq' # hq \/ hfds' # hfds
HttpFairness == /\ []<>(~HttpReady) \/ []<><<HttpStep>>_http_vars
                /\ \A c \in HClients : WF_http_vars(client_reads(c))
----------------------------------------------------------------------------
\* No event is handled with a request that end_connection has freed, or with a
\* descriptor that has become another file's since queue_wait.
NoFreedRequest ==
  \A i \in 1..Len(hev) : hev[i].data # 0 =>
     /\ hreq[hev[i].data].live /\ hreq[hev[i].data].sock = hev[i].fd
     /\ hfds[hev[i].fd].is = "sock"

\* What a client has received is a prefix of the response to its request, unless
\* the header met a window shorter than itself or err was read unset.
ResponsesInOrder == \A c \in HClients \ hcut : IsPrefix(hcl[c].got, Response(hcl[c].kind))

\* Every event of a round is about a live request, though earlier events of the round
\* close connections, and every client is sent its own response (the main loop,
\* end_connection, parse_incoming_request).
RequestsSound == NoFreedRequest /\ ResponsesInOrder

\* And the response comes in full, if the client stays and reads.
ResponseComes ==
  \A c \in HClients : hcl[c].phase = "waiting"
                      ~> \/ hcl[c].got = Response(hcl[c].kind)
                         \/ hcl[c].at = "gone" \/ c \in hcut
=============================================================================
