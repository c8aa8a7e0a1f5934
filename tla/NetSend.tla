------------------------------ MODULE NetSend ------------------------------
(***************************************************************************)
(* The way out: send_udp_packet / send_tcp_packet build an IPv4 packet, the *)
(* ARP table (network/arp.c) names the next hop's hardware address, and the *)
(* four transmit buffers of drivers/rtl8139.c hold the frames until the     *)
(* card has fetched them.  UDP builds its packet in the static ipv4_buffer  *)
(* and copies it; TCP builds it in the transmit buffer itself.              *)
(*                                                                          *)
(* A system call runs with interrupts off up to get_mac_from_ip, which on a *)
(* miss sends a request, lets interrupts in and makes the caller try again: *)
(* from there on the receive handler and other processes run in between.    *)
(***************************************************************************)
EXTENDS Integers, Sequences, FiniteSetsExt

CONSTANTS Senders,    \* processes that send
          NetHosts,      \* addresses inside the network; Gateway among them
          Gateway,
          Remotes,    \* addresses outside it
          Self,       \* our own address
          Dests,      \* addresses programs send to
          NumTx,      \* transmit buffers
          ArpSize,    \* entries of arp_table
          MaxSends,   \* bound: packets sent
          MaxOnWire   \* bound: frames the card has not fetched, requests unanswered

VARIABLES arp,        \* arp_table: sequence of entries, each a host or NoHost
          ipbuf,      \* ipv4_buffer: the packet in it
          tx,         \* send_buffers: the frame in each
          loop,       \* send_buffers_loop
          pend,       \* frames handed to the card: [buf, want]
          snd,        \* sender -> what it is doing
          answers,    \* hosts whose answer to a request is on its way
          known,      \* hosts that have asked for our address
          sends,      \* packets begun
          wrong,      \* ghost: a frame left, or was looped back, that was not as built
          evicted,    \* ghost: a full table has lost an entry
          hung,       \* the receive handler waits for an answer it cannot receive
          risk        \* ghost: a packet was put at risk, in one of the ways FramesIntact names

net_vars == <<arp, ipbuf, tx, loop, pend, snd, answers, known, sends, wrong, evicted,
              hung, risk>>

NoHost == "none"
ASSUME NetAssumption == NumTx \in Nat \ {0} /\ ArpSize \in Nat \ {0} /\ NoHost \notin NetHosts
\* A frame: the host it is for and what it carries.
Frame(to, pay) == [to |-> to, pay |-> pay]
Request(h)     == Frame("all", h)
NoFrame        == Frame(NoHost, 0)

\* ip_inside_network, and the recursion of get_mac_from_ip on the gateway.
Hop(ip) == IF ip \in Remotes THEN Gateway ELSE ip

Cached(h) == \E i \in 1..ArpSize : arp[i] = h

\* The first entry not in use, or the first of all.
find_arp_entry_to_use ==
  LET free == {i \in 1..ArpSize : arp[i] = NoHost}
  IN IF free = {} THEN 1 ELSE Min(free)

Learn(h) == /\ arp' = [arp EXCEPT ![find_arp_entry_to_use] = h]
            /\ evicted' = (evicted \/ arp[find_arp_entry_to_use] \notin {NoHost, h})
----------------------------------------------------------------------------
\* Writing a transmit buffer the card has not fetched yet: rtl8139.c does not
\* look whether it has.
Overrun(b) == \E i \in 1..Len(pend) : pend[i].buf = b

\* Mutant: the card is told of the buffer after the one that was filled.
rtl8139_send_data_bug(f, want, more) ==
  /\ Len(pend) < MaxOnWire
  /\ tx' = [tx EXCEPT ![loop] = f]
  /\ loop' = (loop + 1) % NumTx
  /\ pend' = Append(pend, [buf |-> loop', want |-> want])
  /\ risk' = (risk \/ Overrun(loop) \/ more)

\* rtl8139_send_data: the frame is copied into the next buffer and handed over.
rtl8139_send_data(f, want, more) ==
  /\ Len(pend) < MaxOnWire
  /\ tx' = [tx EXCEPT ![loop] = f]
  /\ pend' = Append(pend, [buf |-> loop, want |-> want])
  /\ loop' = (loop + 1) % NumTx
  /\ risk' = (risk \/ Overrun(loop) \/ more)

\* nic_send_buffer: the frame is the one in the buffer; only its Ethernet
\* header is written now.
nic_send_buffer(h, b, want, more) ==
  /\ Len(pend) < MaxOnWire
  /\ tx' = [b EXCEPT ![loop].to = h]
  /\ pend' = Append(pend, [buf |-> loop, want |-> want])
  /\ loop' = (loop + 1) % NumTx
  /\ risk' = (risk \/ Overrun(loop) \/ more)

\* handle_ethernet is given the current transmit buffer for a packet to
\* ourselves, also by send_ethernet_packet, which built the frame elsewhere.
LoopBack(b, want, more) ==
  /\ wrong' = (wrong \/ b[loop] # want)
  /\ tx' = b
  /\ risk' = (risk \/ Overrun(loop) \/ more)
  /\ UNCHANGED <<loop, pend>>

send_arp_request(h, more) == rtl8139_send_data(Request(h), Request(h), more)

\* Others who are in the middle of sending with ipv4_buffer.
Overlap(p) == \E q \in Senders \ {p} : snd[q].at = "udp"
NetIdle == [at |-> "idle", ip |-> Self, pay |-> 0]

\* udp_write: the packet goes into ipv4_buffer; with its hardware address in
\* the table it is copied on at once, otherwise it waits there.
send_ipv4_packet(p, ip) ==
  /\ snd[p].at = "idle" /\ sends < MaxSends /\ ~hung
  /\ sends' = sends + 1
  /\ ipbuf' = sends'
  /\ IF ip = Self
     THEN LoopBack(tx, Frame(Self, sends'), TRUE) /\ UNCHANGED snd
     ELSE IF Cached(Hop(ip))
     THEN /\ rtl8139_send_data(Frame(Hop(ip), sends'), Frame(Hop(ip), sends'), Overlap(p))
          /\ UNCHANGED <<snd, wrong>>
     ELSE /\ send_arp_request(Hop(ip), Overlap(p))
          /\ snd' = [snd EXCEPT ![p] = [at |-> "udp", ip |-> ip, pay |-> sends']]
          /\ UNCHANGED wrong
  /\ UNCHANGED <<arp, answers, known, evicted, hung>>

\* send_tcp_packet: the packet goes into the transmit buffer.  The request a
\* miss sends takes that very buffer.
send_ipv4_packet2(p, ip) ==
  /\ snd[p].at = "idle" /\ sends < MaxSends /\ ~hung
  /\ sends' = sends + 1
  /\ LET built == [tx EXCEPT ![loop] = Frame(NoHost, sends')]
     IN IF ip = Self
        THEN /\ LoopBack([built EXCEPT ![loop].to = Self], Frame(Self, sends'), FALSE)
             /\ UNCHANGED snd
        ELSE IF Cached(Hop(ip))
        THEN /\ nic_send_buffer(Hop(ip), built, Frame(Hop(ip), sends'), FALSE)
             /\ UNCHANGED <<snd, wrong>>
        ELSE /\ send_arp_request(Hop(ip), TRUE)
             /\ snd' = [snd EXCEPT ![p] = [at |-> "tcp", ip |-> ip, pay |-> sends']]
             /\ UNCHANGED wrong
  /\ UNCHANGED <<arp, ipbuf, answers, known, evicted, hung>>

\* Mutant: after the first request the caller only looks at the table.
get_mac_from_ip_bug(p) ==
  /\ snd[p].at # "idle" /\ Cached(Hop(snd[p].ip))
  /\ LET h    == Hop(snd[p].ip)
         want == Frame(h, snd[p].pay)
     IN \/ snd[p].at = "udp" /\ rtl8139_send_data(Frame(h, ipbuf), want, FALSE)
        \/ snd[p].at = "tcp" /\ nic_send_buffer(h, tx, want, FALSE)
  /\ snd' = [snd EXCEPT ![p] = NetIdle]
  /\ UNCHANGED <<arp, ipbuf, answers, known, sends, wrong, evicted, hung>>

\* The caller's loop around get_mac_from_ip: found, and the packet goes out as
\* it now is; or another request.
get_mac_from_ip(p) ==
  /\ snd[p].at # "idle"
  /\ LET h    == Hop(snd[p].ip)
         want == Frame(h, snd[p].pay)
     IN IF Cached(h)
        THEN /\ \/ snd[p].at = "udp" /\ rtl8139_send_data(Frame(h, ipbuf), want, FALSE)
                \/ snd[p].at = "tcp" /\ nic_send_buffer(h, tx, want, FALSE)
             /\ snd' = [snd EXCEPT ![p] = NetIdle]
        ELSE send_arp_request(h, FALSE) /\ UNCHANGED snd
  /\ UNCHANGED <<arp, ipbuf, answers, known, sends, wrong, evicted, hung>>
----------------------------------------------------------------------------
\* The card fetches the oldest frame: what the buffer holds by then.  A request
\* for a host is answered, or it or its answer is lost.
card_transmits(lost_it) ==
  /\ pend # <<>>
  /\ LET f == tx[Head(pend).buf]
     IN /\ lost_it => f.to = "all"
        /\ wrong' = (wrong \/ f # Head(pend).want)
        /\ answers' = IF f.to = "all" /\ ~lost_it THEN answers \cup {f.pay} ELSE answers
  /\ pend' = Tail(pend)
  /\ UNCHANGED <<arp, ipbuf, tx, loop, snd, known, sends, evicted, hung, risk>>

\* handle_arp, an answer.
arp_response(h) == /\ h \in answers /\ ~hung
                   /\ Learn(h)
                   /\ answers' = answers \ {h}
                   /\ UNCHANGED <<ipbuf, tx, loop, pend, snd, known, sends, wrong, hung, risk>>

\* handle_arp, a host's request for our address: it is entered and answered.
arp_request(h) == /\ h \notin known /\ ~hung
                  /\ Learn(h)
                  /\ known' = known \cup {h}
                  /\ rtl8139_send_data(Frame(h, Self), Frame(h, Self), FALSE)
                  /\ UNCHANGED <<ipbuf, snd, answers, sends, wrong, hung>>

\* handle_tcp answers a segment from inside the receive interrupt.  On a miss
\* it waits there for an answer, and the interrupt is not acknowledged to the
\* controller until it returns.
tcp_reply(ip) ==
  /\ Hop(ip) \in known /\ sends < MaxSends /\ ~hung
  /\ sends' = sends + 1
  /\ LET h == Hop(ip)
     IN IF Cached(h)
        THEN /\ nic_send_buffer(h, [tx EXCEPT ![loop] = Frame(NoHost, sends')],
                                Frame(h, sends'), FALSE)
             /\ UNCHANGED hung
        ELSE send_arp_request(h, TRUE) /\ hung' = TRUE
  /\ UNCHANGED <<arp, ipbuf, snd, answers, known, wrong, evicted>>

NetInit == /\ arp = [i \in 1..ArpSize |-> NoHost]
           /\ ipbuf = 0 /\ tx = [b \in 0..(NumTx - 1) |-> NoFrame] /\ loop = 0
           /\ pend = <<>> /\ snd = [p \in Senders |-> NetIdle]
           /\ answers = {} /\ known = {} /\ sends = 0
           /\ wrong = FALSE /\ evicted = FALSE /\ hung = FALSE /\ risk = FALSE

NetNext ==
  \/ \E p \in Senders, ip \in Dests :
       send_ipv4_packet(p, ip) \/ send_ipv4_packet2(p, ip)
  \/ \E p \in Senders : get_mac_from_ip(p)
  \/ \E lost_it \in BOOLEAN : card_transmits(lost_it)
  \/ \E h \in NetHosts : arp_response(h) \/ arp_request(h)
  \/ \E ip \in Dests \ {Self} : tcp_reply(ip)

\* The card keeps fetching, a waiting sender keeps running (it spins, with
\* interrupts on), answers that arrive are handled, and of the requests that
\* are repeated for ever not all are lost.
NetFairness == /\ WF_net_vars(\E lost_it \in BOOLEAN : card_transmits(lost_it))
               /\ \A p \in Senders : SF_net_vars(get_mac_from_ip(p))
               /\ \A h \in NetHosts : /\ SF_net_vars(pend # <<>> /\ tx[Head(pend).buf] = Request(h)
                                                    /\ card_transmits(FALSE))
                                   /\ WF_net_vars(arp_response(h))
NetSpec == NetInit /\ [][NetNext]_net_vars /\ NetFairness
----------------------------------------------------------------------------
\* What goes out, or back up to handle_ethernet, is the packet that was built,
\* except in the four situations the code leaves open: a miss while the packet
\* is in the transmit buffer, a second UDP sender while one waits for an
\* answer, more frames than the card has fetched, and UDP to ourselves.
FramesIntact == wrong => risk

\* The receive handler never waits for an answer only it could take in, as long
\* as no entry has been evicted: who sends to us has asked for our address, and
\* was entered into the table by that.
HandlerNeverWaits == hung => evicted

\* Outside those situations nothing is sent that was not built, and the receive handler
\* never waits for itself (rtl8139_send_data, send_ipv4_packet, get_mac_from_ip).
SendsIntact == FramesIntact /\ HandlerNeverWaits

\* A sender that misses in the table gets its packet out in the end, though
\* answers are lost, unless the handler hangs or the table is so full that
\* answers evict each other before get_mac_from_ip looks again.
SendCompletes == \A p \in Senders : snd[p].at # "idle" ~> (snd[p].at = "idle" \/ hung \/ evicted)
=============================================================================
