------------------------------ MODULE Tunneld ------------------------------
(***************************************************************************)
(* userland/tunneld/tunneld.c: a TLS tunnel in front of a local server, one *)
(* process and one event queue for all tunnels, two sockets to a tunnel.    *)
(* The TLS engine (BearSSL) is external: its state is what the flags of     *)
(* br_ssl_engine_current_state tell, a record at a time.                    *)
(***************************************************************************)
EXTENDS EventQueue

CONSTANTS TClients,  \* clients
          TRecords   \* bound: records of each client after the first

VARIABLES tq,     \* the queue's entries; data is the tunnel, 0 for the listening socket
          tfds,   \* descriptor -> [is, of]: "listen", "client" or "server" of a tunnel
          tun,    \* struct tunnel by number
          tev,    \* events still to be handled of this round
          tclose, \* to_close
          tcl,    \* the clients
          tsv     \* the server's end of each tunnel

tun_vars == <<tq, tfds, tun, tev, tclose, tcl, tsv>>

TNone == [is |-> "free", of |-> 0]
TOpen == {d \in DOMAIN tfds : tfds[d] # TNone}
TFree(t) == LET f == {d \in 1..Len(t) : t[d] = TNone} IN IF f = {} THEN Len(t) + 1 ELSE Min(f)
TWith(t, x) == IF TFree(t) > Len(t) THEN Append(t, x) ELSE [t EXCEPT ![TFree(t)] = x]

\* Readiness of the sockets.
TReady(d) ==
  LET k == tfds[d].of
  IN CASE tfds[d].is = "listen" -> IF \E c \in TClients : tcl[c].at = "connecting"
                                   THEN {"read"} ELSE {}
       [] tfds[d].is = "client" ->
            LET c == tcl[tun[k].client]
            IN (IF c.out # <<>> \/ c.at = "gone" THEN {"read"} ELSE {})
               \cup (IF c.at = "gone" THEN {"close"} ELSE IF ~c.full THEN {"write"} ELSE {})
       [] tfds[d].is = "server" ->
            (IF tsv[k].out \/ ~tsv[k].open THEN {"read"} ELSE {})
            \cup (IF tsv[k].open THEN {"write"} ELSE {"close"})
       [] OTHER -> {}
----------------------------------------------------------------------------
\* The engine.
NewEngine == [up |-> FALSE, app |-> FALSE, rec |-> FALSE, ending |-> FALSE, bye |-> FALSE,
              closed |-> FALSE]
current_state(e) == IF e.closed THEN {"closed"}
                    ELSE (IF e.app THEN {"recvapp"} ELSE {"recvrec"})
                         \cup (IF e.rec THEN {"sendrec"} ELSE {})
                         \cup (IF e.up /\ ~e.ending /\ ~e.rec THEN {"sendapp"} ELSE {})
engine_close(e) == [e EXCEPT !.ending = TRUE, !.app = FALSE, !.rec = TRUE]
recvrec_ack(e, r) == CASE r = "hello" -> [e EXCEPT !.up = TRUE, !.rec = TRUE]
                       [] r = "data"  -> IF e.ending THEN e ELSE [e EXCEPT !.app = TRUE]
                       [] r = "bye"   -> IF e.ending THEN [e EXCEPT !.closed = TRUE]
                                         ELSE [engine_close(e) EXCEPT !.bye = TRUE]
sendrec_ack(e) == [e EXCEPT !.rec = FALSE, !.closed = e.bye]
----------------------------------------------------------------------------
TK == tev[1].data
TEng == tun[TK].eng
TClient == tcl[tun[TK].client]

\* update_state: what to listen for at each end follows from the flags; a closed
\* engine marks the tunnel.
Interest(flag, state) == IF flag \in state THEN {"write", "read", "close"} ELSE {"read", "close"}
update_state(q, state) ==
  IF "closed" \in state THEN q
  ELSE queue_change(queue_change(q, [fd |-> tun[TK].sfd, listen |-> Interest("recvapp", state), data |-> TK]),
                    [fd |-> tun[TK].cfd, listen |-> Interest("sendrec", state), data |-> TK])

\* The handler returns: the tunnel is put on the list once if it is to close.
Finish(marked) ==
  /\ tev' = Tail(tev)
  /\ tclose' = IF marked /\ TK \notin ToSet(tclose) THEN Append(tclose, TK) ELSE tclose
Marked(state) == tun[TK].mark \/ "closed" \in state
Turn(t) == tun' = [tun EXCEPT ![TK] = t] /\ UNCHANGED <<tev, tclose>>
NoInterest(q) == queue_change(q, [fd |-> tun[TK].sfd, listen |-> {}, data |-> TK])

\* One turn of the loop in handle_server.  The data that was read, the data
\* that was written; nothing to read does not end the loop.
handle_server ==
  LET state == current_state(TEng)
      t     == [tun[TK] EXCEPT !.mark = Marked(state)]
      gone  == ~tsv[TK].open
      took  == "sendapp" \in state /\ tsv[TK].out
      gave  == "recvapp" \in state
      e1    == IF took THEN [TEng EXCEPT !.rec = TRUE] ELSE TEng
      e2    == IF gave THEN [e1 EXCEPT !.app = FALSE] ELSE e1
  IN /\ tev # <<>> /\ TK # 0 /\ tfds[tev[1].fd].is = "server"
     /\ IF state \cap {"sendapp", "recvapp"} = {}
        THEN /\ Finish(t.mark) /\ tun' = [tun EXCEPT ![TK] = t]
             /\ tq' = update_state(tq, state) /\ UNCHANGED tsv
        ELSE IF gone /\ ~took
        THEN /\ Finish(t.mark)
             /\ tun' = [tun EXCEPT ![TK] = [t EXCEPT !.eng = engine_close(TEng)]]
             /\ tq' = NoInterest(update_state(tq, state)) /\ UNCHANGED tsv
        ELSE /\ Turn([t EXCEPT !.eng = IF gone THEN e1 ELSE e2])
             /\ tq' = update_state(tq, state)
             /\ tsv' = [tsv EXCEPT ![TK].out = @ /\ ~took,
                                   ![TK].asked = @ \/ (gave /\ ~gone)]
     /\ UNCHANGED <<tfds, tcl>>

\* Mutant: a read that fails is taken for one that found nothing.
LostBug(c, failed, sends) == c.at = "gone" /\ sends

\* A read or a write fails for another reason than EWOULDBLOCK.
Lost(c, failed, sends) == c.at = "gone" /\ (failed \/ sends)

\* One turn of the loop in handle_client.
handle_client ==
  LET state == current_state(TEng)
      c     == TClient
      t     == [tun[TK] EXCEPT !.mark = Marked(state)]
      reads == "recvrec" \in state
      got   == reads /\ c.out # <<>>
      e     == IF got THEN recvrec_ack(TEng, Head(c.out)) ELSE TEng
      sends == "sendrec" \in (IF got THEN current_state(e) ELSE state)
      lost  == Lost(c, reads /\ ~got, sends)
      sent  == sends /\ c.at = "open" /\ ~c.full
      stop  == \/ state \cap {"recvrec", "sendrec"} = {}
               \/ reads /\ ~got /\ "sendrec" \notin state
  IN /\ tev # <<>> /\ TK # 0 /\ tfds[tev[1].fd].is = "client"
     /\ tq' = update_state(tq, state)
     /\ tcl' = [tcl EXCEPT ![tun[TK].client].out = IF got THEN Tail(@) ELSE @,
                           ![tun[TK].client].full = @ \/ sent]
     /\ IF lost
        THEN /\ Finish(TRUE)
             /\ tun' = [tun EXCEPT ![TK] = [t EXCEPT !.mark = TRUE, !.eng = e]]
        ELSE IF stop
        THEN Finish(t.mark) /\ tun' = [tun EXCEPT ![TK] = t]
        ELSE Turn([t EXCEPT !.eng = IF sent THEN sendrec_ack(e) ELSE e])
     /\ UNCHANGED <<tfds, tsv>>

\* handle_incoming: one connection is accepted and joined to the server.
handle_incoming ==
  /\ tev # <<>> /\ TK = 0
  /\ tev' = Tail(tev)
  /\ \/ /\ \A c \in TClients : tcl[c].at # "connecting"
        /\ UNCHANGED <<tq, tfds, tun, tcl, tsv>>
     \/ \E c \in TClients :
          /\ tcl[c].at = "connecting"
          /\ LET k  == Len(tun) + 1
                 f1 == TWith(tfds, [is |-> "client", of |-> k])
             IN /\ tfds' = TWith(f1, [is |-> "server", of |-> k])
                /\ tun' = Append(tun, [live |-> TRUE, client |-> c, cfd |-> TFree(tfds),
                                       sfd |-> TFree(f1), eng |-> NewEngine, mark |-> FALSE])
                /\ tsv' = Append(tsv, [open |-> TRUE, out |-> FALSE, asked |-> FALSE])
                /\ tq' = queue_add(queue_add(tq, [fd |-> TFree(tfds), data |-> k,
                                                  listen |-> {"write", "read", "close"}]),
                                   [fd |-> TFree(f1), data |-> k, listen |-> {"read", "close"}])
          /\ tcl' = [tcl EXCEPT ![c].at = "open"]
  /\ UNCHANGED tclose

\* Mutant: only the client's entry is taken out of the queue.
close_connection_bug(q, k) == queue_delete(q, tun[k].cfd)

close_connection(q, k) == queue_delete(queue_delete(q, tun[k].sfd), tun[k].cfd)

\* The end of a round: the tunnels on the list are closed and freed.
close_round ==
  /\ tev = <<>> /\ tclose # <<>>
  /\ LET k == Head(tclose)
     IN /\ tq' = close_connection(tq, k)
        /\ tfds' = [tfds EXCEPT ![tun[k].cfd] = TNone, ![tun[k].sfd] = TNone]
        /\ tun' = [tun EXCEPT ![k].live = FALSE]
        /\ tcl' = [tcl EXCEPT ![tun[k].client].at = "gone"]
        /\ tsv' = [tsv EXCEPT ![k].open = FALSE]
  /\ tclose' = Tail(tclose) /\ UNCHANGED tev

tunneld_wait ==
  /\ tev = <<>> /\ tclose = <<>>
  /\ tev' = queue_get_entries(tq, [d \in TOpen |-> TReady(d)]) /\ tev' # <<>>
  /\ UNCHANGED <<tq, tfds, tun, tclose, tcl, tsv>>
----------------------------------------------------------------------------
TEnv == UNCHANGED <<tq, tfds, tun, tev, tclose>>

tls_connects(c) == /\ tcl[c].at = "none" /\ TEnv
                   /\ tcl' = [tcl EXCEPT ![c].at = "connecting"] /\ UNCHANGED tsv
tls_sends(c, r) == /\ tcl[c].at = "open" /\ tcl[c].left > 0 /\ TEnv
                   /\ (r = "hello") = (tcl[c].left = TRecords[c] + 1)
                   /\ tcl' = [tcl EXCEPT ![c].left = IF r = "bye" THEN 0 ELSE @ - 1,
                                         ![c].out = Append(@, r)]
                   /\ UNCHANGED tsv
tls_reads(c) == /\ tcl[c].full /\ TEnv
                /\ tcl' = [tcl EXCEPT ![c].full = FALSE] /\ UNCHANGED tsv
tls_leaves(c) == /\ tcl[c].at = "open" /\ TEnv
                 /\ tcl' = [tcl EXCEPT ![c].at = "gone"] /\ UNCHANGED tsv
server_answers_tls(k) == /\ tsv[k].open /\ tsv[k].asked /\ ~tsv[k].out /\ TEnv
                         /\ tsv' = [tsv EXCEPT ![k].out = TRUE, ![k].asked = FALSE] /\ UNCHANGED tcl
server_closes(k) == /\ tsv[k].open /\ TEnv
                    /\ tsv' = [tsv EXCEPT ![k].open = FALSE] /\ UNCHANGED tcl

TunInit == /\ tfds = <<[is |-> "listen", of |-> 0]>>
           /\ tq = queue_add(relist_init, [fd |-> 1, listen |-> {"read"}, data |-> 0])
           /\ tun = <<>> /\ tev = <<>> /\ tclose = <<>> /\ tsv = <<>>
           /\ tcl = [c \in TClients |-> [at |-> "none", left |-> TRecords[c] + 1, out |-> <<>>,
                                         full |-> FALSE]]
TunServes == handle_server \/ handle_client \/ handle_incoming \/ close_round \/ tunneld_wait
TunNext == \/ TunServes
           \/ \E c \in TClients : \/ tls_connects(c) \/ tls_reads(c) \/ tls_leaves(c)
                                  \/ \E r \in {"hello", "data", "bye"} : tls_sends(c, r)
           \/ \E k \in 1..Len(tun) : server_answers_tls(k) \/ server_closes(k)
----------------------------------------------------------------------------
\* Whatever a round still has to handle, or the queue may report next, belongs
\* to a tunnel that has not been freed and to its own two descriptors, though
\* both ends of one tunnel are often in the same round and descriptor numbers
\* are used again.
TunnelEntriesLive ==
  \A e \in ToSet(tev) \cup (ToSet(tq) \ {NoEntry}) :
     e.data # 0 => /\ tun[e.data].live
                   /\ e.fd \in {tun[e.data].cfd, tun[e.data].sfd}
                   /\ tfds[e.fd].of = e.data

\* The loops of handle_server and handle_client spin while they can neither go
\* on nor stop: nothing to read from a silent server, a client that does not read.
Spinning ==
  /\ tev # <<>> /\ TK # 0
  /\ \/ tfds[tev[1].fd].is = "server" /\ "sendapp" \in current_state(TEng)
        /\ ~TEng.app /\ ~tsv[TK].out /\ tsv[TK].open
     \/ tfds[tev[1].fd].is = "client" /\ TEng.rec /\ TClient.at = "open" /\ TClient.full
        /\ (TEng.app \/ TClient.out = <<>>)

\* The process runs: weak fairness of TunServes, written out (its enabling
\* condition, and the variables that only its steps change).
TunReady == /\ ~Spinning
            /\ tev # <<>> \/ tclose # <<>> \/ queue_get_entries(tq, [d \in TOpen |-> TReady(d)]) # <<>>
TunStep == \/ tev' # tev \/ tclose' # tclose \/ tun' # tun \/ tq' # tq
           \/ \E c \in TClients : Len((tcl[c].out)') < Len(tcl[c].out)
TunFairness == []<>(~TunReady) \/ []<><<TunStep>>_tun_vars

\* When a client has gone, its tunnel is closed and freed, unless the one process
\* spins for ever in another tunnel's loop.
TunnelCloses ==
  (~<>[]Spinning) =>
     \A c \in TClients : tcl[c].at = "gone" ~> \A k \in 1..Len(tun) : tun[k].client = c => ~tun[k].live
=============================================================================
