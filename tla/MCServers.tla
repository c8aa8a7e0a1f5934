----------------------------- MODULE MCServers -----------------------------
(* The network servers side by side: "which" picks the one that runs. *)
EXTENDS Httpd, Tunneld
VARIABLE which
Kinds == {Dir, Missing, 3}
\* The first client of the tunnel goes on after its hello, the second does not.
Records == [c \in TClients |-> IF c = 1 THEN 1 ELSE 0]
all_vars == <<http_vars, tun_vars, which>>
MCInit == HttpInit /\ TunInit /\ which \in {"http", "tunnel"}
MCNext == \/ which = "http"   /\ HttpNext /\ UNCHANGED <<tun_vars, which>>
          \/ which = "tunnel" /\ TunNext  /\ UNCHANGED <<http_vars, which>>
ServersSpec == MCInit /\ [][MCNext]_all_vars /\ HttpFairness /\ TunFairness
=============================================================================
