----------------------------- MODULE MCNetwork -----------------------------
(* The network card and what is sent and received through it, a pipe, the shell,
   paths, and the block cache against the store it promises, side by side: "which" picks
   the one that runs. *)
EXTENDS NicRing, NetSend, UdpSocket, Pipe, Shell, BlockCache, Paths
VARIABLE which
lan_vars == <<nic_vars, net_vars, udp_vars>>
file_vars == <<cache_vars, path_vars>>

\* Answers with an error, no record, an alias only, an address, an alias and
\* two addresses (more than one read takes).
Answers == {<<"error">>, <<>>, <<"CNAME">>, <<"A">>, <<"CNAME", "A", "A">>}

\* Command lines the shell runs.
W(t) == Token("CHARS", t)
P == Typed("PIPE")
A == Typed("AND")
N == Typed("NOT")
B == Typed("BACKGROUND")
L == Typed("NEWLINE")
Scripts == { <<>>,  <<W("gen"), P, W("sink"), L, W("false"), A, W("true"), L>>,
             <<W("gen"), P, W("true"), L, W("false"), N, W("gen"), P, W("sink"), L>>,
             <<W("gen"), P, W("sink"), P, W("sink"), L>>,
             <<W("sink"), B, W("gen"), P, W("cd"), L, W("true"), A, W("false"), N, W("true"), L>>,
             <<L, W("false"), A, W("true"), N, W("true"), L, W("exit"), L, W("true"), L>> }

\* Paths without "." and without leaving the disk's mount by "..".
Dirs == {<<>>, <<"a">>, <<"a", "b">>}
Walks == {<<"a">>, <<"a", "/", "b">>, <<".", ".">>, <<".", ".", "/", "a">>, <<"/">>, <<"b", "/">>,
          <<"a", "/", ".", ".">>, <<"d">>}
Opens == {<<"/", "m">>, <<"/", "m", "/", "x">>, <<"f">>, <<"/", "a", "/", "f">>, <<"b", "/", "/", "f">>,
          <<".", ".", "/", "f">>, <<"d">>, <<".", ".">>}

NetworkInit == /\ NicInit /\ NetInit /\ UdpInit /\ PipeInit /\ ShInit /\ PathInit
               /\ which \in {"nic", "send", "udp", "pipe", "shell", "cache", "path"}
               /\ which # "pipe" => ~has_data /\ ~can_write /\ ~nonblock
               /\ which # "shell" => sast = <<>>
               /\ CacheInit /\ dev = [b \in BlockNums |-> [p \in Parts |-> 0]]
               /\ val = [s \in Slots |-> [p \in Parts |-> 0]] /\ result = [p \in Parts |-> 0]
Lan == \/ which = "nic"  /\ NicNext /\ UNCHANGED <<net_vars, udp_vars>>
       \/ which = "send" /\ NetNext /\ UNCHANGED <<nic_vars, udp_vars>>
       \/ which = "udp"  /\ UdpNext /\ UNCHANGED <<nic_vars, net_vars>>
NetworkNext ==
  \/ Lan /\ UNCHANGED <<pipe_vars, sh_vars, file_vars, which>>
  \/ which = "pipe"  /\ PipeNext  /\ UNCHANGED <<lan_vars, sh_vars, file_vars, which>>
  \/ which = "shell" /\ ShNext    /\ UNCHANGED <<lan_vars, pipe_vars, file_vars, which>>
  \/ which = "cache" /\ CacheNext /\ UNCHANGED <<lan_vars, pipe_vars, sh_vars, path_vars, which>>
  \/ which = "path"  /\ PathNext  /\ UNCHANGED <<lan_vars, pipe_vars, sh_vars, cache_vars, which>>
\* The fair actions of a component that does not run are never enabled.
NetworkSpec == /\ NetworkInit /\ [][NetworkNext]_<<lan_vars, pipe_vars, sh_vars, file_vars, which>>
               /\ NetFairness /\ ShFairness
=============================================================================
