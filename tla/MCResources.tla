---------------------------- MODULE MCResources ----------------------------
(* Frames and page tables, the directory of /proc, the IRC client and the sftp
   server side by side: "which" picks the one that runs. *)
EXTENDS Memory, Irc, Sftp, Procfs
VARIABLE which

Symmetry == Permutations(Procs \ {Boot})

Lines == {[cmd |-> "JOIN", chan |-> "#s", mine |-> TRUE], [cmd |-> "PING", chan |-> "*", mine |-> TRUE],
          [cmd |-> "PRIVMSG", chan |-> "other", mine |-> TRUE],
          [cmd |-> "REPLY", chan |-> "*", mine |-> FALSE]}
Entries == <<"a", "b", "c">>

Queue0 == <<"1", "2">>

res_vars == <<vars, irc_vars, ft_vars, list_vars, which>>
ResInit == /\ Init /\ IrcInit /\ FtInit /\ ListInit
           /\ which \in {"memory", "irc", "sftp", "proc"}
           /\ which # "sftp" => \A f \in FtFiles : ftdisk[f] = Absent
ResNext == \/ which = "memory" /\ Next     /\ UNCHANGED <<irc_vars, ft_vars, list_vars, which>>
           \/ which = "irc"    /\ IrcNext  /\ UNCHANGED <<vars, ft_vars, list_vars, which>>
           \/ which = "sftp"   /\ FtNext   /\ UNCHANGED <<vars, irc_vars, list_vars, which>>
           \/ which = "proc"   /\ ListNext /\ UNCHANGED <<vars, irc_vars, ft_vars, which>>
ResSpec == ResInit /\ [][ResNext]_res_vars
=============================================================================
