------------------------------- MODULE MCUser -------------------------------
(* What a program meets: TCP connections over a lossy network, descriptors, the
   libc's heap, the shell's reading of a line and formatted output, side by
   side: "which" picks the one that runs. *)
EXTENDS Tcp, FdTable, ShellParse, UserHeap, Printing
VARIABLE which

\* One client, whose SYN may arrive twice.
\* Bound: three bytes in all, of which a second connection takes the place of two.
Load == LET extra == IF Cardinality(Born) > 1 THEN 2 ELSE 0
        IN \/ Len(con[0].written) + extra <= 3 /\ \A c \in Kids : con[c].written = <<>>
           \/ Len(con[0].written) <= 2 /\ extra = 0

\* Lines and scripts for the lexer and the parser.
VARIABLES ks, ns
W(t) == Token("CHARS", t)
SomeTokens == {Token(Operands[i][1], Operands[i][2]) : i \in 1..7}
              \cup {W(w) : w \in {<<"a">>, <<"a", "#">>, <<>>, <<"a", " ">>}}
Command(a, o, b, r) == [allocate_ast EXCEPT !.val = "a", !.args = a, !.file_out = o, !.append = b, !.bg = b, !.rhs = r]
SomeNodes == {Command(a, o, b, r) : a \in {<<>>, <<"x">>}, o \in {"f"}, b \in BOOLEAN,
                                    r \in {<<>>, <<[allocate_ast EXCEPT !.val = "b", !.args = <<"x", "y">>]>>}}
             \cup {Command(<<"x">>, "", FALSE, <<>>), [allocate_ast EXCEPT !.type = "CONDITIONAL_AND"],
                   [allocate_ast EXCEPT !.type = "CONDITIONAL_NOT"], [allocate_ast EXCEPT !.type = "SET", !.val = "v", !.args = <<"w">>]}

\* get_line returns the line typed, corrections and all, lex finds its tokens, and
\* generate_ast the commands a script was written from.
ShellReads == LexesBack(ks) /\ ParsesBack(ns)

\* Conversions of the formatted output.
VARIABLE fs
Plain == [conv |-> "%", width |-> 0, zero |-> FALSE, left |-> FALSE, precision |-> -1, star |-> FALSE, value |-> 0]
Conversions ==
  {Plain, [Plain EXCEPT !.conv = "c", !.value = <<"q">>]}
  \cup {[Plain EXCEPT !.conv = "d", !.width = w, !.left = l, !.value = v] : w \in {0, 4, 10}, l \in BOOLEAN, v \in {0, 7, -105}}
  \cup {[Plain EXCEPT !.conv = c, !.width = 10, !.zero = TRUE, !.value = 30] : c \in {"d", "x"}}
  \cup {[Plain EXCEPT !.conv = "d", !.precision = 3, !.star = b, !.value = 5] : b \in BOOLEAN}
  \cup {[Plain EXCEPT !.conv = "s", !.precision = p, !.star = TRUE, !.value = <<"a", "b">>] : p \in {0, 1, 3}}
  \cup {[Plain EXCEPT !.conv = "s", !.width = w, !.left = l, !.value = <<"a", "b">>] : w \in {1, 4}, l \in BOOLEAN}
\* vkcprintf writes what each of its conversions means, in any order of them.
FormatsFaithful == PrintsMeaning(fs, 5)

\* Arrays that fit, that do not, whose size wraps around the word, and empty ones.
Arrays == {<<2, 1>>, <<8, 9>>, <<3, 22>>, <<0, 9>>}

Text == \/ ns \o fs = <<>> /\ Len(ks) < 3 /\ \E k \in SomeTokens : ks' = Append(ks, k) /\ UNCHANGED <<ns, fs>>
        \/ ks \o fs = <<>> /\ Len(ns) < 3 /\ \E n \in SomeNodes : ns' = Append(ns, n) /\ UNCHANGED <<ks, fs>>
        \/ ks \o ns = <<>> /\ Len(fs) < 2 /\ \E d \in Conversions : fs' = Append(fs, d) /\ UNCHANGED <<ks, ns>>
text_vars == <<ks, ns, fs>>

user_vars == <<vars, fd_vars, uh_vars, text_vars, which>>
UserInit == /\ Init /\ FdInit /\ UhInit
            /\ which \in {"tcp", "fd", "heap", "text"}
            /\ which # "tcp" => no_delay
            /\ ks = <<>> /\ ns = <<>> /\ fs = <<>>
UserNext ==
  \/ which = "tcp"  /\ Next     /\ UNCHANGED <<fd_vars, uh_vars, text_vars, which>>
  \/ which = "fd"   /\ FdNext   /\ UNCHANGED <<vars, uh_vars, text_vars, which>>
  \/ which = "heap" /\ UhNext   /\ UNCHANGED <<vars, fd_vars, text_vars, which>>
  \/ which = "text" /\ Text     /\ UNCHANGED <<vars, fd_vars, uh_vars, which>>
UserSpec == UserInit /\ [][UserNext]_user_vars
=============================================================================
