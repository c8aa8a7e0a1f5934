----------------------------- MODULE ShellParse -----------------------------
(***************************************************************************)
(* The lexer and the parser of the shell (minibox/utilities/sh/lexer.c and  *)
(* ast.c).  A token is its type and its text; a syntax tree is the sequence *)
(* of its nodes, a pipeline the node of its first command with the others   *)
(* in rhs.                                                                  *)
(***************************************************************************)
EXTENDS Integers, Sequences, SequencesExt

\* String views (libc/tb/sv.c): a view is a sequence of characters; an operation
\* with a rest gives <<taken, rest>>.
From(s, i) == SubSeq(s, i, Len(s))
\* The first index a loop over s stops at, or the one after the end.
Stop(s, P(_)) == Min({i \in 1..Len(s) : P(s[i])} \cup {Len(s) + 1})

sv_peek(s) == IF s = <<>> THEN "" ELSE s[1]
sv_partial_eq(a, b) == IsPrefix(b, a)
sv_take(s, n) == IF Len(s) < n THEN <<s, <<>>>> ELSE <<SubSeq(s, 1, n), From(s, n + 1)>>
sv_skip_chars(s, chars) == From(s, Stop(s, LAMBDA c : c \notin chars))
\* The delimiter is dropped from the rest; a split by function keeps it there (the
\* function as the set of characters it accepts).
sv_split_delim(s, d) ==
  LET i == Stop(s, LAMBDA c : c = d) IN <<SubSeq(s, 1, i - 1), From(s, i + 1)>>
sv_split_function(s, stops) ==
  LET i == Stop(s, LAMBDA c : c \in stops) IN <<SubSeq(s, 1, i - 1), From(s, i)>>
-----------------------------------------------------------------------------
Backspace == "BS"
Token(type, text) == [type |-> type, text |-> text]

special_chars == {" ", "\t", "\r", "\n", ">", "|", "&", "="}
is_special_char(c) == c \in special_chars

\* parse_operand tries the longer spellings first.
Operands == << <<"AND", <<"&", "&">>>>, <<"NOT", <<"|", "|">>>>, <<"STREAM_APPEND", <<">", ">">>>>,
               <<"STREAM", <<">">>>>, <<"PIPE", <<"|">>>>, <<"BACKGROUND", <<"&">>>>,
               <<"EQUAL", <<"=">>>>, <<"NEWLINE", <<"\n">>>> >>

parse_operand(code) ==
  LET o == Operands[SelectInSeq(Operands, LAMBDA p : sv_partial_eq(code, p[2]))]
  IN <<Token(o[1], o[2]), sv_take(code, Len(o[2]))[2]>>

parse_chars(code) ==
  LET r == IF sv_peek(code) = "\"" THEN sv_split_delim(Tail(code), "\"")
                                   ELSE sv_split_function(code, special_chars)
  IN <<Token("CHARS", r[1]), r[2]>>

\* A comment is dropped with the newline that ends it.
RECURSIVE skip_whitespace_and_comment(_)
skip_whitespace_and_comment(s) ==
  LET t == sv_skip_chars(s, {" ", "\t", "\r"})
  IN IF sv_peek(t) # "#" THEN t ELSE skip_whitespace_and_comment(sv_split_delim(t, "\n")[2])

RECURSIVE lex(_)
lex(code) ==
  LET s == skip_whitespace_and_comment(code)
      r == IF is_special_char(s[1]) THEN parse_operand(s) ELSE parse_chars(s)
  IN IF s = <<>> THEN <<>> ELSE <<r[1]>> \o lex(r[2])

-----------------------------------------------------------------------------
\* A node as allocate_ast leaves it: the zeroes make it a command without a name.
allocate_ast == [type |-> "COMMAND", val |-> "", args |-> <<>>, file_out |-> "", append |-> FALSE,
                 bg |-> FALSE, rhs |-> <<>>]

Types(tokens) == [i \in DOMAIN tokens |-> tokens[i].type]

\* "export name = value" up to its newline; the newline must be there.
IsSet(t) == /\ IsPrefix(<<"CHARS", "CHARS", "EQUAL", "CHARS", "NEWLINE">>, Types(t))
            /\ t[1].text = "export"
parse_set(t) == <<[allocate_ast EXCEPT !.type = "SET", !.val = t[2].text, !.args = <<t[4].text>>], From(t, 6)>>

Is(t, type) == t # <<>> /\ t[1].type = type

\* How many words stand at the front.
WordsAhead(t) == Stop(t, LAMBDA x : x.type # "CHARS") - 1

IsStream(t) == Is(t, "STREAM") \/ Is(t, "STREAM_APPEND")
\* Mutant: the file name is not stepped over.
AfterStream_bug(t) == IF IsStream(t) THEN From(t, 2) ELSE t
AfterStream(t) == IF IsStream(t) THEN From(t, 3) ELSE t

RECURSIVE parse_command(_)
parse_command(t) ==
  LET n   == WordsAhead(t)
      t1  == From(t, n + 1)
      t2  == AfterStream(t1)
      bg  == Is(t2, "BACKGROUND")
      t3  == IF bg THEN Tail(t2) ELSE t2
      sub == parse_command(Tail(t3))
      t4  == IF Is(t3, "PIPE") THEN sub[2] ELSE t3
  IN <<[allocate_ast EXCEPT !.val = t[1].text, !.args = [i \in 1..(n - 1) |-> t[i + 1].text],
          !.file_out = IF IsStream(t1) THEN t1[2].text ELSE "", !.append = Is(t1, "STREAM_APPEND"), !.bg = bg,
          !.rhs = IF Is(t3, "PIPE") THEN <<[sub[1] EXCEPT !.rhs = <<>>]>> \o sub[1].rhs ELSE <<>>],
       IF Is(t4, "NEWLINE") THEN Tail(t4) ELSE t4>>

\* Any other token leaves its node as it was allocated.
RECURSIVE generate_ast(_)
generate_ast(t) ==
  LET one == CASE IsSet(t)        -> parse_set(t)
               [] Is(t, "CHARS")  -> parse_command(t)
               [] Is(t, "AND")    -> <<[allocate_ast EXCEPT !.type = "CONDITIONAL_AND"], Tail(t)>>
               [] Is(t, "NOT")    -> <<[allocate_ast EXCEPT !.type = "CONDITIONAL_NOT"], Tail(t)>>
               [] OTHER           -> <<allocate_ast, Tail(t)>>
  IN IF t = <<>> THEN <<>> ELSE <<one[1]>> \o generate_ast(one[2])

-----------------------------------------------------------------------------
\* The characters typed up to the newline; a backspace takes the last one back.
get_line(keys) ==
  LET i == Stop(keys, LAMBDA c : c = "\n")
  IN FoldLeft(LAMBDA l, c : IF c = Backspace THEN (IF l = <<>> THEN l ELSE Front(l)) ELSE Append(l, c), <<>>, SubSeq(keys, 1, i))

\* How a user spells a token: quotes where a word has special characters or none.
Spelled(k) == IF k.type = "CHARS" /\ (k.text = <<>> \/ \E i \in DOMAIN k.text : is_special_char(k.text[i]))
              THEN <<"\"">> \o k.text \o <<"\"">> ELSE k.text
\* Blanks stand only between two words or two operands.
Line(ks) == FoldLeft(LAMBDA l, i : l \o (IF i > 1 /\ (ks[i].type = "CHARS") = (ks[i - 1].type = "CHARS")
                                         THEN <<" ">> ELSE <<>>) \o Spelled(ks[i]),
                     <<>>, [i \in DOMAIN ks |-> i])

\* lex finds again the tokens a line is written from: quoted and empty words, and
\* operands that are prefixes of others, with no more blanks than they need; the
\* user has corrected every character.
LexesBack(ks) ==
  LET typed == FlattenSeq([i \in DOMAIN Line(ks) |-> <<"x", Backspace, Line(ks)[i]>>])
  IN lex(get_line(<<Backspace>> \o typed \o <<"\n">>)) = Append(ks, Token("NEWLINE", <<"\n">>))

Typed(type) == Token(type, "")
Stage(n) == [i \in 1..(Len(n.args) + 1) |-> Token("CHARS", (<<n.val>> \o n.args)[i])]
            \o (IF n.file_out = "" THEN <<>>
                ELSE <<Typed(IF n.append THEN "STREAM_APPEND" ELSE "STREAM"), Token("CHARS", n.file_out)>>)
            \o (IF n.bg THEN <<Typed("BACKGROUND")>> ELSE <<>>)
Written(n) == CASE n.type = "SET" -> <<Token("CHARS", "export"), Token("CHARS", n.val), Typed("EQUAL"),
                                       Token("CHARS", n.args[1]), Typed("NEWLINE")>>
                [] n.type = "CONDITIONAL_AND" -> <<Typed("AND")>>
                [] n.type = "CONDITIONAL_NOT" -> <<Typed("NOT")>>
                [] OTHER -> FoldLeft(LAMBDA l, r : l \o <<Typed("PIPE")>> \o Stage(r), Stage(n), n.rhs)
Script(ns) == FoldLeft(LAMBDA l, i : l \o Written(ns[i]) \o (IF ns[i].type = "COMMAND" THEN <<Typed("NEWLINE")>> ELSE <<>>),
                       <<>>, [i \in DOMAIN ns |-> i])

\* generate_ast finds again the commands a script is written from: arguments,
\* redirections, background marks and pipelines stay with their own command.
ParsesBack(ns) == generate_ast(Script(ns)) = ns
=============================================================================
