------------------------------ MODULE Printing ------------------------------
(* The kernel's formatted output, kernel/libc/stdio/print.c (the libc's vfprintf is the
   same code over a FILE).  A format is a sequence of characters; an argument is
   an integer, or a string given as a sequence of characters. *)
EXTENDS StringBuilder, Integers, SequencesExt

DigitChars == <<"0", "1", "2", "3", "4", "5", "6", "7", "8", "9", "a", "b", "c", "d", "e", "f">>
DigitOf(c) == CHOOSE d \in 0..9 : DigitChars[d + 1] = c
IsDigit(c) == \E d \in 0..9 : DigitChars[d + 1] = c
Fill(c, n) == [i \in 1..n |-> c]
Padding(c, prefix, l) == Fill(c, IF prefix > l THEN prefix - l ELSE 0)

\* The digits of n, last first, as the loop of print_num collects them.
RECURSIVE Collected(_, _)
Collected(n, base) == IF n = 0 THEN <<>> ELSE <<DigitChars[(n % base) + 1]>> \o Collected(n \div base, base)

print_num(n, base, prefix, zero, right) ==
  LET abs == IF n < 0 THEN -n ELSE n
      str == (IF n = 0 THEN <<"0">> ELSE Collected(abs, base)) \o (IF n < 0 THEN <<"-">> ELSE <<>>)
      pad == Padding(IF zero THEN "0" ELSE " ", prefix, Len(str))
  IN IF right THEN Reverse(str) \o pad ELSE pad \o Reverse(str)

\* A precision with a width, or with left justification, fails an assertion.
print_string_fits(prefix, right, precision) ==
  (IF right THEN TRUE ELSE prefix > 0) => precision = -1
print_string(s, prefix, right, precision) ==
  LET shown == [i \in {j \in 1..Len(s) : precision # -1 => j <= precision} |-> s[i]]
      pad   == Padding(" ", prefix, Len(s))
  IN IF right THEN shown \o pad ELSE pad \o shown

\* The number from fmt[i] on and the place of its last digit; -1 for '*'.
RECURSIVE parse_precision(_, _, _)
parse_precision(fmt, i, rc) ==
  CASE fmt[i] = "*"      -> [at |-> i, value |-> -1]
    [] ~IsDigit(fmt[i])  -> [at |-> i - 1, value |-> rc]
    [] OTHER             -> parse_precision(fmt, i + 1, (rc * 10) + DigitOf(fmt[i]))

NoFlags == [prefix |-> 0, zero |-> FALSE, right |-> FALSE, precision |-> -1]

\* Mutant: the flags are reset only after a number.
AfterConversion_bug(st, c) == IF c \in {"d", "i"} THEN [(NoFlags @@ st) EXCEPT !.long = 0] ELSE st

\* What is known of one conversion ends with it; long_level ends with %d and %i only.
AfterConversion(st, c) == [(NoFlags @@ st) EXCEPT !.long = IF c \in {"d", "i"} THEN 0 ELSE @]

\* One conversion: the text it writes for the argument arg.
Converted(st, c, arg) ==
  CASE c \in {"d", "i"} -> IF st.precision # -1 THEN print_num(arg, 10, st.precision, TRUE, FALSE)
                           ELSE print_num(arg, 10, st.prefix, st.zero, st.right)
    [] c = "u"          -> print_num(arg, 10, st.prefix, st.zero, st.right)
    [] c \in {"x", "p"} -> print_num(arg, 16, st.prefix, st.zero, st.right)
    [] c = "o"          -> print_num(arg, 8, st.prefix, st.zero, st.right)
    [] c = "s"          -> print_string(arg, st.prefix, st.right, st.precision)
    [] c = "c"          -> arg

\* The assertions of the conversion.
Supported(st, c) ==
  CASE c \in {"u", "x", "p", "o"} -> st.precision = -1
    [] c = "s" -> ~st.zero /\ print_string_fits(st.prefix, st.right, st.precision)
    [] OTHER   -> TRUE

(* The loop of vkcprintf from fmt[i] on.  st.cont is set inside a conversion,
   st.stopped when an assertion has failed. *)
RECURSIVE Loop(_, _, _)
Loop(fmt, i, st) ==
  IF i > Len(fmt) \/ st.stopped THEN st
  ELSE LET c == fmt[i]
           Go(s) == Loop(fmt, i + 1, s)
           Take(s, text) == [AfterConversion([s EXCEPT !.cont = FALSE], c) EXCEPT !.out = @ \o text]
       IN CASE ~st.cont /\ c # "%" -> Go([st EXCEPT !.out = Append(@, c)])
            [] ~st.cont /\ c = "%" -> Go([st EXCEPT !.cont = TRUE])
            [] st.cont /\ c = "."  ->
                 LET p == parse_precision(fmt, i + 1, 0)
                 IN Loop(fmt, p.at + 1, IF p.value = -1 THEN [st EXCEPT !.precision = Head(st.args), !.args = Tail(@)]
                                        ELSE [st EXCEPT !.precision = p.value])
            [] st.cont /\ c = "0"  -> Go([st EXCEPT !.prefix = @ * 10, !.zero = @ \/ st.prefix = 0])
            [] st.cont /\ c = "-"  -> Go([st EXCEPT !.right = TRUE, !.stopped = st.prefix # 0])
            [] st.cont /\ IsDigit(c) /\ c # "0" -> Go([st EXCEPT !.prefix = (@ * 10) + DigitOf(c)])
            [] st.cont /\ c = "l"  -> Go([st EXCEPT !.long = @ + 1, !.stopped = st.long >= 2])
            [] st.cont /\ c = "%"  -> Go(Take(st, <<"%">>))
            [] OTHER -> Go(Take([st EXCEPT !.stopped = ~Supported(st, c), !.args = Tail(@)], Converted(st, c, Head(st.args))))

vkcprintf(fmt, args) ==
  Loop(fmt, 1, [out |-> <<>>, args |-> args, cont |-> FALSE, long |-> 0, stopped |-> FALSE] @@ NoFlags)
\* The return value counts the characters written, whatever became of them.
Returned(st) == Len(st.out)

\* kbnprintf hands the characters to a builder over the caller's buffer one by one.
kbnprintf(size, fmt, args) ==
  FoldLeft(LAMBDA sb, c : sb_append_buffer(sb, <<c>>).sb, sb_init_buffer(size), vkcprintf(fmt, args).out).text
ksbprintf(size, fmt, args) ==
  FoldLeft(LAMBDA sb, c : sb_append_buffer(sb, <<c>>).sb, sb_init_capacity(size), vkcprintf(fmt, args).out).text

(* What a conversion means, apart from the code: d is a record of the flags, the
   width (0 when none), the precision (-1 when none), the conversion and its value. *)
DecimalText(n) == LET k == CHOOSE j \in 1..6 : n < 10^j /\ (j = 1 \/ n >= 10^(j - 1))
                  IN [i \in 1..k |-> DigitChars[((n \div 10^(k - i)) % 10) + 1]]
HexText(n) == LET k == CHOOSE j \in 1..6 : n < 16^j /\ (j = 1 \/ n >= 16^(j - 1))
              IN [i \in 1..k |-> DigitChars[((n \div 16^(k - i)) % 16) + 1]]
Body(d) == CASE d.conv = "d" -> (IF d.value < 0 THEN <<"-">> ELSE <<>>)
                                \o LET t == DecimalText(IF d.value < 0 THEN -d.value ELSE d.value)
                                   IN Padding("0", d.precision, Len(t)) \o t
             [] d.conv = "x" -> HexText(d.value)
             [] d.conv = "s" -> IF d.precision = -1 \/ d.precision > Len(d.value) THEN d.value ELSE SubSeq(d.value, 1, d.precision)
             [] d.conv = "c" -> d.value
             [] d.conv = "%" -> <<"%">>
Meant(d) == LET b == Body(d) pad == Padding(IF d.zero THEN "0" ELSE " ", d.width, Len(b))
            IN IF d.left THEN b \o pad ELSE pad \o b

\* The text of the conversion, ended by a comma, and its arguments.
SpelledOut(d) == <<"%">> \o (IF d.left THEN <<"-">> ELSE <<>>) \o (IF d.zero THEN <<"0">> ELSE <<>>)
              \o (IF d.width > 0 THEN DecimalText(d.width) ELSE <<>>)
              \o (IF d.star THEN <<".", "*">> ELSE IF d.precision >= 0 THEN <<".">> \o DecimalText(d.precision) ELSE <<>>)
              \o (IF d.conv = "d" THEN <<"l", "l">> ELSE <<>>) \o <<d.conv, ",">>
Arguments(d) == (IF d.star THEN <<d.precision>> ELSE <<>>) \o (IF d.conv = "%" THEN <<>> ELSE <<d.value>>)
Joined(ds, Op(_)) == FlattenSeq([i \in 1..Len(ds) |-> Op(ds[i])])

(* vkcprintf writes what its conversions mean, whichever came before; a buffer
   of the caller receives as much of the beginning as fits, a growing one all. *)
PrintsMeaning(ds, size) ==
  LET fmt  == Joined(ds, SpelledOut)
      args == Joined(ds, Arguments)
      text == Joined(ds, LAMBDA d : Append(Meant(d), ","))
      st   == vkcprintf(fmt, args)
  IN /\ ~st.stopped /\ st.out = text /\ st.args = <<>>
     /\ kbnprintf(size, fmt, args) = SubSeq(text, 1, IF size < Len(text) THEN size ELSE Len(text))
     /\ ksbprintf(size, fmt, args) = text
=============================================================================
