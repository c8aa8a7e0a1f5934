-------------------------------- MODULE Irc --------------------------------
(***************************************************************************)
(* userland/irc/irc.c: lines cut out of the reads of a nonblocking socket,  *)
(* the list of channels, and the window's keys.  A line of the server is    *)
(* three cells: its text, CR and LF.                                        *)
(***************************************************************************)
EXTENDS Integers, Sequences, SequencesExt, FiniteSets

CONSTANTS ILines,   \* lines the server may send: [cmd, chan, mine]
          IMax,     \* cells of current_msg (512 bytes)
          ISends,   \* bound: lines the server sends
          IKeys     \* bound: keys pressed

VARIABLES iwire,    \* cells sent and not yet read
          iline,    \* lines sent
          imsg,     \* current_msg
          ihandled, \* messages given to handle_msg
          ichans,   \* channels: name, messages, can_send_message
          isel,     \* selected_channel
          iyour,    \* your_msg
          iout,     \* what was written to the server
          iall,     \* every message there was to show, with its channel
          ilate,    \* a read began within the last two cells of a line
          iabort, ikeys

irc_vars == <<iwire, iline, imsg, ihandled, ichans, isel, iyour, iout, iall, ilate, iabort, ikeys>>

Cells(n) == <<<<n, "text">>, <<n, "cr">>, <<n, "lf">>>>

irc_add_channel(chans, name) == Append(chans, [name |-> name, msgs |-> <<>>, can |-> TRUE])

\* Mutant: the search stops at the first channel after "*".
irc_get_channel_bug(chans, name) == SelectInSeq(SubSeq(chans, 1, 2), LAMBDA c : c.name = name)
\* The channel's place in the list, 0 when it is not there yet.
irc_get_channel(chans, name) == SelectInSeq(chans, LAMBDA c : c.name = name)

irc_add_message(chans, name, text) ==
  LET known == IF irc_get_channel(chans, name) # 0 THEN chans ELSE irc_add_channel(chans, name)
      at    == IF irc_get_channel(chans, name) # 0 THEN irc_get_channel(chans, name) ELSE Len(known)
  IN [known EXCEPT ![at].msgs = Append(@, text)]

\* What handle_msg does to the channels and writes: the first cell names the command.
Shown(msg) == LET l == iline[msg[1][1]]
              IN CASE l.cmd \in {"JOIN", "PRIVMSG"}   -> {l.chan}
                   [] l.cmd = "CHANNEL" /\ l.mine     -> {l.chan}
                   [] l.cmd = "REPLY" /\ l.mine       -> {"*"}
                   [] OTHER                           -> {}
handle_msg(st, msg) ==
  [st EXCEPT !.chans = FoldLeft(LAMBDA cs, n : irc_add_message(cs, n, msg), @, SetToSeq(Shown(msg))),
             !.all = @ \o SetToSeq({<<n, msg>> : n \in Shown(msg)}),
             !.out = IF iline[msg[1][1]].cmd = "PING" THEN Append(@, <<"PONG", FALSE>>) ELSE @,
             !.handled = Append(@, msg)]

\* '\n' after '\r' in the same read, and not as its second character.
EndsMessage(chunk, i) == chunk[i][2] = "lf" /\ i > 2 /\ chunk[i - 1][2] = "cr"

\* The loop over what one read returned; msg_usage at its limit stops the program.
Feed(st, chunk) ==
  FoldLeft(LAMBDA s, i :
      IF s.abort \/ Len(s.msg) >= IMax THEN [s EXCEPT !.abort = TRUE]
      ELSE IF EndsMessage(chunk, i) THEN [handle_msg(s, s.msg) EXCEPT !.msg = <<>>]
      ELSE [s EXCEPT !.msg = Append(@, chunk[i])],
    st, [i \in DOMAIN chunk |-> i])

irc_main ==
  /\ ~iabort
  /\ \E n \in 1..Len(iwire) :
       LET chunk == SubSeq(iwire, 1, n)
           st    == Feed([msg |-> imsg, chans |-> ichans, out |-> iout, handled |-> ihandled,
                          all |-> iall, abort |-> FALSE], chunk)
       IN /\ iwire' = SubSeq(iwire, n + 1, Len(iwire))
          /\ imsg' = st.msg /\ ichans' = st.chans /\ iout' = st.out /\ ihandled' = st.handled
          /\ iall' = st.all /\ iabort' = st.abort
          /\ ilate' = (ilate \/ chunk[1][2] # "text")
  /\ UNCHANGED <<iline, isel, iyour, ikeys>>

-----------------------------------------------------------------------------
Press == ~iabort /\ ikeys < IKeys /\ ikeys' = ikeys + 1
         /\ UNCHANGED <<iwire, iline, imsg, ihandled, ilate, iabort>>

\* CTRL-n and CTRL-p follow the next and prev links.
next_channel == /\ Press /\ isel < Len(ichans) /\ isel' = isel + 1
                /\ UNCHANGED <<ichans, iyour, iout, iall>>
prev_channel == /\ Press /\ isel > 1 /\ isel' = isel - 1
                /\ UNCHANGED <<ichans, iyour, iout, iall>>
type_char    == /\ Press /\ iyour' = Append(iyour, "c")
                /\ UNCHANGED <<ichans, isel, iout, iall>>
backspace    == /\ Press /\ iyour # <<>> /\ iyour' = Front(iyour)
                /\ UNCHANGED <<ichans, isel, iout, iall>>

\* send_message: nothing goes out on "*", but what was typed is gone.
send_message ==
  /\ Press
  /\ iyour' = <<>>
  /\ LET c == ichans[isel]
         m == <<<<0, iyour>>>>
     IN IF c.can
        THEN /\ iout' = Append(iout, <<c.name, TRUE>>)
             /\ ichans' = irc_add_message(ichans, c.name, m)
             /\ iall' = Append(iall, <<c.name, m>>)
        ELSE UNCHANGED <<iout, ichans, iall>>
  /\ UNCHANGED isel

\* The server; and what the network delivers of it.
server_sends == /\ Len(iline) < ISends /\ ~iabort
                /\ \E l \in ILines : iline' = Append(iline, l)
                /\ iwire' = iwire \o Cells(Len(iline) + 1)
                /\ UNCHANGED <<imsg, ihandled, ichans, isel, iyour, iout, iall, ilate, iabort, ikeys>>

\* irc_connect_server and the start of main: "*" and the channel joined.
IrcInit == /\ iwire = <<>> /\ iline = <<>> /\ imsg = <<>> /\ ihandled = <<>>
           /\ ichans = [irc_add_channel(irc_add_channel(<<>>, "*"), "#s") EXCEPT ![1].can = FALSE]
           /\ isel = 1 /\ iyour = <<>> /\ iout = <<<<"JOIN", TRUE>>>> /\ iall = <<>>
           /\ ilate = FALSE /\ iabort = FALSE /\ ikeys = 0

IrcNext == \/ irc_main \/ server_sends
           \/ next_channel \/ prev_channel \/ type_char \/ backspace \/ send_message

-----------------------------------------------------------------------------
\* However the reads cut the stream, the messages handled are the server's lines
\* in order, each once and whole, unless a read began at the end of a line: the
\* test for CR LF looks at one read only and not at its first two characters.
LinesInOrder == ~ilate => /\ \A n \in DOMAIN ihandled : ihandled[n] = SubSeq(Cells(n), 1, 2)
                          /\ ~iabort

\* Received and sent messages are in the log of their channel, all of them and in
\* the order they came, and a channel is in the list once, whatever is selected.
ChannelLogs ==
  /\ \A i, j \in DOMAIN ichans : ichans[i].name = ichans[j].name => i = j
  /\ \A i \in DOMAIN ichans :
       ichans[i].msgs = [k \in DOMAIN SelectSeq(iall, LAMBDA m : m[1] = ichans[i].name)
                           |-> SelectSeq(iall, LAMBDA m : m[1] = ichans[i].name)[k][2]]

\* However the stream is cut into reads, the lines are handled whole and in order and
\* each message is logged in its channel (handle_msg, irc_get_channel, send_message).
ChatFaithful == LinesInOrder /\ ChannelLogs
=============================================================================
