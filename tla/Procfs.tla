------------------------------- MODULE Procfs -------------------------------
(* Listing /proc while processes come and go: kernel/fs/procfs.c builds the
   whole directory anew on every read and skips what lies before the offset. *)
EXTENDS StringBuilder, FiniteSets, SequencesExt
CONSTANTS LPids,     \* bound: the processes there can be; the reader is LReader
          LReader,
          LEntry,    \* sizeof(struct dirent)
          LLens,     \* the buffer sizes the reader uses
          LStart     \* the ready queue when the directory is opened

VARIABLES lqueue,    \* ready_queue, in list order
          loffset,   \* offset of the directory's descriptor
          lseen,     \* the entries read
          lgone,     \* the processes that left since the open
          leof       \* a read has returned 0
list_vars == <<lqueue, loffset, lseen, lgone, leof>>

DirEntry(name) == [i \in 1..LEntry |-> <<name, i>>]

\* The processes in list order, up to the first that does not fit, then "self".
procfs_read(offset, len) ==
  LET Add(acc, p) == IF acc.rc = 0 THEN acc ELSE sb_append_buffer(acc.sb, DirEntry(p))
      all == FoldLeft(Add, [sb |-> sb_set_ignore(sb_init_buffer(len), offset), rc |-> 1], lqueue)
  IN sb_append_buffer(all.sb, DirEntry("self")).sb.text

\* vfs_read moves the offset by what was read.
ReadDir == \E len \in LLens :
             LET got == procfs_read(loffset, len)
             IN /\ ~leof
                /\ loffset' = loffset + Len(got)
                /\ lseen' = lseen \o got
                /\ leof' = (got = <<>>)
                /\ UNCHANGED <<lqueue, lgone>>

\* fork appends to the end of the list (scheduler.c), with a pid not used before.
Forked == \E p \in LPids : /\ p \notin ToSet(lqueue) \cup lgone
                           /\ lqueue' = Append(lqueue, p)
                           /\ UNCHANGED <<loffset, lseen, lgone, leof>>

\* exit_process takes a process out of the list.
Left == \E p \in ToSet(lqueue) \ {LReader} :
          /\ lqueue' = SelectSeq(lqueue, LAMBDA q : q # p)
          /\ lgone' = lgone \cup {p}
          /\ UNCHANGED <<loffset, lseen, leof>>

ListInit == lqueue = LStart /\ loffset = 0 /\ lseen = <<>> /\ lgone = {} /\ leof = FALSE
ListNext == ReadDir \/ Forked \/ Left

Listed(x) == Cardinality({i \in 1..Len(lseen) : lseen[i] = x})
(* procfs_read, called with any buffer that holds an entry, while processes are
   forked and leave: no process is listed twice, every entry is read whole, and
   when nothing left meanwhile the listing has every process there was at the
   open, and "self". *)
ListingFaithful ==
  /\ \A p \in LPids : Listed(<<p, 1>>) <= 1
  /\ \A i \in 1..Len(lseen) : lseen[i][2] = ((i - 1) % LEntry) + 1
  /\ leof /\ lgone = {} => \A x \in ToSet(LStart) \cup {"self"} : Listed(<<x, LEntry>>) > 0
=============================================================================
