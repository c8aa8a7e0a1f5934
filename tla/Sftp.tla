-------------------------------- MODULE Sftp --------------------------------
(***************************************************************************)
(* userland/sftp: sftp.c reads requests with a length in front from its     *)
(* input and answers each on its output; handle.c keeps the open files.     *)
(* A request is two cells, its length and its payload; a file is a sequence *)
(* of pieces, one per write.  The client may send requests before it has    *)
(* the answers to earlier ones.                                             *)
(***************************************************************************)
EXTENDS Integers, Sequences, SequencesExt, FiniteSets

CONSTANTS FtFiles,    \* names of files
          FtDir,      \* the directory, and its entries
          FtEntries,
          FtPerReply, \* entries a reply to READDIR holds
          FtRequests  \* bound: requests after INIT

VARIABLES ftin,      \* cells sent and not yet read, of the requests sent
          ftsent,    \* requests sent
          ftgot,     \* cells of the request read_payload has read
          ftdone,    \* requests handled
          ftinit,    \* client_has_sent_init
          fthandles, \* struct handle list, head first: key, file
          ftpos,     \* position of each open file: key |-> position
          ftdisk,    \* contents of the files
          ftreply,   \* replies written
          ftup,      \* the server has not exited
          ftwant,    \* what the files hold if each write lands at its offset
          ftskew     \* the client has sent a write out of order

ft_vars == <<ftin, ftsent, ftgot, ftdone, ftinit, fthandles, ftpos, ftdisk, ftreply, ftup, ftwant, ftskew>>

Absent == <<-1>>
Req == ftsent[ftdone + 1]
Reply(type, what) == [id |-> Req.id, type |-> type, what |-> what]
Status(what) == Reply("STATUS", what)

\* The key is random; model: no two handles get the same.
NewKey == Len(ftreply)

handle_create(key, file) == <<[key |-> key, file |-> file]>> \o fthandles
handle_get(key) == SelectInSeq(fthandles, LAMBDA h : h.key = key)
\* Mutant: the head of the list is dropped, whichever handle was found.
handle_close_bug(key) == IF handle_get(key) = 0 THEN fthandles ELSE Tail(fthandles)
handle_close(key) == IF handle_get(key) = 0 THEN fthandles ELSE RemoveAt(fthandles, handle_get(key))
File(key) == fthandles[handle_get(key)].file
Known(key) == handle_get(key) # 0

\* force_read: whatever part has come, until the request is whole.
force_read == /\ ftup /\ ftgot < 2 /\ ftin > 0
              /\ ftgot' = ftgot + 1 /\ ftin' = ftin - 1
              /\ UNCHANGED <<ftsent, ftdone, ftinit, fthandles, ftpos, ftdisk, ftreply, ftup, ftwant, ftskew>>

\* The end of read_payload: the reply is written and the next request is due.
Answer(op) == /\ ftup /\ ftgot = 2 /\ Req.op = op
              /\ ftinit \/ op = "INIT"
              /\ ftgot' = 0 /\ ftdone' = ftdone + 1
              /\ UNCHANGED <<ftin, ftsent, ftskew>>
FtSend(r) == ftreply' = Append(ftreply, r) /\ UNCHANGED ftup
Files == <<fthandles, ftpos, ftdisk, ftwant>>

fxp_init == Answer("INIT") /\ FtSend(Reply("VERSION", 3)) /\ ftinit' = TRUE /\ UNCHANGED Files

\* A handler returned 0: the reply it built is not written, and main returns.
give_up == /\ ftup /\ ftgot = 2
           /\ \/ Req.op # "INIT" /\ ~ftinit
              \/ Req.op = "OPEN" /\ ftinit /\ Req.excl /\ Req.creat /\ ftdisk[Req.file] # Absent
              \/ Req.op = "OPEN" /\ ftinit /\ ~(Req.creat \/ Req.excl \/ Req.trunc) /\ ftdisk[Req.file] = Absent
           /\ ftup' = FALSE /\ ftgot' = 0 /\ ftdone' = ftdone + 1
           /\ UNCHANGED <<ftin, ftsent, ftinit, fthandles, ftpos, ftdisk, ftreply, ftwant, ftskew>>

\* The flags are checked, then the file is opened, created or cut as they say.
fxp_open ==
  /\ Answer("OPEN")
  /\ UNCHANGED ftinit
  /\ LET f   == Req.file
         new == IF Req.trunc \/ ftdisk[f] = Absent THEN <<>> ELSE ftdisk[f]
     IN IF (Req.excl \/ Req.trunc) /\ ~Req.creat
        THEN FtSend(Status("BAD_MESSAGE")) /\ UNCHANGED Files
        ELSE /\ ~(Req.excl /\ ftdisk[f] # Absent)
             /\ Req.creat \/ ftdisk[f] # Absent
             /\ ftdisk' = [ftdisk EXCEPT ![f] = new]
             /\ ftwant' = [ftwant EXCEPT ![f] = new]
             /\ fthandles' = handle_create(NewKey, f)
             /\ ftpos' = [k \in DOMAIN ftpos \cup {NewKey} |-> IF k = NewKey THEN 0 ELSE ftpos[k]]
             /\ FtSend(Reply("HANDLE", NewKey))

fxp_opendir == /\ Answer("OPENDIR") /\ FtSend(Reply("HANDLE", NewKey))
               /\ fthandles' = handle_create(NewKey, FtDir)
               /\ ftpos' = [k \in DOMAIN ftpos \cup {NewKey} |-> IF k = NewKey THEN 0 ELSE ftpos[k]]
               /\ UNCHANGED <<ftinit, ftdisk, ftwant>>

\* handle_close forgets the handle; the descriptor stays open.
fxp_close == /\ Answer("CLOSE") /\ FtSend(Status("OK"))
             /\ fthandles' = handle_close(Req.key)
             /\ UNCHANGED <<ftinit, ftpos, ftdisk, ftwant>>

\* The piece at position at of a file; a gap before it holds zeroes.
PutAt(c, at, piece) == [i \in 1..(IF at + 1 > Len(c) THEN at + 1 ELSE Len(c)) |->
                          IF i = at + 1 THEN piece ELSE IF i <= Len(c) THEN c[i] ELSE 0]

fxp_write ==
  /\ Answer("WRITE")
  /\ UNCHANGED <<ftinit, fthandles>>
  /\ IF ~Known(Req.key)
     THEN FtSend(Status("NO_SUCH_FILE")) /\ UNCHANGED <<ftpos, ftdisk, ftwant>>
     ELSE \* write(): the offset of the request is read and not used.
          /\ ftdisk' = [ftdisk EXCEPT ![File(Req.key)] = PutAt(@, ftpos[Req.key], Req.id)]
          /\ ftwant' = [ftwant EXCEPT ![File(Req.key)] = PutAt(@, Req.offset, Req.id)]
          /\ ftpos' = [ftpos EXCEPT ![Req.key] = @ + 1]
          /\ FtSend(Status("OK"))

\* pread leaves the position alone.
AfterRead(key) == ftpos

fxp_read ==
  /\ Answer("READ")
  /\ UNCHANGED <<ftinit, fthandles, ftdisk, ftwant>>
  /\ ftpos' = IF Known(Req.key) THEN AfterRead(Req.key) ELSE ftpos
  /\ FtSend(IF ~Known(Req.key) THEN Status("NO_SUCH_FILE")
          ELSE LET c == ftdisk[File(Req.key)]
               IN IF Req.offset >= Len(c) THEN Status("EOF") ELSE Reply("DATA", c[Req.offset + 1]))

\* The descriptor is duplicated, so the position is the handle's own.
DirPos(key) == ftpos[key]

fxp_readdir ==
  /\ Answer("READDIR")
  /\ UNCHANGED <<ftinit, fthandles, ftdisk, ftwant>>
  /\ IF ~Known(Req.key) \/ File(Req.key) # FtDir
     THEN FtSend(Status(IF Known(Req.key) THEN "FAILURE" ELSE "NO_SUCH_FILE")) /\ UNCHANGED ftpos
     ELSE LET at  == DirPos(Req.key)
              end == IF at + FtPerReply > Len(FtEntries) THEN Len(FtEntries) ELSE at + FtPerReply
          IN IF at >= Len(FtEntries) THEN FtSend(Status("EOF")) /\ UNCHANGED ftpos
             ELSE /\ FtSend(Reply("NAME", SubSeq(FtEntries, at + 1, end)))
                  /\ ftpos' = [ftpos EXCEPT ![Req.key] = end]

\* stat, lstat, fstat and realpath look and change nothing.
fxp_stat == /\ Answer("STAT") /\ UNCHANGED <<ftinit>> /\ UNCHANGED Files
            /\ FtSend(IF ftdisk[Req.file] = Absent THEN Status("NO_SUCH_FILE") ELSE Reply("ATTRS", Len(ftdisk[Req.file])))
fxp_fstat == /\ Answer("FSTAT") /\ UNCHANGED <<ftinit>> /\ UNCHANGED Files
             /\ FtSend(IF Known(Req.key) THEN Reply("ATTRS", File(Req.key)) ELSE Status("NO_SUCH_FILE"))
fxp_unsupported == /\ Answer("OTHER") /\ UNCHANGED <<ftinit>> /\ UNCHANGED Files /\ FtSend(Status("OP_UNSUPPORTED"))

-----------------------------------------------------------------------------
\* The client: a key it uses came in a reply; at most two requests wait.
Keys == {ftreply[i].what : i \in {j \in DOMAIN ftreply : ftreply[j].type = "HANDLE"}}
OpenedAs(key) == ftsent[CHOOSE i \in DOMAIN ftreply : ftreply[i].type = "HANDLE" /\ ftreply[i].what = key]
IsDir(key) == OpenedAs(key).op = "OPENDIR"
WritesSent(key) == Cardinality({i \in DOMAIN ftsent : ftsent[i].op = "WRITE" /\ ftsent[i].key = key})
R(op) == [op |-> op, id |-> Len(ftsent) + 1, key |-> -1, offset |-> 0, file |-> FtDir,
          creat |-> FALSE, trunc |-> FALSE, excl |-> FALSE]
\* Flags: none, CREAT with each of the others, and TRUNC without it.
Flags == {<<FALSE, FALSE, FALSE>>, <<TRUE, FALSE, FALSE>>, <<TRUE, TRUE, FALSE>>, <<TRUE, FALSE, TRUE>>, <<FALSE, TRUE, FALSE>>}
Requests == {R(op) : op \in {"OPENDIR", "OTHER"} \cup (IF ftsent = <<>> THEN {"INIT"} ELSE {})}
            \cup {[R("OPEN") EXCEPT !.file = f, !.creat = x[1], !.trunc = x[2], !.excl = x[3]] : f \in FtFiles, x \in Flags}
            \cup {[R("STAT") EXCEPT !.file = f] : f \in FtFiles}
            \cup {[R(op) EXCEPT !.key = k] : op \in {"CLOSE", "READDIR", "FSTAT"}, k \in Keys}
            \cup {[R(op) EXCEPT !.key = k, !.offset = o] :
                    op \in {"READ", "WRITE"}, k \in {x \in Keys : ~IsDir(x)}, o \in 0..1}
client_sends == /\ Len(ftsent) - ftdone < 2 /\ Len(ftsent) <= FtRequests /\ ftup
                /\ \E r \in Requests :
                     /\ ftsent' = Append(ftsent, r)
                     /\ ftskew' = (ftskew \/ (r.op = "WRITE" /\ r.offset # WritesSent(r.key)))
                /\ ftin' = ftin + 2
                /\ UNCHANGED <<ftgot, ftdone, ftinit, fthandles, ftpos, ftdisk, ftreply, ftup, ftwant>>

FtInit == /\ ftin = 0 /\ ftsent = <<>> /\ ftgot = 0 /\ ftdone = 0 /\ ftinit = FALSE
          /\ fthandles = <<>> /\ ftpos = [k \in {} |-> 0]
          /\ ftdisk \in [FtFiles -> {Absent, <<-2>>}] /\ ftwant = ftdisk
          /\ ftreply = <<>> /\ ftup = TRUE /\ ftskew = FALSE

FtNext == \/ force_read \/ give_up \/ client_sends
          \/ fxp_init \/ fxp_open \/ fxp_opendir \/ fxp_close \/ fxp_write \/ fxp_read
          \/ fxp_readdir \/ fxp_stat \/ fxp_fstat \/ fxp_unsupported

-----------------------------------------------------------------------------
\* A client that writes each file from its start in order finds it as it wrote
\* it, though requests wait in the pipe and reads come between the writes; the
\* offset fxp_write ignores would only matter to another client.
UploadFaithful == ~ftskew => ftdisk = ftwant

\* READDIR on one handle gives every entry once, in order, over as many replies
\* as it takes, and says EOF only after the last.
ListingComplete ==
  \A k \in Keys :
    LET asked == SelectSeq([i \in DOMAIN ftreply |-> i], LAMBDA i : ftsent[i].op = "READDIR" /\ ftsent[i].key = k)
        names == FoldLeft(LAMBDA l, i : IF ftreply[i].type = "NAME" THEN l \o ftreply[i].what ELSE l, <<>>, asked)
    IN /\ IsPrefix(names, FtEntries)
       /\ \A i \in ToSet(asked) : ftreply[i].what = "EOF" => names = FtEntries

\* The handle of an open file or directory leads to it until the client closes
\* it, whichever other handles were opened and closed meanwhile.
HandlesFaithful ==
  \A k \in Keys : \/ \E i \in 1..ftdone : ftsent[i].op = "CLOSE" /\ ftsent[i].key = k
                  \/ Known(k) /\ File(k) = OpenedAs(k).file

\* Over any order of requests with several handles, files hold what was uploaded,
\* listings are complete, and a handle leads to what it was opened as (fxp_open,
\* fxp_write, fxp_readdir, handle_close).
TransfersFaithful == UploadFaithful /\ ListingComplete /\ HandlesFaithful
=============================================================================
