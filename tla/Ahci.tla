-------------------------------- MODULE Ahci --------------------------------
(***************************************************************************)
(* The SATA driver (drivers/ahci.c) below the block layer: a request is    *)
(* cut into commands of at most num_prdt sectors, each one put in a free   *)
(* command slot and awaited by polling the port.  The controller carries a *)
(* command out, or fails it.  A sector has AhSector cells.                 *)
(***************************************************************************)
EXTENDS Integers, Sequences, FiniteSets, SequencesExt, FiniteSetsExt

CONSTANTS AhSector,      \* cells of a sector (512 bytes)
          AhPrdt,        \* num_prdt: most sectors of one command
          AhSectors,     \* sectors of the drive
          AhSlotField,   \* command slots according to the capability register
          AhRequests,    \* bound: requests served
          AhFails        \* bound: commands the controller fails

VARIABLES ahdisk,   \* the drive's cells
          ahport,   \* the port: slots in use (ci), error bit (tfes)
          ah,       \* the request being served and its local variables
          ahbudget  \* requests and failures still allowed
ah_vars == <<ahdisk, ahport, ah, ahbudget>>

AhCells == 0..AhSectors * AhSector - 1
NoCmd == [slot |-> -1, w |-> FALSE, lba |-> 0, n |-> 0, data |-> <<>>]
\* What a buffer holds past its end, or where nothing was ever stored.
Junk == -1
At(s, i) == IF i \in 1..Len(s) THEN s[i] ELSE Junk
Piece(s, from, n) == [i \in 1..n |-> At(s, from + i)]
\* memcpy(s + from, t, n)
Patched(s, from, t, n) == [i \in 1..Len(s) |-> IF i \in from + 1..from + n THEN At(t, i - from) ELSE s[i]]

\* Drives on the controller's ports at boot.
Kinds == {"none", "sata", "satapi"}

AhInit == /\ ahdisk = [c \in AhCells |-> c]
          /\ ahport = [ci |-> {}, tfes |-> FALSE, drive |-> -1]
          /\ ah = [pc |-> "boot"]
          /\ ahbudget = [requests |-> AhRequests, fails |-> AhFails]

\* check_type tells the ports apart; ahci_sata_setup stops the port, gives it its
\* command list and starts it; add_devfs_drive_file makes a file of it.  The file
\* system opens the first.
ahci_init(kinds) ==
  LET sata == {p \in DOMAIN kinds : kinds[p] = "sata"} IN
  /\ ah.pc = "boot"
  /\ sata # {}          \* without one the root file system cannot be mounted
  /\ ahport' = [ahport EXCEPT !.drive = Min(sata)]
  /\ ah' = [pc |-> "done", op |-> "none", from |-> 0, size |-> 0, want |-> <<>>, before |-> ahdisk, lba |-> 0,
            off |-> 0, len |-> 0, sc |-> 0, buf |-> <<>>, tmp |-> <<>>, cmd |-> NoCmd, bad |-> FALSE]
  /\ UNCHANGED <<ahdisk, ahbudget>>

\* The slots the port has nothing to do for.
get_free_command_slot == {s \in 0..AhSlotField - 1 : s \notin ahport.ci}

\* ahci_perform_command: clear the error bit, wait for a slot, fill it, issue it.
\* The rest of it, the wait for completion, is the guard Finished of the next step.
Issue(w, lba, n, data, local) ==
  /\ get_free_command_slot # {}
  /\ LET s == Min(get_free_command_slot)
     IN  /\ ahport' = [ahport EXCEPT !.ci = @ \cup {s}, !.tfes = FALSE]
         /\ ah' = [local EXCEPT !.cmd = [slot |-> s, w |-> w, lba |-> lba, n |-> n, data |-> data],
                                !.tmp = <<>>]
  /\ UNCHANGED <<ahdisk, ahbudget>>
Finished == ah.cmd.slot \notin ahport.ci \/ ahport.tfes

\* The controller carries the issued command out.
device_completes ==
  /\ ah.pc # "boot" /\ ah.cmd.slot \in ahport.ci /\ ~ahport.tfes
  /\ LET first == ah.cmd.lba * AhSector
         size  == ah.cmd.n * AhSector
     IN  IF ah.cmd.w
         THEN /\ ahdisk' = [c \in AhCells |-> IF c \in first..first + size - 1
                                              THEN At(ah.cmd.data, c - first + 1) ELSE ahdisk[c]]
              /\ ah' = ah
         ELSE /\ ah' = [ah EXCEPT !.tmp = [i \in 1..size |-> IF first + i - 1 \in AhCells
                                                             THEN ahdisk[first + i - 1] ELSE Junk]]
              /\ ahdisk' = ahdisk
  /\ ahport' = [ahport EXCEPT !.ci = @ \ {ah.cmd.slot}]
  /\ UNCHANGED ahbudget

\* It fails: the error bit is raised and the slot stays taken.  The callers ignore
\* the result of ahci_perform_command.
device_fails ==
  /\ ah.pc # "boot" /\ ah.cmd.slot \in ahport.ci /\ ~ahport.tfes /\ ahbudget.fails > 0
  /\ ahport' = [ahport EXCEPT !.tfes = TRUE]
  /\ ah' = [ah EXCEPT !.bad = TRUE]
  /\ ahbudget' = [ahbudget EXCEPT !.fails = @ - 1]
  /\ UNCHANGED ahdisk

\* Entry of ahci_write and ahci_read.  Both assert that the drive is on port 0.
Enter(op, offset, len, data, pc) ==
  /\ ah.pc = "done" /\ ahbudget.requests > 0
  /\ ahbudget' = [ahbudget EXCEPT !.requests = @ - 1]
  /\ ah' = [pc |-> IF ahport.drive = 0 THEN pc ELSE "stopped", op |-> op, from |-> offset, size |-> len,
            want |-> data, before |-> ahdisk, lba |-> offset \div AhSector, off |-> offset % AhSector, len |-> len,
            sc |-> (len + AhSector - 1) \div AhSector, buf |-> data, tmp |-> <<>>, cmd |-> NoCmd, bad |-> FALSE]
  /\ UNCHANGED <<ahdisk, ahport>>

ahci_write(offset, data) ==
  Enter("write", offset, Len(data), data, IF offset % AhSector > 0 THEN "head" ELSE "bulk")
ahci_read(offset, len) == Enter("read", offset, len, <<>>, "fetch")

\* A write that begins inside a sector reads it, patches it and writes it back.
WriteHead == ah.pc = "head" /\ Finished /\ Issue(FALSE, ah.lba, 1, <<>>, [ah EXCEPT !.pc = "patch"])
WritePatch ==
  LET n == Min({AhSector - ah.off, ah.len}) IN
  /\ ah.pc = "patch" /\ Finished
  /\ Issue(TRUE, ah.lba, 1, Patched(Piece(ah.tmp, 0, AhSector), ah.off, ah.buf, n),
           [ah EXCEPT !.pc = "bulk", !.off = 0, !.len = @ - n, !.sc = @ - 1, !.lba = @ + 1])

\* Whole commands, then the whole sectors that are left, or a last stretch that
\* ends inside a sector and is read first.
WriteBulk ==
  LET size == AhPrdt * AhSector IN
  /\ ah.pc = "bulk" /\ Finished
  /\ \/ /\ ah.sc >= AhPrdt
        /\ Issue(TRUE, ah.lba, AhPrdt, Piece(ah.buf, 0, size),
                 [ah EXCEPT !.buf = SubSeq(@, size + 1, Len(@)), !.len = Max({@ - size, 0}),
                            !.sc = @ - AhPrdt, !.lba = @ + 1])
     \/ /\ ah.sc \in 1..AhPrdt - 1 /\ ah.len % AhSector = 0
        /\ Issue(TRUE, ah.lba, ah.sc, Piece(ah.buf, 0, ah.sc * AhSector), [ah EXCEPT !.pc = "end"])
     \/ /\ ah.sc \in 1..AhPrdt - 1 /\ ah.len % AhSector # 0
        /\ Issue(FALSE, ah.lba, ah.sc, <<>>, [ah EXCEPT !.pc = "tail"])
     \/ /\ ah.sc = 0
        /\ ah' = [ah EXCEPT !.pc = "end"] /\ UNCHANGED <<ahdisk, ahport, ahbudget>>

\* Mutant: the last stretch is written over sectors that were never read.
WriteTail_bug ==
  /\ ah.pc = "tail" /\ Finished
  /\ Issue(TRUE, ah.lba, ah.sc, Patched(Piece(<<>>, 0, ah.sc * AhSector), ah.off, ah.buf, ah.len),
           [ah EXCEPT !.pc = "end"])
WriteTail ==
  /\ ah.pc = "tail" /\ Finished
  /\ Issue(TRUE, ah.lba, ah.sc, Patched(Piece(ah.tmp, 0, ah.sc * AhSector), ah.off, ah.buf, ah.len),
           [ah EXCEPT !.pc = "end"])

\* Reads go through a buffer of num_prdt sectors on the stack.
ReadFetch ==
  /\ ah.pc = "fetch" /\ Finished
  /\ \/ /\ ah.sc >= AhPrdt
        /\ Issue(FALSE, ah.lba, AhPrdt, <<>>, [ah EXCEPT !.pc = "copy"])
     \/ /\ ah.sc \in 1..AhPrdt - 1
        /\ Issue(FALSE, ah.lba, ah.sc, <<>>, [ah EXCEPT !.pc = "last"])
     \/ /\ ah.sc = 0
        /\ ah' = [ah EXCEPT !.pc = "end"] /\ UNCHANGED <<ahdisk, ahport, ahbudget>>
ReadCopy ==
  LET size == AhPrdt * AhSector IN
  /\ ah.pc = "copy" /\ Finished
  /\ ah' = [ah EXCEPT !.buf = @ \o Piece(ah.tmp, ah.off, size), !.off = 0, !.len = Max({@ - size, 0}),
                      !.sc = @ - AhPrdt, !.lba = @ + 1, !.pc = "fetch"]
  /\ UNCHANGED <<ahdisk, ahport, ahbudget>>
ReadLast ==
  /\ ah.pc = "last" /\ Finished
  /\ ah' = [ah EXCEPT !.buf = @ \o Piece(ah.tmp, ah.off, ah.len), !.pc = "end"]
  /\ UNCHANGED <<ahdisk, ahport, ahbudget>>
Return == /\ ah.pc = "end" /\ Finished
          /\ ah' = [ah EXCEPT !.pc = "done"]
          /\ UNCHANGED <<ahdisk, ahport, ahbudget>>

AhStep == WriteHead \/ WritePatch \/ WriteBulk \/ WriteTail \/ ReadFetch \/ ReadCopy \/ ReadLast \/ Return
AhCall == \E o \in AhCells : \E n \in 1..AhSectors * AhSector - o :
            ahci_write(o, [i \in 1..n |-> 100 + i]) \/ ahci_read(o, n)
AhNext == \/ \E kinds \in [0..1 -> Kinds] : ahci_init(kinds)
          \/ AhCall \/ AhStep \/ device_completes \/ device_fails
-----------------------------------------------------------------------------
\* The requests the driver serves exactly, those of the block layer among them: they
\* begin at a sector or lie within one, and take one command of fewer than num_prdt
\* sectors, or a whole one.
Served(offset, len) ==
  LET sc == (len + AhSector - 1) \div AhSector
  IN  /\ offset % AhSector = 0 \/ (offset % AhSector) + len <= AhSector
      /\ sc < AhPrdt \/ len = AhPrdt * AhSector

\* When no command failed, such a write changes exactly the bytes it names to the
\* ones it was given, and such a read returns the bytes of the drive and changes
\* none, in spite of the sectors it reads and writes around them (ahci_write and
\* ahci_read).
DriveExact ==
  ah.pc = "done" =>
    LET len == ah.size IN
    ah.op # "none" /\ ~ah.bad /\ Served(ah.from, len) =>
      /\ ah.op = "write" => \A c \in AhCells :
           ahdisk[c] = IF c \in ah.from..ah.from + len - 1 THEN ah.want[c - ah.from + 1] ELSE ah.before[c]
      /\ ah.op = "read" => ahdisk = ah.before /\ \A i \in 1..len : ah.buf[i] = ahdisk[ah.from + i - 1]
=============================================================================
