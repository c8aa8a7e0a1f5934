------------------------------- MODULE Paths -------------------------------
(* Path names in kernel/fs/vfs.c: the canonicalisation of a path, the choice of
   the mount, and chdir, open and unlink on top of them.  A path is a sequence
   of characters, a name one character long.  The mounts are a device file
   system on "/m" and the disk on "/", in the order kernel.c mounts them. *)
EXTENDS SequencesExt, FiniteSets, Naturals
CONSTANTS PWalks,    \* the paths given to chdir
          PPaths,    \* the paths given to open and unlink
          PDirs,     \* the directories on the disk, as sequences of names
          PEntries,  \* bound: the directories and files on the disk
          PDevices   \* the names of the device file system

VARIABLES pcwd,      \* current_working_directory
          pat,       \* the names that lead to the directory walked to so far
          pdirs,     \* the directories on the disk
          pfiles,    \* its files
          plast      \* what the last open or unlink found, and the path it was given
path_vars == <<pcwd, pat, pdirs, pfiles, plast>>

Nowhere == <<"none">>
Char(p, i) == IF i <= Len(p) THEN p[i] ELSE "NUL"
Rest(p, i) == SubSeq(p, i, Len(p))

(* What a path means: "" and "." stay, ".." goes to the parent. *)
Enter1(at, name) == CASE name \in {<<>>, <<".">>} -> at
                      [] name = <<".", ".">>      -> IF at = <<>> THEN at ELSE Front(at)
                      [] OTHER                    -> Append(at, name[1])
NamesIn(p) == LET Read(acc, c) == IF c = "/" THEN [acc EXCEPT !.out = Append(@, acc.cur), !.cur = <<>>]
                                             ELSE [acc EXCEPT !.cur = Append(@, c)]
              IN FoldLeft(Read, [out |-> <<>>, cur |-> <<>>], Append(p, "/")).out
Meaning(at, p) == FoldLeft(Enter1, IF Char(p, 1) = "/" THEN <<>> ELSE at, NamesIn(p))

Starts(p, i, w) == \A k \in 1..Len(w) : Char(p, i + k - 1) = w[k]
AnyOf(p, i, ws) == \E w \in ws : Starts(p, i, w)

\* The result without its last directory: the search for the '/' starts two back.
ToParent(res) == SubSeq(res, 1, CHOOSE j \in 0..(Len(res) - 2) :
                                  /\ res[j + 1] = "/"
                                  /\ \A k \in (j + 1)..(Len(res) - 2) : res[k + 1] # "/")
(* The loop of vfs_clean_path from p[i] on: res is what is written, start is
   start_directory, slash is should_insert_slash. *)
RECURSIVE Clean(_, _, _, _, _)
Clean(p, i, res, start, slash) ==
  LET parent == start /\ Char(p, i) # "/" /\ AnyOf(p, i, {<<".", ".", "/">>, <<".", ".", "NUL">>})
      skip   == start /\ (Char(p, i) = "/" \/ AnyOf(p, i, {<<".", "/">>, <<".", "NUL">>}))
      j      == IF skip THEN i + 1 ELSE IF parent THEN i + 2 ELSE i
      top    == Len(res) < 2
      out    == CASE parent /\ ~top                    -> ToParent(res)
                  [] parent /\ top /\ Char(p, j) = "/" -> Front(res)
                  [] OTHER                             -> res
      ins    == slash \/ (parent /\ ~top /\ Char(p, j) # "/")
  IN IF i > Len(p) \/ j > Len(p) THEN IF ins THEN Append(out, "/") ELSE out
     ELSE Clean(p, j + 1, Append(out, p[j]), p[j] = "/", ins)

\* The leading slashes but one are skipped.
vfs_clean_path(p) ==
  LET first == CHOOSE i \in 1..Len(p) : /\ \A k \in 1..i : p[k] = "/"
                                        /\ Char(p, i + 1) # "/"
  IN Clean(p, first, <<>>, FALSE, FALSE)

\* The root of the process is "/", so the result always starts with it.
vfs_resolve_path(file) ==
  vfs_clean_path(<<"/">> \o (IF file[1] # "/" THEN pcwd ELSE <<>>) \o file)

Mounts == << <<"/", "m">>, <<"/">> >>
\* Mutant: the first mount that fits wins, the table read from its end.
vfs_get_mount_bug(p) ==
  LET fits == {i \in 1..Len(Mounts) : Starts(p, 1, Mounts[i])}
      best == CHOOSE i \in fits : \A k \in fits : k <= i
  IN [mount |-> best, file |-> IF Len(Mounts[best]) = 1 THEN p ELSE Rest(p, Len(Mounts[best]) + 1)]

\* The longest mount the path starts with, and the path under it.
vfs_get_mount(p) ==
  LET fits == {i \in 1..Len(Mounts) : Starts(p, 1, Mounts[i])}
      best == CHOOSE i \in fits : \A k \in fits : Len(Mounts[k]) <= Len(Mounts[i])
  IN [mount |-> best, file |-> IF Len(Mounts[best]) = 1 THEN p ELSE Rest(p, Len(Mounts[best]) + 1)]
(* ext2_find_inode: one leading slash is eaten and a trailing one ends the walk.
   An empty name in between stays in the directory, and what is then read of the
   entry's type is not initialised: junk says whether it reads as a directory. *)
DiskLookup(file, junk) ==
  LET raw   == NamesIn(IF Char(file, 1) = "/" THEN Tail(file) ELSE file)
      names == IF Len(raw) > 1 /\ Last(raw) = <<>> THEN Front(raw) ELSE raw
      Walk(at, name) ==
        IF at = Nowhere \/ at \notin pdirs THEN Nowhere
        ELSE LET to == Enter1(at, name)
             IN IF to \notin pdirs \cup pfiles \/ (name = <<>> /\ file # <<"/">> /\ ~junk) THEN Nowhere ELSE to
  IN FoldLeft(Walk, <<>>, names)

Found(mount, at) == [mount |-> mount, at |-> at]
NoInode == Found(0, Nowhere)
\* devfs_open: the device whose name the path starts with.  Its root is no file.
DeviceOpen(file) ==
  LET fits == {d \in PDevices : Starts(file, 1, <<"/", d>>)}
  IN IF fits = {} THEN NoInode ELSE Found(1, <<CHOOSE d \in fits : TRUE>>)

vfs_internal_open(p, junk) ==
  LET m == vfs_get_mount(p)
  IN IF m.mount = 1 THEN DeviceOpen(m.file)
     ELSE LET at == DiskLookup(m.file, junk) IN IF at = Nowhere THEN NoInode ELSE Found(2, at)

\* The file the meaning of a path stands for, as things are.
Named(at) == CASE at # <<>> /\ at[1] = "m" ->
                    IF Len(at) = 2 /\ at[2] \in PDevices THEN Found(1, Tail(at)) ELSE NoInode
               [] at \in pdirs \cup pfiles -> Found(2, at)
               [] OTHER -> NoInode

vfs_open(file) ==
  \E junk \in BOOLEAN :
    plast' = [got |-> vfs_internal_open(vfs_resolve_path(file), junk), want |-> Named(Meaning(pat, file))]
    /\ UNCHANGED <<pcwd, pat, pdirs, pfiles>>

(* O_CREAT: the file system creates the last name under the directory the rest
   of the resolved path leads to, and vfs_open starts again.  Only where the
   directory exists: where a directory cannot be made, vfs_open calls itself
   without end, and a file asked for on the device mount fails an assertion. *)
vfs_create(file, isdir) ==
  \E junk \in BOOLEAN :
    LET r    == vfs_resolve_path(file)
        m    == vfs_get_mount(r)
        cut  == CHOOSE i \in 1..Len(r) : r[i] = "/" /\ \A k \in (i + 1)..Len(r) : r[k] # "/"
        dir  == IF cut = 1 THEN <<>> ELSE DiskLookup(SubSeq(r, 1, cut - 1), junk)
        at   == Append(dir, r[Len(r)])
        mean == Meaning(pat, file)
    IN /\ Cardinality(pdirs) + Cardinality(pfiles) < PEntries
       /\ m.mount = 2 /\ Last(r) \notin {"/", "."} /\ vfs_internal_open(r, junk) = NoInode /\ dir \in pdirs
       /\ IF isdir THEN pdirs' = pdirs \cup {at} /\ UNCHANGED pfiles
                   ELSE pfiles' = pfiles \cup {at} /\ UNCHANGED pdirs
       /\ plast' = [got |-> Found(2, at), want |-> Found(2, mean)]
       /\ UNCHANGED <<pcwd, pat>>

\* Only a file of the disk can go; a directory's entry is left to Ext2.
vfs_unlink(file) ==
  LET m  == vfs_get_mount(vfs_resolve_path(file))
      at == DiskLookup(m.file, TRUE)
  IN /\ m.mount = 2 /\ at \in pfiles
     /\ pfiles' = pfiles \ {at}
     /\ plast' = [got |-> Found(2, at), want |-> Named(Meaning(pat, file))]
     /\ UNCHANGED <<pcwd, pat, pdirs>>

\* vfs_open resolves the resolved path a second time; a '/' always follows the
\* directory, also one that ends in it.  A device fails the assertion of vfs_fstat.
Directory(inode) == inode.mount = 2 /\ inode.at \in pdirs
WithSlash(r) == IF Len(r) = 1 THEN r ELSE Append(r, "/")
vfs_chdir(path) ==
  \E junk \in BOOLEAN :
    LET r == vfs_resolve_path(path)
    IN /\ Directory(vfs_internal_open(vfs_resolve_path(r), junk))
       /\ pcwd' = WithSlash(r)
       /\ pat' = Meaning(pat, path)
       /\ UNCHANGED <<pdirs, pfiles, plast>>

PathInit == /\ pcwd = <<"/">> /\ pat = <<>> /\ pdirs = PDirs /\ pfiles = {}
            /\ plast = [got |-> NoInode, want |-> NoInode]
PathNext == \/ \E p \in PWalks : vfs_chdir(p)
            \/ \E p \in PPaths : vfs_open(p) \/ vfs_unlink(p) \/ \E isdir \in BOOLEAN : vfs_create(p, isdir)

(* However a program has walked, the working directory the kernel keeps as text
   names the directory walked to (vfs_chdir, vfs_clean_path). *)
CwdIsWhereWalked == Meaning(<<>>, pcwd) = pat

(* open, create and unlink reach the file that the walk so far and the path they
   are given stand for, on the right mount, whatever text the walk left behind. *)
OpensTheNamed == plast.got = plast.want

\* A path means the same to the kernel as to the program that walked: the text of the
\* working directory, and the file that open, create and unlink reach through it
\* (vfs_clean_path, vfs_chdir, vfs_get_mount).
PathsFaithful == CwdIsWhereWalked /\ OpensTheNamed
=============================================================================
