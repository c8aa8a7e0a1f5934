--------------------------- MODULE FdTableProofs ---------------------------
(***************************************************************************)
(* Reference counts of open files and the raw pointers between the two     *)
(* inodes of a pipe, for any number of processes, descriptors and pipes.   *)
(* The inductive invariant adds to RefsExact that only a live process has  *)
(* descriptors and that both ends of a pipe come into being together.      *)
(* Then the bytes that go through a pipe, for every buffer size and every  *)
(* length of calls.                                                        *)
(***************************************************************************)
EXTENDS FdTable, Pipe, FiniteSetTheorems, WellFoundedInduction, TLAPS

OnlyLiveHold == \A p \in Procs : life[p] # "alive" => \A s \in FdSlots : fd_table[p][s] = NoFd
BornTogether == \A i \in Pipes : file[<<i, 0>>].mem = "unused" <=> file[<<i, 1>>].mem = "unused"

FdInv == RefsExact /\ OnlyLiveHold /\ BornTogether

\* An end is no empty slot, and its peer is the other end of the same pipe.
LEMMA EndFacts ==
  /\ NoFd \notin Ends
  /\ \A e \in Ends : Peer(e) \in Ends /\ Peer(Peer(e)) = e /\ Peer(e) # e
  /\ \A i \in Pipes : <<i, 0>> \in Ends /\ <<i, 1>> \in Ends /\ <<i, 0>> # <<i, 1>>
<1>1. NoFd \notin Ends
  BY DEF NoFd, Ends
<1>2. ASSUME NEW e \in Ends PROVE Peer(e) \in Ends /\ Peer(Peer(e)) = e /\ Peer(e) # e
  <2>1. PICK i \in Pipes, n \in {0, 1} : e = <<i, n>>
    BY DEF Ends
  <2>2. Peer(e) = <<i, 1 - n>> /\ 1 - n \in {0, 1} /\ 1 - (1 - n) = n /\ 1 - n # n
    BY <2>1 DEF Peer
  <2> QED
    BY <2>1, <2>2 DEF Ends, Peer
<1>3. ASSUME NEW i \in Pipes PROVE <<i, 0>> \in Ends /\ <<i, 1>> \in Ends /\ <<i, 0>> # <<i, 1>>
  BY DEF Ends
<1> QED
  BY <1>1, <1>2, <1>3

\* A set of slots that is not empty has a least one: relist_add finds its free slot.
LEMMA MinSlot == ASSUME NEW S \in SUBSET FdSlots, S # {} PROVE Min(S) \in S
<1>1. S \subseteq Nat
  BY FdAssumption DEF FdSlots
<1>2. PICK x \in S : \A y \in S : ~(<<y, x>> \in OpToRel(<, Nat))
  BY <1>1, NatLessThanWellFounded, WFMin, Zenon
<1>3. ASSUME NEW y \in S PROVE x <= y
  <2>1. OpToRel(<, Nat) = {ss \in Nat \X Nat : ss[1] < ss[2]}
    BY Zenon DEF OpToRel
  <2>2. y < x => <<y, x>> \in {ss \in Nat \X Nat : ss[1] < ss[2]}
    BY <1>1
  <2>3. ~(y < x)
    BY <1>2, <2>1, <2>2, Zenon
  <2> QED
    BY <1>1, <2>3
<1> QED
  BY <1>3 DEF Min

LEMMA SlotSets ==
  /\ IsFiniteSet(FdSlots)
  /\ \A A \in SUBSET FdSlots : IsFiniteSet(A) /\ Cardinality(A) \in Nat
<1>1. IsFiniteSet(FdSlots)
  BY FdAssumption, FS_Interval DEF FdSlots
<1> QED
  BY <1>1, FS_Subset, FS_CardinalityType

\* The descriptors of one process as holders: as many pairs as slots.
LEMMA PairsOf ==
  ASSUME NEW p, NEW A \in SUBSET FdSlots
  PROVE  IsFiniteSet({p} \X A) /\ Cardinality({p} \X A) = Cardinality(A)
<1>1. IsFiniteSet(A) /\ Cardinality(A) \in Nat
  BY SlotSets
<1>2. IsFiniteSet({p}) /\ Cardinality({p}) = 1
  BY FS_Singleton, Zenon
<1>3. IsFiniteSet({p} \X A) /\ Cardinality({p} \X A) = Cardinality({p}) * Cardinality(A)
  BY <1>1, <1>2, FS_Product
<1> QED
  BY <1>1, <1>2, <1>3

\* The holders H become G: the slots A of p are taken away, the slots B of q added.
Moved(H, p, A, q, B, G) ==
  /\ A \in SUBSET FdSlots /\ B \in SUBSET FdSlots
  /\ {p} \X A \subseteq H
  /\ ({q} \X B) \cap (H \ ({p} \X A)) = {}
  /\ G = (H \ ({p} \X A)) \cup ({q} \X B)

LEMMA MovedCount ==
  ASSUME NEW H, IsFiniteSet(H), NEW p, NEW q, NEW A, NEW B, NEW G, Moved(H, p, A, q, B, G)
  PROVE  /\ Cardinality(G) = (Cardinality(H) - Cardinality(A)) + Cardinality(B)
         /\ Cardinality(A) <= Cardinality(H)
<1> DEFINE X == {p} \X A
           Y == {q} \X B
<1>1. IsFiniteSet(X) /\ Cardinality(X) = Cardinality(A) /\ IsFiniteSet(Y) /\ Cardinality(Y) = Cardinality(B)
  BY PairsOf, Zenon DEF Moved
<1>2. X \subseteq H /\ Y \cap (H \ X) = {} /\ G = (H \ X) \cup Y
  BY DEF Moved
<1>3. Cardinality(H) \in Nat /\ Cardinality(A) \in Nat /\ Cardinality(B) \in Nat
  BY FS_CardinalityType, SlotSets DEF Moved
<1> HIDE DEF X, Y
<1>4. Cardinality(X) <= Cardinality(H)
  BY <1>2, FS_Subset
<1>5. IsFiniteSet(H \ X) /\ Cardinality(H \ X) = Cardinality(H) - Cardinality(H \cap X)
  BY FS_Difference
<1>6. H \cap X = X /\ (H \ X) \cap Y = {}
  BY <1>2
<1>7. Cardinality((H \ X) \cup Y) = Cardinality(H \ X) + Cardinality(Y) - Cardinality((H \ X) \cap Y)
  BY <1>1, <1>5, FS_Union
<1>8. Cardinality(H \cap X) = Cardinality(A) /\ Cardinality((H \ X) \cap Y) = 0
  BY <1>1, <1>6, FS_EmptySet, Zenon
<1>9. Cardinality((H \ X) \cup Y) = (Cardinality(H) - Cardinality(A)) + Cardinality(B)
  BY <1>1, <1>3, <1>5, <1>7, <1>8
<1> QED
  BY <1>1, <1>2, <1>4, <1>9

\* The descriptors of p that lead to e are among the holders of e.
LEMMA RowHeld ==
  ASSUME FdTypeOK, NEW p \in Procs, NEW S \in SUBSET FdSlots, NEW e \in Ends
  PROVE  /\ Row(p, S, e) \in SUBSET FdSlots /\ Cardinality(Row(p, S, e)) \in Nat
         /\ {p} \X Row(p, S, e) \subseteq Holders(fd_table, e)
         /\ IsFiniteSet(Holders(fd_table, e)) /\ Cardinality(Holders(fd_table, e)) \in Nat
         /\ Cardinality(Row(p, S, e)) <= Cardinality(Holders(fd_table, e))
<1>1. Row(p, S, e) \in SUBSET FdSlots
  BY DEF Row
<1>2. {p} \X Row(p, S, e) \subseteq Holders(fd_table, e)
  BY DEF Row, Holders
<1>3. IsFiniteSet(Procs \X FdSlots)
  BY FdAssumption, SlotSets, FS_Product
<1>4. IsFiniteSet(Holders(fd_table, e))
  BY <1>3, FS_Subset DEF Holders
<1>5. Cardinality({p} \X Row(p, S, e)) <= Cardinality(Holders(fd_table, e))
  BY <1>2, <1>4, FS_Subset
<1> QED
  BY <1>1, <1>2, <1>4, <1>5, SlotSets, PairsOf, FS_CardinalityType, Zenon

File_t == [mem : {"unused", "used", "freed"}, refs : Nat, open : BOOLEAN]

\* vfs_close_process takes one reference per descriptor and frees at zero.
LEMMA ClosedFiles ==
  ASSUME RefsExact, NEW p \in Procs, NEW S \in SUBSET FdSlots, NEW e \in Ends
  PROVE  LET f == vfs_close_process(p, S)[e]
         IN  /\ f \in File_t
             /\ f.refs = file[e].refs - Cardinality(Row(p, S, e))
             /\ f.mem = "used" <=> f.refs > 0
             /\ f.mem = "unused" <=> file[e].mem = "unused"
<1> DEFINE n == Cardinality(Row(p, S, e))
           gone == {d \in Ends : Cardinality(Row(p, S, d)) > 0 /\ file[d].refs = Cardinality(Row(p, S, d))}
           f == vfs_close_process(p, S)[e]
<1>1. /\ n \in Nat /\ file[e] \in File_t /\ lost[e] \in Nat
      /\ Cardinality(Holders(fd_table, e)) \in Nat /\ n <= Cardinality(Holders(fd_table, e))
  BY RowHeld, Zenon DEF RefsExact, FdTypeOK, File_t
<1>2. file[e].refs \in Nat /\ n <= file[e].refs /\ (file[e].mem = "used" <=> file[e].refs > 0)
  BY <1>1 DEF RefsExact
<1>3. e \in gone <=> n > 0 /\ file[e].refs = n
  OBVIOUS
<1>4. f = [mem |-> IF e \in gone THEN "freed" ELSE file[e].mem,
           refs |-> file[e].refs - n, open |-> Hangup(e, gone)]
  BY DEF vfs_close_process
<1>5. Hangup(e, gone) \in BOOLEAN
  BY DEF Hangup
<1>6. file[e].mem \in {"unused", "used", "freed"}
  BY <1>1 DEF File_t
<1>7. (IF e \in gone THEN "freed" ELSE file[e].mem) \in {"unused", "used", "freed"} /\ file[e].refs - n \in Nat
  BY <1>1, <1>2, <1>6
<1> HIDE DEF n, gone, f
<1>8. f \in File_t /\ f.refs = file[e].refs - n /\ f.mem = (IF e \in gone THEN "freed" ELSE file[e].mem)
  BY <1>4, <1>5, <1>7 DEF File_t
<1>9. (f.mem = "used" <=> f.refs > 0) /\ (f.mem = "unused" <=> file[e].mem = "unused")
  BY <1>1, <1>2, <1>3, <1>8
<1> QED
  BY <1>8, <1>9 DEF n, f

\* The count of e stays exact when the holders and reference_count move together.
LEMMA Recount ==
  ASSUME RefsExact, NEW e \in Ends, NEW p, NEW q, NEW A, NEW B, NEW G,
         Moved(Holders(fd_table, e), p, A, q, B, G)
  PROVE  /\ Cardinality(G) + lost[e] = (file[e].refs - Cardinality(A)) + Cardinality(B)
         /\ Cardinality(A) \in Nat /\ Cardinality(B) \in Nat /\ Cardinality(A) <= file[e].refs
         /\ file[e].refs \in Nat /\ lost[e] \in Nat /\ Cardinality(G) \in Nat
<1> DEFINE H == Holders(fd_table, e)
<1>1. IsFiniteSet(H) /\ Cardinality(H) \in Nat
  <2>1. Boot \in Procs
    BY FdAssumption
  <2> QED
    BY <2>1, RowHeld, Zenon DEF RefsExact
<1>2. file[e].refs = Cardinality(H) + lost[e] /\ lost[e] \in Nat /\ file[e].refs \in Nat
  BY DEF RefsExact, FdTypeOK
<1>3. Cardinality(A) \in Nat /\ Cardinality(B) \in Nat
  BY SlotSets DEF Moved
<1>4. Cardinality(G) = (Cardinality(H) - Cardinality(A)) + Cardinality(B) /\ Cardinality(A) <= Cardinality(H)
  BY <1>1, MovedCount
<1> QED
  BY <1>1, <1>2, <1>3, <1>4

\* Writing v to the slot m of p moves the holders of e.
LEMMA SetSlot ==
  ASSUME FdTypeOK, NEW p \in Procs, NEW m \in FdSlots, NEW v, NEW e \in Ends
  PROVE  Moved(Holders(fd_table, e), p, Row(p, {m}, e), p, IF v = e THEN {m} ELSE {},
               Holders([fd_table EXCEPT ![p][m] = v], e))
<1> DEFINE t == [fd_table EXCEPT ![p][m] = v]
           A == Row(p, {m}, e)
           B == IF v = e THEN {m} ELSE {}
           H == Holders(fd_table, e)
<1>1. A \in SUBSET FdSlots /\ {p} \X A \subseteq H
  BY RowHeld
<1>2. A = {s \in {m} : fd_table[p][s] = e}
  BY DEF Row
<1>3. \A r \in Procs, s \in FdSlots : t[r][s] = IF r = p /\ s = m THEN v ELSE fd_table[r][s]
  BY DEF FdTypeOK
<1>4. B \in SUBSET FdSlots /\ \A s : s \in B <=> s = m /\ v = e
  OBVIOUS
<1>5. \A r \in Procs, s \in FdSlots : <<r, s>> \in H <=> fd_table[r][s] = e
  BY DEF Holders
<1>6. \A r \in Procs, s \in FdSlots : <<r, s>> \in Holders(t, e) <=> t[r][s] = e
  BY DEF Holders
<1>7. H \subseteq Procs \X FdSlots /\ Holders(t, e) \subseteq Procs \X FdSlots
  BY DEF Holders
<1> HIDE DEF t, A, B, H
<1>8. \A r \in Procs, s \in FdSlots : <<r, s>> \in Holders(t, e) <=> <<r, s>> \in (H \ ({p} \X A)) \cup ({p} \X B)
  <2> TAKE r \in Procs, s \in FdSlots
  <2>1. (<<r, s>> \in {p} \X A <=> r = p /\ s \in A) /\ (<<r, s>> \in {p} \X B <=> r = p /\ s \in B)
    OBVIOUS
  <2>2. s \in A <=> s = m /\ fd_table[p][s] = e
    BY <1>2
  <2>3. <<r, s>> \in Holders(t, e) <=> (IF r = p /\ s = m THEN v ELSE fd_table[r][s]) = e
    BY <1>3, <1>6
  <2> QED
    BY <1>4, <1>5, <2>1, <2>2, <2>3
<1>9. Holders(t, e) = (H \ ({p} \X A)) \cup ({p} \X B)
  BY <1>1, <1>4, <1>7, <1>8
<1>10. ({p} \X B) \cap (H \ ({p} \X A)) = {}
  BY <1>2, <1>4, <1>5, <1>7
<1>11. Moved(H, p, A, p, B, Holders(t, e))
  BY <1>1, <1>4, <1>9, <1>10 DEF Moved
<1> QED
  BY <1>11 DEF t, A, B, H

LEMMA CloseStep ==
  ASSUME FdInv, NEW p \in Procs, NEW s \in FdSlots, vfs_close(p, s)
  PROVE  FdInv'
<1>1. /\ file' = vfs_close_process(p, {s}) /\ fd_table' = [fd_table EXCEPT ![p][s] = NoFd]
      /\ life' = life /\ lost' = lost /\ stopped' = stopped /\ Able(p)
  BY DEF vfs_close
<1>2. RefsExact /\ FdTypeOK
  BY DEF FdInv, RefsExact
<1>3. \A e \in Ends : /\ file'[e] \in File_t /\ file'[e].refs = file[e].refs - Cardinality(Row(p, {s}, e))
                      /\ file'[e].mem = "used" <=> file'[e].refs > 0
                      /\ file'[e].mem = "unused" <=> file[e].mem = "unused"
  BY <1>1, <1>2, ClosedFiles
<1>4. file' \in [Ends -> File_t]
  BY <1>1, <1>3, Zenon DEF vfs_close_process
<1>5. FdTypeOK'
  BY <1>1, <1>2, <1>4, Zenon DEF FdTypeOK, File_t
<1>6. ASSUME NEW e \in Ends PROVE file'[e].refs = Cardinality(Holders(fd_table', e)) + lost'[e]
  <2> DEFINE A == Row(p, {s}, e)
             G == Holders(fd_table', e)
  <2>1. Moved(Holders(fd_table, e), p, A, p, {}, G)
    BY <1>1, <1>2, SetSlot, EndFacts, Zenon
  <2>2. file'[e].refs = file[e].refs - Cardinality(A)
    BY <1>3
  <2> HIDE DEF A, G
  <2>3. /\ Cardinality(G) + lost[e] = (file[e].refs - Cardinality(A)) + Cardinality({})
        /\ Cardinality(A) \in Nat /\ file[e].refs \in Nat /\ lost[e] \in Nat /\ Cardinality(G) \in Nat
    BY <1>2, <2>1, Recount
  <2> QED
    BY <1>1, <2>2, <2>3, FS_EmptySet DEF G
<1>7. RefsExact'
  BY <1>3, <1>5, <1>6 DEF RefsExact
<1>8. OnlyLiveHold'
  BY <1>1, <1>2 DEF OnlyLiveHold, FdInv, FdTypeOK
<1>9. BornTogether'
  BY <1>3, EndFacts DEF BornTogether, FdInv
<1> QED
  BY <1>7, <1>8, <1>9 DEF FdInv

\* One more descriptor adds one reference and changes nothing else.
LEMMA SharedFiles ==
  ASSUME NEW fs \in [Ends -> File_t], NEW d \in Ends
  PROVE  /\ Share(fs, d) \in [Ends -> File_t]
         /\ \A e \in Ends : /\ Share(fs, d)[e].mem = fs[e].mem /\ Share(fs, d)[e].open = fs[e].open
                            /\ Share(fs, d)[e].refs = fs[e].refs + (IF e = d THEN 1 ELSE 0)
<1> DEFINE g == Share(fs, d)
<1>1. DOMAIN g = Ends /\ g = [e \in Ends |-> IF e = d THEN [fs[d] EXCEPT !.refs = @ + 1] ELSE fs[e]]
  BY Zenon DEF Share
<1>2. [fs[d] EXCEPT !.refs = @ + 1] \in File_t
  BY DEF File_t
<1>3. g \in [Ends -> File_t]
  BY <1>1, <1>2
<1>4. ASSUME NEW e \in Ends
      PROVE  g[e].mem = fs[e].mem /\ g[e].open = fs[e].open /\ g[e].refs = fs[e].refs + (IF e = d THEN 1 ELSE 0)
  <2>1. CASE e = d
    <3>1. g[e] = [fs[d] EXCEPT !.refs = @ + 1]
      BY <1>1, <2>1
    <3> QED
      BY <2>1, <3>1 DEF File_t
  <2>2. CASE e # d
    <3>1. g[e] = fs[e] /\ fs[e].refs \in Nat
      BY <1>1, <2>2 DEF File_t
    <3> QED
      BY <2>2, <3>1
  <2> QED
    BY <2>1, <2>2
<1> QED
  BY <1>3, <1>4

\* A file that a descriptor leads to has a reference, and is in memory.
LEMMA HeldIsUsed ==
  ASSUME RefsExact, NEW p \in Procs, NEW s \in FdSlots, fd_table[p][s] \in Ends
  PROVE  file[fd_table[p][s]].refs > 0 /\ file[fd_table[p][s]].mem = "used"
<1> DEFINE d == fd_table[p][s]
<1>1. s \in Row(p, {s}, d)
  BY DEF Row
<1>2. FdTypeOK
  BY DEF RefsExact
<1>3. /\ Row(p, {s}, d) \in SUBSET FdSlots /\ Cardinality(Row(p, {s}, d)) \in Nat
      /\ Cardinality(Holders(fd_table, d)) \in Nat
      /\ Cardinality(Row(p, {s}, d)) <= Cardinality(Holders(fd_table, d))
  BY <1>2, RowHeld, Zenon
<1>4. Cardinality(Row(p, {s}, d)) # 0
  BY <1>1, <1>3, SlotSets, FS_EmptySet
<1>5. /\ file[d].refs = Cardinality(Holders(fd_table, d)) + lost[d] /\ lost[d] \in Nat
      /\ file[d].mem = "used" <=> file[d].refs > 0
  BY DEF RefsExact, FdTypeOK
<1> HIDE DEF d
<1>6. file[d].refs > 0 /\ file[d].mem = "used"
  BY <1>3, <1>4, <1>5
<1> QED
  BY <1>6 DEF d

LEMMA DupStep ==
  ASSUME FdInv, NEW p \in Procs, NEW s \in FdSlots, vfs_dup(p, s)
  PROVE  FdInv'
<1> DEFINE m == Min(FreeSlots(p))
           d == fd_table[p][s]
<1>1. /\ fd_table' = [fd_table EXCEPT ![p][m] = d] /\ file' = Share(file, d)
      /\ life' = life /\ lost' = lost /\ stopped' = stopped /\ life[p] = "alive"
  BY DEF vfs_dup, Able
<1>2. RefsExact /\ FdTypeOK /\ d \in Ends /\ file \in [Ends -> File_t]
  BY DEF FdInv, RefsExact, FdTypeOK, vfs_dup, File_t
<1>3. \A e \in Ends : /\ file'[e] \in File_t /\ file'[e].mem = file[e].mem
                      /\ file'[e].refs = file[e].refs + (IF e = d THEN 1 ELSE 0)
                      /\ file'[e].mem = "used" <=> file'[e].refs > 0
  <2> TAKE e \in Ends
  <2>1. file[e].refs \in Nat /\ (file[e].mem = "used" <=> file[e].refs > 0)
    BY <1>2 DEF RefsExact, File_t
  <2>2. e = d => file[e].refs > 0
    BY <1>2, HeldIsUsed
  <2> HIDE DEF d
  <2>3. file'[e] \in File_t /\ file'[e].mem = file[e].mem /\ file'[e].refs = file[e].refs + (IF e = d THEN 1 ELSE 0)
    BY <1>1, <1>2, SharedFiles
  <2> QED
    BY <2>1, <2>2, <2>3
<1>4. m \in FreeSlots(p) /\ m \in FdSlots
  BY MinSlot DEF FreeSlots, vfs_dup
<1>5. FdTypeOK'
  <2>1. file' \in [Ends -> File_t]
    BY <1>1, <1>2, SharedFiles
  <2> QED
    BY <1>1, <1>2, <1>4, <2>1 DEF FdTypeOK, File_t
<1>6. ASSUME NEW e \in Ends PROVE file'[e].refs = Cardinality(Holders(fd_table', e)) + lost'[e]
  <2> DEFINE B == IF d = e THEN {m} ELSE {}
             G == Holders(fd_table', e)
  <2>1. Row(p, {m}, e) = {}
    BY <1>4, EndFacts DEF Row, FreeSlots
  <2>2. Moved(Holders(fd_table, e), p, {}, p, B, G)
    <3> HIDE DEF m, d
    <3> QED  BY <1>1, <1>2, <1>4, <2>1, SetSlot, ZenonT(40)
  <2>3. Cardinality(B) = (IF e = d THEN 1 ELSE 0) /\ Cardinality({}) = 0
    BY FS_EmptySet, FS_Singleton, Zenon
  <2> HIDE DEF B, G, d
  <2>4. /\ Cardinality(G) + lost[e] = (file[e].refs - Cardinality({})) + Cardinality(B)
        /\ file[e].refs \in Nat /\ lost[e] \in Nat /\ Cardinality(G) \in Nat
    BY <1>2, <2>2, Recount
  <2>5. file'[e].refs = file[e].refs + Cardinality(B) /\ Cardinality(B) \in Nat
    BY <1>3, <2>3
  <2> QED
    BY <1>1, <2>3, <2>4, <2>5 DEF G
<1>7. RefsExact'
  BY <1>3, <1>5, <1>6 DEF RefsExact
<1>8. OnlyLiveHold'
  BY <1>1, <1>2 DEF OnlyLiveHold, FdInv, FdTypeOK
<1>9. BornTogether'
  BY <1>3, EndFacts, Zenon DEF BornTogether, FdInv
<1> QED
  BY <1>7, <1>8, <1>9 DEF FdInv

LEMMA Dup2Step ==
  ASSUME FdInv, NEW p \in Procs, NEW org \in FdSlots, NEW new \in FdSlots, vfs_dup2(p, org, new),
         fd_table[p][org] # NoFd
  PROVE  FdInv'
<1> DEFINE d == fd_table[p][org]
           fs == vfs_close_process(p, {new})
<1>1. /\ fd_table' = [fd_table EXCEPT ![p][new] = d] /\ file' = Share(fs, d)
      /\ life' = life /\ lost' = lost /\ stopped' = stopped /\ life[p] = "alive" /\ org # new
  BY DEF vfs_dup2, Able
<1>2. RefsExact /\ FdTypeOK /\ d \in Ends
  BY DEF FdInv, RefsExact, FdTypeOK
<1>3. \A e \in Ends : /\ fs[e] \in File_t /\ fs[e].refs = file[e].refs - Cardinality(Row(p, {new}, e))
                      /\ fs[e].mem = "used" <=> fs[e].refs > 0
                      /\ fs[e].mem = "unused" <=> file[e].mem = "unused"
  BY <1>2, ClosedFiles, SMTT(30)
<1>4. fs \in [Ends -> File_t]
  BY <1>3, Zenon DEF vfs_close_process
<1>5. fs[d].refs > 0
  <2>1. Row(p, {new}, d) \in SUBSET Row(p, {org, new}, d) /\ org \in Row(p, {org, new}, d) \ Row(p, {new}, d)
    BY <1>1 DEF Row
  <2>2. /\ Row(p, {org, new}, d) \in SUBSET FdSlots
        /\ Cardinality(Row(p, {org, new}, d)) <= Cardinality(Holders(fd_table, d))
        /\ Cardinality(Row(p, {org, new}, d)) \in Nat /\ Cardinality(Holders(fd_table, d)) \in Nat
        /\ Cardinality(Row(p, {new}, d)) \in Nat
    BY <1>2, RowHeld, Zenon
  <2>3. Cardinality(Row(p, {new}, d)) < Cardinality(Row(p, {org, new}, d))
    <3>1. IsFiniteSet(Row(p, {org, new}, d))
      BY <2>2, SlotSets
    <3>2. /\ Cardinality(Row(p, {new}, d)) <= Cardinality(Row(p, {org, new}, d))
          /\ Cardinality(Row(p, {new}, d)) # Cardinality(Row(p, {org, new}, d))
      BY <2>1, <3>1, FS_Subset, Zenon
    <3> QED
      BY <2>2, <3>2
  <2>4. file[d].refs = Cardinality(Holders(fd_table, d)) + lost[d] /\ lost[d] \in Nat
    BY <1>2 DEF RefsExact, FdTypeOK
  <2>5. fs[d].refs = file[d].refs - Cardinality(Row(p, {new}, d))
    BY <1>2, <1>3
  <2> HIDE DEF d, fs
  <2> QED
    BY <2>2, <2>3, <2>4, <2>5
<1> HIDE DEF d, fs
<1>6. /\ file' \in [Ends -> File_t]
      /\ \A e \in Ends : /\ file'[e].mem = fs[e].mem
                         /\ file'[e].refs = fs[e].refs + (IF e = d THEN 1 ELSE 0)
  BY <1>1, <1>2, <1>4, SharedFiles
<1>7. \A e \in Ends : file'[e].mem = "used" <=> file'[e].refs > 0
  <2> TAKE e \in Ends
  <2>1. fs[e].refs \in Nat
    BY <1>4 DEF File_t
  <2> QED
    BY <1>3, <1>5, <1>6, <2>1
<1>8. FdTypeOK'
  BY <1>1, <1>2, <1>6 DEF FdTypeOK, File_t
<1>9. ASSUME NEW e \in Ends PROVE file'[e].refs = Cardinality(Holders(fd_table', e)) + lost'[e]
  <2> DEFINE A == Row(p, {new}, e)
             B == IF d = e THEN {new} ELSE {}
             G == Holders(fd_table', e)
  <2>1. Moved(Holders(fd_table, e), p, A, p, B, G)
    BY <1>1, <1>2, SetSlot, Zenon
  <2>2. Cardinality(B) = (IF e = d THEN 1 ELSE 0)
    BY FS_EmptySet, FS_Singleton, Zenon
  <2>3. fs[e].refs = file[e].refs - Cardinality(A)
    BY <1>3
  <2> HIDE DEF A, B, G
  <2>4. /\ Cardinality(G) + lost[e] = (file[e].refs - Cardinality(A)) + Cardinality(B)
        /\ Cardinality(A) \in Nat /\ Cardinality(B) \in Nat
        /\ file[e].refs \in Nat /\ lost[e] \in Nat /\ Cardinality(G) \in Nat
    BY <1>2, <2>1, Recount
  <2>5. file'[e].refs = (file[e].refs - Cardinality(A)) + Cardinality(B)
    BY <1>6, <2>2, <2>3
  <2> QED
    BY <1>1, <2>4, <2>5 DEF G
<1>10. RefsExact'
  BY <1>7, <1>8, <1>9 DEF RefsExact
<1>11. OnlyLiveHold'
  BY <1>1, <1>2 DEF OnlyLiveHold, FdInv, FdTypeOK
<1>12. BornTogether'
  BY <1>3, <1>6, EndFacts, Zenon DEF BornTogether, FdInv
<1> QED
  BY <1>10, <1>11, <1>12 DEF FdInv

\* create_process, when it fails and when it does not: one reference more for each
\* descriptor of the parent.
LEMMA InheritedFiles ==
  ASSUME RefsExact, NEW p \in Procs
  PROVE  /\ Inherited(p) \in [Ends -> File_t]
         /\ \A e \in Ends : LET f == Inherited(p)[e]
                            IN  /\ f.refs = file[e].refs + Cardinality(Row(p, FdSlots, e))
                                /\ f.mem = file[e].mem /\ f.open = file[e].open
                                /\ f.mem = "used" <=> f.refs > 0
                                /\ Cardinality(Row(p, FdSlots, e)) \in Nat
<1>1. FdTypeOK /\ file \in [Ends -> File_t]
  BY DEF RefsExact, FdTypeOK, File_t
<1>2. ASSUME NEW e \in Ends
      PROVE  LET f == Inherited(p)[e]
             IN  /\ f \in File_t
                 /\ f.refs = file[e].refs + Cardinality(Row(p, FdSlots, e))
                 /\ f.mem = file[e].mem /\ f.open = file[e].open
                 /\ f.mem = "used" <=> f.refs > 0
                 /\ Cardinality(Row(p, FdSlots, e)) \in Nat
  <2> DEFINE n == Cardinality(Row(p, FdSlots, e))
             f == Inherited(p)[e]
  <2>1. n \in Nat /\ Cardinality(Holders(fd_table, e)) \in Nat /\ n <= Cardinality(Holders(fd_table, e))
    BY <1>1, RowHeld
  <2>2. f = [file[e] EXCEPT !.refs = @ + n]
    BY DEF Inherited
  <2>3. file[e] \in File_t /\ file[e].refs \in Nat
    BY <1>1 DEF File_t
  <2>4. /\ file[e].mem = "used" <=> file[e].refs > 0
        /\ file[e].refs = Cardinality(Holders(fd_table, e)) + lost[e] /\ lost[e] \in Nat
    BY DEF RefsExact, FdTypeOK
  <2> HIDE DEF n, f
  <2>5. f \in File_t /\ f.refs = file[e].refs + n /\ f.mem = file[e].mem /\ f.open = file[e].open
    BY <2>1, <2>2, <2>3 DEF File_t
  <2>6. f.mem = "used" <=> f.refs > 0
    BY <2>1, <2>3, <2>4, <2>5
  <2> QED
    BY <2>1, <2>5, <2>6 DEF f, n
<1> QED
  BY <1>2 DEF Inherited

LEMMA ForkStep ==
  ASSUME FdInv, NEW p \in Procs, NEW c \in Procs, fork(p, c) \/ fork_fails(p, c)
  PROVE  FdInv'
<1>1. /\ file' = Inherited(p) /\ stopped' = stopped /\ p # c
      /\ \/ fd_table' = [fd_table EXCEPT ![c] = fd_table[p]] /\ lost' = lost
            /\ life' = [life EXCEPT ![c] = "alive"]
         \/ fd_table' = fd_table /\ life' = [life EXCEPT ![c] = "exited"]
            /\ lost' = [e \in Ends |-> lost[e] + Cardinality(Row(p, FdSlots, e))]
  BY DEF fork, fork_fails, Able
<1>2. RefsExact /\ FdTypeOK /\ life[c] = "unborn"
  BY DEF FdInv, RefsExact, fork, fork_fails
<1>3. /\ file' \in [Ends -> File_t]
      /\ \A e \in Ends : /\ file'[e].refs = file[e].refs + Cardinality(Row(p, FdSlots, e))
                         /\ file'[e].mem = file[e].mem
                         /\ file'[e].mem = "used" <=> file'[e].refs > 0
                         /\ Cardinality(Row(p, FdSlots, e)) \in Nat
  BY <1>1, <1>2, InheritedFiles
<1>4. \A s \in FdSlots : fd_table[c][s] = NoFd
  BY <1>2 DEF FdInv, OnlyLiveHold
<1>5. FdTypeOK'
  <2>1. lost' \in [Ends -> Nat]
    BY <1>1, <1>2, <1>3 DEF FdTypeOK
  <2> QED
    BY <1>1, <1>2, <1>3, <2>1, ZenonT(40) DEF FdTypeOK, File_t
<1>6. ASSUME NEW e \in Ends PROVE file'[e].refs = Cardinality(Holders(fd_table', e)) + lost'[e]
  <2> DEFINE B == Row(p, FdSlots, e)
             G == Holders(fd_table', e)
             H == Holders(fd_table, e)
  <2>1. /\ B \in SUBSET FdSlots /\ Cardinality(B) \in Nat /\ file'[e].refs = file[e].refs + Cardinality(B)
        /\ Cardinality(H) \in Nat
    BY <1>2, <1>3, RowHeld, Zenon
  <2>2. file[e].refs = Cardinality(H) + lost[e] /\ lost[e] \in Nat /\ file[e].refs \in Nat
    BY <1>2 DEF RefsExact, FdTypeOK
  <2>3. CASE fd_table' = fd_table /\ lost' = [x \in Ends |-> lost[x] + Cardinality(Row(p, FdSlots, x))]
    <3>1. G = H /\ lost'[e] = lost[e] + Cardinality(B)
      BY <2>3
    <3> HIDE DEF B, G, H
    <3>2. file'[e].refs = Cardinality(G) + lost'[e]
      BY <2>1, <2>2, <3>1
    <3> QED
      BY <3>2 DEF G
  <2>4. CASE fd_table' = [fd_table EXCEPT ![c] = fd_table[p]] /\ lost' = lost
    <3>1. \A r \in Procs, s \in FdSlots : fd_table'[r][s] = IF r = c THEN fd_table[p][s] ELSE fd_table[r][s]
      BY <1>2, <2>4 DEF FdTypeOK
    <3>2. \A r \in Procs, s \in FdSlots : <<r, s>> \in H <=> fd_table[r][s] = e
      BY DEF Holders
    <3>3. \A r \in Procs, s \in FdSlots : <<r, s>> \in G <=> fd_table'[r][s] = e
      BY DEF Holders
    <3>4. \A s \in FdSlots : s \in B <=> fd_table[p][s] = e
      BY DEF Row
    <3>5. H \subseteq Procs \X FdSlots /\ G \subseteq Procs \X FdSlots
      BY DEF Holders
    <3> HIDE DEF B, G, H
    <3>6. \A r \in Procs, s \in FdSlots : <<r, s>> \in G <=> <<r, s>> \in H \/ (r = c /\ s \in B)
      <4> TAKE r \in Procs, s \in FdSlots
      <4>1. NoFd # e
        BY EndFacts
      <4>2. r = c => (<<r, s>> \in G <=> s \in B) /\ <<r, s>> \notin H
        BY <1>4, <3>1, <3>2, <3>3, <3>4, <4>1
      <4>3. r # c => (<<r, s>> \in G <=> <<r, s>> \in H)
        BY <3>1, <3>2, <3>3
      <4> QED
        BY <4>2, <4>3
    <3>7. G = H \cup ({c} \X B)
      <4>1. \A r \in Procs, s \in FdSlots : <<r, s>> \in {c} \X B <=> r = c /\ s \in B
        OBVIOUS
      <4>2. {c} \X B \subseteq Procs \X FdSlots
        BY <2>1
      <4> QED
        BY <3>5, <3>6, <4>1, <4>2
    <3>8. ({c} \X B) \cap H = {}
      BY <1>4, <2>1, <3>2, <3>5, EndFacts
    <3>9. Moved(H, c, {}, c, B, G)
      BY <2>1, <3>7, <3>8, SMTT(30) DEF Moved
    <3>10. Cardinality(G) + lost[e] = (file[e].refs - Cardinality({})) + Cardinality(B) /\ Cardinality(G) \in Nat
      BY <1>2, <3>9, Recount DEF H
    <3>11. Cardinality({}) = 0
      BY FS_EmptySet
    <3>12. file'[e].refs = Cardinality(G) + lost'[e]
      BY <2>1, <2>2, <2>4, <3>10, <3>11
    <3> QED
      BY <3>12 DEF G
  <2> QED
    BY <1>1, <2>3, <2>4
<1>7. RefsExact'
  BY <1>3, <1>5, <1>6 DEF RefsExact
<1>8. OnlyLiveHold'
  BY <1>1, <1>2 DEF OnlyLiveHold, FdInv, FdTypeOK
<1>9. BornTogether'
  BY <1>3, EndFacts, Zenon DEF BornTogether, FdInv
<1> QED
  BY <1>7, <1>8, <1>9 DEF FdInv

LEMMA ExitStep ==
  ASSUME FdInv, NEW p \in Procs, exit(p)
  PROVE  FdInv'
<1> DEFINE S == {s \in FdSlots : s < CloseLimit}
<1>1. /\ file' = vfs_close_process(p, S) /\ fd_table' = [fd_table EXCEPT ![p] = [s \in FdSlots |-> NoFd]]
      /\ life' = [life EXCEPT ![p] = "exited"] /\ stopped' = stopped
      /\ lost' = [e \in Ends |-> lost[e] + Cardinality(Row(p, FdSlots \ S, e))]
  BY DEF exit
<1>2. RefsExact /\ FdTypeOK /\ S \in SUBSET FdSlots
  BY SMTT(30) DEF FdInv, RefsExact
<1> HIDE DEF S
<1>3. \A e \in Ends : /\ file'[e] \in File_t /\ file'[e].refs = file[e].refs - Cardinality(Row(p, S, e))
                      /\ file'[e].mem = "used" <=> file'[e].refs > 0
                      /\ file'[e].mem = "unused" <=> file[e].mem = "unused"
  BY <1>1, <1>2, ClosedFiles
<1>4. \A e \in Ends : /\ Cardinality(Row(p, S, e)) \in Nat /\ Cardinality(Row(p, FdSlots \ S, e)) \in Nat
                      /\ Row(p, S, e) \in SUBSET FdSlots /\ Row(p, FdSlots \ S, e) \in SUBSET FdSlots
  BY <1>2, RowHeld, Zenon
<1>5. FdTypeOK'
  <2>1. file' \in [Ends -> File_t]
    BY <1>1, <1>3 DEF vfs_close_process
  <2>2. lost' \in [Ends -> Nat]
    <3>1. \A e \in Ends : lost[e] \in Nat
      BY <1>2 DEF FdTypeOK
    <3>2. \A e \in Ends : lost[e] + Cardinality(Row(p, FdSlots \ S, e)) \in Nat
      BY <1>4, <3>1
    <3> QED
      BY <1>1, <3>2
  <2> QED
    BY <1>1, <1>2, <2>1, <2>2, Zenon DEF FdTypeOK, File_t
<1>6. ASSUME NEW e \in Ends PROVE file'[e].refs = Cardinality(Holders(fd_table', e)) + lost'[e]
  <2> DEFINE A == Row(p, FdSlots, e)
             A1 == Row(p, S, e)
             A2 == Row(p, FdSlots \ S, e)
             G == Holders(fd_table', e)
             H == Holders(fd_table, e)
  <2>1. A \in SUBSET FdSlots /\ {p} \X A \subseteq H /\ IsFiniteSet(A1) /\ IsFiniteSet(A2)
    BY <1>2, <1>4, RowHeld, SlotSets, Zenon
  <2>2. A = A1 \cup A2 /\ A1 \cap A2 = {}
    BY <1>2 DEF Row
  <2>3. Cardinality(A) = Cardinality(A1) + Cardinality(A2)
    <3>1. Cardinality(A1 \cup A2) = Cardinality(A1) + Cardinality(A2) - Cardinality(A1 \cap A2)
      BY <2>1, FS_Union, SMTT(30)
    <3>2. Cardinality(A1 \cap A2) = 0 /\ Cardinality(A1 \cup A2) = Cardinality(A)
      BY <2>2, FS_EmptySet, Zenon
    <3>3. Cardinality(A1) \in Nat /\ Cardinality(A2) \in Nat
      BY <1>4
    <3> HIDE DEF A, A1, A2
    <3> QED
      BY <3>1, <3>2, <3>3
  <2>4. G = H \ ({p} \X A)
    <3>1. \A r \in Procs, s \in FdSlots : fd_table'[r][s] = IF r = p THEN NoFd ELSE fd_table[r][s]
      BY <1>1, <1>2 DEF FdTypeOK
    <3>2. \A r \in Procs, s \in FdSlots : <<r, s>> \in H <=> fd_table[r][s] = e
      BY DEF Holders
    <3>3. \A r \in Procs, s \in FdSlots : <<r, s>> \in G <=> fd_table'[r][s] = e
      BY DEF Holders
    <3>4. \A s \in FdSlots : s \in A <=> fd_table[p][s] = e
      BY DEF Row
    <3>5. H \subseteq Procs \X FdSlots /\ G \subseteq Procs \X FdSlots
      BY DEF Holders
    <3> HIDE DEF A, G, H
    <3>6. \A r \in Procs, s \in FdSlots : <<r, s>> \in G <=> <<r, s>> \in H /\ ~(r = p /\ s \in A)
      <4> TAKE r \in Procs, s \in FdSlots
      <4>1. NoFd # e
        BY EndFacts
      <4>2. r = p => <<r, s>> \notin G /\ (<<r, s>> \in H => s \in A)
        BY <3>1, <3>2, <3>3, <3>4, <4>1
      <4>3. r # p => (<<r, s>> \in G <=> <<r, s>> \in H)
        BY <3>1, <3>2, <3>3
      <4> QED
        BY <4>2, <4>3
    <3>7. \A r \in Procs, s \in FdSlots : <<r, s>> \in {p} \X A <=> r = p /\ s \in A
      OBVIOUS
    <3> QED
      BY <3>5, <3>6, <3>7
  <2>5. Moved(H, p, A, p, {}, G)
    <3> HIDE DEF A, G, H
    <3> QED  BY <2>1, <2>4, SMTT(30) DEF Moved
  <2>6. file'[e].refs = file[e].refs - Cardinality(A1) /\ lost'[e] = lost[e] + Cardinality(A2)
    BY <1>1, <1>3
  <2>7. Cardinality(A1) \in Nat /\ Cardinality(A2) \in Nat /\ Cardinality({}) = 0
    BY <1>4, FS_EmptySet, Zenon
  <2> HIDE DEF A, A1, A2, G
  <2>8. /\ Cardinality(G) + lost[e] = (file[e].refs - Cardinality(A)) + Cardinality({})
        /\ file[e].refs \in Nat /\ lost[e] \in Nat /\ Cardinality(G) \in Nat
    BY <1>2, <2>5, Recount
  <2>9. file'[e].refs = Cardinality(G) + lost'[e]
    BY <2>3, <2>6, <2>7, <2>8
  <2> QED
    BY <2>9 DEF G
<1>7. RefsExact'
  BY <1>3, <1>5, <1>6 DEF RefsExact
<1>8. OnlyLiveHold'
  BY <1>1, <1>2, SMTT(30) DEF OnlyLiveHold, FdInv, FdTypeOK
<1>9. BornTogether'
  BY <1>3, EndFacts, Zenon DEF BornTogether, FdInv
<1> QED
  BY <1>7, <1>8, <1>9 DEF FdInv

LEMMA PipeStep ==
  ASSUME FdInv, NEW p \in Procs, NEW i \in Pipes, pipe(p, i)
  PROVE  FdInv'
<1> DEFINE s0 == Min(FreeSlots(p))
           s1 == Min(FreeSlots(p) \ {s0})
           new == [mem |-> "used", refs |-> 1, open |-> TRUE]
<1>1. /\ fd_table' = [fd_table EXCEPT ![p][s0] = <<i, 0>>, ![p][s1] = <<i, 1>>]
      /\ file' = [file EXCEPT ![<<i, 0>>] = new, ![<<i, 1>>] = new]
      /\ life' = life /\ lost' = lost /\ stopped' = stopped /\ life[p] = "alive"
      /\ file[<<i, 0>>].mem = "unused"
  BY DEF pipe, Able
<1>2. RefsExact /\ FdTypeOK /\ file[<<i, 1>>].mem = "unused"
  BY <1>1 DEF FdInv, RefsExact, BornTogether
<1>3. s0 \in FreeSlots(p) /\ s1 \in FreeSlots(p) /\ s1 # s0 /\ FreeSlots(p) \subseteq FdSlots
  <2>1. FreeSlots(p) \in SUBSET FdSlots /\ Cardinality(FreeSlots(p)) >= 2
    BY DEF FreeSlots, pipe
  <2>2. IsFiniteSet(FreeSlots(p))
    BY <2>1, SlotSets
  <2>3. FreeSlots(p) # {}
    BY <2>1, <2>2, FS_EmptySet
  <2>4. s0 \in FreeSlots(p)
    BY <2>1, <2>3, MinSlot
  <2>5. FreeSlots(p) \ {s0} # {}
    <3>1. FreeSlots(p) # {s0}
      BY <2>1, FS_Singleton, SMTT(30)
    <3> QED
      BY <2>4, <3>1
  <2>6. s1 \in FreeSlots(p) \ {s0}
    <3> DEFINE F == FreeSlots(p) \ {s0}
    <3>1. F \in SUBSET FdSlots /\ F # {}
      BY <2>1, <2>5
    <3> HIDE DEF F
    <3>2. Min(F) \in F
      BY <3>1, MinSlot
    <3> QED
      BY <3>2 DEF F
  <2> QED
    BY <2>1, <2>4, <2>6
<1>4. s0 \in FdSlots /\ s1 \in FdSlots /\ fd_table[p][s0] = NoFd /\ fd_table[p][s1] = NoFd
  BY <1>3 DEF FreeSlots
<1> HIDE DEF s0, s1
<1>5. FdTypeOK'
  <2>1. new \in File_t
    BY DEF File_t
  <2>2. file' \in [Ends -> File_t]
    BY <1>1, <1>2, <2>1, EndFacts, Zenon DEF FdTypeOK, File_t
  <2>3. fd_table' \in [Procs -> [FdSlots -> Ends \cup {NoFd}]]
    BY <1>1, <1>2, <1>4, EndFacts DEF FdTypeOK
  <2> QED
    BY <1>1, <1>2, <2>2, <2>3, Zenon DEF FdTypeOK, File_t
<1>6. \A e \in Ends : file'[e] = IF e \in {<<i, 0>>, <<i, 1>>} THEN new ELSE file[e]
  BY <1>1, <1>2, EndFacts, Zenon DEF FdTypeOK
<1>7. ASSUME NEW e \in Ends PROVE file'[e].refs = Cardinality(Holders(fd_table', e)) + lost'[e]
  <2> DEFINE H == Holders(fd_table, e)
             G == Holders(fd_table', e)
             B == IF e = <<i, 0>> THEN {s0} ELSE IF e = <<i, 1>> THEN {s1} ELSE {}
  <2>1. \A r \in Procs, s \in FdSlots : fd_table'[r][s] = IF r = p /\ s = s0 THEN <<i, 0>>
                                          ELSE IF r = p /\ s = s1 THEN <<i, 1>> ELSE fd_table[r][s]
    BY <1>1, <1>2, <1>3, <1>4 DEF FdTypeOK
  <2>2. \A r \in Procs, s \in FdSlots : <<r, s>> \in H <=> fd_table[r][s] = e
    BY DEF Holders
  <2>3. \A r \in Procs, s \in FdSlots : <<r, s>> \in G <=> fd_table'[r][s] = e
    BY DEF Holders
  <2>4. H \subseteq Procs \X FdSlots /\ G \subseteq Procs \X FdSlots
    BY DEF Holders
  <2>5. B \in SUBSET FdSlots
    BY <1>4
  <2>6. \A s \in FdSlots : s \in B <=> (s = s0 /\ e = <<i, 0>>) \/ (s = s1 /\ e = <<i, 1>>)
    BY EndFacts
  <2>7. NoFd # e /\ <<i, 0>> # <<i, 1>>
    BY EndFacts
  <2>8. Cardinality(B) = (IF e \in {<<i, 0>>, <<i, 1>>} THEN 1 ELSE 0) /\ Cardinality({}) = 0
    BY FS_EmptySet, FS_Singleton, Zenon
  <2>9. /\ file[e].refs \in Nat
        /\ file[e].mem = "used" <=> file[e].refs > 0
        /\ e \in {<<i, 0>>, <<i, 1>>} => file[e].refs = 0
    <3>1. file[e].refs \in Nat /\ (file[e].mem = "used" <=> file[e].refs > 0)
      BY <1>2 DEF RefsExact, FdTypeOK
    <3>2. e \in {<<i, 0>>, <<i, 1>>} => file[e].mem = "unused"
      BY <1>1, <1>2, SMTT(30)
    <3> QED
      BY <3>1, <3>2
  <2>10. file'[e].refs = file[e].refs + Cardinality(B)
    BY <1>6, <2>8, <2>9
  <2> HIDE DEF B, G, H
  <2>11. \A r \in Procs, s \in FdSlots : <<r, s>> \in G <=> <<r, s>> \in H \/ (r = p /\ s \in B)
    <3> TAKE r \in Procs, s \in FdSlots
    <3>1. r = p /\ s \in {s0, s1} => (<<r, s>> \in G <=> s \in B) /\ <<r, s>> \notin H
      BY <1>3, <1>4, <2>1, <2>2, <2>3, <2>6, <2>7, SMTT(30)
    <3>2. ~(r = p /\ s \in {s0, s1}) => (<<r, s>> \in G <=> <<r, s>> \in H) /\ ~(r = p /\ s \in B)
      BY <2>1, <2>2, <2>3, <2>6
    <3> QED
      BY <3>1, <3>2
  <2>12. G = H \cup ({p} \X B)
    <3>1. \A r \in Procs, s \in FdSlots : <<r, s>> \in {p} \X B <=> r = p /\ s \in B
      OBVIOUS
    <3>2. {p} \X B \subseteq Procs \X FdSlots
      BY <2>5
    <3> QED
      BY <2>4, <2>11, <3>1, <3>2
  <2>13. ({p} \X B) \cap H = {}
    <3>1. \A s \in B : <<p, s>> \notin H
      BY <1>4, <2>2, <2>5, <2>6, <2>7
    <3> QED
      BY <2>5, <3>1
  <2>14. Moved(H, p, {}, p, B, G)
    BY <2>5, <2>12, <2>13, SMTT(30) DEF Moved
  <2>15. /\ Cardinality(G) + lost[e] = (file[e].refs - Cardinality({})) + Cardinality(B)
         /\ lost[e] \in Nat /\ Cardinality(G) \in Nat
    BY <1>2, <2>14, Recount DEF H
  <2>16. file'[e].refs = Cardinality(G) + lost'[e]
    BY <1>1, <2>8, <2>9, <2>10, <2>15, SMTT(30)
  <2> QED
    BY <2>16 DEF G
<1>8. \A e \in Ends : file'[e].mem = "used" <=> file'[e].refs > 0
  BY <1>2, <1>6, SMTT(30) DEF RefsExact
<1>9. RefsExact'
  BY <1>5, <1>7, <1>8 DEF RefsExact
<1>10. OnlyLiveHold'
  BY <1>1, <1>2, <1>4 DEF OnlyLiveHold, FdInv, FdTypeOK
<1>11. BornTogether'
  <2> SUFFICES ASSUME NEW j \in Pipes PROVE file'[<<j, 0>>].mem = "unused" <=> file'[<<j, 1>>].mem = "unused"
    BY Zenon DEF BornTogether
  <2>1. CASE j = i
    BY <1>6, <2>1, EndFacts
  <2>2. CASE j # i
    <3>1. file'[<<j, 0>>] = file[<<j, 0>>] /\ file'[<<j, 1>>] = file[<<j, 1>>]
      BY <1>6, <2>2, EndFacts
    <3> QED
      BY <3>1 DEF FdInv, BornTogether
  <2> QED
    BY <2>1, <2>2
<1> QED
  BY <1>9, <1>10, <1>11 DEF FdInv

LEMMA FdStep == ASSUME FdInv, [FdNext]_fd_vars PROVE FdInv'
<1>1. CASE UNCHANGED fd_vars
  BY <1>1, Zenon DEF FdInv, RefsExact, FdTypeOK, OnlyLiveHold, BornTogether, Holders, fd_vars
<1>2. ASSUME NEW p \in Procs, NEW org \in FdSlots, NEW new \in FdSlots, vfs_dup2(p, org, new)
      PROVE  FdInv'
  <2>1. CASE fd_table[p][org] = NoFd
    <3>1. stopped' = TRUE /\ UNCHANGED <<life, fd_table, file, lost>>
      BY <1>2, <2>1 DEF vfs_dup2
    <3> QED
      BY <3>1, Zenon DEF FdInv, RefsExact, FdTypeOK, OnlyLiveHold, BornTogether, Holders
  <2> QED
    BY <1>2, <2>1, Dup2Step
<1> QED
  BY <1>1, <1>2, CloseStep, DupStep, ForkStep, ExitStep, PipeStep DEF FdNext

\* reference_count is exact and frees an inode at zero, for any number of processes,
\* descriptors and pipes (dup, dup2, close, fork, exit of vfs.c and scheduler.c).
THEOREM FdRefsExact == FdSpec => []RefsExact
<1>1. FdInit => FdInv
  <2> SUFFICES ASSUME FdInit PROVE FdInv
    OBVIOUS
  <2>1. FdTypeOK
    BY Zenon DEF FdInit, FdTypeOK
  <2>2. ASSUME NEW e \in Ends PROVE Cardinality(Holders(fd_table, e)) = 0
    <3>1. Holders(fd_table, e) = {}
      BY EndFacts DEF Holders, FdInit
    <3> QED
      BY <3>1, FS_EmptySet
  <2>3. RefsExact
    BY <2>1, <2>2 DEF RefsExact, FdInit
  <2>4. OnlyLiveHold /\ BornTogether
    BY EndFacts DEF OnlyLiveHold, BornTogether, FdInit
  <2> QED
    BY <2>3, <2>4 DEF FdInv
<1>2. FdInv => RefsExact
  BY DEF FdInv
<1> QED
  BY <1>1, <1>2, FdStep, PTL DEF FdSpec

\* Hangup keeps is_open exact when vfs_close_process frees ends.
LEMMA CloseKeepsPeer ==
  ASSUME RefsExact, PeerSafe, NEW p \in Procs, NEW S \in SUBSET FdSlots, NEW e \in Ends,
         NEW fs, fs = vfs_close_process(p, S), fs[e].mem = "used"
  PROVE  fs[e].open <=> fs[Peer(e)].mem = "used"
<1> DEFINE gone == {d \in Ends : Cardinality(Row(p, S, d)) > 0 /\ file[d].refs = Cardinality(Row(p, S, d))}
<1>1. \A d \in Ends : fs[d] = [mem |-> IF d \in gone THEN "freed" ELSE file[d].mem,
                               refs |-> file[d].refs - Cardinality(Row(p, S, d)), open |-> Hangup(d, gone)]
  BY DEF vfs_close_process
<1> HIDE DEF gone
<1>2. ASSUME NEW d \in Ends
      PROVE  fs[d].mem = (IF d \in gone THEN "freed" ELSE file[d].mem) /\ (fs[d].open <=> Hangup(d, gone))
  <2> DEFINE x == Hangup(d, gone)
             y == IF d \in gone THEN "freed" ELSE file[d].mem
             z == file[d].refs - Cardinality(Row(p, S, d))
  <2>1. fs[d] = [mem |-> y, refs |-> z, open |-> x]
    BY <1>1
  <2> HIDE DEF x, y, z
  <2>2. fs[d].mem = y /\ fs[d].open = x
    BY <2>1
  <2> QED
    BY <2>2, SMTT(30) DEF x, y
<1>3. e \notin gone /\ file[e].mem = "used"
  BY <1>2
<1>4. file[e].open <=> file[Peer(e)].mem = "used"
  BY <1>3 DEF PeerSafe
<1>5. fs[e].open <=> file[e].open /\ Peer(e) \notin gone
  BY <1>2, <1>3 DEF Hangup
<1>6. fs[Peer(e)].mem = "used" <=> file[Peer(e)].mem = "used" /\ Peer(e) \notin gone
  BY <1>2, EndFacts
<1> QED
  BY <1>4, <1>5, <1>6, SMTT(30)

\* A pipe end is open exactly while the other end exists, so no raw pointer between
\* the two inodes is followed after tmp_close has freed one of them.
THEOREM FdPeerSafe == FdSpec => []PeerSafe
<1>1. FdInit => PeerSafe
  BY SMTT(30) DEF FdInit, PeerSafe
<1>2. ASSUME RefsExact, PeerSafe, [FdNext]_fd_vars PROVE PeerSafe'
  <2> SUFFICES ASSUME NEW e \in Ends, file'[e].mem = "used"
               PROVE  file'[e].open <=> file'[Peer(e)].mem = "used"
    BY SMTT(30) DEF PeerSafe
  <2>1. file \in [Ends -> File_t] /\ FdTypeOK /\ Peer(e) \in Ends
    BY <1>2, EndFacts DEF RefsExact, FdTypeOK, File_t
  <2>2. CASE UNCHANGED file
    BY <1>2, <2>2, SMTT(30) DEF PeerSafe
  <2>3. ASSUME NEW p \in Procs, NEW S \in SUBSET FdSlots, file' = vfs_close_process(p, S)
        PROVE  file'[e].open <=> file'[Peer(e)].mem = "used"
    BY <1>2, <2>3, CloseKeepsPeer
  <2>4. ASSUME NEW fs \in [Ends -> File_t], NEW d \in Ends, file' = Share(fs, d),
               fs[e].mem = "used" => (fs[e].open <=> fs[Peer(e)].mem = "used")
        PROVE  file'[e].open <=> file'[Peer(e)].mem = "used"
    <3>1. \A x \in Ends : file'[x].mem = fs[x].mem /\ file'[x].open = fs[x].open
      BY <2>4, SharedFiles
    <3>2. file'[e].mem = fs[e].mem /\ file'[Peer(e)].mem = fs[Peer(e)].mem
      BY <2>1, <3>1
    <3>3. file'[e].open <=> fs[e].open
      BY <3>1, SMTT(30)
    <3> QED
      BY <2>4, <3>2, <3>3
  <2>5. ASSUME NEW p \in Procs, file' = Inherited(p)
        PROVE  file'[e].open <=> file'[Peer(e)].mem = "used"
    BY <1>2, <2>1, <2>5, InheritedFiles, SMTT(30) DEF PeerSafe
  <2>6. ASSUME NEW p \in Procs, NEW i \in Pipes, pipe(p, i)
        PROVE  file'[e].open <=> file'[Peer(e)].mem = "used"
    <3> DEFINE new == [mem |-> "used", refs |-> 1, open |-> TRUE]
    <3>1. \A d \in Ends : file'[d] = IF d \in {<<i, 0>>, <<i, 1>>} THEN new ELSE file[d]
      BY <2>1, <2>6, EndFacts DEF pipe
    <3>2. Peer(e) \in {<<i, 0>>, <<i, 1>>} <=> e \in {<<i, 0>>, <<i, 1>>}
      BY DEF Peer, Ends
    <3> QED
      BY <1>2, <2>1, <3>1, <3>2, SMTT(30) DEF PeerSafe
  <2>7. ASSUME NEW p \in Procs, NEW org \in FdSlots, NEW new \in FdSlots, vfs_dup2(p, org, new)
        PROVE  file'[e].open <=> file'[Peer(e)].mem = "used"
    <3>1. CASE fd_table[p][org] = NoFd
      BY <2>2, <2>7, <3>1, SMTT(30) DEF vfs_dup2
    <3>2. CASE fd_table[p][org] # NoFd
      <4> DEFINE fs == vfs_close_process(p, {new})
      <4>1. file' = Share(fs, fd_table[p][org]) /\ fd_table[p][org] \in Ends
        BY <2>1, <2>7, <3>2 DEF vfs_dup2, FdTypeOK
      <4>2. fs \in [Ends -> File_t]
        <5>1. fs = [d \in Ends |-> fs[d]] /\ {new} \in SUBSET FdSlots
          BY <2>7 DEF vfs_close_process
        <5>2. \A d \in Ends : fs[d] \in File_t
          BY <1>2, <5>1, ClosedFiles, SMTT(30)
        <5> HIDE DEF fs
        <5> QED
          BY <5>1, <5>2, SMTT(30)
      <4>3. fs[e].mem = "used" => (fs[e].open <=> fs[Peer(e)].mem = "used")
        BY <1>2, CloseKeepsPeer, SMTT(30)
      <4> HIDE DEF fs
      <4> QED
        BY <2>4, <4>1, <4>2, <4>3
    <3> QED
      BY <3>1, <3>2
  <2>8. ASSUME NEW p \in Procs, NEW s \in FdSlots, vfs_dup(p, s)
        PROVE  file'[e].open <=> file'[Peer(e)].mem = "used"
    <3>1. file' = Share(file, fd_table[p][s]) /\ fd_table[p][s] \in Ends
      BY <2>1, <2>8, SMTT(30) DEF vfs_dup, FdTypeOK
    <3>2. file[e].mem = "used" => (file[e].open <=> file[Peer(e)].mem = "used")
      BY <1>2, SMTT(30) DEF PeerSafe
    <3> QED
      BY <2>1, <2>4, <3>1, <3>2, SMTT(30)
  <2>9. ASSUME NEW p \in Procs, exit(p)
        PROVE  file'[e].open <=> file'[Peer(e)].mem = "used"
    BY <2>3, <2>9 DEF exit
  <2>10. ASSUME NEW p \in Procs, NEW s \in FdSlots, vfs_close(p, s)
         PROVE  file'[e].open <=> file'[Peer(e)].mem = "used"
    BY <2>3, <2>10, SMTT(30) DEF vfs_close
  <2>11. ASSUME NEW p \in Procs, NEW c \in Procs, fork(p, c) \/ fork_fails(p, c)
         PROVE  file'[e].open <=> file'[Peer(e)].mem = "used"
    BY <2>5, <2>11 DEF fork, fork_fails
  <2> QED
    BY <1>2, <2>2, <2>6, <2>7, <2>8, <2>9, <2>10, <2>11 DEF FdNext, fd_vars
<1> QED
  BY <1>1, <1>2, FdRefsExact, PTL DEF FdSpec
-----------------------------------------------------------------------------

\* Appending n bytes to the stream keeps it consecutive.
LEMMA AppendRun ==
  ASSUME NEW b \in Seq(Nat), NEW r \in Nat, NEW t \in Nat, NEW n \in Nat,
         t = r + Len(b), \A i \in 1..Len(b) : b[i] = r + i
  PROVE  LET c == b \o [i \in 1..n |-> t + i]
         IN /\ c \in Seq(Nat) /\ Len(c) = Len(b) + n
            /\ \A i \in 1..Len(c) : c[i] = r + i
<1> DEFINE d == [i \in 1..n |-> t + i]
           c == b \o d
<1>1. d \in Seq(Nat) /\ Len(d) = n
  OBVIOUS
<1>2. c \in Seq(Nat) /\ Len(c) = Len(b) + n
  BY <1>1
<1>3. ASSUME NEW i \in 1..Len(c) PROVE c[i] = r + i
  <2>1. CASE i <= Len(b)
    BY <1>1, <1>2, <2>1
  <2>2. CASE i > Len(b)
    <3>1. i - Len(b) \in 1..n
      BY <1>2, <2>2
    <3>2. c[i] = d[i - Len(b)]
      BY <1>1, <1>2, <2>2
    <3>3. QED
      BY <3>1, <3>2
  <2>3. QED
    BY <1>2, <2>1, <2>2
<1>4. QED
  BY <1>2, <1>3

\* Taking k bytes off the front too.
LEMMA DropRun ==
  ASSUME NEW b \in Seq(Nat), NEW r \in Nat, NEW k \in Nat, k <= Len(b),
         \A i \in 1..Len(b) : b[i] = r + i
  PROVE  LET c == SubSeq(b, k + 1, Len(b))
         IN /\ c \in Seq(Nat) /\ Len(c) = Len(b) - k
            /\ \A i \in 1..Len(c) : c[i] = r + k + i
<1> DEFINE c == SubSeq(b, k + 1, Len(b))
<1>1. c \in Seq(Nat) /\ Len(c) = Len(b) - k
  OBVIOUS
<1>2. ASSUME NEW i \in 1..Len(c) PROVE c[i] = r + k + i
  <2>1. c[i] = b[k + i] /\ k + i \in 1..Len(b)
    BY <1>1
  <2>2. QED
    BY <2>1
<1>3. QED
  BY <1>1, <1>2, SMTT(30)

LEMMA PipeStart == PipeInit => InOrder
  BY PipeAssumption DEF PipeInit, InOrder, PipeTypeOK, FifoIdle

LEMMA WritePreserves ==
  ASSUME InOrder, NEW n \in Nat, fifo_open, fifo_object_write(n)
  PROVE  InOrder'
<1> USE PipeAssumption
<1>1. CASE Full(n)
  <2>1. /\ has_data' = TRUE /\ can_write' = FALSE /\ fifo_cap' = fifo_cap + FifoStart
        /\ wr' = IF nonblock THEN FifoIdle ELSE Asleep(n)
        /\ UNCHANGED <<fifo_buf, sent, fifo_open, nonblock, rd, rcvd>>
    BY <1>1 DEF fifo_object_write, Raised
  <2>2. /\ wr' \in [pc : {"idle", "poll", "gone"}, n : Nat]
        /\ wr'.pc = "poll" => wr'.n = n
    BY <2>1 DEF FifoIdle, Asleep
  <2>3. fifo_cap \in Nat /\ Len(fifo_buf) \in Nat /\ FifoStart \in Nat /\ Len(fifo_buf) < fifo_cap
    BY DEF InOrder, PipeTypeOK
  <2>4. /\ fifo_cap' \in Nat /\ Len(fifo_buf') < fifo_cap'
        /\ wr'.pc = "poll" => Len(fifo_buf') + wr'.n >= fifo_cap' - FifoStart
    BY ONLY <1>1, <2>1, <2>2, <2>3, n \in Nat, SMTT(30) DEF Full
  <2>5. PipeTypeOK'
    BY <2>1, <2>2, <2>4, Zenon DEF InOrder, PipeTypeOK
  <2>6. QED
    BY <2>1, <2>4, <2>5 DEF InOrder
<1>2. CASE ~Full(n)
  <2>1. /\ sent' = sent + n /\ fifo_buf' = fifo_buf \o [i \in 1..n |-> sent + i]
        /\ wr' = FifoIdle /\ has_data' = TRUE
        /\ UNCHANGED <<fifo_cap, can_write, fifo_open, nonblock, rd, rcvd>>
    BY <1>2 DEF fifo_object_write, Raised
  <2>2. /\ fifo_buf' \in Seq(Nat) /\ Len(fifo_buf') = Len(fifo_buf) + n
        /\ \A i \in 1..Len(fifo_buf') : fifo_buf'[i] = rcvd + i
    <3>1. /\ fifo_buf \in Seq(Nat) /\ rcvd \in Nat /\ sent \in Nat
          /\ sent = rcvd + Len(fifo_buf) /\ \A i \in 1..Len(fifo_buf) : fifo_buf[i] = rcvd + i
      BY DEF InOrder, PipeTypeOK
    <3>2. QED
      BY ONLY <2>1, <3>1, AppendRun, n \in Nat
  <2>3. Len(fifo_buf') < fifo_cap
    BY <1>2, <2>2 DEF Full, InOrder, PipeTypeOK
  <2>4. QED
    BY <2>1, <2>2, <2>3 DEF InOrder, PipeTypeOK, FifoIdle
<1>3. QED
  BY <1>1, <1>2

LEMMA ReadPreserves ==
  ASSUME InOrder, NEW n \in Nat, fifo_open, fifo_object_read(n)
  PROVE  InOrder'
<1> USE PipeAssumption
<1>1. CASE fifo_buf = <<>>
  <2>1. /\ has_data' = FALSE /\ rd' = IF nonblock THEN FifoIdle ELSE Asleep(n)
        /\ UNCHANGED <<fifo_buf, can_write, rcvd, fifo_cap, fifo_open, nonblock, wr, sent>>
    BY <1>1 DEF fifo_object_read
  <2>2. rd' \in [pc : {"idle", "poll", "gone"}, n : Nat]
    BY <2>1 DEF FifoIdle, Asleep
  <2>3. PipeTypeOK'
    BY <2>1, <2>2, Zenon DEF InOrder, PipeTypeOK
  <2>4. QED
    BY <1>1, <2>1, <2>3 DEF InOrder
<1>2. CASE fifo_buf # <<>>
  <2> DEFINE k == IF n > Len(fifo_buf) THEN Len(fifo_buf) ELSE n
  <2>1. /\ fifo_buf' = SubSeq(fifo_buf, k + 1, Len(fifo_buf)) /\ rcvd' = rcvd + k
        /\ has_data' = (has_data /\ fifo_buf' # <<>>) /\ can_write' = TRUE /\ rd' = FifoIdle
        /\ UNCHANGED <<fifo_cap, fifo_open, nonblock, wr, sent>>
    BY <1>2, Zenon DEF fifo_object_read, AfterRead
  <2>2. k \in Nat /\ k <= Len(fifo_buf)
    BY DEF InOrder, PipeTypeOK
  <2> HIDE DEF k
  <2>3. /\ fifo_buf' \in Seq(Nat) /\ Len(fifo_buf') = Len(fifo_buf) - k
        /\ \A i \in 1..Len(fifo_buf') : fifo_buf'[i] = rcvd + k + i
    <3>1. /\ fifo_buf \in Seq(Nat) /\ rcvd \in Nat
          /\ \A i \in 1..Len(fifo_buf) : fifo_buf[i] = rcvd + i
      BY DEF InOrder, PipeTypeOK
    <3>2. QED
      BY ONLY <2>1, <2>2, <3>1, DropRun
  <2>4. has_data
    BY <1>2 DEF InOrder
  <2>5. fifo_cap \in Nat /\ Len(fifo_buf) \in Nat /\ rcvd \in Nat /\ sent = rcvd + Len(fifo_buf)
        /\ Len(fifo_buf) < fifo_cap
    BY DEF InOrder, PipeTypeOK
  <2>6. /\ rcvd' \in Nat /\ sent' = rcvd' + Len(fifo_buf') /\ Len(fifo_buf') < fifo_cap'
        /\ \A i \in 1..Len(fifo_buf') : fifo_buf'[i] = rcvd' + i
    <3>1. rcvd' = rcvd + k /\ sent' = sent /\ fifo_cap' = fifo_cap
      BY <2>1
    <3>2. rcvd' \in Nat /\ sent' = rcvd' + Len(fifo_buf') /\ Len(fifo_buf') < fifo_cap'
      BY ONLY <3>1, <2>2, <2>3, <2>5
    <3>3. \A i \in 1..Len(fifo_buf') : fifo_buf'[i] = rcvd' + i
      BY ONLY <3>1, <2>3
    <3>4. QED
      BY <3>2, <3>3
  <2>7. rd' \in [pc : {"idle", "poll", "gone"}, n : Nat] /\ has_data' \in BOOLEAN
    BY <2>1, SMTT(30) DEF FifoIdle
  <2>8. PipeTypeOK'
    BY <2>1, <2>3, <2>6, <2>7 DEF InOrder, PipeTypeOK
  <2>9. has_data' <=> fifo_buf' # <<>>
    BY <2>1, <2>4, Zenon
  <2>10. QED
    BY <2>1, <2>6, <2>8, <2>9, Zenon DEF InOrder
<1>3. QED
  BY <1>1, <1>2

LEMMA PipeKeeps == InOrder /\ [PipeNext]_pipe_vars => InOrder'
<1> SUFFICES ASSUME InOrder, [PipeNext]_pipe_vars PROVE InOrder'
  OBVIOUS
<1> USE PipeAssumption
<1>1. ASSUME NEW n \in Nat, tmp_write(n) PROVE InOrder'
  <2>1. CASE fifo_open
    BY <1>1, <2>1, WritePreserves DEF tmp_write
  <2>2. CASE ~fifo_open
    BY <1>1, <2>2, SMTT(30) DEF tmp_write, Broken, InOrder, PipeTypeOK, FifoIdle
  <2>3. QED
    BY <2>1, <2>2
<1>2. ASSUME NEW n \in Nat, tmp_read(n) PROVE InOrder'
  <2>1. CASE fifo_open
    BY <1>2, <2>1, ReadPreserves DEF tmp_read
  <2>2. CASE ~fifo_open
    BY <1>2, <2>2 DEF tmp_read, Broken, InOrder, PipeTypeOK, FifoIdle
  <2>3. QED
    BY <2>1, <2>2
<1>3. ASSUME NEW n \in Lens, write(n) PROVE InOrder'
  BY <1>1, <1>3 DEF write
<1>4. ASSUME NEW n \in Lens, read(n) PROVE InOrder'
  BY <1>2, <1>4, SMTT(30) DEF read
<1>5. CASE write_retry
  BY <1>1, <1>5, SMTT(30) DEF write_retry, InOrder, PipeTypeOK
<1>6. CASE read_retry
  BY <1>2, <1>6 DEF read_retry, InOrder, PipeTypeOK
<1>7. CASE write_intr \/ read_intr
  <2>1. /\ wr' \in {wr, FifoIdle} /\ rd' \in {rd, FifoIdle}
        /\ UNCHANGED <<fifo_buf, fifo_cap, has_data, can_write, fifo_open, nonblock, sent, rcvd>>
    BY <1>7 DEF write_intr, read_intr, Broken
  <2>2. PipeTypeOK'
    BY <2>1 DEF InOrder, PipeTypeOK, FifoIdle
  <2>3. wr'.pc = "poll" => wr' = wr
    BY <2>1 DEF FifoIdle
  <2>4. QED
    BY <2>1, <2>2, <2>3 DEF InOrder
<1>8. CASE tmp_close
  <2>1. /\ wr' \in {wr, [pc |-> "gone", n |-> 0]} /\ rd' \in {rd, [pc |-> "gone", n |-> 0]}
        /\ fifo_open' = FALSE
        /\ UNCHANGED <<fifo_buf, fifo_cap, has_data, can_write, nonblock, sent, rcvd>>
    BY <1>8 DEF tmp_close
  <2>2. PipeTypeOK'
    <3> DEFINE Call == [pc : {"idle", "poll", "gone"}, n : Nat]
    <3>1. [pc |-> "gone", n |-> 0] \in Call
      OBVIOUS
    <3>2. wr' \in Call /\ rd' \in Call
      BY <2>1, <3>1 DEF InOrder, PipeTypeOK
    <3>3. QED
      BY <2>1, <3>2, Zenon DEF InOrder, PipeTypeOK
  <2>3. wr'.pc = "poll" => wr' = wr
    BY <2>1
  <2>4. QED
    BY <2>1, <2>2, <2>3 DEF InOrder
<1>9. CASE UNCHANGED pipe_vars
  BY <1>9 DEF pipe_vars, InOrder, PipeTypeOK
<1>10. QED
  BY <1>3, <1>4, <1>5, <1>6, <1>7, <1>8, <1>9 DEF PipeNext

\* The bytes of a pipe come out once each and in order, and the flags that
\* poll looks at are right, for every buffer size and all lengths of calls.
THEOREM PipeInOrder == PipeSpec => []InOrder
<1>1. PipeInit => InOrder
  BY PipeStart
<1>2. InOrder /\ [PipeNext]_pipe_vars => InOrder'
  BY PipeKeeps
<1>3. QED
  BY <1>1, <1>2, PTL DEF PipeSpec

\* Writer and reader are asleep together only over a write that is too long
\* for the buffer it found.
THEOREM PipeStuck == PipeSpec => []StuckOnlyIfTooLong
<1>1. InOrder => StuckOnlyIfTooLong
  BY PipeAssumption DEF InOrder, PipeTypeOK, StuckOnlyIfTooLong, Stuck
<1>2. QED
  BY <1>1, PipeInOrder, PTL

\* The two together: what a pipe promises its writer and its reader.
THEOREM PipeCorrect == PipeSpec => []PipeSound
<1>1. InOrder /\ StuckOnlyIfTooLong => PipeSound
  BY DEF PipeSound
<1> QED
  BY <1>1, PipeInOrder, PipeStuck, PTL
=============================================================================
